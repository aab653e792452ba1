------------------------------ MODULE CaseFacts -----------------------------
(***************************************************************************)
(* What a case knows about itself, in the five places it is kept: the JSON  *)
(* Case.facts, Case.deadlineFacts, the columns lane, subsequentWrit and     *)
(* convictionYear, counsel's Matter, and the checklist seeded from them.    *)
(* POST interview, PATCH facts (intake.ts) and PATCH matter (matters.ts)    *)
(* each read the row, merge their answer into what they read, and write the *)
(* whole JSON back; the row is locked only from that write on.              *)
(***************************************************************************)
EXTENDS FiniteSets, Naturals

CONSTANTS
  Editors,    \* requests in flight
  Dates,      \* judgment dates, as numbers; a date's year is itself
  None,       \* no answer, no date, no matter
  MaxEdits    \* bounds the edits asked for

\* Counsel's Matter, what the case's own answers are read against: "None" is no
\* date, no answer and no matter, and none of those.
Matter == [signed : Dates \cup {None}, imposed : Dates \cup {None}, sub : BOOLEAN,
           vehicle : {"direct_appeal", "11.07"}]
ASSUME NoneAssumption == None \notin Matter \cup Dates /\ None /= "none"

TrialItems == {"rr_volume", "judgment", "indictment", "clerks_record", "appellate_opinion"}
PleaItems == {"plea_papers", "admonishments", "judicial_confession", "plea_agreement", "judgment"}
SubsequentWritItems == {"prior_writ_application", "prior_writ_answer", "prior_writ_findings"}

\* checklistTemplate, with the two defaults its callers apply: no lane is TRIAL.
ChecklistTemplate(lane, sub, hadAppeal) ==
  LET base == IF lane = "PLEA" THEN PleaItems ELSE TrialItems
  IN  (IF hadAppeal THEN base ELSE base \ {"appellate_opinion"})
        \cup (IF sub THEN SubsequentWritItems ELSE {})

VARIABLES
  row,        \* the Case row: status, the columns, facts and deadlineFacts
  matter,     \* counsel's Matter row; None for a family's case
  items,      \* the checklist: kind -> NEEDED or UPLOADED
  editor,     \* Editors -> the request in flight, with what it read
  edits,      \* edits asked for so far
  raced,      \* history: an edit wrote what it had made of a row changed since
  overruled,  \* history: PATCH facts or the interview spoke over the matter
  brought     \* history: the judgment date a deadlineFacts of its own brought, until an edit sets it

factsVars == <<row, matter, items, editor, edits, raced, overruled, brought>>

LaneOf(plea) == IF plea = "plea" THEN "PLEA" ELSE "TRIAL"
HadAppeal(facts) == facts.appeal /= "none"
MatterJudgmentDate(m) == IF m.imposed /= None THEN m.imposed ELSE m.signed
\* A matter's dates open until the pipeline has read them; "IN_REVIEW" is every later status.
MatterFactsLocked(status) == status = "IN_REVIEW"
NoEdit == [op |-> "none"]

\* seedChecklist: what the template has and the case does not; nothing is taken away.
Seeded(its, lane, sub, hadAppeal) ==
  [k \in DOMAIN its \cup ChecklistTemplate(lane, sub, hadAppeal) |->
     IF k \in DOMAIN its THEN its[k] ELSE "NEEDED"]
\* Both re-seeding handlers first drop the items nothing was received for.
Started == [k \in {k \in DOMAIN items : items[k] /= "NEEDED"} |-> items[k]]

\* fulfillCheckoutSession: the case a family bought, from its free check; an
\* unanswered appeal or year leaves the checklist to the interview.
FamilyCase(plea, appeal, prior, year, judgment) ==
  LET lane == IF plea = None THEN None ELSE LaneOf(plea)
      asked == plea = None \/ year = None \/ appeal = None
  IN  /\ row = [status |-> "AWAITING_DOCS", lane |-> lane, sub |-> prior = "yes", year |-> year,
                deadline |-> judgment,
                facts |-> [judgment |-> judgment, year |-> year, plea |-> plea,
                           appeal |-> appeal, prior |-> prior, merits |-> None]]
      /\ matter = None
      /\ items = IF asked THEN << >>
                 ELSE Seeded(<< >>, lane, prior = "yes", appeal /= "none")

\* POST /counsel/matters: the form is the interview.
CounselCase(vehicle, plea, prior, signed, imposed) ==
  LET m == [signed |-> signed, imposed |-> imposed, sub |-> prior = "yes", vehicle |-> vehicle]
      jd == MatterJudgmentDate(m)
      lane == IF plea = None THEN None ELSE LaneOf(plea)
  IN  /\ matter = m
      /\ row = [status |-> "AWAITING_DOCS", lane |-> lane, sub |-> prior = "yes", year |-> jd,
                deadline |-> jd,
                facts |-> [judgment |-> jd, year |-> jd, plea |-> plea, appeal |-> None,
                           prior |-> prior, merits |-> None]]
      /\ items = Seeded(<< >>, lane, prior = "yes", vehicle /= "direct_appeal")

FactsInit ==
  /\ \/ \E appeal \in {None, "decided"}, jd \in Dates \cup {None} : FamilyCase("trial", appeal, "no", jd, jd)
     \/ FamilyCase(None, None, None, None, None)
     \/ \E vehicle \in {"direct_appeal", "11.07"}, signed \in Dates : CounselCase(vehicle, "trial", "no", signed, None)
  /\ editor = [e \in Editors |-> NoEdit]
  /\ edits = 0 /\ raced = FALSE /\ overruled = FALSE /\ brought = None
-----------------------------------------------------------------------------
\* The parts of the row an edit makes its own out of: the JSON is written back whole.
Merged(r) == [lane |-> r.lane, sub |-> r.sub, deadline |-> r.deadline, facts |-> r.facts]

\* An edit reads the row and passes its guards; its answer is in the request.
Read(e, request) ==
  /\ editor[e] = NoEdit /\ edits < MaxEdits
  /\ editor' = [editor EXCEPT ![e] = [op |-> request.op, asks |-> request, row |-> Merged(row)]]
  /\ edits' = edits + 1
  /\ UNCHANGED <<row, matter, items, raced, overruled, brought>>

\* The commit: what was read, changed and written back, whatever the row holds by now.
Write(e, written, its, speaksOver) ==
  /\ row' = written /\ items' = its
  /\ editor' = [editor EXCEPT ![e] = NoEdit]
  /\ raced' = (raced \/ editor[e].row /= Merged(row))
  /\ overruled' = IF matter = None THEN FALSE ELSE speaksOver
  /\ UNCHANGED edits

\* The page sends the appeal only while it is unknown, and a date only when there is one; the
\* route takes a whole deadlineFacts too, own is the judgment date in it.
InterviewRead(e) ==
  /\ row.status = "AWAITING_DOCS"
  /\ \E year \in Dates, appeal \in {None, "decided", "none"}, jd, own \in Dates \cup {None} :
       /\ appeal = None <=> row.facts.appeal /= None
       /\ Read(e, [op |-> "interview", year |-> year, appeal |-> appeal, judgment |-> jd, own |-> own])

\* A deadlineFacts of the request's own replaces what there is, whatever the facts' date; without
\* one it is written only when there is something to write. The lane and the mode the checklist
\* is seeded by are those that were read.
InterviewCommit(e) ==
  LET asks == editor[e].asks
      saw == editor[e].row
      facts == [saw.facts EXCEPT !.year = asks.year,
                                 !.appeal = IF asks.appeal = None THEN @ ELSE asks.appeal,
                                 !.judgment = IF asks.judgment = None THEN @ ELSE asks.judgment]
      deadline == IF asks.own /= None THEN asks.own
                  ELSE IF asks.judgment /= None THEN asks.judgment
                  ELSE IF saw.deadline /= None THEN saw.deadline ELSE row.deadline
  IN  /\ editor[e].op = "interview"
      /\ Write(e, [row EXCEPT !.year = asks.year, !.deadline = deadline, !.facts = facts],
               Seeded(Started, saw.lane, saw.sub, HadAppeal(facts)), TRUE)
      /\ brought' = IF asks.judgment /= None \/ asks.own /= None THEN asks.own ELSE brought
      /\ UNCHANGED matter

Shaping == {"plea", "appeal", "prior"}
Answers(key) ==
  CASE key = "plea" -> {"trial", "plea"} [] key = "appeal" -> {"decided", "none"}
    [] key = "prior" -> {"no", "yes"} [] key = "year" -> Dates [] OTHER -> Dates \cup {None}

FactsRead(e) ==
  \E key \in Shaping \cup {"year", "judgment"} : \E value \in Answers(key) :
    /\ key \in Shaping => row.status = "AWAITING_DOCS"
    /\ Read(e, [op |-> "facts", key |-> key, value |-> value])

\* Mutant: the columns are not derived again from the answers.
FactsWrittenFlawed(saw, key, value) ==
  LET facts == [saw.facts EXCEPT ![key] = value]
  IN  [row EXCEPT !.facts = facts,
                  !.year = IF key = "year" THEN value ELSE @,
                  !.deadline = IF key = "judgment" THEN value ELSE saw.deadline]

\* The row PATCH facts writes: the JSON and deadlineFacts always, a column if its answer was given.
FactsWritten(saw, key, value) ==
  LET facts == [saw.facts EXCEPT ![key] = value]
      shaped == IF key \in Shaping
                THEN [row EXCEPT !.lane = IF key = "plea" THEN LaneOf(value) ELSE saw.lane,
                                 !.sub = IF key = "prior" THEN value = "yes" ELSE saw.sub]
                ELSE row
  IN  [shaped EXCEPT !.facts = facts,
                     !.year = IF key = "year" THEN value ELSE @,
                     !.deadline = IF key = "judgment" THEN value ELSE saw.deadline]

FactsCommit(e) ==
  LET asks == editor[e].asks
      written == FactsWritten(editor[e].row, asks.key, asks.value)
  IN  /\ editor[e].op = "facts"
      /\ Write(e, written,
               IF asks.key \in Shaping
               THEN Seeded(Started, written.lane, written.sub, HadAppeal(written.facts))
               ELSE items,
               TRUE)
      /\ brought' = IF asks.key = "judgment" THEN None ELSE brought
      /\ UNCHANGED matter

MatterRead(e) ==
  /\ matter /= None
  /\ \/ /\ ~MatterFactsLocked(row.status)
        /\ \E key \in {"signed", "imposed"}, value \in Dates \cup {None} :
             Read(e, [op |-> "matter", key |-> key, value |-> value])
     \/ \E value \in {None, "merits"} :
          Read(e, [op |-> "matter", key |-> "merits", value |-> value])

\* Clearing the last date clears the column and both judgment dates, and leaves facts.convictionYear.
MatterCommit(e) ==
  LET asks == editor[e].asks
      saw == editor[e].row.facts
      m == IF asks.key = "merits" THEN matter ELSE [matter EXCEPT ![asks.key] = asks.value]
      jd == MatterJudgmentDate(m)
      dated == [saw EXCEPT !.judgment = jd, !.year = IF jd = None THEN @ ELSE jd]
  IN  /\ editor[e].op = "matter"
      /\ matter' = m
      /\ brought' = IF asks.key = "merits" THEN brought ELSE None
      /\ IF asks.key = "merits"
         THEN Write(e, [row EXCEPT !.facts = [saw EXCEPT !.merits = asks.value]], items, overruled)
         ELSE Write(e, [row EXCEPT !.facts = dated, !.year = jd, !.deadline = jd], items, FALSE)

\* A page of the record is filed under an item.
Receive(k) ==
  /\ k \in DOMAIN items /\ items[k] = "NEEDED"
  /\ items' = [items EXCEPT ![k] = "UPLOADED"]
  /\ UNCHANGED <<row, matter, editor, edits, raced, overruled, brought>>

\* Records complete, the pipeline, and the re-run that opens the case again.
Advance ==
  \E step \in {<<"AWAITING_DOCS", "DOCS_COMPLETE">>, <<"DOCS_COMPLETE", "IN_REVIEW">>,
               <<"IN_REVIEW", "AWAITING_DOCS">>} :
    /\ row.status = step[1]
    /\ row' = [row EXCEPT !.status = step[2]]
    /\ UNCHANGED <<matter, items, editor, edits, raced, overruled, brought>>

FactsNext ==
  \/ \E e \in Editors : \/ InterviewRead(e) \/ InterviewCommit(e)
                        \/ FactsRead(e) \/ FactsCommit(e)
                        \/ MatterRead(e) \/ MatterCommit(e)
  \/ \E k \in {"rr_volume"} : Receive(k)
  \/ Advance

FactsSpec == FactsInit /\ [][FactsNext]_factsVars
-----------------------------------------------------------------------------
\* The date the engine counts from is the one the facts have, or the last that came by itself.
DatesAgree == row.deadline = IF brought = None THEN row.facts.judgment ELSE brought
ShapeAgrees ==
  /\ row.facts.plea = None \/ row.lane = LaneOf(row.facts.plea)
  /\ row.sub = (row.facts.prior = "yes")
YearsAgree ==
  row.year = row.facts.year \/ (matter /= None /\ MatterJudgmentDate(matter) = None)
\* What is still asked for is in the template; only an opinion that a direct
\* appeal was not asked for may be missing from it.
ChecklistAgrees ==
  items /= << >> =>
    LET template == ChecklistTemplate(row.lane, row.sub, HadAppeal(row.facts))
    IN  /\ {k \in DOMAIN items : items[k] = "NEEDED"} \subseteq template
        /\ template \ DOMAIN items \subseteq {"appellate_opinion"}
MatterAgrees == matter /= None /\ ~overruled => row.facts.judgment = MatterJudgmentDate(matter)

\* One story: as long as no edit was made of a row that changed under it, the
\* dates the deadline engine and the report count from, the lane and mode the
\* analysis runs in, the conviction year, the checklist and counsel's matter
\* say the same thing, whatever edits came in whatever order; but for a judgment date that
\* came in a deadlineFacts of its own, which the engine counts from, and the facts do not
\* know of, until an edit sets the date again.
OneStoryUnlessRaced ==
  raced \/ (DatesAgree /\ ShapeAgrees /\ YearsAgree /\ ChecklistAgrees /\ MatterAgrees)
=============================================================================
