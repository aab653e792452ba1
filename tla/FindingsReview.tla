--------------------------- MODULE FindingsReview ---------------------------
(***************************************************************************)
(* The findings of a case, from the screens that write them to the report  *)
(* a family reads. A run's screens sweep the whole record one after the     *)
(* other and a passage two of them ground is one row, merged from the       *)
(* worker's own memory of it; reviewers correct rows with a read and a      *)
(* later write, whether or not the run is over; an automatic gate lints     *)
(* the rows, and it and the staff release them in steps: the status, the    *)
(* rows, the count of the reports, the new one. Ops re-releases the latest  *)
(* report from a read that waits for a model call. Rows of an earlier run   *)
(* are left out: nothing released is read from them again.                 *)
(***************************************************************************)
EXTENDS Naturals, Sequences, FiniteSets, SequencesExt, FiniteSetsExt

CONSTANTS
  Passages,   \* places in the record a finding may quote
  Answers,    \* what a model may say of a passage
  Plan,       \* the screens of a run, each the kind of claim it looks for
  Samples,    \* calls per screen
  Staff,      \* reviewers and operators, a request at a time each
  Licensed,   \* those with a verified bar number
  Changes,    \* what a PATCH may set: a field and its new value
  MaxRuns, MaxPatches, MaxReissues, MaxMishaps \* bounds

Kinds == {"sentence", "outside", "record"}
PreservedValues == <<"unknown", "no", "partial", "yes">>  \* weakest first
ASSUME ReviewAssumption ==
  /\ \A i \in DOMAIN Plan : Plan[i] \in Kinds
  /\ \A a \in Answers : a.weight \in Nat \ {0} /\ a.category \in Kinds /\ a.preserved \in Range(PreservedValues)
  /\ \A c \in Changes : c.field \in {"preserved", "harm", "partA"}
  /\ Licensed \subseteq Staff /\ "auto_qa" \notin Staff
Gate == "auto_qa"
Desks == Staff \cup {Gate}

VARIABLES
  stage,      \* Case.status
  due,        \* the analysis job waits
  engine,     \* the worker
  runNo,      \* of the latest AnalysisRun
  finding,    \* its Finding rows: Passages -> a row or none
  text,       \* the chunks as they are now: Passages -> their edition
  desk,       \* Desks -> the request in flight, or the gate's transaction
  released,   \* the Report rows, oldest first
  tries,      \* how often what is bounded was used
  asserted,   \* history: rows whose vehicle was not derived from what they say
  overtaken   \* history: a report was released beside another one; an approval that
              \* nothing was released beside ends it

reviewVars == <<stage, due, engine, runNo, finding, text, desk, released, tries, asserted, overtaken>>

NoRow == [weight |-> 0]
NoWork == [pc |-> "idle"]
ReviewInit ==
  /\ stage = "DOCS_COMPLETE" /\ due = TRUE /\ engine = NoWork /\ runNo = 0
  /\ finding = [q \in Passages |-> NoRow] /\ text = [q \in Passages |-> 0]
  /\ desk = [e \in Desks |-> NoWork] /\ released = <<>>
  /\ tries = [patches |-> 0, reissues |-> 0, mishaps |-> 0]
  /\ asserted = {} /\ overtaken = FALSE
-----------------------------------------------------------------------------
Found == {q \in Passages : finding[q] /= NoRow}
Verified == \A q \in Found : finding[q].edition = text[q]

\* The door a finding goes through: what kind of claim it is, then whether it was preserved.
VehicleFor(f) ==
  LET kinds == {f.screen, f.category} IN
  IF "sentence" \in kinds THEN "either"
  ELSE IF "outside" \in kinds \/ (f.harm /= "structural" /\ f.preserved = "no") THEN "writ"
  ELSE "direct_appeal"
Derived(f) == [f EXCEPT !.vehicle = VehicleFor(f)]

\* A cite at equal strength changes nothing: the two calls are then the same word.
Strength(w) == SelectInSeq(PreservedValues, LAMBDA x : x = w)
StrongerPreserved(current, incoming) ==
  IF Strength(incoming) > Strength(current) THEN incoming ELSE current

\* One screen's samples of a passage: the strongest that grounds, the first among equals.
GroundUnion(samples) ==
  FoldLeft(LAMBDA keep, a : IF a.weight > keep.weight THEN a ELSE keep, NoRow,
           SelectSeq(samples, LAMBDA a : a.grounds))
Ungrounded(samples) == Len(SelectSeq(samples, LAMBDA a : ~a.grounds))

\* The row a screen writes, and what becomes of one an earlier screen wrote: the stronger
\* copy takes it, the stronger preservation call whichever copy made it.
StructuredFields(a, screen, edition) ==
  Derived([screen |-> screen, category |-> a.category, weight |-> a.weight, preserved |-> a.preserved,
           harm |-> a.harm, partA |-> a.partA, vehicle |-> "", edition |-> edition])
IsStronger(a, kept) == a.weight > kept.weight
Merged(row, kept, a, screen) ==
  LET preserved == StrongerPreserved(kept.preserved, a.preserved) IN
  IF IsStronger(a, kept)
  THEN StructuredFields([a EXCEPT !.preserved = preserved], screen, row.edition)
  ELSE [row EXCEPT !.preserved = preserved]
-----------------------------------------------------------------------------
(* The worker.                                                             *)

StartRun ==
  /\ due /\ engine = NoWork /\ stage \in {"DOCS_COMPLETE", "QA_REJECTED", "ANALYZING"} /\ runNo < MaxRuns
  /\ due' = FALSE /\ stage' = "ANALYZING" /\ runNo' = runNo + 1
  /\ engine' = [pc |-> "screens", at |-> 1, frozen |-> text, dropped |-> 0, touched |-> FALSE,
                kept |-> [q \in Passages |-> NoRow]]
  /\ finding' = [q \in Passages |-> NoRow] /\ asserted' = {}
  /\ UNCHANGED <<text, desk, released, tries, overtaken>>

\* One screen's transaction. said[q] is what its samples say of q, those that say anything.
Written(q, a, screen) ==
  IF a = NoRow THEN finding[q]
  ELSE IF engine.kept[q] = NoRow THEN StructuredFields(a, screen, engine.frozen[q])
  ELSE Merged(finding[q], engine.kept[q], a, screen)
Remembered(q, a, screen) ==
  IF a = NoRow THEN engine.kept[q]
  ELSE IF engine.kept[q] = NoRow THEN StructuredFields(a, screen, engine.frozen[q])
  ELSE Merged(engine.kept[q], engine.kept[q], a, screen)
\* A merge that keeps the row's text may still change what its vehicle was derived from.
Unfollowed(q, a) ==
  \/ a = NoRow /\ q \in asserted
  \/ /\ a /= NoRow /\ engine.kept[q] /= NoRow /\ ~IsStronger(a, engine.kept[q])
     /\ q \in asserted \/ finding[q].preserved /= StrongerPreserved(engine.kept[q].preserved, a.preserved)
SaveScreen ==
  /\ engine.pc = "screens" /\ engine.at <= Len(Plan)
  /\ \E said \in [Passages -> SeqOf(Answers, Samples)] :
       LET union == [q \in Passages |-> GroundUnion(said[q])]
           screen == Plan[engine.at]
       IN  /\ finding' = [q \in Passages |-> Written(q, union[q], screen)]
           /\ engine' = [engine EXCEPT
                !.at = @ + 1, !.kept = [q \in Passages |-> Remembered(q, union[q], screen)],
                !.dropped = @ + MapThenSumSet(LAMBDA q : Ungrounded(said[q]), Passages)]
           /\ asserted' = {q \in Passages : Unfollowed(q, union[q])}
  /\ UNCHANGED <<stage, due, runNo, text, desk, released, tries, overtaken>>

\* A decision written late may have left the case elsewhere: the hand-off then fails, and
\* the job is run again, unless it had read the status before.
HandOff ==
  /\ engine.pc = "screens" /\ engine.at > Len(Plan)
  /\ \/ stage' = "QA_REVIEW" /\ engine' = [engine EXCEPT !.pc = "gate"] /\ UNCHANGED due
     \/ stage /= "ANALYZING" /\ engine' = NoWork /\ due' = TRUE /\ UNCHANGED stage
  /\ UNCHANGED <<runNo, finding, text, desk, released, tries, asserted, overtaken>>

\* Mutant: only the findings that would head the report are linted.
HeldFlawed ==
  \/ \A q \in Passages : engine.kept[q] = NoRow
  \/ engine.dropped > Cardinality({q \in Passages : engine.kept[q] /= NoRow})
  \/ \E q \in Found : finding[q].partA = "advises" /\ finding[q].weight > 1
\* The gate: it looks at the rows first, and snapshots them in a later transaction.
Advising == {q \in Found : finding[q].partA = "advises"}
Held ==
  \/ \A q \in Passages : engine.kept[q] = NoRow
  \/ engine.dropped > Cardinality({q \in Passages : engine.kept[q] /= NoRow})
  \/ Advising /= {}
GateLook ==
  /\ engine.pc = "gate"
  /\ engine' = IF Held THEN NoWork ELSE [engine EXCEPT !.pc = "release"]
  /\ UNCHANGED <<stage, due, runNo, finding, text, desk, released, tries, asserted, overtaken>>

\* What a transaction asks of the status first; the gate in its own, the staff before theirs.
Begun(what) == [pc |-> what, at |-> Len(released)]
GateOpens ==
  /\ engine.pc = "release" /\ desk[Gate] = NoWork
  /\ IF stage = "QA_REVIEW" THEN desk' = [desk EXCEPT ![Gate] = Begun("approve")] /\ UNCHANGED engine
     ELSE engine' = NoWork /\ UNCHANGED desk
  /\ UNCHANGED <<stage, due, runNo, finding, text, released, tries, asserted, overtaken>>

Leaves(x) == desk' = [desk EXCEPT ![x] = NoWork] /\ engine' = IF x = Gate THEN NoWork ELSE engine
\* The rows of the latest run, as they are, if every citation still verifies.
Draft(x) ==
  [run |-> runNo, ver |-> 0, by |-> IF x = Gate THEN "auto_qa" ELSE "staff",
   advises |-> Advising /= {}, seen |-> x = Gate => ~engine.touched]
SnapshotRead(x) ==
  /\ desk[x].pc = "approve"
  /\ IF Verified
     THEN desk' = [desk EXCEPT ![x] = [pc |-> "count", at |-> @.at, draft |-> Draft(x)]] /\ UNCHANGED engine
     ELSE Leaves(x)
  /\ UNCHANGED <<stage, due, runNo, finding, text, released, tries, asserted, overtaken>>
NextVersion == Len(released) + 1
VersionRead(x) ==
  /\ desk[x].pc = "count"
  /\ desk' = [desk EXCEPT ![x] = [pc |-> "numbered", at |-> @.at, draft |-> [@.draft EXCEPT !.ver = NextVersion]]]
  /\ UNCHANGED <<stage, due, engine, runNo, finding, text, released, tries, asserted, overtaken>>
\* The status once more, as the event is appended; then the report and the case by its id,
\* whatever the status is by the time they are committed.
Recheck(x) ==
  /\ desk[x].pc = "numbered"
  /\ IF stage = "QA_REVIEW" THEN desk' = [desk EXCEPT ![x].pc = "write"] /\ UNCHANGED engine ELSE Leaves(x)
  /\ UNCHANGED <<stage, due, runNo, finding, text, released, tries, asserted, overtaken>>
Release(x) ==
  /\ desk[x].pc = "write" /\ Leaves(x)
  /\ released' = Append(released, desk[x].draft) /\ stage' = "READY"
  /\ overtaken' = (Len(released) /= desk[x].at)
  /\ UNCHANGED <<due, runNo, finding, text, tries, asserted>>

\* A run that dies is run again from the start; a gate that dies leaves the case to a person.
Mishap == tries.mishaps < MaxMishaps /\ tries' = [tries EXCEPT !.mishaps = @ + 1]
WorkerDies ==
  /\ Mishap /\ engine.pc /= "idle" /\ Leaves(Gate) /\ due' = (engine.pc = "screens")
  /\ UNCHANGED <<stage, runNo, finding, text, released, asserted, overtaken>>
Redigitize(q) ==
  /\ Mishap /\ text[q] = 0 /\ text' = [text EXCEPT ![q] = 1]
  /\ UNCHANGED <<stage, due, engine, runNo, finding, desk, released, asserted, overtaken>>
-----------------------------------------------------------------------------
(* The staff.                                                              *)

PatchRead(e, q, change) ==
  /\ desk[e] = NoWork /\ q \in Found /\ tries.patches < MaxPatches
  /\ change.field = "preserved" \/ e \in Licensed
  /\ desk' = [desk EXCEPT ![e] = [pc |-> "patch", run |-> runNo, of |-> q, row |-> finding[q], change |-> change]]
  /\ tries' = [tries EXCEPT !.patches = @ + 1]
  /\ UNCHANGED <<stage, due, engine, runNo, finding, text, released, asserted, overtaken>>

\* Mutant: the vehicle follows the preservation call only.
CorrectedFlawed(row, was, change) ==
  LET set == [row EXCEPT ![change.field] = change.to] IN
  IF change.field = "preserved" THEN Derived(set) ELSE set
\* The vehicle is derived from the row as it was read, whatever the row says by now.
Moves(change) == change.field \in {"preserved", "harm"}
Corrected(row, was, change) ==
  LET set == [row EXCEPT ![change.field] = change.to] IN
  IF Moves(change) THEN [set EXCEPT !.vehicle = VehicleFor([was EXCEPT ![change.field] = change.to])] ELSE set
\* What the vehicle is derived from, but the field that is set.
Basis(row, field) == [x \in {"screen", "category", "preserved", "harm"} \ {field} |-> row[x]]
PatchCommit(e) ==
  LET d == desk[e] IN
  /\ d.pc = "patch" /\ desk' = [desk EXCEPT ![e] = NoWork]
  /\ \/ /\ d.run = runNo
        /\ finding' = [finding EXCEPT ![d.of] = Corrected(@, d.row, d.change)]
        /\ asserted' = IF ~Moves(d.change) THEN asserted
                       ELSE IF Basis(finding[d.of], d.change.field) = Basis(d.row, d.change.field)
                       THEN asserted \ {d.of} ELSE asserted \cup {d.of}
        /\ engine' = IF engine.pc = "release" THEN [engine EXCEPT !.touched = TRUE] ELSE engine
     \/ d.run /= runNo /\ UNCHANGED <<finding, asserted, engine>>
  /\ UNCHANGED <<stage, due, runNo, text, released, tries, overtaken>>

\* What a reviewer decides of a case in review; the answer is written by id. A rejection's
\* status is the one read as its event is appended.
Decide(e, what) ==
  /\ desk[e] = NoWork /\ stage = "QA_REVIEW" /\ desk' = [desk EXCEPT ![e] = Begun(what)]
  /\ UNCHANGED <<stage, due, engine, runNo, finding, text, released, tries, asserted, overtaken>>
\* Approve is SnapshotRead, VersionRead, Recheck and Release. A re-run's job is not queued while the
\* one in the worker's hands has its id.
Reject(e) ==
  /\ desk[e].pc \in {"reject", "rerun"} /\ desk' = [desk EXCEPT ![e] = NoWork]
  /\ stage' = "QA_REJECTED"
  /\ due' = (due \/ (desk[e].pc = "rerun" /\ engine = NoWork))
  /\ UNCHANGED <<engine, runNo, finding, text, released, tries, asserted, overtaken>>
\* The family bought a re-run, and its record is complete again.
RerunBought ==
  /\ stage = "READY" /\ runNo < MaxRuns /\ stage' = "DOCS_COMPLETE" /\ due' = (engine = NoWork)
  /\ UNCHANGED <<engine, runNo, finding, text, desk, released, tries, asserted, overtaken>>

\* The report a family is shown: the highest version, any of them if there are several.
Latest == {r \in Range(released) : \A other \in Range(released) : other.ver <= r.ver}
ReissueRead(e) ==
  /\ desk[e] = NoWork /\ tries.reissues < MaxReissues
  /\ \E r \in Latest : desk' = [desk EXCEPT ![e] = [pc |-> "reissue", at |-> Len(released), from |-> r]]
  /\ tries' = [tries EXCEPT !.reissues = @ + 1]
  /\ UNCHANGED <<stage, due, engine, runNo, finding, text, released, asserted, overtaken>>
Again(r) == [r EXCEPT !.ver = @ + 1, !.by = "staff"]
ReissueCommit(e) ==
  /\ desk[e].pc = "reissue" /\ desk' = [desk EXCEPT ![e] = NoWork]
  /\ released' = Append(released, Again(desk[e].from))
  /\ overtaken' = (overtaken \/ Len(released) /= desk[e].at)
  /\ UNCHANGED <<stage, due, engine, runNo, finding, text, tries, asserted>>

ReviewNext ==
  \/ StartRun \/ SaveScreen \/ HandOff \/ GateLook \/ GateOpens \/ WorkerDies \/ RerunBought
  \/ \E q \in Passages : Redigitize(q)
  \/ \E x \in Desks : SnapshotRead(x) \/ VersionRead(x) \/ Recheck(x) \/ Release(x)
  \/ \E e \in Staff : \/ PatchCommit(e) \/ Reject(e) \/ ReissueRead(e) \/ ReissueCommit(e)
                      \/ \E q \in Passages, c \in Changes : PatchRead(e, q, c)
                      \/ \E what \in {"approve", "reject", "rerun"} : Decide(e, what)
ReviewSpec == ReviewInit /\ [][ReviewNext]_reviewVars
-----------------------------------------------------------------------------
(* "The vehicle is derived, never asserted" (qa.ts:140): a finding goes     *)
(* through the door its screen, category, preservation and harm lead to,   *)
(* through merges and corrections alike. Left out are a correction that    *)
(* was read before another one, and a weaker copy that strengthens the     *)
(* preservation call: both write what the door follows from, and keep the  *)
(* door.                                                                   *)
VehicleFollows == \A q \in Found \ asserted : finding[q] = Derived(finding[q])

(* No text that advises reaches a family without a person having released  *)
(* it, corrections between the gate's look and its snapshot left out.      *)
AdviceIsHeld == \A r \in Range(released) : r.by = "auto_qa" /\ r.advises => ~r.seen

(* The one report a family is shown is of the newest run that was          *)
(* released, and there is one. Two releases that overlap may share a       *)
(* version, and a re-release that waited brings an older run back; the     *)
(* next approval that overlaps with none sets both right.                  *)
NewestRunIsShown ==
  overtaken \/ /\ Cardinality(Latest) <= 1
               /\ \A r \in Latest, other \in Range(released) : other.run <= r.run

(* What a family reads has passed, and is the latest that did.             *)
FamilyReadsWhatPassed == AdviceIsHeld /\ NewestRunIsShown
=============================================================================
