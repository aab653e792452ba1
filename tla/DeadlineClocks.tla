--------------------------- MODULE DeadlineClocks --------------------------
(***************************************************************************)
(* The dates counsel and the family are shown: the TRAP clock of a matter   *)
(* (packages/case-lifecycle/trap), on the matter page and in the packet,    *)
(* and the AEDPA year (deadlines.ts). Both are pure functions of recorded   *)
(* dates and of today, computed afresh at every render. The docket moves    *)
(* them: days pass, and dates are recorded on the day they happen.          *)
(***************************************************************************)
EXTENDS Integers, Sequences, FiniteSetsExt

CONSTANTS
  Days,          \* the days something happens on; a day is a number, day 0 a Thursday
  Vehicles,      \* the vehicles of the matters looked at
  Recordable,    \* the dates this docket may record
  LegalHolidays, \* rule-4-1.ts: the days the court is closed
  YearDays,      \* the AEDPA year; 365 in the code
  MaxEntries     \* bounds the dates recorded

NotRecorded == -1
Fields == {"judgmentSigned", "sentenceImposed", "motionForNewTrial", "noticeOfAppeal", "recordFiled",
           "briefFiled", "stateBrief", "replyBrief", "coaJudgment", "rehearingFiled",
           "rehearingDenied", "pdrFiled", "postAffirmanceLetter", "stateReceipt", "stateAnswer", "designationOrder",
           "findings", "transmitted", "pdrDisposed", "certDisposed"}
ASSUME ClockAssumption == Days \subseteq Nat /\ Days /= {} /\ Recordable \subseteq Fields

VARIABLES
  today,    \* the civil day in America/Chicago
  evening,  \* the hours in which UTC is a day ahead
  vehicle,  \* the matter's vehicle
  docket,   \* Fields -> the day recorded, or NotRecorded
  writs,    \* the state applications: the days filed and disposed of
  entries   \* dates recorded so far

clockVars == <<today, evening, vehicle, docket, writs, entries>>
-----------------------------------------------------------------------------
(* rule-4-1.ts *)

Weekend(d) == (d + 4) % 7 \in {6, 0}
Obstacle(d) == Weekend(d) \/ d \in LegalHolidays
\* At most fourteen days on; no run of obstacles is longer.
RollForward(d) == Min({e \in d .. d + 14 : ~Obstacle(e) \/ e = d + 14})
ComputeDue(trigger, days) == RollForward(trigger + days)
-----------------------------------------------------------------------------
(* trap-chain.ts: a trigger is a date of the docket or the due day of a family *)

Vector(family, trigger, days, filed, mnt, rehearing) ==
  [family |-> family, trigger |-> trigger, days |-> days, filed |-> filed, mnt |-> mnt,
   rehearing |-> rehearing, jurisdictional |-> family \in {"noa", "pdr"},
   optional |-> family \in {"mnt", "state_brief", "reply_brief", "rehearing"},
   extension |-> trigger = family]

TrialCourtVectors ==
  {Vector("mnt", "sentenceImposed", 30, "motionForNewTrial", "any", "any"),
   Vector("noa", "sentenceImposed", 30, "noticeOfAppeal", "none", "any"),
   Vector("noa", "sentenceImposed", 90, "noticeOfAppeal", "timely", "any"),
   Vector("noa", "noa", 15, "noticeOfAppeal", "any", "any"),
   Vector("record", "sentenceImposed", 60, "recordFiled", "none", "any"),
   Vector("record", "sentenceImposed", 120, "recordFiled", "timely", "any"),
   Vector("brief", "recordFiled", 30, "briefFiled", "any", "any"),
   Vector("state_brief", "briefFiled", 30, "stateBrief", "any", "any"),
   Vector("reply_brief", "stateBrief", 20, "replyBrief", "any", "any")}

PdrVectors ==
  {Vector("rehearing", "coaJudgment", 15, "rehearingFiled", "any", "any"),
   Vector("pdr", "coaJudgment", 30, "pdrFiled", "any", "none"),
   Vector("pdr", "rehearingDenied", 30, "pdrFiled", "any", "filed"),
   Vector("pdr", "pdr", 15, "pdrFiled", "any", "any"),
   Vector("post_affirmance_notice", "coaJudgment", 5, "postAffirmanceLetter", "any", "any")}

WritChain ==
  {Vector("state_answer", "stateReceipt", 15, "stateAnswer", "any", "any"),
   Vector("designation", "state_answer", 20, "designationOrder", "any", "any"),
   Vector("resolution_180", "stateReceipt", 180, "findings", "any", "any"),
   Vector("transmittal_181", "stateReceipt", 181, "transmitted", "any", "any")}

\* 11.071 is refused; 11.072, 11.09 and 2254 have no chain.
VectorsFor(v) ==
  CASE v = "direct_appeal" -> TrialCourtVectors \cup PdrVectors
    [] v = "pdr_clock" -> PdrVectors
    [] v = "11.07" -> WritChain
    [] OTHER -> {}
-----------------------------------------------------------------------------
(* clock.ts: computeTrapClock over the dates dk on the day now *)

\* The day the judgment was signed stands in for a sentencing day not recorded.
Dated(dk) == [dk EXCEPT !.sentenceImposed = IF @ = NotRecorded THEN dk.judgmentSigned ELSE @]

Timely(dk, field, trigger, days) ==
  dk[field] /= NotRecorded /\ dk[trigger] /= NotRecorded /\ dk[field] <= ComputeDue(dk[trigger], days)
MntMode(dk) ==
  IF Timely(dk, "motionForNewTrial", "sentenceImposed", 30) THEN "timely" ELSE "none"
\* Mutant: an untimely motion moves the trigger too.
RehearingModeFlawed(dk) ==
  IF dk.rehearingFiled /= NotRecorded \/ dk.rehearingDenied /= NotRecorded THEN "filed" ELSE "none"
\* A rehearing whose filing or whose judgment is not recorded is taken for timely.
RehearingMode(dk) ==
  LET told == dk.rehearingFiled /= NotRecorded \/ dk.rehearingDenied /= NotRecorded
      testable == dk.rehearingFiled /= NotRecorded /\ dk.coaJudgment /= NotRecorded
  IN  IF told /\ (testable => Timely(dk, "rehearingFiled", "coaJudgment", 15)) THEN "filed" ELSE "none"
Applies(v, dk) == v.mnt \in {"any", MntMode(dk)} /\ v.rehearing \in {"any", RehearingMode(dk)}

BaseOf(family, vs, dk) == {v \in vs : v.family = family /\ ~v.extension /\ Applies(v, dk)}
InputDue(v, dk) ==
  IF dk[v.trigger] = NotRecorded THEN NotRecorded ELSE ComputeDue(dk[v.trigger], v.days)
Due(v, vs, dk) ==
  IF v.trigger \in Fields THEN InputDue(v, dk)
  ELSE LET base == {InputDue(b, dk) : b \in BaseOf(v.trigger, vs, dk)} \ {NotRecorded}
       IN  IF base = {} THEN NotRecorded ELSE ComputeDue(Max(base), v.days)

FiledLate(v, vs, dk) == dk[v.filed] /= NotRecorded /\ dk[v.filed] > Due(v, vs, dk)
Status(v, vs, dk, now) ==
  LET due == Due(v, vs, dk)
  IN  CASE due = NotRecorded -> "not_yet"
        [] due /= NotRecorded /\ dk[v.filed] /= NotRecorded ->
             IF v.extension /\ FiledLate(v, vs, dk) THEN "missed" ELSE "done"
        [] due /= NotRecorded /\ dk[v.filed] = NotRecorded ->
             CASE due >= now -> "open" [] due < now /\ v.optional -> "dropped" [] OTHER -> "missed"

\* An extension is listed only while its parent is open, missed or was filed late.
Matters(v, vs, dk, now) ==
  v.extension => \E b \in BaseOf(v.family, vs, dk) :
                   LET s == Status(b, vs, dk, now)
                   IN  s /= "not_yet" /\ (s = "done" => FiledLate(b, vs, dk))
Steps(v, dk, now) ==
  LET vs == VectorsFor(v)
  IN  {[vector |-> x, due |-> Due(x, vs, dk), late |-> FiledLate(x, vs, dk),
        status |-> Status(x, vs, dk, now)] :
        x \in {x \in vs : /\ Applies(x, dk) /\ Matters(x, vs, dk, now)
                          /\ Status(x, vs, dk, now) /= "dropped"}}

ExtensionMet(s, steps) ==
  \E e \in steps : e.vector.extension /\ e.vector.family = s.vector.family /\ e.status = "done"
Missed(s, steps) ==
  s.vector.jurisdictional
  /\ (s.status = "missed"
      \/ (s.status = "done" /\ s.late /\ ~s.vector.extension /\ ~ExtensionMet(s, steps)))
\* The families of the clock's missed jurisdictional steps.
MissedJurisdictional(v, dk, now) ==
  LET steps == Steps(v, Dated(dk), now)
  IN  {s.vector.family : s \in {s \in steps : Missed(s, steps)}}

\* trapInputsForMatter hands over the four dates a matter has a column for.
MatterDates == {"judgmentSigned", "sentenceImposed", "noticeOfAppeal", "recordFiled"}
\* Mutant: the day the judgment was signed is left behind.
TrapInputsFlawed(dk) ==
  [f \in Fields |-> IF f \in MatterDates \ {"judgmentSigned"} THEN dk[f] ELSE NotRecorded]
TrapInputs(dk) == [f \in Fields |-> IF f \in MatterDates THEN dk[f] ELSE NotRecorded]
\* The matter page's today is the UTC day; the packet's is the day in America/Chicago.
PageDay == IF evening THEN today + 1 ELSE today
MatterPage == MissedJurisdictional(vehicle, TrapInputs(docket), PageDay)
Packet == MissedJurisdictional(vehicle, TrapInputs(docket), today)
-----------------------------------------------------------------------------
(* deadlines.ts *)

\* computeFinality: the last step of direct review that is recorded.
Finality ==
  CASE docket.certDisposed /= NotRecorded -> docket.certDisposed
    [] docket.certDisposed = NotRecorded /\ docket.pdrDisposed /= NotRecorded -> docket.pdrDisposed + 90
    [] docket.certDisposed = NotRecorded /\ docket.pdrDisposed = NotRecorded
         /\ docket.coaJudgment /= NotRecorded -> docket.coaJudgment + 30
    [] OTHER -> docket.judgmentSigned + (IF docket.motionForNewTrial /= NotRecorded THEN 90 ELSE 30)

Disposed(w) == w.disposed /= NotRecorded
\* Mutant: a writ tolls from its filing, before the year has begun as well.
TolledFlawed(w) ==
  Max({(IF Disposed(w) THEN w.disposed ELSE today) - w.filed, 0})
\* The part of a writ's pendency that lies between finality and today.
Tolled(w) ==
  LET start == Max({w.filed - Finality, 0})
      end == Min({(IF Disposed(w) THEN w.disposed ELSE today) - Finality, today - Finality})
  IN  Max({end - start, 0})
DaysTolled ==
  LET tolled[n \in 0 .. Len(writs)] == IF n = 0 THEN 0 ELSE tolled[n - 1] + Tolled(writs[n])
  IN  tolled[Len(writs)]
DaysElapsed == Max({Max({today - Finality, 0}) - DaysTolled, 0})
Expired == DaysElapsed >= YearDays
TollingNow == \E i \in DOMAIN writs : ~Disposed(writs[i]) /\ writs[i].filed <= today
-----------------------------------------------------------------------------
\* A petition's clock starts from the judgment, a PDR's from the court of appeals.
ClockInit ==
  /\ today = Min(Days) /\ evening = FALSE /\ writs = << >> /\ entries = 0
  /\ vehicle \in Vehicles
  /\ docket = [f \in Fields |->
                 IF f = (CASE vehicle = "2254" -> "judgmentSigned" [] vehicle = "11.07" -> "stateReceipt"
                           [] vehicle = "pdr_clock" -> "coaJudgment" [] OTHER -> "sentenceImposed")
                 THEN today ELSE NotRecorded]

Pass ==
  /\ today' \in {d \in Days : d > today}
  /\ evening' = FALSE
  /\ UNCHANGED <<vehicle, docket, writs, entries>>
Dusk ==
  /\ ~evening
  /\ evening' = TRUE
  /\ UNCHANGED <<today, vehicle, docket, writs, entries>>

\* A date is recorded on its day; one recorded in error is taken back.
Record(f) ==
  /\ entries < MaxEntries
  /\ \E d \in {today, NotRecorded} \ {docket[f]} : docket' = [docket EXCEPT ![f] = d]
  /\ entries' = entries + 1
  /\ UNCHANGED <<today, evening, vehicle, writs>>

FileWrit ==
  /\ vehicle = "2254" /\ entries < MaxEntries
  /\ writs' = Append(writs, [filed |-> today, disposed |-> NotRecorded])
  /\ entries' = entries + 1
  /\ UNCHANGED <<today, evening, vehicle, docket>>
DisposeWrit(i) ==
  /\ ~Disposed(writs[i])
  /\ writs' = [writs EXCEPT ![i].disposed = today]
  /\ UNCHANGED <<today, evening, vehicle, docket, entries>>

ClockNext ==
  \/ Pass \/ Dusk \/ FileWrit
  \/ \E f \in Recordable : Record(f)
  \/ \E i \in DOMAIN writs : DisposeWrit(i)

ClockSpec == ClockInit /\ [][ClockNext]_clockVars
-----------------------------------------------------------------------------
\* What TRAP 26.2, 26.3 and 68.2 say, of the dates dk on the day now, of a family whose base
\* deadline is due.
OutOfTime(filed, due, now) ==
  IF filed = NotRecorded THEN now > due ELSE filed > ComputeDue(due, 15)
MotionInTime(dk) ==
  dk.motionForNewTrial /= NotRecorded /\ dk.motionForNewTrial <= ComputeDue(Dated(dk).sentenceImposed, 30)
NoticeDue(dk) == ComputeDue(Dated(dk).sentenceImposed, IF MotionInTime(dk) THEN 90 ELSE 30)
NoticeLost(dk, now) ==
  Dated(dk).sentenceImposed /= NotRecorded /\ OutOfTime(dk.noticeOfAppeal, NoticeDue(dk), now)
PetitionLost(dk, now) ==
  LET moved == \/ /\ dk.rehearingFiled /= NotRecorded
                  /\ dk.coaJudgment /= NotRecorded => dk.rehearingFiled <= ComputeDue(dk.coaJudgment, 15)
               \/ dk.rehearingFiled = NotRecorded /\ dk.rehearingDenied /= NotRecorded
      from == IF moved THEN dk.rehearingDenied ELSE dk.coaJudgment
  IN  from /= NotRecorded /\ OutOfTime(dk.pdrFiled, ComputeDue(from, 30), now)

\* Given the whole docket or the four dates of a matter, on either day, the
\* vector table and the loop over it report a jurisdictional step missed exactly
\* when the rules, read one deadline at a time, say that it is: a filing in the
\* extension's window saves it, an untimely motion never moves it.
MissedMeansLate ==
  vehicle \in {"direct_appeal", "pdr_clock"} =>
    \A dk \in {docket, TrapInputs(docket)}, now \in {today, PageDay} :
      MissedJurisdictional(vehicle, dk, now)
        = {f \in {"noa"} : vehicle = "direct_appeal" /\ NoticeLost(dk, now)} \cup {f \in {"pdr"} : PetitionLost(dk, now)}

\* What the matter page and the packet say of an appeal. They are given four of
\* its dates, so they never say that a petition is lost. They both say so of
\* a notice that is; and of one that is not only if a motion in time has
\* saved it, which they do not know of, or, the page, on the evening of its last
\* day, which by UTC is over.
SurfacesSay ==
  /\ Packet \subseteq MatterPage /\ MatterPage \subseteq {"noa"}
  /\ vehicle = "direct_appeal" /\ NoticeLost(docket, today) => "noa" \in Packet
  /\ "noa" \in Packet => NoticeLost(docket, today) \/ MotionInTime(docket)
  /\ "noa" \in MatterPage \ Packet => evening /\ today = NoticeDue(TrapInputs(docket))

Pending(w, d) == w.filed <= d /\ (Disposed(w) => d < w.disposed)
SinceFinality == Finality .. today - 1
\* The days of each writ: one on which two were pending is there twice.
WritDays == {p \in (DOMAIN writs) \X SinceFinality : Pending(writs[p[1]], p[2])}
DaysThatRan == {d \in SinceFinality : ~\E i \in DOMAIN writs : Pending(writs[i], d)}
Overlap == \E p, q \in WritDays : p /= q /\ p[2] = q[2]
\* The AEDPA year the report shows has run on exactly the days since finality on
\* which no state application was pending; each day on which two were is taken off
\* twice, and the year is shown shorter than it is, never longer.
YearIsTheDaysThatRan ==
  vehicle = "2254" =>
    /\ DaysElapsed = Max({Cardinality(SinceFinality) - Cardinality(WritDays), 0})
    /\ DaysElapsed <= Cardinality(DaysThatRan)
    /\ ~Overlap => DaysElapsed = Cardinality(DaysThatRan)

\* The appeal's deadlines, on the matter page and in the packet as far as they
\* go, and the federal year say what the rules say.
ClocksAreRight == MissedMeansLate /\ SurfacesSay /\ YearIsTheDaysThatRan
=============================================================================
