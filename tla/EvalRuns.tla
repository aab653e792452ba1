------------------------------ MODULE EvalRuns ------------------------------
(***************************************************************************)
(* The evaluation gate. A start makes a row and a fresh case per ledger,   *)
(* and a driver in the process walks each case through the real pipeline:  *)
(* it copies the reference record, waits until every volume is read and    *)
(* the analysis is complete, and writes down whether each canary was found *)
(* and what it cost. The gate is the newest finished row of every ledger,  *)
(* and is computed twice: ledger by ledger for the Today page, and by the  *)
(* console's page from one listing.                                        *)
(***************************************************************************)
EXTENDS Naturals, Sequences, FiniteSets

CONSTANTS
  Ledgers,     \* the committed ledgers, in the order of their names
  Volumes,     \* volumes of a reference record; each holds one canary
  Floor,       \* the cost from which the margin is too small
  Starters,    \* requests to start a run
  Window,      \* rows of one listing
  MaxTrials,   \* bounds rows
  MaxMisfires, \* bounds what goes wrong: throws, restarts, costs not recorded, four hours gone by
  MaxLooks     \* bounds loads of the console's page

Named == {Ledgers[k] : k \in DOMAIN Ledgers}
ASSUME EvalAssumption ==
  /\ Ledgers \in Seq(Named) /\ Ledgers /= <<>>
  /\ Volumes \in Nat \ {0} /\ Floor \in Nat /\ Window \in Nat \ {0}

VARIABLES
  trial,     \* EvalRun rows in the order of startedAt, each with its driver
  starter,   \* POST /ops/eval/runs in flight
  reading,   \* evalGateStatus in flight: the ledger it reads next, and what it found
  console,   \* the page: its listing, its loads in flight, the rows it started, its error
  misfires,  \* budget used
  looks,     \* budget used
  crossed    \* history: two starts that found no open row, or a load that overtook another

evalVars == <<trial, starter, reading, console, misfires, looks, crossed>>

Trials == DOMAIN trial
NoStart == [pc |-> "none"]
NoReading == [pc |-> "none"]
EvalInit ==
  /\ trial = <<>> /\ starter = [s \in Starters |-> NoStart] /\ reading = NoReading
  /\ console = [rows |-> <<>>, asked |-> {}, own |-> {}, error |-> FALSE]
  /\ misfires = 0 /\ looks = 0 /\ crossed = {}

Misfires == misfires < MaxMisfires /\ misfires' = misfires + 1
Ended(r) == r.status \in {"SCORED", "FAILED"}
-----------------------------------------------------------------------------
(* The gate.                                                               *)

\* The canaries a run's findings match, and those they do not.
ScoreRun(found) == [found |-> found, missed |-> Volumes - found]
Card(r) == ScoreRun(r.found)
\* gateVerdict: every canary found, of one at least, and the margin above its floor.
GatePasses(card, cost) == card.missed = 0 /\ card.found > 0 /\ cost < Floor

Newest(rows) == IF rows = {} THEN 0 ELSE CHOOSE i \in rows : \A j \in rows : j <= i
Passed(r) == r.status = "SCORED" /\ r.pass
\* evalGateStatus, of one ledger: its newest finished row.
\* Mutant: its newest scored row.
LatestOfFlawed(l) == Newest({i \in Trials : trial[i].ledger = l /\ trial[i].status = "SCORED"})
LatestOf(l) == Newest({i \in Trials : trial[i].ledger = l /\ Ended(trial[i])})

Answer(failed, never) ==
  IF Cardinality(never) = Cardinality(Named) THEN "never" ELSE IF failed \cup never = {} THEN "green" ELSE "red"

\* The page's: the first finished row of each ledger in a listing, newest first.
PageGate(rows) ==
  LET first(l) == Newest({i \in DOMAIN rows : rows[i].ledger = l /\ Ended(rows[i])})
      never == {l \in Named : first(l) = 0}
  IN  Answer({l \in Named \ never : ~Passed(rows[first(l)])}, never)
-----------------------------------------------------------------------------
(* startEvalRuns.                                                          *)

Open(l) == {i \in Trials : trial[i].ledger = l /\ trial[i].status \in {"QUEUED", "RUNNING"} /\ trial[i].fresh}
Checking(s) == starter[s].pc = "make" /\ starter[s].left /= {}
StartRuns(s) ==
  /\ starter[s] = NoStart
  /\ \E names \in SUBSET Named \ {{}} :
       /\ \A l \in names : Open(l) = {}
       /\ starter' = [starter EXCEPT ![s] = [pc |-> "make", left |-> names, made |-> {}]]
       /\ crossed' = crossed \cup {l \in names : \E o \in Starters \ {s} :
                                     Checking(o) /\ l \in starter[o].left}
  /\ UNCHANGED <<trial, reading, console, misfires, looks>>
NewTrial(l) ==
  [ledger |-> l, status |-> "QUEUED", pass |-> FALSE, fresh |-> TRUE,
   pc |-> "start", copied |-> 0, read |-> 0, barred |-> 0, found |-> 0, cost |-> 0, unbooked |-> 0, seen |-> 0, late |-> FALSE]
\* The case, and then its row; the driver starts at once. The request names the ledgers in
\* any order.
MakeTrial(s) ==
  /\ Checking(s) /\ Len(trial) < MaxTrials
  /\ \E l \in starter[s].left :
       /\ trial' = Append(trial, NewTrial(l))
       /\ starter' = [starter EXCEPT ![s].left = @ \ {l}, ![s].made = @ \cup {Len(trial) + 1}]
  /\ UNCHANGED <<reading, console, misfires, looks, crossed>>
\* A failure in the loop leaves the rows already made, and their drivers.
StartFails(s) ==
  /\ Checking(s) /\ Misfires /\ starter' = [starter EXCEPT ![s].left = {}]
  /\ UNCHANGED <<trial, reading, console, looks, crossed>>
-----------------------------------------------------------------------------
(* driveEvalRun.                                                           *)

Set(i, pc) == [trial EXCEPT ![i].pc = pc]
Others == UNCHANGED <<starter, reading, console, looks, crossed>>
Is(i, pc) == trial[i].pc = pc
BeginTrial(i) ==
  /\ Is(i, "start") /\ trial' = [Set(i, "ingest") EXCEPT ![i].status = "RUNNING"]
  /\ UNCHANGED misfires /\ Others
CopyVolume(i) ==
  /\ Is(i, "ingest") /\ trial[i].copied < Volumes /\ trial' = [trial EXCEPT ![i].copied = @ + 1]
  /\ UNCHANGED misfires /\ Others
Ingested(i) ==
  /\ Is(i, "ingest") /\ trial[i].copied = Volumes /\ trial' = Set(i, "digitize")
  /\ UNCHANGED misfires /\ Others
\* The digitizer is another process: it reads a volume, or bars an infected one.
ReadVolume(i) ==
  /\ trial[i].read + trial[i].barred < trial[i].copied /\ trial' = [trial EXCEPT ![i].read = @ + 1]
  /\ UNCHANGED misfires /\ Others
BarVolume(i) ==
  /\ trial[i].read + trial[i].barred < trial[i].copied /\ trial' = [trial EXCEPT ![i].barred = @ + 1]
  /\ Misfires /\ Others
\* Mutant: the wait ends with the first volume that is read.
WholeRecordFlawed(r) == r.read > 0
WholeRecord(r) == r.read + r.barred = r.copied /\ r.read > 0
CompleteRecord(i) ==
  /\ Is(i, "digitize") /\ WholeRecord(trial[i]) /\ trial' = [Set(i, "analysis") EXCEPT ![i].seen = trial[i].read]
  /\ UNCHANGED misfires /\ Others
\* The analysis finds some canaries of what was read; its costs are recorded behind it, or are not.
Analysed(i) ==
  /\ Is(i, "analysis")
  /\ \E n \in {0, trial[i].seen}, c \in {1, Floor} :
       trial' = [Set(i, "score") EXCEPT ![i].found = n, ![i].unbooked = c]
  /\ UNCHANGED misfires /\ Others
CostLands(i) ==
  /\ trial[i].unbooked > 0 /\ trial' = [trial EXCEPT ![i].cost = @ + trial[i].unbooked, ![i].unbooked = 0]
  /\ UNCHANGED misfires /\ Others
Score(i) ==
  /\ Is(i, "score")
  /\ trial' = [Set(i, "audit") EXCEPT ![i].status = "SCORED", ![i].late = trial[i].unbooked > 0,
                                    ![i].pass = GatePasses(Card(trial[i]), trial[i].cost)]
  /\ UNCHANGED misfires /\ Others
Audited(i) == Is(i, "audit") /\ trial' = Set(i, "none") /\ UNCHANGED misfires /\ Others
\* Anything that throws, a wait that runs out, and the audit of a score too. The row is
\* written once more, unless that throws as well.
TrialFails(i) ==
  /\ trial[i].pc /= "none" /\ Misfires
  /\ \E status \in {"FAILED", trial[i].status} : trial' = [Set(i, "none") EXCEPT ![i].status = status]
  /\ Others

\* A restart ends drivers and requests; the rows stay as they are.
EvalRestart ==
  /\ \E i \in Trials : trial[i].pc /= "none"
  /\ Misfires
  /\ trial' = [i \in Trials |-> [trial[i] EXCEPT !.pc = "none"]]
  /\ starter' = [s \in Starters |-> IF Checking(s) THEN [starter[s] EXCEPT !.left = {}] ELSE starter[s]]
  /\ reading' = IF reading.pc = "read" THEN NoReading ELSE reading
  /\ UNCHANGED <<console, looks, crossed>>
\* Four hours: only a row without a driver, or one still copying, is open that long.
RowsAge ==
  /\ \E i \in Trials : ~Ended(trial[i]) /\ trial[i].pc \in {"none", "ingest"} /\ trial[i].fresh
  /\ \A i \in Trials : ~Ended(trial[i]) => trial[i].pc \in {"none", "ingest"}
  /\ Misfires
  /\ trial' = [i \in Trials |-> [trial[i] EXCEPT !.fresh = FALSE]]
  /\ Others
-----------------------------------------------------------------------------
(* evalGateStatus: one query for each ledger.                              *)

Told == {<<i, trial[i].status>> : i \in {j \in Trials : Ended(trial[j])}}
AskGate ==
  /\ reading = NoReading
  /\ reading' = [pc |-> "read", next |-> 1, failed |-> {}, never |-> {}, since |-> Told]
  /\ UNCHANGED <<trial, starter, console, misfires, looks, crossed>>
ReadLedger ==
  /\ reading.pc = "read"
  /\ LET l == Ledgers[reading.next]
         failed == reading.failed \cup {x \in {l} : LatestOf(l) /= 0 /\ ~Passed(trial[LatestOf(l)])}
         never == reading.never \cup {x \in {l} : LatestOf(l) = 0}
     IN  reading' = IF reading.next < Len(Ledgers)
                    THEN [reading EXCEPT !.next = @ + 1, !.failed = failed, !.never = never]
                    ELSE [pc |-> "told", answer |-> Answer(failed, never), torn |-> Told /= reading.since,
                          truth |-> PageGate(trial)]
  /\ UNCHANGED <<trial, starter, console, misfires, looks, crossed>>
-----------------------------------------------------------------------------
(* The console's page.                                                     *)

\* listEvalRuns: the newest rows; the page asks again as long as one is open.
Listed ==
  [i \in {j \in Trials : j + Window > Len(trial)} |->
     [ledger |-> trial[i].ledger, status |-> trial[i].status, pass |-> trial[i].pass]]
Polling == \E i \in DOMAIN console.rows : ~Ended(console.rows[i])
Loads(own) ==
  /\ looks < MaxLooks /\ looks' = looks + 1
  /\ console' = [console EXCEPT !.asked = @ \cup {[no |-> looks, rows |-> Listed]},
                                !.own = @ \cup own, !.error = FALSE]
OpenConsole ==
  /\ console.rows = <<>> \/ Polling
  /\ Loads({}) /\ UNCHANGED <<trial, starter, reading, misfires, crossed>>
\* "Run now" awaits its answer, then loads.
Started(s) ==
  /\ starter[s].pc = "make" /\ starter[s].left = {}
  /\ starter' = [starter EXCEPT ![s] = [pc |-> "done"]]
  /\ Loads(starter[s].made) /\ UNCHANGED <<trial, reading, misfires, crossed>>
\* Answers come in any order.
ConsoleShows(load) ==
  /\ console' = [console EXCEPT !.rows = load.rows, !.asked = @ \ {load}]
  /\ crossed' = crossed \cup {"load" : older \in {o \in console.asked : o.no < load.no}}
  /\ UNCHANGED <<trial, starter, reading, misfires, looks>>
\* A refusal or a lost answer: the listing stays as it was, under an error that the next load clears.
ConsoleFails(load) ==
  /\ console' = [console EXCEPT !.asked = @ \ {load}, !.error = TRUE]
  /\ UNCHANGED <<trial, starter, reading, misfires, looks, crossed>>

EvalNext ==
  \/ \E s \in Starters : StartRuns(s) \/ MakeTrial(s) \/ StartFails(s) \/ Started(s)
  \/ \E i \in Trials :
       \/ BeginTrial(i) \/ CopyVolume(i) \/ Ingested(i) \/ ReadVolume(i) \/ BarVolume(i)
       \/ CompleteRecord(i) \/ Analysed(i) \/ CostLands(i) \/ Score(i) \/ Audited(i) \/ TrialFails(i)
  \/ EvalRestart \/ RowsAge \/ AskGate \/ ReadLedger
  \/ OpenConsole \/ \E load \in console.asked : ConsoleShows(load) \/ ConsoleFails(load)

EvalSpec == EvalInit /\ [][EvalNext]_evalVars
-----------------------------------------------------------------------------
(* "An eval run on no record must fail loudly, never score an empty case     *)
(* green" (eval-corpus.service.ts): a row that was scored had every volume   *)
(* of the record read or barred before its analysis began; one that passed   *)
(* found every canary and left its margin, but for costs that were recorded  *)
(* later than they were judged.                                              *)
ScoredOnWholeRecord ==
  \A i \in Trials : trial[i].status = "SCORED" =>
    /\ trial[i].seen + trial[i].barred = Volumes
    /\ trial[i].pass => trial[i].found = Volumes /\ (trial[i].cost < Floor \/ trial[i].late)

(* A ledger has one open run, but where two starts found it free together.   *)
OneOpenRun == \A l \in Named : Cardinality(Open(l)) <= 1 \/ l \in crossed

(* The Today page and the console give one answer about the same rows, but   *)
(* where rows changed between the readings of two ledgers; and a console     *)
(* that has stopped asking shows the rows it started itself or says that it  *)
(* could not load them, but where an older listing arrived last.             *)
GateIsOne ==
  /\ reading.pc = "told" => reading.torn \/ reading.answer = reading.truth
  /\ console.asked = {} /\ ~Polling =>
       console.own \subseteq DOMAIN console.rows \/ console.error \/ "load" \in crossed

GateIsEarned == ScoredOnWholeRecord /\ OneOpenRun /\ GateIsOne
=============================================================================
