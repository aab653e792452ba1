------------------------- MODULE AnalysisPipelineProofs -------------------------
(***************************************************************************)
(* What holds of AnalysisPipeline for every set of documents and handlers, *)
(* every choice of operations and every bound.                             *)
(*                                                                         *)
(* The safety properties are not inductive: a handler's second step is only *)
(* safe because of what its first step read, and because of what nobody can *)
(* have changed since.  The invariants below add exactly that, one for each *)
(* promise that a step in flight relies on.                                *)
(* The last section proves what is left of three promises the code breaks:  *)
(* of the first analysis, of a refund nobody overtakes, and of a deletion.  *)
(***************************************************************************)
EXTENDS AnalysisPipeline, TLAPS, FiniteSetTheorems

TypeInv == TypeOK /\ JobIdGuardsTheRun

\* The handler between its UPDATE and its COMMIT holds the row lock, alone, and
\* so the row is still there.
LockInv ==
  \A s \in Slots : slots[s].pc = "commit" => lock = {s} /\ status # Gone

\* While a run is inside the worker it stays the latest run, and a retry that
\* found the case ANALYZING cannot meet a QA_REVIEW.
WorkerRunInv ==
  /\ worker.pc \in {"screens", "tx3"} /\ status # Gone => worker.run = Len(runs)
  /\ worker.pc = "tx1" /\ worker.saw = "ANALYZING" => status # "QA_REVIEW"

\* A case in QA_REVIEW was brought there by its latest run, and an approval
\* that read so carries a completed run to its commit.
ReviewInv ==
  status # Gone =>
    /\ status = "QA_REVIEW" => Len(runs) \in completed
    /\ worker.pc = "autotx" => worker.run \in completed
    /\ \A s \in Slots :
         At(s, "approve", "tx") \/ At(s, "republish", "publish") => slots[s].run \in completed

\* The statuses a case can have only with its clock running.
Started == {"DOCS_COMPLETE", "ANALYZING", "QA_REVIEW", "QA_REJECTED", "READY"}

\* The clock runs in these, and for every handler that is about to write one.
ClockInv ==
  /\ status \in Started => sla > 0
  /\ worker.pc \in {"tx1", "screens", "tx3", "auto", "autotx"} => sla > 0
  /\ \A s \in Slots :
       /\ slots[s].op \in {"records", "reanalyze"} /\ slots[s].pc \in {"tx", "commit"}
            => slots[s].flag \/ sla > 0
       /\ slots[s].op \in {"approve", "qaRerun", "qaReject"} /\ slots[s].pc = "tx" => sla > 0

\* A case that is due an analysis, a worker inside a run and a records-complete in
\* flight each rest on a call for an analysis that no completed run has used up; the
\* worker and a reopened case, or a worker past its last screen and a records-complete,
\* on one each.
Owed(n) == Cardinality(completed) + n <= openings
Due == {"AWAITING_DOCS", "DOCS_COMPLETE", "ANALYZING", "QA_REJECTED"}
Inside == worker.pc \in {"tx1", "screens", "tx3"}
PastScreens == worker.pc = "tx3" \/ (worker.pc = "screens" /\ worker.left = 0)
Declaring == \E s \in Slots : slots[s].op = "records" /\ slots[s].pc \in {"tx", "commit"}

OwedInv ==
  /\ IsFiniteSet(completed) /\ Owed(0)
  /\ status \in Due \/ Inside \/ Declaring => Owed(1)
  /\ (Inside /\ status = "AWAITING_DOCS") \/ (PastScreens /\ Declaring) => Owed(2)

ReviewPart == WorkerRunInv /\ ReviewInv /\ ReleasedReportIsOfACompletedRun

-------------------------------------------------------------------------------
(* Types                                                                   *)

LEMMA IdleTypes == IdleWorker \in WorkerType /\ IdleSlot \in SlotType
BY BoundsAssumption DEF IdleWorker, IdleSlot, WorkerType, SlotType, Rows

\* A handler's record stays one, field by field.
LEMMA SlotFields ==
  ASSUME NEW f \in SlotType
  PROVE  /\ \A n \in Nat :
              [f EXCEPT !.run = n] \in SlotType /\ [f EXCEPT !.run = n].run = n
         /\ \A n \in Nat :
              [f EXCEPT !.ver = n] \in SlotType /\ [f EXCEPT !.ver = n].run = f.run
         /\ \A st \in Rows : [f EXCEPT !.saw = st] \in SlotType
         /\ \A b \in BOOLEAN :
              /\ [f EXCEPT !.flag = b] \in SlotType /\ [f EXCEPT !.flag = b].flag = b
              /\ [f EXCEPT !.flag = b].op = f.op /\ [f EXCEPT !.flag = b].pc = f.pc
         /\ \A pc \in {"look", "begin", "tx", "commit", "remove", "enqueue", "publish", "erase"} :
              /\ [f EXCEPT !.pc = pc] \in SlotType /\ [f EXCEPT !.pc = pc].pc = pc
              /\ [f EXCEPT !.pc = pc].op = f.op
<1>1. ASSUME NEW n \in Nat
      PROVE  [f EXCEPT !.run = n] \in SlotType /\ [f EXCEPT !.run = n].run = n
  BY DEF SlotType
<1>2. ASSUME NEW n \in Nat
      PROVE  [f EXCEPT !.ver = n] \in SlotType /\ [f EXCEPT !.ver = n].run = f.run
  BY DEF SlotType
<1>3. ASSUME NEW st \in Rows
      PROVE  [f EXCEPT !.saw = st] \in SlotType
  BY DEF SlotType
<1>4. ASSUME NEW b \in BOOLEAN
      PROVE  /\ [f EXCEPT !.flag = b] \in SlotType /\ [f EXCEPT !.flag = b].flag = b
             /\ [f EXCEPT !.flag = b].op = f.op /\ [f EXCEPT !.flag = b].pc = f.pc
  BY DEF SlotType
<1>5. ASSUME NEW pc \in {"look", "begin", "tx", "commit", "remove", "enqueue", "publish", "erase"}
      PROVE  /\ [f EXCEPT !.pc = pc] \in SlotType /\ [f EXCEPT !.pc = pc].pc = pc
             /\ [f EXCEPT !.pc = pc].op = f.op
  BY DEF SlotType
<1>. QED BY <1>1, <1>2, <1>3, <1>4, <1>5

\* What the three ways of updating a handler's record make of it.
LEMMA SlotUpdates ==
  ASSUME NEW s \in Slots, slots \in [Slots -> SlotType]
  PROVE  /\ Finish(s) => slots' = [slots EXCEPT ![s] = IdleSlot]
         /\ \A pc \in {"look", "begin", "tx", "commit", "remove", "enqueue", "publish", "erase"} :
              Goto(s, pc) =>
                \E r \in SlotType :
                  /\ slots' = [slots EXCEPT ![s] = r] /\ r.pc = pc
                  /\ r.op = slots[s].op /\ r.run = slots[s].run /\ r.flag = slots[s].flag
         /\ \A op \in Ops, pc \in {"look", "begin", "tx", "remove", "enqueue", "publish"}, f \in SlotType :
              Become(s, op, pc, f) =>
                \E r \in SlotType :
                  /\ slots' = [slots EXCEPT ![s] = r] /\ r.op = op /\ r.pc = pc
                  /\ r.run = f.run /\ r.flag = f.flag
<1>1. Finish(s) => slots' = [slots EXCEPT ![s] = IdleSlot]
  BY DEF Finish
<1>2. ASSUME NEW pc \in {"look", "begin", "tx", "commit", "remove", "enqueue", "publish", "erase"},
             Goto(s, pc)
      PROVE  \E r \in SlotType :
               /\ slots' = [slots EXCEPT ![s] = r] /\ r.pc = pc
               /\ r.op = slots[s].op /\ r.run = slots[s].run /\ r.flag = slots[s].flag
  <2>. DEFINE r == [slots[s] EXCEPT !.pc = pc]
  <2>1. /\ r \in SlotType /\ r.pc = pc
        /\ r.op = slots[s].op /\ r.run = slots[s].run /\ r.flag = slots[s].flag
    BY DEF SlotType
  <2>2. slots' = [slots EXCEPT ![s] = r]
    BY <1>2 DEF Goto
  <2>. QED BY <2>1, <2>2
<1>3. ASSUME NEW op \in Ops, NEW pc \in {"look", "begin", "tx", "remove", "enqueue", "publish"},
             NEW f \in SlotType, Become(s, op, pc, f)
      PROVE  \E r \in SlotType :
               /\ slots' = [slots EXCEPT ![s] = r] /\ r.op = op /\ r.pc = pc
               /\ r.run = f.run /\ r.flag = f.flag
  <2>. DEFINE q == [f EXCEPT !.op = op]
              r == [q EXCEPT !.pc = pc]
  <2>1. q \in SlotType /\ q.op = op /\ q.run = f.run /\ q.flag = f.flag
    BY DEF SlotType
  <2>2. r \in SlotType /\ r.pc = pc /\ r.op = op /\ r.run = f.run /\ r.flag = f.flag
    BY <2>1 DEF SlotType
  <2>3. slots' = [slots EXCEPT ![s] = r]
    BY <1>3 DEF Become
  <2>. QED BY <2>2, <2>3
<1>. QED BY <1>1, <1>2, <1>3

\* Every queue operation yields a job, and a live job has an attempt left.
LEMMA JobUpdates ==
  ASSUME job \in JobType, job.state \in LiveJob => job.made < Attempts /\ job.stalls <= MaxStalled
  PROVE  \A j \in {JobAdded, JobRemoved} :
           /\ j \in JobType
           /\ j.state \in LiveJob => j.made < Attempts /\ j.stalls <= MaxStalled
           /\ job.state = "active" => j.state = "active"
BY DEF JobAdded, JobRemoved, NewJob, NoJob, JobType, JobStates, LiveJob, Attempts, MaxStalled

LEMMA WorkerEnds ==
  ASSUME TypeInv, worker.pc # "idle", WorkerThrows \/ JobDone
  PROVE  /\ job' \in JobType /\ worker' = IdleWorker
         /\ job'.state \in LiveJob => job'.made < Attempts /\ job'.stalls <= MaxStalled
<1>1. /\ job \in JobType /\ job.state = "active"
      /\ job.made \in 0..1 /\ job.stalls \in 0..1
  BY DEF TypeInv, TypeOK, JobIdGuardsTheRun, JobType, LiveJob, Attempts, MaxStalled
<1>2. CASE WorkerThrows
  <2>1. worker' = IdleWorker
    BY <1>2 DEF WorkerThrows
  <2>. DEFINE tried == [job EXCEPT !.made = @ + 1]
  <2>2. /\ tried \in JobType /\ tried.made = job.made + 1 /\ tried.stalls = job.stalls
        /\ tried.state = "active"
    BY <1>1 DEF JobType, JobStates, LiveJob, Attempts, MaxStalled
  <2>3. job' = [tried EXCEPT !.state = IF job.made + 1 < Attempts THEN "delayed" ELSE "failed"]
    BY <1>2 DEF WorkerThrows, Thrown
  <2>. HIDE DEF tried
  <2>4. job' \in JobType
    BY <2>2, <2>3 DEF JobType, JobStates, LiveJob
  <2>5. job'.state \in LiveJob => job'.made < Attempts /\ job'.stalls <= MaxStalled
    BY <1>1, <2>2, <2>3 DEF JobType, JobStates, LiveJob, Attempts, MaxStalled
  <2>. QED BY <2>1, <2>4, <2>5
<1>3. CASE JobDone
  BY <1>1, <1>3 DEF JobDone, JobType, JobStates, LiveJob, Attempts, MaxStalled
<1>. QED BY <1>2, <1>3

\* A worker's record stays one, field by field.
LEMMA WorkerFields ==
  ASSUME NEW w \in WorkerType
  PROVE  /\ \A pc \in {"idle", "start", "tx1", "screens", "tx3", "auto", "autotx"} :
              [w EXCEPT !.pc = pc] \in WorkerType
         /\ \A saw \in Rows : [w EXCEPT !.saw = saw] \in WorkerType
         /\ \A n \in Nat : [w EXCEPT !.run = n] \in WorkerType /\ [w EXCEPT !.ver = n] \in WorkerType
         /\ \A f \in SUBSET Docs : [w EXCEPT !.frozen = f] \in WorkerType
         /\ \A n \in 0..Screens : [w EXCEPT !.left = n] \in WorkerType
BY DEF WorkerType

\* The worker's and the queue's steps keep every type.
LEMMA TypeWorker ==
  ASSUME TypeInv, WorkerStep \/ Backoff \/ Stalled \/ NoModel \/ WorkerFault
  PROVE  TypeInv'
<1>. USE BoundsAssumption, IdleTypes
     DEF TypeInv, TypeOK, JobIdGuardsTheRun, caseRow, content, bounds
<1>0. /\ job \in JobType /\ worker \in WorkerType /\ runs \in Seq(SUBSET Docs)
      /\ IdleWorker.pc = "idle" /\ HasText \in SUBSET Docs /\ Present \in SUBSET Docs
      /\ Rows = CaseStatuses \cup {Gone}
  BY DEF IdleWorker, HasText, Present, Rows
<1>1. CASE Backoff
  BY <1>0, <1>1 DEF Backoff, JobType, JobStates, LiveJob
<1>2. CASE Stalled
  <2>. DEFINE found == [job EXCEPT !.stalls = @ + 1]
  <2>1. /\ found \in JobType /\ found.made = job.made /\ found.stalls = job.stalls + 1
        /\ worker.pc = "idle"
    BY <1>0, <1>2 DEF Stalled, JobType, JobStates, LiveJob, Attempts, MaxStalled
  <2>2. job' = [found EXCEPT !.state = IF job.stalls < MaxStalled THEN "waiting" ELSE "failed"]
    BY <1>2 DEF Stalled
  <2>. HIDE DEF found
  <2>3. job' \in JobType
    BY <2>1, <2>2 DEF JobType, JobStates, LiveJob
  <2>4. job'.state \in LiveJob => job'.made < Attempts /\ job'.stalls <= MaxStalled
    BY <1>0, <1>2, <2>1, <2>2 DEF Stalled, JobType, JobStates, LiveJob, Attempts, MaxStalled
  <2>. QED BY <1>2, <2>1, <2>3, <2>4 DEF Stalled
<1>3. CASE PickUp
  BY <1>0, <1>3 DEF PickUp, JobType, JobStates, LiveJob, WorkerType
<1>4. CASE NoModel
  BY <1>0, <1>4, WorkerEnds DEF NoModel
<1>5. CASE Tx1Read
  <2>1. CASE status \in Analyzable /\ HasText # {}
    <3>1. worker' \in WorkerType /\ worker.pc # "idle"
      <4>. DEFINE w1 == [worker EXCEPT !.pc = "tx1"]
                  w2 == [w1 EXCEPT !.saw = status]
      <4>1. w1 \in WorkerType /\ status \in Rows
        BY <1>0, WorkerFields
      <4>2. worker' = [w2 EXCEPT !.frozen = HasText] /\ worker.pc # "idle"
        BY <1>5, <2>1 DEF Tx1Read
      <4>. HIDE DEF w1
      <4>3. w2 \in WorkerType
        BY <4>1, WorkerFields
      <4>. HIDE DEF w2
      <4>. QED BY <1>0, <4>2, <4>3, WorkerFields
    <3>. QED BY <1>0, <1>5, <2>1, <3>1 DEF Tx1Read
  <2>2. CASE ~(status \in Analyzable /\ HasText # {})
    BY <1>0, <1>5, <2>2, WorkerEnds DEF Tx1Read
  <2>. QED BY <2>1, <2>2
<1>6. CASE Tx1Commit
  <2>1. worker' \in WorkerType
    <3>1. Len(runs) + 1 \in Nat /\ Screens \in 0..Screens
      BY <1>0
    <3>. QED BY <1>0, <1>6, <3>1, WorkerFields DEF Tx1Commit
  <2>2. runs' \in Seq(SUBSET Docs)
    BY <1>0, <1>6 DEF Tx1Commit, WorkerType
  <2>3. status' \in Rows /\ worker.pc # "idle"
    BY <1>0, <1>6 DEF Tx1Commit, CaseStatuses
  <2>. QED BY <1>0, <1>6, <2>1, <2>2, <2>3 DEF Tx1Commit
<1>7. CASE ScreenCommit
  <2>1. worker' \in WorkerType
    <3>1. worker.left - 1 \in 0..Screens
      BY <1>0, <1>7 DEF ScreenCommit, WorkerType
    <3>. QED BY <1>0, <1>7, <3>1, WorkerFields DEF ScreenCommit
  <2>2. findings' \in SUBSET Nat /\ worker.pc # "idle"
    BY <1>0, <1>7 DEF ScreenCommit, WorkerType
  <2>. QED BY <1>0, <1>7, <2>1, <2>2 DEF ScreenCommit
<1>8. CASE WorkerFault
  BY <1>0, <1>8, WorkerEnds DEF WorkerFault
<1>9. CASE Tx3Read
  <2>1. CASE status # Gone /\ IsLegalTransition(status, "ADJUDICATING")
    <3>1. worker' \in WorkerType /\ worker.pc # "idle"
      <4>. DEFINE w1 == [worker EXCEPT !.pc = "tx3"]
      <4>1. w1 \in WorkerType /\ status \in Rows
        BY <1>0, WorkerFields
      <4>2. worker' = [w1 EXCEPT !.saw = status] /\ worker.pc # "idle"
        BY <1>9, <2>1 DEF Tx3Read
      <4>. HIDE DEF w1
      <4>. QED BY <4>1, <4>2, WorkerFields
    <3>. QED BY <1>0, <1>9, <2>1, <3>1 DEF Tx3Read
  <2>2. CASE ~(status # Gone /\ IsLegalTransition(status, "ADJUDICATING"))
    BY <1>0, <1>9, <2>2, WorkerEnds DEF Tx3Read
  <2>. QED BY <2>1, <2>2
<1>10. CASE Tx3Commit
  <2>1. status' \in Rows /\ completed' \in SUBSET Nat
    BY <1>0, <1>10 DEF Tx3Commit, CaseStatuses, WorkerType
  <2>2. CASE AutoApprove
    <3>1. worker' \in WorkerType /\ worker.pc # "idle"
      BY <1>0, <1>10, <2>2, WorkerFields DEF Tx3Commit
    <3>. QED BY <1>0, <1>10, <2>1, <2>2, <3>1 DEF Tx3Commit
  <2>3. CASE ~AutoApprove
    BY <1>0, <1>10, <2>1, <2>3, WorkerEnds DEF Tx3Commit
  <2>. QED BY <2>2, <2>3
<1>11. CASE WorkerRowGone
  BY <1>0, <1>11, WorkerEnds DEF WorkerRowGone
<1>12. CASE AutoHold
  BY <1>0, <1>12, WorkerEnds DEF AutoHold
<1>13. CASE AutoRead
  <2>1. Len(runs) \in Nat /\ Len(reports) + 1 \in Nat
    OBVIOUS
  <2>2. worker' \in WorkerType
    BY <1>0, <1>13, <2>1 DEF AutoRead, WorkerType
  <2>. QED BY <1>0, <1>13, <2>2 DEF AutoRead
<1>14. CASE AutoCommit
  <2>1. [run |-> worker.run, ver |-> worker.ver, present |-> Present] \in ReportType
    BY <1>0 DEF WorkerType, ReportType
  <2>2. status' \in Rows /\ reports' \in Seq(ReportType)
    BY <1>0, <1>14, <2>1 DEF AutoCommit, CaseStatuses
  <2>. QED BY <1>0, <1>14, <2>2, WorkerEnds DEF AutoCommit
<1>. QED
  BY <1>1, <1>2, <1>3, <1>4, <1>5, <1>6, <1>7, <1>8, <1>9, <1>10, <1>11, <1>12,
     <1>13, <1>14 DEF WorkerStep

-------------------------------------------------------------------------------
(* What a handler's step makes of its own record                           *)

\* The first step of a request: what it read, and what that promises.
LEMMA Requested ==
  ASSUME TypeInv, NEW s \in Slots, Request(s) \/ ResumeRead(s)
  PROVE  \E r \in SlotType :
           /\ slots' = [slots EXCEPT ![s] = r]
           /\ \/ /\ r.op = "records" /\ r.pc = "tx" /\ r.flag = (sla = 0)
                 /\ status = "AWAITING_DOCS"
              \/ /\ r.op = "approve" /\ r.pc = "tx" /\ r.run = Len(runs)
                 /\ status = "QA_REVIEW"
              \/ r.op \in {"qaRerun", "qaReject"} /\ r.pc = "tx" /\ status = "QA_REVIEW"
              \/ /\ r.op = "republish" /\ r.pc = "publish" /\ status # Gone
                 /\ \E i \in DOMAIN reports : r.run = reports[i].run
              \/ r.op \in {"rerun", "resume", "reanalyze"} /\ r.pc \in {"begin", "look"}
              \/ r.op \in {"refund", "delete"} /\ r.pc = "tx"
<1>0. /\ slots \in [Slots -> SlotType] /\ IdleSlot \in SlotType /\ status \in Rows
      /\ Len(runs) \in Nat /\ Len(reports) + 1 \in Nat
  BY IdleTypes DEF TypeInv, TypeOK
<1>1. CASE RecordsRead(s)
  <2>. DEFINE b == sla = 0
              f == [IdleSlot EXCEPT !.flag = b]
  <2>0. b \in BOOLEAN
    OBVIOUS
  <2>. HIDE DEF b
  <2>1. f \in SlotType /\ f.flag = b
    BY <1>0, <2>0, SlotFields
  <2>. USE DEF b
  <2>2. status = "AWAITING_DOCS" /\ "records" \in Ops /\ Become(s, "records", "tx", f)
    BY <1>1 DEF RecordsRead, Receive
  <2>. HIDE DEF f
  <2>. QED BY <1>0, <2>1, <2>2, SlotUpdates
<1>2. CASE RerunRead(s)
  <2>. DEFINE b == status \in {"READY", "DELIVERED"}
              f == [IdleSlot EXCEPT !.flag = b]
  <2>0. b \in BOOLEAN
    OBVIOUS
  <2>. HIDE DEF b
  <2>1. f \in SlotType
    BY <1>0, <2>0, SlotFields
  <2>. USE DEF b
  <2>2. "rerun" \in Ops /\ Become(s, "rerun", "begin", f)
    BY <1>2 DEF RerunRead, Receive
  <2>. HIDE DEF f
  <2>. QED BY <1>0, <2>1, <2>2, SlotUpdates
<1>3. CASE ApproveRead(s)
  <2>. DEFINE q == [IdleSlot EXCEPT !.run = Len(runs)]
              f == [q EXCEPT !.ver = Len(reports) + 1]
  <2>2. q \in SlotType /\ q.run = Len(runs)
    BY <1>0, SlotFields
  <2>. HIDE DEF q
  <2>3. f \in SlotType /\ f.run = Len(runs)
    BY <1>0, <2>2, SlotFields
  <2>. USE DEF q
  <2>4. "approve" \in Ops /\ Become(s, "approve", "tx", f) /\ status = "QA_REVIEW"
    BY <1>3 DEF ApproveRead, Receive
  <2>. HIDE DEF f
  <2>. QED BY <1>0, <2>3, <2>4, SlotUpdates
<1>4. ASSUME NEW op \in {"qaRerun", "qaReject"}, RejectRead(s, op)
      PROVE  \E r \in SlotType :
               /\ slots' = [slots EXCEPT ![s] = r]
               /\ r.op \in {"qaRerun", "qaReject"} /\ r.pc = "tx" /\ status = "QA_REVIEW"
  BY <1>0, <1>4, SlotUpdates DEF RejectRead, Receive
<1>5. CASE ResumeRead(s)
  BY <1>0, <1>5, SlotUpdates DEF ResumeRead, Receive
<1>6. CASE ReanalyzeRead(s)
  BY <1>0, <1>6, SlotUpdates DEF ReanalyzeRead, Receive
<1>7. CASE RepublishRead(s)
  <2>1. PICK i \in LatestReports :
          Become(s, "republish", "publish",
                 [IdleSlot EXCEPT !.run = reports[i].run, !.ver = reports[i].ver + 1])
    BY <1>7 DEF RepublishRead
  <2>2. i \in DOMAIN reports
    BY DEF LatestReports
  <2>3. reports[i].run \in Nat /\ reports[i].ver + 1 \in Nat
    <3>1. reports[i] \in ReportType
      BY <2>2 DEF TypeInv, TypeOK
    <3>. QED BY <3>1 DEF ReportType
  <2>. DEFINE q == [IdleSlot EXCEPT !.run = reports[i].run]
              f == [q EXCEPT !.ver = reports[i].ver + 1]
  <2>4. q \in SlotType /\ q.run = reports[i].run
    BY <1>0, <2>3, SlotFields
  <2>. HIDE DEF q
  <2>5. f \in SlotType /\ f.run = reports[i].run
    BY <2>3, <2>4, SlotFields
  <2>. USE DEF q
  <2>6. "republish" \in Ops /\ Become(s, "republish", "publish", f) /\ status # Gone
    BY <1>7, <2>1 DEF RepublishRead, Receive
  <2>. HIDE DEF f
  <2>. QED BY <1>0, <2>2, <2>5, <2>6, SlotUpdates
<1>8. CASE RefundRead(s)
  <2>. DEFINE f == [IdleSlot EXCEPT !.saw = status]
  <2>1. f \in SlotType
    BY <1>0, SlotFields
  <2>2. "refund" \in Ops /\ Become(s, "refund", "tx", f)
    BY <1>8 DEF RefundRead, Receive
  <2>. HIDE DEF f
  <2>. QED BY <1>0, <2>1, <2>2, SlotUpdates
<1>9. CASE DeleteRead(s)
  BY <1>0, <1>9, SlotUpdates DEF DeleteRead, Receive
<1>. QED BY <1>1, <1>2, <1>3, <1>4, <1>5, <1>6, <1>7, <1>8, <1>9 DEF Request

\* It changes nothing else.
LEMMA RequestedOnly ==
  ASSUME NEW s \in Slots, Request(s) \/ ResumeRead(s)
  PROVE  /\ UNCHANGED <<caseRow, content, job, worker, lock, faults>>
         /\ issued' = issued \/ issued' = issued + 1
<1>1. \E op \in AllOps : Receive(s, op)
  BY DEF Request, ResumeRead, RecordsRead, RerunRead, ApproveRead, RejectRead,
         ReanalyzeRead, RepublishRead, RefundRead, DeleteRead, AllOps
<1>. QED BY <1>1 DEF Receive

\* A later step of a request ends it or brings it to a known place.
LEMMA Stepped ==
  ASSUME TypeInv, NEW s \in Slots, RequestStep(s) \/ TxTimeout(s)
  PROVE  \E r \in SlotType :
           /\ slots' = [slots EXCEPT ![s] = r]
           /\ \/ r = IdleSlot
              \/ /\ RecordsEnqueue(s) /\ r.op = "records" /\ r.pc = "commit"
                 /\ r.flag = slots[s].flag
              \/ r.op = "rerun" /\ r.pc = "tx"
              \/ r.op = "reanalyze" /\ r.pc = "tx" /\ r.flag = (sla = 0)
              \/ r.pc \in {"begin", "remove", "enqueue", "erase"}
<1>0. slots \in [Slots -> SlotType] /\ IdleSlot \in SlotType
  BY IdleTypes DEF TypeInv, TypeOK
<1>1. CASE RecordsEnqueue(s)
  BY <1>0, <1>1, SlotUpdates DEF RecordsEnqueue, At
<1>2. CASE RerunBegin(s)
  BY <1>0, <1>2, SlotUpdates DEF RerunBegin, At
<1>3. CASE ReanalyzeBegin(s)
  <2>1. CASE status # Gone /\ IsLegalTransition(status, "AWAITING_DOCS")
    <3>. DEFINE b == sla = 0
                f == [IdleSlot EXCEPT !.flag = b]
    <3>0. b \in BOOLEAN
      OBVIOUS
    <3>1. slots[s] \in SlotType /\ slots[s].op = "reanalyze"
      BY <1>0, <1>3 DEF ReanalyzeBegin, At
    <3>2. Become(s, "reanalyze", "tx", f) /\ "reanalyze" \in Ops
      BY <1>0, <1>3, <2>1, <3>1 DEF ReanalyzeBegin, SlotType
    <3>. HIDE DEF b
    <3>3. f \in SlotType /\ f.flag = b
      BY <1>0, <3>0, SlotFields
    <3>. HIDE DEF f
    <3>. QED BY <1>0, <3>2, <3>3, SlotUpdates DEF b
  <2>2. CASE ~(status # Gone /\ IsLegalTransition(status, "AWAITING_DOCS"))
    BY <1>0, <1>3, <2>2, SlotUpdates DEF ReanalyzeBegin
  <2>. QED BY <2>1, <2>2
<1>4. CASE RejectCommit(s)
  BY <1>0, <1>4, SlotUpdates DEF RejectCommit
<1>5. CASE RemoveJob(s) \/ LookAtJob(s)
  BY <1>0, <1>5, SlotUpdates DEF RemoveJob, LookAtJob, AfterRemoval
<1>6. CASE ReanalyzeCommit(s) \/ DeleteCommit(s)
  BY <1>0, <1>6, SlotUpdates DEF ReanalyzeCommit, DeleteCommit
<1>7. CASE \/ RecordsCommit(s) \/ RerunCommit(s) \/ ApproveCommit(s) \/ EnqueueAnalysis(s)
           \/ RepublishCommit(s) \/ RefundCommit(s) \/ Erase(s) \/ RequestThrows(s)
           \/ TxTimeout(s)
  BY <1>0, <1>7, SlotUpdates DEF RecordsCommit, RerunCommit, ApproveCommit, EnqueueAnalysis, RepublishCommit,
              RefundCommit, Erase, RequestThrows, TxTimeout
<1>. QED BY <1>1, <1>2, <1>3, <1>4, <1>5, <1>6, <1>7 DEF RequestStep

-------------------------------------------------------------------------------
(* Types, continued                                                        *)

\* A request's steps keep every type.
LEMMA TypeRequest ==
  ASSUME TypeInv, NEW s \in Slots, Request(s) \/ ResumeRead(s)
  PROVE  TypeInv'
<1>1. slots' \in [Slots -> SlotType] /\ issued' \in Nat
  BY Requested, RequestedOnly DEF TypeInv, TypeOK
<1>. QED
  BY <1>1, RequestedOnly DEF TypeInv, TypeOK, JobIdGuardsTheRun, caseRow, content

LEMMA TypeRequestStep ==
  ASSUME TypeInv, NEW s \in Slots, RequestStep(s) \/ TxTimeout(s)
  PROVE  TypeInv'
<1>. USE BoundsAssumption
     DEF TypeInv, TypeOK, JobIdGuardsTheRun, caseRow, content, bounds
<1>0. /\ {"AWAITING_DOCS", "DOCS_COMPLETE", "READY", "QA_REJECTED", "REFUNDED",
          "DELETED", Gone} \subseteq Rows
      /\ [run |-> slots[s].run, ver |-> slots[s].ver, present |-> Present] \in ReportType
      /\ \A n \in Nat : n + 1 \in Nat
  BY DEF Rows, CaseStatuses, ReportType, SlotType, Present
<1>1. slots' \in [Slots -> SlotType]
  BY Stepped
<1>2. /\ job' \in JobType /\ worker' = worker
      /\ worker.pc # "idle" => job'.state = "active"
      /\ job'.state \in LiveJob => job'.made < Attempts /\ job'.stalls <= MaxStalled
  <2>1. worker' = worker /\ job' \in {job, JobAdded, JobRemoved}
    BY DEF RequestStep, RecordsEnqueue, RecordsCommit, RerunBegin, RerunCommit, ApproveCommit,
           RejectCommit, LookAtJob, RemoveJob, ReanalyzeBegin, ReanalyzeCommit, EnqueueAnalysis,
           RepublishCommit, RefundCommit, DeleteCommit, Erase, RequestThrows, TxTimeout
  <2>. QED BY <2>1, JobUpdates
<1>3. /\ status' \in Rows /\ sla' \in Nat /\ refunded' \in BOOLEAN /\ openings' \in Nat
      /\ lock' \in SUBSET Slots /\ issued' \in Nat /\ faults' \in Nat
  BY <1>0 DEF RequestStep, RecordsEnqueue, RecordsCommit, RerunBegin, RerunCommit, ApproveCommit,
         RejectCommit, LookAtJob, RemoveJob, ReanalyzeBegin, ReanalyzeCommit, EnqueueAnalysis, WritesRow,
         RepublishCommit, RefundCommit, DeleteCommit, Erase, RequestThrows, TxTimeout
<1>4. /\ docs' \in [Docs -> {"absent", "uploaded", "read"}]
      /\ runs' \in Seq(SUBSET Docs) /\ completed' \in SUBSET Nat /\ findings' \in SUBSET Nat
      /\ reports' \in Seq(ReportType)
  <2>1. CASE Erase(s)
    BY <2>1 DEF Erase
  <2>2. CASE ApproveCommit(s) \/ RepublishCommit(s)
    <3>1. reports' = Append(reports, [run |-> slots[s].run, ver |-> slots[s].ver,
                                      present |-> Present])
          /\ UNCHANGED <<docs, runs, completed, findings>>
      BY <2>2 DEF ApproveCommit, RepublishCommit
    <3>2. reports' \in Seq(ReportType)
      BY <1>0, <3>1
    <3>. QED BY <3>1, <3>2
  <2>3. CASE UNCHANGED content
    BY <2>3
  <2>. QED
    BY <2>1, <2>2, <2>3 DEF RequestStep, RecordsEnqueue, RecordsCommit, RerunBegin, RerunCommit,
       RejectCommit, LookAtJob, RemoveJob, ReanalyzeBegin, ReanalyzeCommit, EnqueueAnalysis,
       RefundCommit, DeleteCommit, RequestThrows, TxTimeout
<1>. QED BY <1>1, <1>2, <1>3, <1>4

LEMMA TypeInit == Init => TypeInv
<1>. SUFFICES ASSUME Init PROVE TypeInv
  OBVIOUS
<1>1. job \in JobType /\ worker \in WorkerType /\ slots \in [Slots -> SlotType]
  BY IdleTypes DEF Init, NoJob, JobType, JobStates, Attempts, MaxStalled
<1>2. JobIdGuardsTheRun
  BY DEF Init, JobIdGuardsTheRun, NoJob, LiveJob, IdleWorker
<1>3. /\ status \in Rows /\ sla \in Nat /\ refunded \in BOOLEAN /\ openings \in Nat
      /\ docs \in [Docs -> {"absent", "uploaded", "read"}]
      /\ lock \in SUBSET Slots /\ issued \in Nat /\ faults \in Nat
  BY DEF Init, Rows, CaseStatuses
<1>4. /\ runs \in Seq(SUBSET Docs) /\ completed \in SUBSET Nat /\ findings \in SUBSET Nat
      /\ reports \in Seq(ReportType)
  BY DEF Init
<1>. QED BY <1>1, <1>2, <1>3, <1>4 DEF TypeInv, TypeOK

LEMMA TypeNext == TypeInv /\ [Next]_vars => TypeInv'
<1>. SUFFICES ASSUME TypeInv, [Next]_vars PROVE TypeInv'
  OBVIOUS
<1>1. CASE WorkerStep \/ Backoff \/ Stalled \/ NoModel \/ WorkerFault
  BY <1>1, TypeWorker
<1>2. ASSUME NEW s \in Slots, Request(s) \/ ResumeRead(s) \/ RequestStep(s) \/ TxTimeout(s)
      PROVE  TypeInv'
  BY <1>2, TypeRequest, TypeRequestStep
<1>3. ASSUME NEW d \in Docs, Upload(d) \/ Digitize(d)
      PROVE  TypeInv'
  BY <1>3 DEF TypeInv, TypeOK, JobIdGuardsTheRun, Upload, Digitize, caseRow, bounds
<1>4. CASE Crash
  BY <1>4, IdleTypes
     DEF TypeInv, TypeOK, JobIdGuardsTheRun, Crash, caseRow, content, IdleWorker
<1>5. CASE UNCHANGED vars
  BY <1>5 DEF TypeInv, TypeOK, JobIdGuardsTheRun, vars
<1>. QED BY <1>1, <1>2, <1>3, <1>4, <1>5 DEF Next

\* Every variable keeps its type, and no operator's remove or re-analysis ever
\* frees the job id under a running worker (queue.ts:26-32).
THEOREM TypeCorrect == Spec => []TypeOK /\ []JobIdGuardsTheRun
<1>1. TypeInv => TypeOK /\ JobIdGuardsTheRun
  BY DEF TypeInv
<1>. QED BY <1>1, TypeInit, TypeNext, PTL DEF Spec

\* The rows, the job and the handlers' records keep the shapes the code gives them.
THEOREM TypesHold == Spec => []TypeOK
BY TypeCorrect, PTL

-------------------------------------------------------------------------------
(* The row lock, and a deleted row that stays deleted                      *)

\* Nobody but records-complete keeps the lock over a step, and nobody writes
\* the Case row under another's lock or after it is gone.
LEMMA RowWrites ==
  ASSUME NEW s \in Slots, RequestStep(s) \/ TxTimeout(s), ~RecordsEnqueue(s), ~RecordsCommit(s)
  PROVE  /\ UNCHANGED <<status, sla>> \/ (lock = {} /\ status # Gone)
         /\ lock' = lock \/ (lock' = lock \ {s} /\ UNCHANGED status)
BY DEF RequestStep, RerunBegin, RerunCommit, ApproveCommit, RejectCommit, LookAtJob, RemoveJob,
       ReanalyzeBegin, ReanalyzeCommit, EnqueueAnalysis, RepublishCommit, RefundCommit,
       DeleteCommit, Erase, RequestThrows, TxTimeout, WritesRow, caseRow

LEMMA LockNext == TypeInv /\ LockInv /\ [Next]_vars => LockInv' /\ (status = Gone => status' = Gone)
<1>. SUFFICES ASSUME TypeInv, LockInv, [Next]_vars
              PROVE  LockInv' /\ (status = Gone => status' = Gone)
  OBVIOUS
<1>0. slots \in [Slots -> SlotType] /\ IdleSlot.pc = "idle"
  BY DEF TypeInv, TypeOK, IdleSlot
<1>1. CASE WorkerStep \/ Backoff \/ Stalled \/ NoModel \/ WorkerFault
  <2>1. /\ UNCHANGED <<slots, lock>>
        /\ UNCHANGED status \/ (lock = {} /\ status # Gone)
    BY <1>1 DEF WorkerStep, PickUp, Tx1Read, Tx1Commit, ScreenCommit, Tx3Read, Tx3Commit,
           WorkerRowGone, AutoHold, AutoRead, AutoCommit, Backoff, Stalled, NoModel,
           WorkerFault, caseRow
  <2>. QED BY <2>1 DEF LockInv
<1>2. ASSUME NEW s \in Slots, Request(s) \/ ResumeRead(s)
      PROVE  LockInv' /\ (status = Gone => status' = Gone)
  <2>1. PICK r \in SlotType : slots' = [slots EXCEPT ![s] = r] /\ r.pc # "commit"
    BY <1>2, Requested
  <2>2. UNCHANGED <<status, lock>>
    BY <1>2, RequestedOnly DEF caseRow
  <2>. QED BY <1>0, <2>1, <2>2 DEF LockInv
<1>3. ASSUME NEW s \in Slots, RequestStep(s) \/ TxTimeout(s)
      PROVE  LockInv' /\ (status = Gone => status' = Gone)
  <2>1. PICK r \in SlotType :
          slots' = [slots EXCEPT ![s] = r] /\ (r.pc = "commit" => RecordsEnqueue(s))
    BY <1>0, <1>3, Stepped
  <2>2. CASE RecordsEnqueue(s)
    <3>1. lock = {} /\ lock' = {s} /\ status # Gone /\ status' = status
      BY <2>2 DEF RecordsEnqueue, caseRow
    <3>. QED BY <1>0, <2>1, <3>1 DEF LockInv
  <2>3. CASE RecordsCommit(s)
    <3>1. slots[s].pc = "commit" /\ slots' = [slots EXCEPT ![s] = IdleSlot]
      BY <2>3 DEF RecordsCommit, At, Finish
    <3>2. lock = {s} /\ status # Gone /\ \A t \in Slots \ {s} : slots[t].pc # "commit"
      BY <3>1 DEF LockInv
    <3>. QED BY <1>0, <3>1, <3>2 DEF LockInv
  <2>4. CASE ~RecordsEnqueue(s) /\ ~RecordsCommit(s)
    <3>1. /\ UNCHANGED status \/ (lock = {} /\ status # Gone)
          /\ lock' = lock \/ (lock' = lock \ {s} /\ UNCHANGED status)
      BY <1>3, <2>4, RowWrites
    <3>2. \A t \in Slots : slots'[t].pc = "commit" => t # s /\ slots[t].pc = "commit"
      BY <1>0, <2>1, <2>4
    <3>. QED BY <3>1, <3>2 DEF LockInv
  <2>. QED BY <2>2, <2>3, <2>4
<1>4. ASSUME NEW d \in Docs, Upload(d) \/ Digitize(d)
      PROVE  LockInv' /\ (status = Gone => status' = Gone)
  BY <1>4 DEF Upload, Digitize, caseRow, LockInv
<1>5. CASE Crash
  BY <1>0, <1>5 DEF Crash, caseRow, LockInv
<1>6. CASE UNCHANGED vars
  BY <1>6 DEF vars, LockInv
<1>. QED BY <1>1, <1>2, <1>3, <1>4, <1>5, <1>6 DEF Next

LEMMA LockInit == Init => LockInv
BY DEF Init, LockInv, IdleSlot

\* No handler with a stale view ever brings a deleted case row back: every
\* UPDATE finds it gone, and an open UPDATE keeps the deletion waiting.
THEOREM DeletionIsFinal == Spec => DeletedStaysGone
<1>1. TypeInv /\ LockInv /\ [Next]_vars => (TypeInv /\ LockInv)'
  BY TypeNext, LockNext
<1>2. TypeInv /\ LockInv /\ [Next]_vars => [status = Gone => status' = Gone]_vars
  BY LockNext
<1>. QED BY <1>1, <1>2, TypeInit, LockInit, PTL DEF Spec, DeletedStaysGone

-------------------------------------------------------------------------------
(* The clock                                                               *)

LEMMA ClockNext == TypeInv /\ ClockInv /\ [Next]_vars => ClockInv'
<1>. SUFFICES ASSUME TypeInv, ClockInv, [Next]_vars PROVE ClockInv'
  OBVIOUS
<1>0. /\ slots \in [Slots -> SlotType] /\ sla \in Nat /\ worker \in WorkerType
      /\ IdleSlot.pc = "idle" /\ IdleWorker.pc = "idle"
  BY DEF TypeInv, TypeOK, IdleSlot, IdleWorker
<1>1. CASE WorkerStep \/ Backoff \/ Stalled \/ NoModel \/ WorkerFault
  <2>1. UNCHANGED <<slots, sla>>
    BY <1>1 DEF WorkerStep, PickUp, Tx1Read, Tx1Commit, ScreenCommit, Tx3Read, Tx3Commit,
           WorkerRowGone, AutoHold, AutoRead, AutoCommit, Backoff, Stalled, NoModel,
           WorkerFault, WorkerThrows, JobDone, caseRow
  <2>2. CASE UNCHANGED <<status, worker>>
    BY <2>1, <2>2 DEF ClockInv
  <2>3. CASE worker' = IdleWorker /\ UNCHANGED status
    BY <1>0, <2>1, <2>3 DEF ClockInv
  <2>4. CASE PickUp
    <3>1. worker'.pc = "start" /\ UNCHANGED status
      BY <2>4, IdleTypes DEF PickUp, caseRow, WorkerType
    <3>. QED BY <2>1, <3>1 DEF ClockInv
  <2>5. CASE sla > 0
    BY <1>0, <2>1, <2>5 DEF ClockInv
  <2>6. CASE Tx1Read
    BY <2>2, <2>3, <2>5, <2>6 DEF Tx1Read, WorkerThrows, Analyzable, Started, ClockInv, caseRow
  <2>7. CASE Tx1Commit \/ ScreenCommit \/ Tx3Read \/ Tx3Commit \/ WorkerFault \/ WorkerRowGone
             \/ AutoHold \/ AutoRead \/ AutoCommit
    <3>1. worker.pc \in {"tx1", "screens", "tx3", "auto", "autotx"}
      BY <2>7 DEF Tx1Commit, ScreenCommit, Tx3Read, Tx3Commit, WorkerFault, WorkerRowGone,
             AutoHold, AutoRead, AutoCommit
    <3>. QED BY <2>5, <3>1 DEF ClockInv
  <2>8. CASE Backoff \/ Stalled \/ NoModel
    BY <2>2, <2>3, <2>8 DEF Backoff, Stalled, NoModel, JobDone, caseRow
  <2>. QED BY <1>1, <2>4, <2>6, <2>7, <2>8 DEF WorkerStep
<1>2. ASSUME NEW s \in Slots, Request(s) \/ ResumeRead(s)
      PROVE  ClockInv'
  <2>1. PICK r \in SlotType :
          /\ slots' = [slots EXCEPT ![s] = r]
          /\ r.op \in {"records", "reanalyze"} /\ r.pc \in {"tx", "commit"} => (sla = 0 => r.flag)
          /\ r.op \in {"approve", "qaRerun", "qaReject"} /\ r.pc = "tx" => status = "QA_REVIEW"
    BY <1>2, Requested
  <2>2. UNCHANGED <<status, sla, worker>>
    BY <1>2, RequestedOnly DEF caseRow
  <2>3. /\ r.op \in {"records", "reanalyze"} /\ r.pc \in {"tx", "commit"} => r.flag \/ sla > 0
        /\ r.op \in {"approve", "qaRerun", "qaReject"} /\ r.pc = "tx" => sla > 0
    BY <1>0, <2>1 DEF ClockInv, Started
  <2>. QED BY <1>0, <2>1, <2>2, <2>3 DEF ClockInv
<1>3. ASSUME NEW s \in Slots, RequestStep(s) \/ TxTimeout(s)
      PROVE  ClockInv'
  <2>1. PICK r \in SlotType :
          /\ slots' = [slots EXCEPT ![s] = r]
          /\ r.op \in {"records", "reanalyze"} /\ r.pc \in {"tx", "commit"} =>
               \/ sla = 0 => r.flag
               \/ RecordsEnqueue(s) /\ r.flag = slots[s].flag
          /\ ~(r.op \in {"approve", "qaRerun", "qaReject"} /\ r.pc = "tx")
    BY <1>0, <1>3, Stepped
  <2>2. worker' = worker /\ sla' \in Nat /\ sla' >= sla
    BY <1>0, <1>3 DEF RequestStep, RecordsEnqueue, RecordsCommit, RerunBegin, RerunCommit,
           ApproveCommit, RejectCommit, LookAtJob, RemoveJob, ReanalyzeBegin, ReanalyzeCommit,
           EnqueueAnalysis, RepublishCommit, RefundCommit, DeleteCommit, Erase, RequestThrows,
           TxTimeout, caseRow
  <2>3. r.op \in {"records", "reanalyze"} /\ r.pc \in {"tx", "commit"} => r.flag \/ sla > 0
    <3>1. RecordsEnqueue(s) => slots[s].op = "records" /\ slots[s].pc = "tx"
      BY DEF RecordsEnqueue, At
    <3>. QED BY <1>0, <2>1, <3>1 DEF ClockInv
  <2>4. status' \in Started => sla' > 0
    <3>1. CASE RecordsCommit(s) \/ ReanalyzeCommit(s)
      <4>1. /\ slots[s].flag \/ sla > 0
            /\ sla' = IF slots[s].flag THEN sla + 1 ELSE sla
        BY <3>1 DEF RecordsCommit, ReanalyzeCommit, At, ClockInv
      <4>. QED BY <1>0, <4>1
    <3>2. CASE ApproveCommit(s) \/ RejectCommit(s)
      BY <3>2 DEF ApproveCommit, RejectCommit, At, ClockInv
    <3>3. CASE ~(RecordsCommit(s) \/ ReanalyzeCommit(s) \/ ApproveCommit(s) \/ RejectCommit(s))
      <4>1. UNCHANGED <<status, sla>> \/ status' \notin Started
        BY <1>3, <3>3 DEF RequestStep, RecordsEnqueue, RerunBegin, RerunCommit, LookAtJob, RemoveJob,
               ReanalyzeBegin, EnqueueAnalysis, RepublishCommit, RefundCommit, DeleteCommit,
               Erase, RequestThrows, TxTimeout, WritesRow, caseRow, Started, Gone
      <4>. QED BY <4>1 DEF ClockInv
    <3>. QED BY <3>1, <3>2, <3>3
  <2>. QED BY <1>0, <2>1, <2>2, <2>3, <2>4 DEF ClockInv
<1>4. ASSUME NEW d \in Docs, Upload(d) \/ Digitize(d)
      PROVE  ClockInv'
  BY <1>4 DEF Upload, Digitize, caseRow, ClockInv
<1>5. CASE Crash
  BY <1>0, <1>5 DEF Crash, caseRow, ClockInv
<1>6. CASE UNCHANGED vars
  BY <1>6 DEF vars, ClockInv
<1>. QED BY <1>1, <1>2, <1>3, <1>4, <1>5, <1>6 DEF Next

LEMMA ClockInit == Init => ClockInv
BY DEF Init, ClockInv, IdleSlot, IdleWorker, Started

\* Of the handlers, only an approval or a republication writes a report, and
\* only the hard delete touches the rest.
LEMMA HandlersAndContent ==
  ASSUME NEW s \in Slots, RequestStep(s) \/ TxTimeout(s)
  PROVE  \/ UNCHANGED <<runs, completed, reports>>
         \/ runs' = <<>> /\ status' = Gone
         \/ /\ At(s, "approve", "tx") \/ At(s, "republish", "publish")
            /\ UNCHANGED <<runs, completed>>
            /\ \E v, p : reports' = Append(reports, [run |-> slots[s].run, ver |-> v, present |-> p])
BY DEF RequestStep, RecordsEnqueue, RecordsCommit, RerunBegin, RerunCommit, ApproveCommit,
       RejectCommit, LookAtJob, RemoveJob, ReanalyzeBegin, ReanalyzeCommit, EnqueueAnalysis,
       RepublishCommit, RefundCommit, DeleteCommit, Erase, RequestThrows, TxTimeout, WritesRow,
       content

\* Rows of AnalysisRun are only written by the first transaction's commit.
LEMMA RunsBehindClock ==
  TypeInv /\ ClockInv /\ LockInv /\ ClockBeforeAnalysis /\ [Next]_vars => ClockBeforeAnalysis'
<1>. SUFFICES ASSUME TypeInv, ClockInv, LockInv, ClockBeforeAnalysis, [Next]_vars,
                     status' # Gone, runs' # <<>>
              PROVE  sla' > 0
  BY DEF ClockBeforeAnalysis
<1>1. status # Gone
  BY LockNext
<1>2. sla \in Nat /\ sla' \in Nat /\ sla' >= sla
  <2>1. sla' = sla \/ sla' = sla + 1
    <3>1. ASSUME NEW s \in Slots, Request(s) \/ ResumeRead(s)
          PROVE  sla' = sla
      BY <3>1, RequestedOnly DEF caseRow
    <3>2. ASSUME NEW s \in Slots, RequestStep(s) \/ TxTimeout(s)
          PROVE  sla' = sla \/ sla' = sla + 1
      BY <3>2 DEF RequestStep, RecordsEnqueue, RecordsCommit, RerunBegin, RerunCommit,
             ApproveCommit, RejectCommit, LookAtJob, RemoveJob, ReanalyzeBegin, ReanalyzeCommit,
             EnqueueAnalysis, RepublishCommit, RefundCommit, DeleteCommit, Erase,
             RequestThrows, TxTimeout, caseRow
    <3>3. CASE WorkerStep \/ Backoff \/ Stalled \/ NoModel \/ WorkerFault
      BY <3>3 DEF WorkerStep, PickUp, Tx1Read, Tx1Commit, ScreenCommit, Tx3Read, Tx3Commit,
             WorkerRowGone, AutoHold, AutoRead, AutoCommit, Backoff, Stalled, NoModel,
             WorkerFault, caseRow
    <3>. QED BY <3>1, <3>2, <3>3 DEF Next, vars, Upload, Digitize, Crash, caseRow
  <2>. QED BY <2>1 DEF TypeInv, TypeOK
<1>3. CASE Tx1Commit
  BY <1>2, <1>3 DEF Tx1Commit, ClockInv
<1>4. CASE ~Tx1Commit
  <2>1. runs' \in {runs, <<>>}
    <3>1. ASSUME NEW s \in Slots, Request(s) \/ ResumeRead(s) \/ RequestStep(s) \/ TxTimeout(s)
          PROVE  runs' \in {runs, <<>>}
      BY <3>1, HandlersAndContent, RequestedOnly DEF content
    <3>2. CASE WorkerStep \/ Backoff \/ Stalled \/ NoModel \/ WorkerFault
      BY <1>4, <3>2 DEF WorkerStep, PickUp, Tx1Read, ScreenCommit, Tx3Read, Tx3Commit,
             WorkerRowGone, AutoHold, AutoRead, AutoCommit, Backoff, Stalled, NoModel,
             WorkerFault, content
    <3>. QED BY <3>1, <3>2 DEF Next, vars, Upload, Digitize, Crash, content
  <2>. QED BY <1>1, <1>2, <2>1 DEF ClockBeforeAnalysis
<1>. QED BY <1>3, <1>4

\* For every number of handlers and documents: no analysis of a case exists
\* before its records were declared complete, although the job is queued inside
\* the transaction that declares it (intake.ts:525-538).
THEOREM NoAnalysisBeforeClock == Spec => []ClockBeforeAnalysis
<1>1. Init => ClockBeforeAnalysis
  BY DEF Init, ClockBeforeAnalysis
<1>. QED
  BY <1>1, TypeInit, LockInit, ClockInit, TypeNext, LockNext, ClockNext, RunsBehindClock, PTL
  DEF Spec

-------------------------------------------------------------------------------
(* The released report                                                     *)

\* A report of a completed run may be added, and the completed runs may grow.
LEMMA ReportsGrow ==
  ASSUME TypeInv, status # Gone, ReleasedReportIsOfACompletedRun, completed \subseteq completed',
         \/ reports' = reports
         \/ \E n \in completed : \E v, p :
              reports' = Append(reports, [run |-> n, ver |-> v, present |-> p])
  PROVE  ReleasedReportIsOfACompletedRun'
<1>0. reports \in Seq(ReportType) /\ \A i \in DOMAIN reports : reports[i].run \in completed
  BY DEF TypeInv, TypeOK, ReleasedReportIsOfACompletedRun
<1>1. CASE reports' = reports
  BY <1>0, <1>1 DEF ReleasedReportIsOfACompletedRun
<1>2. ASSUME NEW n \in completed, NEW v, NEW p,
             reports' = Append(reports, [run |-> n, ver |-> v, present |-> p])
      PROVE  ReleasedReportIsOfACompletedRun'
  <2>1. ASSUME NEW i \in DOMAIN reports' PROVE reports'[i].run \in completed
    <3>1. CASE i \in DOMAIN reports
      BY <1>0, <1>2, <3>1
    <3>2. CASE i \notin DOMAIN reports
      <4>1. i = Len(reports) + 1 /\ reports'[i] = [run |-> n, ver |-> v, present |-> p]
        BY <1>0, <1>2, <3>2
      <4>. QED BY <4>1
    <3>. QED BY <3>1, <3>2
  <2>. QED BY <2>1 DEF ReleasedReportIsOfACompletedRun
<1>. QED BY <1>1, <1>2

\* The worker's steps.
LEMMA ReviewWorker ==
  ASSUME TypeInv, LockInv, ReviewPart, status # Gone, status' # Gone,
         WorkerStep \/ Backoff \/ Stalled \/ NoModel \/ WorkerFault
  PROVE  ReviewPart'
<1>. USE DEF ReviewPart
<1>0. /\ worker \in WorkerType /\ runs \in Seq(SUBSET Docs) /\ IdleWorker.pc = "idle"
      /\ Len(runs) \in Nat
  BY DEF TypeInv, TypeOK, IdleWorker
<1>1. /\ UNCHANGED slots /\ completed \subseteq completed'
      /\ \A s \in Slots : At(s, "approve", "tx")' \/ At(s, "republish", "publish")'
           => slots'[s].run \in completed'
  BY DEF WorkerStep, PickUp, Tx1Read, Tx1Commit, ScreenCommit, Tx3Read, Tx3Commit,
         WorkerRowGone, AutoHold, AutoRead, AutoCommit, Backoff, Stalled, NoModel,
         WorkerFault, WorkerThrows, JobDone, content, ReviewInv, At
<1>2. ReleasedReportIsOfACompletedRun'
  <2>1. CASE AutoCommit
    <3>1. /\ worker.run \in completed
          /\ reports' = Append(reports, [run |-> worker.run, ver |-> worker.ver,
                                         present |-> Present])
      BY <2>1 DEF AutoCommit, ReviewInv
    <3>. QED BY <1>1, <3>1, ReportsGrow
  <2>2. CASE ~AutoCommit
    <3>1. UNCHANGED reports
      BY <2>2 DEF WorkerStep, PickUp, Tx1Read, Tx1Commit, ScreenCommit, Tx3Read, Tx3Commit,
             WorkerRowGone, AutoHold, AutoRead, Backoff, Stalled, NoModel,
             WorkerFault, content
    <3>. QED BY <1>1, <3>1, ReportsGrow
  <2>. QED BY <2>1, <2>2
<1>3. CASE UNCHANGED <<status, runs, completed>> /\ worker' = worker
  BY <1>1, <1>2, <1>3 DEF WorkerRunInv, ReviewInv
<1>4. CASE UNCHANGED <<status, runs, completed>> /\ worker' = IdleWorker
  BY <1>0, <1>1, <1>2, <1>4 DEF WorkerRunInv, ReviewInv
<1>5. CASE Backoff \/ Stalled \/ NoModel \/ WorkerFault \/ WorkerRowGone \/ AutoHold
  BY <1>3, <1>4, <1>5 DEF Backoff, Stalled, NoModel, WorkerFault, WorkerRowGone, AutoHold,
         WorkerThrows, JobDone, caseRow, content
<1>6. CASE PickUp
  <2>1. worker'.pc = "start" /\ UNCHANGED <<status, runs, completed>>
    BY <1>6, IdleTypes DEF PickUp, caseRow, content, WorkerType
  <2>. QED BY <1>1, <1>2, <2>1 DEF WorkerRunInv, ReviewInv
<1>7. CASE Tx1Read
  <2>1. CASE status \in Analyzable /\ HasText # {}
    <3>1. worker'.pc = "tx1" /\ worker'.saw = status
      BY <1>0, <1>7, <2>1 DEF Tx1Read, WorkerType
    <3>. QED BY <1>1, <1>2, <1>7, <3>1 DEF Tx1Read, WorkerRunInv, ReviewInv, caseRow, content
  <2>2. CASE ~(status \in Analyzable /\ HasText # {})
    BY <1>4, <1>7, <2>2 DEF Tx1Read, WorkerThrows, caseRow, content
  <2>. QED BY <2>1, <2>2
<1>8. CASE Tx1Commit
  <2>1. worker'.pc = "screens" /\ worker'.run = Len(runs) + 1
    BY <1>0, <1>8 DEF Tx1Commit, WorkerType
  <2>2. runs' = Append(runs, worker.frozen) /\ Len(runs') = Len(runs) + 1
    BY <1>0, <1>8 DEF Tx1Commit, WorkerType
  <2>3. status' # "QA_REVIEW" /\ completed' = completed
    BY <1>8 DEF Tx1Commit, WorkerRunInv
  <2>. QED BY <1>1, <1>2, <2>1, <2>2, <2>3 DEF WorkerRunInv, ReviewInv
<1>9. CASE ScreenCommit
  <2>1. worker'.pc = "screens" /\ worker'.run = worker.run /\ worker.pc = "screens"
    BY <1>0, <1>9 DEF ScreenCommit, WorkerType
  <2>. QED BY <1>1, <1>2, <1>9, <2>1 DEF ScreenCommit, WorkerRunInv, ReviewInv, caseRow
<1>10. CASE Tx3Read
  <2>1. CASE status # Gone /\ IsLegalTransition(status, "ADJUDICATING")
    <3>1. worker'.pc = "tx3" /\ worker'.run = worker.run /\ worker.pc = "screens"
      BY <1>0, <1>10, <2>1 DEF Tx3Read, WorkerType
    <3>. QED BY <1>1, <1>2, <1>10, <3>1 DEF Tx3Read, WorkerRunInv, ReviewInv, caseRow, content
  <2>2. CASE ~(status # Gone /\ IsLegalTransition(status, "ADJUDICATING"))
    BY <1>4, <1>10, <2>2 DEF Tx3Read, WorkerThrows, caseRow, content
  <2>. QED BY <2>1, <2>2
<1>11. CASE Tx3Commit
  <2>1. Len(runs) \in completed' /\ runs' = runs
    BY <1>11 DEF Tx3Commit, WorkerRunInv
  <2>2. worker'.pc \in {"auto", "idle"}
    BY <1>0, <1>11 DEF Tx3Commit, JobDone, WorkerType
  <2>. QED BY <1>1, <1>2, <2>1, <2>2 DEF WorkerRunInv, ReviewInv
<1>12. CASE AutoRead
  <2>1. worker'.pc = "autotx" /\ worker'.run = Len(runs)
    BY <1>0, <1>12 DEF AutoRead, WorkerType
  <2>. QED BY <1>1, <1>2, <1>12, <2>1 DEF AutoRead, WorkerRunInv, ReviewInv, caseRow, content
<1>13. CASE AutoCommit
  <2>1. worker' = IdleWorker /\ status' = "READY" /\ UNCHANGED <<runs, completed>>
    BY <1>13 DEF AutoCommit, JobDone
  <2>. QED BY <1>0, <1>1, <1>2, <2>1 DEF WorkerRunInv, ReviewInv
<1>. QED
  BY <1>5, <1>6, <1>7, <1>8, <1>9, <1>10, <1>11, <1>12, <1>13 DEF WorkerStep

\* The handlers' steps.
LEMMA ReviewHandlers ==
  ASSUME TypeInv, LockInv, ReviewPart, status # Gone, status' # Gone, NEW s \in Slots,
         Request(s) \/ ResumeRead(s) \/ RequestStep(s) \/ TxTimeout(s)
  PROVE  ReviewPart'
<1>. USE DEF ReviewPart
<1>0. slots \in [Slots -> SlotType]
  BY DEF TypeInv, TypeOK
<1>1. CASE Request(s) \/ ResumeRead(s)
  <2>1. PICK r \in SlotType :
          /\ slots' = [slots EXCEPT ![s] = r]
          /\ r.op = "approve" /\ r.pc = "tx" => r.run = Len(runs) /\ status = "QA_REVIEW"
          /\ r.op = "republish" /\ r.pc = "publish" =>
               \E i \in DOMAIN reports : r.run = reports[i].run
    BY <1>1, Requested
  <2>2. /\ r.op = "approve" /\ r.pc = "tx" => r.run \in completed
        /\ r.op = "republish" /\ r.pc = "publish" => r.run \in completed
    BY <2>1 DEF ReviewInv, ReleasedReportIsOfACompletedRun
  <2>3. UNCHANGED <<status, runs, completed, reports, worker>>
    BY <1>1, RequestedOnly DEF caseRow, content
  <2>. QED
    BY <1>0, <2>1, <2>2, <2>3
    DEF WorkerRunInv, ReviewInv, ReleasedReportIsOfACompletedRun, At
<1>2. CASE RequestStep(s) \/ TxTimeout(s)
  <2>1. PICK r \in SlotType :
          /\ slots' = [slots EXCEPT ![s] = r]
          /\ ~(r.op = "approve" /\ r.pc = "tx") /\ ~(r.op = "republish" /\ r.pc = "publish")
    BY <1>2, Stepped DEF IdleSlot
  <2>2. worker' = worker /\ (status' = "QA_REVIEW" => status = "QA_REVIEW")
    BY <1>2 DEF RequestStep, RecordsEnqueue, RecordsCommit, RerunBegin, RerunCommit,
           ApproveCommit, RejectCommit, LookAtJob, RemoveJob, ReanalyzeBegin, ReanalyzeCommit,
           EnqueueAnalysis, RepublishCommit, RefundCommit, DeleteCommit, Erase, RequestThrows,
           TxTimeout, WritesRow, caseRow, Gone
  <2>3. /\ UNCHANGED <<runs, completed>>
        /\ \/ reports' = reports
           \/ \E n \in completed : \E v, p :
                reports' = Append(reports, [run |-> n, ver |-> v, present |-> p])
    BY <1>2, HandlersAndContent DEF ReviewInv
  <2>4. ReleasedReportIsOfACompletedRun'
    BY <2>3, ReportsGrow
  <2>. QED BY <1>0, <2>1, <2>2, <2>3, <2>4 DEF WorkerRunInv, ReviewInv, At
<1>. QED BY <1>1, <1>2

LEMMA ReviewNext == TypeInv /\ LockInv /\ ReviewPart /\ [Next]_vars => ReviewPart'
<1>. SUFFICES ASSUME TypeInv, LockInv, ReviewPart, [Next]_vars PROVE ReviewPart'
  OBVIOUS
<1>1. CASE status' = Gone
  BY <1>1 DEF ReviewPart, WorkerRunInv, ReviewInv, ReleasedReportIsOfACompletedRun, Gone
<1>2. CASE status' # Gone
  <2>1. status # Gone
    BY <1>2, LockNext
  <2>2. CASE WorkerStep \/ Backoff \/ Stalled \/ NoModel \/ WorkerFault
    BY <1>2, <2>1, <2>2, ReviewWorker
  <2>3. ASSUME NEW s \in Slots, Request(s) \/ ResumeRead(s) \/ RequestStep(s) \/ TxTimeout(s)
        PROVE  ReviewPart'
    BY <1>2, <2>1, <2>3, ReviewHandlers
  <2>4. ASSUME NEW d \in Docs, Upload(d) \/ Digitize(d)
        PROVE  ReviewPart'
    BY <2>4 DEF Upload, Digitize, caseRow, ReviewPart, WorkerRunInv, ReviewInv,
           ReleasedReportIsOfACompletedRun, At
  <2>5. CASE Crash
    BY <2>5 DEF Crash, caseRow, content, IdleWorker, IdleSlot, ReviewPart, WorkerRunInv,
           ReviewInv, ReleasedReportIsOfACompletedRun, At
  <2>6. CASE UNCHANGED vars
    BY <2>6 DEF vars, ReviewPart, WorkerRunInv, ReviewInv, ReleasedReportIsOfACompletedRun, At
  <2>. QED BY <2>2, <2>3, <2>4, <2>5, <2>6 DEF Next
<1>. QED BY <1>1, <1>2

\* For every number of handlers, documents, crashes and retries: whoever
\* approves, by hand or automatically, and however late, a report that was
\* released is of a run that had completed (qa.ts:271-365 and
\* auto-qa.service.ts:110-171 never ask).
THEOREM ReleasedReports == Spec => []ReleasedReportIsOfACompletedRun
<1>1. Init => ReviewPart
  BY DEF Init, ReviewPart, WorkerRunInv, ReviewInv, ReleasedReportIsOfACompletedRun, At,
         IdleSlot, IdleWorker
<1>2. ReviewPart => ReleasedReportIsOfACompletedRun
  BY DEF ReviewPart
<1>. QED
  BY <1>1, <1>2, TypeInit, LockInit, TypeNext, LockNext, ReviewNext, PTL DEF Spec

-------------------------------------------------------------------------------
(* No analysis that nobody called for                                      *)

LEMMA CountsAreNumbers ==
  ASSUME TypeInv, OwedInv
  PROVE  /\ Cardinality(completed) \in Nat /\ openings \in Nat
         /\ Owed(2) => Owed(1)
<1>1. Cardinality(completed) \in Nat /\ openings \in Nat
  BY FS_CardinalityType DEF OwedInv, TypeInv, TypeOK
<1>. QED BY <1>1 DEF Owed

\* A worker's step that completes no run, and starts none that was not called for.
LEMMA OwedWorker ==
  ASSUME TypeInv, OwedInv, WorkerStep \/ Backoff \/ Stalled \/ NoModel \/ WorkerFault
  PROVE  OwedInv'
<1>0. worker \in WorkerType /\ IdleWorker.pc = "idle" /\ Screens \in Nat \ {0}
  BY BoundsAssumption DEF TypeInv, TypeOK, IdleWorker
<1>1. UNCHANGED <<slots, openings>> /\ (Declaring' <=> Declaring)
  BY DEF WorkerStep, PickUp, Tx1Read, Tx1Commit, ScreenCommit, Tx3Read, Tx3Commit,
         WorkerRowGone, AutoHold, AutoRead, AutoCommit, Backoff, Stalled, NoModel,
         WorkerFault, WorkerThrows, JobDone, caseRow, Declaring
<1>2. CASE Tx3Commit
  <2>1. PICK n : n = worker.run
    OBVIOUS
  <2>2. completed' = completed \cup {n} /\ status' = "QA_REVIEW" /\ worker.pc = "tx3"
        /\ worker'.pc \in {"auto", "idle"}
    BY <1>0, <1>2, <2>1 DEF Tx3Commit, JobDone, WorkerType
  <2>3. IsFiniteSet(completed') /\ Cardinality(completed') <= Cardinality(completed) + 1
        /\ Cardinality(completed') \in Nat
    <3>1. /\ IsFiniteSet(completed \cup {n})
          /\ Cardinality(completed \cup {n}) = Cardinality(completed)
               \/ Cardinality(completed \cup {n}) = Cardinality(completed) + 1
      BY FS_AddElement DEF OwedInv
    <3>. QED BY <2>2, <3>1, CountsAreNumbers
  <2>4. Owed(1) /\ (Declaring => Owed(2))
    BY <2>2 DEF OwedInv, Inside, PastScreens
  <2>5. Owed(0)' /\ (Declaring => Owed(1)')
    BY <1>1, <2>3, <2>4, CountsAreNumbers DEF Owed
  <2>6. status' \notin Due /\ ~Inside' /\ ~PastScreens'
    BY <2>2 DEF Due, Inside, PastScreens
  <2>. QED BY <1>1, <2>3, <2>5, <2>6 DEF OwedInv
<1>3. CASE ~Tx3Commit
  <2>1. completed' = completed /\ Owed(0)' /\ (Owed(1) => Owed(1)') /\ (Owed(2) => Owed(2)')
    BY <1>1, <1>3 DEF WorkerStep, PickUp, Tx1Read, Tx1Commit, ScreenCommit, Tx3Read,
         WorkerRowGone, AutoHold, AutoRead, AutoCommit, Backoff, Stalled, NoModel,
         WorkerFault, content, OwedInv, Owed
  <2>2. CASE ~Inside' /\ (status' = status \/ status' \notin Due)
    <3>1. ~PastScreens'
      BY <2>2 DEF Inside, PastScreens
    <3>. QED BY <1>1, <2>1, <2>2, <3>1 DEF OwedInv
  <2>3. CASE Tx1Read
    <3>1. CASE status \in Analyzable /\ HasText # {}
      <4>1. worker'.pc = "tx1" /\ status' = status
        BY <1>0, <2>3, <3>1 DEF Tx1Read, WorkerType, caseRow
      <4>2. status \in Due /\ status # "AWAITING_DOCS" /\ ~PastScreens'
        BY <3>1, <4>1 DEF Analyzable, Due, PastScreens
      <4>. QED BY <1>1, <2>1, <4>1, <4>2 DEF OwedInv
    <3>2. CASE ~(status \in Analyzable /\ HasText # {})
      <4>1. worker' = IdleWorker /\ status' = status
        BY <2>3, <3>2 DEF Tx1Read, WorkerThrows, caseRow
      <4>. QED BY <1>0, <2>2, <4>1 DEF Inside
    <3>. QED BY <3>1, <3>2
  <2>4. CASE Tx1Commit
    <3>1. /\ worker.pc = "tx1" /\ worker'.pc = "screens" /\ worker'.left = Screens
          /\ status' = status \/ status' = "ANALYZING"
      BY <1>0, <2>4 DEF Tx1Commit, WorkerType
    <3>2. Inside /\ ~PastScreens'
      BY <1>0, <3>1 DEF Inside, PastScreens
    <3>. QED BY <2>1, <3>1, <3>2 DEF OwedInv
  <2>5. CASE ScreenCommit
    <3>1. worker.pc = "screens" /\ status' = status /\ ~Declaring
      BY <2>5 DEF ScreenCommit, caseRow, NoOpenTx, Declaring
    <3>. QED BY <1>1, <2>1, <3>1 DEF OwedInv, Inside
  <2>6. CASE Tx3Read
    <3>1. worker.pc = "screens" /\ worker.left = 0 /\ status' = status
      BY <2>6 DEF Tx3Read, caseRow
    <3>. QED BY <1>1, <2>1, <3>1 DEF OwedInv, Inside, PastScreens
  <2>7. CASE PickUp \/ AutoRead
    <3>1. worker'.pc \in {"start", "autotx"} /\ status' = status
      BY <1>0, <2>7, IdleTypes DEF PickUp, AutoRead, WorkerType, caseRow
    <3>. QED BY <2>2, <3>1 DEF Inside
  <2>8. CASE WorkerRowGone \/ AutoHold \/ AutoCommit \/ NoModel \/ WorkerFault
    <3>1. worker' = IdleWorker /\ (status' = status \/ status' = "READY")
      BY <2>8 DEF WorkerRowGone, AutoHold, AutoCommit, NoModel, WorkerFault, WorkerThrows,
                  JobDone, caseRow
    <3>. QED BY <1>0, <2>2, <3>1 DEF Inside, Due
  <2>9. CASE Backoff \/ Stalled
    <3>1. UNCHANGED <<worker, status>>
      BY <2>9 DEF Backoff, Stalled, caseRow
    <3>. QED BY <1>1, <2>1, <3>1 DEF OwedInv, Inside, PastScreens
  <2>. QED
    BY <1>3, <2>3, <2>4, <2>5, <2>6, <2>7, <2>8, <2>9 DEF WorkerStep
<1>. QED BY <1>2, <1>3

\* A handler's step: it reopens a case only with a call of its own.
LEMMA OwedHandlers ==
  ASSUME TypeInv, OwedInv, NEW s \in Slots,
         Request(s) \/ ResumeRead(s) \/ RequestStep(s) \/ TxTimeout(s)
  PROVE  OwedInv'
<1>0. slots \in [Slots -> SlotType]
  BY DEF TypeInv, TypeOK
<1>1. CASE Request(s) \/ ResumeRead(s)
  <2>1. PICK r \in SlotType :
          /\ slots' = [slots EXCEPT ![s] = r]
          /\ r.op = "records" /\ r.pc \in {"tx", "commit"} => status = "AWAITING_DOCS"
    BY <1>1, Requested
  <2>2. UNCHANGED <<status, completed, openings, worker>>
    BY <1>1, RequestedOnly DEF caseRow, content
  <2>3. Declaring' => Declaring \/ status = "AWAITING_DOCS"
    BY <1>0, <2>1 DEF Declaring
  <2>4. status = "AWAITING_DOCS" => status \in Due
    BY DEF Due
  <2>5. PastScreens => Inside
    BY DEF PastScreens, Inside
  <2>6. (Inside' <=> Inside) /\ (PastScreens' <=> PastScreens) /\ \A n : Owed(n)' <=> Owed(n)
    BY <2>2 DEF Inside, PastScreens, Owed
  <2>. QED BY <2>2, <2>3, <2>4, <2>5, <2>6 DEF OwedInv
<1>2. CASE RequestStep(s) \/ TxTimeout(s)
  <2>1. PICK r \in SlotType :
          /\ slots' = [slots EXCEPT ![s] = r]
          /\ r.op = "records" /\ r.pc \in {"tx", "commit"} => RecordsEnqueue(s)
    BY <1>2, Stepped DEF IdleSlot
  <2>2. Declaring' => Declaring
    BY <1>0, <2>1 DEF Declaring, RecordsEnqueue, At
  <2>3. worker' = worker /\ (Inside' <=> Inside) /\ (PastScreens' <=> PastScreens)
    BY <1>2 DEF RequestStep, RecordsEnqueue, RecordsCommit, RerunBegin, RerunCommit,
           ApproveCommit, RejectCommit, LookAtJob, RemoveJob, ReanalyzeBegin, ReanalyzeCommit,
           EnqueueAnalysis, RepublishCommit, RefundCommit, DeleteCommit, Erase, RequestThrows,
           TxTimeout, Inside, PastScreens
  <2>4. CASE RerunCommit(s) \/ RejectCommit(s) \/ ReanalyzeCommit(s)
    <3>1. completed' = completed /\ openings' = openings + 1
      BY <2>4 DEF RerunCommit, RejectCommit, ReanalyzeCommit, content
    <3>2. Owed(0)' /\ Owed(1)' /\ (Owed(1) => Owed(2)') /\ (Owed(2) => Owed(2)')
      BY <3>1, CountsAreNumbers DEF OwedInv, Owed
    <3>. QED BY <2>2, <2>3, <3>1, <3>2 DEF OwedInv
  <2>5. CASE Erase(s)
    <3>1. completed' = {} /\ openings' = openings /\ status' = Gone
      BY <2>5 DEF Erase, WritesRow
    <3>2. \A n \in {0, 1, 2} : Owed(n) => Owed(n)'
      BY <3>1, CountsAreNumbers, FS_EmptySet DEF Owed
    <3>3. IsFiniteSet(completed') /\ status' \notin Due /\ status' # "AWAITING_DOCS"
      BY <3>1, FS_EmptySet DEF Due, Gone
    <3>. QED BY <2>2, <2>3, <3>2, <3>3 DEF OwedInv
  <2>6. CASE ~(RerunCommit(s) \/ RejectCommit(s) \/ ReanalyzeCommit(s) \/ Erase(s))
    <3>1. UNCHANGED <<completed, openings>> /\ \A n : Owed(n)' <=> Owed(n)
      BY <1>2, <2>6 DEF RequestStep, RecordsEnqueue, RecordsCommit, RerunBegin, ApproveCommit,
             LookAtJob, RemoveJob, ReanalyzeBegin, EnqueueAnalysis, RepublishCommit, RefundCommit,
             DeleteCommit, RequestThrows, TxTimeout, caseRow, content, Owed
    <3>2. \/ status' = status
          \/ status' \in {"READY", "REFUNDED", "DELETED"}
          \/ status' = "DOCS_COMPLETE" /\ Declaring
      BY <1>2, <2>6 DEF RequestStep, RecordsEnqueue, RecordsCommit, RerunBegin, ApproveCommit,
             LookAtJob, RemoveJob, ReanalyzeBegin, EnqueueAnalysis, RepublishCommit, RefundCommit,
             DeleteCommit, RequestThrows, TxTimeout, caseRow, WritesRow, At, Declaring
    <3>3. status' \in Due => status \in Due \/ Declaring
      BY <3>2 DEF Due
    <3>4. status' = "AWAITING_DOCS" => status = "AWAITING_DOCS"
      BY <3>2
    <3>. QED BY <2>2, <2>3, <3>1, <3>3, <3>4 DEF OwedInv
  <2>. QED BY <2>4, <2>5, <2>6
<1>. QED BY <1>1, <1>2

LEMMA OwedNext == TypeInv /\ OwedInv /\ [Next]_vars => OwedInv'
<1>. SUFFICES ASSUME TypeInv, OwedInv, [Next]_vars PROVE OwedInv'
  OBVIOUS
<1>1. ASSUME NEW d \in Docs, Upload(d) \/ Digitize(d)
      PROVE  OwedInv'
  BY <1>1 DEF Upload, Digitize, caseRow, OwedInv, Owed, Inside, PastScreens, Declaring
<1>2. CASE Crash
  <2>1. UNCHANGED <<status, completed, openings>> /\ ~Inside' /\ ~PastScreens' /\ ~Declaring'
    BY <1>2 DEF Crash, caseRow, content, Inside, PastScreens, Declaring, IdleWorker, IdleSlot
  <2>. QED BY <2>1 DEF OwedInv, Owed
<1>3. CASE UNCHANGED vars
  BY <1>3 DEF vars, OwedInv, Owed, Inside, PastScreens, Declaring
<1>. QED BY <1>1, <1>2, <1>3, OwedWorker, OwedHandlers DEF Next

LEMMA OwedInit == Init => OwedInv
<1>. SUFFICES ASSUME Init PROVE OwedInv
  OBVIOUS
<1>1. ~Inside /\ ~PastScreens /\ ~Declaring
  BY DEF Init, Inside, PastScreens, Declaring, IdleWorker, IdleSlot
<1>. QED BY <1>1, FS_EmptySet DEF Init, OwedInv, Owed

\* Whatever is repeated, resumed, retried or raced, a case completes no more analyses
\* than were called for: the first records-complete, each re-run, re-analysis and
\* rejection.  It rests on a request's transaction not outliving a screen.
THEOREM AnalysedAsCalledFor == Spec => []NeverAnalysedTwice
<1>1. TypeInv /\ OwedInv => NeverAnalysedTwice
  BY CountsAreNumbers DEF OwedInv, Owed, NeverAnalysedTwice
<1>. QED
  BY <1>1, TypeInit, OwedInit, TypeNext, OwedNext, PTL DEF Spec

-------------------------------------------------------------------------------
(* What is left of the claims that do not hold                             *)

\* Without faults, a job is completed only by a run that was, until all is erased.
FirstInv ==
  faults = 0 /\ status # Gone /\ (job.state = "completed" \/ worker.pc \in {"auto", "autotx"})
    => completed # {}

LEMMA FirstNext == TypeInv /\ LockInv /\ FirstInv /\ [Next]_vars => FirstInv'
<1>. SUFFICES ASSUME TypeInv, LockInv, FirstInv, [Next]_vars, faults' = 0, status' # Gone,
                     job'.state = "completed" \/ worker'.pc \in {"auto", "autotx"}
              PROVE  completed' # {}
  BY DEF FirstInv
<1>0. /\ status # Gone /\ faults \in Nat /\ worker \in WorkerType /\ job \in JobType
      /\ IdleWorker.pc = "idle"
  BY LockNext DEF TypeInv, TypeOK, IdleWorker
<1>1. ASSUME faults' = faults, completed \subseteq completed',
             job'.state = "completed" => job.state = "completed" \/ worker.pc \in {"auto", "autotx"},
             worker'.pc \in {"auto", "autotx"} => worker.pc \in {"auto", "autotx"}
      PROVE  completed' # {}
  BY <1>0, <1>1 DEF FirstInv
<1>2. CASE Backoff \/ Stalled \/ PickUp
  <2>1. job'.state # "completed" /\ (worker' = worker \/ worker'.pc = "start")
    BY <1>0, <1>2, IdleTypes DEF Backoff, Stalled, PickUp, JobType, WorkerType
  <2>2. UNCHANGED <<faults, completed>>
    BY <1>2 DEF Backoff, Stalled, PickUp, content, bounds
  <2>. QED BY <1>1, <2>1, <2>2
<1>3. CASE NoModel \/ WorkerFault \/ Crash
  BY <1>0, <1>3 DEF NoModel, WorkerFault, Crash
<1>4. ASSUME WorkerThrows, UNCHANGED <<faults, completed>>
      PROVE  completed' # {}
  <2>1. worker' = IdleWorker /\ job'.state # "completed"
    BY <1>0, <1>4 DEF WorkerThrows, Thrown, JobType
  <2>. QED BY <1>0, <1>1, <1>4, <2>1
<1>5. CASE Tx1Read \/ Tx3Read \/ WorkerRowGone
  <2>1. UNCHANGED <<faults, completed>>
    BY <1>5 DEF Tx1Read, Tx3Read, WorkerRowGone, content, bounds
  <2>2. CASE job' = job /\ worker'.pc \in {"tx1", "tx3"}
    BY <1>1, <2>1, <2>2
  <2>3. WorkerThrows \/ (job' = job /\ worker'.pc \in {"tx1", "tx3"})
    BY <1>0, <1>5 DEF Tx1Read, Tx3Read, WorkerRowGone, WorkerType
  <2>. QED BY <1>4, <2>1, <2>2, <2>3
<1>6. CASE Tx1Commit \/ ScreenCommit
  <2>1. job' = job /\ worker'.pc = "screens" /\ UNCHANGED <<faults, completed>>
    BY <1>0, <1>6 DEF Tx1Commit, ScreenCommit, WorkerType, bounds
  <2>. QED BY <1>1, <2>1
<1>7. CASE Tx3Commit
  BY <1>7 DEF Tx3Commit
<1>8. CASE AutoHold \/ AutoCommit \/ AutoRead
  <2>1. worker.pc \in {"auto", "autotx"} /\ UNCHANGED <<faults, completed>>
    BY <1>8 DEF AutoHold, AutoCommit, AutoRead, content, bounds
  <2>. QED BY <1>1, <2>1
<1>9. ASSUME NEW s \in Slots, Request(s) \/ ResumeRead(s)
      PROVE  completed' # {}
  BY <1>1, <1>9, RequestedOnly DEF content
<1>10. ASSUME NEW s \in Slots, RequestStep(s) \/ TxTimeout(s)
       PROVE  completed' # {}
  <2>1. faults' = faults
    <3>1. faults' = faults \/ faults' = faults + 1
      BY <1>10 DEF RequestStep, RecordsEnqueue, RecordsCommit, RerunBegin, RerunCommit, ApproveCommit,
         RejectCommit, LookAtJob, RemoveJob, ReanalyzeBegin, ReanalyzeCommit, EnqueueAnalysis,
         RepublishCommit, RefundCommit, DeleteCommit, Erase, RequestThrows, TxTimeout, bounds
    <3>. QED BY <1>0, <3>1
  <2>2. worker' = worker /\ job' \in {job, JobAdded, JobRemoved}
    BY <1>10 DEF RequestStep, RecordsEnqueue, RecordsCommit, RerunBegin, RerunCommit, ApproveCommit,
       RejectCommit, LookAtJob, RemoveJob, ReanalyzeBegin, ReanalyzeCommit, EnqueueAnalysis,
       RepublishCommit, RefundCommit, DeleteCommit, Erase, RequestThrows, TxTimeout
  <2>3. job'.state = "completed" => job.state = "completed"
    BY <2>2 DEF JobAdded, JobRemoved, NewJob, NoJob
  <2>4. completed' = completed \/ status' = Gone
    BY <1>10 DEF RequestStep, RecordsEnqueue, RecordsCommit, RerunBegin, RerunCommit, ApproveCommit,
       RejectCommit, LookAtJob, RemoveJob, ReanalyzeBegin, ReanalyzeCommit, EnqueueAnalysis, WritesRow,
       RepublishCommit, RefundCommit, DeleteCommit, Erase, RequestThrows, TxTimeout, content
  <2>. QED BY <1>1, <2>1, <2>2, <2>3, <2>4
<1>11. ASSUME NEW d \in Docs, Upload(d) \/ Digitize(d)
       PROVE  completed' # {}
  BY <1>1, <1>11 DEF Upload, Digitize, bounds
<1>12. CASE UNCHANGED vars
  BY <1>1, <1>12 DEF vars
<1>. QED
  BY <1>2, <1>3, <1>5, <1>6, <1>7, <1>8, <1>9, <1>10, <1>11, <1>12 DEF Next, WorkerStep

\* A case that was never reopened is not parked: without faults, what waits for its first
\* analysis has no completed job under its fixed id, which add() would leave it behind
\* (queue.ts:26-32); the parking of a re-run is the reopened case's alone.
THEOREM FirstIsNeverSwallowed == Spec => []FirstAnalysisIsNotSwallowed
<1>1. Init => FirstInv
  BY DEF Init, FirstInv, NoJob, IdleWorker
<1>2. ASSUME TypeInv, OwedInv, FirstInv PROVE FirstAnalysisIsNotSwallowed
  <2>1. SUFFICES ASSUME faults = 0, openings = 1, job.state = "completed",
                        status \in {"AWAITING_DOCS", "DOCS_COMPLETE", "ANALYZING"}
                 PROVE  FALSE
    BY DEF FirstAnalysisIsNotSwallowed
  <2>2. completed # {} /\ IsFiniteSet(completed) /\ Owed(1)
    BY <1>2, <2>1 DEF FirstInv, OwedInv, Due, Gone
  <2>3. Cardinality(completed) \in Nat /\ Cardinality(completed) # 0
    BY <2>2, FS_CardinalityType, FS_EmptySet
  <2>. QED BY <2>1, <2>2, <2>3 DEF Owed
<1>. QED
  BY <1>1, <1>2, TypeInit, LockInit, OwedInit, TypeNext, LockNext, OwedNext, FirstNext, PTL DEF Spec

\* The two ends allow no step of the review itself.
LEMMA EndsAreEnds ==
  status \in {"REFUNDED", "DELETED"} =>
    ~IsLegalTransition(status, "AWAITING_DOCS") /\ ~IsLegalTransition(status, "ADJUDICATING")
BY DEF IsLegalTransition, LegalTransitions, Forward

\* A handler's later steps that open or hold no transaction.
LEMMA SteppedQuietly ==
  ASSUME TypeInv, NEW s \in Slots, RequestStep(s) \/ TxTimeout(s), ~RecordsEnqueue(s),
         ~RerunBegin(s), ~ReanalyzeBegin(s)
  PROVE  \E r \in SlotType :
           /\ slots' = [slots EXCEPT ![s] = r]
           /\ r.pc \in {"idle", "begin", "remove", "enqueue", "erase"}
<1>0. slots \in [Slots -> SlotType] /\ IdleSlot \in SlotType /\ IdleSlot.pc = "idle"
  BY IdleTypes DEF TypeInv, TypeOK, IdleSlot
<1>1. CASE RejectCommit(s)
  BY <1>0, <1>1, SlotUpdates DEF RejectCommit
<1>2. CASE RemoveJob(s) \/ LookAtJob(s)
  BY <1>0, <1>2, SlotUpdates DEF RemoveJob, LookAtJob, AfterRemoval
<1>3. CASE ReanalyzeCommit(s) \/ DeleteCommit(s)
  BY <1>0, <1>3, SlotUpdates DEF ReanalyzeCommit, DeleteCommit
<1>4. CASE \/ RecordsCommit(s) \/ RerunCommit(s) \/ ApproveCommit(s) \/ EnqueueAnalysis(s)
           \/ RepublishCommit(s) \/ RefundCommit(s) \/ Erase(s) \/ RequestThrows(s)
           \/ TxTimeout(s)
  BY <1>0, <1>4, SlotUpdates DEF RecordsCommit, RerunCommit, ApproveCommit, EnqueueAnalysis, RepublishCommit,
              RefundCommit, Erase, RequestThrows, TxTimeout
<1>. QED BY <1>1, <1>2, <1>3, <1>4 DEF RequestStep

LEMMA SettledNext == TypeInv /\ Settled /\ [Next]_vars => Settled'
<1>. SUFFICES ASSUME TypeInv, Settled, [Next]_vars PROVE Settled'
  OBVIOUS
<1>0. /\ slots \in [Slots -> SlotType] /\ worker \in WorkerType
      /\ IdleWorker.pc = "idle" /\ IdleSlot.pc = "idle"
      /\ status \in {"REFUNDED", "DELETED", Gone}
  BY DEF TypeInv, TypeOK, IdleWorker, IdleSlot, Settled
<1>1. ASSUME UNCHANGED <<status, slots>>,
             worker' = worker \/ worker'.pc \in {"idle", "start", "screens", "auto"}
      PROVE  Settled'
  BY <1>1 DEF Settled
<1>2. CASE Backoff \/ Stalled \/ NoModel \/ WorkerFault \/ WorkerRowGone \/ AutoHold
  <2>1. UNCHANGED <<status, slots>> /\ (worker' = worker \/ worker' = IdleWorker)
    BY <1>2 DEF Backoff, Stalled, NoModel, WorkerFault, WorkerRowGone, AutoHold, WorkerThrows,
                JobDone, caseRow
  <2>. QED BY <1>0, <1>1, <2>1
<1>3. CASE PickUp \/ ScreenCommit
  <2>1. UNCHANGED <<status, slots>> /\ worker'.pc \in {"start", "screens"}
    BY <1>0, <1>3, IdleTypes DEF PickUp, ScreenCommit, caseRow, WorkerType
  <2>. QED BY <1>1, <2>1
<1>4. CASE Tx1Read \/ Tx3Read
  <2>1. status \notin Analyzable /\ ~(status # Gone /\ IsLegalTransition(status, "ADJUDICATING"))
    BY <1>0, EndsAreEnds DEF Analyzable, Gone
  <2>2. UNCHANGED <<status, slots>> /\ worker' = IdleWorker
    BY <1>4, <2>1 DEF Tx1Read, Tx3Read, WorkerThrows, caseRow
  <2>. QED BY <1>0, <1>1, <2>2
<1>5. CASE Tx1Commit
  <2>1. UNCHANGED <<status, slots>> /\ worker'.pc = "screens"
    BY <1>0, <1>5 DEF Tx1Commit, Settled, WorkerType
  <2>. QED BY <1>1, <2>1
<1>6. CASE Tx3Commit \/ AutoRead \/ AutoCommit
  BY <1>0, <1>6 DEF Tx3Commit, AutoRead, AutoCommit, Settled, Gone
<1>7. ASSUME NEW s \in Slots, Request(s) \/ ResumeRead(s)
      PROVE  Settled'
  <2>1. PICK r \in SlotType :
          /\ slots' = [slots EXCEPT ![s] = r]
          /\ r.pc \in {"tx", "commit"} => r.op \in {"refund", "delete"}
    BY <1>0, <1>7, Requested DEF Gone
  <2>2. UNCHANGED <<status, worker>>
    BY <1>7, RequestedOnly DEF caseRow
  <2>. QED BY <1>0, <2>1, <2>2 DEF Settled
<1>8. ASSUME NEW s \in Slots, RequestStep(s) \/ TxTimeout(s)
      PROVE  Settled'
  <2>1. ~(\/ RecordsEnqueue(s) \/ RecordsCommit(s) \/ RerunCommit(s) \/ ApproveCommit(s) \/ RejectCommit(s)
          \/ ReanalyzeCommit(s))
    BY DEF Settled, RecordsEnqueue, RecordsCommit, RerunCommit, ApproveCommit, RejectCommit,
           ReanalyzeCommit, At
  <2>2. PICK r \in SlotType :
          /\ slots' = [slots EXCEPT ![s] = r]
          /\ r.pc \notin {"tx", "commit"}
    <3>1. CASE RerunBegin(s) \/ ReanalyzeBegin(s)
      <4>1. Finish(s)
        BY <1>0, <3>1, EndsAreEnds DEF RerunBegin, ReanalyzeBegin
      <4>. QED BY <1>0, <4>1, IdleTypes DEF Finish
    <3>2. CASE ~(RerunBegin(s) \/ ReanalyzeBegin(s))
      BY <1>0, <1>8, <2>1, <3>2, SteppedQuietly
    <3>. QED BY <3>1, <3>2
  <2>3. worker' = worker /\ status' \in {"REFUNDED", "DELETED", Gone}
    BY <1>0, <1>8, <2>1 DEF RequestStep, RerunBegin, LookAtJob, RemoveJob, ReanalyzeBegin, EnqueueAnalysis,
       WritesRow, RepublishCommit, RefundCommit, DeleteCommit, Erase, RequestThrows, TxTimeout, caseRow
  <2>. QED BY <1>0, <2>2, <2>3 DEF Settled
<1>9. ASSUME NEW d \in Docs, Upload(d) \/ Digitize(d)
      PROVE  Settled'
  BY <1>1, <1>9 DEF Upload, Digitize, caseRow
<1>10. CASE Crash
  BY <1>0, <1>10 DEF Crash, caseRow, Settled
<1>11. CASE UNCHANGED vars
  BY <1>1, <1>11 DEF vars
<1>. QED
  BY <1>2, <1>3, <1>4, <1>5, <1>6, <1>7, <1>8, <1>9, <1>10, <1>11 DEF Next, WorkerStep

\* Only who read the case before its refund can take it out of REFUNDED: once no such handler
\* or worker is left, assertTransition keeps it there until it is deleted (machine.ts:36-41).
THEOREM RefundIsFinalOnceSettled == Spec => SettledStaysSettled
<1>1. TypeInv /\ [Next]_vars => [Settled => Settled']_vars
  BY SettledNext
<1>. QED BY <1>1, TypeInit, TypeNext, PTL DEF Spec, SettledStaysSettled

\* The handlers that read a report to publish it again.
Republishing == {s \in Slots : slots[s].pc = "publish"}
\* What is there once the row is gone: what the worker and those handlers put back.
LeftInv ==
  status = Gone =>
    /\ Present = {} /\ completed = {}
    /\ Len(runs) <= 1 /\ \E n : findings \subseteq {n}
    /\ worker.pc = "screens" => findings \subseteq {worker.run}
    /\ worker.pc = "tx1" => runs = <<>> /\ findings = {}
    /\ Len(reports) + Cardinality(Republishing) <= Cardinality(Slots)

\* Fewer handlers are no more.
LEMMA FewerHandlers ==
  ASSUME NEW A, NEW B, A \subseteq B, B \subseteq Slots
  PROVE  /\ IsFiniteSet(A) /\ Cardinality(A) \in Nat /\ Cardinality(B) \in Nat
         /\ Cardinality(A) <= Cardinality(B)
BY BoundsAssumption, FS_Subset, FS_CardinalityType

\* Only the hard delete removes the row, and it leaves nothing.
LEMMA OnlyErase ==
  ASSUME TypeInv, LockInv, [Next]_vars, status # Gone, status' = Gone
  PROVE  LeftInv'
<1>1. PICK s \in Slots : Erase(s)
  <2>1. ~(WorkerStep \/ Backoff \/ Stalled \/ NoModel \/ WorkerFault \/ Crash) /\ ~UNCHANGED vars
    BY DEF WorkerStep, PickUp, Tx1Read, Tx1Commit, ScreenCommit, Tx3Read, Tx3Commit, WorkerRowGone,
           AutoHold, AutoRead, AutoCommit, Backoff, Stalled, NoModel, WorkerFault, Crash, caseRow, vars, Gone
  <2>2. \A s \in Slots : ~Request(s) /\ ~ResumeRead(s)
    BY RequestedOnly DEF caseRow
  <2>3. \A d \in Docs : ~Upload(d) /\ ~Digitize(d)
    BY DEF Upload, Digitize, caseRow
  <2>4. PICK s \in Slots : RequestStep(s) \/ TxTimeout(s)
    BY <2>1, <2>2, <2>3 DEF Next
  <2>5. Erase(s)
    BY <2>4 DEF RequestStep, RecordsEnqueue, RecordsCommit, RerunBegin, RerunCommit, ApproveCommit,
       RejectCommit, LookAtJob, RemoveJob, ReanalyzeBegin, ReanalyzeCommit, EnqueueAnalysis, WritesRow,
       RepublishCommit, RefundCommit, DeleteCommit, RequestThrows, TxTimeout, caseRow, Gone
  <2>. QED BY <2>5
<1>2. /\ docs' = [d \in Docs |-> "absent"]
      /\ runs' = <<>> /\ completed' = {} /\ findings' = {} /\ reports' = <<>>
  BY <1>1 DEF Erase
<1>3. Present' = {}
  BY <1>2 DEF Present
<1>4. Len(<<>>) = 0
  OBVIOUS
<1>5. Cardinality(Republishing') \in Nat /\ Cardinality(Republishing') <= Cardinality(Slots)
  <2>1. Republishing' \subseteq Slots
    BY DEF Republishing
  <2>. QED BY <2>1, FewerHandlers
<1>. QED BY <1>2, <1>3, <1>4, <1>5 DEF LeftInv

LEMMA LeftNext == TypeInv /\ LockInv /\ LeftInv /\ [Next]_vars => LeftInv'
<1>. SUFFICES ASSUME TypeInv, LockInv, LeftInv, [Next]_vars, status = Gone, status' = Gone
              PROVE  LeftInv'
  BY OnlyErase DEF LeftInv
<1>0. /\ slots \in [Slots -> SlotType] /\ worker \in WorkerType /\ runs \in Seq(SUBSET Docs)
      /\ reports \in Seq(ReportType) /\ Len(reports) \in Nat
      /\ IdleWorker.pc = "idle" /\ IdleSlot.pc = "idle"
  BY DEF TypeInv, TypeOK, IdleWorker, IdleSlot
<1>1. /\ Present = {} /\ completed = {}
      /\ Len(runs) <= 1 /\ \E n : findings \subseteq {n}
      /\ worker.pc = "screens" => findings \subseteq {worker.run}
      /\ worker.pc = "tx1" => runs = <<>> /\ findings = {}
      /\ Len(reports) + Cardinality(Republishing) <= Cardinality(Slots)
  BY DEF LeftInv
<1>2. ASSUME UNCHANGED content, Republishing' \subseteq Republishing,
             worker' = worker \/ worker'.pc \notin {"screens", "tx1"}
      PROVE  LeftInv'
  <2>1. /\ Cardinality(Republishing') <= Cardinality(Republishing)
        /\ Cardinality(Republishing') \in Nat /\ Cardinality(Republishing) \in Nat
        /\ Cardinality(Slots) \in Nat
    <3>1. Republishing \subseteq Slots
      BY DEF Republishing
    <3>. QED BY <1>2, <3>1, FewerHandlers
  <2>2. UNCHANGED <<docs, runs, completed, findings, reports>>
    BY <1>2 DEF content
  <2>3. Present' = {}
    BY <1>1, <2>2 DEF Present
  <2>4. Len(reports') + Cardinality(Republishing') <= Cardinality(Slots)
    BY <1>0, <1>1, <2>1, <2>2
  <2>. QED BY <1>1, <1>2, <2>2, <2>3, <2>4 DEF LeftInv
<1>3. CASE Backoff \/ Stalled \/ NoModel \/ WorkerFault \/ WorkerRowGone \/ AutoHold \/ PickUp
  <2>1. UNCHANGED <<content, slots>> /\ (worker' = worker \/ worker'.pc \in {"idle", "start"})
    BY <1>0, <1>3, IdleTypes DEF Backoff, Stalled, NoModel, WorkerFault, WorkerRowGone, AutoHold, PickUp,
                WorkerThrows, JobDone, WorkerType
  <2>. QED BY <1>2, <2>1 DEF Republishing
<1>4. CASE Tx1Read \/ Tx3Read
  <2>1. UNCHANGED <<content, slots>> /\ worker' = IdleWorker
    BY <1>4 DEF Tx1Read, Tx3Read, Analyzable, Gone, WorkerThrows
  <2>. QED BY <1>0, <1>2, <2>1 DEF Republishing
<1>5. CASE Tx1Commit
  <2>1. /\ runs = <<>> /\ findings = {} /\ worker'.pc = "screens" /\ Len(runs') = 1
        /\ UNCHANGED <<docs, completed, findings, reports, slots>>
    BY <1>0, <1>1, <1>5 DEF Tx1Commit, WorkerType
  <2>. QED BY <1>1, <2>1 DEF LeftInv, Present, Republishing
<1>6. CASE ScreenCommit
  <2>1. PICK k : k = worker.run
    OBVIOUS
  <2>2. /\ worker'.pc = "screens" /\ worker'.run = k /\ findings' = {k}
        /\ UNCHANGED <<docs, runs, completed, reports, slots>>
    BY <1>0, <1>1, <1>6, <2>1 DEF ScreenCommit, WorkerType
  <2>. QED BY <1>1, <2>2 DEF LeftInv, Present, Republishing
<1>7. ~(Tx3Commit \/ AutoRead \/ AutoCommit)
  BY DEF Tx3Commit, AutoRead, AutoCommit, Gone
<1>8. ASSUME NEW s \in Slots, Request(s) \/ ResumeRead(s)
      PROVE  LeftInv'
  <2>1. PICK r \in SlotType : slots' = [slots EXCEPT ![s] = r] /\ r.pc # "publish"
    BY <1>8, Requested
  <2>2. UNCHANGED <<content, worker>>
    BY <1>8, RequestedOnly
  <2>. QED BY <1>0, <1>2, <2>1, <2>2 DEF Republishing
<1>9. ASSUME NEW s \in Slots, RequestStep(s) \/ TxTimeout(s)
      PROVE  LeftInv'
  <2>1. PICK r \in SlotType : slots' = [slots EXCEPT ![s] = r] /\ r.pc # "publish"
    BY <1>0, <1>9, Stepped
  <2>2. worker' = worker
    BY <1>9 DEF RequestStep, RecordsEnqueue, RecordsCommit, RerunBegin, RerunCommit, ApproveCommit,
       RejectCommit, LookAtJob, RemoveJob, ReanalyzeBegin, ReanalyzeCommit, EnqueueAnalysis,
       RepublishCommit, RefundCommit, DeleteCommit, Erase, RequestThrows, TxTimeout
  <2>3. Republishing' = Republishing \ {s}
    BY <1>0, <2>1 DEF Republishing
  <2>4. CASE RepublishCommit(s)
    <3>1. /\ s \in Republishing /\ Len(reports') = Len(reports) + 1
          /\ UNCHANGED <<docs, runs, completed, findings>>
      BY <1>0, <2>4 DEF RepublishCommit, At, Republishing
    <3>2. Cardinality(Republishing') = Cardinality(Republishing) - 1
      <4>1. IsFiniteSet(Republishing)
        BY FewerHandlers DEF Republishing
      <4>. QED BY <2>3, <3>1, <4>1, FS_RemoveElement
    <3>3. Cardinality(Republishing) \in Nat /\ Cardinality(Slots) \in Nat
      BY FewerHandlers DEF Republishing
    <3>4. Len(reports') + Cardinality(Republishing') <= Cardinality(Slots)
      BY <1>0, <1>1, <3>1, <3>2, <3>3
    <3>. QED BY <1>1, <2>2, <3>1, <3>4 DEF LeftInv, Present
  <2>5. CASE ~RepublishCommit(s)
    <3>1. UNCHANGED content
      BY <1>9, <2>5 DEF RequestStep, RecordsEnqueue, RecordsCommit, RerunBegin, RerunCommit, ApproveCommit,
         RejectCommit, LookAtJob, RemoveJob, ReanalyzeBegin, ReanalyzeCommit, EnqueueAnalysis, WritesRow,
         RefundCommit, DeleteCommit, Erase, RequestThrows, TxTimeout
    <3>. QED BY <1>2, <2>2, <2>3, <3>1
  <2>. QED BY <2>4, <2>5
<1>10. ASSUME NEW d \in Docs, Upload(d) \/ Digitize(d)
       PROVE  LeftInv'
  BY <1>1, <1>10 DEF Upload, Digitize, Present
<1>11. CASE Crash
  <2>1. UNCHANGED content /\ worker'.pc = "idle" /\ Republishing' \subseteq Republishing
    BY <1>0, <1>11 DEF Crash, Republishing
  <2>. QED BY <1>2, <2>1
<1>12. CASE UNCHANGED vars
  BY <1>2, <1>12 DEF vars, content, Republishing
<1>. QED
  BY <1>3, <1>4, <1>5, <1>6, <1>7, <1>8, <1>9, <1>10, <1>11, <1>12 DEF Next, WorkerStep

\* However many handlers race it, a scoped deletion (deletion.service.ts:5-9) misses at most one
\* run, that run's findings and a report for each republish in flight; a document, or a run that
\* could be released, it never misses.
THEOREM DeletionMissesLittle == Spec => []DeletionMissesOnlyTheInFlight
<1>1. Init => LeftInv
  BY DEF Init, LeftInv, Gone
<1>2. ASSUME LeftInv, TypeInv PROVE DeletionMissesOnlyTheInFlight
  <2>1. SUFFICES ASSUME status = Gone
                 PROVE  Cardinality(findings) <= 1 /\ Len(reports) <= Cardinality(Slots)
    BY <1>2 DEF LeftInv, DeletionMissesOnlyTheInFlight
  <2>2. PICK n : findings \subseteq {n}
    BY <1>2, <2>1 DEF LeftInv
  <2>3. Cardinality(findings) <= 1
    <3>1. findings = {} \/ findings = {n}
      BY <2>2
    <3>2. Cardinality({}) = 0 /\ Cardinality({n}) = 1
      BY FS_EmptySet, FS_Singleton
    <3>. QED BY <3>1, <3>2
  <2>4. Len(reports) \in Nat /\ Cardinality(Republishing) \in Nat /\ Cardinality(Slots) \in Nat
    <3>1. Len(reports) \in Nat
      BY <1>2 DEF TypeInv, TypeOK
    <3>. QED BY <3>1, FewerHandlers DEF Republishing
  <2>5. Len(reports) + Cardinality(Republishing) <= Cardinality(Slots)
    BY <1>2, <2>1 DEF LeftInv
  <2>. QED BY <2>3, <2>4, <2>5
<1>. QED
  BY <1>1, <1>2, TypeInit, LockInit, TypeNext, LockNext, LeftNext, PTL DEF Spec
================================================================================
