--------------------------- MODULE AnalysisPipeline ---------------------------
(***************************************************************************)
(* One family case from the documents page to its released report: the     *)
(* Case row, its BullMQ analysis job, the analysis worker, and the request *)
(* handlers that move the case (records-complete, re-run purchase, QA      *)
(* decisions, the ops console's resume / re-analyze / republish, refund,   *)
(* scoped deletion).                                                       *)
(*                                                                         *)
(* Every handler runs in an interactive READ COMMITTED transaction that    *)
(* first READS (SELECT, guards, assertTransition) and later WRITES (UPDATE *)
(* ... WHERE id, INSERT, COMMIT).  A handler is therefore at least two     *)
(* steps here, with anything at all in between: what the first step read is *)
(* kept in the handler's own record and may be stale when the second step  *)
(* writes.  A write never re-checks the status; it only fails when the row *)
(* is gone.                                                                *)
(*                                                                         *)
(* Counsel tenants (QUOTED, assertQuoteSettled) are another component; a   *)
(* family case is never QUOTED.  No source line moves a case to DELIVERED. *)
(***************************************************************************)
EXTENDS CaseMachine, FiniteSets, Sequences

CONSTANTS
  Docs,         \* the documents that may be uploaded to the case
  Slots,        \* concurrent request handlers
  Ops,          \* which handlers the environment calls
  AutoApprove,  \* the AUTO_APPROVE environment switch
  Screens,      \* per-screen transactions of a run, at least one in every lane
  MaxRequests,  \* bound on the requests the environment makes
  MaxFaults     \* bound on crashes, aborted transactions, Redis and model errors

AllOps == {"records", "rerun", "approve", "qaRerun", "qaReject", "resume",
           "reanalyze", "republish", "refund", "delete"}

ASSUME BoundsAssumption ==
  /\ Ops \subseteq AllOps /\ IsFiniteSet(Slots)
  /\ AutoApprove \in BOOLEAN
  /\ Screens \in Nat \ {0} /\ MaxRequests \in Nat /\ MaxFaults \in Nat

VARIABLES
  status,     \* Case.status, or Gone once the row is deleted
  sla,        \* how often slaStartedAt was stamped
  refunded,   \* the review payment's full refund is in the ledger
  docs,       \* what is known of each document
  runs,       \* AnalysisRun rows by runNo: the documents frozen into each
  completed,  \* the runNo of the runs with completedAt
  findings,   \* the runNo of the runs with Finding rows
  reports,    \* Report rows, in the order they were created
  openings,   \* history: how often an analysis of this case was called for
  job,        \* the BullMQ job analysis-<caseId>
  worker,     \* the analysis worker's processor
  slots,      \* the request handlers in flight
  lock,       \* the handler whose open transaction holds the Case row lock
  issued, faults  \* used up bounds

vars == <<status, sla, refunded, docs, runs, completed, findings, reports,
          openings, job, worker, slots, lock, issued, faults>>

caseRow == <<status, sla, refunded, openings>>
content == <<docs, runs, completed, findings, reports>>
bounds  == <<issued, faults>>

Gone == "GONE"
Rows == CaseStatuses \cup {Gone}

\* analysisQueue's defaultJobOptions.attempts, and BullMQ's maxStalledCount.
Attempts == 2
MaxStalled == 1

NoJob    == [state |-> "none", made |-> 0, stalls |-> 0]
NewJob   == [state |-> "waiting", made |-> 0, stalls |-> 0]
LiveJob  == {"waiting", "delayed", "active"}
JobStates == LiveJob \cup {"none", "completed", "failed"}

IdleWorker == [pc |-> "idle", saw |-> Gone, run |-> 0, ver |-> 0,
               frozen |-> {}, left |-> 0]
IdleSlot   == [op |-> "none", pc |-> "idle", saw |-> Gone, run |-> 0, ver |-> 0,
               flag |-> FALSE]

Present == {d \in Docs : docs[d] # "absent"}
HasText == {d \in Docs : docs[d] = "read"}

\* The report with the highest versionNo, the one every reader is shown.
LatestReports ==
  {i \in DOMAIN reports : \A k \in DOMAIN reports : reports[k].ver <= reports[i].ver}

\* Documents created after the last report was rendered.
NewSince(i) == Present \ reports[i].present

\* No request transaction is open.  An interactive transaction times out in
\* seconds: it outlives neither a model call nor the 30 s retry backoff.
NoOpenTx == \A s \in Slots : slots[s].pc \notin {"tx", "commit"}

-------------------------------------------------------------------------------
(* The job queue.  A definition named ...Flawed is its successor with one  *)
(* plausible defect: the runs are repeated with it, to see that they notice. *)

\* add() with the fixed job id: a no-op while a job of that id exists.
JobAdded == IF job.state = "none" THEN NewJob ELSE job

JobRemovedFlawed == NoJob

\* remove(): an active job is locked by its worker and stays; every caller
\* swallows that error.
JobRemoved == IF job.state = "active" THEN job ELSE NoJob

ThrownFlawed(j) == [j EXCEPT !.made = @ + 1, !.state = "delayed"]

\* Mutant: the last attempt's error is caught, so the job completes.
ThrownFlawed2(j) == [j EXCEPT !.made = @ + 1,
                              !.state = IF j.made + 1 < Attempts THEN "delayed" ELSE "completed"]

\* The processor threw: another attempt after the backoff, or the job is dead.
Thrown(j) == [j EXCEPT !.made = @ + 1,
                       !.state = IF j.made + 1 < Attempts THEN "delayed" ELSE "failed"]

WorkerThrows == job' = Thrown(job) /\ worker' = IdleWorker

JobDone == job' = [job EXCEPT !.state = "completed"] /\ worker' = IdleWorker

\* The backoff is over.
Backoff ==
  /\ job.state = "delayed" /\ NoOpenTx
  /\ job' = [job EXCEPT !.state = "waiting"]
  /\ UNCHANGED <<caseRow, content, worker, slots, lock, bounds>>

\* BullMQ finds an active job whose worker died: back to waiting once, then
\* failed.
Stalled ==
  /\ job.state = "active" /\ worker.pc = "idle"
  /\ job' = [job EXCEPT !.stalls = @ + 1,
                        !.state = IF job.stalls < MaxStalled THEN "waiting" ELSE "failed"]
  /\ UNCHANGED <<caseRow, content, worker, slots, lock, bounds>>

-------------------------------------------------------------------------------
(* The analysis worker: analysis.worker.ts, runAnalysisInner, autoApproveCase *)

AnalyzableFlawed == {"AWAITING_DOCS", "DOCS_COMPLETE", "ANALYZING", "QA_REJECTED"}
AnalyzableFlawed2 == {"DOCS_COMPLETE", "ANALYZING", "QA_REJECTED", "QA_REVIEW"}

\* The statuses a run may start from.
Analyzable == {"DOCS_COMPLETE", "ANALYZING", "QA_REJECTED"}

PickUp ==
  /\ job.state = "waiting" /\ worker.pc = "idle"
  /\ job' = [job EXCEPT !.state = "active"]
  /\ worker' = [IdleWorker EXCEPT !.pc = "start"]
  /\ UNCHANGED <<caseRow, content, slots, lock, bounds>>

\* No model credential: the job completes and the case stays where it is.
NoModel ==
  /\ worker.pc = "start" /\ faults < MaxFaults
  /\ faults' = faults + 1
  /\ JobDone
  /\ UNCHANGED <<caseRow, content, slots, lock, issued>>

\* Transaction 1 reads the status and freezes the chunks that exist by now.
Tx1Read ==
  /\ worker.pc = "start"
  /\ IF status \in Analyzable /\ HasText # {}
     THEN /\ worker' = [worker EXCEPT !.pc = "tx1", !.saw = status, !.frozen = HasText]
          /\ UNCHANGED job
     ELSE WorkerThrows
  /\ UNCHANGED <<caseRow, content, slots, lock, bounds>>

\* It creates run count+1 and enters ANALYZING.  A retry that read ANALYZING
\* writes no Case row, so not even a deleted row stops it.
Tx1Commit ==
  /\ worker.pc = "tx1"
  /\ IF worker.saw = "ANALYZING"
     THEN UNCHANGED status
     ELSE lock = {} /\ status # Gone /\ status' = "ANALYZING"
  /\ runs' = Append(runs, worker.frozen)
  /\ worker' = [worker EXCEPT !.pc = "screens", !.run = Len(runs) + 1, !.left = Screens]
  /\ UNCHANGED <<sla, refunded, openings, docs, completed, findings, reports,
                 job, slots, lock, bounds>>

\* A screen's findings: minutes of model work, then a transaction that never
\* looks at the Case row.
ScreenCommit ==
  /\ worker.pc = "screens" /\ worker.left > 0 /\ NoOpenTx
  /\ findings' = findings \cup {worker.run}
  /\ worker' = [worker EXCEPT !.left = @ - 1]
  /\ UNCHANGED <<caseRow, docs, runs, completed, reports, job, slots, lock, bounds>>

\* A model error, a refused request, a transaction that timed out.
WorkerFault ==
  /\ worker.pc \in {"tx1", "screens", "tx3"} /\ faults < MaxFaults
  /\ faults' = faults + 1
  /\ WorkerThrows
  /\ UNCHANGED <<caseRow, content, slots, lock, issued>>

Tx3Read ==
  /\ worker.pc = "screens" /\ worker.left = 0
  /\ IF status # Gone /\ IsLegalTransition(status, "ADJUDICATING")
     THEN worker' = [worker EXCEPT !.pc = "tx3", !.saw = status] /\ UNCHANGED job
     ELSE WorkerThrows
  /\ UNCHANGED <<caseRow, content, slots, lock, bounds>>

\* ADJUDICATING and QA_REVIEW in one transaction, with the run's completedAt.
Tx3Commit ==
  /\ worker.pc = "tx3" /\ lock = {} /\ status # Gone
  /\ status' = "QA_REVIEW"
  /\ completed' = completed \cup {worker.run}
  /\ IF AutoApprove
     THEN worker' = [worker EXCEPT !.pc = "auto"] /\ UNCHANGED job
     ELSE JobDone
  /\ UNCHANGED <<sla, refunded, openings, docs, runs, findings, reports, slots, lock, bounds>>

\* A transaction that writes the Case row finds the row deleted.
WorkerRowGone ==
  /\ status = Gone
  /\ worker.pc = "tx3" \/ (worker.pc = "tx1" /\ worker.saw # "ANALYZING")
  /\ WorkerThrows
  /\ UNCHANGED <<caseRow, content, slots, lock, bounds>>

\* A gate holds the case for a person, or auto-QA threw: either way the job
\* completes and the case stays in QA_REVIEW.
AutoHold ==
  /\ worker.pc \in {"auto", "autotx"}
  /\ JobDone
  /\ UNCHANGED <<caseRow, content, slots, lock, bounds>>

AutoRead ==
  /\ worker.pc = "auto" /\ status = "QA_REVIEW"
  /\ worker' = [worker EXCEPT !.pc = "autotx", !.run = Len(runs), !.ver = Len(reports) + 1]
  /\ UNCHANGED <<caseRow, content, job, slots, lock, bounds>>

AutoCommit ==
  /\ worker.pc = "autotx" /\ lock = {} /\ status # Gone
  /\ status' = "READY"
  /\ reports' = Append(reports, [run |-> worker.run, ver |-> worker.ver, present |-> Present])
  /\ JobDone
  /\ UNCHANGED <<sla, refunded, openings, docs, runs, completed, findings, slots, lock, bounds>>

WorkerStep ==
  \/ PickUp \/ Tx1Read \/ Tx1Commit \/ ScreenCommit \/ Tx3Read \/ Tx3Commit
  \/ WorkerRowGone \/ AutoHold \/ AutoRead \/ AutoCommit

-------------------------------------------------------------------------------
(* The request handlers.  A step of slot s is one of its transactions' reads, *)
(* one commit, or one call to the queue.                                   *)

At(s, op, pc) == slots[s].op = op /\ slots[s].pc = pc

Receive(s, op) ==
  /\ slots[s].pc = "idle" /\ op \in Ops
  /\ IF op = "resume" THEN UNCHANGED issued
                      ELSE issued < MaxRequests /\ issued' = issued + 1
  /\ UNCHANGED <<caseRow, content, job, worker, lock, faults>>

Become(s, op, pc, f) == slots' = [slots EXCEPT ![s] = [f EXCEPT !.op = op, !.pc = pc]]
Goto(s, pc) == slots' = [slots EXCEPT ![s].pc = pc]
Finish(s)   == slots' = [slots EXCEPT ![s] = IdleSlot]

WritesRowFlawed(to) == lock = {} /\ status' = to

\* The transaction's UPDATE of the Case row, which waits for the row lock.
WritesRow(to) == lock = {} /\ status # Gone /\ status' = to

\* POST /:id/records-complete.  Its guards are read; a re-run with no document
\* newer than the last report is refused.
RecordsRead(s) ==
  /\ status = "AWAITING_DOCS" /\ Present # {}
  /\ reports = <<>> \/ \E i \in LatestReports : NewSince(i) # {}
  /\ Become(s, "records", "tx", [IdleSlot EXCEPT !.flag = (sla = 0)])
  /\ Receive(s, "records")

\* The row is updated and the analysis enqueued inside the open transaction;
\* a Redis error is tolerated.
RecordsEnqueue(s) ==
  /\ At(s, "records", "tx") /\ lock = {} /\ status # Gone
  /\ lock' = {s} /\ Goto(s, "commit")
  /\ \/ job' = JobAdded /\ UNCHANGED faults
     \/ faults < MaxFaults /\ faults' = faults + 1 /\ UNCHANGED job
  /\ UNCHANGED <<caseRow, content, worker, issued>>

RecordsCommit(s) ==
  /\ At(s, "records", "commit")
  /\ status' = "DOCS_COMPLETE"
  /\ sla' = IF slots[s].flag THEN sla + 1 ELSE sla
  /\ lock' = {} /\ Finish(s)
  /\ UNCHANGED <<refunded, openings, content, job, worker, bounds>>

\* A re-run purchase is fulfilled: the case is read before the transaction and
\* reopens when it was finished then.
RerunRead(s) ==
  /\ status # Gone
  /\ Become(s, "rerun", "begin", [IdleSlot EXCEPT !.flag = status \in {"READY", "DELIVERED"}])
  /\ Receive(s, "rerun")

\* Mutant: what was read before the transaction is not asked again inside it.
RerunBeginFlawed(s) ==
  /\ At(s, "rerun", "begin")
  /\ IF slots[s].flag THEN Goto(s, "tx") ELSE Finish(s)
  /\ UNCHANGED <<caseRow, content, job, worker, lock, bounds>>

RerunBegin(s) ==
  /\ At(s, "rerun", "begin")
  /\ IF slots[s].flag /\ status # Gone /\ IsLegalTransition(status, "AWAITING_DOCS")
     THEN Goto(s, "tx")
     ELSE Finish(s)
  /\ UNCHANGED <<caseRow, content, job, worker, lock, bounds>>

RerunCommit(s) ==
  /\ At(s, "rerun", "tx") /\ WritesRow("AWAITING_DOCS")
  /\ openings' = openings + 1
  /\ Finish(s)
  /\ UNCHANGED <<sla, refunded, content, job, worker, lock, bounds>>

ApproveReadFlawed(s) ==
  /\ status \in {"QA_REVIEW", "ANALYZING"} /\ runs # <<>>
  /\ Become(s, "approve", "tx", [IdleSlot EXCEPT !.run = Len(runs), !.ver = Len(reports) + 1])
  /\ Receive(s, "approve")

\* POST /qa/cases/:id/approve: the latest run, incomplete ones included, and
\* versionNo = the number of reports + 1.
ApproveRead(s) ==
  /\ status = "QA_REVIEW"
  /\ Become(s, "approve", "tx", [IdleSlot EXCEPT !.run = Len(runs), !.ver = Len(reports) + 1])
  /\ Receive(s, "approve")

ApproveCommit(s) ==
  /\ At(s, "approve", "tx") /\ WritesRow("READY")
  /\ reports' = Append(reports, [run |-> slots[s].run, ver |-> slots[s].ver, present |-> Present])
  /\ Finish(s)
  /\ UNCHANGED <<sla, refunded, openings, docs, runs, completed, findings, job, worker, lock, bounds>>

\* POST /qa/cases/:id/rerun and /reject: the same rejection; the re-run then
\* clears the job id and enqueues.
RejectRead(s, op) ==
  /\ op \in {"qaRerun", "qaReject"}
  /\ status = "QA_REVIEW"
  /\ Become(s, op, "tx", IdleSlot)
  /\ Receive(s, op)

RejectCommit(s) ==
  /\ slots[s].op \in {"qaRerun", "qaReject"} /\ slots[s].pc = "tx"
  /\ WritesRow("QA_REJECTED")
  /\ openings' = openings + 1
  /\ IF slots[s].op = "qaRerun" THEN Goto(s, "remove") ELSE Finish(s)
  /\ UNCHANGED <<sla, refunded, content, job, worker, lock, bounds>>

RunningFlawed == {"DIGITIZING", "DOCS_COMPLETE", "ADJUDICATING"}

\* The statuses an operator may resume.
Running == {"DIGITIZING", "DOCS_COMPLETE", "ANALYZING", "ADJUDICATING"}

\* POST /ops/cases/:id/resume of a running case, and
ResumeRead(s) ==
  /\ status \in Running
  /\ Become(s, "resume", "look", IdleSlot)
  /\ Receive(s, "resume")

\* POST /ops/cases/:id/reanalyze of a finished one with text.
ReanalyzeRead(s) ==
  /\ status \in {"READY", "DELIVERED"} /\ HasText # {}
  /\ Become(s, "reanalyze", "look", IdleSlot)
  /\ Receive(s, "reanalyze")

AfterRemoval(s) == IF slots[s].op = "reanalyze" THEN "begin" ELSE "enqueue"

\* Both then look at the job: a live one refuses them (409).
LookAtJob(s) ==
  /\ slots[s].pc = "look"
  /\ \/ job.state \in LiveJob /\ Finish(s)
     \/ job.state = "none" /\ Goto(s, AfterRemoval(s))
     \/ job.state \notin LiveJob \cup {"none"} /\ Goto(s, "remove")
  /\ UNCHANGED <<caseRow, content, job, worker, lock, bounds>>

\* The dead job is removed by its id, whatever holds that id by now; an error
\* of remove() is swallowed, and a QA re-run that cannot even look the job up
\* gives up.
RemoveJob(s) ==
  /\ slots[s].pc = "remove"
  /\ \/ job' = JobRemoved /\ UNCHANGED faults /\ Goto(s, AfterRemoval(s))
     \/ /\ faults < MaxFaults /\ faults' = faults + 1 /\ UNCHANGED job
        /\ Goto(s, AfterRemoval(s)) \/ (slots[s].op = "qaRerun" /\ Finish(s))
  /\ UNCHANGED <<caseRow, content, worker, lock, issued>>

ReanalyzeBegin(s) ==
  /\ At(s, "reanalyze", "begin")
  /\ IF status # Gone /\ IsLegalTransition(status, "AWAITING_DOCS")
     THEN Become(s, "reanalyze", "tx", [IdleSlot EXCEPT !.flag = (sla = 0)])
     ELSE Finish(s)
  /\ UNCHANGED <<caseRow, content, job, worker, lock, bounds>>

\* AWAITING_DOCS and DOCS_COMPLETE in one transaction.
ReanalyzeCommit(s) ==
  /\ At(s, "reanalyze", "tx") /\ WritesRow("DOCS_COMPLETE")
  /\ sla' = IF slots[s].flag THEN sla + 1 ELSE sla
  /\ openings' = openings + 1
  /\ Goto(s, "enqueue")
  /\ UNCHANGED <<refunded, content, job, worker, lock, bounds>>

\* The queue call that ends a QA re-run, a resume or a re-analysis.  A resume
\* enqueues only when every document has text; Redis may be down for each.
EnqueueAnalysis(s) ==
  /\ slots[s].pc = "enqueue"
  /\ \/ /\ job' = IF slots[s].op = "resume" /\ Present # HasText THEN job ELSE JobAdded
        /\ UNCHANGED faults
     \/ faults < MaxFaults /\ faults' = faults + 1 /\ UNCHANGED job
  /\ Finish(s)
  /\ UNCHANGED <<caseRow, content, worker, lock, issued>>

\* POST /ops/cases/:id/report/republish: the latest report is read (the template
\* may have moved on since any report), a model call may follow, and then its
\* successor is inserted: no status is involved.
RepublishRead(s) ==
  /\ status # Gone
  /\ \E i \in LatestReports :
       Become(s, "republish", "publish",
              [IdleSlot EXCEPT !.run = reports[i].run, !.ver = reports[i].ver + 1])
  /\ Receive(s, "republish")

RepublishCommit(s) ==
  /\ At(s, "republish", "publish")
  /\ reports' = Append(reports, [run |-> slots[s].run, ver |-> slots[s].ver, present |-> Present])
  /\ Finish(s)
  /\ UNCHANGED <<caseRow, docs, runs, completed, findings, job, worker, lock, bounds>>

\* recordRefund of the whole review payment.  The Refund row is unique, so a
\* second writer of it rolls back.
RefundRead(s) ==
  /\ status # Gone /\ ~refunded
  /\ Become(s, "refund", "tx", [IdleSlot EXCEPT !.saw = status])
  /\ Receive(s, "refund")

RefundCommit(s) ==
  /\ At(s, "refund", "tx") /\ ~refunded
  /\ refunded' = TRUE
  /\ IF slots[s].saw \in {"REFUNDED", "DELETED"} THEN UNCHANGED status ELSE WritesRow("REFUNDED")
  /\ Finish(s)
  /\ UNCHANGED <<sla, openings, content, job, worker, lock, bounds>>

\* deleteCaseScoped: DELETED in one transaction, then the hard delete.
DeleteRead(s) ==
  /\ status # Gone /\ IsLegalTransition(status, "DELETED")
  /\ Become(s, "delete", "tx", IdleSlot)
  /\ Receive(s, "delete")

DeleteCommit(s) ==
  /\ At(s, "delete", "tx") /\ WritesRow("DELETED")
  /\ Goto(s, "erase")
  /\ UNCHANGED <<sla, refunded, openings, content, job, worker, lock, bounds>>

\* Mutant: the documents' own rows are left behind.
EraseFlawed(s) ==
  /\ At(s, "delete", "erase") /\ WritesRow(Gone)
  /\ runs' = <<>> /\ completed' = {} /\ findings' = {} /\ reports' = <<>>
  /\ Finish(s)
  /\ UNCHANGED <<docs, sla, refunded, openings, job, worker, lock, bounds>>

\* The transaction deletes table by table, under READ COMMITTED; one step here. What a run in
\* flight writes between two of its statements is taken for what it writes after the last.
Erase(s) ==
  /\ At(s, "delete", "erase") /\ WritesRow(Gone)
  /\ docs' = [d \in Docs |-> "absent"]
  /\ runs' = <<>> /\ completed' = {} /\ findings' = {} /\ reports' = <<>>
  /\ Finish(s)
  /\ UNCHANGED <<sla, refunded, openings, job, worker, lock, bounds>>

WritesRowLater(s) ==
  ~(slots[s].op = "refund" /\ slots[s].saw \in {"REFUNDED", "DELETED"})

\* A transaction that must write the Case row finds it deleted, or its unique
\* Refund row taken: it rolls back.
RequestThrows(s) ==
  /\ slots[s].pc \in {"tx", "erase"}
  /\ (status = Gone /\ WritesRowLater(s)) \/ (slots[s].op = "refund" /\ refunded)
  /\ Finish(s)
  /\ UNCHANGED <<caseRow, content, job, worker, lock, bounds>>

Request(s) ==
  \/ RecordsRead(s) \/ RerunRead(s) \/ ApproveRead(s)
  \/ \E op \in {"qaRerun", "qaReject"} : RejectRead(s, op)
  \/ ReanalyzeRead(s) \/ RepublishRead(s) \/ RefundRead(s) \/ DeleteRead(s)

RequestStep(s) ==
  \/ RecordsEnqueue(s) \/ RecordsCommit(s) \/ RerunBegin(s) \/ RerunCommit(s)
  \/ ApproveCommit(s) \/ RejectCommit(s) \/ LookAtJob(s) \/ RemoveJob(s)
  \/ ReanalyzeBegin(s) \/ ReanalyzeCommit(s) \/ EnqueueAnalysis(s)
  \/ RepublishCommit(s) \/ RefundCommit(s) \/ DeleteCommit(s) \/ Erase(s)
  \/ RequestThrows(s)

-------------------------------------------------------------------------------
(* Documents, and faults                                                   *)

\* POST /upload/complete has no guard on the status: a document may arrive
\* while the case is being analysed.
Upload(d) ==
  /\ status # Gone /\ docs[d] = "absent"
  /\ docs' = [docs EXCEPT ![d] = "uploaded"]
  /\ UNCHANGED <<caseRow, runs, completed, findings, reports, job, worker, slots, lock, bounds>>

\* The ingestion worker has stored a document's chunks.
Digitize(d) ==
  /\ docs[d] = "uploaded"
  /\ docs' = [docs EXCEPT ![d] = "read"]
  /\ UNCHANGED <<caseRow, runs, completed, findings, reports, job, worker, slots, lock, bounds>>

\* The interactive transaction of one request times out and rolls back.
TxTimeout(s) ==
  /\ slots[s].pc \in {"tx", "commit"} /\ faults < MaxFaults
  /\ faults' = faults + 1
  /\ lock' = lock \ {s} /\ Finish(s)
  /\ UNCHANGED <<caseRow, content, job, worker, issued>>

\* The api process dies: its handlers and its in-process worker with it.
Crash ==
  /\ faults < MaxFaults
  /\ faults' = faults + 1
  /\ slots' = [s \in Slots |-> IdleSlot] /\ lock' = {}
  /\ worker' = IdleWorker
  /\ UNCHANGED <<caseRow, content, job, issued>>

-------------------------------------------------------------------------------
Init ==
  /\ status = "AWAITING_DOCS" /\ sla = 0 /\ refunded = FALSE /\ openings = 1
  /\ docs = [d \in Docs |-> "absent"]
  /\ runs = <<>> /\ completed = {} /\ findings = {} /\ reports = <<>>
  /\ job = NoJob /\ worker = IdleWorker
  /\ slots = [s \in Slots |-> IdleSlot] /\ lock = {}
  /\ issued = 0 /\ faults = 0

Next ==
  \/ WorkerStep \/ Backoff \/ Stalled \/ NoModel \/ WorkerFault
  \/ \E s \in Slots : Request(s) \/ ResumeRead(s) \/ RequestStep(s) \/ TxTimeout(s)
  \/ \E d \in Docs : Upload(d) \/ Digitize(d)
  \/ Crash

Spec == Init /\ [][Next]_vars

\* The worker, BullMQ and the ingestion worker keep running, a started request
\* is carried on, and an operator presses Resume on a dead running case.
Fairness ==
  /\ WF_vars(WorkerStep) /\ WF_vars(Backoff) /\ WF_vars(Stalled)
  /\ \A s \in Slots : WF_vars(RequestStep(s))
  /\ \A d \in Docs : WF_vars(Digitize(d))
  /\ WF_vars(\E s \in Slots : ResumeRead(s))

FairSpec == Spec /\ Fairness

-------------------------------------------------------------------------------
(* Properties                                                              *)

JobType == [state : JobStates, made : 0..Attempts, stalls : 0..(MaxStalled + 1)]
WorkerType ==
  [pc : {"idle", "start", "tx1", "screens", "tx3", "auto", "autotx"},
   saw : Rows, run : Nat, ver : Nat, frozen : SUBSET Docs, left : 0..Screens]
SlotType ==
  [op : Ops \cup {"none"},
   pc : {"idle", "look", "begin", "tx", "commit", "remove", "enqueue", "publish", "erase"},
   saw : Rows, run : Nat, ver : Nat, flag : BOOLEAN]
ReportType == [run : Nat, ver : Nat, present : SUBSET Docs]

TypeOK ==
  /\ status \in Rows /\ sla \in Nat /\ refunded \in BOOLEAN /\ openings \in Nat
  /\ docs \in [Docs -> {"absent", "uploaded", "read"}]
  /\ runs \in Seq(SUBSET Docs) /\ completed \in SUBSET Nat /\ findings \in SUBSET Nat
  /\ reports \in Seq(ReportType)
  /\ job \in JobType /\ worker \in WorkerType /\ slots \in [Slots -> SlotType]
  /\ lock \in SUBSET Slots
  /\ issued \in Nat /\ faults \in Nat

\* The fixed job id really keeps a case to one processor: while a worker is
\* inside a run its job is active, so no resume, re-analysis or QA re-run frees
\* the id under it, and every live job has an attempt left (queue.ts:26-32).
JobIdGuardsTheRun ==
  /\ worker.pc # "idle" => job.state = "active"
  /\ job.state \in LiveJob => job.made < Attempts /\ job.stalls <= MaxStalled

\* Whoever approves, and however stale what they read was, a report in the
\* family's hands is of a run that had finished: approve and auto-approve take
\* the latest run without asking whether it is complete (qa.ts:279).
ReleasedReportIsOfACompletedRun ==
  status # Gone => \A i \in DOMAIN reports : reports[i].run \in completed

\* No model is called for a case before its records were declared complete and
\* its clock started, although the job is queued before that commits.
ClockBeforeAnalysis == status # Gone /\ runs # <<>> => sla > 0

\* Duplicate records-complete calls, retries after a crash, resumes and queue
\* races never complete more analyses of a case than were asked for: by the
\* first records-complete, a re-run, a re-analysis or a QA rejection.
NeverAnalysedTwice == Cardinality(completed) <= openings

\* A stale handler never brings a deleted case row back.
DeletedStaysGone == [][status = Gone => status' = Gone]_vars

\* Every job that is being processed is processed by someone or recovered, and
\* every dead one can be resumed: a case whose record is complete does not stay
\* in the pipeline for ever, whatever crashes, stalls and queue failures occur.
CompleteRecordIsDecided ==
  status \in {"DOCS_COMPLETE", "ANALYZING"} ~> status \notin {"DOCS_COMPLETE", "ANALYZING"}

Quiet == \A s \in Slots : slots[s].pc = "idle"

\* With Redis up and nothing crashing, a paid re-run whose records are complete
\* has its analysis queued or running once the handlers are done: "the pipeline
\* runs as run 2 -> QA -> Report v2" (case_facts_and_rerun.md:17).
RerunIsQueued ==
  (Quiet /\ faults = 0 /\ status = "DOCS_COMPLETE" /\ reports # <<>>) => job.state \in LiveJob

\* A case whose review was fully refunded never leaves REFUNDED again, unless
\* it is deleted.
RefundedStaysRefunded == refunded => status \in {"REFUNDED", "DELETED", Gone}

\* After a scoped deletion no content of the case is left.
DeletionLeavesNothing ==
  status = Gone => runs = <<>> /\ findings = {} /\ reports = <<>>

\* Where those three claims fail, this much of them still holds.

\* Only a reopened case is parked behind its finished job: the first analysis that
\* is called for never finds one under its id, whoever enqueues and in what order.
FirstAnalysisIsNotSwallowed ==
  faults = 0 /\ openings = 1 /\ status \in {"AWAITING_DOCS", "DOCS_COMPLETE", "ANALYZING"}
    => job.state # "completed"

\* Only who had read the case before its refund takes it out of REFUNDED: once no
\* such handler or worker is left to write, it stays refunded until it is deleted.
Settled ==
  /\ status \in {"REFUNDED", "DELETED", Gone}
  /\ \A s \in Slots : slots[s].pc \in {"tx", "commit"} => slots[s].op \in {"refund", "delete"}
  /\ worker.pc \notin {"tx3", "autotx"} /\ (worker.pc = "tx1" => worker.saw = "ANALYZING")
SettledStaysSettled == [][Settled => Settled']_vars

\* A deletion misses only what was in flight: one run with its findings, and a report
\* for each republish that had read one; no document, and no run that was completed.
DeletionMissesOnlyTheInFlight ==
  status = Gone =>
    /\ Present = {} /\ completed = {}
    /\ Len(runs) <= 1 /\ Cardinality(findings) <= 1
    /\ Len(reports) <= Cardinality(Slots)
================================================================================
