---------------------------- MODULE CaseEventOutbox ----------------------------
(***************************************************************************)
(* The event spine of one case and its reader: CaseEvent rows committed    *)
(* together with the Case row (appendCaseEvent), the outbox publishers that *)
(* tail them (publishCaseEventOutbox, one loop per api process), the SSE   *)
(* stream of GET /cases/:id/progress, and the family's status page, which  *)
(* also polls.                                                             *)
(*                                                                         *)
(* An appended event is one step, its commit: ids are handed out at INSERT, *)
(* so commits come in any id order.  A publisher's batch is one transaction *)
(* that claims rows with FOR UPDATE SKIP LOCKED, publishes them one by one *)
(* and stamps them when it commits.                                        *)
(***************************************************************************)
EXTENDS CaseMachine, FiniteSets, Sequences

CONSTANTS
  MaxEvents,   \* bound on the events of the case; they are numbered by id
  Publishers,  \* the api processes, each with its outbox loop
  BatchSize,   \* the LIMIT of a batch
  Moves,       \* the statuses the environment moves the case to, and
  Holds,       \* the holds it sets and clears
  MaxFaults    \* bound on aborted batches and dropped streams

ASSUME OutboxAssumption ==
  /\ MaxEvents \in Nat /\ MaxFaults \in Nat
  /\ BatchSize \in Nat \ {0}
  /\ Moves \subseteq CaseStatuses /\ Holds \subseteq CaseHolds

Events == 1..MaxEvents

VARIABLES
  status,     \* Case.status, or Gone once the row is deleted
  holds,      \* ocrHalt, delayOurs, subsequentWrit
  row,        \* CaseEvent by id: none, committed or stamped (publishedAt)
  changedAt,  \* history: how many events had committed when this one did
  publisher,  \* each publisher's open batch
  heard,      \* history: the events published at least once
  stream,     \* the messages on their way to the page
  page,       \* the status page: its stream, its view, its poll in flight
  faults      \* used up bound

vars == <<status, holds, row, changedAt, publisher, heard, stream, page, faults>>

caseData == <<status, holds, row, changedAt>>

Gone == "GONE"
NoView == [stage |-> "none", overlay |-> "none", subsequentWritMode |-> FALSE]

\* The view of the Case row as it is; a deleted row has none.
View == IF status = Gone THEN NoView ELSE CustomerView(status, holds)

Idle == [batch |-> {}, left |-> {}, view |-> NoView, asOf |-> 0]

Clock == Cardinality({e \in Events : row[e] # "none"})

-------------------------------------------------------------------------------
(* appendCaseEvent: the event and what it does to the Case row, atomically *)

\* An INSERT of an event with a fresh id.
Insert(e) ==
  /\ row[e] = "none"
  /\ row' = [row EXCEPT ![e] = "committed"]
  /\ changedAt' = [changedAt EXCEPT ![e] = Clock + 1]
  /\ UNCHANGED <<publisher, heard, stream, page, faults>>

AppendTransition(e, to) ==
  /\ status # Gone /\ IsLegalTransition(status, to)
  /\ status' = to /\ UNCHANGED holds
  /\ Insert(e)

AppendHold(e, h) ==
  /\ status # Gone
  /\ holds' = IF h \in holds THEN holds \ {h} ELSE holds \cup {h}
  /\ UNCHANGED status
  /\ Insert(e)

\* No transition and no hold: the Case row is not touched, and need not exist.
AppendFact(e) == Insert(e) /\ UNCHANGED <<status, holds>>

\* The hard delete removes the Case row; events have no foreign key and stay.
HardDelete ==
  /\ status = "DELETED"
  /\ status' = Gone
  /\ UNCHANGED <<holds, row, changedAt, publisher, heard, stream, page, faults>>

AppendEvent(e) ==
  \/ \E to \in Moves : AppendTransition(e, to)
  \/ \E h \in Holds : AppendHold(e, h)
  \/ AppendFact(e)

-------------------------------------------------------------------------------
(* The publishers                                                          *)

ClaimableFlawed == {e \in Events : row[e] = "committed"}

\* Unpublished rows no other transaction has locked.
Claimable ==
  {e \in Events : row[e] = "committed" /\ \A q \in Publishers : e \notin publisher[q].batch}

\* The first BatchSize of them, by id.
NextBatch ==
  {e \in Claimable : Cardinality({f \in Claimable : f < e}) < BatchSize}

SnapshotFlawed(p, b) == [publisher[p] EXCEPT !.batch = b, !.left = b]

\* The SELECT that claims the rows also reads the Case row, once for the batch.
Snapshot(p, b) == [batch |-> b, left |-> b, view |-> View, asOf |-> Clock]

Claim(p) ==
  /\ publisher[p].batch = {} /\ Claimable # {}
  /\ publisher' = [publisher EXCEPT ![p] = Snapshot(p, NextBatch)]
  /\ UNCHANGED <<caseData, heard, stream, page, faults>>

\* The lowest id goes out; a page that is not connected misses it.
Publish(p) ==
  \E e \in publisher[p].left :
    /\ \A f \in publisher[p].left : e <= f
    /\ publisher' = [publisher EXCEPT ![p].left = @ \ {e}]
    /\ heard' = heard \cup {e}
    /\ stream' = IF page.open
                 THEN Append(stream, [event |-> e, view |-> publisher[p].view,
                                      asOf |-> publisher[p].asOf])
                 ELSE stream
    /\ UNCHANGED <<caseData, page, faults>>

StampFlawed(p) ==
  /\ publisher[p].batch # {}
  /\ row' = [e \in Events |-> IF e \in publisher[p].batch THEN "stamped" ELSE row[e]]
  /\ publisher' = [publisher EXCEPT ![p] = Idle]
  /\ UNCHANGED <<status, holds, changedAt, heard, stream, page, faults>>

\* Every row of the batch was published: its stamps commit.
Stamp(p) ==
  /\ publisher[p].batch # {} /\ publisher[p].left = {}
  /\ row' = [e \in Events |-> IF e \in publisher[p].batch THEN "stamped" ELSE row[e]]
  /\ publisher' = [publisher EXCEPT ![p] = Idle]
  /\ UNCHANGED <<status, holds, changedAt, heard, stream, page, faults>>

AbortFlawed(p) ==
  /\ publisher[p].batch # {} /\ faults < MaxFaults
  /\ faults' = faults + 1
  /\ row' = [e \in Events |-> IF e \in publisher[p].batch THEN "stamped" ELSE row[e]]
  /\ publisher' = [publisher EXCEPT ![p] = Idle]
  /\ UNCHANGED <<status, holds, changedAt, heard, stream, page>>

\* Redis failed, the transaction timed out, or the process died: the claim and
\* all stamps of the batch are rolled back, what was published stays published.
Abort(p) ==
  /\ publisher[p].batch # {} /\ faults < MaxFaults
  /\ faults' = faults + 1
  /\ publisher' = [publisher EXCEPT ![p] = Idle]
  /\ UNCHANGED <<caseData, heard, stream, page>>

Outbox(p) == Claim(p) \/ Publish(p) \/ Stamp(p)

-------------------------------------------------------------------------------
(* The status page                                                         *)

\* onmessage: a message without a view (the row is gone) changes nothing.
Receive ==
  /\ stream # <<>>
  /\ stream' = Tail(stream)
  /\ page' = [page EXCEPT !.view = IF Head(stream).view = NoView THEN @ ELSE Head(stream).view]
  /\ UNCHANGED <<caseData, publisher, heard, faults>>

\* The poll reads the case, and its answer may arrive after newer messages.
PollRead ==
  /\ page.poll = NoView /\ status # Gone
  /\ page' = [page EXCEPT !.poll = View]
  /\ UNCHANGED <<caseData, publisher, heard, stream, faults>>

PollAnswerFlawed ==
  /\ page.poll # NoView
  /\ page' = [page EXCEPT !.poll = NoView]
  /\ UNCHANGED <<caseData, publisher, heard, stream, faults>>

PollAnswer ==
  /\ page.poll # NoView
  /\ page' = [page EXCEPT !.view = page.poll, !.poll = NoView]
  /\ UNCHANGED <<caseData, publisher, heard, stream, faults>>

\* The connection drops with everything on it, and the EventSource reconnects;
\* nothing is replayed.
Drop ==
  /\ page.open /\ faults < MaxFaults
  /\ faults' = faults + 1
  /\ page' = [page EXCEPT !.open = FALSE]
  /\ stream' = <<>>
  /\ UNCHANGED <<caseData, publisher, heard>>

Reconnect ==
  /\ ~page.open
  /\ page' = [page EXCEPT !.open = TRUE]
  /\ UNCHANGED <<caseData, publisher, heard, stream, faults>>

-------------------------------------------------------------------------------
Init ==
  /\ status = "AWAITING_DOCS" /\ holds = {}
  /\ row = [e \in Events |-> "none"] /\ changedAt = [e \in Events |-> 0]
  /\ publisher = [p \in Publishers |-> Idle] /\ heard = {}
  /\ stream = <<>>
  /\ page = [open |-> FALSE, view |-> NoView, poll |-> NoView]
  /\ faults = 0

Next ==
  \/ \E e \in Events : AppendEvent(e)
  \/ HardDelete
  \/ \E p \in Publishers : Outbox(p) \/ Abort(p)
  \/ Receive \/ PollRead \/ PollAnswer \/ Drop \/ Reconnect

Spec == Init /\ [][Next]_vars

\* Each outbox loop ticks for ever, after an error too (startCaseEventOutbox);
\* the page stays open: its interval polls, its EventSource delivers.
Fairness ==
  /\ \A p \in Publishers : WF_vars(Outbox(p))
  /\ WF_vars(Receive) /\ WF_vars(PollRead) /\ WF_vars(PollAnswer) /\ WF_vars(Reconnect)

FairSpec == Spec /\ Fairness

-------------------------------------------------------------------------------
(* Properties                                                              *)

Views == [stage : CustomerStages \cup {"none"},
          overlay : {"none", "needs_your_help", "delay_ours"},
          subsequentWritMode : BOOLEAN]
Message == [event : Events, view : Views, asOf : Nat]

TypeOK ==
  /\ status \in CaseStatuses \cup {Gone} /\ holds \in SUBSET CaseHolds
  /\ row \in [Events -> {"none", "committed", "stamped"}]
  /\ changedAt \in [Events -> Nat]
  /\ publisher \in [Publishers ->
       [batch : SUBSET Events, left : SUBSET Events, view : Views, asOf : Nat]]
  /\ heard \in SUBSET Events
  /\ stream \in Seq(Message)
  /\ page \in [open : BOOLEAN, view : Views, poll : Views]
  /\ faults \in Nat

\* "Crash between commit and publish loses nothing" (events.ts:95): no event is
\* stamped, and so forgotten, before it was published.
StampedWasHeard == \A e \in Events : row[e] = "stamped" => e \in heard

\* Two api processes never hold the same row: SKIP LOCKED is what makes the
\* outbox "multi-instance safe" (events.ts:93).
ClaimsAreDisjoint ==
  \A p, q \in Publishers : p # q => publisher[p].batch \cap publisher[q].batch = {}

\* The news of an event never shows the case as it was before the event, even
\* from a re-published batch or a second process: the page is not told
\* "analysing" by the message that announces the report.
NewsIsNotOlderThanItsEvent ==
  \A i \in DOMAIN stream : changedAt[stream[i].event] <= stream[i].asOf

\* The outbox implements the feed it promises: at least once, commit first.
committed == {e \in Events : row[e] # "none"}
Feed == INSTANCE EventFeed
ImplementsFeed == Feed!Spec

\* With lost messages, dropped streams, repeated batches and late poll answers,
\* an open page still ends up showing the case as it is.
PageCatchesUp == <>[](status # Gone => page.view = View)
================================================================================
