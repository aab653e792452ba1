------------------------- MODULE FeedAndPageProofs --------------------------
(***************************************************************************)
(* What holds of CaseEventOutbox for any number of events and publishers,  *)
(* any batch size and any moves of the case; of DocumentsPage for any      *)
(* files, batches of uploads, gestures and failures; and of ProgressFeed   *)
(* for any number of checks, runs, pulses, polls, breaks and deaths.       *)
(*                                                                         *)
(* A stamp is safe because of what its whole batch is: committed rows that *)
(* no other publisher may take, of which those no longer left were heard,  *)
(* and a view read after all of them committed.  BatchInv says so.         *)
(*                                                                         *)
(* What the documents page shows is only as good as the last list it read. *)
(* DocsInv says what each list on its way, and what is shown, may lack:    *)
(* the file of a batch that has yet to be answered, the archive that is    *)
(* still waited for; and what each file of a batch may yet become.         *)
(*                                                                         *)
(* The status page shows what it read of the facts up to some one of them. *)
(* FeedInv says what that is worth: all there is, if no fact came since,   *)
(* and a step it calls running is open, or its end went unheard or has yet *)
(* to be published.  What is kept of a run's events is a recursive         *)
(* function; what it computes is proved with a least number of events for  *)
(* which it would not.                                                     *)
(***************************************************************************)
EXTENDS CaseEventOutbox, DocumentsPage, ProgressFeed, FiniteSetTheorems, SequenceTheorems,
        WellFoundedInduction, Integers, TLAPS


\* What an open batch is, between its claim and its stamp.
BatchInv ==
  \A p \in Publishers : \A e \in publisher[p].batch :
    /\ row[e] = "committed"
    /\ e \in publisher[p].left \cup heard
    /\ changedAt[e] <= publisher[p].asOf

LeftInv == \A p \in Publishers : publisher[p].left \subseteq publisher[p].batch

\* No event committed later than now.
ClockInv == \A e \in Events : changedAt[e] <= Clock

\* Nothing is heard that did not commit, and nothing delivered that was not heard.
HeardInv ==
  /\ heard \subseteq committed
  /\ \A i \in DOMAIN stream : stream[i].event \in heard

Inv ==
  /\ TypeOK /\ ClaimsAreDisjoint /\ StampedWasHeard /\ NewsIsNotOlderThanItsEvent
  /\ BatchInv /\ LeftInv /\ ClockInv /\ HeardInv

-------------------------------------------------------------------------------
(* The view and the clock                                                  *)

LEMMA NoViewType == NoView \in Views
BY DEF NoView, Views

\* The customer view of a case in any status, with any holds, is a view.
LEMMA ViewType ==
  ASSUME TypeOK
  PROVE  View \in Views
<1>1. CASE status = Gone
  BY <1>1, NoViewType DEF View
<1>2. CASE status # Gone
  <2>1. status \in CaseStatuses
    BY <1>2 DEF TypeOK
  <2>2. StageOfStatus[status] \in CustomerStages \cup {"none"}
    BY <2>1 DEF CaseStatuses, StageOfStatus, CustomerStages
  <2> DEFINE overlay == CustomerView(status, holds).overlay
             writ == "SUBSEQUENT_WRIT_MODE" \in holds
  <2>3. overlay \in {"none", "needs_your_help", "delay_ours"}
    BY DEF CustomerView
  <2>4. CustomerView(status, holds)
          = [stage |-> StageOfStatus[status], overlay |-> overlay, subsequentWritMode |-> writ]
    BY DEF CustomerView
  <2>5. writ \in BOOLEAN
    OBVIOUS
  <2> HIDE DEF overlay, writ
  <2> QED
    BY <1>2, <2>2, <2>3, <2>4, <2>5 DEF View, Views
<1> QED
  BY <1>1, <1>2

LEMMA EventsFinite == IsFiniteSet(Events) /\ Events \subseteq Nat
BY OutboxAssumption, FS_Interval DEF Events

LEMMA ClockType == Clock \in Nat
<1> DEFINE S == {e \in Events : row[e] # "none"}
<1>1. IsFiniteSet(S)
  BY EventsFinite, FS_Subset, S \in SUBSET Events
<1> QED
  BY <1>1, FS_CardinalityType DEF Clock

\* An insert advances the clock by the event it inserts.
LEMMA InsertAdvances ==
  ASSUME TypeOK, NEW e \in Events, Insert(e)
  PROVE  Clock' = Clock + 1
<1> DEFINE S == {f \in Events : row[f] # "none"}
           T == {f \in Events : row'[f] # "none"}
<1>1. T = S \cup {e} /\ e \notin S
  BY DEF Insert, TypeOK
<1>2. IsFiniteSet(S)
  BY EventsFinite, FS_Subset, S \in SUBSET Events
<1>3. Cardinality(T) = Cardinality(S) + 1
  <2> HIDE DEF S, T
  <2> QED
    BY <1>1, <1>2, FS_AddElement
<1> QED
  BY <1>3 DEF Clock

\* Every row that is committed and not locked, up to the limit, is a row of
\* the table that nobody else holds.
LEMMA BatchIsClaimable == NextBatch \subseteq Claimable /\ NextBatch \subseteq Events
BY DEF NextBatch, Claimable

-------------------------------------------------------------------------------
(* Each action preserves the invariant                                     *)

LEMMA InitInv == Init => Inv
<1> SUFFICES ASSUME Init PROVE Inv
  OBVIOUS
<1>1. TypeOK
  BY NoViewType, OutboxAssumption
     DEF Init, TypeOK, Idle, CaseStatuses, CaseHolds, Message, Events
<1>2. ClaimsAreDisjoint /\ StampedWasHeard /\ BatchInv /\ LeftInv /\ HeardInv
  BY DEF Init, ClaimsAreDisjoint, StampedWasHeard, BatchInv, LeftInv, HeardInv, Idle
<1>3. NewsIsNotOlderThanItsEvent
  BY DEF Init, NewsIsNotOlderThanItsEvent
<1>4. ClockInv
  BY ClockType DEF Init, ClockInv
<1> QED
  BY <1>1, <1>2, <1>3, <1>4 DEF Inv

\* Whatever an append does to the case, its insert keeps the spine intact: the
\* new row is in no batch, and later than every claim.
LEMMA InsertInv ==
  ASSUME Inv, NEW e \in Events, Insert(e),
         status' \in CaseStatuses \cup {Gone}, holds' \in SUBSET CaseHolds
  PROVE  Inv'
<1>1. Clock \in Nat /\ Clock' = Clock + 1
  BY ClockType, InsertAdvances DEF Inv
<1>2. TypeOK'
  BY <1>1 DEF Inv, TypeOK, Insert
<1>3. ClaimsAreDisjoint' /\ LeftInv'
  BY DEF Inv, ClaimsAreDisjoint, LeftInv, Insert
<1>4. StampedWasHeard' /\ HeardInv'
  BY DEF Inv, TypeOK, StampedWasHeard, HeardInv, committed, Insert
<1>5. BatchInv'
  <2> SUFFICES ASSUME NEW p \in Publishers, NEW f \in publisher[p].batch
               PROVE  /\ row'[f] = "committed"
                      /\ f \in publisher[p].left \cup heard
                      /\ changedAt'[f] <= publisher[p].asOf
    BY DEF BatchInv, Insert
  <2>1. f # e /\ f \in Events
    BY DEF Inv, TypeOK, BatchInv, Insert
  <2> QED
    BY <2>1 DEF Inv, TypeOK, BatchInv, Insert
<1>6. ClockInv'
  BY <1>1 DEF Inv, TypeOK, ClockInv, Insert
<1>7. NewsIsNotOlderThanItsEvent'
  <2> SUFFICES ASSUME NEW i \in DOMAIN stream
               PROVE  changedAt'[stream[i].event] <= stream[i].asOf
    BY DEF NewsIsNotOlderThanItsEvent, Insert
  <2>1. stream[i].event \in Events \ {e}
    BY DEF Inv, HeardInv, committed, Insert
  <2> QED
    BY <2>1 DEF Inv, TypeOK, NewsIsNotOlderThanItsEvent, Insert
<1> QED
  BY <1>2, <1>3, <1>4, <1>5, <1>6, <1>7 DEF Inv

LEMMA AppendInv ==
  ASSUME Inv, NEW e \in Events, AppendEvent(e)
  PROVE  Inv'
<1>1. Insert(e)
  BY DEF AppendEvent, AppendTransition, AppendHold, AppendFact
<1>2. status' \in CaseStatuses \cup {Gone}
  BY OutboxAssumption DEF Inv, TypeOK, AppendEvent, AppendTransition, AppendHold, AppendFact
<1>3. holds' \in SUBSET CaseHolds
  BY OutboxAssumption DEF Inv, TypeOK, AppendEvent, AppendTransition, AppendHold, AppendFact
<1> QED
  BY <1>1, <1>2, <1>3, InsertInv

\* Claiming: the rows come from no other batch, and every one of them committed
\* before the view of the case was read.
LEMMA ClaimInv ==
  ASSUME Inv, NEW p \in Publishers, Claim(p)
  PROVE  Inv'
<1> DEFINE b == NextBatch
           s == [batch |-> b, left |-> b, view |-> View, asOf |-> Clock]
<1>1. Clock \in Nat /\ View \in Views /\ b \subseteq Claimable /\ b \subseteq Events
  BY ClockType, ViewType, BatchIsClaimable DEF Inv
<1>2. publisher' = [publisher EXCEPT ![p] = s]
  BY DEF Claim, Snapshot
<1>3. s \in [batch : SUBSET Events, left : SUBSET Events, view : Views, asOf : Nat]
  BY <1>1
<1>4. s.batch = b /\ s.left = b /\ s.asOf = Clock
  OBVIOUS
<1> HIDE DEF s, b
<1>5. /\ publisher \in [Publishers -> [batch : SUBSET Events, left : SUBSET Events, view : Views, asOf : Nat]]
      /\ publisher'[p] = s
      /\ \A q \in Publishers : q # p => publisher'[q] = publisher[q]
  BY <1>2 DEF Inv, TypeOK
<1>6. TypeOK'
  BY <1>2, <1>3 DEF Inv, TypeOK, Claim, caseData
<1>7. ClaimsAreDisjoint'
  <2> SUFFICES ASSUME NEW q \in Publishers, NEW r \in Publishers, q # r
               PROVE  publisher'[q].batch \cap publisher'[r].batch = {}
    BY DEF ClaimsAreDisjoint
  <2>1. \A x \in Publishers : b \cap publisher[x].batch = {}
    BY <1>1 DEF Claimable
  <2> QED
    BY <2>1, <1>4, <1>5 DEF Inv, ClaimsAreDisjoint
<1>8. BatchInv' /\ LeftInv'
  <2>1. \A e \in b : row[e] = "committed" /\ changedAt[e] <= Clock
    BY <1>1 DEF Inv, ClockInv, Claimable
  <2> QED
    BY <2>1, <1>4, <1>5 DEF Inv, BatchInv, LeftInv, Claim, caseData
<1>9. StampedWasHeard' /\ NewsIsNotOlderThanItsEvent' /\ HeardInv' /\ ClockInv'
  BY DEF Inv, StampedWasHeard, NewsIsNotOlderThanItsEvent, HeardInv, committed,
         ClockInv, Clock, Claim, caseData
<1> QED
  BY <1>6, <1>7, <1>8, <1>9 DEF Inv

\* Publishing: the message carries an event of the batch and the batch's view.
LEMMA PublishInv ==
  ASSUME Inv, NEW p \in Publishers, Publish(p)
  PROVE  Inv'
<1>1. PICK e \in publisher[p].left :
        /\ publisher' = [publisher EXCEPT ![p].left = @ \ {e}]
        /\ heard' = heard \cup {e}
        /\ stream' = IF page.open
                     THEN Append(stream, [event |-> e, view |-> publisher[p].view,
                                          asOf |-> publisher[p].asOf])
                     ELSE stream
        /\ UNCHANGED <<caseData, page, faults>>
  BY DEF Publish
<1> DEFINE m == [event |-> e, view |-> publisher[p].view, asOf |-> publisher[p].asOf]
<1>2. /\ publisher \in [Publishers -> [batch : SUBSET Events, left : SUBSET Events, view : Views, asOf : Nat]]
      /\ stream \in Seq(Message)
  BY DEF Inv, TypeOK
<1>3. /\ e \in Events /\ e \in publisher[p].batch
      /\ row[e] = "committed" /\ changedAt[e] <= publisher[p].asOf
  BY <1>2 DEF Inv, LeftInv, BatchInv
<1>4. m \in Message /\ m.event = e /\ m.asOf = publisher[p].asOf
  BY <1>2, <1>3 DEF Message
<1>5. stream' = stream \/ stream' = Append(stream, m)
  BY <1>1
<1> HIDE DEF m
<1>6. /\ \A q \in Publishers : publisher'[q].batch = publisher[q].batch
      /\ \A q \in Publishers : publisher'[q].asOf = publisher[q].asOf
      /\ \A q \in Publishers : publisher[q].left \ {e} \subseteq publisher'[q].left
      /\ \A q \in Publishers : publisher'[q].left \subseteq publisher[q].left
      /\ publisher' \in [Publishers -> [batch : SUBSET Events, left : SUBSET Events, view : Views, asOf : Nat]]
  BY <1>1, <1>2
<1>7. stream' \in Seq(Message)
  <2>1. \A S : \A q \in Seq(S) : \A x \in S : Append(q, x) \in Seq(S)
    OBVIOUS
  <2> QED
    BY <2>1, <1>2, <1>4, <1>5
<1>8. \A i \in DOMAIN stream' : (i \in DOMAIN stream /\ stream'[i] = stream[i]) \/ stream'[i] = m
  BY <1>2, <1>4, <1>5
<1>9. TypeOK'
  BY <1>1, <1>3, <1>6, <1>7 DEF Inv, TypeOK, caseData
<1>10. ClaimsAreDisjoint' /\ LeftInv' /\ BatchInv'
  BY <1>1, <1>6 DEF Inv, ClaimsAreDisjoint, LeftInv, BatchInv, caseData
<1>11. NewsIsNotOlderThanItsEvent'
  BY <1>1, <1>3, <1>4, <1>8 DEF Inv, NewsIsNotOlderThanItsEvent, caseData
<1>12. HeardInv'
  BY <1>1, <1>3, <1>4, <1>8 DEF Inv, HeardInv, committed, caseData
<1>13. StampedWasHeard' /\ ClockInv'
  BY <1>1 DEF Inv, StampedWasHeard, ClockInv, Clock, caseData
<1> QED
  BY <1>9, <1>10, <1>11, <1>12, <1>13 DEF Inv

\* Stamping: every row of the batch was published, and no other batch has one.
LEMMA StampInv ==
  ASSUME Inv, NEW p \in Publishers, Stamp(p)
  PROVE  Inv'
<1>1. /\ publisher \in [Publishers -> [batch : SUBSET Events, left : SUBSET Events, view : Views, asOf : Nat]]
      /\ Idle \in [batch : SUBSET Events, left : SUBSET Events, view : Views, asOf : Nat]
      /\ Idle.batch = {} /\ Idle.left = {}
  BY NoViewType DEF Inv, TypeOK, Idle
<1>2. /\ publisher'[p].batch = {} /\ publisher'[p].left = {}
      /\ \A q \in Publishers : q # p => publisher'[q] = publisher[q]
  BY <1>1 DEF Stamp
<1>3. \A e \in publisher[p].batch : e \in heard /\ row[e] = "committed"
  BY DEF Inv, BatchInv, Stamp
<1>4. \A e \in Events : row'[e] = IF e \in publisher[p].batch THEN "stamped" ELSE row[e]
  BY DEF Stamp
<1>5. TypeOK'
  BY <1>1 DEF Inv, TypeOK, Stamp
<1>6. ClaimsAreDisjoint' /\ LeftInv'
  BY <1>2 DEF Inv, ClaimsAreDisjoint, LeftInv
<1>7. BatchInv'
  <2> SUFFICES ASSUME NEW q \in Publishers, q # p, NEW e \in publisher[q].batch
               PROVE  /\ row'[e] = "committed"
                      /\ e \in publisher[q].left \cup heard
                      /\ changedAt[e] <= publisher[q].asOf
    BY <1>2 DEF BatchInv, Stamp
  <2>1. e \in Events /\ e \notin publisher[p].batch
    BY <1>1 DEF Inv, ClaimsAreDisjoint
  <2> QED
    BY <2>1, <1>4 DEF Inv, BatchInv
<1>8. StampedWasHeard'
  BY <1>3, <1>4 DEF Inv, StampedWasHeard, Stamp
<1>9. committed' = committed
  BY <1>3, <1>4 DEF committed
<1>10. HeardInv' /\ NewsIsNotOlderThanItsEvent'
  BY <1>9 DEF Inv, HeardInv, NewsIsNotOlderThanItsEvent, Stamp
<1>11. ClockInv'
  BY <1>9 DEF Inv, ClockInv, Clock, committed, Stamp
<1> QED
  BY <1>5, <1>6, <1>7, <1>8, <1>10, <1>11 DEF Inv

LEMMA AbortInv ==
  ASSUME Inv, NEW p \in Publishers, Abort(p)
  PROVE  Inv'
<1>1. /\ publisher \in [Publishers -> [batch : SUBSET Events, left : SUBSET Events, view : Views, asOf : Nat]]
      /\ Idle \in [batch : SUBSET Events, left : SUBSET Events, view : Views, asOf : Nat]
      /\ Idle.batch = {} /\ Idle.left = {}
  BY NoViewType DEF Inv, TypeOK, Idle
<1>2. /\ publisher'[p].batch = {} /\ publisher'[p].left = {}
      /\ \A q \in Publishers : q # p => publisher'[q] = publisher[q]
  BY <1>1 DEF Abort
<1>3. TypeOK'
  BY <1>1 DEF Inv, TypeOK, Abort, caseData
<1>4. ClaimsAreDisjoint' /\ LeftInv' /\ BatchInv'
  BY <1>2 DEF Inv, ClaimsAreDisjoint, LeftInv, BatchInv, Abort, caseData
<1>5. StampedWasHeard' /\ NewsIsNotOlderThanItsEvent' /\ HeardInv' /\ ClockInv'
  BY DEF Inv, StampedWasHeard, NewsIsNotOlderThanItsEvent, HeardInv, committed,
         ClockInv, Clock, Abort, caseData
<1> QED
  BY <1>3, <1>4, <1>5 DEF Inv

\* The deletion of the row and the steps of the page touch no event and no batch.
LEMMA HardDeleteInv ==
  ASSUME Inv, HardDelete
  PROVE  Inv'
BY DEF Inv, HardDelete, TypeOK, ClaimsAreDisjoint, StampedWasHeard, NewsIsNotOlderThanItsEvent,
       BatchInv, LeftInv, HeardInv, committed, ClockInv, Clock

LEMMA PageInv ==
  ASSUME Inv, Receive \/ PollRead \/ PollAnswer \/ Drop \/ Reconnect
  PROVE  Inv'
<1>1. UNCHANGED <<caseData, publisher, heard>>
  BY DEF Receive, PollRead, PollAnswer, Drop, Reconnect
<1>2. /\ stream \in Seq(Message) /\ page \in [open : BOOLEAN, view : Views, poll : Views]
      /\ faults \in Nat
  BY DEF Inv, TypeOK
<1>3. \/ stream' = stream
      \/ stream' = <<>>
      \/ stream # <<>> /\ stream' = Tail(stream)
  BY DEF Receive, PollRead, PollAnswer, Drop, Reconnect
<1>4. stream' \in Seq(Message)
  <2>1. \A S : \A q \in Seq(S) : q # <<>> => Tail(q) \in Seq(S)
    OBVIOUS
  <2>2. \A S : <<>> \in Seq(S)
    OBVIOUS
  <2> QED
    BY <1>2, <1>3, <2>1, <2>2
<1>5. \A i \in DOMAIN stream' : \E j \in DOMAIN stream : stream'[i] = stream[j]
  <2>1. CASE stream' = stream
    BY <2>1
  <2>2. CASE stream' = <<>>
    BY <2>2
  <2>3. CASE stream # <<>> /\ stream' = Tail(stream)
    <3> SUFFICES ASSUME NEW i \in DOMAIN stream'
                 PROVE  \E j \in DOMAIN stream : stream'[i] = stream[j]
      OBVIOUS
    <3>1. i + 1 \in DOMAIN stream /\ stream'[i] = stream[i + 1]
      BY <1>2, <2>3
    <3> QED
      BY <3>1
  <2> QED
    BY <1>3, <2>1, <2>2, <2>3
<1>6. page' \in [open : BOOLEAN, view : Views, poll : Views] /\ faults' \in Nat
  <2>1. CASE Receive
    <3>1. Head(stream) \in Message
      BY <1>2, <2>1 DEF Receive
    <3> QED
      BY <1>2, <2>1, <3>1 DEF Receive, Message
  <2>2. CASE PollRead
    BY <1>2, <2>2, ViewType DEF PollRead, Inv
  <2>3. CASE PollAnswer
    <3> DEFINE p1 == [page EXCEPT !.view = page.poll]
    <3>1. p1 \in [open : BOOLEAN, view : Views, poll : Views]
      BY <1>2
    <3>2. page' = [p1 EXCEPT !.poll = NoView]
      BY <1>2, <2>3 DEF PollAnswer
    <3> HIDE DEF p1
    <3> QED
      BY <1>2, <2>3, <3>1, <3>2, NoViewType DEF PollAnswer
  <2>4. CASE Drop
    <3>1. page' \in [open : BOOLEAN, view : Views, poll : Views]
      BY <1>2, <2>4 DEF Drop
    <3>2. faults' \in Nat
      BY <1>2, <2>4 DEF Drop
    <3> QED
      BY <3>1, <3>2
  <2>5. CASE Reconnect
    BY <1>2, <2>5 DEF Reconnect
  <2> QED
    BY <2>1, <2>2, <2>3, <2>4, <2>5
<1>7. TypeOK'
  BY <1>1, <1>4, <1>6 DEF Inv, TypeOK, caseData
<1>8. ClaimsAreDisjoint' /\ StampedWasHeard' /\ BatchInv' /\ LeftInv' /\ ClockInv'
  BY <1>1 DEF Inv, ClaimsAreDisjoint, StampedWasHeard, BatchInv, LeftInv, ClockInv, Clock, caseData
<1>9. NewsIsNotOlderThanItsEvent' /\ HeardInv'
  BY <1>1, <1>5 DEF Inv, NewsIsNotOlderThanItsEvent, HeardInv, committed, caseData
<1> QED
  BY <1>7, <1>8, <1>9 DEF Inv

LEMMA NextInv == Inv /\ [Next]_vars => Inv'
<1> SUFFICES ASSUME Inv, [Next]_vars PROVE Inv'
  OBVIOUS
<1>1. ASSUME NEW e \in Events, AppendEvent(e) PROVE Inv'
  BY <1>1, AppendInv
<1>2. CASE HardDelete
  BY <1>2, HardDeleteInv
<1>3. ASSUME NEW p \in Publishers, Outbox(p) \/ Abort(p) PROVE Inv'
  BY <1>3, ClaimInv, PublishInv, StampInv, AbortInv DEF Outbox
<1>4. CASE Receive \/ PollRead \/ PollAnswer \/ Drop \/ Reconnect
  BY <1>4, PageInv
<1>5. CASE UNCHANGED vars
  BY <1>5 DEF vars, Inv, TypeOK, ClaimsAreDisjoint, StampedWasHeard, NewsIsNotOlderThanItsEvent,
              BatchInv, LeftInv, HeardInv, committed, ClockInv, Clock
<1> QED
  BY <1>1, <1>2, <1>3, <1>4, <1>5 DEF Next

-------------------------------------------------------------------------------
(* The theorems                                                            *)

\* The strengthened invariant holds throughout: claimed rows stay committed and
\* unshared until their batch is stamped or rolled back.
THEOREM Invariance == Spec => []Inv
BY InitInv, NextInv, PTL DEF Spec

\* Every value of the spine is one the code can hold, at any size.
THEOREM TypeCorrect == Spec => []TypeOK
<1>1. Inv => TypeOK
  BY DEF Inv
<1> QED
  BY <1>1, Invariance, PTL

\* "Crash between commit and publish loses nothing" (events.ts:95): for any
\* number of api processes, batch size and crashes, a stamped event was heard.
THEOREM NothingStampedUnheard == Spec => []StampedWasHeard
<1>1. Inv => StampedWasHeard
  BY DEF Inv
<1> QED
  BY <1>1, Invariance, PTL

\* "Multi-instance safe" (events.ts:93): no two processes ever hold one row.
THEOREM BatchesAreDisjoint == Spec => []ClaimsAreDisjoint
<1>1. Inv => ClaimsAreDisjoint
  BY DEF Inv
<1> QED
  BY <1>1, Invariance, PTL

\* No message on the stream shows the case as it was before the message's event.
THEOREM NewsIsCurrent == Spec => []NewsIsNotOlderThanItsEvent
<1>1. Inv => NewsIsNotOlderThanItsEvent
  BY DEF Inv
<1> QED
  BY <1>1, Invariance, PTL

\* Every step of the outbox is a commit of the feed, a first hearing, or no step
\* of it: an event is announced only after the transaction that made it committed.
LEMMA StepImplements ==
  ASSUME Inv, [Next]_vars
  PROVE  [Feed!Next]_(Feed!vars)
<1>1. ASSUME NEW e \in Events, AppendEvent(e) PROVE Feed!Commit(e)
  <2>1. Insert(e)
    BY <1>1 DEF AppendEvent, AppendTransition, AppendHold, AppendFact
  <2>2. e \notin committed /\ committed' = committed \cup {e} /\ heard' = heard
    BY <2>1 DEF Inv, TypeOK, Insert, committed
  <2> QED
    BY <2>2 DEF Feed!Commit
<1>2. ASSUME NEW p \in Publishers, Publish(p)
      PROVE  (\E e \in Events : Feed!Hear(e)) \/ UNCHANGED <<committed, heard>>
  <2>1. PICK e \in publisher[p].left : heard' = heard \cup {e} /\ UNCHANGED caseData
    BY <1>2 DEF Publish
  <2>2. e \in Events /\ e \in committed
    BY <2>1 DEF Inv, TypeOK, LeftInv, BatchInv, committed
  <2>3. committed' = committed
    BY <2>1 DEF committed, caseData
  <2>4. CASE e \in heard
    BY <2>1, <2>3, <2>4
  <2>5. CASE e \notin heard
    BY <2>1, <2>2, <2>3, <2>5 DEF Feed!Hear
  <2> QED
    BY <2>4, <2>5
<1>3. ASSUME NEW p \in Publishers, Stamp(p) PROVE UNCHANGED <<committed, heard>>
  <2>1. \A e \in publisher[p].batch : row[e] = "committed"
    BY DEF Inv, BatchInv
  <2>2. \A e \in Events : row'[e] = IF e \in publisher[p].batch THEN "stamped" ELSE row[e]
    BY <1>3 DEF Stamp
  <2>3. committed' = committed
    BY <2>1, <2>2 DEF committed
  <2> QED
    BY <1>3, <2>3 DEF Stamp
<1>4. ASSUME \/ \E p \in Publishers : Claim(p) \/ Abort(p)
             \/ HardDelete \/ Receive \/ PollRead \/ PollAnswer \/ Drop \/ Reconnect
             \/ UNCHANGED vars
      PROVE  UNCHANGED <<committed, heard>>
  BY <1>4 DEF Claim, Abort, HardDelete, Receive, PollRead, PollAnswer, Drop, Reconnect,
              vars, caseData, committed
<1> QED
  BY <1>1, <1>2, <1>3, <1>4 DEF Next, Outbox, Feed!Next, Feed!vars

\* The outbox implements the safety of the feed it promises, whatever the number
\* of events, processes and faults (TLC checks the fairness part).
THEOREM OutboxImplementsFeed == Spec => Feed!SafeSpec
<1>1. Init => Feed!Init
  BY DEF Init, Feed!Init, committed
<1>2. Inv /\ [Next]_vars => [Feed!Next]_(Feed!vars)
  BY StepImplements
<1> QED
  BY <1>1, <1>2, Invariance, PTL DEF Spec, Feed!SafeSpec

-----------------------------------------------------------------------------
(* DocumentsPage                                                           *)

Chosen == Papers \cup {Zip}
IsBatch(q) ==
  /\ q = [pc |-> q.pc, at |-> q.at, rest |-> q.rest, failed |-> q.failed]
  /\ q.pc \in {"idle", "presign", "put", "complete", "answer", "refresh"}
  /\ q.at \in Chosen /\ q.rest \subseteq Chosen
  /\ q.pc = "idle" => q = Resting
IsGet(g) ==
  \/ g = NoGet
  \/ g = [pc |-> "asked"]
  \/ /\ g = [pc |-> "list", rows |-> g.rows, read |-> g.read, zips |-> g.zips, running |-> g.running,
             stale |-> g.stale]
     /\ g.zips \in Nat
PageTypes ==
  /\ rows \in [Documents -> Nat] /\ jobs \in Nat /\ zips \in Nat
  /\ DOMAIN data = {"rows", "read", "zips", "running", "stale"}
  /\ zip = [busy |-> zip.busy, since |-> zip.since] /\ zip.since \in Nat
  /\ batch = [b \in Batches |-> batch[b]] /\ \A b \in Batches : IsBatch(batch[b])
  /\ get = [c \in Callers |-> get[c]] /\ \A c \in Callers : IsGet(get[c])

\* Files dropped while the page is busy are the only way to a second batch, and to the
\* first one's failures being taken for the second's.
OneBatch ==
  ~muddled => /\ \A b, c \in Batches : batch[b].pc # "idle" /\ batch[c].pc # "idle" => b = c
              /\ \A b \in Batches : batch[b].pc # "idle" => failed = {}

\* A batch goes on to the next file when this one is on the server; it refreshes while it
\* waits for its list.
OnServer ==
  \A b \in Batches :
    /\ batch[b].pc \in {"answer", "refresh"} /\ batch[b].at \in Papers => rows[batch[b].at] > 0
    /\ batch[b].at \notin batch[b].rest
    /\ batch[b].pc = "refresh" <=> get[b] # NoGet

Accounted ==
  ~muddled => \A f \in wanted \cap Papers :
                rows[f] > 0 \/ f \in failed \/ f \in passedOver \/ \E b \in Batches : f \in Pending(b)

\* A file that failed has its message still, or was passed over: the next file of its batch
\* takes the message, and so does a button. The bar is there for a batch under way alone.
Told ==
  ~muddled => /\ progress => \E b \in Batches : batch[b].pc # "idle"
              /\ \A b \in Batches : batch[b].failed \subseteq passedOver
              /\ error \/ failed \subseteq passedOver

\* A file that is on the server is shown, unless the list is old or the batch that sent it
\* has yet to be answered; so is it in a list on its way. What a batch will send is not there.
Fresh(c) == get[c].pc = "list" /\ ~get[c].stale
Asking(b) == batch[b].pc = "answer" \/ (batch[b].pc = "refresh" /\ get[b].pc = "asked")
ToSend(b) == batch[b].rest \cup {f \in {batch[b].at} : batch[b].pc \in {"presign", "put", "complete"}}
SentOnce(f) ==
  /\ rows[f] > 0 => \/ data.rows[f] > 0 \/ data.stale
                    \/ \E b \in Batches : batch[b].at = f /\ batch[b].pc \in {"answer", "refresh"}
  /\ \A c \in Callers : Fresh(c) /\ rows[f] > 0 =>
       get[c].rows[f] > 0 \/ \E b \in Batches : batch[b].at = f /\ Asking(b)
  /\ rows[f] <= 1 \/ f \in twice
  /\ \A b \in Batches : f \in ToSend(b) => rows[f] = 0 \/ f \in twice
Once == ~muddled /\ ~hushed => \A f \in Papers : SentOnce(f)

\* One zip at a time: its job is waiting, or its summary is there.
ZipInOrder ==
  /\ zip.busy = "unpacking" =>
       /\ (jobs = 1 /\ zips = zip.since) \/ (jobs = 0 /\ zips = zip.since + 1)
       /\ \A b \in Batches : batch[b].pc # "idle" => Zip \notin batch[b].rest /\ (batch[b].at = Zip => batch[b].pc = "refresh")
  /\ zip.busy # "unpacking" =>
       jobs = 0 \/ (jobs = 1 /\ \E b \in Batches : batch[b].at = Zip /\ batch[b].pc = "answer")

\* A list that is not old was read last.
ReadInOrder ==
  \A c \in Callers : get[c].pc = "list" =>
    /\ get[c].zips <= zips
    /\ Fresh(c) => \A d \in Callers : get[d].pc = "list" => get[d].zips <= get[c].zips

\* What the page shows is what is there, or it is about to ask, or has asked.
Current ==
  /\ \/ data.rows = rows \/ data.stale \/ zip.busy = "unpacking" \/ get[Hand] # NoGet
     \/ \E b \in Batches : batch[b].pc \in {"answer", "refresh"}
  /\ \A c \in Callers : Fresh(c) =>
       \/ get[c].rows = rows \/ get[Hand].pc = "asked" \/ \E b \in Batches : Asking(b)
       \/ zip.busy = "unpacking" /\ get[c].zips <= zip.since
Plain == ~muddled /\ ~hushed /\ ~hasty /\ ~skewed => ZipInOrder /\ Current

\* An archive that is waited for is asked about again, and its summary is to come.
Waits == zip.busy = "unpacking" => armed \/ get[Timer] # NoGet \/ hushed
Coming ==
  zip.busy = "unpacking" =>
    hasty \/ skewed \/ (zips >= zip.since /\ (jobs > 0 \/ zips > zip.since))

DocsInv ==
  PageTypes /\ OneBatch /\ OnServer /\ Accounted /\ Once /\ ReadInOrder /\ Plain /\ Waits /\ Told /\ Coming
-----------------------------------------------------------------------------
(* One batch goes on to its next file, or ends.                            *)

LEMMA Callers2 ==
  /\ Batches \subseteq Callers /\ Hand \in Callers /\ Timer \in Callers
  /\ Callers = Batches \cup {Hand, Timer} /\ Hand \notin Batches /\ Timer \notin Batches /\ Hand # Timer
BY PageAssumption DEF PageAssumption, Callers

LEMMA BatchIs ==
  ASSUME PageTypes, NEW b \in Batches, NEW n, batch' = [batch EXCEPT ![b] = n]
  PROVE  /\ batch'[b] = n /\ \A c \in Batches : c # b => batch'[c] = batch[c]
         /\ batch' = [c \in Batches |-> batch'[c]]
BY DEF PageTypes

LEMMA GetIs ==
  ASSUME PageTypes, NEW c \in Callers, NEW g, get' = [get EXCEPT ![c] = g]
  PROVE  /\ get'[c] = g /\ \A d \in Callers : d # c => get'[d] = get[d]
         /\ get' = [d \in Callers |-> get'[d]]
BY DEF PageTypes

LEMMA ListIs == ASSUME PageTypes, NEW c \in Callers, get[c].pc = "list" PROVE get[c].zips \in Nat
<1>1. IsGet(get[c])
  BY DEF PageTypes
<1>2. PICK g : g = get[c]
  OBVIOUS
<1>3. g # NoGet /\ g # [pc |-> "asked"]
  BY <1>2 DEF NoGet
<1> QED BY <1>1, <1>2, <1>3 DEF IsGet

LEMMA DocumentsAre == Papers \subseteq Documents /\ Zip \notin Papers /\ Inside \in Documents /\ Inside \notin Papers
BY PageAssumption DEF PageAssumption, Documents

\* What every step but those of a batch does with the message: it keeps it, or passes over
\* what had failed.
Noticed ==
  UNCHANGED progress /\ passedOver \subseteq passedOver' /\ (error => error' \/ failed \subseteq passedOver')

LEMMA ToldKept ==
  ASSUME Told, Noticed, UNCHANGED <<muddled, failed>>,
         \A b \in Batches : batch'[b].failed = batch[b].failed /\ (batch'[b].pc = "idle" <=> batch[b].pc = "idle")
  PROVE  Told'
BY DEF Told, Noticed

\* What the end of a file leaves of its batch and of the archive it waits for.
MovedOn(b, busy) ==
  /\ zip' = [busy |-> zip'.busy, since |-> zip.since]
  /\ batch' = [c \in Batches |-> batch'[c]] /\ \A c \in Batches : c # b => batch'[c] = batch[c]
  /\ IsBatch(batch'[b]) /\ batch'[b].pc \in {"idle", "presign"} /\ batch'[b].at \notin batch'[b].rest
  /\ batch'[b].rest \subseteq batch[b].rest /\ (batch'[b].pc # "idle" => batch'[b].at \in batch[b].rest)
  /\ \/ zip'.busy = busy /\ (batch'[b].pc # "idle" => batch'[b].at # Zip)
     \/ zip'.busy = "uploading" /\ Zip \in batch[b].rest

\* The files of a batch that ends are offered again; those of one that goes on are still its own.
Offered(b, q) ==
  \/ UNCHANGED failed /\ q.rest \cup q.failed \subseteq Pending(b)'
  \/ q.rest = {} /\ failed' = q.failed /\ batch'[b].pc = "idle"

\* The message of a file that failed, when its batch goes on and when it ends.
Noted(b, q, bad) ==
  \/ /\ batch'[b].pc # "idle" /\ UNCHANGED failed /\ batch'[b].failed = q.failed
     /\ passedOver' = passedOver \cup q.failed
  \/ /\ batch'[b].pc = "idle" /\ failed' = q.failed /\ batch'[b].failed = {} /\ ~progress'
     /\ (bad => error') /\ (~bad => passedOver' = passedOver)
     /\ passedOver \subseteq passedOver' \cup q.failed

LEMMA LoopIs ==
  ASSUME PageTypes, NEW b \in Batches, NEW q, q = [pc |-> q.pc, at |-> q.at, rest |-> q.rest, failed |-> q.failed],
         NEW busy, NEW bad \in BOOLEAN, Loop(b, q, busy, bad), q.rest \subseteq batch[b].rest
  PROVE  MovedOn(b, busy) /\ Offered(b, q) /\ Noted(b, q, bad)
<1>1. IsBatch(batch[b]) /\ zip = [busy |-> zip.busy, since |-> zip.since]
  BY DEF PageTypes
<1>2. CASE Begin(b, q, busy) /\ UNCHANGED failed /\ passedOver' = passedOver \cup q.failed
  <2>1. PICK f \in q.rest :
          /\ batch' = [batch EXCEPT ![b] = [q EXCEPT !.pc = "presign", !.at = f, !.rest = @ \ {f}]]
          /\ zip' = [zip EXCEPT !.busy = IF f = Zip THEN "uploading" ELSE busy]
    BY <1>2 DEF Begin
  <2>2. PICK n : n = [q EXCEPT !.pc = "presign", !.at = f, !.rest = q.rest \ {f}]
    OBVIOUS
  <2>3. n = [pc |-> "presign", at |-> f, rest |-> q.rest \ {f}, failed |-> q.failed]
    BY <2>2
  <2>4. batch' = [batch EXCEPT ![b] = n]
    BY <2>1, <2>2
  <2>5. batch'[b] = n /\ (\A c \in Batches : c # b => batch'[c] = batch[c]) /\ batch' = [c \in Batches |-> batch'[c]]
    BY <2>4, BatchIs
  <2>6. IsBatch(n) /\ n.pc = "presign" /\ n.at = f /\ n.rest = q.rest \ {f} /\ n.failed = q.failed
    BY <1>1, <2>3 DEF IsBatch
  <2>7. zip' = [busy |-> zip'.busy, since |-> zip.since] /\ zip'.busy = IF f = Zip THEN "uploading" ELSE busy
    BY <1>1, <2>1
  <2>8. MovedOn(b, busy)
    BY <2>5, <2>6, <2>7 DEF MovedOn
  <2>9. Pending(b)' = n.rest \cup n.failed \cup {n.at}
    BY <2>5, <2>6 DEF Pending
  <2>10. Noted(b, q, bad)
    BY <1>2, <2>5, <2>6 DEF Noted
  <2> QED BY <1>2, <2>6, <2>8, <2>9, <2>10 DEF Offered
<1>3. CASE /\ q.rest = {} /\ failed' = q.failed /\ batch' = [batch EXCEPT ![b] = Resting]
           /\ zip' = [zip EXCEPT !.busy = busy] /\ error' = (error \/ bad) /\ progress' = FALSE
           /\ passedOver' = IF bad THEN passedOver \ q.failed ELSE passedOver
  <2>1. PICK n : n = Resting
    OBVIOUS
  <2>2. batch'[b] = n /\ (\A c \in Batches : c # b => batch'[c] = batch[c]) /\ batch' = [c \in Batches |-> batch'[c]]
    BY <1>3, <2>1, BatchIs
  <2>3. IsBatch(n) /\ n.pc = "idle" /\ n.rest = {} /\ n.failed = {}
    BY <2>1 DEF IsBatch, Resting, Chosen
  <2>4. zip' = [busy |-> zip'.busy, since |-> zip.since] /\ zip'.busy = busy
    BY <1>1, <1>3
  <2>5. MovedOn(b, busy)
    BY <2>2, <2>3, <2>4 DEF MovedOn
  <2>6. Noted(b, q, bad)
    BY <1>3, <2>2, <2>3 DEF Noted
  <2> QED BY <1>3, <2>2, <2>3, <2>5, <2>6 DEF Offered
<1> QED BY <1>2, <1>3 DEF Loop

LEMMA NextFile ==
  ASSUME DocsInv, NEW b \in Batches, NEW q, NEW busy, NEW bad \in BOOLEAN,
         MovedOn(b, busy), Offered(b, q), Noted(b, q, bad), batch[b].pc # "idle", bad \/ q.failed = batch[b].failed,
         batch[b].rest \cup batch[b].failed \subseteq q.rest \cup q.failed,
         batch[b].at \in q.failed \/ (batch[b].at \in Papers => rows[batch[b].at] > 0),
         get'[b] = NoGet, \A c \in Batches : c # b => get'[c] = get[c],
         UNCHANGED <<rows, wanted, muddled>>
  PROVE  OneBatch' /\ OnServer' /\ Accounted' /\ Told'
<1>1. OneBatch'
  <2> SUFFICES ASSUME ~muddled PROVE OneBatch'
    BY DEF OneBatch
  <2>1. \A c \in Batches : c # b => batch[c].pc = "idle" /\ batch'[c].pc = "idle"
    BY DEF DocsInv, OneBatch, MovedOn
  <2>2. batch'[b].pc # "idle" => failed' = {}
    BY DEF DocsInv, OneBatch, Offered
  <2> QED BY <2>1, <2>2 DEF OneBatch
<1>2. OnServer'
  BY DEF DocsInv, OnServer, MovedOn
<1>3. Accounted'
  <2> SUFFICES ASSUME ~muddled, NEW f \in wanted \cap Papers
               PROVE  rows[f] > 0 \/ f \in failed' \/ f \in passedOver' \/ \E c \in Batches : f \in Pending(c)'
    BY DEF Accounted
  <2>1. rows[f] > 0 \/ f \in failed \/ f \in passedOver \/ \E c \in Batches : f \in Pending(c)
    BY DEF DocsInv, Accounted
  <2>2. failed = {}
    BY DEF DocsInv, OneBatch
  <2>3. CASE \E c \in Batches \ {b} : f \in Pending(c)
    BY <2>3 DEF MovedOn, Pending
  <2>4. CASE f \in Pending(b)
    <3>1. f \in q.rest \cup q.failed \/ rows[f] > 0
      BY <2>4 DEF Pending
    <3> QED BY <3>1 DEF Offered
  <2>5. CASE f \in passedOver
    BY <2>5 DEF Noted
  <2> QED BY <2>1, <2>2, <2>3, <2>4, <2>5
<1>4. Told'
  <2> SUFFICES ASSUME ~muddled PROVE Told'
    BY DEF Told
  <2>1. /\ \A c \in Batches : c # b => batch'[c] = batch[c] /\ batch[c].pc = "idle" /\ batch'[c].failed = {}
        /\ batch[b].failed \subseteq passedOver /\ failed = {}
    <3>1. \A c \in Batches : c # b => batch'[c] = batch[c] /\ batch[c].pc = "idle"
      BY DEF DocsInv, OneBatch, MovedOn
    <3>2. \A c \in Batches : batch[c].pc = "idle" => batch[c] = Resting
      BY DEF DocsInv, PageTypes, IsBatch
    <3>3. \A c \in Batches : c # b => batch'[c].failed = {}
      BY <3>1, <3>2 DEF Resting
    <3> QED BY <3>1, <3>3 DEF DocsInv, Told, OneBatch
  <2>2. CASE batch'[b].pc # "idle"
    BY <2>1, <2>2 DEF Told, Noted
  <2>3. CASE batch'[b].pc = "idle"
    BY <2>1, <2>3 DEF Told, Noted
  <2> QED BY <2>2, <2>3
<1> QED BY <1>1, <1>2, <1>3, <1>4

\* What a failure of an upload leaves: its file, with the rest of a batch that was stopped, is
\* offered or still to come; an answer the page waits for is lost, or the file was never sent.
LEMMA UploadFailsKeep ==
  ASSUME DocsInv, NEW b \in Batches, NEW stop, UploadFails(b, stop), batch[b].pc # "idle",
         get'[b] = NoGet, \A c \in Callers : c # b => get'[c] = get[c], get' = [c \in Callers |-> get'[c]],
         (batch[b].pc \in {"presign", "put", "complete"} /\ hushed' = hushed) \/ hushed',
         UNCHANGED <<rows, jobs, zips, data, wanted, twice, muddled, hasty, skewed>>
  PROVE  DocsInv'
<1> USE Callers2
<1>1. PICK q : q = Stopped(b, stop)
  OBVIOUS
<1>2. IsBatch(batch[b])
  BY DEF DocsInv, PageTypes
<1>3. /\ q = [pc |-> q.pc, at |-> q.at, rest |-> q.rest, failed |-> q.failed]
      /\ q.rest \subseteq batch[b].rest /\ batch[b].rest \cup batch[b].failed \subseteq q.rest \cup q.failed
      /\ batch[b].at \in q.failed
  <2>1. PICK bb : bb = batch[b]
    OBVIOUS
  <2>2. bb = [pc |-> bb.pc, at |-> bb.at, rest |-> bb.rest, failed |-> bb.failed]
    BY <1>2, <2>1 DEF IsBatch
  <2>3. q = [pc |-> bb.pc, at |-> bb.at, rest |-> IF stop THEN {} ELSE bb.rest,
             failed |-> bb.failed \cup {bb.at} \cup (IF stop THEN bb.rest ELSE {})]
    BY <1>1, <2>1, <2>2 DEF Stopped
  <2> QED BY <2>1, <2>3
<1>4. PICK busy : busy = AfterUpload(b)
  OBVIOUS
<1>5. Loop(b, q, busy, TRUE) /\ armed' = Armed(zip'.busy, budget, data)
  BY <1>1, <1>4 DEF UploadFails
<1>6. MovedOn(b, busy) /\ Offered(b, q) /\ Noted(b, q, TRUE)
  BY <1>3, <1>5, LoopIs DEF DocsInv
<1>7. OneBatch' /\ OnServer' /\ Accounted' /\ Told'
  BY <1>3, <1>6, NextFile
<1>8. PageTypes'
  <2>1. zip' = [busy |-> zip'.busy, since |-> zip'.since] /\ zip'.since = zip.since
    BY <1>6 DEF MovedOn
  <2>2. \A c \in Batches : IsBatch(batch[c])'
    BY <1>6 DEF MovedOn, DocsInv, PageTypes, IsBatch
  <2>3. \A c \in Callers : IsGet(get[c])'
    BY DEF DocsInv, PageTypes, IsGet
  <2>4. batch' = [c \in Batches |-> batch'[c]]
    BY <1>6 DEF MovedOn
  <2> QED BY <2>1, <2>2, <2>3, <2>4 DEF DocsInv, PageTypes
<1>9. Once'
  <2> SUFFICES ASSUME ~muddled, ~hushed', NEW f \in Papers PROVE SentOnce(f)'
    BY DEF Once
  <2>1. batch[b].pc \in {"presign", "put", "complete"} /\ ~hushed
    OBVIOUS
  <2>2. SentOnce(f)
    BY <2>1 DEF DocsInv, Once
  <2>3. \A c \in Batches : batch[c].pc \in {"answer", "refresh"} => batch'[c] = batch[c] /\ get'[c] = get[c]
    BY <1>6, <2>1 DEF MovedOn
  <2>4. \A c \in Callers : Fresh(c)' => Fresh(c) /\ get'[c] = get[c]
    BY DEF Fresh, NoGet
  <2>5. \A c \in Batches : ToSend(c)' \subseteq ToSend(c)
    BY <1>6 DEF MovedOn, ToSend
  <2>6. \A c \in Batches : Asking(c) => Asking(c)'
    BY <2>3 DEF Asking
  <2>7. rows'[f] > 0 => \/ data'.rows[f] > 0 \/ data'.stale
                        \/ \E c \in Batches : batch'[c].at = f /\ batch'[c].pc \in {"answer", "refresh"}
    BY <2>2, <2>3 DEF SentOnce
  <2>8. \A c \in Callers : Fresh(c)' /\ rows'[f] > 0 =>
          get'[c].rows[f] > 0 \/ \E d \in Batches : batch'[d].at = f /\ Asking(d)'
    <3> SUFFICES ASSUME NEW c \in Callers, Fresh(c)', rows'[f] > 0
                 PROVE  get'[c].rows[f] > 0 \/ \E d \in Batches : batch'[d].at = f /\ Asking(d)'
      OBVIOUS
    <3>1. get[c].rows[f] > 0 \/ \E d \in Batches : batch[d].at = f /\ Asking(d)
      BY <2>2, <2>4 DEF SentOnce
    <3>2. \A d \in Batches : Asking(d) => batch'[d] = batch[d]
      BY <2>3 DEF Asking
    <3> QED BY <2>4, <2>6, <3>1, <3>2
  <2>9. rows'[f] <= 1 \/ f \in twice'
    BY <2>2 DEF SentOnce
  <2>10. \A c \in Batches : f \in ToSend(c)' => rows'[f] = 0 \/ f \in twice'
    BY <2>2, <2>5 DEF SentOnce
  <2> QED BY <2>7, <2>8, <2>9, <2>10 DEF SentOnce
<1>10. ReadInOrder'
  <2>1. \A c \in Callers : get'[c].pc = "list" => get'[c] = get[c]
    BY DEF NoGet
  <2> QED BY <2>1 DEF DocsInv, ReadInOrder, Fresh
<1>11. Plain'
  <2> SUFFICES ASSUME ~muddled, ~hushed', ~hasty, ~skewed PROVE ZipInOrder' /\ Current'
    BY DEF Plain
  <2>1. batch[b].pc \in {"presign", "put", "complete"} /\ ~hushed
    OBVIOUS
  <2>2. ZipInOrder /\ Current
    BY <2>1 DEF DocsInv, Plain
  <2>3. \A c \in Batches : batch[c].pc \in {"answer", "refresh"} => batch'[c] = batch[c] /\ get'[c] = get[c]
    BY <1>6, <2>1 DEF MovedOn
  <2>4. (zip.busy = "unpacking") = (zip'.busy = "unpacking") /\ zip'.since = zip.since
    <3>1. zip.busy = "unpacking" => Zip \notin batch[b].rest
      BY <2>2 DEF ZipInOrder
    <3> QED BY <1>4, <1>6, <3>1 DEF AfterUpload, MovedOn
  <2>5. ZipInOrder'
    BY <1>6, <2>2, <2>3, <2>4 DEF ZipInOrder, MovedOn
  <2>6. \A c \in Callers : Fresh(c)' => Fresh(c) /\ get'[c] = get[c]
    BY DEF Fresh, NoGet
  <2>7. \A c \in Batches : Asking(c) => Asking(c)'
    BY <2>3 DEF Asking
  <2>8. Current'
    BY <2>2, <2>3, <2>4, <2>6, <2>7 DEF Current
  <2> QED BY <2>5, <2>8
<1>12. Waits'
  BY <1>5 DEF Waits, Armed
<1>13. Coming'
  BY <1>4, <1>6 DEF DocsInv, Coming, MovedOn, AfterUpload
<1> QED BY <1>7, <1>8, <1>9, <1>10, <1>11, <1>12, <1>13 DEF DocsInv

\* The list a refresh brings is shown: what was read before is what there is, unless it is old
\* or there is an answer still to come; a batch that waited for it moves on.
LEMMA ListShownKeeps ==
  ASSUME DocsInv, NEW c \in Callers, ListShown(c)
  PROVE  DocsInv'
<1> USE Callers2
<1>1. PICK busy : busy = IF Unpacked(get[c]) THEN "no" ELSE zip.busy
  OBVIOUS
<1>2. get[c].pc = "list" /\ get[c] # NoGet
  BY DEF ListShown, NoGet
<1>3. /\ get'[c] = NoGet /\ (\A d \in Callers : d # c => get'[d] = get[d]) /\ get' = [d \in Callers |-> get'[d]]
      /\ \A d \in Callers : get'[d].pc = "list" => d # c /\ get'[d] = get[d]
  <2>1. PICK g : g = NoGet
    OBVIOUS
  <2>2. get' = [get EXCEPT ![c] = g] /\ PageTypes
    BY <2>1 DEF ListShown, DocsInv
  <2>3. /\ get'[c] = g /\ \A d \in Callers : d # c => get'[d] = get[d]
        /\ get' = [d \in Callers |-> get'[d]]
    BY <2>2, GetIs
  <2>4. g.pc # "list"
    BY <2>1 DEF NoGet
  <2> QED BY <2>1, <2>3, <2>4
<1>4. /\ DOMAIN data' = {"rows", "read", "zips", "running", "stale"}
      /\ data'.rows = get[c].rows /\ data'.stale = get[c].stale
  BY DEF ListShown, DocsInv, PageTypes
<1>5. /\ armed' = Armed(zip'.busy, budget, data')
      /\ UNCHANGED <<rows, jobs, zips, wanted, twice, muddled, hasty, skewed>> /\ (hushed' = hushed \/ hushed')
  BY DEF ListShown, serverVars
<1>6. ASSUME c \in Batches
      PROVE  MovedOn(c, busy) /\ OneBatch' /\ OnServer' /\ Accounted' /\ Told' /\ batch[c].pc = "refresh"
  <2>1. IsBatch(batch[c]) /\ batch[c].pc = "refresh"
    BY <1>2, <1>6 DEF DocsInv, PageTypes, OnServer
  <2>2. batch[c] = [pc |-> batch[c].pc, at |-> batch[c].at, rest |-> batch[c].rest, failed |-> batch[c].failed]
    BY <2>1 DEF IsBatch
  <2>3. batch[c].at \in Papers => rows[batch[c].at] > 0
    BY <1>6, <2>1 DEF DocsInv, OnServer
  <2>4. CASE Loop(c, batch[c], busy, FALSE)
    <3>1. MovedOn(c, busy) /\ Offered(c, batch[c]) /\ Noted(c, batch[c], FALSE)
      BY <1>6, <2>2, <2>4, LoopIs DEF DocsInv
    <3>2. OneBatch' /\ OnServer' /\ Accounted' /\ Told'
      BY <1>3, <1>5, <1>6, <2>1, <2>3, <3>1, NextFile
    <3> QED BY <2>1, <3>1, <3>2
  <2>5. CASE Loop(c, Stopped(c, cancelled), busy, TRUE)
    <3>1. PICK q : q = Stopped(c, cancelled)
      OBVIOUS
    <3>2. PICK bb : bb = batch[c]
      OBVIOUS
    <3>3. q = [pc |-> bb.pc, at |-> bb.at, rest |-> IF cancelled THEN {} ELSE bb.rest,
               failed |-> bb.failed \cup {bb.at} \cup (IF cancelled THEN bb.rest ELSE {})]
      BY <2>2, <3>1, <3>2 DEF Stopped
    <3>4. /\ q = [pc |-> q.pc, at |-> q.at, rest |-> q.rest, failed |-> q.failed]
          /\ q.rest \subseteq batch[c].rest /\ batch[c].rest \cup batch[c].failed \subseteq q.rest \cup q.failed
          /\ batch[c].at \in q.failed
      BY <3>2, <3>3
    <3>5. MovedOn(c, busy) /\ Offered(c, q) /\ Noted(c, q, TRUE)
      BY <1>6, <2>5, <3>1, <3>4, LoopIs DEF DocsInv
    <3>6. OneBatch' /\ OnServer' /\ Accounted' /\ Told'
      BY <1>3, <1>5, <1>6, <2>1, <3>4, <3>5, NextFile
    <3> QED BY <2>1, <3>5, <3>6
  <2> QED BY <1>1, <1>6, <2>4, <2>5 DEF ListShown
<1>7. ASSUME c \notin Batches
      PROVE  UNCHANGED <<batch, failed, error, progress, passedOver>> /\ zip' = [zip EXCEPT !.busy = busy]
  BY <1>1, <1>7 DEF ListShown, noteVars
<1>8. OneBatch' /\ OnServer' /\ Accounted' /\ Told'
  <2>1. CASE c \in Batches
    BY <1>6, <2>1
  <2>2. CASE c \notin Batches
    <3>1. UNCHANGED <<batch, failed, error, progress, passedOver>> /\ \A b \in Batches : get'[b] = get[b]
      BY <1>3, <1>7, <2>2
    <3> QED BY <1>5, <3>1 DEF DocsInv, OneBatch, OnServer, Accounted, Told, Pending
  <2> QED BY <2>1, <2>2
<1>9. /\ batch' = [b \in Batches |-> batch'[b]]
      /\ \A b \in Batches : b # c => batch'[b] = batch[b]
      /\ zip' = [busy |-> zip'.busy, since |-> zip'.since] /\ zip'.since = zip.since
      /\ zip'.busy = busy \/ (zip'.busy = "uploading" /\ c \in Batches /\ Zip \in batch[c].rest)
  <2>1. CASE c \in Batches
    BY <1>6, <2>1 DEF MovedOn
  <2>2. CASE c \notin Batches
    BY <1>7, <2>2 DEF DocsInv, PageTypes
  <2> QED BY <2>1, <2>2
<1>10. PageTypes'
  <2>1. \A b \in Batches : IsBatch(batch[b])'
    <3>1. \A b \in Batches : IsBatch(batch[b])
      BY DEF DocsInv, PageTypes
    <3>2. c \in Batches => IsBatch(batch[c])'
      BY <1>6 DEF MovedOn
    <3> QED BY <1>9, <3>1, <3>2 DEF IsBatch
  <2>2. \A d \in Callers : IsGet(get[d])'
    BY <1>3 DEF DocsInv, PageTypes, IsGet
  <2> QED BY <1>3, <1>4, <1>5, <1>9, <2>1, <2>2 DEF DocsInv, PageTypes
<1>11. ReadInOrder'
  BY <1>3, <1>5 DEF DocsInv, ReadInOrder, Fresh
<1>12. Waits'
  BY <1>5 DEF Waits, Armed
<1>13. \A d \in Callers : Fresh(d)' => Fresh(d) /\ get'[d] = get[d] /\ d # c
  BY <1>3 DEF Fresh
<1>14. \A b \in Batches : batch[b].pc = "answer" \/ Asking(b) =>
         /\ b # c /\ batch'[b] = batch[b] /\ batch[b].pc \in {"answer", "refresh"} /\ (Asking(b) => Asking(b)')
  BY <1>2, <1>3, <1>6, <1>9 DEF Asking
<1>15. Once'
  <2> SUFFICES ASSUME ~muddled, ~hushed', NEW f \in Papers PROVE SentOnce(f)'
    BY <1>5 DEF Once
  <2>1. SentOnce(f)
    BY <1>5 DEF DocsInv, Once
  <2>2. rows'[f] > 0 => \/ data'.rows[f] > 0 \/ data'.stale
                        \/ \E b \in Batches : batch'[b].at = f /\ batch'[b].pc \in {"answer", "refresh"}
    <3> SUFFICES ASSUME rows[f] > 0, ~get[c].stale
                 PROVE  data'.rows[f] > 0 \/ \E b \in Batches : batch'[b].at = f /\ batch'[b].pc \in {"answer", "refresh"}
      BY <1>4, <1>5
    <3>1. Fresh(c)
      BY <1>2 DEF Fresh
    <3>2. get[c].rows[f] > 0 \/ \E b \in Batches : batch[b].at = f /\ Asking(b)
      BY <2>1, <3>1 DEF SentOnce
    <3> QED BY <1>4, <1>14, <3>2
  <2>3. \A d \in Callers : Fresh(d)' /\ rows'[f] > 0 =>
          get'[d].rows[f] > 0 \/ \E b \in Batches : batch'[b].at = f /\ Asking(b)'
    <3> SUFFICES ASSUME NEW d \in Callers, Fresh(d)', rows'[f] > 0
                 PROVE  get'[d].rows[f] > 0 \/ \E b \in Batches : batch'[b].at = f /\ Asking(b)'
      OBVIOUS
    <3>1. get[d].rows[f] > 0 \/ \E b \in Batches : batch[b].at = f /\ Asking(b)
      BY <1>5, <1>13, <2>1 DEF SentOnce
    <3> QED BY <1>13, <1>14, <3>1
  <2>4. rows'[f] <= 1 \/ f \in twice'
    BY <1>5, <2>1 DEF SentOnce
  <2>5. \A b \in Batches : f \in ToSend(b)' => rows'[f] = 0 \/ f \in twice'
    <3>1. \A b \in Batches : ToSend(b)' \subseteq ToSend(b)
      BY <1>6, <1>9 DEF MovedOn, ToSend
    <3> QED BY <1>5, <2>1, <3>1 DEF SentOnce
  <2> QED BY <2>2, <2>3, <2>4, <2>5 DEF SentOnce
<1>16. Plain'
  <2> SUFFICES ASSUME ~muddled, ~hushed', ~hasty, ~skewed PROVE ZipInOrder' /\ Current'
    BY <1>5 DEF Plain
  <2>1. ZipInOrder /\ Current
    BY <1>5 DEF DocsInv, Plain
  <2>2. zip.busy = "unpacking" /\ c \in Batches => Zip \notin batch[c].rest
    BY <1>6, <2>1 DEF ZipInOrder
  <2>3. /\ zip.since \in Nat /\ zips \in Nat /\ get[c].zips \in Nat /\ get[c].zips <= zips
    <3>1. zip.since \in Nat /\ zips \in Nat /\ get[c].zips <= zips
      BY <1>2 DEF DocsInv, PageTypes, ReadInOrder
    <3>2. get[c].zips \in Nat
      BY <1>2, ListIs DEF DocsInv
    <3> QED BY <3>1, <3>2
  <2>4. zip'.busy = "unpacking" <=> zip.busy = "unpacking" /\ ~(get[c].zips > zip.since)
    BY <1>1, <1>9, <2>2 DEF Unpacked
  <2>5. ZipInOrder'
    <3>1. ASSUME zip'.busy = "unpacking"
          PROVE  /\ (jobs' = 1 /\ zips' = zip'.since) \/ (jobs' = 0 /\ zips' = zip'.since + 1)
                 /\ \A b \in Batches : batch'[b].pc # "idle" =>
                      Zip \notin batch'[b].rest /\ (batch'[b].at = Zip => batch'[b].pc = "refresh")
      <4>1. (jobs' = 1 /\ zips' = zip'.since) \/ (jobs' = 0 /\ zips' = zip'.since + 1)
        BY <1>5, <1>9, <2>1, <2>4, <3>1 DEF ZipInOrder
      <4>2. ASSUME NEW b \in Batches, batch'[b].pc # "idle"
            PROVE  Zip \notin batch'[b].rest /\ (batch'[b].at = Zip => batch'[b].pc = "refresh")
        BY <1>6, <1>9, <2>1, <2>2, <2>4, <3>1, <4>2 DEF ZipInOrder, MovedOn
      <4> QED BY <4>1, <4>2
    <3>2. ASSUME zip'.busy # "unpacking"
          PROVE  jobs' = 0 \/ (jobs' = 1 /\ \E b \in Batches : batch'[b].at = Zip /\ batch'[b].pc = "answer")
      <4>1. CASE zip.busy = "unpacking"
        <5>1. get[c].zips > zip.since
          BY <2>4, <3>2, <4>1
        <5> QED BY <1>5, <2>1, <2>3, <4>1, <5>1 DEF ZipInOrder
      <4>2. CASE zip.busy # "unpacking"
        BY <1>5, <1>14, <2>1, <4>2 DEF ZipInOrder
      <4> QED BY <4>1, <4>2
    <3> QED BY <3>1, <3>2 DEF ZipInOrder
  <2>6. \/ data'.rows = rows' \/ data'.stale \/ zip'.busy = "unpacking" \/ get'[Hand] # NoGet
        \/ \E b \in Batches : batch'[b].pc \in {"answer", "refresh"}
    <3> SUFFICES ASSUME ~get[c].stale
                 PROVE  \/ data'.rows = rows' \/ zip'.busy = "unpacking" \/ get'[Hand] # NoGet
                        \/ \E b \in Batches : batch'[b].pc \in {"answer", "refresh"}
      BY <1>4
    <3>1. \/ get[c].rows = rows \/ get[Hand].pc = "asked" \/ \E b \in Batches : Asking(b)
          \/ zip.busy = "unpacking" /\ get[c].zips <= zip.since
      BY <1>2, <2>1 DEF Current, Fresh
    <3>2. CASE get[c].rows = rows
      BY <1>4, <1>5, <3>2
    <3>3. CASE get[Hand].pc = "asked"
      BY <1>2, <1>3, <3>3 DEF NoGet
    <3>4. CASE \E b \in Batches : Asking(b)
      BY <1>14, <3>4
    <3>5. CASE zip.busy = "unpacking" /\ get[c].zips <= zip.since
      BY <2>3, <2>4, <3>5
    <3> QED BY <3>1, <3>2, <3>3, <3>4, <3>5
  <2>7. ASSUME NEW d \in Callers, Fresh(d)'
        PROVE  \/ get'[d].rows = rows' \/ get'[Hand].pc = "asked" \/ (\E b \in Batches : Asking(b)')
               \/ zip'.busy = "unpacking" /\ get'[d].zips <= zip'.since
    <3>1. Fresh(d) /\ get'[d] = get[d] /\ d # c
      BY <1>13, <2>7
    <3>2. \/ get[d].rows = rows \/ get[Hand].pc = "asked" \/ (\E b \in Batches : Asking(b))
          \/ zip.busy = "unpacking" /\ get[d].zips <= zip.since
      BY <2>1, <3>1 DEF Current
    <3>3. CASE get[d].rows = rows
      BY <1>5, <3>1, <3>3
    <3>4. CASE get[Hand].pc = "asked"
      BY <1>2, <1>3, <3>4
    <3>5. CASE \E b \in Batches : Asking(b)
      BY <1>14, <3>5
    <3>6. CASE zip.busy = "unpacking" /\ get[d].zips <= zip.since
      <4>1. get[c].zips <= get[d].zips
        <5>1. get[d].pc = "list"
          BY <3>1 DEF Fresh
        <5> QED BY <1>2, <3>1, <5>1 DEF DocsInv, ReadInOrder
      <4>2. get[d].zips \in Nat
        BY <3>1, ListIs DEF DocsInv, Fresh
      <4> QED BY <1>9, <2>3, <2>4, <3>1, <3>6, <4>1, <4>2
    <3> QED BY <3>2, <3>3, <3>4, <3>5, <3>6
  <2>8. Current'
    BY <2>6, <2>7 DEF Current
  <2> QED BY <2>5, <2>8
<1>17. Coming'
  BY <1>1, <1>5, <1>9 DEF DocsInv, Coming
<1> QED BY <1>8, <1>10, <1>11, <1>12, <1>15, <1>16, <1>17 DEF DocsInv

\* The family chooses files: while the page is busy, and it muddles two batches; or while it is
\* not, and what the page shows, or showed, of them it is asked about.
LEMMA ChooseFilesKeeps ==
  ASSUME DocsInv, NEW b \in Batches, NEW chosen \in SUBSET Chosen, NEW no, ChooseFiles(b, chosen, no)
  PROVE  DocsInv'
<1> USE Callers2
<1>1. PICK sent : sent = chosen \ no
  OBVIOUS
<1>2. /\ batch[b] = Resting /\ sent \subseteq Chosen
      /\ wanted' = (wanted \ (IF RetryOffered THEN failed ELSE {})) \cup sent /\ passedOver' = passedOver \ sent
      /\ ~running
      /\ twice' = twice \cup {f \in sent : Shown(f) \/ data.stale}
      /\ muddled' = (muddled \/ (sent # {} /\ Busy))
      /\ failed' = {} /\ armed' = Armed(zip'.busy, budget, data)
      /\ UNCHANGED <<rows, jobs, zips, data, budget, get, hushed, hasty, skewed>>
  BY <1>1 DEF ChooseFiles, serverVars, Gesture
<1>3. batch[b].pc = "idle" /\ batch[b].rest = {} /\ batch[b].failed = {} /\ batch[b].at = Zip /\ get[b] = NoGet
  BY <1>2 DEF Resting, DocsInv, OnServer
<1>4. PageTypes /\ zip = [busy |-> zip.busy, since |-> zip.since] /\ zip.since \in Nat
  BY DEF DocsInv, PageTypes
\* What failed and is not offered is passed over, or files are chosen beside a batch.
<1>11. ASSUME ~muddled, NEW f \in wanted, f \in failed, f \notin passedOver PROVE f \notin wanted' \ sent
  <2>1. error /\ \A c \in Batches : batch[c].pc = "idle"
    BY <1>11 DEF DocsInv, Told, OneBatch
  <2>2. ~progress
    BY <1>11, <2>1 DEF DocsInv, Told
  <2>3. RetryOffered
    BY <1>2, <1>11, <2>1, <2>2 DEF RetryOffered
  <2> QED BY <1>2, <1>11, <2>3
<1>5. CASE sent = {}
  <2>1. UNCHANGED <<batch, zip, twice, error, progress>> /\ (~muddled' => ~muddled)
    <3>1. UNCHANGED <<batch, zip, error, progress>>
      BY <1>1, <1>5 DEF ChooseFiles
    <3>2. twice' = twice
      BY <1>2, <1>5
    <3>3. ~muddled' => ~muddled
      BY <1>2
    <3> QED BY <3>1, <3>2, <3>3
  <2>2. PageTypes'
    BY <1>2, <1>4, <2>1 DEF PageTypes
  <2>3. OneBatch' /\ OnServer'
    BY <1>2, <2>1 DEF DocsInv, OneBatch, OnServer
  <2>4. Accounted' /\ Told'
    <3>1. Accounted'
      <4> SUFFICES ASSUME ~muddled', NEW f \in wanted' \cap Papers
                   PROVE  rows'[f] > 0 \/ f \in passedOver' \/ \E c \in Batches : f \in Pending(c)'
        BY DEF Accounted
      <4>1. f \in wanted /\ passedOver' = passedOver
        BY <1>2, <1>5
      <4>2. rows[f] > 0 \/ f \in failed \/ f \in passedOver \/ \E c \in Batches : f \in Pending(c)
        BY <2>1, <4>1 DEF DocsInv, Accounted
      <4>3. f \in failed => f \in passedOver
        BY <1>5, <1>11, <2>1, <4>1
      <4> QED BY <1>2, <2>1, <4>1, <4>2, <4>3 DEF Pending
    <3>2. Told'
      BY <1>2, <1>5, <2>1 DEF DocsInv, Told
    <3> QED BY <3>1, <3>2
  <2>5. Once'
    BY <1>2, <2>1 DEF DocsInv, Once, SentOnce, Fresh, Asking, ToSend
  <2>6. ReadInOrder' /\ Plain'
    BY <1>2, <2>1 DEF DocsInv, ReadInOrder, Plain, ZipInOrder, Current, Fresh, Asking
  <2>7. Waits' /\ Coming'
    BY <1>2, <2>1 DEF DocsInv, Waits, Armed, Coming
  <2> QED BY <2>2, <2>3, <2>4, <2>5, <2>6, <2>7 DEF DocsInv
<1>6. CASE sent # {}
  <2>1. PICK q : q = [Resting EXCEPT !.rest = sent]
    OBVIOUS
  <2>2. q = [pc |-> "idle", at |-> Zip, rest |-> sent, failed |-> {}]
    BY <2>1 DEF Resting
  <2>3. Begin(b, q, zip.busy)
    BY <1>1, <1>6, <2>1 DEF ChooseFiles
  <2>4. PICK f \in q.rest :
          /\ batch' = [batch EXCEPT ![b] = [q EXCEPT !.pc = "presign", !.at = f, !.rest = @ \ {f}]]
          /\ zip' = [zip EXCEPT !.busy = IF f = Zip THEN "uploading" ELSE zip.busy]
          /\ progress' = TRUE
    BY <2>3 DEF Begin
  <2>5. PICK n : n = [q EXCEPT !.pc = "presign", !.at = f, !.rest = q.rest \ {f}]
    OBVIOUS
  <2>6. n = [pc |-> "presign", at |-> f, rest |-> sent \ {f}, failed |-> {}] /\ f \in sent
    BY <2>2, <2>4, <2>5
  <2>7. batch' = [batch EXCEPT ![b] = n]
    BY <2>4, <2>5
  <2>8. batch'[b] = n /\ (\A c \in Batches : c # b => batch'[c] = batch[c]) /\ batch' = [c \in Batches |-> batch'[c]]
    BY <1>4, <2>7, BatchIs
  <2>9. IsBatch(n) /\ n.pc = "presign" /\ n.at = f /\ n.rest = sent \ {f} /\ n.failed = {}
    BY <1>2, <2>6 DEF IsBatch
  <2>10. /\ zip' = [busy |-> zip'.busy, since |-> zip'.since] /\ zip'.since = zip.since
         /\ zip'.busy = IF f = Zip THEN "uploading" ELSE zip.busy
    BY <1>4, <2>4
  <2>11. PageTypes'
    <3>1. \A c \in Batches : IsBatch(batch'[c])
      BY <1>4, <2>8, <2>9 DEF PageTypes
    <3>2. \A c \in Batches : IsBatch(batch[c])'
      BY <3>1 DEF IsBatch
    <3> QED BY <1>2, <1>4, <2>8, <2>10, <3>2 DEF PageTypes
  <2>12. OneBatch' /\ OnServer'
    <3>1. OneBatch'
      <4>1. ~muddled' => \A c \in Batches : batch[c].pc = "idle"
        BY <1>2, <1>6 DEF Busy, Active
      <4> QED BY <1>2, <2>8, <4>1 DEF OneBatch
    <3>2. OnServer'
      BY <1>2, <1>3, <2>6, <2>8, <2>9 DEF DocsInv, OnServer
    <3> QED BY <3>1, <3>2
  <2>13. Accounted'
    <3> SUFFICES ASSUME ~muddled', NEW g \in wanted' \cap Papers
                 PROVE  rows'[g] > 0 \/ g \in failed' \/ g \in passedOver' \/ \E c \in Batches : g \in Pending(c)'
      BY DEF Accounted
    <3>1. CASE g \in sent
      <4>1. g \in Pending(b)'
        BY <2>6, <2>8, <2>9, <3>1 DEF Pending
      <4> QED BY <4>1
    <3>2. CASE g \notin sent
      <4>1. rows[g] > 0 \/ g \in passedOver' \/ \E c \in Batches : g \in Pending(c)
        <5>1. ~muddled /\ g \in wanted
          BY <1>2, <3>2
        <5>2. rows[g] > 0 \/ g \in failed \/ g \in passedOver \/ \E c \in Batches : g \in Pending(c)
          BY <5>1 DEF DocsInv, Accounted
        <5>3. g \in failed => g \in passedOver
          BY <1>11, <3>2, <5>1
        <5> QED BY <1>2, <3>2, <5>2, <5>3
      <4>2. g \notin Pending(b)
        BY <1>3 DEF Pending
      <4>3. \A c \in Batches : c # b => Pending(c)' = Pending(c)
        BY <2>8 DEF Pending
      <4> QED BY <1>2, <4>1, <4>2, <4>3
    <3> QED BY <3>1, <3>2
  <2>14. ~muddled' => ~muddled /\ zip.busy = "no" /\ \A c \in Batches : batch[c].pc = "idle"
    BY <1>2, <1>6 DEF Busy, Active
  <2>15. Once'
    <3> SUFFICES ASSUME ~muddled', ~hushed, NEW g \in Papers PROVE SentOnce(g)'
      BY <1>2 DEF Once
    <3>1. SentOnce(g) /\ \A c \in Batches : batch[c].pc = "idle"
      BY <2>14 DEF DocsInv, Once
    <3>2. /\ rows[g] > 0 => data.rows[g] > 0 \/ data.stale
          /\ \A c \in Callers : Fresh(c) /\ rows[g] > 0 => get[c].rows[g] > 0
      BY <3>1 DEF SentOnce, Asking
    <3>3. \A c \in Callers : Fresh(c)' <=> Fresh(c)
      BY <1>2 DEF Fresh
    <3>4. \A c \in Batches : g \in ToSend(c)' => rows'[g] = 0 \/ g \in twice'
      <4>1. \A c \in Batches : c # b => g \notin ToSend(c)'
        <5>1. \A c \in Batches : batch[c] = Resting
          BY <1>4, <3>1 DEF PageTypes, IsBatch
        <5> QED BY <2>8, <5>1 DEF ToSend, Resting
      <4>2. g \in ToSend(b)' => g \in sent
        BY <2>6, <2>8, <2>9 DEF ToSend
      <4>3. rows[g] = 0 \/ rows[g] > 0
        BY <1>4, DocumentsAre DEF PageTypes
      <4>4. rows[g] > 0 /\ g \in sent => g \in twice'
        BY <1>2, <3>2, DocumentsAre DEF Shown
      <4> QED BY <1>2, <4>1, <4>2, <4>3, <4>4
    <3>5. rows'[g] <= 1 \/ g \in twice'
      BY <1>2, <3>1 DEF SentOnce
    <3> QED BY <1>2, <3>2, <3>3, <3>4, <3>5 DEF SentOnce
  <2>16. ReadInOrder'
    BY <1>2 DEF DocsInv, ReadInOrder, Fresh
  <2>17. Plain'
    <3> SUFFICES ASSUME ~muddled', ~hushed, ~hasty, ~skewed PROVE ZipInOrder' /\ Current'
      BY <1>2 DEF Plain
    <3>1. ZipInOrder /\ Current /\ zip.busy = "no" /\ \A c \in Batches : batch[c].pc = "idle"
      BY <2>14 DEF DocsInv, Plain
    <3>2. zip'.busy # "unpacking" /\ jobs = 0
      BY <2>10, <3>1 DEF ZipInOrder
    <3>3. data.rows = rows \/ data.stale \/ get[Hand] # NoGet
      BY <3>1 DEF Current
    <3>4. \A c \in Callers : Fresh(c)' => get[c].rows = rows \/ get[Hand].pc = "asked"
      BY <1>2, <3>1 DEF Current, Fresh, Asking
    <3> QED BY <1>2, <3>2, <3>3, <3>4 DEF ZipInOrder, Current
  <2>18. Waits' /\ Coming'
    BY <1>2, <2>10 DEF DocsInv, Waits, Armed, Coming
  <2>19. Told'
    <3> SUFFICES ASSUME ~muddled' PROVE Told'
      BY DEF Told
    <3>1. \A c \in Batches : batch[c] = Resting
      BY <1>4, <2>14 DEF PageTypes, IsBatch
    <3>2. \A c \in Batches : batch'[c].failed = {}
      BY <2>8, <2>9, <3>1 DEF Resting
    <3> QED BY <1>2, <2>8, <2>9, <3>2 DEF Told
  <2> QED BY <2>11, <2>12, <2>13, <2>15, <2>16, <2>17, <2>18, <2>19 DEF DocsInv
<1> QED BY <1>5, <1>6

\* Between the presigned address and the completion nothing changes that the page decides by.
LEMMA StageKeeps ==
  ASSUME DocsInv, NEW b \in Batches, NEW pc \in {"put", "complete"}, batch[b].pc \in {"presign", "put"},
         batch' = [batch EXCEPT ![b].pc = pc],
         UNCHANGED <<rows, jobs, zips, data, zip, armed, failed, get, wanted, twice, muddled, hushed, hasty, skewed>>, Noticed
  PROVE  DocsInv'
<1>1. PICK n : n = [batch[b] EXCEPT !.pc = pc]
  OBVIOUS
<1>2. IsBatch(batch[b]) /\ PageTypes
  BY DEF DocsInv, PageTypes
<1>3. PICK bb : bb = batch[b]
  OBVIOUS
<1>4. bb = [pc |-> bb.pc, at |-> bb.at, rest |-> bb.rest, failed |-> bb.failed]
  BY <1>2, <1>3 DEF IsBatch
<1>5. n = [pc |-> pc, at |-> bb.at, rest |-> bb.rest, failed |-> bb.failed]
  BY <1>1, <1>3, <1>4
<1>6. batch' = [batch EXCEPT ![b] = n]
  BY <1>1
<1>7. /\ batch'[b] = n /\ (\A c \in Batches : c # b => batch'[c] = batch[c]) /\ batch' = [c \in Batches |-> batch'[c]]
      /\ n.at = batch[b].at /\ n.rest = batch[b].rest /\ n.failed = batch[b].failed /\ n.pc \in {"put", "complete"}
  BY <1>2, <1>3, <1>5, <1>6, BatchIs
<1>8. IsBatch(n)
  BY <1>2, <1>3, <1>5 DEF IsBatch
<1>9. PageTypes'
  <2>1. \A c \in Batches : IsBatch(batch'[c])
    BY <1>2, <1>7, <1>8 DEF PageTypes
  <2>2. \A c \in Batches : IsBatch(batch[c])'
    BY <2>1 DEF IsBatch
  <2> QED BY <1>2, <1>7, <2>2 DEF PageTypes
<1>10. OneBatch' /\ OnServer'
  BY <1>7, Callers2 DEF DocsInv, OneBatch, OnServer
<1>11. \A c \in Batches : Pending(c)' = Pending(c) /\ ToSend(c)' = ToSend(c) /\ (Asking(c)' <=> Asking(c))
  <2>1. \A c \in Batches : Pending(c)' = Pending(c)
    BY <1>7 DEF Pending
  <2>2. \A c \in Batches : ToSend(c)' = ToSend(c)
    BY <1>7 DEF ToSend
  <2>3. \A c \in Batches : Asking(c)' <=> Asking(c)
    BY <1>7 DEF Asking
  <2> QED BY <2>1, <2>2, <2>3
<1>12. \A c \in Batches : batch'[c].at = batch[c].at /\ batch'[c].rest = batch[c].rest
                          /\ (batch'[c].pc = "answer" <=> batch[c].pc = "answer")
                          /\ (batch'[c].pc = "refresh" <=> batch[c].pc = "refresh")
                          /\ (batch'[c].pc = "idle" <=> batch[c].pc = "idle")
  BY <1>7
<1>13. \A c \in Callers : Fresh(c)' <=> Fresh(c)
  BY DEF Fresh
<1>14. Accounted'
  BY <1>11 DEF DocsInv, Accounted, Noticed
<1>15. Once'
  BY <1>11, <1>12, <1>13 DEF DocsInv, Once, SentOnce
<1>16. ReadInOrder' /\ Waits'
  BY <1>13 DEF DocsInv, ReadInOrder, Waits
<1>17. ZipInOrder => ZipInOrder'
  BY <1>12 DEF ZipInOrder
<1>18. Current => Current'
  BY <1>11, <1>12, <1>13 DEF Current
<1>19. Plain'
  BY <1>17, <1>18 DEF DocsInv, Plain
<1>20. Told' /\ Coming'
  <2>1. \A c \in Batches : batch'[c].failed = batch[c].failed /\ (batch'[c].pc = "idle" <=> batch[c].pc = "idle")
    BY <1>7
  <2> QED BY <2>1, ToldKept DEF DocsInv, Coming
<1> QED BY <1>9, <1>10, <1>14, <1>15, <1>16, <1>19, <1>20 DEF DocsInv

\* Only the batch's place, and what the completion wrote, change.
LEMMA RegisteredKeeps ==
  ASSUME DocsInv, NEW b \in Batches, Registered(b)
  PROVE  DocsInv'
<1> USE Callers2, DocumentsAre
<1>1. PICK n : n = [batch[b] EXCEPT !.pc = "answer"]
  OBVIOUS
<1>2. IsBatch(batch[b]) /\ PageTypes /\ batch[b].pc = "complete"
  BY DEF DocsInv, PageTypes, Registered
<1>3. PICK bb : bb = batch[b]
  OBVIOUS
<1>4. bb = [pc |-> bb.pc, at |-> bb.at, rest |-> bb.rest, failed |-> bb.failed]
  BY <1>2, <1>3 DEF IsBatch
<1>5. n = [pc |-> "answer", at |-> bb.at, rest |-> bb.rest, failed |-> bb.failed]
  BY <1>1, <1>3, <1>4
<1>6. batch' = [batch EXCEPT ![b] = n]
  BY <1>1 DEF Registered
<1>7. /\ batch'[b] = n /\ (\A c \in Batches : c # b => batch'[c] = batch[c]) /\ batch' = [c \in Batches |-> batch'[c]]
      /\ n.at = batch[b].at /\ n.rest = batch[b].rest /\ n.failed = batch[b].failed /\ n.pc = "answer"
  BY <1>2, <1>3, <1>5, <1>6, BatchIs
<1>8. IsBatch(n)
  BY <1>2, <1>3, <1>5 DEF IsBatch
<1>9. UNCHANGED <<zips, data, zip, budget, armed, failed, get, wanted, twice, muddled, hushed, hasty, skewed>> /\ Noticed
  BY DEF Registered, pollVars, talesVars, noteVars, Noticed
<1>10. /\ rows' \in [Documents -> Nat] /\ jobs' \in Nat
       /\ \A f \in Papers : f # batch[b].at => rows'[f] = rows[f]
       /\ \A f \in Papers : rows[f] \in Nat
       /\ batch[b].at \in Papers => rows'[batch[b].at] = rows[batch[b].at] + 1 /\ jobs' = jobs
       /\ batch[b].at = Zip => rows' = rows /\ jobs' = jobs + 1
       /\ batch[b].at # Zip => jobs' = jobs
  <2>1. rows \in [Documents -> Nat] /\ jobs \in Nat /\ batch[b].at \in Chosen
    BY <1>2 DEF PageTypes, IsBatch
  <2>2. CASE batch[b].at = Zip /\ jobs' = jobs + 1 /\ UNCHANGED rows
    BY <2>1, <2>2 DEF Chosen
  <2>3. CASE batch[b].at # Zip /\ rows' = [rows EXCEPT ![batch[b].at] = @ + 1] /\ UNCHANGED jobs
    <3>1. batch[b].at \in Documents
      BY <2>1, <2>3 DEF Chosen
    <3> QED BY <2>1, <2>3, <3>1
  <2> QED BY <2>2, <2>3 DEF Registered
<1>11. PageTypes'
  <2>1. \A c \in Batches : IsBatch(batch'[c])
    BY <1>2, <1>7, <1>8 DEF PageTypes
  <2>2. \A c \in Batches : IsBatch(batch[c])'
    BY <2>1 DEF IsBatch
  <2> QED BY <1>2, <1>7, <1>9, <1>10, <2>2 DEF PageTypes
<1>12. OneBatch'
  BY <1>2, <1>7, <1>9 DEF DocsInv, OneBatch
<1>13. OnServer'
  <2>1. \A f \in Papers : rows[f] > 0 => rows'[f] > 0
    BY <1>10
  <2>2. batch[b].at \in Papers => rows'[batch[b].at] > 0
    BY <1>10
  <2> QED BY <1>2, <1>7, <1>9, <2>1, <2>2 DEF DocsInv, OnServer
<1>14. \A c \in Batches : Pending(c)' = Pending(c) /\ (Asking(c) => Asking(c)') /\ ToSend(c)' \subseteq ToSend(c)
  <2>1. \A c \in Batches : Pending(c)' = Pending(c)
    BY <1>2, <1>7 DEF Pending
  <2>2. \A c \in Batches : Asking(c) => Asking(c)'
    BY <1>2, <1>7, <1>9 DEF Asking
  <2>3. \A c \in Batches : ToSend(c)' \subseteq ToSend(c)
    BY <1>2, <1>7 DEF ToSend
  <2> QED BY <2>1, <2>2, <2>3
<1>15. Accounted'
  <2>1. \A f \in Papers : rows[f] > 0 => rows'[f] > 0
    BY <1>10
  <2> QED BY <1>9, <1>14, <2>1 DEF DocsInv, Accounted, Noticed
<1>16. Asking(b)' /\ batch'[b].at = batch[b].at /\ batch'[b].pc = "answer"
  BY <1>7 DEF Asking
<1>17. \A c \in Callers : Fresh(c)' <=> Fresh(c)
  BY <1>9 DEF Fresh
<1>18. Once'
  <2> SUFFICES ASSUME ~muddled, ~hushed, NEW f \in Papers PROVE SentOnce(f)'
    BY <1>9 DEF Once
  <2>1. SentOnce(f)
    BY DEF DocsInv, Once
  <2>2. CASE f = batch[b].at
    <3>1. rows[f] = 0 \/ f \in twice
      BY <1>2, <2>1, <2>2 DEF SentOnce, ToSend
    <3>2. \A c \in Batches : f \notin ToSend(c)'
      <4>1. \A c \in Batches : c # b => batch[c] = Resting
        BY <1>2 DEF DocsInv, OneBatch, PageTypes, IsBatch
      <4>2. \A c \in Batches : c # b => f \notin ToSend(c)'
        BY <1>7, <4>1 DEF ToSend, Resting
      <4>3. f \notin ToSend(b)'
        BY <1>7, <2>2 DEF ToSend, DocsInv, OnServer
      <4> QED BY <4>2, <4>3
    <3>3. rows'[f] <= 1 \/ f \in twice'
      BY <1>9, <1>10, <2>2, <3>1
    <3>4. batch'[b].at = f
      BY <1>16, <2>2
    <3> QED BY <1>16, <3>2, <3>3, <3>4 DEF SentOnce
  <2>3. CASE f # batch[b].at
    <3>1. rows'[f] = rows[f]
      BY <1>10, <2>3
    <3>2. \A c \in Batches : batch[c].pc \in {"answer", "refresh"} => batch'[c] = batch[c]
      BY <1>2, <1>7
    <3>3. \A c \in Batches : batch'[c].at = batch[c].at
      BY <1>7
    <3> QED BY <1>9, <1>14, <1>17, <2>1, <3>1, <3>2, <3>3 DEF SentOnce
  <2> QED BY <2>2, <2>3
<1>19. ReadInOrder' /\ Waits'
  BY <1>9, <1>17 DEF DocsInv, ReadInOrder, Waits
<1>20. Plain'
  <2> SUFFICES ASSUME ~muddled, ~hushed, ~hasty, ~skewed PROVE ZipInOrder' /\ Current'
    BY <1>9 DEF Plain
  <2>1. ZipInOrder /\ \A c \in Batches : c # b => batch[c].pc = "idle"
    BY <1>2 DEF DocsInv, Plain, OneBatch
  <2>2. zip.busy = "unpacking" => batch[b].at # Zip /\ Zip \notin batch[b].rest
    BY <1>2, <2>1 DEF ZipInOrder
  <2>3. ZipInOrder'
    <3>1. CASE zip.busy = "unpacking"
      <4>1. jobs' = jobs
        BY <1>10, <2>2, <3>1
      <4> QED BY <1>7, <1>9, <2>1, <2>2, <3>1, <4>1 DEF ZipInOrder
    <3>2. CASE zip.busy # "unpacking"
      <4>1. jobs = 0
        BY <1>2, <2>1, <3>2 DEF ZipInOrder
      <4>2. jobs' = 0 \/ (jobs' = 1 /\ batch[b].at = Zip)
        BY <1>10, <4>1
      <4> QED BY <1>9, <1>16, <3>2, <4>2 DEF ZipInOrder
    <3> QED BY <3>1, <3>2
  <2>4. Current'
    BY <1>16 DEF Current
  <2> QED BY <2>3, <2>4
<1>21. Told'
  <2>1. \A c \in Batches : batch'[c].failed = batch[c].failed /\ (batch'[c].pc = "idle" <=> batch[c].pc = "idle")
    BY <1>2, <1>7
  <2> QED BY <1>9, <2>1, ToldKept DEF DocsInv
<1>22. Coming'
  <2>1. jobs > 0 => jobs' > 0
    <3>1. jobs \in Nat /\ (jobs' = jobs \/ jobs' = jobs + 1)
      BY <1>2, <1>10 DEF PageTypes
    <3> QED BY <3>1
  <2> QED BY <1>9, <2>1 DEF DocsInv, Coming
<1> QED BY <1>11, <1>12, <1>13, <1>15, <1>18, <1>19, <1>20, <1>21, <1>22 DEF DocsInv

\* The answer to the completion: the page asks for its list, and waits for the archive it sent.
LEMMA AnsweredKeeps ==
  ASSUME DocsInv, NEW b \in Batches, batch[b].pc = "answer",
         batch' = [batch EXCEPT ![b].pc = "refresh"],
         get' = [get EXCEPT ![b] = [pc |-> "asked"]],
         NEW now \in Nat, zip' = IF batch[b].at = Zip THEN [busy |-> "unpacking", since |-> now] ELSE zip,
         skewed \/ (batch[b].at = Zip /\ now # zips) => skewed',
         hasty' = (hasty \/ (batch[b].at = Zip /\ jobs = 0)),
         armed' = Armed(zip'.busy, PollBudget, data),
         UNCHANGED <<rows, jobs, zips, data, failed, wanted, twice, muddled, hushed>>, Noticed
  PROVE  DocsInv'
<1> USE Callers2, DocumentsAre
<1>1. PICK n : n = [batch[b] EXCEPT !.pc = "refresh"]
  OBVIOUS
<1>2. IsBatch(batch[b]) /\ PageTypes
  BY DEF DocsInv, PageTypes
<1>3. PICK bb : bb = batch[b]
  OBVIOUS
<1>4. bb = [pc |-> bb.pc, at |-> bb.at, rest |-> bb.rest, failed |-> bb.failed]
  BY <1>2, <1>3 DEF IsBatch
<1>5. n = [pc |-> "refresh", at |-> bb.at, rest |-> bb.rest, failed |-> bb.failed]
  BY <1>1, <1>3, <1>4
<1>6. batch' = [batch EXCEPT ![b] = n]
  BY <1>1
<1>7. /\ batch'[b] = n /\ (\A c \in Batches : c # b => batch'[c] = batch[c]) /\ batch' = [c \in Batches |-> batch'[c]]
      /\ n.at = batch[b].at /\ n.rest = batch[b].rest /\ n.failed = batch[b].failed /\ n.pc = "refresh"
  BY <1>2, <1>3, <1>5, <1>6, BatchIs
<1>8. IsBatch(n)
  BY <1>2, <1>3, <1>5 DEF IsBatch
<1>9. PICK g : g = [pc |-> "asked"]
  OBVIOUS
<1>10. /\ get'[b] = g /\ (\A c \in Callers : c # b => get'[c] = get[c]) /\ get' = [c \in Callers |-> get'[c]]
       /\ g.pc = "asked" /\ g # NoGet /\ IsGet(g)
  <2>1. get' = [get EXCEPT ![b] = g]
    BY <1>9
  <2>2. g.pc = "asked" /\ g # NoGet /\ IsGet(g)
    BY <1>9 DEF IsGet, NoGet
  <2> QED BY <1>2, <2>1, <2>2, GetIs
<1>11. /\ zip' = [busy |-> zip'.busy, since |-> zip'.since] /\ zip'.since \in Nat
       /\ batch[b].at = Zip => zip'.busy = "unpacking" /\ zip'.since = now
       /\ batch[b].at # Zip => zip' = zip
  BY <1>2 DEF PageTypes
<1>12. PageTypes'
  <2>1. \A c \in Batches : IsBatch(batch'[c])
    BY <1>2, <1>7, <1>8 DEF PageTypes
  <2>2. \A c \in Batches : IsBatch(batch[c])'
    BY <2>1 DEF IsBatch
  <2>3. \A c \in Callers : IsGet(get'[c])
    BY <1>2, <1>10 DEF PageTypes
  <2>4. \A c \in Callers : IsGet(get[c])'
    BY <2>3 DEF IsGet
  <2> QED BY <1>2, <1>7, <1>10, <1>11, <2>2, <2>4 DEF PageTypes
<1>13. OneBatch'
  BY <1>7 DEF DocsInv, OneBatch
<1>14. OnServer'
  BY <1>7, <1>10 DEF DocsInv, OnServer
<1>15. \A c \in Batches : Pending(c)' = Pending(c) /\ (Asking(c) => Asking(c)') /\ ToSend(c)' \subseteq ToSend(c)
  <2>1. \A c \in Batches : Pending(c)' = Pending(c)
    BY <1>7 DEF Pending
  <2>2. \A c \in Batches : Asking(c) => Asking(c)'
    BY <1>7, <1>10 DEF Asking
  <2>3. \A c \in Batches : ToSend(c)' \subseteq ToSend(c)
    BY <1>7 DEF ToSend
  <2> QED BY <2>1, <2>2, <2>3
<1>16. Accounted'
  BY <1>15 DEF DocsInv, Accounted, Noticed
<1>17. \A c \in Callers : get'[c].pc = "list" => c # b /\ get'[c] = get[c]
  BY <1>10
<1>18. \A c \in Callers : Fresh(c)' => Fresh(c) /\ get'[c] = get[c]
  BY <1>17 DEF Fresh
<1>19. \A c \in Batches : batch[c].pc \in {"answer", "refresh"} =>
         batch'[c].at = batch[c].at /\ batch'[c].pc \in {"answer", "refresh"}
  BY <1>7
<1>20. \A c \in Batches : batch'[c].at = batch[c].at
  BY <1>7
<1>21. Once'
  <2> SUFFICES ASSUME ~muddled, ~hushed, NEW f \in Papers PROVE SentOnce(f)'
    BY DEF Once
  <2>1. SentOnce(f)
    BY DEF DocsInv, Once
  <2>2. \A c \in Callers : Fresh(c)' /\ rows'[f] > 0 =>
          get'[c].rows[f] > 0 \/ \E d \in Batches : batch'[d].at = f /\ Asking(d)'
    BY <1>15, <1>18, <1>20, <2>1 DEF SentOnce
  <2> QED BY <1>15, <1>19, <2>1, <2>2 DEF SentOnce
<1>22. ReadInOrder'
  BY <1>17 DEF DocsInv, ReadInOrder, Fresh
<1>23. Waits'
  BY DEF Waits, Armed
<1>24. Plain'
  <2> SUFFICES ASSUME ~muddled, ~hushed, ~hasty', ~skewed' PROVE ZipInOrder' /\ Current'
    BY DEF Plain
  <2>1. ZipInOrder /\ (batch[b].at = Zip => jobs # 0 /\ now = zips) /\ \A c \in Batches : c # b => batch[c].pc = "idle"
    BY DEF DocsInv, Plain, OneBatch
  <2>2. ZipInOrder'
    <3>1. CASE batch[b].at = Zip
      <4>1. jobs = 1
        BY <2>1, <3>1 DEF ZipInOrder
      <4>2. Zip \notin batch[b].rest
        BY <3>1 DEF DocsInv, OnServer
      <4> QED BY <1>7, <1>11, <2>1, <3>1, <4>1, <4>2 DEF ZipInOrder
    <3>2. CASE batch[b].at # Zip
      <4>1. jobs # 0 => zip.busy = "unpacking"
        BY <2>1, <3>2 DEF ZipInOrder
      <4> QED BY <1>7, <1>11, <2>1, <3>2, <4>1 DEF ZipInOrder
    <3> QED BY <3>1, <3>2
  <2>3. Asking(b)' /\ batch'[b].pc = "refresh"
    BY <1>7, <1>10 DEF Asking
  <2> QED BY <2>2, <2>3 DEF Current
<1>25. Told'
  <2>1. \A c \in Batches : batch'[c].failed = batch[c].failed /\ (batch'[c].pc = "idle" <=> batch[c].pc = "idle")
    BY <1>7
  <2> QED BY <2>1, ToldKept DEF DocsInv
<1>26. Coming'
  <2>1. jobs \in Nat /\ zips \in Nat
    BY <1>2 DEF PageTypes
  <2>2. CASE batch[b].at = Zip
    <3>1. zip'.since = now
      BY <1>11, <2>2
    <3>2. now # zips => skewed'
      BY <2>2
    <3>3. jobs = 0 => hasty'
      BY <2>2
    <3> QED BY <2>1, <3>1, <3>2, <3>3 DEF Coming
  <2>3. CASE batch[b].at # Zip
    <3>1. zip' = zip /\ (hasty => hasty') /\ (skewed => skewed')
      BY <1>11, <2>3
    <3> QED BY <3>1 DEF DocsInv, Coming
  <2> QED BY <2>2, <2>3
<1> QED BY <1>12, <1>13, <1>14, <1>16, <1>21, <1>22, <1>23, <1>24, <1>25, <1>26 DEF DocsInv

\* A list is read: it is the last, and the others on their way are old.
LEMMA ListReadKeeps ==
  ASSUME DocsInv, NEW c \in Callers, ListRead(c)
  PROVE  DocsInv'
<1> USE Callers2
<1>1. PICK g : g = [pc |-> "list", rows |-> rows, read |-> read, zips |-> zips, running |-> running, stale |-> FALSE]
  OBVIOUS
<1>2. PageTypes /\ get[c].pc = "asked" /\ get[c] # NoGet
  BY DEF DocsInv, ListRead, NoGet
<1>3. /\ UNCHANGED <<rows, jobs, zips, data, zip, armed, batch, failed, wanted, twice, muddled, hushed, hasty, skewed>> /\ Noticed
      /\ get' = [d \in Callers |-> IF d = c THEN g
                 ELSE IF get[d].pc = "list" THEN [get[d] EXCEPT !.stale = TRUE] ELSE get[d]]
  BY <1>1 DEF ListRead, serverVars, pollVars, batchVars, talesVars, noteVars, Noticed
<1>4. /\ g.pc = "list" /\ g.rows = rows /\ g.zips = zips /\ ~g.stale
      /\ g = [pc |-> "list", rows |-> g.rows, read |-> g.read, zips |-> g.zips, running |-> g.running, stale |-> g.stale]
  BY <1>1
<1>5. ASSUME NEW d \in Callers, d # c, get[d].pc = "list"
      PROVE  get'[d].pc = "list" /\ get'[d].stale /\ get'[d].zips = get[d].zips /\ IsGet(get'[d])
  <2>1. PICK o : o = get[d]
    OBVIOUS
  <2>2. PICK n : n = [o EXCEPT !.stale = TRUE]
    OBVIOUS
  <2>3. IsGet(o) /\ o # NoGet /\ o # [pc |-> "asked"]
    <3>1. IsGet(get[d])
      BY <1>2, <1>5 DEF PageTypes
    <3>2. o.pc = "list"
      BY <1>5, <2>1
    <3> QED BY <2>1, <3>1, <3>2 DEF NoGet
  <2>4. /\ o = [pc |-> "list", rows |-> o.rows, read |-> o.read, zips |-> o.zips, running |-> o.running, stale |-> o.stale]
        /\ o.zips \in Nat
    BY <2>3 DEF IsGet
  <2>5. n = [pc |-> "list", rows |-> o.rows, read |-> o.read, zips |-> o.zips, running |-> o.running, stale |-> TRUE]
    <3>1. DOMAIN o = {"pc", "rows", "read", "zips", "running", "stale"} /\ o.pc = "list"
      BY <2>4
    <3>2. n = [x \in {"pc", "rows", "read", "zips", "running", "stale"} |-> n[x]]
      BY <2>2, <3>1
    <3>3. /\ n.pc = "list" /\ n.rows = o.rows /\ n.read = o.read /\ n.zips = o.zips /\ n.running = o.running
          /\ n.stale = TRUE
      BY <2>2, <3>1
    <3> QED BY <3>2, <3>3
  <2>6. get'[d] = n
    BY <1>3, <1>5, <2>1, <2>2
  <2>7. IsGet(n) /\ n.pc = "list" /\ n.stale /\ n.zips = o.zips
    BY <2>4, <2>5 DEF IsGet
  <2> QED BY <2>1, <2>6, <2>7
<1>6. ASSUME NEW d \in Callers, d # c, get[d].pc # "list"
      PROVE  get'[d] = get[d]
  BY <1>3, <1>6
<1>7. get'[c] = g /\ get' = [d \in Callers |-> get'[d]]
  BY <1>3
<1>8. PageTypes'
  <2>1. IsGet(g)
    BY <1>2, <1>4 DEF IsGet, PageTypes
  <2>2. \A d \in Callers : IsGet(get'[d])
    BY <1>2, <1>5, <1>6, <1>7, <2>1 DEF PageTypes
  <2>3. \A d \in Callers : IsGet(get[d])'
    BY <2>2 DEF IsGet
  <2>4. \A b \in Batches : IsBatch(batch[b])'
    BY <1>2, <1>3 DEF PageTypes, IsBatch
  <2> QED BY <1>2, <1>3, <1>7, <2>3, <2>4 DEF PageTypes
<1>9. \A d \in Callers : (get'[d] = NoGet <=> get[d] = NoGet) /\ (d # c /\ get[d].pc = "asked" => get'[d].pc = "asked")
  <2>1. ASSUME NEW d \in Callers, d # c, get[d].pc = "list" PROVE get'[d] # NoGet /\ get[d] # NoGet
    BY <1>5, <2>1 DEF NoGet
  <2>2. g # NoGet
    BY <1>4 DEF NoGet
  <2> QED BY <1>2, <1>6, <1>7, <2>1, <2>2
<1>10. \A d \in Callers : Fresh(d)' => d = c
  BY <1>5, <1>6 DEF Fresh
<1>11. OneBatch' /\ OnServer' /\ Accounted'
  BY <1>3, <1>9 DEF DocsInv, OneBatch, OnServer, Accounted, Pending, Noticed
<1>12. Once'
  <2> SUFFICES ASSUME ~muddled, ~hushed, NEW f \in Papers PROVE SentOnce(f)'
    BY <1>3 DEF Once
  <2>1. SentOnce(f)
    BY DEF DocsInv, Once
  <2>2. \A d \in Callers : Fresh(d)' => get'[d].rows = rows'
    BY <1>3, <1>4, <1>7, <1>10
  <2>3. \A b \in Batches : ToSend(b)' = ToSend(b)
    BY <1>3 DEF ToSend
  <2> QED BY <1>3, <2>1, <2>2, <2>3 DEF SentOnce
<1>13. ReadInOrder'
  <2>1. \A d \in Callers : get'[d].pc = "list" => get'[d].zips <= zips'
    <3>1. \A d \in Callers : get[d].pc = "list" => get[d].zips <= zips
      BY DEF DocsInv, ReadInOrder
    <3>2. zips \in Nat
      BY <1>2 DEF PageTypes
    <3>3. ASSUME NEW d \in Callers, d # c, get'[d].pc = "list" PROVE get'[d].zips <= zips
      <4>1. get[d].pc = "list"
        BY <1>6, <3>3
      <4>2. get'[d].zips = get[d].zips
        BY <1>5, <3>3, <4>1
      <4> QED BY <3>1, <4>1, <4>2
    <3>4. get'[c].zips <= zips /\ zips' = zips
      BY <1>3, <1>4, <1>7, <3>2
    <3> QED BY <3>3, <3>4
  <2> QED BY <1>3, <1>4, <1>7, <1>10, <2>1 DEF ReadInOrder
<1>14. Plain'
  <2>1. ZipInOrder => ZipInOrder'
    BY <1>3 DEF ZipInOrder
  <2>2. Current => Current'
    <3>1. \A d \in Callers : Fresh(d)' => get'[d].rows = rows'
      BY <1>3, <1>4, <1>7, <1>10
    <3>2. get[Hand] # NoGet => get'[Hand] # NoGet
      BY <1>9
    <3> QED BY <1>3, <3>1, <3>2 DEF Current
  <2> QED BY <1>3, <2>1, <2>2 DEF DocsInv, Plain
<1>15. Waits'
  BY <1>3, <1>9 DEF DocsInv, Waits
<1>16. Told' /\ Coming'
  BY <1>3, ToldKept DEF DocsInv, Coming
<1> QED BY <1>8, <1>11, <1>12, <1>13, <1>14, <1>15, <1>16 DEF DocsInv

\* The poll, and a button, ask for the list: nothing there is changes, and nothing is shown yet.
LEMMA AsksKeeps ==
  ASSUME DocsInv, NEW c \in {Hand, Timer}, get[c] = NoGet, get' = [get EXCEPT ![c] = [pc |-> "asked"]],
         UNCHANGED <<rows, jobs, zips, data, zip, batch, failed, wanted, twice, muddled, hushed, hasty, skewed>>, Noticed,
         armed' = armed \/ c = Timer
  PROVE  DocsInv'
<1> USE Callers2
<1>1. PICK g : g = [pc |-> "asked"]
  OBVIOUS
<1>2. PageTypes
  BY DEF DocsInv
<1>3. g.pc = "asked" /\ g # NoGet /\ IsGet(g)
  BY <1>1 DEF NoGet, IsGet
<1>4. get'[c] = g /\ (\A d \in Callers : d # c => get'[d] = get[d]) /\ get' = [d \in Callers |-> get'[d]]
  <2>1. get' = [get EXCEPT ![c] = g]
    BY <1>1
  <2> QED BY <1>2, <2>1, GetIs
<1>5. PageTypes'
  <2>1. \A d \in Callers : IsGet(get'[d])
    BY <1>2, <1>3, <1>4 DEF PageTypes
  <2>2. \A d \in Callers : IsGet(get[d])'
    BY <2>1 DEF IsGet
  <2>3. \A b \in Batches : IsBatch(batch[b])'
    BY <1>2 DEF PageTypes, IsBatch
  <2> QED BY <1>2, <1>4, <2>2, <2>3 DEF PageTypes
<1>6. \A b \in Batches : get'[b] = get[b]
  BY <1>4
<1>7. \A d \in Callers : get'[d].pc = "list" => get'[d] = get[d]
  BY <1>3, <1>4
<1>8. \A d \in Callers : Fresh(d)' => Fresh(d) /\ get'[d] = get[d]
  BY <1>7 DEF Fresh
<1>9. OneBatch' /\ OnServer' /\ Accounted'
  BY <1>6 DEF DocsInv, OneBatch, OnServer, Accounted, Pending, Noticed
<1>10. \A b \in Batches : (Asking(b)' <=> Asking(b)) /\ ToSend(b)' = ToSend(b)
  BY <1>6 DEF Asking, ToSend
<1>11. Once'
  <2> SUFFICES ASSUME ~muddled, ~hushed, NEW f \in Papers PROVE SentOnce(f)'
    BY DEF Once
  <2>1. SentOnce(f)
    BY DEF DocsInv, Once
  <2>2. \A d \in Callers : Fresh(d)' /\ rows'[f] > 0 =>
          get'[d].rows[f] > 0 \/ \E b \in Batches : batch'[b].at = f /\ Asking(b)'
    BY <1>8, <1>10, <2>1 DEF SentOnce
  <2> QED BY <1>10, <2>1, <2>2 DEF SentOnce
<1>12. ReadInOrder'
  BY <1>7 DEF DocsInv, ReadInOrder, Fresh
<1>13. Plain'
  <2>1. ZipInOrder => ZipInOrder'
    BY DEF ZipInOrder
  <2>2. Current => Current'
    <3>1. (get[Hand] # NoGet => get'[Hand] # NoGet) /\ (get[Hand].pc = "asked" => get'[Hand].pc = "asked")
      BY <1>3, <1>4
    <3> QED BY <1>8, <1>10, <3>1 DEF Current
  <2> QED BY <2>1, <2>2 DEF DocsInv, Plain
<1>14. Waits'
  BY <1>3, <1>4 DEF DocsInv, Waits
<1>15. Told' /\ Coming'
  BY ToldKept DEF DocsInv, Coming
<1> QED BY <1>5, <1>9, <1>11, <1>12, <1>13, <1>14, <1>15 DEF DocsInv

\* A button's or the poll's refresh fails: an answer the page waited for never came.
LEMMA RefreshLost ==
  ASSUME DocsInv, NEW c \in {Hand, Timer}, get' = [get EXCEPT ![c] = NoGet], hushed',
         UNCHANGED <<rows, jobs, zips, data, zip, batch, failed, wanted, twice, muddled, hasty, skewed>>, Noticed
  PROVE  DocsInv'
<1> USE Callers2
<1>1. PICK g : g = NoGet
  OBVIOUS
<1>2. PageTypes
  BY DEF DocsInv
<1>3. g.pc # "list" /\ IsGet(g)
  BY <1>1 DEF NoGet, IsGet
<1>4. get'[c] = g /\ (\A d \in Callers : d # c => get'[d] = get[d]) /\ get' = [d \in Callers |-> get'[d]]
  <2>1. get' = [get EXCEPT ![c] = g]
    BY <1>1
  <2> QED BY <1>2, <2>1, GetIs
<1>5. PageTypes'
  <2>1. \A d \in Callers : IsGet(get'[d])
    BY <1>2, <1>3, <1>4 DEF PageTypes
  <2>2. \A d \in Callers : IsGet(get[d])'
    BY <2>1 DEF IsGet
  <2>3. \A b \in Batches : IsBatch(batch[b])'
    BY <1>2 DEF PageTypes, IsBatch
  <2> QED BY <1>2, <1>4, <2>2, <2>3 DEF PageTypes
<1>6. \A b \in Batches : get'[b] = get[b]
  BY <1>4
<1>7. \A d \in Callers : get'[d].pc = "list" => get'[d] = get[d]
  BY <1>3, <1>4
<1>8. OneBatch' /\ OnServer' /\ Accounted'
  BY <1>6 DEF DocsInv, OneBatch, OnServer, Accounted, Pending, Noticed
<1>9. ReadInOrder'
  BY <1>7 DEF DocsInv, ReadInOrder, Fresh
<1>10. Once' /\ Plain' /\ Waits'
  BY DEF Once, Plain, Waits
<1>11. Told' /\ Coming'
  BY ToldKept DEF DocsInv, Coming
<1> QED BY <1>5, <1>8, <1>9, <1>10, <1>11 DEF DocsInv

\* A removal is possible only when no batch and no archive is under way, and asks again.
LEMMA RemoveFilesKeeps ==
  ASSUME DocsInv, NEW gone, RemoveFiles(gone)
  PROVE  DocsInv'
<1> USE Callers2, DocumentsAre
<1>1. /\ PageTypes /\ zip.busy = "no" /\ get[Hand] = NoGet
      /\ \A b \in Batches : batch[b].pc = "idle" /\ batch[b] = Resting
  <2>1. PageTypes /\ zip.busy = "no" /\ get[Hand] = NoGet /\ \A b \in Batches : batch[b].pc = "idle"
    BY DEF DocsInv, RemoveFiles, CanRemove, Busy, Active
  <2> QED BY <2>1 DEF PageTypes, IsBatch
<1>2. UNCHANGED <<jobs, zips, data, zip, armed, batch, failed, twice, muddled, hasty, skewed>> /\ wanted' = wanted \ gone
  BY DEF RemoveFiles, pollVars
<1>3. /\ rows' \in [Documents -> Nat]
      /\ \A f \in Documents : rows'[f] <= rows[f] /\ (f \notin gone => rows'[f] = rows[f]) /\ rows[f] \in Nat /\ rows'[f] \in Nat
  <2>1. rows \in [Documents -> Nat]
    BY <1>1 DEF PageTypes
  <2>2. UNCHANGED rows \/ rows' = [d \in Documents |-> IF d \in gone /\ rows[d] > 0 THEN rows[d] - 1 ELSE rows[d]]
    BY DEF RemoveFiles, Removed
  <2> QED BY <2>1, <2>2
<1>6. Noticed
  BY DEF RemoveFiles, Says, Failures, Noticed
<1>7. Told' /\ Coming'
  BY <1>2, <1>6, ToldKept DEF DocsInv, Coming
<1>4. CASE Asks(Hand) /\ UNCHANGED hushed
  <2>1. PICK g : g = [pc |-> "asked"]
    OBVIOUS
  <2>2. g.pc = "asked" /\ g # NoGet /\ IsGet(g)
    BY <2>1 DEF NoGet, IsGet
  <2>3. get'[Hand] = g /\ (\A d \in Callers : d # Hand => get'[d] = get[d]) /\ get' = [d \in Callers |-> get'[d]]
    <3>1. get' = [get EXCEPT ![Hand] = g]
      BY <1>4, <2>1 DEF Asks
    <3> QED BY <1>1, <3>1, GetIs
  <2>4. PageTypes'
    <3>1. \A d \in Callers : IsGet(get'[d])
      BY <1>1, <2>2, <2>3 DEF PageTypes
    <3>2. \A d \in Callers : IsGet(get[d])'
      BY <3>1 DEF IsGet
    <3>3. \A b \in Batches : IsBatch(batch[b])'
      BY <1>1, <1>2 DEF PageTypes, IsBatch
    <3> QED BY <1>1, <1>2, <1>3, <2>3, <3>2, <3>3 DEF PageTypes
  <2>5. OneBatch' /\ OnServer'
    BY <1>1, <1>2, <2>3 DEF DocsInv, OneBatch, OnServer
  <2>6. Accounted'
    <3>1. \A f \in wanted' \cap Papers : f \in wanted /\ rows'[f] = rows[f]
      BY <1>2, <1>3
    <3> QED BY <1>2, <1>6, <3>1 DEF DocsInv, Accounted, Pending, Noticed
  <2>7. \A d \in Callers : get'[d].pc = "list" => get'[d] = get[d]
    BY <2>2, <2>3
  <2>8. Once'
    <3> SUFFICES ASSUME ~muddled, ~hushed, NEW f \in Papers PROVE SentOnce(f)'
      BY <1>2, <1>4 DEF Once
    <3>1. SentOnce(f)
      BY DEF DocsInv, Once
    <3>2. rows'[f] > 0 => rows[f] > 0
      BY <1>3
    <3>3. \A d \in Callers : Fresh(d)' /\ rows'[f] > 0 => get'[d].rows[f] > 0
      BY <1>1, <2>7, <3>1, <3>2 DEF SentOnce, Fresh, Asking
    <3>4. rows'[f] > 0 => data'.rows[f] > 0 \/ data'.stale
      BY <1>1, <1>2, <3>1, <3>2 DEF SentOnce
    <3>5. rows'[f] <= 1 \/ f \in twice'
      BY <1>2, <1>3, <3>1 DEF SentOnce
    <3>6. \A b \in Batches : f \notin ToSend(b)'
      BY <1>1, <1>2 DEF ToSend, Resting
    <3> QED BY <3>3, <3>4, <3>5, <3>6 DEF SentOnce
  <2>9. ReadInOrder'
    BY <1>2, <2>7 DEF DocsInv, ReadInOrder, Fresh
  <2>10. Plain'
    <3>1. ZipInOrder => ZipInOrder'
      BY <1>2 DEF ZipInOrder
    <3>2. Current'
      BY <2>2, <2>3 DEF Current
    <3> QED BY <1>2, <1>4, <3>1, <3>2 DEF DocsInv, Plain
  <2>11. Waits'
    BY <1>1, <1>2 DEF Waits
  <2> QED BY <1>7, <2>4, <2>5, <2>6, <2>8, <2>9, <2>10, <2>11 DEF DocsInv
<1>5. CASE hushed' /\ UNCHANGED get
  <2>1. PageTypes'
    <3>1. \A d \in Callers : IsGet(get[d])'
      BY <1>1, <1>5 DEF PageTypes, IsGet
    <3>2. \A b \in Batches : IsBatch(batch[b])'
      BY <1>1, <1>2 DEF PageTypes, IsBatch
    <3> QED BY <1>1, <1>2, <1>3, <1>5, <3>1, <3>2 DEF PageTypes
  <2>2. OneBatch' /\ OnServer'
    BY <1>1, <1>2, <1>5 DEF DocsInv, OneBatch, OnServer
  <2>3. Accounted'
    <3>1. \A f \in wanted' \cap Papers : f \in wanted /\ rows'[f] = rows[f]
      BY <1>2, <1>3
    <3> QED BY <1>2, <1>6, <3>1 DEF DocsInv, Accounted, Pending, Noticed
  <2>4. ReadInOrder'
    BY <1>2, <1>5 DEF DocsInv, ReadInOrder, Fresh
  <2>5. Once' /\ Plain' /\ Waits'
    BY <1>5 DEF Once, Plain, Waits
  <2> QED BY <1>7, <2>1, <2>2, <2>3, <2>4, <2>5 DEF DocsInv
<1> QED BY <1>4, <1>5 DEF RemoveFiles

\* The archive unpacks, behind the page's back: its summary is newer than any list.
LEMMA UnpackKeeps ==
  ASSUME DocsInv, Unpack
  PROVE  DocsInv'
<1> USE Callers2, DocumentsAre
<1>1. PageTypes /\ jobs \in Nat /\ zips \in Nat /\ jobs > 0 /\ jobs' = jobs - 1 /\ zips' = zips + 1
  BY DEF DocsInv, PageTypes, Unpack
<1>2. UNCHANGED <<data, zip, armed, batch, failed, get, wanted, twice, muddled, hushed, hasty, skewed>> /\ Noticed
  BY DEF Unpack, pollVars, batchVars, talesVars, noteVars, Noticed
<1>3. rows' \in [Documents -> Nat] /\ \A f \in Papers : rows'[f] = rows[f]
  <2>1. rows \in [Documents -> Nat] /\ rows' = [rows EXCEPT ![Inside] = @ + 1]
    BY <1>1 DEF PageTypes, Unpack
  <2> QED BY <2>1
<1>4. PageTypes'
  <2>1. \A d \in Callers : IsGet(get[d])'
    BY <1>1, <1>2 DEF PageTypes, IsGet
  <2>2. \A b \in Batches : IsBatch(batch[b])'
    BY <1>1, <1>2 DEF PageTypes, IsBatch
  <2>3. jobs' \in Nat /\ zips' \in Nat
    BY <1>1
  <2>4. DOMAIN data' = {"rows", "read", "zips", "running", "stale"} /\ batch' = [b \in Batches |-> batch'[b]]
        /\ get' = [c \in Callers |-> get'[c]] /\ zip' = [busy |-> zip'.busy, since |-> zip'.since] /\ zip'.since \in Nat
    BY <1>1, <1>2 DEF PageTypes
  <2> QED BY <1>3, <2>1, <2>2, <2>3, <2>4 DEF PageTypes
<1>5. OneBatch' /\ OnServer' /\ Accounted'
  BY <1>2, <1>3 DEF DocsInv, OneBatch, OnServer, Accounted, Pending, Noticed
<1>6. Once'
  BY <1>2, <1>3 DEF DocsInv, Once, SentOnce, Fresh, Asking, ToSend
<1>7. \A c \in Callers : get[c].pc = "list" => get[c].zips <= zips /\ get[c].zips \in Nat
  BY <1>1, ListIs DEF DocsInv, ReadInOrder
<1>8. ReadInOrder'
  BY <1>1, <1>2, <1>7 DEF DocsInv, ReadInOrder, Fresh
<1>9. Plain'
  <2> SUFFICES ASSUME ~muddled, ~hushed, ~hasty, ~skewed PROVE ZipInOrder' /\ Current'
    BY <1>2 DEF Plain
  <2>1. ZipInOrder
    BY DEF DocsInv, Plain
  <2>2. CASE zip.busy = "unpacking"
    <3>1. jobs = 1 /\ zips = zip.since
      BY <1>1, <2>1, <2>2 DEF ZipInOrder
    <3>2. ZipInOrder'
      BY <1>1, <1>2, <2>1, <2>2, <3>1 DEF ZipInOrder
    <3>3. Current'
      BY <1>2, <1>7, <2>2, <3>1 DEF Current, Fresh
    <3> QED BY <3>2, <3>3
  <2>3. CASE zip.busy # "unpacking"
    <3>1. jobs = 1 /\ \E b \in Batches : batch[b].at = Zip /\ batch[b].pc = "answer"
      BY <1>1, <2>1, <2>3 DEF ZipInOrder
    <3>2. ZipInOrder'
      BY <1>1, <1>2, <2>3, <3>1 DEF ZipInOrder
    <3>3. Current'
      BY <1>2, <3>1 DEF Current, Asking
    <3> QED BY <3>2, <3>3
  <2> QED BY <2>2, <2>3
<1>10. Waits'
  BY <1>2 DEF DocsInv, Waits
<1>11. Told'
  BY <1>2, ToldKept DEF DocsInv
<1>12. Coming'
  <2>1. zip.since \in Nat
    BY <1>1 DEF PageTypes
  <2> QED BY <1>1, <1>2, <2>1 DEF DocsInv, Coming
<1> QED BY <1>4, <1>5, <1>6, <1>8, <1>9, <1>10, <1>11, <1>12 DEF DocsInv

LEMMA UnpackFailsKeeps ==
  ASSUME DocsInv, UnpackFails
  PROVE  DocsInv'
<1>1. PageTypes /\ jobs' \in Nat /\ hasty'
  BY DEF DocsInv, PageTypes, UnpackFails
<1>2. UNCHANGED <<rows, zips, data, zip, armed, batch, failed, get, wanted, twice, muddled, hushed>> /\ Noticed
  BY DEF UnpackFails, pollVars, batchVars, noteVars, Noticed
<1>3. PageTypes'
  <2>1. \A d \in Callers : IsGet(get[d])'
    BY <1>1, <1>2 DEF PageTypes, IsGet
  <2>2. \A b \in Batches : IsBatch(batch[b])'
    BY <1>1, <1>2 DEF PageTypes, IsBatch
  <2> QED BY <1>1, <1>2, <2>1, <2>2 DEF PageTypes
<1>4. OneBatch' /\ OnServer' /\ Accounted'
  BY <1>2 DEF DocsInv, OneBatch, OnServer, Accounted, Pending, Noticed
<1>5. Once'
  BY <1>2 DEF DocsInv, Once, SentOnce, Fresh, Asking, ToSend
<1>6. ReadInOrder' /\ Waits'
  BY <1>2 DEF DocsInv, ReadInOrder, Fresh, Waits
<1>7. Plain'
  BY <1>1 DEF Plain
<1>8. Told' /\ Coming'
  BY <1>1, <1>2, ToldKept DEF DocsInv, Coming
<1> QED BY <1>3, <1>4, <1>5, <1>6, <1>7, <1>8 DEF DocsInv

\* What documents have been read, a cancel between two requests and the start of the review
\* are not what a file is accounted for by.
LEMMA PageFrame ==
  ASSUME DocsInv,
         UNCHANGED <<rows, jobs, zips, data, zip, armed, batch, failed, get, wanted, twice, muddled, hushed, hasty, skewed>>, Noticed
  PROVE  DocsInv'
<1>1. PageTypes'
  <2>1. \A d \in Callers : IsGet(get[d])'
    BY DEF DocsInv, PageTypes, IsGet
  <2>2. \A b \in Batches : IsBatch(batch[b])'
    BY DEF DocsInv, PageTypes, IsBatch
  <2> QED BY <2>1, <2>2 DEF DocsInv, PageTypes
<1>2. OneBatch' /\ OnServer' /\ Accounted'
  BY DEF DocsInv, OneBatch, OnServer, Accounted, Pending, Noticed
<1>3. Once'
  BY DEF DocsInv, Once, SentOnce, Fresh, Asking, ToSend
<1>4. ReadInOrder' /\ Waits' /\ Plain'
  BY DEF DocsInv, ReadInOrder, Fresh, Waits, Plain, ZipInOrder, Current, Asking
<1>5. Told' /\ Coming'
  BY ToldKept DEF DocsInv, Coming
<1> QED BY <1>1, <1>2, <1>3, <1>4, <1>5 DEF DocsInv

LEMMA PageStarts == ASSUME PageInit PROVE DocsInv
<1> USE Callers2, DocumentsAre
<1>1. PICK n : n = Resting
  OBVIOUS
<1>2. PICK g : g = NoGet
  OBVIOUS
<1>3. /\ \A b \in Batches : batch[b] = n
      /\ \A c \in Callers : get[c] = g
      /\ batch = [b \in Batches |-> batch[b]] /\ get = [c \in Callers |-> get[c]]
  BY <1>1, <1>2 DEF PageInit
<1>4. n.pc = "idle" /\ n.at = Zip /\ n.rest = {} /\ n.failed = {} /\ IsBatch(n)
  BY <1>1 DEF Resting, IsBatch, Chosen
<1>5. g.pc = "none" /\ IsGet(g)
  BY <1>2 DEF NoGet, IsGet
<1>6. \A d \in Documents : rows[d] = 0
  BY DEF PageInit, None
<1>7. PageTypes
  <2>1. \A b \in Batches : IsBatch(batch[b])
    BY <1>3, <1>4
  <2>2. \A c \in Callers : IsGet(get[c])
    BY <1>3, <1>5
  <2>3. rows \in [Documents -> Nat] /\ jobs \in Nat /\ zips \in Nat
    BY DEF PageInit, None
  <2>4. DOMAIN data = {"rows", "read", "zips", "running", "stale"}
    BY DEF PageInit
  <2>5. zip = [busy |-> zip.busy, since |-> zip.since] /\ zip.since \in Nat
    BY DEF PageInit
  <2> QED BY <1>3, <2>1, <2>2, <2>3, <2>4, <2>5 DEF PageTypes
<1>8. data.rows = rows
  BY DEF PageInit
<1>9. zip.busy = "no" /\ jobs = 0 /\ wanted = {}
  BY DEF PageInit
<1>10. OneBatch /\ OnServer /\ Accounted
  BY <1>2, <1>3, <1>4, <1>9 DEF OneBatch, OnServer, Accounted
<1>11. Once
  <2> SUFFICES ASSUME NEW f \in Papers PROVE SentOnce(f)
    BY DEF Once
  <2>1. rows[f] = 0
    BY <1>6
  <2> QED BY <2>1 DEF SentOnce
<1>12. ReadInOrder /\ Plain /\ Waits
  <2>1. \A c \in Callers : get[c].pc # "list"
    BY <1>3, <1>5
  <2> QED BY <1>8, <1>9, <2>1 DEF ReadInOrder, Plain, Waits, ZipInOrder, Current, Fresh
<1>13. Told /\ Coming
  BY <1>3, <1>4, <1>9 DEF PageInit, Told, Coming
<1> QED BY <1>7, <1>10, <1>11, <1>12, <1>13 DEF DocsInv

\* A request of an upload that fails before it is known to be on the server, and one that
\* fails, or is lost, after.
LEMMA UploadLost ==
  ASSUME DocsInv, NEW b \in Batches, NEW stop, UploadFails(b, stop),
         \/ batch[b].pc \in {"presign", "put", "complete"} /\ UNCHANGED <<get, hushed>>
         \/ batch[b].pc # "idle" /\ get' = [get EXCEPT ![b] = NoGet] /\ hushed',
         UNCHANGED <<rows, jobs, zips, data, wanted, twice, muddled, hasty, skewed>>
  PROVE  DocsInv'
<1>1. PICK g : g = NoGet
  OBVIOUS
<1>2. PageTypes
  BY DEF DocsInv
<1>3. CASE batch[b].pc \in {"presign", "put", "complete"} /\ UNCHANGED <<get, hushed>>
  <2>1. get'[b] = NoGet
    BY <1>3 DEF DocsInv, OnServer
  <2>2. get' = [c \in Callers |-> get'[c]]
    BY <1>2, <1>3 DEF PageTypes
  <2> QED BY <1>3, <2>1, <2>2, UploadFailsKeep
<1>4. CASE batch[b].pc # "idle" /\ get' = [get EXCEPT ![b] = NoGet] /\ hushed'
  <2>1. get' = [get EXCEPT ![b] = g] /\ b \in Callers
    BY <1>1, <1>4, Callers2
  <2>2. get'[b] = g /\ (\A c \in Callers : c # b => get'[c] = get[c]) /\ get' = [c \in Callers |-> get'[c]]
    BY <1>2, <2>1, GetIs
  <2> QED BY <1>1, <1>4, <2>2, UploadFailsKeep
<1> QED BY <1>3, <1>4

LEMMA PageStep == ASSUME DocsInv, PageNext \/ UNCHANGED docVars PROVE DocsInv'
<1>1. ASSUME NEW b \in Batches, NEW chosen \in SUBSET (Papers \cup {Zip}), NEW no, ChooseFiles(b, chosen, no)
      PROVE  DocsInv'
  BY <1>1, ChooseFilesKeeps DEF Chosen
<1>2. ASSUME NEW b \in Batches, Presign(b) PROVE DocsInv'
  <2>1. /\ batch[b].pc = "presign" /\ UNCHANGED <<rows, jobs, zips, data, get, wanted, twice, muddled, hushed, hasty, skewed>>
        /\ (batch' = [batch EXCEPT ![b].pc = "put"] /\ UNCHANGED <<zip, armed, failed>> /\ Noticed) \/ UploadFails(b, cancelled)
    BY <1>2 DEF Presign, serverVars, talesVars, noteVars, Noticed
  <2>2. CASE batch' = [batch EXCEPT ![b].pc = "put"] /\ UNCHANGED <<zip, armed, failed>> /\ Noticed
    BY <2>1, <2>2, StageKeeps
  <2>3. CASE UploadFails(b, cancelled)
    BY <2>1, <2>3, UploadLost
  <2> QED BY <2>1, <2>2, <2>3
<1>3. ASSUME NEW b \in Batches, PutEnds(b) PROVE DocsInv'
  <2>1. /\ batch[b].pc = "put" /\ UNCHANGED <<rows, jobs, zips, data, get, wanted, twice, muddled, hushed, hasty, skewed>>
        /\ (batch' = [batch EXCEPT ![b].pc = "complete"] /\ UNCHANGED <<zip, armed, failed>> /\ Noticed) \/ UploadFails(b, cancelled)
    BY <1>3 DEF PutEnds, serverVars, talesVars, noteVars, Noticed
  <2>2. CASE batch' = [batch EXCEPT ![b].pc = "complete"] /\ UNCHANGED <<zip, armed, failed>> /\ Noticed
    BY <2>1, <2>2, StageKeeps
  <2>3. CASE UploadFails(b, cancelled)
    BY <2>1, <2>3, UploadLost
  <2> QED BY <2>1, <2>2, <2>3
<1>4. ASSUME NEW b \in Batches, Registered(b) PROVE DocsInv'
  BY <1>4, RegisteredKeeps
<1>5. ASSUME NEW b \in Batches, CompleteFails(b) PROVE DocsInv'
  <2>1. /\ batch[b].pc = "complete" /\ UploadFails(b, cancelled)
        /\ UNCHANGED <<rows, jobs, zips, data, get, wanted, twice, muddled, hushed, hasty, skewed>>
    BY <1>5 DEF CompleteFails, serverVars, talesVars
  <2> QED BY <2>1, UploadLost
<1>6. ASSUME NEW b \in Batches, Completed(b) PROVE DocsInv'
  <2>1. batch[b].pc = "answer" /\ UNCHANGED <<rows, jobs, zips, data, wanted, twice, muddled>>
    BY <1>6 DEF Completed, serverVars
  <2>2. CASE UploadFails(b, cancelled) /\ hushed' = TRUE /\ UNCHANGED <<get, budget, hasty, skewed>>
    <3>1. get'[b] = NoGet /\ get' = [c \in Callers |-> get'[c]]
      BY <2>1, <2>2 DEF DocsInv, OnServer, PageTypes
    <3> QED BY <2>1, <2>2, <3>1, UploadFailsKeep
  <2>3. CASE /\ batch' = [batch EXCEPT ![b].pc = "refresh"]
             /\ get' = [get EXCEPT ![b] = [pc |-> "asked"]]
             /\ IF batch[b].at = Zip
                THEN \E now \in BrowserNow :
                       zip' = [busy |-> "unpacking", since |-> now] /\ skewed' = (skewed \/ now # zips)
                ELSE UNCHANGED <<zip, skewed>>
             /\ hasty' = (hasty \/ (batch[b].at = Zip /\ jobs = 0))
             /\ armed' = Armed(zip'.busy, PollBudget, data)
             /\ UNCHANGED <<failed, hushed, error, progress, passedOver>>
    <3>1. Noticed
      BY <2>3 DEF Noticed
    <3>2. PICK now \in Nat :
            /\ zip' = IF batch[b].at = Zip THEN [busy |-> "unpacking", since |-> now] ELSE zip
            /\ skewed \/ (batch[b].at = Zip /\ now # zips) => skewed'
      <4>1. BrowserNow \subseteq Nat
        BY DEF BrowserNow
      <4> QED BY <2>3, <4>1
    <3> QED BY <2>1, <2>3, <3>1, <3>2, AnsweredKeeps
  <2> QED BY <1>6, <2>2, <2>3 DEF Completed, noteVars
<1>7. ASSUME NEW c \in Callers, ListRead(c) PROVE DocsInv'
  BY <1>7, ListReadKeeps
<1>8. ASSUME NEW c \in Callers, ListShown(c) PROVE DocsInv'
  BY <1>8, ListShownKeeps
<1>9. ASSUME NEW c \in Callers, RefreshFails(c) PROVE DocsInv'
  <2>1. /\ get[c] # NoGet /\ get' = [get EXCEPT ![c] = NoGet] /\ hushed'
        /\ UNCHANGED <<rows, jobs, zips, data, wanted, twice, muddled, hasty, skewed>>
    BY <1>9 DEF RefreshFails, serverVars
  <2>2. CASE c \in Batches
    <3>1. UploadFails(c, cancelled) /\ batch[c].pc # "idle"
      BY <1>9, <2>1, <2>2 DEF RefreshFails, DocsInv, OnServer
    <3> QED BY <2>1, <2>2, <3>1, UploadLost
  <2>3. CASE c \notin Batches
    <3>1. UNCHANGED <<zip, batch, failed>> /\ Noticed /\ c \in {Hand, Timer}
      BY <1>9, <2>3, Callers2 DEF RefreshFails, noteVars, Noticed
    <3> QED BY <2>1, <3>1, RefreshLost
  <2> QED BY <2>2, <2>3
<1>10. ASSUME Poll PROVE DocsInv'
  <2>1. /\ get[Timer] = NoGet /\ get' = [get EXCEPT ![Timer] = [pc |-> "asked"]]
        /\ UNCHANGED <<rows, jobs, zips, data, zip, batch, failed, wanted, twice, muddled, hushed, hasty, skewed>> /\ Noticed
    BY <1>10 DEF Poll, serverVars, batchVars, talesVars, noteVars, Noticed
  <2> QED BY <2>1, AsksKeeps
<1>19. ASSUME NEW fails, Says(fails) PROVE Noticed
  BY <1>19 DEF Says, Failures, Noticed
<1>11. ASSUME NEW d \in Documents, Verdict(d) PROVE DocsInv'
  <2>1. /\ Asks(Hand)
        /\ UNCHANGED <<rows, jobs, zips, data, zip, armed, batch, failed, wanted, twice, muddled, hushed, hasty, skewed>>
        /\ Says(TRUE) \/ Says(FALSE)
    BY <1>11 DEF Verdict, pollVars, talesVars
  <2> QED BY <1>19, <2>1, AsksKeeps DEF Asks
<1>20. ASSUME NEW d \in Documents, SaveVolume(d) PROVE DocsInv'
  <2>1. /\ UNCHANGED <<rows, jobs, zips, data, zip, armed, batch, failed, wanted, twice, muddled, hushed, hasty, skewed>>
        /\ Says(TRUE) \/ Says(FALSE)
        /\ Asks(Hand) \/ UNCHANGED get
    BY <1>20 DEF SaveVolume, serverVars, pollVars, talesVars
  <2>2. Noticed
    BY <1>19, <2>1
  <2>3. CASE Asks(Hand)
    BY <2>1, <2>2, <2>3, AsksKeeps DEF Asks
  <2>4. CASE UNCHANGED get
    BY <2>1, <2>2, <2>4, PageFrame
  <2> QED BY <2>1, <2>3, <2>4
<1>21. ASSUME NEW d \in Documents, DownloadFails(d) PROVE DocsInv'
  <2>1. UNCHANGED <<rows, jobs, zips, data, zip, armed, batch, failed, get, wanted, twice, muddled, hushed, hasty, skewed>>
        /\ Noticed
    BY <1>21 DEF DownloadFails, serverVars, pollVars, talesVars, Noticed
  <2> QED BY <2>1, PageFrame
<1>12. ASSUME NEW d \in Documents, Classify(d) PROVE DocsInv'
  <2>1. /\ UNCHANGED <<rows, jobs, zips, data, zip, armed, batch, failed, get, wanted, twice, muddled, hushed, hasty, skewed>>
        /\ Noticed
    BY <1>12 DEF Classify, pollVars, batchVars, talesVars, noteVars, Noticed
  <2> QED BY <2>1, PageFrame
<1>13. ASSUME NEW gone, RemoveFiles(gone) PROVE DocsInv'
  BY <1>13, RemoveFilesKeeps
<1>14. ASSUME CancelUpload PROVE DocsInv'
  <2>1. UNCHANGED <<rows, jobs, zips, data, get, wanted, twice, muddled, hushed, hasty, skewed>>
    BY <1>14 DEF CancelUpload, serverVars, talesVars
  <2>2. CASE UNCHANGED <<batch, failed, zip, armed, error, progress, passedOver>>
    <3>1. Noticed
      BY <2>2 DEF Noticed
    <3> QED BY <2>1, <2>2, <3>1, PageFrame
  <2>3. ASSUME NEW b \in Batches, batch[b].pc = "put", UploadFails(b, TRUE) PROVE DocsInv'
    BY <2>1, <2>3, UploadLost
  <2> QED BY <1>14, <2>2, <2>3 DEF CancelUpload, noteVars
<1>15. ASSUME MarkComplete PROVE DocsInv'
  <2>1. /\ UNCHANGED <<rows, jobs, zips, data, zip, armed, batch, failed, wanted, twice, muddled, hushed, hasty, skewed>>
        /\ Says(TRUE) \/ Says(FALSE)
        /\ Asks(Hand) \/ UNCHANGED get
    BY <1>15 DEF MarkComplete, pollVars, talesVars
  <2>2. Noticed
    BY <1>19, <2>1
  <2>3. CASE Asks(Hand)
    BY <2>1, <2>2, <2>3, AsksKeeps DEF Asks
  <2>4. CASE UNCHANGED get
    BY <2>1, <2>2, <2>4, PageFrame
  <2> QED BY <2>1, <2>3, <2>4
<1>16. ASSUME Unpack PROVE DocsInv'
  BY <1>16, UnpackKeeps
<1>17. ASSUME UnpackFails PROVE DocsInv'
  BY <1>17, UnpackFailsKeeps
<1>18. ASSUME UNCHANGED docVars PROVE DocsInv'
  BY <1>18, PageFrame DEF docVars, serverVars, pollVars, batchVars, talesVars, noteVars, Noticed
<1> QED BY <1>1, <1>2, <1>3, <1>4, <1>5, <1>6, <1>7, <1>8, <1>9, <1>10, <1>11, <1>12, <1>13, <1>14, <1>15, <1>16, <1>17, <1>18, <1>20, <1>21 DEF PageNext

\* The uploads, the lists and the archive of the documents page keep to DocsInv: what a list
\* still to come says is the server's truth unless it is marked old, and what an upload leaves
\* behind is either there, under way or offered again.
THEOREM PageHolds == PageSpec => []DocsInv
<1>1. PageInit => DocsInv
  BY PageStarts
<1>2. DocsInv /\ [PageNext]_docVars => DocsInv'
  BY PageStep
<1> QED BY <1>1, <1>2, PTL DEF PageSpec

\* No file the family chose is lost or sent twice behind its back, but for one that failed and
\* was then passed over; the page asks on while it waits for an archive that is to come; and
\* what it shows at rest is what the server has: for any files, batches, clocks and failures.
THEOREM FilesAreAccountedFor == PageSpec => []FilesAccountedFor
<1>1. DocsInv => NoFileForgotten
  <2> SUFFICES ASSUME DocsInv, ~muddled, NEW f \in wanted \cap Papers
               PROVE  \/ rows[f] > 0 \/ \E b \in Batches : f \in Pending(b)
                      \/ f \in failed /\ (RetryOffered \/ running)
                      \/ f \in passedOver
    BY DEF DocsInv, Once, SentOnce, NoFileForgotten
  <2>1. rows[f] > 0 \/ f \in failed \/ f \in passedOver \/ \E b \in Batches : f \in Pending(b)
    BY DEF DocsInv, Accounted
  <2>2. CASE f \in failed /\ f \notin passedOver /\ ~running
    <3>1. error /\ ~progress
      BY <2>2 DEF DocsInv, Told, OneBatch
    <3> QED BY <2>2, <3>1 DEF RetryOffered
  <2> QED BY <2>1, <2>2
<1>2. DocsInv => PageSettles
  <2>1. ASSUME DocsInv, AtRest
        PROVE  muddled \/ hushed \/ hasty \/ skewed \/ data.stale \/ running \/ data.rows = rows
    <3>1. (\A b \in Batches : batch[b].pc = "idle") /\ ~armed /\ get[Hand] = NoGet /\ get[Timer] = NoGet
      BY <2>1, Callers2 DEF AtRest, Active
    <3>2. zip.busy = "unpacking" => hushed
      BY <2>1, <3>1 DEF DocsInv, Waits
    <3>3. ~muddled /\ ~hushed /\ ~hasty /\ ~skewed => data.rows = rows \/ data.stale
      BY <2>1, <3>1, <3>2 DEF DocsInv, Plain, Current
    <3> QED BY <3>3
  <2>2. ASSUME DocsInv, zip.busy = "unpacking"
        PROVE  /\ armed \/ get[Timer] # NoGet \/ hushed
               /\ jobs > 0 \/ zips > zip.since \/ hasty \/ skewed
    BY <2>2 DEF DocsInv, Waits, Coming
  <2> QED BY <2>1, <2>2 DEF PageSettles
<1>3. DocsInv => FilesAccountedFor
  BY <1>1, <1>2 DEF FilesAccountedFor
<1> QED BY <1>3, PageHolds, PTL

-----------------------------------------------------------------------------
(* The status page's feed (ProgressFeed).                                 *)

\* A set of numbers that has 0, and with each number the next, has them all.
LEMMA FromZeroOn ==
  ASSUME NEW T, 0 \in T, \A n \in Nat : n \in T => n + 1 \in T
  PROVE  Nat \subseteq T
<1>1. SUFFICES ASSUME NEW U, U = {n \in Nat : n \notin T}, U /= {} PROVE FALSE
  OBVIOUS
<1>2. U \subseteq Nat
  BY <1>1
<1>3. PICK x \in U : \A y \in U : ~(<<y, x>> \in OpToRel(<, Nat))
  BY <1>1, <1>2, WFMin, NatLessThanWellFounded, Zenon
<1>4. \A y \in U : ~(y < x)
  BY <1>2, <1>3, Zenon DEF OpToRel
<1>5. x \in Nat \ {0} /\ x \notin T
  BY <1>1, <1>3
<1>6. x - 1 \in Nat /\ x - 1 < x /\ (x - 1) + 1 = x
  BY <1>5
<1>7. x - 1 \in T
  BY <1>1, <1>4, <1>6
<1> QED BY <1>5, <1>6, <1>7

\* The events kept of the first n, for every n: what OfRun's function is.
Passes(f, no) == f.type \in RunTypes /\ f.run = no
Kept(kept, s, no, n) ==
  IF n = 0 THEN <<>> ELSE IF Passes(s[n], no) THEN Append(kept[n - 1], s[n]) ELSE kept[n - 1]
Keeps(kept, s, no) == kept = [n \in 0 .. Len(s) |-> Kept(kept, s, no, n)]

\* The events of one run, read off the loop that keeps them; the loop has a function.
LEMMA OfRunIs ==
  ASSUME NEW s, NEW no
  PROVE  OfRun(s, no) = (CHOOSE kept : Keeps(kept, s, no))[Len(s)]
BY Zenon DEF OfRun, Keeps, Kept, Passes

LEMMA KeptSomehow ==
  ASSUME NEW S, NEW s \in Seq(S), NEW no
  PROVE  \E kept : Keeps(kept, s, no)
<1>1. PICK T : T = {n \in Nat : \E g : g = [m \in 0 .. n |-> Kept(g, s, no, m)]}
  OBVIOUS
<1>2. 0 \in T
  <2>1. PICK g : g = [m \in 0 .. 0 |-> <<>>]
    OBVIOUS
  <2>2. \A m \in 0 .. 0 : Kept(g, s, no, m) = <<>>
    BY DEF Kept
  <2>3. g = [m \in 0 .. 0 |-> Kept(g, s, no, m)]
    BY <2>1, <2>2
  <2> QED BY <1>1, <2>3
<1>3. \A n \in Nat : n \in T => n + 1 \in T
  <2>1. SUFFICES ASSUME NEW n \in Nat, n \in T PROVE n + 1 \in T
    OBVIOUS
  <2>2. PICK g : g = [m \in 0 .. n |-> Kept(g, s, no, m)]
    BY <1>1, <2>1
  <2>3. PICK h : h = [m \in 0 .. n + 1 |-> IF m = n + 1 THEN Kept(g, s, no, m) ELSE g[m]]
    OBVIOUS
  <2>4. \A m \in 0 .. n : h[m] = g[m]
    BY <2>3
  <2>5. ASSUME NEW m \in 0 .. n + 1 PROVE Kept(h, s, no, m) = Kept(g, s, no, m)
    <3>1. m = 0 \/ m - 1 \in 0 .. n
      OBVIOUS
    <3> QED BY <2>4, <3>1 DEF Kept
  <2>6. ASSUME NEW m \in 0 .. n + 1 PROVE h[m] = Kept(h, s, no, m)
    <3>1. CASE m = n + 1
      BY <2>3, <2>5, <3>1
    <3>2. CASE m /= n + 1
      <4>1. m \in 0 .. n
        BY <3>2
      <4> QED BY <2>2, <2>4, <2>5, <4>1
    <3> QED BY <3>1, <3>2
  <2>7. h = [m \in 0 .. n + 1 |-> Kept(h, s, no, m)]
    <3>1. h = [m \in 0 .. n + 1 |-> h[m]]
      BY <2>3
    <3> QED BY <2>6, <3>1
  <2> QED BY <1>1, <2>7
<1>4. Len(s) \in T
  BY <1>2, <1>3, FromZeroOn
<1> QED BY <1>1, <1>4 DEF Keeps

LEMMA KeptOfMore ==
  ASSUME NEW S, NEW s \in Seq(S), NEW f \in S, NEW no, NEW g, NEW h,
         Keeps(g, s, no), Keeps(h, Append(s, f), no)
  PROVE  \A n \in 0 .. Len(s) : g[n] = h[n]
<1>1. PICK T : T = {n \in Nat : n <= Len(s) => g[n] = h[n]}
  OBVIOUS
<1>2. Len(Append(s, f)) = Len(s) + 1 /\ \A n \in 1 .. Len(s) : Append(s, f)[n] = s[n]
  OBVIOUS
<1>3. \A n \in 0 .. Len(s) : g[n] = Kept(g, s, no, n)
  BY DEF Keeps
<1>4. \A n \in 0 .. Len(s) : h[n] = Kept(h, Append(s, f), no, n)
  BY <1>2 DEF Keeps
<1>5. 0 \in T
  BY <1>1, <1>3, <1>4 DEF Kept
<1>6. \A n \in Nat : n \in T => n + 1 \in T
  <2>1. SUFFICES ASSUME NEW n \in Nat, n \in T, n + 1 <= Len(s) PROVE g[n + 1] = h[n + 1]
    BY <1>1
  <2>2. g[n] = h[n] /\ n + 1 \in 1 .. Len(s) /\ (n + 1) - 1 = n /\ n + 1 /= 0
    BY <1>1, <2>1
  <2> QED BY <1>2, <1>3, <1>4, <2>2 DEF Kept
<1>7. Nat \subseteq T
  BY <1>5, <1>6, FromZeroOn
<1> QED BY <1>1, <1>7

\* What OfRun keeps of no event, and of one event more.
LEMMA OfRunOfNone ==
  ASSUME NEW no
  PROVE  OfRun(<<>>, no) = <<>>
<1>1. PICK g : Keeps(g, <<>>, no)
  <2>1. <<>> \in Seq({0})
    OBVIOUS
  <2> QED BY <2>1, KeptSomehow
<1>2. PICK h : h = (CHOOSE kept : Keeps(kept, <<>>, no))
  OBVIOUS
<1>3. Keeps(h, <<>>, no)
  BY <1>1, <1>2
<1>4. h[0] = <<>>
  BY <1>3 DEF Keeps, Kept
<1> QED BY <1>2, <1>4, OfRunIs

LEMMA OfRunOfMore ==
  ASSUME NEW S, NEW s \in Seq(S), NEW f \in S, NEW no
  PROVE  OfRun(Append(s, f), no) = IF Passes(f, no) THEN Append(OfRun(s, no), f) ELSE OfRun(s, no)
<1>1. PICK t : t = Append(s, f)
  OBVIOUS
<1>2. t \in Seq(S) /\ Len(t) = Len(s) + 1 /\ t[Len(s) + 1] = f /\ Len(s) \in Nat
  BY <1>1
<1>3. PICK g : g = (CHOOSE kept : Keeps(kept, s, no))
  OBVIOUS
<1>4. PICK h : h = (CHOOSE kept : Keeps(kept, t, no))
  OBVIOUS
<1>5. Keeps(g, s, no)
  <2>1. \E kept : Keeps(kept, s, no)
    BY KeptSomehow
  <2> QED BY <1>3, <2>1
<1>6. Keeps(h, t, no)
  <2>1. \E kept : Keeps(kept, t, no)
    BY <1>2, KeptSomehow
  <2> QED BY <1>4, <2>1
<1>7. g[Len(s)] = h[Len(s)]
  BY <1>1, <1>2, <1>5, <1>6, KeptOfMore
<1>8. h[Len(s) + 1] = IF Passes(f, no) THEN Append(h[Len(s)], f) ELSE h[Len(s)]
  <2>1. h[Len(s) + 1] = Kept(h, t, no, Len(s) + 1)
    BY <1>2, <1>6 DEF Keeps
  <2>2. Len(s) + 1 /= 0 /\ (Len(s) + 1) - 1 = Len(s)
    BY <1>2
  <2> QED BY <1>2, <2>1, <2>2 DEF Kept
<1>9. OfRun(s, no) = g[Len(s)] /\ OfRun(t, no) = h[Len(s) + 1]
  BY <1>2, <1>3, <1>4, OfRunIs
<1> QED BY <1>1, <1>7, <1>8, <1>9

\* A set of sequences that has the empty one, and with each those one longer, has them all.
LEMMA FromEmptyOn ==
  ASSUME NEW S, NEW T, <<>> \in T, \A s \in Seq(S), f \in S : s \in T => Append(s, f) \in T
  PROVE  Seq(S) \subseteq T
<1>1. PICK U : U = {n \in Nat : \A s \in Seq(S) : Len(s) = n => s \in T}
  OBVIOUS
<1>2. 0 \in U
  <2>1. \A s \in Seq(S) : Len(s) = 0 => s = <<>>
    OBVIOUS
  <2> QED BY <1>1, <2>1
<1>3. \A n \in Nat : n \in U => n + 1 \in U
  <2>1. SUFFICES ASSUME NEW n \in Nat, n \in U, NEW s \in Seq(S), Len(s) = n + 1 PROVE s \in T
    BY <1>1
  <2>2. PICK r : r = SubSeq(s, 1, n)
    OBVIOUS
  <2>3. r \in Seq(S) /\ Len(r) = n /\ s[n + 1] \in S /\ s = Append(r, s[n + 1])
    BY <2>1, <2>2
  <2> QED BY <1>1, <2>1, <2>3
<1>4. Nat \subseteq U
  BY <1>2, <1>3, FromZeroOn
<1>5. \A s \in Seq(S) : Len(s) \in Nat
  OBVIOUS
<1> QED BY <1>1, <1>4, <1>5

\* OfRun keeps what passes, and nothing else.
KeptAre(s, r, no) ==
  /\ \A i \in DOMAIN s : Passes(s[i], no) => \E j \in DOMAIN r : r[j] = s[i]
  /\ \A j \in DOMAIN r : Passes(r[j], no) /\ \E i \in DOMAIN s : s[i] = r[j]

LEMMA KeptOneMore ==
  ASSUME NEW S, NEW s \in Seq(S), NEW r \in Seq(S), NEW f \in S, NEW no, KeptAre(s, r, no)
  PROVE  KeptAre(Append(s, f), IF Passes(f, no) THEN Append(r, f) ELSE r, no)
<1>1. PICK t : t = Append(s, f)
  OBVIOUS
<1>2. /\ t \in Seq(S) /\ DOMAIN t = DOMAIN s \cup {Len(s) + 1} /\ t[Len(s) + 1] = f
      /\ \A i \in DOMAIN s : t[i] = s[i]
  BY <1>1
<1>3. CASE Passes(f, no)
  <2>1. PICK q : q = Append(r, f)
    OBVIOUS
  <2>2. /\ q \in Seq(S) /\ DOMAIN q = DOMAIN r \cup {Len(r) + 1} /\ q[Len(r) + 1] = f
        /\ \A i \in DOMAIN r : q[i] = r[i]
    BY <2>1
  <2>3. KeptAre(t, q, no)
    BY <1>2, <1>3, <2>2 DEF KeptAre
  <2> QED BY <1>1, <1>3, <2>1, <2>3
<1>4. CASE ~Passes(f, no)
  <2>1. KeptAre(t, r, no)
    BY <1>2, <1>4 DEF KeptAre
  <2> QED BY <1>1, <1>4, <2>1
<1> QED BY <1>3, <1>4

LEMMA OfRunKeeps ==
  ASSUME NEW S, NEW s \in Seq(S), NEW no
  PROVE  OfRun(s, no) \in Seq(S) /\ KeptAre(s, OfRun(s, no), no)
<1>1. PICK T : T = {t \in Seq(S) : OfRun(t, no) \in Seq(S) /\ KeptAre(t, OfRun(t, no), no)}
  OBVIOUS
<1>2. <<>> \in T
  <2>1. <<>> \in Seq(S) /\ DOMAIN <<>> = {}
    <3>1. DOMAIN <<>> = 1 .. 0
      OBVIOUS
    <3> QED BY <3>1
  <2>2. KeptAre(<<>>, <<>>, no)
    BY <2>1, Zenon DEF KeptAre
  <2> QED BY <1>1, <2>1, <2>2, OfRunOfNone
<1>3. ASSUME NEW t \in Seq(S), NEW f \in S, t \in T PROVE Append(t, f) \in T
  <2>1. Append(t, f) \in Seq(S)
    OBVIOUS
  <2>2. OfRun(Append(t, f), no) = IF Passes(f, no) THEN Append(OfRun(t, no), f) ELSE OfRun(t, no)
    BY OfRunOfMore
  <2>3. OfRun(t, no) \in Seq(S) /\ KeptAre(t, OfRun(t, no), no)
    BY <1>1, <1>3
  <2>4. OfRun(Append(t, f), no) \in Seq(S)
    BY <2>2, <2>3
  <2>5. KeptAre(Append(t, f), OfRun(Append(t, f), no), no)
    BY <2>2, <2>3, KeptOneMore
  <2> QED BY <1>1, <2>1, <2>4, <2>5
<1>4. Seq(S) \subseteq T
  BY <1>2, <1>3, FromEmptyOn
<1> QED BY <1>1, <1>4

\* What all passes is kept whole; of what does not pass nothing is kept.
LEMMA OfRunOfItsOwn ==
  ASSUME NEW S, NEW no, NEW s \in Seq({f \in S : Passes(f, no)})
  PROVE  OfRun(s, no) = s
<1>1. PICK P : P = {f \in S : Passes(f, no)}
  OBVIOUS
<1>2. PICK T : T = {t \in Seq(P) : OfRun(t, no) = t}
  OBVIOUS
<1>3. <<>> \in T
  BY <1>2, OfRunOfNone
<1>4. ASSUME NEW t \in Seq(P), NEW f \in P, t \in T PROVE Append(t, f) \in T
  <2>1. OfRun(Append(t, f), no) = IF Passes(f, no) THEN Append(OfRun(t, no), f) ELSE OfRun(t, no)
    BY OfRunOfMore
  <2>2. Passes(f, no) /\ OfRun(t, no) = t
    BY <1>1, <1>2, <1>4
  <2> QED BY <1>2, <2>1, <2>2
<1>5. Seq(P) \subseteq T
  BY <1>3, <1>4, FromEmptyOn
<1>6. s \in Seq(P)
  BY <1>1
<1> QED BY <1>2, <1>5, <1>6

LEMMA OfRunOfOthers ==
  ASSUME NEW S, NEW s \in Seq(S), NEW no, \A i \in DOMAIN s : ~Passes(s[i], no)
  PROVE  OfRun(s, no) = <<>>
<1>1. PICK r : r = OfRun(s, no)
  OBVIOUS
<1>2. r \in Seq(S) /\ KeptAre(s, r, no)
  BY <1>1, OfRunKeeps
<1>3. \A j \in DOMAIN r : FALSE
  BY <1>2 DEF KeptAre
<1>4. r = <<>>
  <2>1. Len(r) \in Nat /\ DOMAIN r = 1 .. Len(r)
    BY <1>2
  <2>2. 1 \notin 1 .. Len(r)
    BY <1>3, <2>1
  <2> QED BY <1>2, <2>2
<1> QED BY <1>1, <1>4

-----------------------------------------------------------------------------
\* What the events of a run say is being checked.
RunFact == [type : RunTypes, what : 0 .. Checks, run : Nat]
BegunIn(r) == {i \in DOMAIN r : r[i].type /= "completed"}
LastOf(B) == CHOOSE i \in B : \A j \in B : j <= i
DoneAfter(r, k) == \E i \in {i \in DOMAIN r : r[i].type = "completed"} : i > k /\ r[i].what = r[k].what

LEMMA NowCheckingIs ==
  ASSUME NEW r
  PROVE  /\ BegunIn(r) = {} => NowChecking(r) = NoStep
         /\ BegunIn(r) /= {} =>
              NowChecking(r) = IF DoneAfter(r, LastOf(BegunIn(r))) THEN NoStep ELSE r[LastOf(BegunIn(r))].what
BY Zenon DEF NowChecking, BegunIn, LastOf, DoneAfter

LEMMA LastOfSome ==
  ASSUME NEW n \in Nat, NEW B, B \subseteq 1 .. n, B /= {}
  PROVE  LastOf(B) \in B /\ \A j \in B : j <= LastOf(B)
<1>1. PICK T : T = {n - i : i \in B}
  OBVIOUS
<1>2. T \subseteq Nat /\ T /= {}
  <2>1. \A i \in B : n - i \in Nat
    OBVIOUS
  <2> QED BY <1>1, <2>1
<1>3. PICK x \in T : \A y \in T : ~(<<y, x>> \in OpToRel(<, Nat))
  BY <1>2, WFMin, NatLessThanWellFounded, Zenon
<1>4. \A y \in T : ~(y < x)
  BY <1>2, <1>3, Zenon DEF OpToRel
<1>5. PICK i \in B : x = n - i
  BY <1>1, <1>3
<1>6. \A j \in B : j <= i
  <2>1. SUFFICES ASSUME NEW j \in B PROVE j <= i
    OBVIOUS
  <2>2. ~(n - j < n - i)
    BY <1>1, <1>4, <1>5
  <2>3. i \in 1 .. n /\ j \in 1 .. n
    OBVIOUS
  <2> QED BY <2>2, <2>3
<1> QED BY <1>6 DEF LastOf

\* A step that was begun is the one; the end of the one leaves none; another's end changes nothing.
LEMMA NowCheckingOfMore ==
  ASSUME NEW r \in Seq(RunFact), NEW f \in RunFact
  PROVE  /\ f.type /= "completed" => NowChecking(Append(r, f)) = f.what
         /\ f.type = "completed" => NowChecking(Append(r, f)) \in {NowChecking(r), NoStep}
<1>1. PICK t : t = Append(r, f)
  OBVIOUS
<1>2. /\ t \in Seq(RunFact) /\ Len(r) \in Nat /\ Len(t) = Len(r) + 1 /\ t[Len(r) + 1] = f
      /\ \A i \in 1 .. Len(r) : t[i] = r[i]
      /\ DOMAIN t = 1 .. Len(r) + 1 /\ DOMAIN r = 1 .. Len(r)
  BY <1>1
<1>3. CASE f.type /= "completed"
  <2>1. Len(r) + 1 \in BegunIn(t) /\ BegunIn(t) \subseteq 1 .. Len(r) + 1
    BY <1>2, <1>3 DEF BegunIn
  <2>2. PICK k : k = LastOf(BegunIn(t))
    OBVIOUS
  <2>3. k \in BegunIn(t) /\ \A j \in BegunIn(t) : j <= k
    BY <1>2, <2>1, <2>2, LastOfSome
  <2>4. k = Len(r) + 1
    BY <1>2, <2>1, <2>3
  <2>5. ~DoneAfter(t, k)
    BY <1>2, <2>4 DEF DoneAfter
  <2>6. NowChecking(t) = t[k].what
    BY <2>1, <2>2, <2>5, NowCheckingIs
  <2> QED BY <1>1, <1>2, <1>3, <2>4, <2>6
<1>4. CASE f.type = "completed"
  <2>1. BegunIn(t) = BegunIn(r) /\ BegunIn(r) \subseteq 1 .. Len(r)
    BY <1>2, <1>4 DEF BegunIn
  <2>2. CASE BegunIn(r) = {}
    BY <1>1, <1>4, <2>1, <2>2, NowCheckingIs
  <2>3. CASE BegunIn(r) /= {}
    <3>1. PICK k : k = LastOf(BegunIn(r))
      OBVIOUS
    <3>2. k \in 1 .. Len(r)
      BY <1>2, <2>1, <2>3, <3>1, LastOfSome
    <3>3. NowChecking(t) \in {t[k].what, NoStep} /\ (DoneAfter(t, k) => NowChecking(t) = NoStep)
      BY <2>1, <2>3, <3>1, NowCheckingIs
    <3>4. NowChecking(r) = IF DoneAfter(r, k) THEN NoStep ELSE r[k].what
      BY <2>3, <3>1, NowCheckingIs
    <3>5. t[k] = r[k]
      BY <1>2, <3>2
    <3>6. DoneAfter(r, k) => DoneAfter(t, k)
      BY <1>2, <3>5 DEF DoneAfter
    <3> QED BY <1>1, <1>4, <3>3, <3>4, <3>5, <3>6
  <2> QED BY <2>2, <2>3
<1> QED BY <1>3, <1>4

LEMMA NowCheckingOfNone == NowChecking(<<>>) = NoStep
<1>1. BegunIn(<<>>) = {}
  <2>1. DOMAIN <<>> = 1 .. 0
    OBVIOUS
  <2>2. \A i \in DOMAIN <<>> : FALSE
    BY <2>1
  <2> QED BY <2>2, Zenon DEF BegunIn
<1> QED BY <1>1, NowCheckingIs

LEMMA NowCheckingType ==
  ASSUME NEW r \in Seq(RunFact)
  PROVE  NowChecking(r) \in 0 .. Checks \cup {NoStep}
<1>1. DOMAIN r = 1 .. Len(r) /\ Len(r) \in Nat /\ BegunIn(r) \subseteq 1 .. Len(r)
  BY DEF BegunIn
<1>2. CASE BegunIn(r) = {}
  BY <1>2, NowCheckingIs
<1>3. CASE BegunIn(r) /= {}
  <2>1. PICK k : k = LastOf(BegunIn(r))
    OBVIOUS
  <2>2. k \in 1 .. Len(r)
    BY <1>1, <1>3, <2>1, LastOfSome
  <2>3. r[k] \in RunFact
    BY <1>1, <2>2
  <2>4. r[k].what \in 0 .. Checks
    BY <2>3 DEF RunFact
  <2> QED BY <1>3, <2>1, <2>4, NowCheckingIs
<1> QED BY <1>2, <1>3

-----------------------------------------------------------------------------
\* Each fact is one of the run's own, or of the case and bears the number of its run.
CaseFact == [type : {"stage", "started", "done"}, what : {"analyzing", "quality", Paper}, run : Nat]
FactRec == RunFact \cup CaseFact
FactsAre ==
  /\ facts \in Seq(FactRec) /\ told \in 0 .. Len(facts)
  /\ \A i \in DOMAIN facts : facts[i].run <= analysis.no
  /\ facts = <<>> => shown = "docs"

\* Where the run and the reading are, what they opened, and what they have told of it.
Pcs == {"idle", "mark", "begin", "work", "handoff", "end"}
WorkIs ==
  /\ analysis \in [pc : Pcs, at : 0 .. Checks, no : Nat]
  /\ live \in [Keys -> 0 .. Checks \cup {NoStep, Paper}]
  /\ live[Run] \in 0 .. Checks \cup {NoStep} /\ live[Paper] \in {Paper, NoStep}
  /\ analysis.pc = "work" => live[Run] = analysis.at
  /\ analysis.pc = "end" => shown = "quality"
  /\ analysis.pc \in {"handoff", "end"} =>
       \E i \in DOMAIN facts : /\ facts[i].type = "completed" /\ facts[i].what = live[Run]
                               /\ facts[i].run = analysis.no
  /\ paper = "saved" => \E i \in DOMAIN facts : facts[i].type = "done"

\* What may be said to be checked: what is open or marked, and ends that went unheard.
Sayable == {NoStep} \cup unheard \cup (IF analysis.pc = "begin" THEN {analysis.at} ELSE {live[Run]})

\* What was read of the facts up to one of them: all there is, if no fact came since.
ViewIs(events, stage, upTo) ==
  /\ upTo \in 0 .. Len(facts)
  /\ events \in Seq(RunFact) /\ \A i \in DOMAIN events : events[i].run <= analysis.no
  /\ upTo = Len(facts) =>
       /\ OfRun(events, analysis.no) = RunFacts
       /\ stage = shown
       /\ shown = "analyzing" => NowChecking(events) \in Sayable
FeedIs ==
  /\ feed = [step |-> feed.step, runEvents |-> feed.runEvents, stage |-> feed.stage, upTo |-> feed.upTo]
  /\ ViewIs(feed.runEvents, feed.stage, feed.upTo)
PollIs ==
  poll /= NoPoll =>
    /\ poll = [pc |-> "asked", runEvents |-> poll.runEvents, stage |-> poll.stage, upTo |-> poll.upTo,
               mirror |-> poll.mirror]
    /\ ViewIs(poll.runEvents, poll.stage, poll.upTo)
RunIs == shown = "analyzing" => NowChecking(RunFacts) \in Sayable

\* A step the page heard of is open, or its end went unheard or has yet to be published.
EndsYet(step) == \E i \in told + 1 .. Len(facts) : EndsStep(facts[i], step)
StillOpen(step) ==
  (step = live[Run] /\ analysis.pc /= "end") \/ (step = live[Paper] /\ paper /= "saved")
StepHolds(step) == step /= NoStep => step \in unheard \/ EndsYet(step) \/ StillOpen(step)
StepIs == StepHolds(feed.step)

FeedInv == FactsAre /\ WorkIs /\ RunIs /\ FeedIs /\ PollIs /\ StepIs

LEMMA MarkedIs == Marked = IF analysis.pc = "begin" THEN {analysis.at} ELSE {}
BY DEF Marked

LEMMA OpenIs == Open = {live[Run], live[Paper]} \ {NoStep}
BY DEF Open, Keys

\* The property follows: when all is published, no end is still to come.
LEMMA FeedInvIsReal == FeedInv => ProgressIsReal
<1>1. SUFFICES ASSUME FeedInv PROVE ProgressIsReal
  OBVIOUS
<1>2. FactsAre /\ WorkIs /\ FeedIs /\ StepIs
  BY <1>1 DEF FeedInv
<1>3. told \in Nat /\ Len(facts) \in Nat
  BY <1>2 DEF FactsAre
<1>4. PollIsTheFloor
  BY <1>2, Zenon DEF PollIsTheFloor, FeedIs, ViewIs
<1>5. ASSUME told = Len(facts), feed.step /= NoStep
      PROVE  feed.step \in Open \cup unheard
  <2>1. ~EndsYet(feed.step)
    BY <1>3, <1>5 DEF EndsYet
  <2> QED BY <1>2, <1>5, <2>1, OpenIs DEF StepIs, StepHolds, StillOpen
<1>6. ASSUME feed.stage = "analyzing", feed.upTo = Len(facts)
      PROVE  NowChecking(feed.runEvents) \in Open \cup Marked \cup unheard \cup {NoStep}
  <2>1. NowChecking(feed.runEvents) \in Sayable
    BY <1>2, <1>6 DEF FeedIs, ViewIs
  <2> QED BY <2>1, OpenIs, MarkedIs DEF Sayable
<1>7. StepIsRunning
  BY <1>5, <1>6, Zenon DEF StepIsRunning, RightNow
<1> QED BY <1>4, <1>7 DEF ProgressIsReal

-----------------------------------------------------------------------------
\* What was read stays right: nothing was told since, or it is behind and does not matter.
ViewsStay == \A events, stage, upTo : ViewIs(events, stage, upTo) => ViewIs(events, stage, upTo)'
MoreSaid == shown = "analyzing" => \A x \in 0 .. Checks : x \in Sayable => x \in Sayable'
SameFacts == facts' = facts /\ shown' = shown /\ analysis'.no = analysis.no
NewFact(f) == f \in FactRec /\ facts' = Append(facts, f) /\ f.run <= analysis'.no

LEMMA SayableStays ==
  ASSUME MoreSaid, shown = "analyzing", NEW r \in Seq(RunFact), NowChecking(r) \in Sayable
  PROVE  NowChecking(r) \in Sayable'
<1>1. CASE NowChecking(r) = NoStep
  BY <1>1 DEF Sayable
<1>2. CASE NowChecking(r) \in 0 .. Checks
  BY <1>2 DEF MoreSaid
<1> QED BY <1>1, <1>2, NowCheckingType

LEMMA FactsOfRun ==
  ASSUME FactsAre
  PROVE  RunFacts \in Seq(RunFact)
<1>1. PICK r : r = RunFacts
  OBVIOUS
<1>2. r \in Seq(FactRec) /\ KeptAre(facts, r, analysis.no)
  BY <1>1, OfRunKeeps DEF FactsAre, RunFacts
<1>3. \A i \in 1 .. Len(r) : r[i] \in RunFact
  <2>1. \A i \in DOMAIN r : r[i].type \in RunTypes /\ r[i] \in FactRec
    BY <1>2 DEF KeptAre, Passes
  <2>2. \A f \in FactRec : f.type \in RunTypes => f \in RunFact
    BY DEF FactRec, CaseFact, RunTypes
  <2> QED BY <1>2, <2>1, <2>2
<1>4. r \in Seq(RunFact)
  BY <1>2, <1>3
<1> QED BY <1>1, <1>4

LEMMA WhenNoNews ==
  ASSUME FactsAre, SameFacts, MoreSaid
  PROVE  ViewsStay /\ (RunIs => RunIs')
<1>1. RunFacts' = RunFacts
  BY DEF RunFacts, SameFacts
<1>2. ASSUME NEW events, NEW stage, NEW upTo, ViewIs(events, stage, upTo)
      PROVE  ViewIs(events, stage, upTo)'
  <2>1. OfRun(events, analysis.no)' = OfRun(events, analysis.no)
    BY DEF SameFacts
  <2>2. shown = "analyzing" /\ NowChecking(events) \in Sayable => NowChecking(events) \in Sayable'
    BY <1>2, SayableStays DEF ViewIs
  <2> QED BY <1>1, <1>2, <2>1, <2>2 DEF ViewIs, SameFacts
<1>3. RunIs => RunIs'
  <2>1. PICK r : r = RunFacts
    OBVIOUS
  <2>2. r \in Seq(RunFact)
    BY <2>1, FactsOfRun
  <2>3. shown = "analyzing" /\ NowChecking(r) \in Sayable => NowChecking(r) \in Sayable'
    BY <2>2, SayableStays
  <2>4. NowChecking(RunFacts)' = NowChecking(r)
    BY <1>1, <2>1
  <2> QED BY <2>1, <2>3, <2>4 DEF RunIs, SameFacts
<1> QED BY <1>2, <1>3 DEF ViewsStay

LEMMA WhenNews ==
  ASSUME FactsAre, NEW f, NewFact(f), analysis.no \in Nat, analysis'.no \in Nat, analysis.no <= analysis'.no
  PROVE  ViewsStay
<1>1. Len(facts') = Len(facts) + 1 /\ Len(facts) \in Nat
  BY DEF FactsAre, NewFact
<1>2. ASSUME NEW events, NEW stage, NEW upTo, ViewIs(events, stage, upTo)
      PROVE  ViewIs(events, stage, upTo)'
  <2>1. upTo \in 0 .. Len(facts') /\ upTo /= Len(facts')
    BY <1>1, <1>2 DEF ViewIs
  <2>2. \A i \in DOMAIN events : events[i] \in RunFact /\ events[i].run \in Nat
    <3>1. \A i \in DOMAIN events : events[i] \in RunFact
      BY <1>2 DEF ViewIs
    <3> QED BY <3>1 DEF RunFact
  <2>3. \A i \in DOMAIN events : events[i].run <= analysis'.no
    BY <1>2, <2>2 DEF ViewIs
  <2> QED BY <1>2, <2>1, <2>3 DEF ViewIs
<1> QED BY <1>2 DEF ViewsStay

LEMMA FeedStays ==
  ASSUME FeedIs, ViewsStay, NEW step, feed' = [feed EXCEPT !.step = step]
  PROVE  FeedIs'
<1>1. PICK e, s, u : e = feed.runEvents /\ s = feed.stage /\ u = feed.upTo
  OBVIOUS
<1>2. feed' = [step |-> step, runEvents |-> e, stage |-> s, upTo |-> u]
  BY <1>1 DEF FeedIs
<1>3. ViewIs(e, s, u)'
  BY <1>1, Zenon DEF FeedIs, ViewsStay
<1>4. ViewIs(feed.runEvents, feed.stage, feed.upTo)'
  BY <1>2, <1>3 DEF ViewIs
<1> QED BY <1>2, <1>4 DEF FeedIs

LEMMA PollStays ==
  ASSUME PollIs, ViewsStay, NEW m, poll' = poll \/ poll' = NoPoll \/ (poll /= NoPoll /\ poll' = [poll EXCEPT !.mirror = m])
  PROVE  PollIs'
<1>1. CASE poll' = NoPoll
  BY <1>1 DEF PollIs, NoPoll
<1>2. CASE poll' /= NoPoll
  <2>0. poll /= NoPoll
    BY <1>2
  <2>1. PICK e, s, u, n : poll = [pc |-> "asked", runEvents |-> e, stage |-> s, upTo |-> u, mirror |-> n]
    BY <2>0 DEF PollIs
  <2>2. ViewIs(e, s, u)
    BY <2>0, <2>1 DEF PollIs
  <2>3. ViewIs(e, s, u)'
    BY <2>2, Zenon DEF ViewsStay
  <2>4. PICK k : poll' = [pc |-> "asked", runEvents |-> e, stage |-> s, upTo |-> u, mirror |-> k]
    BY <1>2, <2>1
  <2>5. ViewIs(poll.runEvents, poll.stage, poll.upTo)'
    BY <2>3, <2>4 DEF ViewIs
  <2> QED BY <2>4, <2>5 DEF PollIs
<1> QED BY <1>1, <1>2

-----------------------------------------------------------------------------
LEMMA FactsStay ==
  ASSUME FactsAre, SameFacts, told' \in 0 .. Len(facts)
  PROVE  FactsAre'
BY DEF FactsAre, SameFacts

LEMMA FactsGrow ==
  ASSUME FactsAre, NEW f, NewFact(f), told' = told, analysis.no \in Nat, analysis'.no \in Nat,
         analysis.no <= analysis'.no
  PROVE  FactsAre'
<1>1. /\ facts' \in Seq(FactRec) /\ Len(facts') = Len(facts) + 1 /\ DOMAIN facts' = DOMAIN facts \cup {Len(facts) + 1}
      /\ facts'[Len(facts) + 1] = f /\ \A i \in DOMAIN facts : facts'[i] = facts[i]
      /\ facts' /= <<>>
  BY DEF FactsAre, NewFact
<1>2. \A i \in DOMAIN facts : facts[i].run \in Nat
  <2>1. \A i \in DOMAIN facts : facts[i] \in FactRec
    BY DEF FactsAre
  <2> QED BY <2>1 DEF FactRec, RunFact, CaseFact
<1>3. \A i \in DOMAIN facts' : facts'[i].run <= analysis'.no
  BY <1>1, <1>2 DEF FactsAre, NewFact
<1>4. told' \in 0 .. Len(facts')
  BY <1>1 DEF FactsAre
<1> QED BY <1>1, <1>3, <1>4 DEF FactsAre

\* A fact stays where it stands; one that is yet to be published stays so, and so is a new one.
LEMMA FactsKept ==
  ASSUME FactsAre, NEW f, facts' = facts \/ NewFact(f)
  PROVE  \A i \in DOMAIN facts : i \in DOMAIN facts' /\ facts'[i] = facts[i]
BY DEF FactsAre, NewFact

LEMMA EndsYetStays ==
  ASSUME FactsAre, NEW f, facts' = facts \/ NewFact(f), told' = told, NEW step, EndsYet(step)
  PROVE  EndsYet(step)'
<1>1. PICK i \in told + 1 .. Len(facts) : EndsStep(facts[i], step)
  BY DEF EndsYet
<1>2. i \in DOMAIN facts /\ Len(facts) \in Nat /\ told \in Nat
  BY <1>1 DEF FactsAre
<1>3. Len(facts') \in Nat /\ Len(facts') >= Len(facts) /\ facts'[i] = facts[i]
  BY <1>2, FactsKept DEF FactsAre, NewFact
<1>4. i \in told' + 1 .. Len(facts')
  BY <1>1, <1>2, <1>3
<1>5. EndsStep(facts'[i], step)
  BY <1>1, <1>3
<1>6. PICK g, n : g = facts' /\ n = told'
  OBVIOUS
<1>7. \E j \in n + 1 .. Len(g) : EndsStep(g[j], step)
  BY <1>4, <1>5, <1>6
<1> QED BY <1>6, <1>7 DEF EndsYet, EndsStep

LEMMA NewFactEnds ==
  ASSUME FactsAre, NEW f, NewFact(f), told' = told, NEW step, EndsStep(f, step)
  PROVE  EndsYet(step)'
<1>1. PICK g, n : g = facts' /\ n = told'
  OBVIOUS
<1>2. Len(g) \in Nat /\ g[Len(g)] = f /\ Len(g) \in n + 1 .. Len(g)
  BY <1>1 DEF FactsAre, NewFact
<1>3. \E j \in n + 1 .. Len(g) : EndsStep(g[j], step)
  BY <1>2
<1> QED BY <1>1, <1>3 DEF EndsYet, EndsStep

LEMMA StepSet ==
  ASSUME NEW x, feed'.step = x, StepHolds(x)'
  PROVE  StepIs'
BY DEF StepIs, StepHolds, EndsYet, EndsStep, StillOpen

LEMMA StepStays ==
  ASSUME FactsAre, StepIs, NEW f, facts' = facts \/ NewFact(f), told' = told, feed'.step = feed.step,
         feed.step /= NoStep /\ feed.step \in unheard => feed.step \in unheard' \/ StillOpen(feed.step)',
         feed.step /= NoStep /\ StillOpen(feed.step) =>
           StillOpen(feed.step)' \/ feed.step \in unheard' \/ EndsYet(feed.step)'
  PROVE  StepIs'
<1>1. PICK x : x = feed.step
  OBVIOUS
<1>2. feed'.step = x
  BY <1>1
<1>3. StillOpen(feed.step)' = StillOpen(x)'
  BY <1>1 DEF StillOpen
<1>4. EndsYet(feed.step)' = EndsYet(x)'
  BY <1>2 DEF EndsYet, EndsStep
<1>5. EndsYet(x) => EndsYet(x)'
  BY EndsYetStays
<1>6. StepHolds(x)
  BY <1>1 DEF StepIs
<1>7. x /= NoStep => x \in unheard' \/ EndsYet(x)' \/ StillOpen(x)'
  BY <1>1, <1>2, <1>3, <1>4, <1>5, <1>6 DEF StepHolds
<1>8. StepHolds(x)'
  BY <1>7 DEF StepHolds
<1> QED BY <1>2, <1>8, StepSet

LEMMA PollHears ==
  ASSUME PageHears
  PROVE  \E m : poll' = NoPoll \/ (poll /= NoPoll /\ poll' = [poll EXCEPT !.mirror = m])
<1>1. poll' = NoPoll \/ (poll /= NoPoll /\ poll' = [poll EXCEPT !.mirror = Heard(poll.mirror)])
  BY DEF PageHears
<1> QED BY <1>1

\* A pulse changes the step the page shows, if its stream is up, and no more of what it read.
LEMMA PulseIs ==
  ASSUME FeedIs, NEW key, NEW step, SendPulse(key, step)
  PROVE  \E x, m : /\ feed' = [feed EXCEPT !.step = x] /\ feed'.step = x
                   /\ (up /\ x = step) \/ (~up /\ x = feed.step)
                   /\ \/ poll' = poll \/ poll' = NoPoll
                      \/ (poll /= NoPoll /\ poll' = [poll EXCEPT !.mirror = m])
<1>1. CASE up
  <2>1. PageHears /\ feed' = [feed EXCEPT !.step = step]
    BY <1>1 DEF SendPulse
  <2>2. feed'.step = step
    BY <2>1 DEF FeedIs
  <2> QED BY <1>1, <2>1, <2>2, PollHears
<1>2. CASE ~up
  <2>1. poll' = poll /\ feed' = feed
    BY <1>2 DEF SendPulse
  <2>2. feed' = [feed EXCEPT !.step = feed.step]
    BY <2>1 DEF FeedIs
  <2> QED BY <1>2, <2>1, <2>2
<1> QED BY <1>1, <1>2

-----------------------------------------------------------------------------
\* The run's own steps.
LEMMA FeedBeginRun ==
  ASSUME FeedInv, BeginRun
  PROVE  FeedInv'
<1>1. FactsAre /\ WorkIs /\ RunIs /\ FeedIs /\ PollIs /\ StepIs
  BY DEF FeedInv
<1>2. analysis.pc = "idle" /\ analysis' = [pc |-> "mark", at |-> 0, no |-> analysis.no + 1]
  BY DEF BeginRun
<1>3. /\ analysis.no \in Nat /\ analysis'.no = analysis.no + 1 /\ analysis'.pc = "mark"
      /\ analysis.no <= analysis'.no /\ analysis'.no \in Nat
  BY <1>1, <1>2 DEF WorkIs
<1>4. /\ shown' = "analyzing" /\ told' = told /\ paper' = paper
      /\ live' = live /\ feed' = feed /\ poll' = poll /\ unheard' = unheard
  BY DEF BeginRun, Quietly
<1>5. PICK f : f = Fact("stage", "analyzing")
  OBVIOUS
<1>6. f \in FactRec /\ f.run = analysis.no /\ f.type = "stage"
  BY <1>3, <1>5 DEF Fact, FactRec, CaseFact
<1>7. \/ shown = "docs" /\ NewFact(f)
      \/ shown = "analyzing" /\ facts' = facts
  <2>1. f.run <= analysis'.no
    BY <1>3, <1>6
  <2> QED BY <1>5, <1>6, <2>1 DEF BeginRun, NewFact
<1>8. FactsAre'
  <2>1. CASE NewFact(f)
    BY <1>1, <1>3, <1>4, <2>1, FactsGrow
  <2>2. CASE shown = "analyzing" /\ facts' = facts
    <3>1. \A i \in DOMAIN facts : facts[i].run \in Nat
      <4>1. \A i \in DOMAIN facts : facts[i] \in FactRec
        BY <1>1 DEF FactsAre
      <4> QED BY <4>1 DEF FactRec, RunFact, CaseFact
    <3>2. \A i \in DOMAIN facts : facts[i].run <= analysis'.no
      BY <1>1, <1>3, <3>1 DEF FactsAre
    <3> QED BY <1>1, <1>4, <2>2, <3>2 DEF FactsAre
  <2> QED BY <1>7, <2>1, <2>2
<1>9. WorkIs'
  <2>1. \A i \in DOMAIN facts : i \in DOMAIN facts' /\ facts'[i] = facts[i]
    BY <1>1, <1>7, FactsKept
  <2>2. analysis' \in [pc : Pcs, at : 0 .. Checks, no : Nat]
    BY <1>2, <1>3, FeedAssumption DEF Pcs
  <2> QED BY <1>1, <1>3, <1>4, <2>1, <2>2 DEF WorkIs
<1>10. RunFacts' = <<>>
  <2>1. \A i \in DOMAIN facts : facts[i] \in FactRec /\ facts[i].run \in Nat /\ facts[i].run <= analysis.no
    <3>1. \A i \in DOMAIN facts : facts[i] \in FactRec
      BY <1>1 DEF FactsAre
    <3> QED BY <1>1, <3>1 DEF FactRec, RunFact, CaseFact, FactsAre
  <2>2. \A i \in DOMAIN facts' : facts'[i].run \in Nat /\ facts'[i].run <= analysis.no
    <3>1. CASE NewFact(f)
      <4>1. DOMAIN facts' = DOMAIN facts \cup {Len(facts) + 1} /\ facts'[Len(facts) + 1] = f
            /\ \A i \in DOMAIN facts : facts'[i] = facts[i]
        BY <1>1, <3>1 DEF FactsAre, NewFact
      <4> QED BY <1>3, <1>6, <2>1, <4>1
    <3>2. CASE facts' = facts
      BY <2>1, <3>2
    <3> QED BY <1>7, <3>1, <3>2
  <2>3. \A i \in DOMAIN facts' : ~Passes(facts'[i], analysis.no + 1)
    BY <1>3, <2>2 DEF Passes
  <2>4. facts' \in Seq(FactRec)
    BY <1>8 DEF FactsAre
  <2>5. OfRun(facts', analysis.no + 1) = <<>>
    BY <2>3, <2>4, OfRunOfOthers
  <2> QED BY <1>3, <2>5 DEF RunFacts
<1>11. RunIs'
  BY <1>10, NowCheckingOfNone DEF RunIs, Sayable
<1>12. ViewsStay
  <2>1. CASE NewFact(f)
    BY <1>1, <1>3, <2>1, WhenNews
  <2>2. CASE shown = "analyzing" /\ facts' = facts
    <3>1. SUFFICES ASSUME NEW events, NEW stage, NEW upTo, ViewIs(events, stage, upTo)
                   PROVE  ViewIs(events, stage, upTo)'
      BY DEF ViewsStay
    <3>2. \A i \in DOMAIN events : events[i].run \in Nat /\ events[i].run <= analysis.no
      <4>1. \A i \in DOMAIN events : events[i] \in RunFact
        BY <3>1 DEF ViewIs
      <4> QED BY <3>1, <4>1 DEF ViewIs, RunFact
    <3>3. \A i \in DOMAIN events : ~Passes(events[i], analysis'.no) /\ events[i].run <= analysis'.no
      BY <1>3, <3>2 DEF Passes
    <3>4. events \in Seq(RunFact)
      BY <3>1 DEF ViewIs
    <3>5. OfRun(events, analysis'.no) = <<>>
      BY <3>3, <3>4, OfRunOfOthers
    <3>6. Sayable' = Sayable
      BY <1>2, <1>3, <1>4 DEF Sayable
    <3> QED BY <1>4, <1>10, <2>2, <3>1, <3>3, <3>5, <3>6 DEF ViewIs
  <2> QED BY <1>7, <2>1, <2>2
<1>13. FeedIs' /\ PollIs'
  <2>1. feed' = [feed EXCEPT !.step = feed.step]
    BY <1>1, <1>4 DEF FeedIs
  <2> QED BY <1>1, <1>4, <1>12, <2>1, FeedStays, PollStays
<1>14. StepIs'
  <2>1. StillOpen(feed.step) => StillOpen(feed.step)'
    BY <1>3, <1>4 DEF StillOpen
  <2> QED BY <1>1, <1>4, <1>7, <2>1, StepStays
<1> QED BY <1>8, <1>9, <1>11, <1>13, <1>14 DEF FeedInv

LEMMA FeedMarkStep ==
  ASSUME FeedInv, MarkStep
  PROVE  FeedInv'
<1>1. FactsAre /\ WorkIs /\ RunIs /\ FeedIs /\ PollIs /\ StepIs
  BY DEF FeedInv
<1>2. /\ analysis.pc = "mark" /\ analysis' = [analysis EXCEPT !.pc = "begin"]
      /\ shown' = shown /\ told' = told /\ paper' = paper
      /\ live' = live /\ feed' = feed /\ poll' = poll /\ unheard' = unheard
  BY DEF MarkStep, Quietly, RunAt
<1>3. /\ analysis.no \in Nat /\ analysis'.no = analysis.no /\ analysis'.pc = "begin"
      /\ analysis'.at = analysis.at /\ analysis.at \in 0 .. Checks /\ analysis.no <= analysis'.no
      /\ analysis' \in [pc : Pcs, at : 0 .. Checks, no : Nat]
  BY <1>1, <1>2 DEF WorkIs, Pcs
<1>4. PICK f : f = Fact(IF analysis.at = 0 THEN "phase" ELSE "progress", analysis.at)
  OBVIOUS
<1>5. /\ f \in RunFact /\ f \in FactRec /\ f.run = analysis.no /\ f.what = analysis.at
      /\ f.type /= "completed" /\ Passes(f, analysis.no)
  BY <1>3, <1>4 DEF Fact, FactRec, RunFact, RunTypes, Passes
<1>6. NewFact(f)
  BY <1>3, <1>4, <1>5 DEF MarkStep, NewFact
<1>7. FactsAre' /\ ViewsStay
  BY <1>1, <1>2, <1>3, <1>6, FactsGrow, WhenNews
<1>8. WorkIs'
  <2>1. \A i \in DOMAIN facts : i \in DOMAIN facts' /\ facts'[i] = facts[i]
    BY <1>1, <1>6, FactsKept
  <2> QED BY <1>1, <1>2, <1>3, <2>1 DEF WorkIs
<1>9. RunIs'
  <2>1. RunFacts' = Append(RunFacts, f)
    BY <1>1, <1>3, <1>5, <1>6, OfRunOfMore DEF RunFacts, FactsAre, NewFact
  <2>2. NowChecking(RunFacts') = f.what
    BY <1>1, <1>5, <2>1, FactsOfRun, NowCheckingOfMore
  <2>3. f.what \in Sayable'
    BY <1>3, <1>5 DEF Sayable
  <2> QED BY <2>2, <2>3 DEF RunIs
<1>10. FeedIs' /\ PollIs'
  <2>1. feed' = [feed EXCEPT !.step = feed.step]
    BY <1>1, <1>2 DEF FeedIs
  <2> QED BY <1>1, <1>2, <1>7, <2>1, FeedStays, PollStays
<1>11. StepIs'
  <2>1. StillOpen(feed.step) => StillOpen(feed.step)'
    BY <1>2, <1>3 DEF StillOpen
  <2> QED BY <1>1, <1>2, <1>6, <2>1, StepStays
<1> QED BY <1>7, <1>8, <1>9, <1>10, <1>11 DEF FeedInv

LEMMA FeedStartStep ==
  ASSUME FeedInv, StartStep
  PROVE  FeedInv'
<1>1. FactsAre /\ WorkIs /\ RunIs /\ FeedIs /\ PollIs /\ StepIs
  BY DEF FeedInv
<1>2. /\ analysis.pc = "begin" /\ analysis' = [analysis EXCEPT !.pc = "work"]
      /\ facts' = facts /\ shown' = shown /\ told' = told /\ paper' = paper
      /\ live' = [live EXCEPT ![Run] = analysis.at] /\ SendPulse(Run, analysis.at)
      /\ unheard' = (IF up THEN unheard ELSE unheard \cup ({live[Run]} \ {NoStep})) \ {analysis.at}
  BY DEF StartStep, RunAt, BeginStep
<1>3. /\ analysis.no \in Nat /\ analysis'.no = analysis.no /\ analysis'.pc = "work"
      /\ analysis'.at = analysis.at /\ analysis.at \in 0 .. Checks /\ analysis.no <= analysis'.no
      /\ analysis' \in [pc : Pcs, at : 0 .. Checks, no : Nat]
  BY <1>1, <1>2 DEF WorkIs, Pcs
<1>4. /\ live'[Run] = analysis.at /\ live'[Paper] = live[Paper] /\ analysis.at /= NoStep
      /\ live' \in [Keys -> 0 .. Checks \cup {NoStep, Paper}]
  BY <1>1, <1>2, <1>3, FeedAssumption DEF WorkIs, Keys
<1>5. SameFacts
  BY <1>2, <1>3 DEF SameFacts
<1>6. MoreSaid
  <2>1. SUFFICES ASSUME NEW x, x \in Sayable PROVE x \in Sayable'
    BY DEF MoreSaid
  <2>2. x = NoStep \/ x \in unheard \/ x = analysis.at
    BY <1>2, <2>1 DEF Sayable
  <2>3. x = NoStep \/ x \in unheard' \/ x = live'[Run]
    BY <1>2, <1>4, <2>2
  <2> QED BY <1>3, <2>3 DEF Sayable
<1>7. FactsAre' /\ ViewsStay /\ RunIs'
  <2>1. told' \in 0 .. Len(facts)
    BY <1>1, <1>2 DEF FactsAre
  <2> QED BY <1>1, <1>5, <1>6, <2>1, FactsStay, WhenNoNews
<1>8. WorkIs'
  BY <1>1, <1>2, <1>3, <1>4 DEF WorkIs
<1>9. PICK x, m : /\ feed' = [feed EXCEPT !.step = x] /\ feed'.step = x
                  /\ (up /\ x = analysis.at) \/ (~up /\ x = feed.step)
                  /\ \/ poll' = poll \/ poll' = NoPoll
                     \/ (poll /= NoPoll /\ poll' = [poll EXCEPT !.mirror = m])
  BY <1>1, <1>2, PulseIs
<1>10. FeedIs' /\ PollIs'
  BY <1>1, <1>7, <1>9, FeedStays, PollStays
<1>11. StepIs'
  <2>1. CASE x = analysis.at
    <3>1. StillOpen(x)'
      BY <1>3, <1>4, <2>1 DEF StillOpen
    <3>2. StepHolds(x)'
      BY <3>1 DEF StepHolds
    <3> QED BY <1>9, <3>2, StepSet
  <2>2. CASE x /= analysis.at
    <3>1. ~up /\ feed'.step = feed.step /\ feed.step /= analysis.at
      BY <1>9, <2>2
    <3>2. feed.step /= NoStep /\ feed.step \in unheard => feed.step \in unheard'
      BY <1>2, <3>1
    <3>3. feed.step /= NoStep /\ StillOpen(feed.step) => StillOpen(feed.step)' \/ feed.step \in unheard'
      BY <1>2, <1>4, <3>1 DEF StillOpen
    <3> QED BY <1>1, <1>2, <3>1, <3>2, <3>3, StepStays
  <2> QED BY <2>1, <2>2
<1> QED BY <1>7, <1>8, <1>10, <1>11 DEF FeedInv

LEMMA FeedFinishStep ==
  ASSUME FeedInv, FinishStep
  PROVE  FeedInv'
<1>1. FactsAre /\ WorkIs /\ RunIs /\ FeedIs /\ PollIs /\ StepIs
  BY DEF FeedInv
<1>2. /\ analysis.pc = "work" /\ live[Run] = analysis.at
      /\ analysis' = IF analysis.at < Checks THEN [analysis EXCEPT !.pc = "mark", !.at = analysis.at + 1]
                     ELSE [analysis EXCEPT !.pc = "handoff"]
      /\ shown' = shown /\ told' = told /\ paper' = paper
      /\ live' = live /\ feed' = feed /\ poll' = poll /\ unheard' = unheard
  BY <1>1 DEF FinishStep, Quietly, WorkIs
<1>3. /\ analysis.no \in Nat /\ analysis'.no = analysis.no /\ analysis.no <= analysis'.no
      /\ analysis.at \in 0 .. Checks /\ analysis' \in [pc : Pcs, at : 0 .. Checks, no : Nat]
      /\ analysis'.pc \in {"mark", "handoff"}
      /\ analysis'.pc = "handoff" => analysis.at > 0
  <2>1. analysis \in [pc : Pcs, at : 0 .. Checks, no : Nat] /\ analysis.at \in Nat /\ Checks \in Nat /\ Checks > 0
    BY <1>1, FeedAssumption DEF WorkIs
  <2>2. CASE analysis.at < Checks
    <3>1. PICK k \in 0 .. Checks : k = analysis.at + 1
      BY <2>1, <2>2
    <3>2. analysis' = [analysis EXCEPT !.pc = "mark", !.at = k]
      BY <1>2, <2>2, <3>1
    <3>3. analysis' \in [pc : Pcs, at : 0 .. Checks, no : Nat] /\ analysis'.no = analysis.no /\ analysis'.pc = "mark"
      BY <2>1, <3>2 DEF Pcs
    <3> QED BY <2>1, <3>3
  <2>3. CASE ~(analysis.at < Checks)
    <3>1. analysis' = [analysis EXCEPT !.pc = "handoff"] /\ analysis.at > 0
      BY <1>2, <2>1, <2>3
    <3> QED BY <2>1, <3>1 DEF Pcs
  <2> QED BY <2>2, <2>3
<1>4. PICK f : f = Fact("completed", analysis.at)
  OBVIOUS
<1>5. /\ f \in RunFact /\ f \in FactRec /\ f.run = analysis.no /\ f.what = analysis.at
      /\ f.type = "completed" /\ Passes(f, analysis.no)
  BY <1>3, <1>4 DEF Fact, FactRec, RunFact, RunTypes, Passes
<1>6. (analysis.at > 0 /\ NewFact(f)) \/ (~(analysis.at > 0) /\ facts' = facts)
  BY <1>3, <1>4, <1>5 DEF FinishStep, NewFact
<1>7. MoreSaid
  BY <1>2, <1>3 DEF MoreSaid, Sayable
<1>8. FactsAre' /\ ViewsStay /\ RunIs'
  <2>1. CASE NewFact(f)
    <3>1. RunFacts' = Append(RunFacts, f)
      BY <1>1, <1>3, <1>5, <2>1, OfRunOfMore DEF RunFacts, FactsAre, NewFact
    <3>2. PICK r : r = RunFacts
      OBVIOUS
    <3>3. r \in Seq(RunFact)
      BY <1>1, <3>2, FactsOfRun
    <3>4. NowChecking(RunFacts') \in {NowChecking(r), NoStep}
      BY <1>5, <3>1, <3>2, <3>3, NowCheckingOfMore
    <3>5. shown = "analyzing" => NowChecking(r) \in Sayable'
      BY <1>1, <1>7, <3>2, <3>3, SayableStays DEF RunIs
    <3>6. RunIs'
      BY <1>2, <3>4, <3>5 DEF RunIs, Sayable
    <3> QED BY <1>1, <1>2, <1>3, <2>1, <3>6, FactsGrow, WhenNews
  <2>2. CASE facts' = facts
    <3>1. SameFacts
      BY <1>2, <1>3, <2>2 DEF SameFacts
    <3>2. told' \in 0 .. Len(facts)
      BY <1>1, <1>2 DEF FactsAre
    <3> QED BY <1>1, <1>7, <3>1, <3>2, FactsStay, WhenNoNews
  <2> QED BY <1>6, <2>1, <2>2
<1>9. WorkIs'
  <2>1. \A i \in DOMAIN facts : i \in DOMAIN facts' /\ facts'[i] = facts[i]
    BY <1>1, <1>6, FactsKept
  <2>2. analysis'.pc = "handoff" =>
          \E i \in DOMAIN facts' : /\ facts'[i].type = "completed" /\ facts'[i].what = live'[Run]
                                   /\ facts'[i].run = analysis'.no
    <3>1. SUFFICES ASSUME analysis'.pc = "handoff"
                   PROVE  \E i \in DOMAIN facts' : /\ facts'[i].type = "completed" /\ facts'[i].what = live'[Run]
                                                   /\ facts'[i].run = analysis'.no
      OBVIOUS
    <3>2. NewFact(f)
      BY <1>3, <1>6, <3>1
    <3>3. Len(facts) + 1 \in DOMAIN facts' /\ facts'[Len(facts) + 1] = f
      BY <1>1, <3>2 DEF FactsAre, NewFact
    <3> QED BY <1>2, <1>3, <1>5, <3>3
  <2> QED BY <1>1, <1>2, <1>3, <2>1, <2>2 DEF WorkIs
<1>10. FeedIs' /\ PollIs'
  <2>1. feed' = [feed EXCEPT !.step = feed.step]
    BY <1>1, <1>2 DEF FeedIs
  <2> QED BY <1>1, <1>2, <1>8, <2>1, FeedStays, PollStays
<1>11. StepIs'
  <2>1. StillOpen(feed.step) => StillOpen(feed.step)'
    BY <1>2, <1>3 DEF StillOpen
  <2> QED BY <1>1, <1>2, <1>6, <2>1, StepStays
<1> QED BY <1>8, <1>9, <1>10, <1>11 DEF FeedInv

LEMMA FeedHandOver ==
  ASSUME FeedInv, HandOver
  PROVE  FeedInv'
<1>1. FactsAre /\ WorkIs /\ RunIs /\ FeedIs /\ PollIs /\ StepIs
  BY DEF FeedInv
<1>2. /\ analysis.pc = "handoff" /\ analysis' = [analysis EXCEPT !.pc = "end"]
      /\ shown' = "quality" /\ told' = told /\ paper' = paper
      /\ live' = live /\ feed' = feed /\ poll' = poll /\ unheard' = unheard
  BY DEF HandOver, Quietly, RunAt
<1>3. /\ analysis.no \in Nat /\ analysis'.no = analysis.no /\ analysis'.pc = "end"
      /\ analysis.no <= analysis'.no /\ analysis' \in [pc : Pcs, at : 0 .. Checks, no : Nat]
  BY <1>1, <1>2 DEF WorkIs, Pcs
<1>4. PICK f : f = Fact("stage", "quality")
  OBVIOUS
<1>5. f \in FactRec /\ f.run = analysis.no /\ f.type = "stage"
  BY <1>3, <1>4 DEF Fact, FactRec, CaseFact
<1>6. NewFact(f)
  BY <1>3, <1>4, <1>5 DEF HandOver, NewFact
<1>7. FactsAre' /\ ViewsStay
  BY <1>1, <1>2, <1>3, <1>6, FactsGrow, WhenNews
<1>8. WorkIs'
  <2>1. \A i \in DOMAIN facts : i \in DOMAIN facts' /\ facts'[i] = facts[i]
    BY <1>1, <1>6, FactsKept
  <2> QED BY <1>1, <1>2, <1>3, <2>1 DEF WorkIs
<1>9. RunIs'
  BY <1>2 DEF RunIs
<1>10. FeedIs' /\ PollIs'
  <2>1. feed' = [feed EXCEPT !.step = feed.step]
    BY <1>1, <1>2 DEF FeedIs
  <2> QED BY <1>1, <1>2, <1>7, <2>1, FeedStays, PollStays
<1>11. StepIs'
  <2>1. PICK x : x = feed.step
    OBVIOUS
  <2>2. EndsYet(x)'
    BY <1>1, <1>2, <1>5, <1>6, NewFactEnds DEF EndsStep
  <2>3. StepHolds(x)'
    BY <2>2 DEF StepHolds
  <2> QED BY <1>2, <2>1, <2>3, StepSet
<1> QED BY <1>7, <1>8, <1>9, <1>10, <1>11 DEF FeedInv

LEMMA FeedEndRun ==
  ASSUME FeedInv, EndRun
  PROVE  FeedInv'
<1>1. FactsAre /\ WorkIs /\ RunIs /\ FeedIs /\ PollIs /\ StepIs
  BY DEF FeedInv
<1>2. /\ analysis.pc = "end" /\ analysis' = [analysis EXCEPT !.pc = "idle"]
      /\ facts' = facts /\ shown' = shown /\ told' = told /\ paper' = paper
      /\ live' = [live EXCEPT ![Run] = NoStep] /\ feed' = feed /\ poll' = poll /\ unheard' = unheard
  BY DEF EndRun, RunAt, EndStep
<1>3. /\ analysis'.no = analysis.no /\ analysis'.pc = "idle" /\ shown = "quality"
      /\ analysis' \in [pc : Pcs, at : 0 .. Checks, no : Nat]
  BY <1>1, <1>2 DEF WorkIs, Pcs
<1>4. /\ live'[Run] = NoStep /\ live'[Paper] = live[Paper]
      /\ live' \in [Keys -> 0 .. Checks \cup {NoStep, Paper}]
  BY <1>1, <1>2, FeedAssumption DEF WorkIs, Keys
<1>5. SameFacts /\ MoreSaid
  BY <1>2, <1>3 DEF SameFacts, MoreSaid
<1>6. FactsAre' /\ ViewsStay /\ RunIs'
  <2>1. told' \in 0 .. Len(facts)
    BY <1>1, <1>2 DEF FactsAre
  <2> QED BY <1>1, <1>5, <2>1, FactsStay, WhenNoNews
<1>7. WorkIs'
  BY <1>1, <1>2, <1>3, <1>4 DEF WorkIs
<1>8. FeedIs' /\ PollIs'
  <2>1. feed' = [feed EXCEPT !.step = feed.step]
    BY <1>1, <1>2 DEF FeedIs
  <2> QED BY <1>1, <1>2, <1>6, <2>1, FeedStays, PollStays
<1>9. StepIs'
  <2>1. StillOpen(feed.step) => StillOpen(feed.step)'
    BY <1>2, <1>4 DEF StillOpen
  <2> QED BY <1>1, <1>2, <2>1, StepStays
<1> QED BY <1>6, <1>7, <1>8, <1>9 DEF FeedInv

LEMMA FeedRunThrows ==
  ASSUME FeedInv, RunThrows
  PROVE  FeedInv'
<1>1. FactsAre /\ WorkIs /\ RunIs /\ FeedIs /\ PollIs /\ StepIs
  BY DEF FeedInv
<1>2. /\ analysis.pc \notin {"idle", "end"} /\ analysis' = [analysis EXCEPT !.pc = "idle"]
      /\ facts' = facts /\ shown' = shown /\ told' = told /\ paper' = paper
      /\ live' = [live EXCEPT ![Run] = NoStep] /\ feed' = feed /\ poll' = poll
      /\ unheard' = unheard \cup ({live[Run]} \ {NoStep}) \cup Marked
  BY DEF RunThrows, RunAt, EndStep
<1>3. /\ analysis'.no = analysis.no /\ analysis'.pc = "idle"
      /\ analysis' \in [pc : Pcs, at : 0 .. Checks, no : Nat]
  BY <1>1, <1>2 DEF WorkIs, Pcs
<1>4. /\ live'[Run] = NoStep /\ live'[Paper] = live[Paper]
      /\ live' \in [Keys -> 0 .. Checks \cup {NoStep, Paper}]
  BY <1>1, <1>2, FeedAssumption DEF WorkIs, Keys
<1>5. SameFacts /\ MoreSaid
  BY <1>2, <1>3, <1>4, MarkedIs DEF SameFacts, MoreSaid, Sayable
<1>6. FactsAre' /\ ViewsStay /\ RunIs'
  <2>1. told' \in 0 .. Len(facts)
    BY <1>1, <1>2 DEF FactsAre
  <2> QED BY <1>1, <1>5, <2>1, FactsStay, WhenNoNews
<1>7. WorkIs'
  BY <1>1, <1>2, <1>3, <1>4 DEF WorkIs
<1>8. FeedIs' /\ PollIs'
  <2>1. feed' = [feed EXCEPT !.step = feed.step]
    BY <1>1, <1>2 DEF FeedIs
  <2> QED BY <1>1, <1>2, <1>6, <2>1, FeedStays, PollStays
<1>9. StepIs'
  <2>1. feed.step /= NoStep /\ StillOpen(feed.step) => StillOpen(feed.step)' \/ feed.step \in unheard'
    BY <1>2, <1>4 DEF StillOpen
  <2> QED BY <1>1, <1>2, <2>1, StepStays
<1> QED BY <1>6, <1>7, <1>8, <1>9 DEF FeedInv

-----------------------------------------------------------------------------
\* The reading of the document, and a process that dies.
LEMMA FeedStartPaper ==
  ASSUME FeedInv, StartPaper
  PROVE  FeedInv'
<1>1. FactsAre /\ WorkIs /\ RunIs /\ FeedIs /\ PollIs /\ StepIs
  BY DEF FeedInv
<1>2. /\ paper' = "marked" /\ shown' = shown /\ told' = told /\ analysis' = analysis
      /\ live' = live /\ feed' = feed /\ poll' = poll /\ unheard' = unheard
  BY DEF StartPaper, Quietly
<1>3. analysis.no \in Nat /\ analysis'.no = analysis.no /\ analysis.no <= analysis'.no
  BY <1>1, <1>2 DEF WorkIs
<1>4. PICK f : f = Fact("started", Paper)
  OBVIOUS
<1>5. f \in FactRec /\ f.run = analysis.no /\ ~Passes(f, analysis.no)
  BY <1>3, <1>4 DEF Fact, FactRec, CaseFact, Passes, RunTypes
<1>6. NewFact(f)
  BY <1>3, <1>4, <1>5 DEF StartPaper, NewFact
<1>7. FactsAre' /\ ViewsStay
  BY <1>1, <1>2, <1>3, <1>6, FactsGrow, WhenNews
<1>8. WorkIs'
  <2>1. \A i \in DOMAIN facts : i \in DOMAIN facts' /\ facts'[i] = facts[i]
    BY <1>1, <1>6, FactsKept
  <2> QED BY <1>1, <1>2, <2>1 DEF WorkIs
<1>9. RunIs'
  <2>1. RunFacts' = RunFacts
    BY <1>1, <1>3, <1>5, <1>6, OfRunOfMore DEF RunFacts, FactsAre, NewFact
  <2> QED BY <1>1, <1>2, <2>1 DEF RunIs, Sayable
<1>10. FeedIs' /\ PollIs'
  <2>1. feed' = [feed EXCEPT !.step = feed.step]
    BY <1>1, <1>2 DEF FeedIs
  <2> QED BY <1>1, <1>2, <1>7, <2>1, FeedStays, PollStays
<1>11. StepIs'
  <2>1. StillOpen(feed.step) => StillOpen(feed.step)'
    BY <1>2 DEF StillOpen
  <2> QED BY <1>1, <1>2, <1>6, <2>1, StepStays
<1> QED BY <1>7, <1>8, <1>9, <1>10, <1>11 DEF FeedInv

LEMMA FeedSavePaper ==
  ASSUME FeedInv, SavePaper
  PROVE  FeedInv'
<1>1. FactsAre /\ WorkIs /\ RunIs /\ FeedIs /\ PollIs /\ StepIs
  BY DEF FeedInv
<1>2. /\ paper' = "saved" /\ shown' = shown /\ told' = told /\ analysis' = analysis
      /\ live' = live /\ feed' = feed /\ poll' = poll /\ unheard' = unheard
  BY DEF SavePaper, Quietly
<1>3. analysis.no \in Nat /\ analysis'.no = analysis.no /\ analysis.no <= analysis'.no
  BY <1>1, <1>2 DEF WorkIs
<1>4. PICK f : f = Fact("done", Paper)
  OBVIOUS
<1>5. f \in FactRec /\ f.run = analysis.no /\ f.type = "done" /\ ~Passes(f, analysis.no)
  BY <1>3, <1>4 DEF Fact, FactRec, CaseFact, Passes, RunTypes
<1>6. NewFact(f)
  BY <1>3, <1>4, <1>5 DEF SavePaper, NewFact
<1>7. FactsAre' /\ ViewsStay
  BY <1>1, <1>2, <1>3, <1>6, FactsGrow, WhenNews
<1>8. WorkIs'
  <2>1. \A i \in DOMAIN facts : i \in DOMAIN facts' /\ facts'[i] = facts[i]
    BY <1>1, <1>6, FactsKept
  <2>2. Len(facts) + 1 \in DOMAIN facts' /\ facts'[Len(facts) + 1] = f
    BY <1>1, <1>6 DEF FactsAre, NewFact
  <2> QED BY <1>1, <1>2, <1>5, <2>1, <2>2 DEF WorkIs
<1>9. RunIs'
  <2>1. RunFacts' = RunFacts
    BY <1>1, <1>3, <1>5, <1>6, OfRunOfMore DEF RunFacts, FactsAre, NewFact
  <2> QED BY <1>1, <1>2, <2>1 DEF RunIs, Sayable
<1>10. FeedIs' /\ PollIs'
  <2>1. feed' = [feed EXCEPT !.step = feed.step]
    BY <1>1, <1>2 DEF FeedIs
  <2> QED BY <1>1, <1>2, <1>7, <2>1, FeedStays, PollStays
<1>11. StepIs'
  <2>1. CASE feed.step = Paper
    <3>1. PICK x : x = feed.step
      OBVIOUS
    <3>2. EndsYet(x)'
      BY <1>1, <1>2, <1>5, <1>6, <2>1, <3>1, NewFactEnds DEF EndsStep
    <3>3. StepHolds(x)'
      BY <3>2 DEF StepHolds
    <3> QED BY <1>2, <3>1, <3>3, StepSet
  <2>2. CASE feed.step /= Paper
    <3>1. feed.step /= NoStep /\ StillOpen(feed.step) => StillOpen(feed.step)'
      BY <1>1, <1>2, <2>2 DEF StillOpen, WorkIs
    <3> QED BY <1>1, <1>2, <1>6, <3>1, StepStays
  <2> QED BY <2>1, <2>2
<1> QED BY <1>7, <1>8, <1>9, <1>10, <1>11 DEF FeedInv

LEMMA FeedReadPaper ==
  ASSUME FeedInv, ReadPaper
  PROVE  FeedInv'
<1>1. FactsAre /\ WorkIs /\ RunIs /\ FeedIs /\ PollIs /\ StepIs
  BY DEF FeedInv
<1>2. /\ paper' = "reading" /\ analysis' = analysis
      /\ facts' = facts /\ shown' = shown /\ told' = told
      /\ live' = [live EXCEPT ![Paper] = Paper] /\ SendPulse(Paper, Paper)
      /\ unheard' = (IF up THEN unheard ELSE unheard \cup ({live[Paper]} \ {NoStep})) \ {Paper}
  BY DEF ReadPaper, BeginStep
<1>3. /\ live'[Paper] = Paper /\ live'[Run] = live[Run] /\ Paper /= NoStep
      /\ live' \in [Keys -> 0 .. Checks \cup {NoStep, Paper}]
  BY <1>1, <1>2, FeedAssumption DEF WorkIs, Keys
<1>4. SameFacts
  BY <1>2 DEF SameFacts
<1>5. MoreSaid
  <2>1. SUFFICES ASSUME NEW x \in 0 .. Checks, x \in Sayable PROVE x \in Sayable'
    BY DEF MoreSaid
  <2>2. x /= Paper
    BY FeedAssumption
  <2> QED BY <1>2, <1>3, <2>1, <2>2 DEF Sayable
<1>6. FactsAre' /\ ViewsStay /\ RunIs'
  <2>1. told' \in 0 .. Len(facts)
    BY <1>1, <1>2 DEF FactsAre
  <2> QED BY <1>1, <1>4, <1>5, <2>1, FactsStay, WhenNoNews
<1>7. WorkIs'
  BY <1>1, <1>2, <1>3 DEF WorkIs
<1>8. PICK x, m : /\ feed' = [feed EXCEPT !.step = x] /\ feed'.step = x
                  /\ (up /\ x = Paper) \/ (~up /\ x = feed.step)
                  /\ \/ poll' = poll \/ poll' = NoPoll
                     \/ (poll /= NoPoll /\ poll' = [poll EXCEPT !.mirror = m])
  BY <1>1, <1>2, PulseIs
<1>9. FeedIs' /\ PollIs'
  BY <1>1, <1>6, <1>8, FeedStays, PollStays
<1>10. StepIs'
  <2>1. CASE x = Paper
    <3>1. StillOpen(x)'
      BY <1>2, <1>3, <2>1 DEF StillOpen
    <3>2. StepHolds(x)'
      BY <3>1 DEF StepHolds
    <3> QED BY <1>8, <3>2, StepSet
  <2>2. CASE x /= Paper
    <3>1. feed'.step = feed.step /\ feed.step /= Paper
      BY <1>8, <2>2
    <3>2. feed.step /= NoStep /\ feed.step \in unheard => feed.step \in unheard'
      BY <1>2, <3>1
    <3>3. feed.step /= NoStep /\ StillOpen(feed.step) => StillOpen(feed.step)'
      BY <1>1, <1>2, <1>3, <3>1 DEF StillOpen, WorkIs
    <3> QED BY <1>1, <1>2, <3>1, <3>2, <3>3, StepStays
  <2> QED BY <2>1, <2>2
<1> QED BY <1>6, <1>7, <1>9, <1>10 DEF FeedInv

LEMMA FeedClosePaper ==
  ASSUME FeedInv, ClosePaper \/ PaperFails
  PROVE  FeedInv'
<1>1. FactsAre /\ WorkIs /\ RunIs /\ FeedIs /\ PollIs /\ StepIs
  BY DEF FeedInv
<1>2. /\ paper' = "closed" /\ analysis' = analysis
      /\ facts' = facts /\ shown' = shown /\ told' = told
      /\ live' = [live EXCEPT ![Paper] = NoStep] /\ feed' = feed /\ poll' = poll
      /\ (paper = "saved" /\ unheard' = unheard) \/ unheard' = unheard \cup {Paper}
  BY DEF ClosePaper, PaperFails, EndStep
<1>3. /\ live'[Paper] = NoStep /\ live'[Run] = live[Run]
      /\ live' \in [Keys -> 0 .. Checks \cup {NoStep, Paper}]
  BY <1>1, <1>2, FeedAssumption DEF WorkIs, Keys
<1>4. SameFacts /\ MoreSaid
  BY <1>2, <1>3 DEF SameFacts, MoreSaid, Sayable
<1>5. FactsAre' /\ ViewsStay /\ RunIs'
  <2>1. told' \in 0 .. Len(facts)
    BY <1>1, <1>2 DEF FactsAre
  <2> QED BY <1>1, <1>4, <2>1, FactsStay, WhenNoNews
<1>6. WorkIs'
  BY <1>1, <1>2, <1>3 DEF WorkIs
<1>7. FeedIs' /\ PollIs'
  <2>1. feed' = [feed EXCEPT !.step = feed.step]
    BY <1>1, <1>2 DEF FeedIs
  <2> QED BY <1>1, <1>2, <1>5, <2>1, FeedStays, PollStays
<1>8. StepIs'
  <2>1. feed.step /= NoStep /\ StillOpen(feed.step) => StillOpen(feed.step)' \/ feed.step \in unheard'
    BY <1>1, <1>2, <1>3 DEF StillOpen, WorkIs
  <2> QED BY <1>1, <1>2, <2>1, StepStays
<1> QED BY <1>5, <1>6, <1>7, <1>8 DEF FeedInv

LEMMA FeedProcessDies ==
  ASSUME FeedInv, ProcessDies
  PROVE  FeedInv'
<1>1. FactsAre /\ WorkIs /\ RunIs /\ FeedIs /\ PollIs /\ StepIs
  BY DEF FeedInv
<1>2. /\ analysis' = [analysis EXCEPT !.pc = "idle"] /\ paper' /= "saved"
      /\ facts' = facts /\ shown' = shown /\ told' = told
      /\ live' = [k \in Keys |-> NoStep] /\ feed' = feed /\ poll' = poll
      /\ unheard' = unheard \cup Open \cup Marked
  BY DEF ProcessDies, RunAt
<1>3. /\ analysis'.no = analysis.no /\ analysis'.pc = "idle"
      /\ analysis' \in [pc : Pcs, at : 0 .. Checks, no : Nat]
  BY <1>1, <1>2 DEF WorkIs, Pcs
<1>4. /\ live'[Run] = NoStep /\ live'[Paper] = NoStep
      /\ live' \in [Keys -> 0 .. Checks \cup {NoStep, Paper}]
  BY <1>2 DEF Keys
<1>5. SameFacts /\ MoreSaid
  <2>1. MoreSaid
    <3>1. SUFFICES ASSUME NEW x, x \in Sayable PROVE x \in Sayable'
      BY DEF MoreSaid
    <3>2. x = NoStep \/ x \in unheard \cup Open \cup Marked
      BY <3>1, OpenIs, MarkedIs DEF Sayable
    <3> QED BY <1>2, <3>2 DEF Sayable
  <2> QED BY <1>2, <1>3, <2>1 DEF SameFacts
<1>6. FactsAre' /\ ViewsStay /\ RunIs'
  <2>1. told' \in 0 .. Len(facts)
    BY <1>1, <1>2 DEF FactsAre
  <2> QED BY <1>1, <1>5, <2>1, FactsStay, WhenNoNews
<1>7. WorkIs'
  BY <1>1, <1>2, <1>3, <1>4 DEF WorkIs
<1>8. FeedIs' /\ PollIs'
  <2>1. feed' = [feed EXCEPT !.step = feed.step]
    BY <1>1, <1>2 DEF FeedIs
  <2> QED BY <1>1, <1>2, <1>6, <2>1, FeedStays, PollStays
<1>9. StepIs'
  <2>1. feed.step /= NoStep /\ StillOpen(feed.step) => feed.step \in unheard'
    BY <1>2, OpenIs DEF StillOpen
  <2> QED BY <1>1, <1>2, <2>1, StepStays
<1> QED BY <1>6, <1>7, <1>8, <1>9 DEF FeedInv

-----------------------------------------------------------------------------
\* What the page does and hears.
LEMMA OpenAndUntold ==
  ASSUME FactsAre, WorkIs, NEW x, x \in Open, ~EndTold(x)
  PROVE  EndsYet(x) \/ StillOpen(x)
<1>1. Len(facts) \in Nat /\ told \in Nat /\ DOMAIN facts = 1 .. Len(facts)
  BY DEF FactsAre
<1>2. ASSUME NEW i \in DOMAIN facts, EndsStep(facts[i], x), i \notin 1 .. told PROVE EndsYet(x)
  <2>1. i \in told + 1 .. Len(facts)
    BY <1>1, <1>2
  <2> QED BY <1>2, <2>1 DEF EndsYet
<1>3. CASE x = live[Run] /\ analysis.pc = "end"
  <2>1. PICK i \in DOMAIN facts : /\ facts[i].type = "completed" /\ facts[i].what = live[Run]
                                  /\ facts[i].run = analysis.no
    BY <1>3 DEF WorkIs
  <2>2. EndsStep(facts[i], x) /\ i \notin 1 .. told
    BY <1>3, <2>1 DEF EndsStep, EndTold
  <2> QED BY <1>2, <2>2
<1>4. CASE x = live[Paper] /\ paper = "saved"
  <2>1. PICK i \in DOMAIN facts : facts[i].type = "done"
    BY <1>4 DEF WorkIs
  <2>2. x = Paper
    BY <1>4, OpenIs DEF WorkIs
  <2>3. EndsStep(facts[i], x) /\ i \notin 1 .. told
    BY <2>1, <2>2 DEF EndsStep, EndTold
  <2> QED BY <1>2, <2>3
<1> QED BY <1>3, <1>4, OpenIs DEF StillOpen

LEMMA FeedHeartbeat ==
  ASSUME FeedInv, NEW key \in Keys, Heartbeat(key)
  PROVE  FeedInv'
<1>1. FactsAre /\ WorkIs /\ RunIs /\ FeedIs /\ PollIs /\ StepIs
  BY DEF FeedInv
<1>2. PICK s : s = live[key]
  OBVIOUS
<1>3. /\ facts' = facts /\ told' = told /\ shown' = shown /\ analysis' = analysis
      /\ paper' = paper /\ live' = live /\ s /= NoStep /\ SendPulse(key, s)
      /\ unheard \subseteq unheard' /\ (EndTold(s) => s \in unheard')
  BY <1>2 DEF Heartbeat
<1>4. s \in Open
  BY <1>2, <1>3 DEF Open
<1>5. SameFacts /\ MoreSaid
  BY <1>3 DEF SameFacts, MoreSaid, Sayable
<1>6. FactsAre' /\ ViewsStay /\ RunIs'
  <2>1. told' \in 0 .. Len(facts)
    BY <1>1, <1>3 DEF FactsAre
  <2> QED BY <1>1, <1>5, <2>1, FactsStay, WhenNoNews
<1>7. WorkIs'
  BY <1>1, <1>3 DEF WorkIs
<1>8. PICK x, m : /\ feed' = [feed EXCEPT !.step = x] /\ feed'.step = x
                  /\ (up /\ x = s) \/ (~up /\ x = feed.step)
                  /\ \/ poll' = poll \/ poll' = NoPoll
                     \/ (poll /= NoPoll /\ poll' = [poll EXCEPT !.mirror = m])
  BY <1>1, <1>3, PulseIs
<1>9. FeedIs' /\ PollIs'
  BY <1>1, <1>6, <1>8, FeedStays, PollStays
<1>10. StepIs'
  <2>1. CASE x = s
    <3>1. CASE EndTold(s)
      BY <1>3, <1>8, <2>1, <3>1, StepSet DEF StepHolds
    <3>2. CASE ~EndTold(s)
      <4>1. EndsYet(s) \/ StillOpen(s)
        BY <1>1, <1>4, <3>2, OpenAndUntold
      <4>2. EndsYet(s) => EndsYet(s)'
        BY <1>1, <1>3, EndsYetStays
      <4>3. StillOpen(s) => StillOpen(s)'
        BY <1>3 DEF StillOpen
      <4>4. StepHolds(s)'
        BY <4>1, <4>2, <4>3 DEF StepHolds
      <4> QED BY <1>8, <2>1, <4>4, StepSet
    <3> QED BY <3>1, <3>2
  <2>2. CASE x /= s
    <3>1. feed'.step = feed.step
      BY <1>8, <2>2
    <3>2. StillOpen(feed.step) => StillOpen(feed.step)'
      BY <1>3, <3>1 DEF StillOpen
    <3> QED BY <1>1, <1>3, <3>1, <3>2, StepStays
  <2> QED BY <2>1, <2>2
<1> QED BY <1>6, <1>7, <1>9, <1>10 DEF FeedInv

\* Steps of the stream and of the mirror that leave the page, and all it may say, as they are.
LEMMA FeedQuiet ==
  ASSUME FeedInv, UNCHANGED <<facts, told, shown, analysis, paper, live, feed, poll, unheard>>
  PROVE  FeedInv'
<1>1. FactsAre /\ WorkIs /\ RunIs /\ FeedIs /\ PollIs /\ StepIs
  BY DEF FeedInv
<1>2. SameFacts /\ MoreSaid
  BY DEF SameFacts, MoreSaid, Sayable
<1>3. FactsAre' /\ ViewsStay /\ RunIs'
  <2>1. told' \in 0 .. Len(facts)
    BY <1>1 DEF FactsAre
  <2> QED BY <1>1, <1>2, <2>1, FactsStay, WhenNoNews
<1>4. WorkIs'
  BY <1>1 DEF WorkIs
<1>5. FeedIs' /\ PollIs'
  <2>1. feed' = [feed EXCEPT !.step = feed.step]
    BY <1>1 DEF FeedIs
  <2> QED BY <1>1, <1>3, <2>1, FeedStays, PollStays
<1>6. StepIs'
  <2>1. StillOpen(feed.step) => StillOpen(feed.step)'
    BY DEF StillOpen
  <2> QED BY <1>1, <2>1, StepStays
<1> QED BY <1>3, <1>4, <1>5, <1>6 DEF FeedInv

LEMMA FeedReload ==
  ASSUME FeedInv, Reload
  PROVE  FeedInv'
<1>1. FactsAre /\ WorkIs /\ RunIs /\ FeedIs /\ PollIs /\ StepIs
  BY DEF FeedInv
<1>2. /\ UNCHANGED <<facts, told, shown, analysis, paper, live, unheard>>
      /\ feed' = EmptyFeed /\ poll' = NoPoll
  BY DEF Reload
<1>3. SameFacts /\ MoreSaid
  BY <1>2 DEF SameFacts, MoreSaid, Sayable
<1>4. FactsAre' /\ RunIs'
  <2>1. told' \in 0 .. Len(facts)
    BY <1>1, <1>2 DEF FactsAre
  <2> QED BY <1>1, <1>3, <2>1, FactsStay, WhenNoNews
<1>5. WorkIs'
  BY <1>1, <1>2 DEF WorkIs
<1>6. feed' = [step |-> NoStep, runEvents |-> <<>>, stage |-> "docs", upTo |-> 0]
  BY <1>2 DEF EmptyFeed
<1>7. FeedIs'
  <2>1. facts' \in Seq(FactRec) /\ Len(facts') \in Nat
    BY <1>4 DEF FactsAre
  <2>2. 0 = Len(facts') => facts' = <<>> /\ shown' = "docs"
    BY <1>4, <2>1 DEF FactsAre
  <2>3. \A i \in DOMAIN <<>> : FALSE
    <3>1. DOMAIN <<>> = 1 .. 0
      OBVIOUS
    <3> QED BY <3>1
  <2>4. 0 = Len(facts') => OfRun(<<>>, analysis'.no) = RunFacts'
    BY <2>2 DEF RunFacts
  <2>5. ViewIs(<<>>, "docs", 0)'
    BY <2>1, <2>2, <2>3, <2>4 DEF ViewIs
  <2>6. ViewIs(feed.runEvents, feed.stage, feed.upTo)'
    BY <1>6, <2>5 DEF ViewIs
  <2> QED BY <1>6, <2>6 DEF FeedIs
<1>8. PollIs'
  BY <1>2 DEF PollIs
<1>9. StepIs'
  BY <1>6 DEF StepIs, StepHolds
<1> QED BY <1>4, <1>5, <1>7, <1>8, <1>9 DEF FeedInv

LEMMA FeedPollAsks ==
  ASSUME FeedInv, PollAsks
  PROVE  FeedInv'
<1>1. FactsAre /\ WorkIs /\ RunIs /\ FeedIs /\ PollIs /\ StepIs
  BY DEF FeedInv
<1>2. PICK r, n, m : r = RunFacts /\ n = Len(facts) /\ m = mirror
  OBVIOUS
<1>3. /\ UNCHANGED <<facts, told, shown, analysis, paper, live, feed, unheard>>
      /\ poll' = [pc |-> "asked", runEvents |-> r, stage |-> shown, upTo |-> n, mirror |-> m]
  BY <1>2 DEF PollAsks
<1>4. SameFacts /\ MoreSaid
  BY <1>3 DEF SameFacts, MoreSaid, Sayable
<1>5. FactsAre' /\ ViewsStay /\ RunIs'
  <2>1. told' \in 0 .. Len(facts)
    BY <1>1, <1>3 DEF FactsAre
  <2> QED BY <1>1, <1>4, <2>1, FactsStay, WhenNoNews
<1>6. WorkIs'
  BY <1>1, <1>3 DEF WorkIs
<1>7. FeedIs'
  <2>1. feed' = [feed EXCEPT !.step = feed.step]
    BY <1>1, <1>3 DEF FeedIs
  <2> QED BY <1>1, <1>5, <2>1, FeedStays
<1>8. PollIs'
  <2>1. r \in Seq(RunFact) /\ KeptAre(facts, r, analysis.no) /\ r \in Seq(FactRec)
    BY <1>1, <1>2, FactsOfRun, OfRunKeeps DEF RunFacts, FactsAre
  <2>2. \A i \in DOMAIN r : Passes(r[i], analysis.no)
    BY <2>1 DEF KeptAre
  <2>3. OfRun(r, analysis.no) = r
    <3>1. r \in Seq({f \in RunFact : Passes(f, analysis.no)})
      BY <2>1, <2>2
    <3> QED BY <3>1, OfRunOfItsOwn
  <2>4. \A i \in DOMAIN r : r[i].run <= analysis.no
    BY <1>1, <2>2 DEF Passes, WorkIs
  <2>5. n \in 0 .. Len(facts) /\ n = Len(facts)
    BY <1>1, <1>2 DEF FactsAre
  <2>6. ViewIs(r, shown, n)
    BY <1>1, <1>2, <2>1, <2>3, <2>4, <2>5 DEF ViewIs, RunIs
  <2>7. PICK s : s = shown
    OBVIOUS
  <2>8. ViewIs(r, s, n)'
    <3>1. ViewIs(r, s, n)
      BY <2>6, <2>7
    <3> QED BY <1>5, <3>1, Zenon DEF ViewsStay
  <2>9. poll' = [pc |-> "asked", runEvents |-> r, stage |-> s, upTo |-> n, mirror |-> m]
    BY <1>3, <2>7
  <2>10. ViewIs(poll.runEvents, poll.stage, poll.upTo)'
    BY <2>8, <2>9 DEF ViewIs
  <2> QED BY <2>9, <2>10 DEF PollIs
<1>9. StepIs'
  <2>1. StillOpen(feed.step) => StillOpen(feed.step)'
    BY <1>3 DEF StillOpen
  <2> QED BY <1>1, <1>3, <2>1, StepStays
<1> QED BY <1>5, <1>6, <1>7, <1>8, <1>9 DEF FeedInv

LEMMA FeedPollLands ==
  ASSUME FeedInv, PollLands
  PROVE  FeedInv'
<1>1. FactsAre /\ WorkIs /\ RunIs /\ FeedIs /\ PollIs /\ StepIs
  BY DEF FeedInv
<1>2. poll /= NoPoll
  BY DEF PollLands
<1>3. PICK e, s, u, m : poll = [pc |-> "asked", runEvents |-> e, stage |-> s, upTo |-> u, mirror |-> m]
  BY <1>1, <1>2 DEF PollIs
<1>4. ViewIs(e, s, u)
  BY <1>1, <1>2, <1>3 DEF PollIs
<1>5. PICK x : x = IF UsePulse(m) THEN m.step ELSE feed.step
  OBVIOUS
<1>6. /\ UNCHANGED <<facts, told, shown, analysis, paper, live>> /\ poll' = NoPoll
      /\ feed' = [step |-> x, runEvents |-> e, stage |-> s, upTo |-> u]
      /\ unheard \subseteq unheard'
      /\ m.newer /\ m.step /= NoStep /\ (m.step \notin Open \/ EndTold(m.step)) => m.step \in unheard'
  BY <1>3, <1>5 DEF PollLands, FromFacts
<1>7. SameFacts /\ MoreSaid
  BY <1>6 DEF SameFacts, MoreSaid, Sayable
<1>8. FactsAre' /\ ViewsStay /\ RunIs'
  <2>1. told' \in 0 .. Len(facts)
    BY <1>1, <1>6 DEF FactsAre
  <2> QED BY <1>1, <1>7, <2>1, FactsStay, WhenNoNews
<1>9. WorkIs'
  BY <1>1, <1>6 DEF WorkIs
<1>10. FeedIs'
  <2>1. ViewIs(e, s, u)'
    BY <1>4, <1>8, Zenon DEF ViewsStay
  <2>2. ViewIs(feed.runEvents, feed.stage, feed.upTo)'
    BY <1>6, <2>1 DEF ViewIs
  <2> QED BY <1>6, <2>2 DEF FeedIs
<1>11. PollIs'
  BY <1>6 DEF PollIs
<1>12. StepIs'
  <2>1. CASE UsePulse(m)
    <3>1. x = m.step /\ m.newer /\ x /= NoStep
      BY <1>5, <2>1 DEF UsePulse
    <3>2. CASE x \notin Open \/ EndTold(x)
      <4>1. x \in unheard' /\ feed'.step = x
        BY <1>6, <3>1, <3>2
      <4>2. StepHolds(x)'
        BY <4>1 DEF StepHolds
      <4> QED BY <4>1, <4>2, StepSet
    <3>3. CASE x \in Open /\ ~EndTold(x)
      <4>1. EndsYet(x) \/ StillOpen(x)
        BY <1>1, <3>3, OpenAndUntold
      <4>2. EndsYet(x) => EndsYet(x)'
        BY <1>1, <1>6, EndsYetStays
      <4>3. StillOpen(x) => StillOpen(x)'
        BY <1>6 DEF StillOpen
      <4>4. StepHolds(x)'
        BY <4>1, <4>2, <4>3 DEF StepHolds
      <4>5. feed'.step = x
        BY <1>6
      <4> QED BY <4>4, <4>5, StepSet
    <3> QED BY <3>2, <3>3
  <2>2. CASE ~UsePulse(m)
    <3>1. feed'.step = feed.step
      BY <1>5, <1>6, <2>2
    <3>2. StillOpen(feed.step) => StillOpen(feed.step)'
      BY <1>6, <3>1 DEF StillOpen
    <3> QED BY <1>1, <1>6, <3>1, <3>2, StepStays
  <2> QED BY <2>1, <2>2
<1> QED BY <1>8, <1>9, <1>10, <1>11, <1>12 DEF FeedInv

\* A fact of this run is among what a page that has seen all the facts has; another run's may be new.
LEMMA TakenOnce ==
  ASSUME FactsAre, WorkIs, NEW e, NEW s, NEW u, ViewIs(e, s, u), NEW i \in DOMAIN facts, NEW f, f = facts[i],
         f.type \in RunTypes, \A j \in DOMAIN e : e[j] /= f,
         UNCHANGED <<facts, shown, analysis, live>>, unheard \subseteq unheard',
         f.run /= analysis.no => f.what \in unheard'
  PROVE  ViewIs(Append(e, f), shown, u)'
<1>1. f = facts[i]
  OBVIOUS
<1>2. f \in FactRec /\ f \in RunFact
  <2>1. f \in FactRec
    BY <1>1 DEF FactsAre
  <2> QED BY <1>1, <2>1 DEF FactRec, CaseFact, RunTypes
<1>3. PICK g : g = Append(e, f)
  OBVIOUS
<1>4. e \in Seq(RunFact)
  BY DEF ViewIs
<1>5. g \in Seq(RunFact) /\ DOMAIN g = DOMAIN e \cup {Len(e) + 1} /\ g[Len(e) + 1] = f /\ \A j \in DOMAIN e : g[j] = e[j]
  BY <1>2, <1>3, <1>4
<1>6. \A j \in DOMAIN g : g[j].run <= analysis.no
  BY <1>1, <1>5 DEF ViewIs, FactsAre
<1>7. ASSUME u = Len(facts) PROVE OfRun(g, analysis.no) = RunFacts /\ f.run /= analysis.no
  <2>1. OfRun(e, analysis.no) = RunFacts
    BY <1>7 DEF ViewIs
  <2>2. PICK r : r = RunFacts
    OBVIOUS
  <2>3. KeptAre(facts, r, analysis.no)
    BY <2>2, OfRunKeeps DEF RunFacts, FactsAre
  <2>4. KeptAre(e, r, analysis.no)
    BY <1>4, <2>1, <2>2, OfRunKeeps
  <2>5. ~Passes(f, analysis.no)
    <3>1. SUFFICES ASSUME Passes(f, analysis.no) PROVE FALSE
      OBVIOUS
    <3>2. PICK k \in DOMAIN r : r[k] = f
      BY <1>1, <2>3, <3>1 DEF KeptAre
    <3>3. PICK j \in DOMAIN e : e[j] = f
      BY <2>4, <3>2 DEF KeptAre
    <3> QED BY <1>1, <3>3
  <2>6. OfRun(g, analysis.no) = OfRun(e, analysis.no)
    BY <1>2, <1>3, <1>4, <2>5, OfRunOfMore
  <2> QED BY <1>1, <2>1, <2>5, <2>6 DEF Passes
<1>8. ASSUME u = Len(facts), shown = "analyzing" PROVE NowChecking(g) \in Sayable'
  <2>1. NowChecking(g) \in {f.what, NowChecking(e), NoStep}
    BY <1>2, <1>3, <1>4, NowCheckingOfMore
  <2>2. f.what \in unheard'
    BY <1>1, <1>7, <1>8
  <2>3. NowChecking(e) \in Sayable
    BY <1>8 DEF ViewIs
  <2> QED BY <2>1, <2>2, <2>3 DEF Sayable
<1>9. ViewIs(g, shown, u)'
  <2>1. u \in 0 .. Len(facts)
    BY DEF ViewIs
  <2>2. OfRun(g, analysis.no)' = OfRun(g, analysis.no) /\ RunFacts' = RunFacts
    BY DEF RunFacts
  <2> QED BY <1>5, <1>6, <1>7, <1>8, <2>1, <2>2 DEF ViewIs
<1> QED BY <1>3, <1>9

\* What is published is no longer to come: the page drops the step it ends, or did not hear of it.
LEMMA EndsYetOrNow ==
  ASSUME FactsAre, told < Len(facts), told' = told + 1, facts' = facts, NEW step,
         EndsYet(step), ~EndsStep(facts[told + 1], step)
  PROVE  EndsYet(step)'
<1>1. told \in Nat /\ Len(facts) \in Nat
  BY DEF FactsAre
<1>2. PICK i \in told + 1 .. Len(facts) : EndsStep(facts[i], step)
  BY DEF EndsYet
<1>3. i \in told' + 1 .. Len(facts')
  BY <1>1, <1>2
<1>4. PICK g, n : g = facts' /\ n = told'
  OBVIOUS
<1>5. \E j \in n + 1 .. Len(g) : EndsStep(g[j], step)
  BY <1>2, <1>3, <1>4
<1> QED BY <1>4, <1>5 DEF EndsYet, EndsStep

LEMMA FeedPublishFact ==
  ASSUME FeedInv, PublishFact
  PROVE  FeedInv'
<1>1. FactsAre /\ WorkIs /\ RunIs /\ FeedIs /\ PollIs /\ StepIs
  BY DEF FeedInv
<1>2. PICK f : f = facts[told + 1]
  OBVIOUS
<1>3. told \in Nat /\ Len(facts) \in Nat /\ told < Len(facts) /\ told' = told + 1
  BY <1>1 DEF PublishFact, FactsAre
<1>4. told + 1 \in DOMAIN facts /\ told' \in 0 .. Len(facts)
  BY <1>1, <1>3 DEF FactsAre
<1>5. UNCHANGED <<facts, shown, analysis, paper, live>> /\ unheard \subseteq unheard'
  BY DEF PublishFact
<1>6. SameFacts /\ MoreSaid
  BY <1>5 DEF SameFacts, MoreSaid, Sayable
<1>7. FactsAre' /\ ViewsStay /\ RunIs'
  BY <1>1, <1>4, <1>6, FactsStay, WhenNoNews
<1>8. WorkIs'
  BY <1>1, <1>5 DEF WorkIs
<1>9. PICK x, e, s, u : feed = [step |-> x, runEvents |-> e, stage |-> s, upTo |-> u]
  BY <1>1 DEF FeedIs
<1>10. ViewIs(e, s, u) /\ StepHolds(x)
  BY <1>1, <1>9 DEF FeedIs, StepIs
<1>11. CASE up
  <2>1. /\ feed' = WithFact(f) /\ PageHears
        /\ f.type \in RunTypes /\ f.run /= analysis.no => f.what \in unheard'
    BY <1>2, <1>11 DEF PublishFact
  <2>2. PICK y, g : /\ y = (IF EndsStep(f, x) THEN NoStep ELSE x)
                    /\ g = (IF f.type \in RunTypes /\ \A i \in DOMAIN e : e[i] /= f THEN Append(e, f) ELSE e)
    OBVIOUS
  <2>3. feed' = [step |-> y, runEvents |-> g, stage |-> shown, upTo |-> u]
    BY <1>9, <2>1, <2>2 DEF WithFact
  <2>4. ViewIs(g, shown, u)'
    <3>1. CASE f.type \in RunTypes /\ \A i \in DOMAIN e : e[i] /= f
      <4>1. PICK i \in DOMAIN facts : f = facts[i]
        BY <1>2, <1>4
      <4>2. ViewIs(Append(e, f), shown, u)'
        BY <1>1, <1>5, <1>10, <2>1, <3>1, <4>1, TakenOnce
      <4>3. g = Append(e, f)
        BY <2>2, <3>1
      <4> QED BY <4>2, <4>3
    <3>2. CASE ~(f.type \in RunTypes /\ \A i \in DOMAIN e : e[i] /= f)
      <4>1. g = e
        BY <2>2, <3>2
      <4>2. ViewIs(e, s, u)'
        BY <1>7, <1>10, Zenon DEF ViewsStay
      <4>3. u = Len(facts') => s = shown'
        BY <4>2 DEF ViewIs
      <4> QED BY <4>1, <4>2, <4>3 DEF ViewIs
    <3> QED BY <3>1, <3>2
  <2>5. FeedIs'
    <3>1. ViewIs(feed.runEvents, feed.stage, feed.upTo)'
      BY <1>5, <2>3, <2>4 DEF ViewIs
    <3> QED BY <1>5, <2>3, <3>1 DEF FeedIs
  <2>6. PollIs'
    <3>1. PICK m : poll' = NoPoll \/ (poll /= NoPoll /\ poll' = [poll EXCEPT !.mirror = m])
      BY <2>1, PollHears
    <3> QED BY <1>1, <1>7, <3>1, PollStays
  <2>7. StepHolds(y)'
    <3>1. CASE EndsStep(f, x)
      BY <2>2, <3>1 DEF StepHolds
    <3>2. CASE ~EndsStep(f, x)
      <4>1. EndsYet(x) => EndsYet(x)'
        BY <1>1, <1>2, <1>3, <1>5, <3>2, EndsYetOrNow
      <4>2. StillOpen(x) => StillOpen(x)'
        BY <1>5 DEF StillOpen
      <4>3. StepHolds(x)'
        BY <1>5, <1>10, <4>1, <4>2 DEF StepHolds
      <4> QED BY <2>2, <3>2, <4>3
    <3> QED BY <3>1, <3>2
  <2>8. StepIs'
    BY <2>3, <2>7, StepSet
  <2> QED BY <1>7, <1>8, <2>5, <2>6, <2>8 DEF FeedInv
<1>12. CASE ~up
  <2>1. feed' = feed /\ poll' = poll /\ (x /= NoStep /\ EndsStep(f, x) => x \in unheard')
    BY <1>2, <1>9, <1>12 DEF PublishFact
  <2>2. FeedIs' /\ PollIs'
    <3>1. feed' = [feed EXCEPT !.step = feed.step]
      BY <1>1, <2>1 DEF FeedIs
    <3> QED BY <1>1, <1>7, <2>1, <3>1, FeedStays, PollStays
  <2>3. StepHolds(x)'
    <3>1. EndsYet(x) /\ ~EndsStep(f, x) => EndsYet(x)'
      BY <1>1, <1>2, <1>3, <1>5, EndsYetOrNow
    <3>2. StillOpen(x) => StillOpen(x)'
      BY <1>5 DEF StillOpen
    <3> QED BY <1>5, <1>10, <2>1, <3>1, <3>2 DEF StepHolds
  <2>4. StepIs'
    BY <1>9, <2>1, <2>3, StepSet
  <2> QED BY <1>7, <1>8, <2>2, <2>4 DEF FeedInv
<1> QED BY <1>11, <1>12

LEMMA FeedInitInv == FeedInit => FeedInv
<1>1. SUFFICES ASSUME FeedInit PROVE FeedInv
  OBVIOUS
<1>2. /\ facts = <<>> /\ told = 0 /\ shown = "docs" /\ paper = "unread"
      /\ analysis = [pc |-> "idle", at |-> 0, no |-> 0] /\ live = [k \in Keys |-> NoStep]
      /\ feed = [step |-> NoStep, runEvents |-> <<>>, stage |-> "docs", upTo |-> 0] /\ poll = NoPoll
  BY <1>1 DEF FeedInit, EmptyFeed
<1>3. \A i \in DOMAIN <<>> : FALSE
  <2>1. DOMAIN <<>> = 1 .. 0
    OBVIOUS
  <2> QED BY <2>1
<1>4. FactsAre
  BY <1>2, <1>3 DEF FactsAre
<1>5. WorkIs
  <2>1. analysis \in [pc : Pcs, at : 0 .. Checks, no : Nat]
    BY <1>2, FeedAssumption DEF Pcs
  <2>2. live \in [Keys -> 0 .. Checks \cup {NoStep, Paper}] /\ live[Run] = NoStep /\ live[Paper] = NoStep
    BY <1>2 DEF Keys
  <2> QED BY <1>2, <2>1, <2>2 DEF WorkIs
<1>6. RunIs /\ PollIs /\ StepIs
  BY <1>2 DEF RunIs, PollIs, StepIs, StepHolds
<1>7. FeedIs
  <2>1. OfRun(<<>>, analysis.no) = RunFacts
    BY <1>2 DEF RunFacts
  <2>2. ViewIs(<<>>, "docs", 0)
    BY <1>2, <1>3, <2>1 DEF ViewIs
  <2> QED BY <1>2, <2>2 DEF FeedIs
<1> QED BY <1>4, <1>5, <1>6, <1>7 DEF FeedInv

\* Every step of the run, of the reading, of the outbox and of the page keeps it.
LEMMA FeedInvStep == FeedInv /\ [FeedNext]_feedVars => FeedInv'
<1>1. SUFFICES ASSUME FeedInv, [FeedNext]_feedVars PROVE FeedInv'
  OBVIOUS
<1>2. CASE UNCHANGED feedVars
  BY <1>1, <1>2, FeedQuiet DEF feedVars
<1>3. CASE BeginRun \/ MarkStep \/ StartStep \/ FinishStep \/ HandOver \/ EndRun \/ RunThrows
  BY <1>1, <1>3, FeedBeginRun, FeedMarkStep, FeedStartStep, FeedFinishStep, FeedHandOver, FeedEndRun, FeedRunThrows
<1>4. CASE StartPaper \/ ReadPaper \/ SavePaper \/ ClosePaper \/ PaperFails \/ ProcessDies
  BY <1>1, <1>4, FeedStartPaper, FeedReadPaper, FeedSavePaper, FeedClosePaper, FeedProcessDies
<1>5. CASE PublishFact \/ PollAsks \/ PollLands \/ Reload
  BY <1>1, <1>5, FeedPublishFact, FeedPollAsks, FeedPollLands, FeedReload
<1>6. CASE StreamDrops \/ Reconnects \/ MirrorExpires
  BY <1>1, <1>6, FeedQuiet DEF StreamDrops, Reconnects, MirrorExpires
<1>7. CASE \E k \in Keys : SetMirror(k) \/ Heartbeat(k)
  <2>1. PICK k \in Keys : SetMirror(k) \/ Heartbeat(k)
    BY <1>7
  <2>2. CASE SetMirror(k)
    BY <1>1, <2>2, FeedQuiet DEF SetMirror
  <2>3. CASE Heartbeat(k)
    BY <1>1, <2>3, FeedHeartbeat
  <2> QED BY <2>1, <2>2, <2>3
<1> QED BY <1>1, <1>2, <1>3, <1>4, <1>5, <1>6, <1>7 DEF FeedNext

\* The step the page calls running is one the engine began and has not ended, or a lost pulse's,
\* and a run's events, once read, are its facts in their order: for any number of checks, runs,
\* pulses, polls, reconnects and deaths (progress-pulse.service, progress-feed.ts).
THEOREM ProgressStaysReal == FeedSpec => []ProgressIsReal
<1>1. FeedSpec => []FeedInv
  BY FeedInitInv, FeedInvStep, PTL DEF FeedSpec
<1> QED BY <1>1, FeedInvIsReal, PTL
=============================================================================
