--------------------------- MODULE MoneyAndGateProofs ---------------------------
(***************************************************************************)
(* What holds of Payments for any sessions, handlers, intents, price and   *)
(* any number of faults; and of EvalRuns for any ledgers, volumes, starts, *)
(* rows and failures.                                                      *)
(*                                                                         *)
(* A handler computes the rollup from a payment it read some steps ago.  It *)
(* is safe in one direction only: the rows it read the rollup of are still *)
(* there when it books its own, so what it saw is a lower bound (HandlerOK). *)
(*                                                                         *)
(* A trial's row is never less ended than it was (RowStep), so that the    *)
(* gate's reading, ledger by ledger, finds what one listing would, unless  *)
(* a row was told meanwhile (ReadingIs).                                   *)
(***************************************************************************)
EXTENDS Payments, EvalRuns, FiniteSetTheorems, WellFoundedInduction, Integers, TLAPS

IntentType == [state : {"new", "asked", "failed", "done"}, session : Sessions, amount : 0..Price]

\* Everything but the handlers: the types, and the three safety properties.
RestOK ==
  /\ paid \in SUBSET Sessions /\ refunds \in Seq(RefundType)
  /\ returned \in [Sessions -> 0..Price]
  /\ disputes \in [Sessions -> {None, "open", "won", "lost"}]
  /\ ledger \subseteq Sent
  /\ payment \in [Sessions -> PaymentType]
  /\ refundIds \subseteq Ids /\ booked \in [Sessions -> Nat] /\ purchases \in [Sessions -> Nat]
  /\ caseStatus \in CaseStates
  /\ intent \in [Intents -> IntentType] /\ faults \in Nat
  /\ DeliveredOnce /\ RollupNeverExceedsRows /\ ClosedOnlyWhenPaidBack

\* A handler on its way to book a refund saw a rollup that the rows of its
\* session cover; one on its way to Stripe asks for something; a loop goes over
\* sessions in the sweep, and over refunds that Stripe made in the webhook.
HandlerOK(r) ==
  /\ r \in HandlerType
  /\ r.pc \in {"create", "book", "refunds"} => r.saw <= booked[r.session]
  /\ r.pc = "create" => r.amount > 0
  /\ r.pc \in {"create", "closed"} => r.todo = {}
  /\ r.pc \in {"fulfil", "sweep", "grant"} => r.todo \subseteq Sessions
  /\ r.pc \in {"book", "reread", "refunds"} => r.todo \subseteq DOMAIN refunds

Inv ==
  /\ RestOK
  /\ handler \in [Processes -> HandlerType]
  /\ \A h \in Processes : HandlerOK(handler[h])

-------------------------------------------------------------------------------
(* Records                                                                 *)

PCs == {"idle", "fulfil", "sweep", "grant", "create", "book", "charge", "refunds", "reread",
        "created", "closed"}


LEMMA IdleType == /\ Idle \in HandlerType /\ Idle.pc = "idle" /\ Idle.saw = 0
                  /\ Idle.session = Review /\ Idle.amount = 0 /\ Idle.todo = {}
<1>1. Review \in Sessions /\ 0 \in 0..Price
  BY PaymentsAssumption DEF Sessions
<1> QED
  BY <1>1 DEF Idle, HandlerType, RefundId, Ids, None

\* A handler's record stays one, field by field, and keeps its other fields.
LEMMA Fields ==
  ASSUME NEW r \in HandlerType
  PROVE  /\ \A pc \in PCs :
              LET q == [r EXCEPT !.pc = pc]
              IN  q \in HandlerType /\ q.pc = pc /\ q.session = r.session
                    /\ q.saw = r.saw /\ q.amount = r.amount /\ q.todo = r.todo
         /\ \A s \in Sessions :
              LET q == [r EXCEPT !.session = s]
              IN  q \in HandlerType /\ q.pc = r.pc /\ q.session = s
                    /\ q.saw = r.saw /\ q.amount = r.amount /\ q.todo = r.todo
         /\ \A n \in Nat :
              LET q == [r EXCEPT !.saw = n]
              IN  q \in HandlerType /\ q.pc = r.pc /\ q.session = r.session
                    /\ q.saw = n /\ q.amount = r.amount /\ q.todo = r.todo
         /\ \A n \in 0..Price :
              LET q == [r EXCEPT !.amount = n]
              IN  q \in HandlerType /\ q.pc = r.pc /\ q.session = r.session
                    /\ q.saw = r.saw /\ q.amount = n /\ q.todo = r.todo
         /\ \A t \in SUBSET (Sessions \cup Nat) :
              LET q == [r EXCEPT !.todo = t]
              IN  q \in HandlerType /\ q.pc = r.pc /\ q.session = r.session
                    /\ q.saw = r.saw /\ q.amount = r.amount /\ q.todo = t
<1> USE DEF HandlerType, PCs
<1>1. ASSUME NEW pc \in PCs
      PROVE  LET q == [r EXCEPT !.pc = pc]
             IN  q \in HandlerType /\ q.pc = pc /\ q.session = r.session
                   /\ q.saw = r.saw /\ q.amount = r.amount /\ q.todo = r.todo
  OBVIOUS
<1>2. ASSUME NEW s \in Sessions
      PROVE  LET q == [r EXCEPT !.session = s]
             IN  q \in HandlerType /\ q.pc = r.pc /\ q.session = s
                   /\ q.saw = r.saw /\ q.amount = r.amount /\ q.todo = r.todo
  OBVIOUS
<1>3. ASSUME NEW n \in Nat
      PROVE  LET q == [r EXCEPT !.saw = n]
             IN  q \in HandlerType /\ q.pc = r.pc /\ q.session = r.session
                   /\ q.saw = n /\ q.amount = r.amount /\ q.todo = r.todo
  OBVIOUS
<1>4. ASSUME NEW n \in 0..Price
      PROVE  LET q == [r EXCEPT !.amount = n]
             IN  q \in HandlerType /\ q.pc = r.pc /\ q.session = r.session
                   /\ q.saw = r.saw /\ q.amount = n /\ q.todo = r.todo
  OBVIOUS
<1>5. ASSUME NEW t \in SUBSET (Sessions \cup Nat)
      PROVE  LET q == [r EXCEPT !.todo = t]
             IN  q \in HandlerType /\ q.pc = r.pc /\ q.session = r.session
                   /\ q.saw = r.saw /\ q.amount = r.amount /\ q.todo = t
  OBVIOUS
<1> QED
  BY <1>1, <1>2, <1>3, <1>4, <1>5

LEMMA MoreFields ==
  ASSUME NEW r \in HandlerType
  PROVE  /\ \A id \in Ids :
              LET q == [r EXCEPT !.id = id]
              IN  q \in HandlerType /\ q.pc = r.pc /\ q.session = r.session
                    /\ q.saw = r.saw /\ q.amount = r.amount /\ q.todo = r.todo
         /\ \A b \in BOOLEAN :
              LET q == [r EXCEPT !.reopens = b]
              IN  q \in HandlerType /\ q.pc = r.pc /\ q.session = r.session
                    /\ q.saw = r.saw /\ q.amount = r.amount /\ q.todo = r.todo
         /\ \A i \in Intents :
              LET q == [r EXCEPT !.for = i]
              IN  q \in HandlerType /\ q.pc = r.pc /\ q.session = r.session
                    /\ q.saw = r.saw /\ q.amount = r.amount /\ q.todo = r.todo
<1> USE DEF HandlerType, PCs
<1>1. ASSUME NEW id \in Ids
      PROVE  LET q == [r EXCEPT !.id = id]
             IN  q \in HandlerType /\ q.pc = r.pc /\ q.session = r.session
                   /\ q.saw = r.saw /\ q.amount = r.amount /\ q.todo = r.todo
  OBVIOUS
<1>2. ASSUME NEW b \in BOOLEAN
      PROVE  LET q == [r EXCEPT !.reopens = b]
             IN  q \in HandlerType /\ q.pc = r.pc /\ q.session = r.session
                   /\ q.saw = r.saw /\ q.amount = r.amount /\ q.todo = r.todo
  OBVIOUS
<1>3. ASSUME NEW i \in Intents
      PROVE  LET q == [r EXCEPT !.for = i]
             IN  q \in HandlerType /\ q.pc = r.pc /\ q.session = r.session
                   /\ q.saw = r.saw /\ q.amount = r.amount /\ q.todo = r.todo
  OBVIOUS
<1> QED
  BY <1>1, <1>2, <1>3

-------------------------------------------------------------------------------
(* Steps of a handler                                                      *)

\* A step replaces one handler's record; rows only ever accumulate.
LEMMA StepInv ==
  ASSUME Inv, RestOK', NEW h \in Processes, NEW r, Step(h, r), HandlerOK(r)',
         \A s \in Sessions : booked[s] <= booked'[s], DOMAIN refunds \subseteq DOMAIN refunds'
  PROVE  Inv'
<1>1. /\ handler \in [Processes -> HandlerType] /\ RestOK
      /\ \A q \in Processes : HandlerOK(handler[q])
  BY DEF Inv
<1>2. r \in HandlerType
  BY DEF HandlerOK
<1>3. handler' \in [Processes -> HandlerType]
  BY <1>1, <1>2 DEF Step
<1>4. ASSUME NEW q \in Processes PROVE HandlerOK(handler[q])'
  <2>1. CASE q = h
    <3>1. handler'[q] = r
      BY <1>1, <2>1 DEF Step
    <3> QED
      BY <3>1 DEF HandlerOK
  <2>2. CASE q # h
    <3>1. handler'[q] = handler[q] /\ handler[q].session \in Sessions /\ handler[q].saw \in Nat
      BY <1>1, <2>2 DEF Step, HandlerType
    <3>2. booked[handler[q].session] \in Nat /\ booked'[handler[q].session] \in Nat
      BY <1>1, <3>1 DEF RestOK
    <3> QED
      BY <1>1, <3>1, <3>2 DEF HandlerOK
  <2> QED
    BY <2>1, <2>2
<1> QED
  BY <1>3, <1>4 DEF Inv

\* A step that leaves Stripe and the books alone.
LEMMA QuietStep ==
  ASSUME Inv, NEW h \in Processes, NEW r, Step(h, r), HandlerOK(r),
         UNCHANGED <<stripe, books>>, ledger' \subseteq Sent,
         intent' \in [Intents -> IntentType], faults' \in Nat
  PROVE  Inv'
<1>1. RestOK
  BY DEF Inv
<1>2. RestOK'
  BY <1>1 DEF RestOK, stripe, books, Sent, DeliveredOnce, RollupNeverExceedsRows, ClosedOnlyWhenPaidBack
<1>3. /\ HandlerOK(r)' /\ DOMAIN refunds \subseteq DOMAIN refunds'
      /\ \A s \in Sessions : booked[s] <= booked'[s]
  BY <1>1 DEF HandlerOK, books, stripe, RestOK
<1> QED
  BY <1>2, <1>3, StepInv

LEMMA IdleOK == HandlerOK(Idle)
BY IdleType DEF HandlerOK

\* A throw: the handler is idle, the console call it served has failed.
LEMMA Thrown ==
  ASSUME Inv, NEW h \in Processes, Throw(h)
  PROVE  Step(h, Idle) /\ intent' \in [Intents -> IntentType]
<1>1. intent \in [Intents -> IntentType]
  BY DEF Inv, RestOK
<1>2. \A i \in Intents : [intent[i] EXCEPT !.state = "failed"] \in IntentType
  BY <1>1 DEF IntentType
<1> QED
  BY <1>1, <1>2 DEF Throw

LEMMA HandlersAreProcesses == Handlers \subseteq Processes /\ Sweeper \in Processes
BY DEF Processes

\* A fresh handler for a session, at a step that neither books nor asks.
LEMMA FreshOK ==
  ASSUME NEW pc \in PCs \ {"create", "book", "refunds"}, NEW s \in Sessions
  PROVE  HandlerOK([Idle EXCEPT !.pc = pc, !.session = s])
<1> DEFINE r1 == [Idle EXCEPT !.pc = pc]
           r2 == [r1 EXCEPT !.session = s]
<1>1. r1 \in HandlerType /\ r1.pc = pc /\ r1.todo = {}
  BY IdleType, Fields
<1>2. [Idle EXCEPT !.pc = pc, !.session = s] = r2
  OBVIOUS
<1> HIDE DEF r1
<1>3. r2 \in HandlerType /\ r2.pc = pc /\ r2.todo = {}
  BY <1>1, Fields
<1> HIDE DEF r2
<1> QED
  BY <1>2, <1>3 DEF HandlerOK

LEMMA HandleStripeEventInv ==
  ASSUME Inv, NEW h \in Processes, NEW e \in Sent \ ledger, HandleStripeEvent(h, e)
  PROVE  Inv'
<1>1. RestOK
  BY DEF Inv
<1>2. Subject(e) \in Sessions
  <2>1. CASE e.type = "refunded"
    <3>1. e.of \in DOMAIN refunds
      BY <2>1 DEF Sent
    <3>2. refunds[e.of] \in RefundType
      BY <1>1, <3>1 DEF RestOK
    <3> QED
      BY <2>1, <3>2 DEF Subject, RefundType
  <2>2. CASE e.type # "refunded"
    BY <1>1, <2>2 DEF Subject, Sent, RestOK
  <2> QED
    BY <2>1, <2>2
<1>3. Entry[e.type] \in PCs \ {"create", "book", "refunds"}
  BY DEF Sent, Entry, PCs
<1>4. HandlerOK([Idle EXCEPT !.pc = Entry[e.type], !.session = Subject(e)])
  BY <1>2, <1>3, FreshOK
<1> DEFINE r == [Idle EXCEPT !.pc = Entry[e.type], !.session = Subject(e)]
<1>5. Step(h, r) /\ UNCHANGED <<stripe, books, intent, faults>> /\ ledger' = ledger \cup {e}
  BY DEF HandleStripeEvent
<1>6. ledger' \subseteq Sent
  BY <1>1, <1>5 DEF RestOK
<1>7. intent' \in [Intents -> IntentType] /\ faults' \in Nat
  BY <1>1, <1>5 DEF RestOK
<1> HIDE DEF r
<1> QED
  BY <1>4, <1>5, <1>6, <1>7, QuietStep DEF r

\* A quiet step that writes nothing at all outside the handler.
LEMMA SilentStep ==
  ASSUME Inv, NEW h \in Processes, NEW r, Step(h, r), HandlerOK(r),
         UNCHANGED <<stripe, ledger, books, intent, faults>>
  PROVE  Inv'
<1>1. RestOK
  BY DEF Inv
<1>2. UNCHANGED <<stripe, books>> /\ ledger' \subseteq Sent
      /\ intent' \in [Intents -> IntentType] /\ faults' \in Nat
  BY <1>1 DEF RestOK
<1> QED
  BY <1>2, QuietStep

LEMMA SelfHealInv ==
  ASSUME Inv, NEW h \in Processes, NEW s \in Sessions, SelfHeal(h, s)
  PROVE  Inv'
<1>1. HandlerOK([Idle EXCEPT !.pc = "fulfil", !.session = s])
  BY FreshOK DEF PCs
<1> QED
  BY <1>1, SilentStep DEF SelfHeal

LEMMA SweepInv ==
  ASSUME Inv, SweepBegin \/ SweepNext
  PROVE  Inv'
<1>1. /\ handler[Sweeper] \in HandlerType /\ Sweeper \in Processes
      /\ paid \in SUBSET Sessions
  BY HandlersAreProcesses DEF Inv, HandlerOK, RestOK
<1>2. CASE SweepBegin
  <2> DEFINE r1 == [Idle EXCEPT !.pc = "sweep"]
             r2 == [r1 EXCEPT !.todo = Unfulfilled]
  <2>1. r1 \in HandlerType /\ r1.pc = "sweep"
    BY IdleType, Fields DEF PCs
  <2>2. Step(Sweeper, r2)
    BY <1>2 DEF SweepBegin
  <2> HIDE DEF r1
  <2>3. Unfulfilled \in SUBSET (Sessions \cup Nat)
    BY <1>1 DEF Unfulfilled
  <2>4. r2 \in HandlerType /\ r2.pc = "sweep" /\ r2.todo = Unfulfilled
    BY <2>1, <2>3, Fields
  <2> HIDE DEF r2
  <2>5. HandlerOK(r2)
    BY <1>1, <2>4 DEF HandlerOK, Unfulfilled
  <2> QED
    BY <1>1, <1>2, <2>2, <2>5, SilentStep DEF SweepBegin
<1>3. CASE SweepNext
  <2>1. CASE Step(Sweeper, Idle)
    BY <1>1, <1>3, <2>1, IdleOK, SilentStep DEF SweepNext
  <2>2. ASSUME NEW s \in handler[Sweeper].todo,
               Step(Sweeper, [handler[Sweeper] EXCEPT !.pc = "fulfil", !.session = s,
                                                      !.todo = @ \ {s}])
        PROVE  Inv'
    <3> DEFINE r0 == handler[Sweeper]
               r1 == [r0 EXCEPT !.pc = "fulfil"]
               r2 == [r1 EXCEPT !.session = s]
               rest == r0.todo \ {s}
               r3 == [r2 EXCEPT !.todo = rest]
    <3>1. Step(Sweeper, r3)
      BY <1>1, <2>2 DEF HandlerType
    <3>2. r0 \in HandlerType /\ s \in Sessions /\ rest \subseteq Sessions
      BY <1>1, <1>3, <2>2 DEF SweepNext, At, Inv, HandlerOK
    <3> HIDE DEF r0, rest
    <3>3. r1 \in HandlerType /\ r1.pc = "fulfil"
      BY <3>2, Fields DEF PCs
    <3> HIDE DEF r1
    <3>4. r2 \in HandlerType /\ r2.pc = "fulfil"
      BY <3>2, <3>3, Fields
    <3> HIDE DEF r2
    <3>5. r3 \in HandlerType /\ r3.pc = "fulfil" /\ r3.todo = rest
      BY <3>2, <3>4, Fields
    <3> HIDE DEF r3
    <3> QED
      BY <1>1, <1>3, <3>1, <3>2, <3>5, SilentStep DEF HandlerOK, SweepNext
  <2> QED
    BY <1>3, <2>1, <2>2 DEF SweepNext
<1> QED
  BY <1>2, <1>3

\* What follows a session that is done.
LEMMA FinishedOK ==
  ASSUME Inv, NEW h \in Processes, handler[h].pc \in {"fulfil", "grant"}
  PROVE  HandlerOK(Finished(h))
<1>1. handler[h] \in HandlerType /\ handler[h].todo \subseteq Sessions
  BY DEF Inv, HandlerOK
<1> DEFINE r == [handler[h] EXCEPT !.pc = "sweep"]
<1>2. r \in HandlerType /\ r.pc = "sweep" /\ r.todo = handler[h].todo
  BY <1>1, Fields DEF PCs
<1>3. Finished(h) \in {r, Idle}
  BY DEF Finished
<1> HIDE DEF r
<1> QED
  BY <1>1, <1>2, <1>3, IdleOK DEF HandlerOK

LEMMA FulfillReadInv ==
  ASSUME Inv, NEW h \in Processes, FulfillRead(h)
  PROVE  Inv'
<1> DEFINE r0 == handler[h]
           b == r0.session \in Reruns /\ caseStatus = "READY"
           r1 == [r0 EXCEPT !.pc = "grant"]
           r2 == [r1 EXCEPT !.reopens = b]
<1>1. r0 \in HandlerType /\ r0.todo \subseteq Sessions /\ r0.pc = "fulfil"
  BY DEF Inv, HandlerOK, FulfillRead, At
<1>2. b \in BOOLEAN
  OBVIOUS
<1>3. Step(h, Finished(h)) \/ Step(h, r2)
  BY DEF FulfillRead
<1>4. HandlerOK(Finished(h))
  BY <1>1, FinishedOK
<1> HIDE DEF r0, b
<1>5. r1 \in HandlerType /\ r1.pc = "grant" /\ r1.todo = r0.todo
  BY <1>1, Fields DEF PCs
<1> HIDE DEF r1
<1>6. r2 \in HandlerType /\ r2.pc = "grant" /\ r2.todo = r0.todo
  BY <1>2, <1>5, MoreFields
<1> HIDE DEF r2
<1>7. HandlerOK(r2)
  BY <1>1, <1>6 DEF HandlerOK
<1> QED
  BY <1>3, <1>4, <1>7, SilentStep DEF FulfillRead

LEMMA IssueRefundInv ==
  ASSUME Inv, NEW h \in Processes, NEW i \in Intents, NEW s \in Sessions, NEW a \in 0..Price,
         IssueRefund(h, i, s, a)
  PROVE  Inv'
<1> DEFINE saw == payment[s].refunded
           n == IF a = 0 THEN Remaining(payment[s]) ELSE a
           r1 == [Idle EXCEPT !.pc = "create"]
           r2 == [r1 EXCEPT !.session = s]
           r3 == [r2 EXCEPT !.for = i]
           r4 == [r3 EXCEPT !.saw = saw]
           r5 == [r4 EXCEPT !.amount = n]
<1>1. RestOK /\ Price \in Nat
  BY PaymentsAssumption DEF Inv
<1>2. saw \in Nat /\ saw <= booked[s]
  BY <1>1 DEF RestOK, PaymentType, RollupNeverExceedsRows
<1>3. n \in 0..Price /\ n > 0
  BY <1>1, <1>2 DEF IssueRefund, Refundable, Remaining
<1>4. Step(h, r5)
  BY DEF IssueRefund
<1>5. intent' \in [Intents -> IntentType]
  BY <1>1 DEF IssueRefund, RestOK, IntentType
<1> HIDE DEF saw, n
<1>6. r1 \in HandlerType /\ r1.pc = "create" /\ r1.todo = {}
  BY IdleType, Fields DEF PCs
<1> HIDE DEF r1
<1>7. r2 \in HandlerType /\ r2.pc = "create" /\ r2.todo = {} /\ r2.session = s
  BY <1>6, Fields
<1> HIDE DEF r2
<1>8. r3 \in HandlerType /\ r3.pc = "create" /\ r3.todo = {} /\ r3.session = s
  BY <1>7, MoreFields
<1> HIDE DEF r3
<1>9. r4 \in HandlerType /\ r4.pc = "create" /\ r4.todo = {} /\ r4.session = s /\ r4.saw = saw
  BY <1>2, <1>8, Fields
<1> HIDE DEF r4
<1>10. /\ r5 \in HandlerType /\ r5.pc = "create" /\ r5.session = s /\ r5.saw = saw
       /\ r5.amount = n /\ r5.todo = {}
  BY <1>3, <1>9, Fields
<1> HIDE DEF r5
<1>11. HandlerOK(r5)
  BY <1>2, <1>3, <1>10 DEF HandlerOK
<1>12. UNCHANGED <<stripe, books>> /\ ledger' \subseteq Sent /\ faults' \in Nat
  BY <1>1 DEF IssueRefund, RestOK
<1> QED
  BY <1>4, <1>5, <1>11, <1>12, QuietStep

LEMMA FindPaymentInv ==
  ASSUME Inv, NEW h \in Processes, FindPaymentForCharge(h)
  PROVE  Inv'
<1> DEFINE r0 == handler[h]
           s == r0.session
           saw == payment[s].refunded
           list == {i \in DOMAIN refunds : refunds[i].session = s}
           r1 == [r0 EXCEPT !.pc = "refunds"]
           r2 == [r1 EXCEPT !.saw = saw]
           r3 == [r2 EXCEPT !.todo = list]
<1>1. r0 \in HandlerType /\ RestOK
  BY DEF Inv, HandlerOK
<1>2. s \in Sessions
  BY <1>1 DEF HandlerType
<1>3. saw \in Nat /\ saw <= booked[s]
  BY <1>1, <1>2 DEF RestOK, PaymentType, RollupNeverExceedsRows
<1>4. list \subseteq DOMAIN refunds /\ DOMAIN refunds \subseteq Nat
  BY <1>1 DEF RestOK
<1>5. Step(h, Idle) \/ Step(h, r3)
  BY DEF FindPaymentForCharge
<1> HIDE DEF list, saw
<1>6. r1 \in HandlerType /\ r1.pc = "refunds" /\ r1.session = s
  BY <1>1, Fields DEF PCs
<1> HIDE DEF r1
<1>7. r2 \in HandlerType /\ r2.pc = "refunds" /\ r2.session = s /\ r2.saw = saw
  BY <1>3, <1>6, Fields
<1> HIDE DEF r2
<1>8. r3 \in HandlerType /\ r3.pc = "refunds" /\ r3.session = s /\ r3.saw = saw /\ r3.todo = list
  <2>1. list \in SUBSET (Sessions \cup Nat)
    BY <1>4
  <2> QED
    BY <2>1, <1>7, Fields
<1> HIDE DEF r3
<1>9. HandlerOK(r3)
  BY <1>3, <1>4, <1>8 DEF HandlerOK
<1> QED
  BY <1>5, <1>9, IdleOK, SilentStep DEF FindPaymentForCharge

LEMMA NextStripeRefundInv ==
  ASSUME Inv, NEW h \in Processes, NextStripeRefund(h)
  PROVE  Inv'
<1>1. /\ handler[h] \in HandlerType /\ RestOK /\ handler[h].pc = "refunds"
      /\ handler[h].saw <= booked[handler[h].session]
      /\ handler[h].todo \subseteq DOMAIN refunds /\ DOMAIN refunds \subseteq Nat
  <2>1. HandlerOK(handler[h]) /\ RestOK /\ handler[h].pc = "refunds"
    BY DEF Inv, NextStripeRefund, At
  <2>2. DOMAIN refunds \subseteq Nat
    BY <2>1 DEF RestOK
  <2> QED
    BY <2>1, <2>2 DEF HandlerOK
<1>2. CASE Step(h, Idle)
  BY <1>2, IdleOK, SilentStep DEF NextStripeRefund
<1>3. ASSUME NEW i \in handler[h].todo,
             LET rest == [handler[h] EXCEPT !.todo = @ \ {i}] IN
             Step(h, IF RefundId(i) \in refundIds THEN rest
                     ELSE [rest EXCEPT !.pc = "book", !.id = RefundId(i),
                                       !.amount = refunds[i].amount])
      PROVE  Inv'
  <2> DEFINE r0 == handler[h]
             t == r0.todo \ {i}
             n == refunds[i].amount
             id == RefundId(i)
             r1 == [r0 EXCEPT !.todo = t]
             r2 == [r1 EXCEPT !.pc = "book"]
             r3 == [r2 EXCEPT !.id = id]
             r4 == [r3 EXCEPT !.amount = n]
  <2>1. Step(h, r1) \/ Step(h, r4)
    BY <1>3
  <2>2. refunds[i] \in RefundType
    BY <1>1, <1>3 DEF RestOK
  <2>3. n \in 0..Price /\ id \in Ids /\ t \in SUBSET (Sessions \cup Nat) /\ t \subseteq DOMAIN refunds
    BY <1>1, <1>3, <2>2, PaymentsAssumption DEF RefundType, RefundId, Ids
  <2> HIDE DEF t, n, id
  <2>4. r1 \in HandlerType /\ r1.pc = r0.pc /\ r1.session = r0.session /\ r1.saw = r0.saw /\ r1.todo = t
    BY <1>1, <2>3, Fields
  <2> HIDE DEF r1
  <2>5. r2 \in HandlerType /\ r2.pc = "book" /\ r2.session = r0.session /\ r2.saw = r0.saw /\ r2.todo = t
    BY <2>4, Fields DEF PCs
  <2> HIDE DEF r2
  <2>6. r3 \in HandlerType /\ r3.pc = "book" /\ r3.session = r0.session /\ r3.saw = r0.saw /\ r3.todo = t
    BY <2>3, <2>5, MoreFields
  <2> HIDE DEF r3
  <2>7. r4 \in HandlerType /\ r4.pc = "book" /\ r4.session = r0.session /\ r4.saw = r0.saw /\ r4.todo = t
    BY <2>3, <2>6, Fields
  <2> HIDE DEF r4
  <2>8. HandlerOK(r1) /\ HandlerOK(r4)
    BY <1>1, <2>3, <2>4, <2>7 DEF HandlerOK
  <2> QED
    BY <2>1, <2>8, SilentStep DEF NextStripeRefund
<1> QED
  BY <1>2, <1>3 DEF NextStripeRefund

LEMMA RereadInv ==
  ASSUME Inv, NEW h \in Processes, Reread(h)
  PROVE  Inv'
<1> DEFINE r0 == handler[h]
           saw == payment[r0.session].refunded
           r1 == [r0 EXCEPT !.pc = "refunds"]
           r2 == [r1 EXCEPT !.saw = saw]
<1>1. /\ r0 \in HandlerType /\ RestOK /\ r0.todo \subseteq DOMAIN refunds /\ r0.session \in Sessions
  BY DEF Inv, HandlerOK, Reread, At, HandlerType
<1>2. saw \in Nat /\ saw <= booked[r0.session]
  BY <1>1 DEF RestOK, PaymentType, RollupNeverExceedsRows
<1>3. Step(h, r2)
  BY DEF Reread
<1> HIDE DEF saw, r0
<1>4. r1 \in HandlerType /\ r1.pc = "refunds" /\ r1.session = r0.session /\ r1.todo = r0.todo
  <2>1. r0 \in HandlerType /\ "refunds" \in PCs
    BY <1>1 DEF PCs
  <2> QED
    BY <2>1, Fields
<1> HIDE DEF r1
<1>5. /\ r2 \in HandlerType /\ r2.pc = "refunds" /\ r2.session = r0.session /\ r2.saw = saw
      /\ r2.todo = r0.todo
  BY <1>2, <1>4, Fields
<1> HIDE DEF r2
<1>6. HandlerOK(r2)
  BY <1>1, <1>2, <1>5 DEF HandlerOK
<1> QED
  BY <1>3, <1>6, SilentStep DEF Reread

-------------------------------------------------------------------------------
(* Steps that change the books, or Stripe                                  *)

\* A throw that leaves the books as they are.
LEMMA ThrowInv ==
  ASSUME Inv, NEW h \in Processes, Throw(h), UNCHANGED <<stripe, ledger, books>>, faults' \in Nat
  PROVE  Inv'
<1>1. Step(h, Idle) /\ intent' \in [Intents -> IntentType]
  BY Thrown
<1>2. UNCHANGED <<stripe, books>> /\ ledger' \subseteq Sent
  BY DEF Inv, RestOK
<1> QED
  BY <1>1, <1>2, IdleOK, QuietStep

LEMMA DieInv ==
  ASSUME Inv, NEW h \in Processes, Die(h)
  PROVE  Inv'
<1>1. faults' \in Nat
  BY DEF Inv, RestOK, Die
<1> QED
  BY <1>1, ThrowInv DEF Die

\* A grant: the session had no payment, so it was not counted yet; the rollup of a
\* payment without one is covered as it was.
LEMMA FulfillCommitInv ==
  ASSUME Inv, NEW h \in Processes, FulfillCommit(h)
  PROVE  Inv'
<1>1. CASE Conflicts(h) /\ Throw(h) /\ UNCHANGED books
  <2>1. UNCHANGED <<stripe, ledger, books>> /\ faults' \in Nat
    BY <1>1 DEF FulfillCommit, Inv, RestOK
  <2> QED
    BY <1>1, <2>1, ThrowInv
<1>2. CASE /\ ~Conflicts(h) /\ Grant(h, handler[h].session)
           /\ Step(h, Finished(h)) /\ UNCHANGED intent
  <2> DEFINE s == handler[h].session
             p == [payment[s] EXCEPT !.made = TRUE]
  <2>1. s \in Sessions /\ RestOK /\ handler[h].pc = "grant"
    BY DEF Inv, HandlerType, FulfillCommit, At
  <2>2. HandlerOK(Finished(h))
    BY <2>1, FinishedOK
  <2>3. /\ payment' = [payment EXCEPT ![s] = p]
        /\ purchases' = [purchases EXCEPT ![s] = @ + 1]
        /\ caseStatus' = IF s = Review \/ handler[h].reopens THEN "AWAITING_DOCS" ELSE caseStatus
        /\ UNCHANGED <<stripe, ledger, refundIds, booked, intent, faults>>
        /\ ~payment[s].made
    BY <1>2 DEF FulfillCommit, Grant, Conflicts
  <2>4. p \in PaymentType /\ p.made = TRUE /\ p.refunded = payment[s].refunded
    <3>1. payment[s] \in PaymentType
      BY <2>1 DEF RestOK
    <3> QED
      BY <3>1 DEF PaymentType
  <2> HIDE DEF s, p
  <2>5. /\ payment' \in [Sessions -> PaymentType] /\ payment'[s] = p
        /\ \A t \in Sessions : t # s => payment'[t] = payment[t]
    BY <2>1, <2>3, <2>4 DEF RestOK
  <2>6. /\ purchases' \in [Sessions -> Nat] /\ purchases'[s] = purchases[s] + 1
        /\ \A t \in Sessions : t # s => purchases'[t] = purchases[t]
    BY <2>1, <2>3 DEF RestOK
  <2>7. DeliveredOnce'
    <3>1. purchases[s] = 0
      BY <2>1, <2>3 DEF RestOK, DeliveredOnce
    <3> QED
      BY <2>1, <2>4, <2>5, <2>6, <3>1 DEF RestOK, DeliveredOnce
  <2>8. RollupNeverExceedsRows'
    BY <2>1, <2>3, <2>4, <2>5 DEF RestOK, RollupNeverExceedsRows
  <2>9. ClosedOnlyWhenPaidBack' /\ caseStatus' \in CaseStates
    BY <2>1, <2>3 DEF RestOK, ClosedOnlyWhenPaidBack, CaseStates
  <2>10. ledger' \subseteq Sent' /\ UNCHANGED <<paid, refunds, returned, disputes, refundIds, booked, intent, faults>>
    BY <2>1, <2>3 DEF RestOK, Sent, stripe
  <2>11. RestOK'
    BY <2>1, <2>5, <2>6, <2>7, <2>8, <2>9, <2>10 DEF RestOK
  <2>12. booked' = booked /\ refunds' = refunds
    BY <2>10
  <2> DEFINE r == Finished(h)
  <2>13. Step(h, r) /\ HandlerOK(r)
    BY <1>2, <2>2
  <2> HIDE DEF r
  <2>14. ASSUME NEW q, q = r PROVE HandlerOK(q)'
    BY <2>10, <2>13, <2>14 DEF HandlerOK
  <2> QED
    BY <2>1, <2>11, <2>13, <2>14, <2>12, StepInv DEF RestOK
<1> QED
  BY <1>1, <1>2 DEF FulfillCommit

\* Stripe's part of a refund: one more, within the charge.
LEMMA ReturnOK ==
  ASSUME RestOK, NEW s \in Sessions, NEW amount \in 1..Price,
         NEW key \in {NoKey} \cup (Sessions \X Nat \X Nat), NEW i \in Intents \cup {None},
         Return(s, amount, key, i), UNCHANGED <<ledger, books, intent, faults>>
  PROVE  RestOK' /\ DOMAIN refunds \subseteq DOMAIN refunds' /\ Len(refunds) + 1 \in Nat
<1> DEFINE r == [session |-> s, amount |-> amount, key |-> key, for |-> i]
<1>1. refunds \in Seq(RefundType) /\ r \in RefundType
  BY DEF RestOK, RefundType
<1>2. refunds' = Append(refunds, r)
  BY DEF Return
<1> HIDE DEF r
<1>3. /\ refunds' \in Seq(RefundType)
      /\ DOMAIN refunds \subseteq DOMAIN refunds' /\ Len(refunds) + 1 \in Nat
      /\ \A j \in DOMAIN refunds : refunds'[j] = refunds[j]
  <2>1. \A S : \A q \in Seq(S) : \A x \in S :
          /\ Append(q, x) \in Seq(S) /\ Len(q) + 1 \in Nat
          /\ DOMAIN q \subseteq DOMAIN Append(q, x)
          /\ \A j \in DOMAIN q : Append(q, x)[j] = q[j]
    OBVIOUS
  <2> QED
    BY <1>1, <1>2, <2>1
<1>4. returned' \in [Sessions -> 0..Price]
  BY PaymentsAssumption DEF RestOK, Return
<1>5. ledger' \subseteq Sent'
  BY <1>3 DEF RestOK, Return, Sent
<1>6. DeliveredOnce' /\ RollupNeverExceedsRows' /\ ClosedOnlyWhenPaidBack'
  BY DEF RestOK, DeliveredOnce, RollupNeverExceedsRows, ClosedOnlyWhenPaidBack, books
<1> QED
  BY <1>3, <1>4, <1>5, <1>6 DEF RestOK, Return, books

LEMMA CreateRefundInv ==
  ASSUME Inv, NEW h \in Processes, CreateRefund(h)
  PROVE  Inv'
<1> DEFINE r0 == handler[h]
           key == IdempotencyKey(h)
<1>1. /\ r0 \in HandlerType /\ r0.pc = "create" /\ r0.todo = {} /\ r0.amount > 0
      /\ r0.saw <= booked[r0.session]
  BY DEF Inv, HandlerOK, CreateRefund, At
<1>2. RestOK /\ r0.session \in Sessions /\ r0.saw \in Nat
  BY <1>1 DEF Inv, HandlerType
<1>3. /\ r0.amount \in 1..Price /\ r0.for \in Intents \cup {None}
      /\ key \in Sessions \X Nat \X Nat
  BY <1>1, <1>2, PaymentsAssumption DEF HandlerType, IdempotencyKey
<1>4. ASSUME NEW id \in Nat
      PROVE  HandlerOK([r0 EXCEPT !.pc = "book", !.id = RefundId(id)])
  <2> DEFINE r1 == [r0 EXCEPT !.pc = "book"]
             r2 == [r1 EXCEPT !.id = RefundId(id)]
  <2>1. [r0 EXCEPT !.pc = "book", !.id = RefundId(id)] = r2
    BY <1>1 DEF HandlerType
  <2> HIDE DEF r0
  <2>2. /\ r1 \in HandlerType /\ r1.pc = "book" /\ r1.todo = {} /\ r1.session = r0.session
        /\ r1.saw = r0.saw
    BY <1>1, Fields DEF PCs
  <2> HIDE DEF r1
  <2>3. RefundId(id) \in Ids
    BY DEF RefundId, Ids
  <2>4. /\ r2 \in HandlerType /\ r2.pc = "book" /\ r2.todo = {} /\ r2.session = r0.session
        /\ r2.saw = r0.saw
    BY <2>2, <2>3, MoreFields
  <2> HIDE DEF r2
  <2> QED
    BY <1>1, <2>1, <2>4 DEF HandlerOK
<1>5. ASSUME NEW id \in MadeUnder(key), UNCHANGED <<stripe, intent>>,
             Step(h, [r0 EXCEPT !.pc = "book", !.id = RefundId(id)])
      PROVE  Inv'
  <2>1. id \in Nat
    BY <1>2 DEF MadeUnder, RestOK
  <2>2. UNCHANGED <<stripe, ledger, books, intent, faults>>
    BY <1>5 DEF CreateRefund
  <2> HIDE DEF r0
  <2> QED
    BY <1>4, <1>5, <2>1, <2>2, SilentStep
<1>6. ASSUME Return(r0.session, r0.amount, key, r0.for), UNCHANGED intent,
             Step(h, [r0 EXCEPT !.pc = "book", !.id = RefundId(Len(refunds) + 1)])
      PROVE  Inv'
  <2>1. UNCHANGED <<ledger, books, intent, faults>>
    BY <1>6 DEF CreateRefund
  <2> HIDE DEF r0, key
  <2>2. RestOK' /\ DOMAIN refunds \subseteq DOMAIN refunds' /\ Len(refunds) + 1 \in Nat
    BY <1>2, <1>3, <1>6, <2>1, ReturnOK
  <2> DEFINE r == [r0 EXCEPT !.pc = "book", !.id = RefundId(Len(refunds) + 1)]
  <2>3. Step(h, r) /\ HandlerOK(r) /\ booked' = booked
    BY <1>4, <1>6, <2>1, <2>2 DEF books
  <2> HIDE DEF r
  <2>4. ASSUME NEW q, q = r PROVE HandlerOK(q)'
    BY <2>2, <2>3, <2>4 DEF HandlerOK
  <2>5. \A s \in Sessions : booked[s] <= booked'[s]
    BY <1>2, <2>3 DEF RestOK
  <2> QED
    BY <2>2, <2>3, <2>4, <2>5, StepInv
<1>7. CASE Throw(h) /\ UNCHANGED stripe
  <2>1. UNCHANGED <<stripe, ledger, books>> /\ faults' \in Nat
    BY <1>2, <1>7 DEF CreateRefund, RestOK
  <2> QED
    BY <1>7, <2>1, ThrowInv
<1> QED
  BY <1>5, <1>6, <1>7 DEF CreateRefund

\* A booking: the row's amount is added to the rows and to what the handler saw
\* of them, so the rollup it writes is covered whatever was booked in between.
LEMMA BookOK ==
  ASSUME RestOK, NEW h \in Processes, HandlerOK(handler[h]), handler[h].pc = "book",
         Book(h, handler[h].session, handler[h].saw + handler[h].amount),
         UNCHANGED <<stripe, ledger, faults>>, intent' \in [Intents -> IntentType]
  PROVE  RestOK' /\ refunds' = refunds /\ \A s \in Sessions : booked[s] <= booked'[s]
<1> DEFINE s == handler[h].session
           n == handler[h].amount
           rollup == handler[h].saw + n
           p == [payment[s] EXCEPT !.refunded = rollup]
<1>1. s \in Sessions /\ n \in Nat /\ handler[h].saw \in Nat /\ handler[h].id \in Ids
  BY PaymentsAssumption DEF HandlerOK, HandlerType
<1>2. handler[h].saw <= booked[s] /\ booked[s] \in Nat
  BY <1>1 DEF HandlerOK, RestOK
<1>3. rollup \in Nat /\ rollup <= booked[s] + n
  BY <1>1, <1>2
<1>4. /\ refundIds' = refundIds \cup {handler[h].id}
      /\ booked' = [booked EXCEPT ![s] = @ + n]
      /\ payment' = [payment EXCEPT ![s] = p]
      /\ caseStatus' = IF s = Review /\ rollup >= Price /\ caseStatus \notin {None, "GONE"}
                       THEN "REFUNDED" ELSE caseStatus
      /\ purchases' = purchases
  BY DEF Book
<1>5. p \in PaymentType /\ p.made = payment[s].made /\ p.refunded = rollup
  <2>1. payment[s] \in PaymentType
    BY <1>1 DEF RestOK
  <2> HIDE DEF s, rollup
  <2> QED
    BY <1>3, <2>1 DEF PaymentType
<1> HIDE DEF s, n, rollup, p
<1>6. /\ booked' \in [Sessions -> Nat] /\ booked'[s] = booked[s] + n
      /\ \A t \in Sessions : t # s => booked'[t] = booked[t]
  BY <1>1, <1>4 DEF RestOK
<1>7. /\ payment' \in [Sessions -> PaymentType] /\ payment'[s] = p
      /\ \A t \in Sessions : t # s => payment'[t] = payment[t]
  BY <1>1, <1>4, <1>5 DEF RestOK
<1>8. DeliveredOnce'
  BY <1>4, <1>5, <1>7 DEF RestOK, DeliveredOnce
<1>9. RollupNeverExceedsRows'
  BY <1>3, <1>5, <1>6, <1>7 DEF RestOK, RollupNeverExceedsRows
<1>10. ASSUME NEW t \in Sessions PROVE booked[t] <= booked'[t]
  <2>1. booked[t] \in Nat
    BY DEF RestOK
  <2> QED
    BY <1>1, <1>2, <1>6, <2>1
<1>11. ClosedOnlyWhenPaidBack'
  <2>1. /\ Review \in Sessions /\ Price \in Nat
        /\ booked[Review] \in Nat /\ booked'[Review] \in Nat
    BY <1>6, PaymentsAssumption DEF RestOK, Sessions
  <2>2. CASE caseStatus' = caseStatus
    BY <1>10, <2>1, <2>2 DEF RestOK, ClosedOnlyWhenPaidBack
  <2>3. CASE caseStatus' # caseStatus
    <3>1. s = Review /\ rollup >= Price
      BY <1>4, <2>3
    <3> QED
      BY <1>3, <1>6, <2>1, <3>1 DEF ClosedOnlyWhenPaidBack
  <2> QED
    BY <2>2, <2>3
<1>12. caseStatus' \in CaseStates /\ refundIds' \subseteq Ids
  BY <1>1, <1>4 DEF RestOK, CaseStates
<1>13. ledger' \subseteq Sent' /\ UNCHANGED <<paid, refunds, returned, disputes, faults>>
  BY DEF RestOK, Sent, stripe
<1> QED
  BY <1>4, <1>6, <1>7, <1>8, <1>9, <1>10, <1>11, <1>12, <1>13 DEF RestOK

LEMMA RecordRefundInv ==
  ASSUME Inv, NEW h \in Processes, RecordRefund(h)
  PROVE  Inv'
<1>1. RestOK /\ HandlerOK(handler[h]) /\ handler[h].pc = "book"
  BY DEF Inv, RecordRefund, At
<1>2. CASE handler[h].id \in refundIds /\ Throw(h) /\ UNCHANGED books
  <2>1. UNCHANGED <<stripe, ledger, books>> /\ faults' \in Nat
    BY <1>1, <1>2 DEF RecordRefund, RestOK
  <2> QED
    BY <1>2, <2>1, ThrowInv
<1>3. CASE ~(handler[h].id \in refundIds /\ Throw(h) /\ UNCHANGED books)
  <2>1. /\ Book(h, handler[h].session, handler[h].saw + handler[h].amount)
        /\ Step(h, AfterBooking(h)) /\ UNCHANGED <<stripe, ledger, faults>>
        /\ intent' = [i \in Intents |-> IF i = handler[h].for
                                        THEN [intent[i] EXCEPT !.state = "done"] ELSE intent[i]]
    BY <1>3 DEF RecordRefund
  <2>2. intent' \in [Intents -> IntentType]
    <3>1. \A i \in Intents : [intent[i] EXCEPT !.state = "done"] \in IntentType
      BY <1>1 DEF RestOK, IntentType
    <3>2. \A i \in Intents : intent[i] \in IntentType
      BY <1>1 DEF RestOK
    <3> QED
      BY <2>1, <3>1, <3>2
  <2>3. RestOK' /\ refunds' = refunds /\ \A s \in Sessions : booked[s] <= booked'[s]
    BY <1>1, <2>1, <2>2, BookOK
  <2> DEFINE r0 == handler[h]
             r1 == [r0 EXCEPT !.pc = "reread"]
  <2>4. r0 \in HandlerType /\ r0.todo \subseteq DOMAIN refunds /\ AfterBooking(h) \in {r1, Idle}
    BY <1>1 DEF HandlerOK, AfterBooking
  <2> HIDE DEF r0
  <2>5. r1 \in HandlerType /\ r1.pc = "reread" /\ r1.todo = r0.todo
    <3>1. r0 \in HandlerType /\ "reread" \in PCs
      BY <2>4 DEF PCs
    <3> QED
      BY <3>1, Fields
  <2> HIDE DEF r1
  <2>6. ASSUME NEW q, q = AfterBooking(h) PROVE HandlerOK(q)'
    BY <2>3, <2>4, <2>5, <2>6, IdleType DEF HandlerOK
  <2> QED
    BY <2>1, <2>3, <2>6, StepInv
<1> QED
  BY <1>2, <1>3

\* A mark on the payment changes neither its rollup nor whether it was made.
LEMMA MarkOK ==
  ASSUME RestOK, NEW s \in Sessions, NEW mark \in {None, "open", "won", "lost"}, Marked(s, mark),
         UNCHANGED <<stripe, ledger, refundIds, booked, purchases, caseStatus, intent, faults>>
  PROVE  RestOK'
<1> DEFINE p == [payment[s] EXCEPT !.dispute = mark]
<1>1. payment[s] \in PaymentType
  BY DEF RestOK
<1>2. p \in PaymentType /\ p.made = payment[s].made /\ p.refunded = payment[s].refunded
  BY <1>1 DEF PaymentType
<1>3. payment' = payment \/ payment' = [payment EXCEPT ![s] = p]
  BY DEF Marked
<1> HIDE DEF p
<1>4. /\ payment' \in [Sessions -> PaymentType]
      /\ \A t \in Sessions : /\ payment'[t].made = payment[t].made
                            /\ payment'[t].refunded = payment[t].refunded
  BY <1>2, <1>3 DEF RestOK
<1>5. DeliveredOnce' /\ RollupNeverExceedsRows' /\ ClosedOnlyWhenPaidBack'
  BY <1>4 DEF RestOK, DeliveredOnce, RollupNeverExceedsRows, ClosedOnlyWhenPaidBack
<1>6. ledger' \subseteq Sent'
  BY DEF RestOK, Sent, stripe
<1> QED
  BY <1>4, <1>5, <1>6 DEF RestOK, stripe

LEMMA DisputeInv ==
  ASSUME Inv, NEW h \in Processes, DisputeCreated(h) \/ DisputeClosed(h)
  PROVE  Inv'
<1> DEFINE r0 == handler[h]
           s == r0.session
           n == Remaining(payment[s])
           saw == payment[s].refunded
           r1 == [r0 EXCEPT !.pc = "book"]
           r2 == [r1 EXCEPT !.id = DisputeId(s)]
           r3 == [r2 EXCEPT !.saw = saw]
           r4 == [r3 EXCEPT !.amount = n]
<1>1. RestOK /\ HandlerOK(r0) /\ r0 \in HandlerType /\ s \in Sessions
  BY DEF Inv, HandlerOK, HandlerType
<1>2. disputes[s] \in {None, "open", "won", "lost"}
  BY <1>1 DEF RestOK
<1>3. UNCHANGED <<stripe, ledger, refundIds, booked, purchases, caseStatus, intent, faults>>
  BY DEF DisputeCreated, DisputeClosed
<1>4. RestOK'
  <2>1. Marked(s, "open") \/ Marked(s, disputes[s])
    BY DEF DisputeCreated, DisputeClosed
  <2> HIDE DEF s
  <2> QED
    BY <1>1, <1>2, <1>3, <2>1, MarkOK
<1>5. /\ refunds' = refunds /\ booked' = booked
      /\ \A t \in Sessions : booked[t] <= booked'[t]
  BY <1>1, <1>3 DEF RestOK, stripe
<1>6. CASE Step(h, Idle)
  <2>1. HandlerOK(Idle)'
    BY <1>5, IdleType DEF HandlerOK
  <2> QED
    BY <1>4, <1>5, <1>6, <2>1, StepInv
<1>7. CASE DisputeClosed(h) /\ ~Step(h, Idle)
  <2>1. Step(h, r4) /\ r0.todo = {}
    BY <1>1, <1>7 DEF DisputeClosed, HandlerOK, At
  <2>2. saw \in Nat /\ saw <= booked[s] /\ n \in 0..Price
    <3>1. payment[s] \in PaymentType /\ payment[s].refunded <= booked[s]
      BY <1>1 DEF RestOK, RollupNeverExceedsRows
    <3> QED
      BY <3>1, PaymentsAssumption DEF PaymentType, Remaining
  <2>3. DisputeId(s) \in Ids
    BY <1>1 DEF DisputeId, Ids
  <2> HIDE DEF saw, n
  <2>4. r1 \in HandlerType /\ r1.pc = "book" /\ r1.todo = {} /\ r1.session = s
    BY <1>1, <2>1, Fields DEF PCs
  <2> HIDE DEF r1
  <2>5. r2 \in HandlerType /\ r2.pc = "book" /\ r2.todo = {} /\ r2.session = s
    BY <2>3, <2>4, MoreFields
  <2> HIDE DEF r2
  <2>6. r3 \in HandlerType /\ r3.pc = "book" /\ r3.todo = {} /\ r3.session = s /\ r3.saw = saw
    BY <2>2, <2>5, Fields
  <2> HIDE DEF r3
  <2>7. r4 \in HandlerType /\ r4.pc = "book" /\ r4.todo = {} /\ r4.session = s /\ r4.saw = saw
    BY <2>2, <2>6, Fields
  <2> HIDE DEF r4
  <2>8. ASSUME NEW q, q = r4 PROVE HandlerOK(q)'
    BY <1>5, <2>2, <2>7, <2>8 DEF HandlerOK
  <2> QED
    BY <1>4, <1>5, <2>1, <2>8, StepInv
<1>8. DisputeCreated(h) => Step(h, Idle)
  BY DEF DisputeCreated
<1> QED
  BY <1>6, <1>7, <1>8

-------------------------------------------------------------------------------
(* Everybody else's steps, and the whole                                   *)

\* A step outside the handlers, that books nothing.
LEMMA EnvStep ==
  ASSUME Inv, RestOK', UNCHANGED <<handler, booked>>, DOMAIN refunds \subseteq DOMAIN refunds'
  PROVE  Inv'
<1>1. ASSUME NEW h \in Processes PROVE HandlerOK(handler[h])'
  <2> DEFINE r == handler[h]
  <2>1. HandlerOK(r) /\ r = handler'[h] /\ booked' = booked
    BY DEF Inv
  <2> HIDE DEF r
  <2>2. ASSUME NEW q, q = r PROVE HandlerOK(q)'
    BY <2>1, <2>2 DEF HandlerOK
  <2> QED
    BY <2>1, <2>2
<1> QED
  BY <1>1 DEF Inv

LEMMA EnvironmentInv ==
  ASSUME Inv, Environment
  PROVE  Inv'
<1>1. RestOK
  BY DEF Inv
<1>2. ASSUME NEW s \in Sessions, Pay(s) PROVE Inv'
  <2>1. /\ paid' = paid \cup {s}
        /\ UNCHANGED <<refunds, returned, disputes, ledger, books, intent, handler, faults>>
    BY <1>2 DEF Pay
  <2>2. ledger' \subseteq Sent'
    BY <1>1, <2>1 DEF RestOK, Sent
  <2>3. RestOK'
    BY <1>1, <2>1, <2>2 DEF RestOK, books, DeliveredOnce, RollupNeverExceedsRows, ClosedOnlyWhenPaidBack
  <2>4. UNCHANGED <<handler, booked>> /\ DOMAIN refunds \subseteq DOMAIN refunds'
    BY <2>1 DEF books
  <2> QED
    BY <2>3, <2>4, EnvStep
<1>3. ASSUME NEW s \in Contested, NEW amount \in 1..Price, DashboardRefund(s, amount) PROVE Inv'
  <2>1. s \in Sessions /\ None \in Intents \cup {None} /\ NoKey \in {NoKey} \cup (Sessions \X Nat \X Nat)
    BY PaymentsAssumption DEF Sessions
  <2>2. /\ Return(s, amount, NoKey, None)
        /\ UNCHANGED <<ledger, books, intent, handler, faults>>
    BY <1>3 DEF DashboardRefund
  <2>3. RestOK' /\ DOMAIN refunds \subseteq DOMAIN refunds'
    BY <1>1, <2>1, <2>2, ReturnOK
  <2> QED
    BY <2>2, <2>3, EnvStep DEF books
<1>4. ASSUME NEW s \in Contested, NEW outcome \in {"open", "won", "lost"}, Dispute(s, outcome)
      PROVE  Inv'
  <2>1. /\ disputes[s] = None \/ (disputes[s] = "open" /\ outcome \in {"won", "lost"})
        /\ disputes' = [disputes EXCEPT ![s] = outcome]
        /\ UNCHANGED <<paid, refunds, returned, ledger, books, intent, handler, faults>>
    BY <1>4 DEF Dispute
  <2>2. disputes' \in [Sessions -> {None, "open", "won", "lost"}]
    BY <1>1, <2>1 DEF RestOK
  <2>3. \A t \in Sessions : /\ disputes[t] # None => disputes'[t] # None
                            /\ disputes[t] \in {"won", "lost"} => disputes'[t] \in {"won", "lost"}
    BY <1>1, <2>1 DEF RestOK, None
  <2>4. ledger' \subseteq Sent'
    BY <1>1, <2>1, <2>3 DEF RestOK, Sent
  <2>5. RestOK'
    BY <1>1, <2>1, <2>2, <2>4 DEF RestOK, books, DeliveredOnce, RollupNeverExceedsRows, ClosedOnlyWhenPaidBack
  <2>6. UNCHANGED <<handler, booked>> /\ DOMAIN refunds \subseteq DOMAIN refunds'
    BY <2>1 DEF books
  <2> QED
    BY <2>5, <2>6, EnvStep
<1>5. CASE CaseMoves
  <2>1. /\ caseStatus' \in {"READY", "GONE"}
        /\ UNCHANGED <<stripe, ledger, payment, refundIds, booked, purchases, intent, handler, faults>>
    BY <1>5, PaymentsAssumption DEF CaseMoves
  <2>2. ledger' \subseteq Sent'
    BY <1>1, <2>1 DEF RestOK, Sent, stripe
  <2>3. ClosedOnlyWhenPaidBack' /\ caseStatus' \in CaseStates
    BY <2>1 DEF ClosedOnlyWhenPaidBack, CaseStates
  <2>4. RestOK'
    BY <1>1, <2>1, <2>2, <2>3 DEF RestOK, stripe, DeliveredOnce, RollupNeverExceedsRows
  <2>5. UNCHANGED <<handler, booked>> /\ DOMAIN refunds \subseteq DOMAIN refunds'
    BY <2>1 DEF stripe
  <2> QED
    BY <2>4, <2>5, EnvStep
<1> QED
  BY <1>2, <1>3, <1>4, <1>5 DEF Environment

LEMMA InitInv == Init => Inv
<1> SUFFICES ASSUME Init PROVE Inv
  OBVIOUS
<1>1. NoPayment \in PaymentType /\ NoPayment.made = FALSE /\ NoPayment.refunded = 0
  BY DEF NoPayment, PaymentType, None
<1>2. NoIntent \in IntentType
  BY PaymentsAssumption DEF NoIntent, IntentType, Sessions
<1>3. /\ payment = [s \in Sessions |-> NoPayment] /\ booked = [s \in Sessions |-> 0]
      /\ purchases = [s \in Sessions |-> 0] /\ caseStatus = None
      /\ intent = [i \in Intents |-> NoIntent]
      /\ handler = [h \in Processes |-> Idle]
  BY DEF Init
<1>4. DeliveredOnce /\ RollupNeverExceedsRows
  BY <1>1, <1>3 DEF DeliveredOnce, RollupNeverExceedsRows
<1>5. ClosedOnlyWhenPaidBack
  BY <1>3 DEF ClosedOnlyWhenPaidBack, None
<1>6. /\ paid \in SUBSET Sessions /\ returned \in [Sessions -> 0..Price]
      /\ disputes \in [Sessions -> {None, "open", "won", "lost"}] /\ ledger \subseteq Sent
      /\ refundIds \subseteq Ids /\ faults \in Nat
  BY PaymentsAssumption DEF Init
<1>7. refunds \in Seq(RefundType)
  BY DEF Init
<1>8. RestOK
  BY <1>1, <1>2, <1>3, <1>4, <1>5, <1>6, <1>7 DEF RestOK, CaseStates
<1> QED
  BY <1>3, <1>8, IdleOK, IdleType DEF Inv

LEMMA NextInv == Inv /\ [Next]_vars => Inv'
<1> SUFFICES ASSUME Inv, [Next]_vars PROVE Inv'
  OBVIOUS
<1>1. CASE Environment
  BY <1>1, EnvironmentInv
<1>2. ASSUME NEW h \in Handlers, Start(h) PROVE Inv'
  <2>1. h \in Processes /\ Contested \subseteq Sessions
    BY HandlersAreProcesses, PaymentsAssumption DEF Sessions
  <2>2. ASSUME NEW e \in Sent, HandleStripeEvent(h, e) PROVE Inv'
    BY <2>1, <2>2, HandleStripeEventInv DEF HandleStripeEvent
  <2>3. ASSUME NEW s \in Sessions, SelfHeal(h, s) PROVE Inv'
    BY <2>1, <2>3, SelfHealInv
  <2>4. ASSUME NEW i \in Intents, NEW s \in Contested, NEW amount \in 0..Price,
               IssueRefund(h, i, s, amount)
        PROVE  Inv'
    BY <2>1, <2>4, IssueRefundInv
  <2> QED
    BY <1>2, <2>2, <2>3, <2>4 DEF Start
<1>3. ASSUME NEW h \in Handlers, Continue(h) PROVE Inv'
  BY <1>3, HandlersAreProcesses, FulfillReadInv, FulfillCommitInv, CreateRefundInv, RecordRefundInv,
     FindPaymentInv, NextStripeRefundInv, RereadInv, DisputeInv DEF Continue
<1>4. ASSUME NEW h \in Processes, Die(h) PROVE Inv'
  BY <1>4, DieInv
<1>5. CASE Sweep
  BY <1>5, HandlersAreProcesses, SweepInv, FulfillReadInv, FulfillCommitInv DEF Sweep
<1>6. CASE UNCHANGED vars
  <2>1. RestOK'
    BY <1>6 DEF Inv, vars, RestOK, Sent, DeliveredOnce, RollupNeverExceedsRows, ClosedOnlyWhenPaidBack
  <2>2. UNCHANGED <<handler, booked>> /\ DOMAIN refunds \subseteq DOMAIN refunds'
    BY <1>6 DEF vars
  <2> QED
    BY <2>1, <2>2, EnvStep
<1> QED
  BY <1>1, <1>2, <1>3, <1>4, <1>5, <1>6, HandlersAreProcesses DEF Next

-------------------------------------------------------------------------------
(* What is booked is what went back                                        *)
(*                                                                         *)
(* A row is booked once per refund, at the refund's amount; so the rows of a *)
(* session are what Stripe returned less the refunds not booked yet, and once *)
(* the charge for a dispute. f is the running sum of the unbooked refunds. *)

Unbooked(i, s) ==
  IF refunds[i].session = s /\ RefundId(i) \notin refundIds THEN refunds[i].amount ELSE 0

Disputed(s) == IF DisputeId(s) \in refundIds THEN Price ELSE 0

SumsUp(f, s) ==
  /\ f \in [0..Len(refunds) -> Nat]
  /\ \A i \in 1..Len(refunds) : f[i] = f[i - 1] + Unbooked(i, s)
  /\ \A i, j \in 0..Len(refunds) : i <= j => f[i] <= f[j]
  /\ booked[s] + f[Len(refunds)] <= returned[s] + Disputed(s)

BooksOK ==
  /\ \A s \in Sessions : \E f : SumsUp(f, s)
  /\ \A s \in Sessions : DisputeId(s) \in refundIds => disputes[s] = "lost"

\* An idempotency key names its refund's session and amount.
KeysOK ==
  \A i \in DOMAIN refunds :
    \/ refunds[i].key = NoKey
    \/ /\ refunds[i].key[1] = refunds[i].session /\ refunds[i].key[3] = refunds[i].amount
       /\ Len(refunds[i].key) = 3

\* What a handler is about to book is a lost dispute of its session, or a refund
\* that Stripe made for it, at its amount; its list is of that session's refunds.
BookingOK(r) ==
  /\ r.pc = "book" =>
       \/ r.id = DisputeId(r.session) /\ disputes[r.session] = "lost"
       \/ \E i \in DOMAIN refunds :
            r.id = RefundId(i) /\ refunds[i].session = r.session /\ refunds[i].amount = r.amount
  /\ r.pc \in {"book", "refunds", "reread"} => \A i \in r.todo : refunds[i].session = r.session

BackInv == BooksOK /\ KeysOK /\ \A h \in Processes : BookingOK(handler[h])

\* One more refund: the running sum goes on by what of it is not booked, which is
\* no more than went back.
LEMMA SumExtended ==
  ASSUME RestOK, NEW s \in Sessions, NEW f, SumsUp(f, s), NEW t \in Sessions,
         NEW amount \in 1..Price, NEW key \in {NoKey} \cup (Sessions \X Nat \X Nat),
         NEW i \in Intents \cup {None}, Return(t, amount, key, i), UNCHANGED books
  PROVE  \E g : SumsUp(g, s)'
<1>0. PICK n : n = Len(refunds)
  OBVIOUS
<1> DEFINE r == [session |-> t, amount |-> amount, key |-> key, for |-> i]
           more == Unbooked(n + 1, s)'
           g == [j \in 0..(n + 1) |-> IF j <= n THEN f[j] ELSE f[n] + more]
<1>1. refunds \in Seq(RefundType) /\ r \in RefundType /\ n \in Nat /\ amount \in Nat
  BY <1>0, PaymentsAssumption DEF RestOK, RefundType
<1>2. refunds' = Append(refunds, r) /\ returned' = [returned EXCEPT ![t] = @ + amount]
  BY DEF Return
<1>3. r.session = t /\ r.amount = amount
  OBVIOUS
<1> HIDE DEF r
<1>4. /\ Len(refunds') = n + 1 /\ refunds'[n + 1] = r
      /\ \A j \in 1..n : refunds'[j] = refunds[j]
  BY <1>0, <1>1, <1>2
<1>5. more \in {0, amount} /\ (more # 0 => s = t)
  BY <1>1, <1>3, <1>4 DEF Unbooked
<1>6. ASSUME NEW j \in 1..n PROVE Unbooked(j, s)' = Unbooked(j, s)
  BY <1>4 DEF Unbooked, books
<1>7. /\ f \in [0..n -> Nat] /\ \A j \in 1..n : f[j] = f[j - 1] + Unbooked(j, s)
      /\ \A j, k \in 0..n : j <= k => f[j] <= f[k]
      /\ booked[s] + f[n] <= returned[s] + Disputed(s)
  BY <1>0 DEF SumsUp
<1> HIDE DEF more
<1>8. n \in 0..n /\ f[n] \in Nat /\ more \in Nat
  BY <1>1, <1>5, <1>7
<1>9. g \in [0..(n + 1) -> Nat] /\ g[n + 1] = f[n] + more /\ \A j \in 0..n : g[j] = f[j]
  BY <1>1, <1>7, <1>8
<1> HIDE DEF g
<1>10. ASSUME NEW j \in 1..(n + 1) PROVE g[j] = g[j - 1] + Unbooked(j, s)'
  <2>1. CASE j <= n
    <3>1. j \in 1..n /\ j \in 0..n /\ j - 1 \in 0..n
      BY <1>1, <2>1
    <3> QED
      BY <1>6, <1>7, <1>9, <3>1
  <2>2. CASE ~(j <= n)
    <3>1. j = n + 1 /\ j - 1 = n
      BY <1>1, <2>2
    <3> QED
      BY <1>8, <1>9, <3>1 DEF more
  <2> QED
    BY <2>1, <2>2
<1>11. ASSUME NEW j \in 0..(n + 1), NEW k \in 0..(n + 1), j <= k PROVE g[j] <= g[k]
  <2>1. CASE k <= n
    <3>1. j \in 0..n /\ k \in 0..n
      BY <1>1, <1>11, <2>1
    <3>2. g[j] = f[j] /\ g[k] = f[k] /\ f[j] <= f[k]
      BY <1>7, <1>9, <1>11, <3>1
    <3> QED
      BY <3>2
  <2>2. CASE ~(k <= n)
    <3>1. k = n + 1
      BY <1>1, <2>2
    <3>2. CASE j <= n
      <4>1. j \in 0..n /\ j <= n /\ f[j] <= f[n] /\ f[j] \in Nat
        BY <1>1, <1>7, <1>8, <3>2
      <4> QED
        BY <1>8, <1>9, <3>1, <4>1
    <3>3. CASE ~(j <= n)
      <4>1. j = n + 1
        BY <1>1, <3>3
      <4> QED
        BY <1>8, <1>9, <3>1, <4>1
    <3> QED
      BY <3>2, <3>3
  <2> QED
    BY <2>1, <2>2
<1>12. booked'[s] + g[n + 1] <= returned'[s] + Disputed(s)'
  <2>1. booked' = booked /\ Disputed(s)' = Disputed(s)
    BY DEF books, Disputed
  <2>2. booked[s] \in Nat /\ returned[s] \in Nat /\ returned[t] \in Nat /\ Disputed(s) \in Nat
    BY PaymentsAssumption DEF RestOK, Disputed
  <2>3. returned'[s] = IF s = t THEN returned[s] + amount ELSE returned[s]
    BY <1>2 DEF RestOK
  <2> DEFINE d == Disputed(s)
             dd == Disputed(s)'
             ret == returned'[s]
  <2>4. /\ dd = d /\ d \in Nat /\ booked'[s] = booked[s]
        /\ booked[s] + f[n] <= returned[s] + d
        /\ ret = returned[s] \/ (ret = returned[s] + amount)
        /\ more # 0 => ret = returned[s] + amount
    BY <1>5, <1>7, <2>1, <2>2, <2>3
  <2> HIDE DEF d, dd, ret
  <2>5. booked[s] + (f[n] + more) <= ret + d
    <3>1. CASE more = 0
      BY <1>1, <1>8, <2>2, <2>4, <3>1
    <3>2. CASE more # 0
      <4>1. more = amount /\ ret = returned[s] + amount
        BY <1>5, <2>4, <3>2
      <4> QED
        BY <1>1, <1>8, <2>2, <2>4, <4>1
    <3> QED
      BY <3>1, <3>2
  <2> QED
    BY <1>9, <2>4, <2>5 DEF dd, ret
<1>13. Len(refunds)' = n + 1
  BY <1>4
<1>14. ASSUME NEW q, q = g PROVE SumsUp(q, s)'
  BY <1>9, <1>10, <1>11, <1>12, <1>13, <1>14 DEF SumsUp
<1> QED
  BY <1>14

\* A refund booked at its amount leaves the running sum from there on.
LEMMA SumBooked ==
  ASSUME RestOK, NEW s \in Sessions, NEW f, SumsUp(f, s), NEW b \in DOMAIN refunds,
         RefundId(b) \notin refundIds, UNCHANGED <<refunds, returned>>,
         refundIds' = refundIds \cup {RefundId(b)},
         booked'[s] = booked[s] + (IF refunds[b].session = s THEN refunds[b].amount ELSE 0)
  PROVE  \E g : SumsUp(g, s)'
<1> DEFINE n == Len(refunds)
           a == Unbooked(b, s)
           g == [j \in 0..n |-> IF b <= j THEN f[j] - a ELSE f[j]]
<1>1. n \in Nat /\ b \in 1..n /\ refunds[b] \in RefundType
  BY DEF RestOK
<1>2. a \in Nat /\ a = IF refunds[b].session = s THEN refunds[b].amount ELSE 0
  BY <1>1, PaymentsAssumption DEF Unbooked, RefundType
<1>3. ASSUME NEW j \in 1..n PROVE Unbooked(j, s)' = IF j = b THEN 0 ELSE Unbooked(j, s)
  BY <1>1 DEF Unbooked, RefundId
<1>4. /\ f \in [0..n -> Nat] /\ \A j \in 1..n : f[j] = f[j - 1] + Unbooked(j, s)
      /\ \A j, k \in 0..n : j <= k => f[j] <= f[k]
      /\ booked[s] + f[n] <= returned[s] + Disputed(s)
  BY DEF SumsUp
<1>5. f[b - 1] \in Nat /\ f[b] = f[b - 1] + a /\ b - 1 \in 0..n /\ b \in 0..n
  BY <1>1, <1>4
<1> HIDE DEF n, a
<1>6. ASSUME NEW j \in 0..n, b <= j PROVE f[j] - a \in Nat /\ f[j] \in Nat
  <2>1. f[b] <= f[j] /\ f[j] \in Nat /\ f[b] \in Nat
    BY <1>1, <1>4, <1>5, <1>6
  <2> QED
    BY <1>2, <1>5, <2>1
<1>7. /\ g \in [0..n -> Nat]
      /\ \A j \in 0..n : g[j] = IF b <= j THEN f[j] - a ELSE f[j]
  BY <1>4, <1>6
<1> HIDE DEF g
<1>8. ASSUME NEW j \in 1..n PROVE g[j] = g[j - 1] + Unbooked(j, s)'
  <2>1. j \in 0..n /\ j - 1 \in 0..n /\ f[j] = f[j - 1] + Unbooked(j, s)
    BY <1>1, <1>4
  <2>2. f[j] \in Nat /\ f[j - 1] \in Nat
    BY <1>4, <2>1
  <2>3. CASE j < b
    BY <1>1, <1>3, <1>7, <2>1, <2>3
  <2>4. CASE j = b
    BY <1>1, <1>2, <1>3, <1>5, <1>7, <2>1, <2>2, <2>4 DEF a
  <2>5. CASE b < j
    <3>1. Unbooked(j, s) \in Nat
      <4>1. refunds[j] \in RefundType
        BY DEF RestOK, n
      <4> QED
        BY <4>1, PaymentsAssumption DEF Unbooked, RefundType
    <3>2. /\ b <= j - 1 /\ b <= j /\ j # b /\ Unbooked(j, s)' = Unbooked(j, s)
      BY <1>1, <1>3, <2>5
    <3>3. g[j] = f[j] - a /\ g[j - 1] = f[j - 1] - a
      BY <1>7, <2>1, <3>2
    <3>4. f[j] - a = (f[j - 1] - a) + Unbooked(j, s)
      BY <1>2, <2>1, <2>2, <3>1
    <3> QED
      BY <3>2, <3>3, <3>4
  <2> QED
    BY <1>1, <2>3, <2>4, <2>5
<1>9. ASSUME NEW j \in 0..n, NEW k \in 0..n, j <= k PROVE g[j] <= g[k]
  <2>1. f[j] <= f[k] /\ f[j] \in Nat /\ f[k] \in Nat
    BY <1>4, <1>9
  <2>2. CASE b <= j
    BY <1>1, <1>2, <1>7, <1>9, <2>1, <2>2
  <2>3. CASE ~(b <= k)
    BY <1>1, <1>7, <1>9, <2>1, <2>3
  <2>4. CASE ~(b <= j) /\ b <= k
    <3>1. j <= b - 1 /\ f[j] <= f[b - 1]
      BY <1>1, <1>4, <1>5, <2>4
    <3>2. f[b] <= f[k]
      BY <1>1, <1>4, <1>5, <2>4
    <3>3. g[j] = f[j] /\ g[k] = f[k] - a
      BY <1>7, <2>4
    <3>4. f[j] + a <= f[b] /\ f[b] \in Nat
      <4>1. f[j] + a <= f[b - 1] + a
        BY <1>2, <1>5, <2>1, <3>1
      <4> QED
        BY <1>2, <1>5, <4>1
    <3>5. f[j] <= f[k] - a
      BY <1>2, <2>1, <3>2, <3>4
    <3> QED
      BY <3>3, <3>5
  <2> QED
    BY <1>1, <2>2, <2>3, <2>4
<1>10. booked'[s] + g[n] <= returned'[s] + Disputed(s)'
  <2>1. returned' = returned /\ Disputed(s)' = Disputed(s)
    BY DEF Disputed, DisputeId, RefundId
  <2>2. booked[s] \in Nat /\ returned[s] \in Nat /\ Disputed(s) \in Nat
    BY PaymentsAssumption DEF RestOK, Disputed
  <2>3. n \in 0..n /\ g[n] = f[n] - a /\ f[n] \in Nat
    BY <1>1, <1>4, <1>7
  <2> HIDE DEF Disputed
  <2> QED
    BY <1>2, <1>4, <2>1, <2>2, <2>3
<1>11. Len(refunds)' = n
  BY DEF n
<1>12. ASSUME NEW q, q = g PROVE SumsUp(q, s)'
  BY <1>7, <1>8, <1>9, <1>10, <1>11, <1>12 DEF SumsUp
<1> QED
  BY <1>12

\* A dispute's row is booked at what is left of the price, and counts for a price.
LEMMA SumDisputed ==
  ASSUME RestOK, NEW s \in Sessions, NEW f, SumsUp(f, s), NEW t \in Sessions,
         DisputeId(t) \notin refundIds, UNCHANGED <<refunds, returned>>,
         refundIds' = refundIds \cup {DisputeId(t)}, NEW a \in 0..Price,
         booked'[s] = booked[s] + (IF t = s THEN a ELSE 0)
  PROVE  SumsUp(f, s)'
<1>1. Len(refunds) \in Nat /\ Price \in Nat
  BY PaymentsAssumption DEF RestOK
<1>2. ASSUME NEW j \in 1..Len(refunds) PROVE Unbooked(j, s)' = Unbooked(j, s)
  BY DEF Unbooked, RefundId, DisputeId
<1>3. Disputed(s)' = IF t = s THEN Price ELSE Disputed(s)
  BY DEF Disputed, DisputeId
<1>4. t = s => Disputed(s) = 0
  BY DEF Disputed
<1>5. booked[s] \in Nat /\ returned[s] \in Nat /\ Disputed(s) \in Nat
  BY <1>1 DEF RestOK, Disputed
<1>6. f[Len(refunds)] \in Nat
  BY <1>1 DEF SumsUp
<1>7. booked'[s] + f[Len(refunds)] <= returned'[s] + Disputed(s)'
  BY <1>1, <1>3, <1>4, <1>5, <1>6 DEF SumsUp
<1> QED
  BY <1>2, <1>7 DEF SumsUp

\* Refunds stay what they are, and a lost dispute stays lost.
Kept ==
  /\ \A i \in DOMAIN refunds : i \in DOMAIN refunds' /\ refunds'[i] = refunds[i]
  /\ \A s \in Sessions : disputes[s] = "lost" => disputes'[s] = "lost"

\* Another handler's step leaves what this one is about to book as it was.
LEMMA StillBookable ==
  ASSUME NEW r, HandlerOK(r), BookingOK(r), Kept
  PROVE  BookingOK(r)'
<1>1. r.session \in Sessions
  BY DEF HandlerOK, HandlerType
<1>2. ASSUME r.pc = "book" PROVE (r.id = DisputeId(r.session) /\ disputes'[r.session] = "lost")
        \/ \E i \in DOMAIN refunds' : /\ r.id = RefundId(i) /\ refunds'[i].session = r.session
                                      /\ refunds'[i].amount = r.amount
  <2>1. CASE r.id = DisputeId(r.session) /\ disputes[r.session] = "lost"
    BY <1>1, <2>1 DEF Kept
  <2>2. ASSUME NEW i \in DOMAIN refunds, r.id = RefundId(i), refunds[i].session = r.session,
               refunds[i].amount = r.amount
        PROVE  \E j \in DOMAIN refunds' : /\ r.id = RefundId(j) /\ refunds'[j].session = r.session
                                          /\ refunds'[j].amount = r.amount
    <3>1. i \in DOMAIN refunds' /\ refunds'[i] = refunds[i]
      BY <2>2 DEF Kept
    <3> QED
      BY <2>2, <3>1
  <2> QED
    BY <1>2, <2>1, <2>2 DEF BookingOK
<1>3. ASSUME r.pc \in {"book", "refunds", "reread"}, NEW i \in r.todo
      PROVE  refunds'[i].session = r.session
  BY <1>3 DEF BookingOK, HandlerOK, Kept
<1> QED
  BY <1>2, <1>3 DEF BookingOK, DisputeId, RefundId

\* A step of one handler leaves the others' bookings as they were.
LEMMA BackStep ==
  ASSUME Inv, BackInv, NEW h \in Processes, NEW r, Step(h, r), BookingOK(r)', Kept,
         BooksOK', KeysOK'
  PROVE  BackInv'
<1>1. ASSUME NEW q \in Processes PROVE BookingOK(handler[q])'
  <2>1. handler'[q] = IF q = h THEN r ELSE handler[q]
    BY DEF Inv, Step
  <2>2. PICK w : w = handler[q]
    OBVIOUS
  <2>3. BookingOK(w)'
    BY <2>2, StillBookable DEF Inv, BackInv
  <2> QED
    BY <2>1, <2>2, <2>3 DEF BookingOK
<1> QED
  BY <1>1 DEF BackInv

\* What is booked and what went back stand while their rows do.
LEMMA BooksStand ==
  ASSUME BooksOK, UNCHANGED <<refunds, returned, refundIds, booked>>, Kept
  PROVE  BooksOK'
<1>1. ASSUME NEW s \in Sessions PROVE \E f : SumsUp(f, s)'
  <2>1. PICK f : SumsUp(f, s)
    BY DEF BooksOK
  <2>2. \A j : Unbooked(j, s)' = Unbooked(j, s)
    BY DEF Unbooked
  <2>3. Disputed(s)' = Disputed(s)
    BY DEF Disputed
  <2>4. SumsUp(f, s)'
    BY <2>1, <2>2, <2>3 DEF SumsUp
  <2> QED
    BY <2>4
<1> QED
  BY <1>1 DEF BooksOK, Kept

\* A step after which the handler neither books nor has refunds to go through.
LEMMA ElsewhereStep ==
  ASSUME Inv, BackInv, NEW h \in Processes, NEW r, Step(h, r),
         r.pc \notin {"book", "refunds", "reread"}, UNCHANGED <<stripe, refundIds, booked>>
  PROVE  BackInv'
<1>1. Kept /\ BookingOK(r)' /\ KeysOK'
  BY DEF Kept, BookingOK, stripe, BackInv, KeysOK
<1>2. BooksOK'
  BY <1>1, BooksStand DEF BackInv, stripe
<1> QED
  BY <1>1, <1>2, BackStep

\* The steps of fulfilment, of the sweep and of a refund's request; and a death.
LEMMA ElsewhereBack ==
  ASSUME Inv, BackInv, NEW h \in Processes,
         \/ \E e \in Sent : HandleStripeEvent(h, e)
         \/ \E s \in Sessions : SelfHeal(h, s)
         \/ \E i \in Intents, s \in Contested, a \in 0..Price : IssueRefund(h, i, s, a)
         \/ h = Sweeper /\ (SweepBegin \/ SweepNext)
         \/ FulfillRead(h) \/ FulfillCommit(h) \/ Die(h) \/ DisputeCreated(h)
  PROVE  BackInv'
<1> DEFINE Off == {"idle", "fulfil", "sweep", "grant", "create", "charge", "created", "closed"}
<1>1. handler[h] \in HandlerType /\ Idle \in HandlerType /\ Idle.pc = "idle"
  BY IdleType DEF Inv
<1>2. \A r \in HandlerType : DOMAIN r = DOMAIN Idle
  BY DEF HandlerType, Idle
<1>3. Finished(h).pc \in Off
  BY <1>1 DEF Finished, HandlerType
<1>4. \E r : Step(h, r) /\ r.pc \in Off
  <2>1. ASSUME NEW e \in Sent, HandleStripeEvent(h, e) PROVE \E r : Step(h, r) /\ r.pc \in Off
    <3>1. Entry[e.type] \in Off
      BY DEF Entry, Sent
    <3>2. \A pc, s : [Idle EXCEPT !.pc = pc, !.session = s].pc = pc
      BY DEF Idle
    <3> DEFINE r == [Idle EXCEPT !.pc = Entry[e.type], !.session = Subject(e)]
    <3>3. Step(h, r)
      BY <2>1 DEF HandleStripeEvent
    <3>4. r.pc \in Off
      BY <3>1, <3>2
    <3> HIDE DEF r
    <3> QED
      BY <3>3, <3>4
  <2>2. ASSUME NEW s \in Sessions, SelfHeal(h, s) PROVE \E r : Step(h, r) /\ r.pc \in Off
    <3>1. [Idle EXCEPT !.pc = "fulfil", !.session = s].pc = "fulfil"
      BY DEF Idle
    <3> QED
      BY <2>2, <3>1 DEF SelfHeal
  <2>3. ASSUME NEW i \in Intents, NEW s \in Contested, NEW a \in 0..Price, IssueRefund(h, i, s, a)
        PROVE  \E r : Step(h, r) /\ r.pc \in Off
    <3>1. \A v, n : [Idle EXCEPT !.pc = "create", !.session = s, !.for = i, !.saw = v,
                                 !.amount = n].pc = "create"
      BY DEF Idle
    <3> QED
      BY <2>3, <3>1 DEF IssueRefund
  <2>4. CASE h = Sweeper /\ SweepBegin
    <3>1. \A todo : [Idle EXCEPT !.pc = "sweep", !.todo = todo].pc = "sweep"
      BY DEF Idle
    <3> QED
      BY <2>4, <3>1 DEF SweepBegin
  <2>5. CASE h = Sweeper /\ SweepNext
    <3>2. \/ Step(h, Idle)
          \/ \E s \in handler[h].todo :
               Step(h, [handler[h] EXCEPT !.pc = "fulfil", !.session = s, !.todo = @ \ {s}])
      BY <2>5 DEF SweepNext
    <3>3. \A s : [handler[h] EXCEPT !.pc = "fulfil", !.session = s, !.todo = @ \ {s}].pc = "fulfil"
      BY <1>1 DEF HandlerType
    <3> QED
      BY <1>1, <3>2, <3>3
  <2>6. CASE FulfillRead(h)
    <3>1. Step(h, Finished(h)) \/ \E b : Step(h, [handler[h] EXCEPT !.pc = "grant", !.reopens = b])
      BY <2>6 DEF FulfillRead
    <3>2. \A b : [handler[h] EXCEPT !.pc = "grant", !.reopens = b].pc = "grant"
      BY <1>1 DEF HandlerType
    <3> QED
      BY <1>3, <3>1, <3>2
  <2>7. CASE FulfillCommit(h)
    BY <1>1, <1>3, <2>7 DEF FulfillCommit, Throw
  <2>8. CASE Die(h) \/ DisputeCreated(h)
    BY <1>1, <2>8 DEF Die, DisputeCreated, Throw
  <2> QED
    BY <2>1, <2>2, <2>3, <2>4, <2>5, <2>6, <2>7, <2>8
<1>5. UNCHANGED <<stripe, refundIds, booked>>
  BY DEF HandleStripeEvent, SelfHeal, IssueRefund, SweepBegin, SweepNext, FulfillRead, FulfillCommit,
         Grant, Die, DisputeCreated, books
<1>6. PICK r : Step(h, r) /\ r.pc \in Off
  BY <1>4
<1> QED
  BY <1>5, <1>6, ElsewhereStep

\* The fields a booking is made of, and what assigning one leaves of the others.
LEMMA BookFields ==
  ASSUME NEW r \in HandlerType
  PROVE  /\ \A pc : LET q == [r EXCEPT !.pc = pc] IN
                    q.pc = pc /\ q.id = r.id /\ q.session = r.session /\ q.amount = r.amount /\ q.todo = r.todo
         /\ \A n : LET q == [r EXCEPT !.saw = n] IN
                   q.pc = r.pc /\ q.id = r.id /\ q.session = r.session /\ q.amount = r.amount /\ q.todo = r.todo
         /\ \A x : LET q == [r EXCEPT !.todo = x] IN
                   q.pc = r.pc /\ q.id = r.id /\ q.session = r.session /\ q.amount = r.amount /\ q.todo = x
         /\ \A id : LET q == [r EXCEPT !.pc = "book", !.id = id] IN
                    q.pc = "book" /\ q.id = id /\ q.session = r.session /\ q.amount = r.amount /\ q.todo = r.todo
         /\ \A id, n : LET q == [r EXCEPT !.pc = "book", !.id = id, !.amount = n] IN
                       q.pc = "book" /\ q.id = id /\ q.session = r.session /\ q.amount = n /\ q.todo = r.todo
         /\ \A id, v, n : LET q == [r EXCEPT !.pc = "book", !.id = id, !.saw = v, !.amount = n] IN
                          q.pc = "book" /\ q.id = id /\ q.session = r.session /\ q.amount = n /\ q.todo = r.todo
BY DEF HandlerType

\* A refund at Stripe: the earlier ones stay, the new one is as it was asked for.
LEMMA ReturnKeeps ==
  ASSUME Inv, BackInv, NEW s \in Sessions, NEW amount \in 1..Price,
         NEW key \in {NoKey} \cup (Sessions \X Nat \X Nat), NEW i \in Intents \cup {None},
         Return(s, amount, key, i), UNCHANGED books,
         key = NoKey \/ (key[1] = s /\ key[3] = amount /\ Len(key) = 3)
  PROVE  /\ Kept /\ BooksOK' /\ KeysOK'
         /\ Len(refunds) + 1 \in DOMAIN refunds'
         /\ refunds'[Len(refunds) + 1].session = s /\ refunds'[Len(refunds) + 1].amount = amount
<1> DEFINE r == [session |-> s, amount |-> amount, key |-> key, for |-> i]
<1>0. PICK n : n = Len(refunds)
  OBVIOUS
<1>1. RestOK /\ refunds \in Seq(RefundType) /\ r \in RefundType /\ n \in Nat
  BY <1>0 DEF Inv, RestOK, RefundType
<1>2. /\ refunds' = Append(refunds, r) /\ disputes' = disputes
      /\ r.session = s /\ r.amount = amount /\ r.key = key
  BY DEF Return
<1> HIDE DEF r
<1>3. /\ DOMAIN refunds = 1..n /\ DOMAIN refunds' = 1..(n + 1) /\ refunds'[n + 1] = r
      /\ \A j \in 1..n : refunds'[j] = refunds[j]
  BY <1>0, <1>1, <1>2
<1>4. Kept
  BY <1>1, <1>2, <1>3 DEF Kept
<1>5. KeysOK'
  <2>1. ASSUME NEW j \in 1..(n + 1)
        PROVE  \/ refunds'[j].key = NoKey
               \/ /\ refunds'[j].key[1] = refunds'[j].session /\ refunds'[j].key[3] = refunds'[j].amount
                  /\ Len(refunds'[j].key) = 3
    <3>1. CASE j \in 1..n
      BY <1>3, <3>1 DEF BackInv, KeysOK
    <3>2. CASE j = n + 1
      BY <1>2, <1>3, <3>2
    <3> QED
      BY <1>1, <3>1, <3>2
  <2> QED
    BY <1>3, <2>1 DEF KeysOK
<1>6. BooksOK'
  <2>1. ASSUME NEW t \in Sessions PROVE \E g : SumsUp(g, t)'
    <3>1. PICK f : SumsUp(f, t)
      BY DEF BackInv, BooksOK
    <3> QED
      BY <1>1, <3>1, SumExtended
  <2> QED
    BY <1>2, <2>1 DEF BackInv, BooksOK, books
<1> QED
  BY <1>0, <1>1, <1>2, <1>3, <1>4, <1>5, <1>6

LEMMA CreateRefundBack ==
  ASSUME Inv, BackInv, NEW h \in Processes, CreateRefund(h)
  PROVE  BackInv'
<1>0. PICK r0 : r0 = handler[h]
  OBVIOUS
<1> DEFINE key == <<r0.session, r0.saw, r0.amount>>
<1>1. /\ r0 \in HandlerType /\ r0.todo = {} /\ r0.session \in Sessions /\ r0.amount \in 1..Price
      /\ r0.for \in Intents \cup {None} /\ r0.saw \in Nat /\ r0.pc = "create"
  <2>1. HandlerOK(handler[h]) /\ handler[h].pc = "create"
    BY DEF Inv, CreateRefund, At
  <2>2. r0 \in HandlerType /\ r0.pc = "create" /\ r0.todo = {} /\ r0.amount > 0
    BY <1>0, <2>1 DEF HandlerOK
  <2> QED
    BY <2>2, PaymentsAssumption DEF HandlerType
<1>2. IdempotencyKey(h) = key /\ key \in Sessions \X Nat \X Nat
  BY <1>0, <1>1 DEF IdempotencyKey
<1>3. key[1] = r0.session /\ key[3] = r0.amount /\ Len(key) = 3 /\ key # NoKey
  BY <1>1 DEF NoKey
<1> HIDE DEF key
<1>4. ASSUME NEW i \in MadeUnder(key), UNCHANGED stripe,
             Step(h, [r0 EXCEPT !.pc = "book", !.id = RefundId(i)])
      PROVE  BackInv'
  <2>1. i \in DOMAIN refunds /\ refunds[i].key = key
    BY <1>4 DEF MadeUnder
  <2>2. refunds[i].session = r0.session /\ refunds[i].amount = r0.amount
    BY <1>3, <2>1 DEF BackInv, KeysOK
  <2>3. PICK q : q = [r0 EXCEPT !.pc = "book", !.id = RefundId(i)]
    OBVIOUS
  <2>4. /\ q.pc = "book" /\ q.id = RefundId(i) /\ q.session = r0.session /\ q.amount = r0.amount
        /\ q.todo = {}
    BY <1>1, <2>3, BookFields
  <2>5. UNCHANGED <<stripe, books>>
    BY <1>4 DEF CreateRefund
  <2>6. Kept /\ KeysOK' /\ BookingOK(q)'
    BY <2>1, <2>2, <2>4, <2>5 DEF Kept, KeysOK, BackInv, BookingOK, stripe
  <2>7. BooksOK'
    BY <2>5, <2>6, BooksStand DEF BackInv, stripe, books
  <2> QED
    BY <1>4, <2>3, <2>6, <2>7, BackStep
<1>5. ASSUME Return(r0.session, r0.amount, key, r0.for),
             Step(h, [r0 EXCEPT !.pc = "book", !.id = RefundId(Len(refunds) + 1)])
      PROVE  BackInv'
  <2>1. /\ Kept /\ BooksOK' /\ KeysOK'
        /\ Len(refunds) + 1 \in DOMAIN refunds'
        /\ refunds'[Len(refunds) + 1].session = r0.session
        /\ refunds'[Len(refunds) + 1].amount = r0.amount
    BY <1>1, <1>2, <1>3, <1>5, ReturnKeeps DEF CreateRefund
  <2>2. PICK n : n = Len(refunds) + 1
    OBVIOUS
  <2>3. PICK q : q = [r0 EXCEPT !.pc = "book", !.id = RefundId(n)]
    OBVIOUS
  <2>4. /\ q.pc = "book" /\ q.id = RefundId(n) /\ q.session = r0.session /\ q.amount = r0.amount
        /\ q.todo = {}
    BY <1>1, <2>3, BookFields
  <2>5. BookingOK(q)'
    BY <2>1, <2>2, <2>4 DEF BookingOK, RefundId
  <2> QED
    BY <1>5, <2>1, <2>2, <2>3, <2>5, BackStep
<1>6. CASE Throw(h) /\ UNCHANGED stripe
  BY <1>6, IdleType, ElsewhereStep DEF Throw, CreateRefund, books
<1> QED
  BY <1>0, <1>2, <1>4, <1>5, <1>6 DEF CreateRefund

LEMMA RecordRefundBack ==
  ASSUME Inv, BackInv, NEW h \in Processes, RecordRefund(h)
  PROVE  BackInv'
<1>0. PICK r0 : r0 = handler[h]
  OBVIOUS
<1>1. RestOK /\ r0 \in HandlerType /\ r0.session \in Sessions /\ r0.amount \in 0..Price
      /\ r0.pc = "book" /\ BookingOK(r0)
  BY <1>0 DEF Inv, BackInv, RecordRefund, At, HandlerType
<1>2. CASE handler[h].id \in refundIds /\ Throw(h) /\ UNCHANGED books
  BY <1>2, IdleType, ElsewhereStep DEF Throw, RecordRefund, books
<1>3. CASE ~(handler[h].id \in refundIds /\ Throw(h) /\ UNCHANGED books)
  <2>1. /\ r0.id \notin refundIds
        /\ refundIds' = refundIds \cup {r0.id}
        /\ booked' = [booked EXCEPT ![r0.session] = @ + r0.amount]
        /\ Step(h, AfterBooking(h)) /\ UNCHANGED stripe
    BY <1>0, <1>3 DEF RecordRefund, Book
  <2>2. UNCHANGED <<refunds, returned, disputes>> /\ Kept /\ KeysOK'
    BY <2>1 DEF stripe, Kept, KeysOK, BackInv
  <2>3. ASSUME NEW t \in Sessions
        PROVE  booked'[t] = booked[t] + (IF r0.session = t THEN r0.amount ELSE 0)
    <3>1. booked \in [Sessions -> Nat] /\ booked[t] \in Nat
      BY <1>1 DEF RestOK
    <3> QED
      BY <1>1, <2>1, <3>1
  <2>4. ASSUME r0.id = DisputeId(r0.session), disputes[r0.session] = "lost"
        PROVE  BooksOK'
    <3>1. ASSUME NEW t \in Sessions PROVE \E f : SumsUp(f, t)'
      <4>1. PICK f : SumsUp(f, t)
        BY DEF BackInv, BooksOK
      <4>2. SumsUp(f, t)'
        BY <1>1, <2>1, <2>2, <2>3, <2>4, <4>1, SumDisputed
      <4> QED
        BY <4>2
    <3>2. ASSUME NEW t \in Sessions, DisputeId(t) \in refundIds' PROVE disputes'[t] = "lost"
      BY <2>1, <2>2, <2>4, <3>2 DEF DisputeId, BackInv, BooksOK
    <3> QED
      BY <3>1, <3>2 DEF BooksOK
  <2>5. ASSUME NEW i \in DOMAIN refunds, r0.id = RefundId(i), refunds[i].session = r0.session,
               refunds[i].amount = r0.amount
        PROVE  BooksOK'
    <3>1. ASSUME NEW t \in Sessions PROVE \E f : SumsUp(f, t)'
      <4>1. PICK f : SumsUp(f, t)
        BY DEF BackInv, BooksOK
      <4>2. booked'[t] = booked[t] + (IF refunds[i].session = t THEN refunds[i].amount ELSE 0)
        BY <2>3, <2>5
      <4> QED
        BY <1>1, <2>1, <2>2, <2>5, <4>1, <4>2, SumBooked
    <3>2. ASSUME NEW t \in Sessions, DisputeId(t) \in refundIds' PROVE disputes'[t] = "lost"
      <4>1. DisputeId(t) # RefundId(i)
        BY DEF DisputeId, RefundId
      <4> QED
        BY <2>1, <2>2, <2>5, <3>2, <4>1 DEF BackInv, BooksOK
    <3> QED
      BY <3>1, <3>2 DEF BooksOK
  <2>6. BooksOK'
    BY <1>1, <2>4, <2>5 DEF BookingOK
  <2>7. PICK q : q = AfterBooking(h)
    OBVIOUS
  <2>8. BookingOK(q)'
    <3>1. CASE q = Idle
      BY <3>1, IdleType DEF BookingOK
    <3>2. CASE q = [r0 EXCEPT !.pc = "reread"]
      <4>1. q.pc = "reread" /\ q.session = r0.session /\ q.todo = r0.todo
        BY <1>1, <3>2, BookFields
      <4> QED
        BY <1>1, <2>2, <4>1 DEF BookingOK
    <3> QED
      BY <1>0, <2>7, <3>1, <3>2 DEF AfterBooking
  <2> QED
    BY <2>1, <2>2, <2>6, <2>7, <2>8, BackStep
<1> QED
  BY <1>2, <1>3

LEMMA ListBack ==
  ASSUME Inv, BackInv, NEW h \in Processes,
         FindPaymentForCharge(h) \/ NextStripeRefund(h) \/ Reread(h)
  PROVE  BackInv'
<1>0. PICK r0 : r0 = handler[h]
  OBVIOUS
<1>1. r0 \in HandlerType /\ HandlerOK(r0) /\ BookingOK(r0)
  BY <1>0 DEF Inv, BackInv
<1>2. UNCHANGED <<stripe, books>> /\ Kept /\ KeysOK'
  BY DEF FindPaymentForCharge, NextStripeRefund, Reread, Kept, stripe, BackInv, KeysOK
<1>3. BooksOK'
  BY <1>2, BooksStand DEF BackInv, stripe, books
<1>4. CASE Step(h, Idle)
  BY <1>2, <1>4, IdleType, ElsewhereStep DEF books
<1>5. ASSUME FindPaymentForCharge(h), ~Step(h, Idle) PROVE BackInv'
  <2> DEFINE list == {i \in DOMAIN refunds : refunds[i].session = r0.session}
             seen == payment[r0.session].refunded
  <2>1. PICK q : q = [r0 EXCEPT !.pc = "refunds", !.saw = seen, !.todo = list]
    OBVIOUS
  <2>2. Step(h, q)
    BY <1>0, <1>5, <2>1 DEF FindPaymentForCharge
  <2>3. \A v, x : LET w == [r0 EXCEPT !.pc = "refunds", !.saw = v, !.todo = x] IN
                  w.pc = "refunds" /\ w.session = r0.session /\ w.todo = x
    BY <1>1 DEF HandlerType
  <2>4. q.pc = "refunds" /\ q.session = r0.session /\ q.todo = list
    BY <2>1, <2>3
  <2>5. BookingOK(q)'
    BY <1>2, <2>4 DEF BookingOK, Kept, stripe
  <2> QED
    BY <1>2, <1>3, <2>2, <2>5, BackStep
<1>6. ASSUME NextStripeRefund(h), ~Step(h, Idle) PROVE BackInv'
  <2>1. PICK i \in r0.todo :
          LET rest == [r0 EXCEPT !.todo = @ \ {i}] IN
          Step(h, IF RefundId(i) \in refundIds THEN rest
                  ELSE [rest EXCEPT !.pc = "book", !.id = RefundId(i), !.amount = refunds[i].amount])
    BY <1>0, <1>6 DEF NextStripeRefund
  <2>2. r0.pc = "refunds" /\ i \in DOMAIN refunds /\ refunds[i].session = r0.session
    BY <1>0, <1>1, <1>6, <2>1 DEF NextStripeRefund, At, HandlerOK, BookingOK
  <2>3. PICK r1 : r1 = [r0 EXCEPT !.todo = @ \ {i}]
    OBVIOUS
  <2>4. r1.pc = "refunds" /\ r1.session = r0.session /\ r1.todo = r0.todo \ {i}
    BY <1>1, <2>2, <2>3 DEF HandlerType
  <2>5. r1 \in HandlerType
    BY <1>1, <2>3 DEF HandlerType
  <2>6. PICK r2 : r2 = [r1 EXCEPT !.pc = "book", !.id = RefundId(i), !.amount = refunds[i].amount]
    OBVIOUS
  <2>7. /\ r2.pc = "book" /\ r2.id = RefundId(i) /\ r2.session = r1.session /\ r2.amount = refunds[i].amount
        /\ r2.todo = r1.todo
    BY <2>5, <2>6, BookFields
  <2>8. BookingOK(r1)'
    BY <1>1, <1>2, <2>2, <2>4 DEF BookingOK, stripe
  <2>9. BookingOK(r2)'
    BY <1>1, <1>2, <2>2, <2>4, <2>7 DEF BookingOK, stripe
  <2>10. Step(h, r1) \/ Step(h, r2)
    BY <2>1, <2>3, <2>6
  <2> QED
    BY <1>2, <1>3, <2>8, <2>9, <2>10, BackStep
<1>7. ASSUME Reread(h) PROVE BackInv'
  <2> DEFINE seen == payment[r0.session].refunded
  <2>1. PICK q : q = [r0 EXCEPT !.pc = "refunds", !.saw = seen]
    OBVIOUS
  <2>2. Step(h, q) /\ r0.pc = "reread"
    BY <1>0, <1>7, <2>1 DEF Reread, At
  <2>3. q.pc = "refunds" /\ q.session = r0.session /\ q.todo = r0.todo
    BY <1>1, <2>1 DEF HandlerType
  <2>4. BookingOK(q)'
    BY <1>1, <1>2, <2>2, <2>3 DEF BookingOK, stripe
  <2> QED
    BY <1>2, <1>3, <2>2, <2>4, BackStep
<1> QED
  BY <1>4, <1>5, <1>6, <1>7

LEMMA DisputeClosedBack ==
  ASSUME Inv, BackInv, NEW h \in Processes, DisputeClosed(h)
  PROVE  BackInv'
<1>0. PICK r0 : r0 = handler[h]
  OBVIOUS
<1>1. r0 \in HandlerType /\ r0.todo = {}
  BY <1>0 DEF Inv, HandlerOK, DisputeClosed, At
<1>2. /\ UNCHANGED <<stripe, refundIds, booked>> /\ Kept /\ KeysOK'
  BY DEF DisputeClosed, Kept, stripe, BackInv, KeysOK
<1>3. BooksOK'
  BY <1>2, BooksStand DEF BackInv, stripe
<1>4. CASE Step(h, Idle)
  BY <1>2, <1>4, IdleType, ElsewhereStep
<1>5. CASE ~Step(h, Idle)
  <2> DEFINE seen == payment[r0.session].refunded
             left == Remaining(payment[r0.session])
  <2>1. PICK q : q = [r0 EXCEPT !.pc = "book", !.id = DisputeId(r0.session), !.saw = seen, !.amount = left]
    OBVIOUS
  <2>2. Step(h, q) /\ disputes[r0.session] = "lost"
    BY <1>0, <1>5, <2>1 DEF DisputeClosed
  <2>3. q.pc = "book" /\ q.id = DisputeId(r0.session) /\ q.session = r0.session /\ q.todo = {}
    BY <1>1, <2>1, BookFields
  <2>4. BookingOK(q)'
    BY <1>2, <2>2, <2>3 DEF BookingOK, stripe
  <2> QED
    BY <1>2, <1>3, <2>2, <2>4, BackStep
<1> QED
  BY <1>4, <1>5

\* The steps of Stripe, the family and the pipeline.
LEMMA EnvironmentBack ==
  ASSUME Inv, BackInv, Environment
  PROVE  BackInv'
<1>1. handler' = handler
  BY DEF Environment, Pay, DashboardRefund, Dispute, CaseMoves
<1>2. Kept /\ BooksOK' /\ KeysOK'
  <2>1. ASSUME NEW s \in Sessions, Pay(s) PROVE Kept /\ BooksOK' /\ KeysOK'
    <3>1. UNCHANGED <<refunds, returned, disputes, refundIds, booked>>
      BY <2>1 DEF Pay, books
    <3> QED
      BY <3>1, BooksStand DEF Kept, BackInv, KeysOK
  <2>2. ASSUME NEW s \in Contested, NEW a \in 1..Price, DashboardRefund(s, a)
        PROVE  Kept /\ BooksOK' /\ KeysOK'
    <3>1. s \in Sessions /\ NoKey \in {NoKey} \cup (Sessions \X Nat \X Nat) /\ None \in Intents \cup {None}
      BY PaymentsAssumption DEF Sessions
    <3>2. Return(s, a, NoKey, None) /\ UNCHANGED books
      BY <2>2 DEF DashboardRefund
    <3> QED
      BY <3>1, <3>2, ReturnKeeps
  <2>3. ASSUME NEW s \in Contested, NEW o \in {"open", "won", "lost"}, Dispute(s, o)
        PROVE  Kept /\ BooksOK' /\ KeysOK'
    <3>1. UNCHANGED <<refunds, returned, refundIds, booked>>
      BY <2>3 DEF Dispute, books
    <3>2. \A t \in Sessions : disputes[t] = "lost" => disputes'[t] = "lost"
      <4>1. disputes \in [Sessions -> {None, "open", "won", "lost"}] /\ s \in Sessions
        BY PaymentsAssumption DEF Inv, RestOK, Sessions
      <4>2. disputes[s] # "lost" /\ disputes' = [disputes EXCEPT ![s] = o]
        BY <2>3 DEF Dispute, None
      <4> QED
        BY <4>1, <4>2
    <3> QED
      BY <3>1, <3>2, BooksStand DEF Kept, BackInv, KeysOK
  <2>4. CASE CaseMoves
    <3>1. UNCHANGED <<refunds, returned, disputes, refundIds, booked>>
      BY <2>4 DEF CaseMoves, stripe
    <3> QED
      BY <3>1, BooksStand DEF Kept, BackInv, KeysOK
  <2> QED
    BY <2>1, <2>2, <2>3, <2>4 DEF Environment
<1>3. ASSUME NEW h \in Processes PROVE BookingOK(handler[h])'
  <2>1. PICK w : w = handler[h]
    OBVIOUS
  <2>2. BookingOK(w)'
    BY <1>2, <2>1, StillBookable DEF Inv, BackInv
  <2> QED
    BY <1>1, <2>1, <2>2 DEF BookingOK
<1> QED
  BY <1>2, <1>3 DEF BackInv

LEMMA NextBack == Inv /\ BackInv /\ [Next]_vars => BackInv'
<1> SUFFICES ASSUME Inv, BackInv, [Next]_vars PROVE BackInv'
  OBVIOUS
<1>1. CASE Environment
  BY <1>1, EnvironmentBack
<1>2. ASSUME NEW h \in Handlers, Start(h) \/ Continue(h) \/ Die(h) PROVE BackInv'
  BY <1>2, HandlersAreProcesses, ElsewhereBack, CreateRefundBack, RecordRefundBack, ListBack,
     DisputeClosedBack DEF Start, Continue
<1>3. CASE Sweep \/ Die(Sweeper)
  BY <1>3, HandlersAreProcesses, ElsewhereBack DEF Sweep
<1>4. CASE UNCHANGED vars
  <2>1. UNCHANGED <<refunds, returned, disputes, refundIds, booked, handler>>
    BY <1>4 DEF vars
  <2>2. Kept /\ KeysOK'
    BY <2>1 DEF Kept, BackInv, KeysOK
  <2>3. BooksOK'
    BY <2>1, <2>2, BooksStand DEF BackInv
  <2> QED
    BY <2>1, <2>2, <2>3 DEF BackInv, BookingOK
<1> QED
  BY <1>1, <1>2, <1>3, <1>4 DEF Next

LEMMA InitBack == Init => BackInv
<1> SUFFICES ASSUME Init PROVE BackInv
  OBVIOUS
<1>1. /\ refunds = <<>> /\ refundIds = {} /\ booked = [s \in Sessions |-> 0]
      /\ returned = [s \in Sessions |-> 0] /\ handler = [h \in Processes |-> Idle]
  BY DEF Init
<1>2. ASSUME NEW s \in Sessions PROVE \E f : SumsUp(f, s)
  <2> DEFINE f == [j \in 0..0 |-> 0]
  <2>1. SumsUp(f, s)
    BY <1>1 DEF SumsUp, Disputed
  <2> QED
    BY <2>1
<1>3. BooksOK /\ KeysOK
  BY <1>1, <1>2 DEF BooksOK, KeysOK
<1>4. \A h \in Processes : BookingOK(handler[h])
  BY <1>1, IdleType DEF BookingOK
<1> QED
  BY <1>3, <1>4 DEF BackInv

-------------------------------------------------------------------------------
(* The theorems                                                            *)

\* The inductive invariant holds of every reachable state.
THEOREM Invariance == Spec => []Inv
BY InitInv, NextInv, PTL DEF Spec

\* Every state is well-typed, and no event was taken that Stripe did not send.
THEOREM TypeCorrect == Spec => []TypeOK
<1>1. Inv => TypeOK
  BY DEF Inv, RestOK, TypeOK, IntentType
<1> QED
  BY <1>1, Invariance, PTL

\* However many webhooks, sweeps and success pages race to fulfil it, and die on
\* the way, a paid session is delivered exactly when it has its payment, once.
THEOREM FulfilmentHappensOnce == Spec => []DeliveredOnce
<1>1. Inv => DeliveredOnce
  BY DEF Inv, RestOK
<1> QED
  BY <1>1, Invariance, PTL

\* The rollup that decides what may still be refunded never exceeds the rows.
THEOREM RollupIsCovered == Spec => []RollupNeverExceedsRows
<1>1. Inv => RollupNeverExceedsRows
  BY DEF Inv, RestOK
<1> QED
  BY <1>1, Invariance, PTL

\* A case is closed as refunded only when the rows of its review reach the price.
THEOREM RefundedMeansPaidBack == Spec => []ClosedOnlyWhenPaidBack
<1>1. Inv => ClosedOnlyWhenPaidBack
  BY DEF Inv, RestOK
<1> QED
  BY <1>1, Invariance, PTL

\* No refund is booked twice, by console, webhook and retry together, and none at
\* another amount: the books show no more going back of a session than Stripe
\* returned, and the charge once more when a lost dispute took it.
THEOREM OnlyReturnsAreBooked == Spec => []BookedIsWhatWentBack
<1>1. Inv /\ BackInv => BookedIsWhatWentBack
  <2> SUFFICES ASSUME Inv, BackInv, NEW s \in Sessions
               PROVE  booked[s] <= returned[s] + (IF disputes[s] = "lost" THEN Price ELSE 0)
    BY DEF BookedIsWhatWentBack
  <2>1. PICK f : SumsUp(f, s)
    BY DEF BackInv, BooksOK
  <2>2. /\ Len(refunds) \in Nat /\ booked[s] \in Nat /\ returned[s] \in Nat /\ Price \in Nat
    BY PaymentsAssumption DEF Inv, RestOK
  <2>3. f[Len(refunds)] \in Nat /\ booked[s] + f[Len(refunds)] <= returned[s] + Disputed(s)
    BY <2>1, <2>2 DEF SumsUp
  <2>4. Disputed(s) \in Nat /\ Disputed(s) <= (IF disputes[s] = "lost" THEN Price ELSE 0)
    BY <2>2 DEF Disputed, BackInv, BooksOK
  <2>5. booked[s] <= returned[s] + Disputed(s)
    <3> HIDE DEF Disputed
    <3> QED
      BY <2>2, <2>3, <2>4
  <2> QED
    BY <2>2, <2>4, <2>5
<1>2. BackInv /\ Inv /\ Inv' /\ [Next]_vars => BackInv'
  BY NextBack
<1> QED
  BY <1>1, <1>2, InitBack, Invariance, PTL DEF Spec

-----------------------------------------------------------------------------
(***************************************************************************)
(* EvalRuns                                                                *)
(***************************************************************************)
Statuses == {"QUEUED", "RUNNING", "SCORED", "FAILED"}
Posts == {"start", "ingest", "digitize", "analysis", "score", "audit", "none"}
TrialType ==
  [ledger : Named, status : Statuses, pass : BOOLEAN, fresh : BOOLEAN, pc : Posts, copied : Nat, read : Nat,
   barred : Nat, found : Nat, cost : Nat, unbooked : Nat, seen : Nat, late : BOOLEAN]

\* What a driver has done when it is where it is; and a row that was scored is told by it.
TrialHolds(r) ==
  /\ r.copied <= Volumes /\ r.read + r.barred <= r.copied
  /\ r.pc \in {"digitize", "analysis", "score", "audit"} \/ r.status = "SCORED" => r.copied = Volumes
  /\ r.pc \in {"analysis", "score", "audit"} \/ r.status = "SCORED" => r.seen = r.read /\ r.read + r.barred = Volumes
  /\ r.status = "SCORED" => r.pc \in {"audit", "none"}
  /\ r.status = "FAILED" => r.pc = "none"
  /\ r.status = "SCORED" /\ ~r.late => r.unbooked = 0
  /\ r.status = "SCORED" /\ r.pass => r.found = Volumes /\ (r.cost < Floor \/ r.late)
TrialsHold == trial \in Seq(TrialType) /\ \A i \in Trials : TrialHolds(trial[i])

\* What no step takes back from a row.
RowStep(r, n) ==
  /\ n.ledger = r.ledger /\ (n.fresh => r.fresh)
  /\ Ended(r) => Ended(n) /\ n.pass = r.pass
  /\ r.status = "FAILED" => n.status = "FAILED"
RowsStep ==
  /\ TrialsHold' /\ Trials \subseteq Trials'
  /\ \A i \in Trials : RowStep(trial[i], trial'[i])
  /\ \A i \in Trials' : i \notin Trials => ~Ended(trial'[i])
Moved(i) == \E n \in TrialType : TrialHolds(n) /\ RowStep(trial[i], n) /\ trial' = [trial EXCEPT ![i] = n]

LEMMA RowOf ==
  ASSUME TrialsHold, NEW i \in Trials
  PROVE  trial[i] \in TrialType /\ TrialHolds(trial[i]) /\ i \in Nat /\ i >= 1
BY DEF TrialsHold, Trials

LEMMA MovedStep ==
  ASSUME TrialsHold, NEW i \in Trials, Moved(i)
  PROVE  RowsStep /\ Trials' = Trials
<1>1. PICK n \in TrialType : TrialHolds(n) /\ RowStep(trial[i], n) /\ trial' = [trial EXCEPT ![i] = n]
  BY DEF Moved
<1>2. trial' \in Seq(TrialType) /\ Trials' = Trials
  BY <1>1 DEF TrialsHold, Trials
<1>3. \A j \in Trials : trial'[j] = IF j = i THEN n ELSE trial[j]
  BY <1>1 DEF TrialsHold, Trials
<1>4. \A j \in Trials : TrialHolds(trial'[j])
  BY <1>1, <1>3 DEF TrialsHold
<1>5. \A j \in Trials : RowStep(trial[j], trial'[j])
  <2>1. SUFFICES ASSUME NEW j \in Trials PROVE RowStep(trial[j], trial'[j])
    OBVIOUS
  <2>2. CASE j = i
    BY <1>1, <1>3, <2>2
  <2>3. CASE j /= i
    <3>1. trial'[j] = trial[j]
      BY <1>3, <2>3
    <3> QED BY <3>1 DEF RowStep
  <2> QED BY <2>2, <2>3
<1>6. TrialsHold'
  BY <1>2, <1>4 DEF TrialsHold
<1> QED BY <1>2, <1>5, <1>6 DEF RowsStep

LEMMA RowsRest ==
  ASSUME TrialsHold, UNCHANGED trial
  PROVE  RowsStep /\ Trials' = Trials
<1>1. Trials' = Trials /\ TrialsHold'
  BY DEF TrialsHold, Trials
<1>2. \A i \in Trials : RowStep(trial[i], trial'[i])
  BY DEF RowStep
<1> QED BY <1>1, <1>2 DEF RowsStep

LEMMA BeginTrialMoves ==
  ASSUME TrialsHold, NEW i \in Trials, BeginTrial(i)
  PROVE  Moved(i)
<1>1. trial[i] \in TrialType /\ TrialHolds(trial[i])
  BY RowOf
<1>2. PICK n : n = [[trial[i] EXCEPT !.pc = "ingest"] EXCEPT !.status = "RUNNING"]
  OBVIOUS
<1>3. n \in TrialType
  BY <1>1, <1>2, EvalAssumption DEF TrialType, Posts, Statuses
<1>4. TrialHolds(n) /\ RowStep(trial[i], n)
  BY <1>1, <1>2, EvalAssumption DEF BeginTrial, Set, Is, TrialType, Posts, Statuses, TrialHolds, RowStep, Ended
<1>5. trial' = [trial EXCEPT ![i] = n]
  BY <1>2 DEF BeginTrial, Set, Is, TrialsHold, Trials
<1> QED BY <1>3, <1>4, <1>5 DEF Moved

LEMMA CopyVolumeMoves ==
  ASSUME TrialsHold, NEW i \in Trials, CopyVolume(i)
  PROVE  Moved(i)
<1>1. trial[i] \in TrialType /\ TrialHolds(trial[i])
  BY RowOf
<1>k. PICK k \in Nat : k = trial[i].copied + 1
  BY <1>1 DEF TrialType
<1>2. PICK n : n = [trial[i] EXCEPT !.copied = k]
  OBVIOUS
<1>3. n \in TrialType
  BY <1>1, <1>2 DEF TrialType
<1>4. TrialHolds(n) /\ RowStep(trial[i], n)
  BY <1>1, <1>k, <1>2, EvalAssumption DEF CopyVolume, Is, TrialType, Posts, Statuses, TrialHolds, RowStep, Ended
<1>5. trial' = [trial EXCEPT ![i] = n]
  BY <1>k, <1>2 DEF CopyVolume, Is, TrialsHold, Trials
<1> QED BY <1>3, <1>4, <1>5 DEF Moved

LEMMA IngestedMoves ==
  ASSUME TrialsHold, NEW i \in Trials, Ingested(i)
  PROVE  Moved(i)
<1>1. trial[i] \in TrialType /\ TrialHolds(trial[i])
  BY RowOf
<1>2. PICK n : n = [trial[i] EXCEPT !.pc = "digitize"]
  OBVIOUS
<1>3. n \in TrialType
  BY <1>1, <1>2, EvalAssumption DEF TrialType, Posts, Statuses
<1>4. TrialHolds(n) /\ RowStep(trial[i], n)
  BY <1>1, <1>2, EvalAssumption DEF Ingested, Set, Is, TrialType, Posts, Statuses, TrialHolds, RowStep, Ended
<1>5. trial' = [trial EXCEPT ![i] = n]
  BY <1>2 DEF Ingested, Set, Is, TrialsHold, Trials
<1> QED BY <1>3, <1>4, <1>5 DEF Moved

LEMMA ReadVolumeMoves ==
  ASSUME TrialsHold, NEW i \in Trials, ReadVolume(i)
  PROVE  Moved(i)
<1>1. trial[i] \in TrialType /\ TrialHolds(trial[i])
  BY RowOf
<1>k. PICK k \in Nat : k = trial[i].read + 1
  BY <1>1 DEF TrialType
<1>2. PICK n : n = [trial[i] EXCEPT !.read = k]
  OBVIOUS
<1>3. n \in TrialType
  BY <1>1, <1>2 DEF TrialType
<1>4. TrialHolds(n) /\ RowStep(trial[i], n)
  BY <1>1, <1>k, <1>2, EvalAssumption DEF ReadVolume, TrialType, Posts, Statuses, TrialHolds, RowStep, Ended
<1>5. trial' = [trial EXCEPT ![i] = n]
  BY <1>k, <1>2 DEF ReadVolume, TrialsHold, Trials
<1> QED BY <1>3, <1>4, <1>5 DEF Moved

LEMMA BarVolumeMoves ==
  ASSUME TrialsHold, NEW i \in Trials, BarVolume(i)
  PROVE  Moved(i)
<1>1. trial[i] \in TrialType /\ TrialHolds(trial[i])
  BY RowOf
<1>k. PICK k \in Nat : k = trial[i].barred + 1
  BY <1>1 DEF TrialType
<1>2. PICK n : n = [trial[i] EXCEPT !.barred = k]
  OBVIOUS
<1>3. n \in TrialType
  BY <1>1, <1>2 DEF TrialType
<1>4. TrialHolds(n) /\ RowStep(trial[i], n)
  BY <1>1, <1>k, <1>2, EvalAssumption DEF BarVolume, TrialType, Posts, Statuses, TrialHolds, RowStep, Ended
<1>5. trial' = [trial EXCEPT ![i] = n]
  BY <1>k, <1>2 DEF BarVolume, TrialsHold, Trials
<1> QED BY <1>3, <1>4, <1>5 DEF Moved

LEMMA CompleteRecordMoves ==
  ASSUME TrialsHold, NEW i \in Trials, CompleteRecord(i)
  PROVE  Moved(i)
<1>1. trial[i] \in TrialType /\ TrialHolds(trial[i])
  BY RowOf
<1>2. PICK n : n = [[trial[i] EXCEPT !.pc = "analysis"] EXCEPT !.seen = trial[i].read]
  OBVIOUS
<1>3. n \in TrialType
  BY <1>1, <1>2, EvalAssumption DEF TrialType, Posts, Statuses
<1>4. TrialHolds(n) /\ RowStep(trial[i], n)
  BY <1>1, <1>2, EvalAssumption DEF CompleteRecord, Set, Is, WholeRecord, TrialType, Posts, Statuses, TrialHolds, RowStep, Ended
<1>5. trial' = [trial EXCEPT ![i] = n]
  BY <1>2 DEF CompleteRecord, Set, Is, WholeRecord, TrialsHold, Trials
<1> QED BY <1>3, <1>4, <1>5 DEF Moved

LEMMA CostLandsMoves ==
  ASSUME TrialsHold, NEW i \in Trials, CostLands(i)
  PROVE  Moved(i)
<1>1. trial[i] \in TrialType /\ TrialHolds(trial[i])
  BY RowOf
<1>k. PICK k \in Nat : k = trial[i].cost + trial[i].unbooked
  BY <1>1 DEF TrialType
<1>2. PICK n : n = [trial[i] EXCEPT !.cost = k, !.unbooked = 0]
  OBVIOUS
<1>3. n \in TrialType
  BY <1>1, <1>2 DEF TrialType
<1>4. TrialHolds(n) /\ RowStep(trial[i], n)
  BY <1>1, <1>k, <1>2, EvalAssumption DEF CostLands, TrialType, Posts, Statuses, TrialHolds, RowStep, Ended
<1>5. trial' = [trial EXCEPT ![i] = n]
  BY <1>k, <1>2 DEF CostLands, TrialsHold, Trials
<1> QED BY <1>3, <1>4, <1>5 DEF Moved

LEMMA AuditedMoves ==
  ASSUME TrialsHold, NEW i \in Trials, Audited(i)
  PROVE  Moved(i)
<1>1. trial[i] \in TrialType /\ TrialHolds(trial[i])
  BY RowOf
<1>2. PICK n : n = [trial[i] EXCEPT !.pc = "none"]
  OBVIOUS
<1>3. n \in TrialType
  BY <1>1, <1>2, EvalAssumption DEF TrialType, Posts, Statuses
<1>4. TrialHolds(n) /\ RowStep(trial[i], n)
  BY <1>1, <1>2, EvalAssumption DEF Audited, Set, Is, TrialType, Posts, Statuses, TrialHolds, RowStep, Ended
<1>5. trial' = [trial EXCEPT ![i] = n]
  BY <1>2 DEF Audited, Set, Is, TrialsHold, Trials
<1> QED BY <1>3, <1>4, <1>5 DEF Moved

LEMMA AnalysedMoves ==
  ASSUME TrialsHold, NEW i \in Trials, Analysed(i)
  PROVE  Moved(i)
<1>1. trial[i] \in TrialType /\ TrialHolds(trial[i])
  BY RowOf
<1>0. PICK k \in {0, trial[i].seen}, c \in {1, Floor} :
        trial' = [Set(i, "score") EXCEPT ![i].found = k, ![i].unbooked = c]
  BY DEF Analysed
<1>2. k \in Nat /\ c \in Nat
  BY <1>1, EvalAssumption DEF TrialType
<1>3. PICK n : n = [[trial[i] EXCEPT !.pc = "score"] EXCEPT !.found = k, !.unbooked = c]
  OBVIOUS
<1>4. n \in TrialType
  BY <1>1, <1>2, <1>3 DEF TrialType, Posts
<1>5. trial[i].pc = "analysis"
  BY DEF Analysed, Is
<1>6. TrialHolds(n) /\ RowStep(trial[i], n)
  BY <1>1, <1>2, <1>3, <1>5 DEF TrialType, TrialHolds, RowStep, Ended
<1>7. trial' = [trial EXCEPT ![i] = n]
  BY <1>0, <1>3 DEF Set, TrialsHold, Trials
<1> QED BY <1>4, <1>6, <1>7 DEF Moved

LEMMA ScoreMoves ==
  ASSUME TrialsHold, NEW i \in Trials, Score(i)
  PROVE  Moved(i)
<1>1. trial[i] \in TrialType /\ TrialHolds(trial[i]) /\ trial[i].pc = "score"
  BY RowOf DEF Score, Is
<1>2. PICK p \in BOOLEAN : p = GatePasses(Card(trial[i]), trial[i].cost)
  BY DEF GatePasses
<1>u. PICK u \in Nat : u = trial[i].unbooked
  BY <1>1 DEF TrialType
<1>b. (u > 0) \in BOOLEAN
  OBVIOUS
<1>3. PICK d \in BOOLEAN : d = (trial[i].unbooked > 0)
  BY <1>u, <1>b, Zenon
<1>4. PICK n : n = [[trial[i] EXCEPT !.pc = "audit"] EXCEPT !.status = "SCORED", !.late = d, !.pass = p]
  OBVIOUS
<1>5. n \in TrialType
  BY <1>1, <1>4 DEF TrialType, Posts, Statuses
<1>6. trial[i].status \notin {"SCORED", "FAILED"}
  BY <1>1 DEF TrialHolds
<1>7. p => trial[i].found = Volumes /\ trial[i].cost < Floor
  <2>1. p => Card(trial[i]).missed = 0 /\ trial[i].cost < Floor
    BY <1>2 DEF GatePasses
  <2>2. Card(trial[i]).missed = Volumes - trial[i].found
    BY DEF Card, ScoreRun
  <2>3. trial[i].found \in Nat /\ Volumes \in Nat
    BY <1>1, EvalAssumption DEF TrialType
  <2> QED BY <2>1, <2>2, <2>3
<1>8. ~d => trial[i].unbooked = 0
  <2>1. ~d => ~(trial[i].unbooked > 0)
    BY <1>3, Zenon
  <2>2. trial[i].unbooked \in Nat
    BY <1>1 DEF TrialType
  <2> QED BY <2>1, <2>2
<1>9. n.pc = "audit" /\ n.status = "SCORED" /\ n.late = d /\ n.pass = p
  BY <1>1, <1>4 DEF TrialType
<1>10. /\ n.copied = trial[i].copied /\ n.read = trial[i].read /\ n.barred = trial[i].barred
       /\ n.found = trial[i].found /\ n.cost = trial[i].cost /\ n.unbooked = trial[i].unbooked
       /\ n.seen = trial[i].seen /\ n.ledger = trial[i].ledger /\ n.fresh = trial[i].fresh
  BY <1>1, <1>4 DEF TrialType
<1>11. TrialHolds(n)
  BY <1>1, <1>7, <1>8, <1>9, <1>10 DEF TrialHolds
<1>12. RowStep(trial[i], n)
  BY <1>6, <1>9, <1>10 DEF RowStep, Ended
<1>13. trial' = [trial EXCEPT ![i] = n]
  BY <1>2, <1>3, <1>4 DEF Score, Set, TrialsHold, Trials
<1> QED BY <1>5, <1>11, <1>12, <1>13 DEF Moved

LEMMA TrialFailsMoves ==
  ASSUME TrialsHold, NEW i \in Trials, TrialFails(i)
  PROVE  Moved(i)
<1>1. trial[i] \in TrialType /\ TrialHolds(trial[i])
  BY RowOf
<1>2. PICK status \in {"FAILED", trial[i].status} : trial' = [Set(i, "none") EXCEPT ![i].status = status]
  BY DEF TrialFails
<1>3. PICK n : n = [[trial[i] EXCEPT !.pc = "none"] EXCEPT !.status = status]
  OBVIOUS
<1>4. n \in TrialType
  BY <1>1, <1>2, <1>3 DEF TrialType, Posts, Statuses
<1>5. TrialHolds(n) /\ RowStep(trial[i], n)
  BY <1>1, <1>2, <1>3 DEF TrialType, TrialHolds, RowStep, Ended
<1>6. trial' = [trial EXCEPT ![i] = n]
  BY <1>2, <1>3 DEF Set, TrialsHold, Trials
<1> QED BY <1>4, <1>5, <1>6 DEF Moved

LEMMA AllStep ==
  ASSUME TrialsHold, NEW f, \A i \in Trials : f[i] \in TrialType /\ TrialHolds(f[i]) /\ RowStep(trial[i], f[i]),
         trial' = [i \in Trials |-> f[i]]
  PROVE  RowsStep /\ Trials' = Trials
<1>1. trial' \in Seq(TrialType) /\ Trials' = Trials
  BY DEF TrialsHold, Trials
<1>2. \A j \in Trials : trial'[j] = f[j]
  OBVIOUS
<1>3. TrialsHold'
  BY <1>1, <1>2 DEF TrialsHold
<1> QED BY <1>1, <1>2, <1>3 DEF RowsStep

LEMMA RestartStep ==
  ASSUME TrialsHold, EvalRestart
  PROVE  RowsStep /\ Trials' = Trials
<1>1. PICK f : f = [i \in Trials |-> [trial[i] EXCEPT !.pc = "none"]]
  OBVIOUS
<1>2. \A i \in Trials : f[i] \in TrialType /\ TrialHolds(f[i]) /\ RowStep(trial[i], f[i])
  <2>1. SUFFICES ASSUME NEW i \in Trials
                 PROVE  f[i] \in TrialType /\ TrialHolds(f[i]) /\ RowStep(trial[i], f[i])
    OBVIOUS
  <2>2. trial[i] \in TrialType /\ TrialHolds(trial[i])
    BY RowOf
  <2>3. f[i] = [trial[i] EXCEPT !.pc = "none"]
    BY <1>1
  <2> QED BY <2>2, <2>3 DEF TrialType, Posts, TrialHolds, RowStep, Ended
<1>3. trial' = [i \in Trials |-> f[i]]
  BY <1>1 DEF EvalRestart
<1> QED BY <1>2, <1>3, AllStep

LEMMA AgeStep ==
  ASSUME TrialsHold, RowsAge
  PROVE  RowsStep /\ Trials' = Trials
<1>1. PICK f : f = [i \in Trials |-> [trial[i] EXCEPT !.fresh = FALSE]]
  OBVIOUS
<1>2. \A i \in Trials : f[i] \in TrialType /\ TrialHolds(f[i]) /\ RowStep(trial[i], f[i])
  <2>1. SUFFICES ASSUME NEW i \in Trials
                 PROVE  f[i] \in TrialType /\ TrialHolds(f[i]) /\ RowStep(trial[i], f[i])
    OBVIOUS
  <2>2. trial[i] \in TrialType /\ TrialHolds(trial[i])
    BY RowOf
  <2>3. f[i] = [trial[i] EXCEPT !.fresh = FALSE]
    BY <1>1
  <2> QED BY <2>2, <2>3 DEF TrialType, TrialHolds, RowStep, Ended
<1>3. trial' = [i \in Trials |-> f[i]]
  BY <1>1 DEF RowsAge
<1> QED BY <1>2, <1>3, AllStep

-----------------------------------------------------------------------------
\* A start that is under way has ledgers left that it found free, and is alone with them unless
\* another start found them free as well.
Making == [pc : {"make"}, left : SUBSET Named, made : SUBSET Nat]
Gone == [pc |-> "done"]
StartersAre ==
  /\ starter \in [Starters -> Making \cup {NoStart, Gone}]
  /\ \A s \in Starters : starter[s] \in Making => starter[s].made \subseteq Trials
Holds(s, l) == Checking(s) /\ l \in starter[s].left
Alone ==
  \A l \in Named : l \notin crossed =>
    /\ \A i, j \in Open(l) : i = j
    /\ \A s \in Starters : Holds(s, l) => Open(l) = {} /\ \A o \in Starters : Holds(o, l) => o = s

LEMMA StarterOf ==
  ASSUME StartersAre, NEW s \in Starters
  PROVE  /\ starter[s] \in Making \/ starter[s] = NoStart \/ starter[s] = Gone
         /\ starter[s] \in Making => starter[s].pc = "make" /\ starter[s].left \subseteq Named
         /\ starter[s].pc = "make" => starter[s] \in Making
         /\ Checking(s) => starter[s] \in Making
         /\ starter[s] \in Making => starter[s].made \subseteq Trials
<1>1. starter[s] \in Making \/ starter[s] = NoStart \/ starter[s] = Gone
  BY DEF StartersAre
<1>2. starter[s] \in Making => starter[s].pc = "make" /\ starter[s].left \subseteq Named
  BY DEF Making
<1>3. starter[s].pc = "make" => starter[s] \in Making
  BY <1>1 DEF NoStart, Gone
<1> QED BY <1>1, <1>2, <1>3 DEF StartersAre, Checking

LEMMA AloneStays ==
  ASSUME Alone, crossed \subseteq crossed',
         \A l \in Named : Open(l)' \subseteq Open(l),
         \A s \in Starters, l \in Named : Holds(s, l)' => Holds(s, l)
  PROVE  Alone'
<1>1. SUFFICES ASSUME NEW l \in Named, l \notin crossed'
               PROVE  /\ \A i, j \in Open(l)' : i = j
                      /\ \A s \in Starters : Holds(s, l)' =>
                           Open(l)' = {} /\ \A o \in Starters : Holds(o, l)' => o = s
  BY DEF Alone
<1>2. /\ \A i, j \in Open(l) : i = j
      /\ \A s \in Starters : Holds(s, l) => Open(l) = {} /\ \A o \in Starters : Holds(o, l) => o = s
  BY <1>1 DEF Alone
<1>3. Open(l)' \subseteq Open(l) /\ \A s \in Starters : Holds(s, l)' => Holds(s, l)
  OBVIOUS
<1>4. \A i, j \in Open(l)' : i = j
  BY <1>2, <1>3
<1>5. \A s \in Starters : Holds(s, l)' => Open(l)' = {} /\ \A o \in Starters : Holds(o, l)' => o = s
  BY <1>2, <1>3
<1> QED BY <1>4, <1>5

LEMMA OpenShrinks ==
  ASSUME TrialsHold, RowsStep, Trials' = Trials, NEW l
  PROVE  Open(l)' \subseteq Open(l)
<1>1. SUFFICES ASSUME NEW i \in Trials, trial'[i].ledger = l, trial'[i].status \in {"QUEUED", "RUNNING"}, trial'[i].fresh
               PROVE  i \in Open(l)
  BY DEF Open
<1>2. RowStep(trial[i], trial'[i]) /\ trial[i] \in TrialType
  BY RowOf DEF RowsStep
<1>3. trial[i].ledger = l /\ trial[i].fresh
  BY <1>1, <1>2 DEF RowStep
<1>4. trial[i].status \in {"QUEUED", "RUNNING"}
  BY <1>1, <1>2 DEF RowStep, Ended, TrialType, Statuses
<1> QED BY <1>3, <1>4 DEF Open

LEMMA StartersRest ==
  ASSUME StartersAre, Alone, TrialsHold, RowsStep, Trials' = Trials, UNCHANGED <<starter, crossed>>
  PROVE  StartersAre' /\ Alone'
<1>1. StartersAre'
  BY DEF StartersAre
<1>2. \A s \in Starters, l \in Named : Holds(s, l)' => Holds(s, l)
  BY DEF Holds, Checking
<1> QED BY <1>1, <1>2, OpenShrinks, AloneStays

\* A start gives up what it has left, or leaves.
LEMMA StarterEnds ==
  ASSUME StartersAre, Alone, TrialsHold, RowsStep, Trials' = Trials, crossed' = crossed, NEW s \in Starters,
         starter[s] \in Making,
         starter' = [starter EXCEPT ![s].left = {}] \/ starter' = [starter EXCEPT ![s] = Gone]
  PROVE  StartersAre' /\ Alone'
<1>1. PICK n \in Making \cup {Gone} : starter' = [starter EXCEPT ![s] = n]
                                /\ (n \in Making => n.left = {} /\ n.made = starter[s].made)
  <2>1. CASE starter' = [starter EXCEPT ![s].left = {}]
    <3>1. PICK n : n = [starter[s] EXCEPT !.left = {}]
      OBVIOUS
    <3>2. n \in Making /\ n.left = {} /\ n.made = starter[s].made
      BY <3>1 DEF Making
    <3>3. starter' = [starter EXCEPT ![s] = n]
      BY <2>1, <3>1
    <3> QED BY <3>2, <3>3
  <2>2. CASE starter' = [starter EXCEPT ![s] = Gone]
    <3>1. Gone \notin Making
      BY DEF Gone, Making
    <3> QED BY <2>2, <3>1
  <2> QED BY <2>1, <2>2
<1>2. starter' \in [Starters -> Making \cup {NoStart, Gone}]
  BY <1>1 DEF StartersAre
<1>3. starter'[s] = n /\ \A o \in Starters : o /= s => starter'[o] = starter[o]
  BY <1>1 DEF StartersAre
<1>4. StartersAre'
  BY <1>1, <1>2, <1>3, StarterOf DEF StartersAre
<1>5. ~Checking(s)'
  BY <1>1, <1>3 DEF Checking, Gone, Making
<1>6. \A o \in Starters, l \in Named : Holds(o, l)' => Holds(o, l)
  BY <1>3, <1>5 DEF Holds, Checking
<1> QED BY <1>4, <1>6, OpenShrinks, AloneStays

LEMMA StartRunsAlone ==
  ASSUME StartersAre, Alone, TrialsHold, NEW s \in Starters, StartRuns(s)
  PROVE  StartersAre' /\ Alone'
<1>1. PICK names \in SUBSET Named \ {{}} :
       /\ \A l \in names : Open(l) = {}
       /\ starter' = [starter EXCEPT ![s] = [pc |-> "make", left |-> names, made |-> {}]]
       /\ crossed' = crossed \cup {l \in names : \E o \in Starters \ {s} : Checking(o) /\ l \in starter[o].left}
  BY DEF StartRuns
<1>2. trial' = trial /\ Trials' = Trials
  BY DEF StartRuns, Trials
<1>3. PICK n : n = [pc |-> "make", left |-> names, made |-> {}]
  OBVIOUS
<1>4. n \in Making /\ n.pc = "make" /\ n.left = names /\ n.made = {}
  BY <1>3 DEF Making
<1>5. starter'[s] = n /\ \A o \in Starters : o /= s => starter'[o] = starter[o]
  BY <1>1, <1>3 DEF StartersAre
<1>6. starter' \in [Starters -> Making \cup {NoStart, Gone}]
  BY <1>1, <1>3, <1>4 DEF StartersAre
<1>7. StartersAre'
  BY <1>2, <1>4, <1>5, <1>6 DEF StartersAre
<1>8. \A l \in Named : Open(l)' = Open(l)
  BY <1>2 DEF Open
<1>9. Alone'
  <2>1. SUFFICES ASSUME NEW l \in Named, l \notin crossed'
                 PROVE  /\ \A i, j \in Open(l)' : i = j
                        /\ \A o \in Starters : Holds(o, l)' =>
                             Open(l)' = {} /\ \A u \in Starters : Holds(u, l)' => u = o
    BY DEF Alone
  <2>2. /\ \A i, j \in Open(l) : i = j
        /\ \A o \in Starters : Holds(o, l) => Open(l) = {} /\ \A u \in Starters : Holds(u, l) => u = o
    BY <1>1, <2>1 DEF Alone
  <2>3. Holds(s, l)' <=> l \in names
    BY <1>1, <1>4, <1>5 DEF Holds, Checking
  <2>4. \A o \in Starters : o /= s => (Holds(o, l)' <=> Holds(o, l))
    BY <1>5 DEF Holds, Checking
  <2>5. l \in names => \A o \in Starters : o /= s => ~Holds(o, l)
    BY <1>1, <2>1 DEF Holds
  <2>6. CASE l \in names
    <3>1. Open(l)' = {}
      BY <1>1, <1>8, <2>6
    <3>2. \A o \in Starters : Holds(o, l)' => o = s
      BY <2>4, <2>5, <2>6
    <3> QED BY <3>1, <3>2
  <2>7. CASE l \notin names
    <3>1. \A o \in Starters : Holds(o, l)' => Holds(o, l)
      BY <2>3, <2>4, <2>7
    <3> QED BY <1>8, <2>2, <3>1
  <2> QED BY <2>6, <2>7
<1> QED BY <1>7, <1>9

LEMMA NewRow ==
  ASSUME NEW l \in Named
  PROVE  NewTrial(l) \in TrialType /\ TrialHolds(NewTrial(l)) /\ ~Ended(NewTrial(l)) /\ NewTrial(l).ledger = l
<1>1. PICK n : n = NewTrial(l)
  OBVIOUS
<1>2. n \in TrialType
  BY <1>1 DEF NewTrial, TrialType, Posts, Statuses
<1>3. /\ n.status = "QUEUED" /\ n.pc = "start" /\ n.copied = 0 /\ n.read = 0 /\ n.barred = 0 /\ n.ledger = l
  BY <1>1 DEF NewTrial
<1>4. TrialHolds(n)
  BY <1>3, EvalAssumption DEF TrialHolds
<1> QED BY <1>1, <1>2, <1>3, <1>4 DEF Ended

LEMMA MakeTrialStep ==
  ASSUME TrialsHold, NEW s \in Starters, NEW l \in Named, trial' = Append(trial, NewTrial(l))
  PROVE  /\ RowsStep /\ Trials' = Trials \cup {Len(trial) + 1} /\ Len(trial) + 1 \notin Trials
         /\ Len(trial) + 1 \in Nat
         /\ trial'[Len(trial) + 1] = NewTrial(l) /\ \A i \in Trials : trial'[i] = trial[i]
<1>1. PICK n : n = NewTrial(l)
  OBVIOUS
<1>2. n \in TrialType /\ TrialHolds(n) /\ ~Ended(n)
  BY <1>1, NewRow
<1>3. trial' = Append(trial, n) /\ trial \in Seq(TrialType)
  BY <1>1 DEF TrialsHold
<1>4. /\ trial' \in Seq(TrialType) /\ Trials' = Trials \cup {Len(trial) + 1} /\ Len(trial) + 1 \notin Trials
      /\ Len(trial) + 1 \in Nat
  BY <1>2, <1>3 DEF Trials
<1>5. trial'[Len(trial) + 1] = n /\ \A i \in Trials : trial'[i] = trial[i]
  BY <1>2, <1>3 DEF Trials
<1>6. TrialsHold'
  <2>1. \A i \in Trials' : TrialHolds(trial'[i])
    BY <1>2, <1>4, <1>5 DEF TrialsHold
  <2> QED BY <1>4, <2>1 DEF TrialsHold
<1>7. \A i \in Trials : RowStep(trial[i], trial'[i])
  BY <1>5 DEF RowStep
<1>8. \A i \in Trials' : i \notin Trials => ~Ended(trial'[i])
  BY <1>2, <1>4, <1>5
<1> QED BY <1>1, <1>4, <1>5, <1>6, <1>7, <1>8 DEF RowsStep

LEMMA MakeTrialAlone ==
  ASSUME StartersAre, Alone, TrialsHold, NEW s \in Starters, MakeTrial(s)
  PROVE  RowsStep /\ StartersAre' /\ Alone'
<1>1. starter[s] \in Making
  BY StarterOf DEF MakeTrial
<1>2. PICK l \in starter[s].left :
        /\ trial' = Append(trial, NewTrial(l))
        /\ starter' = [starter EXCEPT ![s].left = @ \ {l}, ![s].made = @ \cup {Len(trial) + 1}]
  BY DEF MakeTrial
<1>3. l \in Named /\ Holds(s, l)
  BY <1>1, <1>2 DEF Making, Holds, MakeTrial
<1>4. /\ RowsStep /\ Trials' = Trials \cup {Len(trial) + 1} /\ Len(trial) + 1 \notin Trials
      /\ Len(trial) + 1 \in Nat
      /\ trial'[Len(trial) + 1] = NewTrial(l) /\ \A i \in Trials : trial'[i] = trial[i]
  BY <1>2, <1>3, MakeTrialStep
<1>5. PICK k \in Nat : k = Len(trial) + 1
  BY <1>4
<1>6. PICK n : n = [starter[s] EXCEPT !.left = @ \ {l}, !.made = @ \cup {k}]
  OBVIOUS
<1>7. n \in Making /\ n.left = starter[s].left \ {l} /\ n.made = starter[s].made \cup {k}
  BY <1>1, <1>6 DEF Making
<1>8. starter' = [starter EXCEPT ![s] = n]
  BY <1>2, <1>5, <1>6
<1>9. starter'[s] = n /\ \A o \in Starters : o /= s => starter'[o] = starter[o]
  BY <1>8 DEF StartersAre
<1>10. starter' \in [Starters -> Making \cup {NoStart, Gone}]
  BY <1>7, <1>8 DEF StartersAre
<1>11. StartersAre'
  BY <1>1, <1>4, <1>5, <1>7, <1>9, <1>10, StarterOf DEF StartersAre
<1>12. crossed' = crossed
  BY DEF MakeTrial
<1>13. \A m \in Named : Open(m)' \subseteq Open(m) \cup {x \in {k} : m = l}
  <2>1. SUFFICES ASSUME NEW m \in Named, NEW i \in Open(m)' PROVE i \in Open(m) \/ (i = k /\ m = l)
    OBVIOUS
  <2>2. i \in Trials \/ i = k
    BY <1>4, <1>5, <2>1 DEF Open
  <2>3. CASE i \in Trials
    BY <1>4, <2>1, <2>3 DEF Open
  <2>4. CASE i = k
    <3>1. trial'[i].ledger = l
      BY <1>3, <1>4, <1>5, <2>4, NewRow
    <3> QED BY <2>1, <2>4, <3>1 DEF Open
  <2> QED BY <2>2, <2>3, <2>4
<1>14. \A o \in Starters, m \in Named : Holds(o, m)' => Holds(o, m) /\ ~(o = s /\ m = l)
  <2>1. SUFFICES ASSUME NEW o \in Starters, NEW m \in Named, Holds(o, m)' PROVE Holds(o, m) /\ ~(o = s /\ m = l)
    OBVIOUS
  <2>2. CASE o = s
    BY <1>1, <1>7, <1>9, <2>1, <2>2 DEF Holds, Checking, Making
  <2>3. CASE o /= s
    BY <1>9, <2>1, <2>3 DEF Holds, Checking
  <2> QED BY <2>2, <2>3
<1>15. Alone'
  <2>1. SUFFICES ASSUME NEW m \in Named, m \notin crossed'
                 PROVE  /\ \A i, j \in Open(m)' : i = j
                        /\ \A o \in Starters : Holds(o, m)' =>
                             Open(m)' = {} /\ \A u \in Starters : Holds(u, m)' => u = o
    BY DEF Alone
  <2>2. /\ \A i, j \in Open(m) : i = j
        /\ \A o \in Starters : Holds(o, m) => Open(m) = {} /\ \A u \in Starters : Holds(u, m) => u = o
    BY <1>12, <2>1 DEF Alone
  <2>3. CASE m = l
    <3>1. Open(m)' \subseteq {k}
      BY <1>3, <1>13, <2>2, <2>3
    <3>2. \A o \in Starters : ~Holds(o, m)'
      BY <1>3, <1>14, <2>2, <2>3
    <3> QED BY <3>1, <3>2
  <2>4. CASE m /= l
    <3>1. Open(m)' \subseteq Open(m)
      BY <1>13, <2>4
    <3> QED BY <1>14, <2>2, <3>1
  <2> QED BY <2>3, <2>4
<1> QED BY <1>4, <1>11, <1>15
-----------------------------------------------------------------------------

LEMMA RestartAlone ==
  ASSUME StartersAre, Alone, TrialsHold, EvalRestart
  PROVE  RowsStep /\ Trials' = Trials /\ StartersAre' /\ Alone'
<1>1. RowsStep /\ Trials' = Trials
  BY RestartStep
<1>2. starter' = [s \in Starters |-> IF Checking(s) THEN [starter[s] EXCEPT !.left = {}] ELSE starter[s]]
      /\ crossed' = crossed
  BY DEF EvalRestart
<1>3. \A s \in Starters :
        /\ starter'[s] \in Making \cup {NoStart, Gone} /\ ~Checking(s)'
        /\ starter'[s] \in Making => starter'[s].made \subseteq Trials
  <2>1. SUFFICES ASSUME NEW s \in Starters
                 PROVE  /\ starter'[s] \in Making \cup {NoStart, Gone} /\ ~Checking(s)'
                        /\ starter'[s] \in Making => starter'[s].made \subseteq Trials
    OBVIOUS
  <2>2. CASE Checking(s)
    <3>1. starter[s] \in Making /\ starter[s].made \subseteq Trials
      BY <2>2, StarterOf
    <3>2. PICK n : n = [starter[s] EXCEPT !.left = {}]
      OBVIOUS
    <3>3. n \in Making /\ n.left = {} /\ n.made = starter[s].made
      BY <3>1, <3>2 DEF Making
    <3>4. starter'[s] = n
      BY <1>2, <2>2, <3>2
    <3> QED BY <3>1, <3>3, <3>4 DEF Checking
  <2>3. CASE ~Checking(s)
    <3>1. starter'[s] = starter[s]
      BY <1>2, <2>3
    <3> QED BY <2>3, <3>1, StarterOf DEF Checking, StartersAre
  <2> QED BY <2>2, <2>3
<1>4. starter' \in [Starters -> Making \cup {NoStart, Gone}]
  BY <1>2, <1>3
<1>5. StartersAre'
  BY <1>1, <1>3, <1>4 DEF StartersAre
<1>6. \A s \in Starters, l \in Named : Holds(s, l)' => Holds(s, l)
  BY <1>3 DEF Holds
<1> QED BY <1>1, <1>2, <1>5, <1>6, OpenShrinks, AloneStays

-----------------------------------------------------------------------------
\* A nonempty set of rows has a newest one.
LEMMA NewestOfSome ==
  ASSUME NEW n \in Nat, NEW S, S \subseteq 1 .. n, S /= {}
  PROVE  Newest(S) \in S
<1>1. PICK T : T = {n - i : i \in S}
  OBVIOUS
<1>2. T \subseteq Nat /\ T /= {}
  <2>1. \A i \in S : n - i \in Nat
    OBVIOUS
  <2> QED BY <1>1, <2>1
<1>3. PICK x \in T : \A y \in T : ~(<<y, x>> \in OpToRel(<, Nat))
  BY <1>2, WFMin, NatLessThanWellFounded, Zenon
<1>4. \A y \in T : ~(y < x)
  BY <1>2, <1>3, Zenon DEF OpToRel
<1>5. PICK i \in S : x = n - i
  BY <1>1, <1>3
<1>6. \A j \in S : j <= i
  <2>1. SUFFICES ASSUME NEW j \in S PROVE j <= i
    OBVIOUS
  <2>2. ~(n - j < n - i)
    BY <1>1, <1>4, <1>5
  <2>3. i \in 1 .. n /\ j \in 1 .. n
    OBVIOUS
  <2> QED BY <2>2, <2>3
<1> QED BY <1>6 DEF Newest

LEMMA LatestIsEnded ==
  ASSUME TrialsHold, NEW l
  PROVE  LatestOf(l) = 0 \/ (LatestOf(l) \in Trials /\ Ended(trial[LatestOf(l)]) /\ trial[LatestOf(l)].ledger = l)
<1>1. PICK S : S = {i \in Trials : trial[i].ledger = l /\ Ended(trial[i])}
  OBVIOUS
<1>2. LatestOf(l) = Newest(S)
  BY <1>1 DEF LatestOf
<1>3. S \subseteq 1 .. Len(trial) /\ Len(trial) \in Nat
  BY <1>1 DEF Trials, TrialsHold
<1>4. CASE S = {}
  BY <1>2, <1>4 DEF Newest
<1>5. CASE S /= {}
  <2>1. Newest(S) \in S
    BY <1>3, <1>5, NewestOfSome
  <2> QED BY <1>1, <1>2, <2>1
<1> QED BY <1>4, <1>5

\* The gate's reading in flight: rows that had ended when it began have ended still, and a
\* failure stays one; so where nothing was told since, what it found is still the case.
LedgersTo(n) == {Ledgers[k] : k \in 1 .. n}
FailedNow(ls) == {l \in ls : LatestOf(l) /= 0 /\ ~Passed(trial[LatestOf(l)])}
NeverNow(ls) == {l \in ls : LatestOf(l) = 0}
EndedStays(since) ==
  \A i, status : <<i, status>> \in since =>
    /\ status \in {"SCORED", "FAILED"} /\ i \in Trials /\ Ended(trial[i])
    /\ status = "FAILED" => trial[i].status = "FAILED"
ReadsOn(r) ==
  /\ r = [pc |-> "read", next |-> r.next, failed |-> r.failed, never |-> r.never, since |-> r.since]
  /\ r.next \in 1 .. Len(Ledgers)
  /\ r.since = {<<x[1], x[2]>> : x \in r.since} /\ EndedStays(r.since)
  /\ Told = r.since => r.failed = FailedNow(LedgersTo(r.next - 1)) /\ r.never = NeverNow(LedgersTo(r.next - 1))
HasRead(r) ==
  /\ r = [pc |-> "told", answer |-> r.answer, torn |-> r.torn, truth |-> r.truth]
  /\ r.torn \/ r.answer = r.truth
ReadingIs == reading = NoReading \/ ReadsOn(reading) \/ HasRead(reading)

LEMMA InTold ==
  ASSUME NEW i, NEW status
  PROVE  <<i, status>> \in Told <=> i \in Trials /\ Ended(trial[i]) /\ status = trial[i].status
BY DEF Told

LEMMA InToldThen ==
  ASSUME NEW i, NEW status
  PROVE  <<i, status>> \in Told' <=> i \in Trials' /\ Ended(trial'[i]) /\ status = trial'[i].status
BY DEF Told

LEMMA EndedStaysOn ==
  ASSUME TrialsHold, RowsStep, NEW since, EndedStays(since)
  PROVE  EndedStays(since)'
<1>1. SUFFICES ASSUME NEW i, NEW status, <<i, status>> \in since
               PROVE  /\ status \in {"SCORED", "FAILED"} /\ i \in Trials' /\ Ended(trial'[i])
                      /\ status = "FAILED" => trial'[i].status = "FAILED"
  BY DEF EndedStays
<1>2. /\ status \in {"SCORED", "FAILED"} /\ i \in Trials /\ Ended(trial[i])
      /\ status = "FAILED" => trial[i].status = "FAILED"
  BY <1>1 DEF EndedStays
<1>3. RowStep(trial[i], trial'[i]) /\ i \in Trials'
  BY <1>2 DEF RowsStep
<1> QED BY <1>2, <1>3 DEF RowStep

\* What is told again was told before.
LEMMA ToldBefore ==
  ASSUME TrialsHold, RowsStep, NEW since, EndedStays(since), since = {<<x[1], x[2]>> : x \in since},
         Told' = since
  PROVE  Told = since
<1>1. \A i \in Trials : Ended(trial[i]) => trial[i].status = trial'[i].status /\ Ended(trial'[i])
  <2>1. SUFFICES ASSUME NEW i \in Trials, Ended(trial[i])
                 PROVE  trial[i].status = trial'[i].status /\ Ended(trial'[i])
    OBVIOUS
  <2>2. RowStep(trial[i], trial'[i]) /\ i \in Trials'
    BY DEF RowsStep
  <2>3. Ended(trial'[i]) /\ (trial[i].status = "FAILED" => trial'[i].status = "FAILED")
    BY <2>1, <2>2 DEF RowStep
  <2>4. <<i, trial'[i].status>> \in since
    BY <2>2, <2>3, InToldThen
  <2>5. trial'[i].status = "FAILED" => trial[i].status = "FAILED"
    BY <2>4 DEF EndedStays
  <2> QED BY <2>1, <2>3, <2>5 DEF Ended
<1>2. \A i, status : <<i, status>> \in Told => <<i, status>> \in since
  <2>1. SUFFICES ASSUME NEW i, NEW status, <<i, status>> \in Told PROVE <<i, status>> \in since
    OBVIOUS
  <2>2. i \in Trials /\ Ended(trial[i]) /\ status = trial[i].status
    BY <2>1, InTold
  <2>3. i \in Trials' /\ Ended(trial'[i]) /\ status = trial'[i].status
    BY <1>1, <2>2 DEF RowsStep
  <2> QED BY <2>3, InToldThen
<1>3. \A i, status : <<i, status>> \in since => <<i, status>> \in Told
  <2>1. SUFFICES ASSUME NEW i, NEW status, <<i, status>> \in since PROVE <<i, status>> \in Told
    OBVIOUS
  <2>2. i \in Trials /\ Ended(trial[i])
    BY <2>1 DEF EndedStays
  <2>3. status = trial'[i].status
    BY <2>1, InToldThen
  <2> QED BY <1>1, <2>2, <2>3, InTold
<1>4. \A x \in Told : \E i, status : x = <<i, status>>
  BY DEF Told
<1>5. \A x \in since : \E i, status : x = <<i, status>>
  OBVIOUS
<1> QED BY <1>2, <1>3, <1>4, <1>5

\* Where the same is told, the newest finished row of a ledger is the same, and is worth the same.
LEMMA LatestStays ==
  ASSUME TrialsHold, RowsStep, Told' = Told, NEW l
  PROVE  /\ LatestOf(l)' = LatestOf(l)
         /\ LatestOf(l) /= 0 => (Passed(trial[LatestOf(l)])' <=> Passed(trial[LatestOf(l)]))
<1>1. \A i \in Trials : Ended(trial[i]) => Ended(trial'[i]) /\ trial'[i].status = trial[i].status
  <2>1. SUFFICES ASSUME NEW i \in Trials, Ended(trial[i])
                 PROVE  Ended(trial'[i]) /\ trial'[i].status = trial[i].status
    OBVIOUS
  <2>2. <<i, trial[i].status>> \in Told'
    BY <2>1, InTold
  <2> QED BY <2>2, InToldThen
<1>2. \A i \in Trials' : Ended(trial'[i]) => i \in Trials /\ Ended(trial[i])
  <2>1. SUFFICES ASSUME NEW i \in Trials', Ended(trial'[i]) PROVE i \in Trials /\ Ended(trial[i])
    OBVIOUS
  <2>2. <<i, trial'[i].status>> \in Told
    BY <2>1, InToldThen
  <2> QED BY <2>2, InTold
<1>3. \A i \in Trials : trial'[i].ledger = trial[i].ledger
  BY DEF RowsStep, RowStep
<1>4. PICK S : S = {i \in Trials : trial[i].ledger = l /\ Ended(trial[i])}
  OBVIOUS
<1>5. {i \in Trials' : trial'[i].ledger = l /\ Ended(trial'[i])} = S
  BY <1>1, <1>2, <1>3, <1>4 DEF RowsStep
<1>6. LatestOf(l) = Newest(S) /\ LatestOf(l)' = Newest(S)
  <2>1. LatestOf(l) = Newest(S)
    BY <1>4 DEF LatestOf
  <2>2. LatestOf(l)' = Newest({i \in Trials' : trial'[i].ledger = l /\ Ended(trial'[i])})
    BY DEF LatestOf, Ended, Newest
  <2> QED BY <1>5, <2>1, <2>2
<1>7. PICK k : k = LatestOf(l)
  OBVIOUS
<1>8. k /= 0 => k \in Trials /\ Ended(trial[k])
  BY <1>7, LatestIsEnded
<1>9. k /= 0 => trial'[k].status = trial[k].status /\ trial'[k].pass = trial[k].pass
  BY <1>1, <1>8 DEF RowsStep, RowStep
<1>10. k /= 0 => (Passed(trial'[k]) <=> Passed(trial[k]))
  BY <1>9 DEF Passed
<1>11. LatestOf(l)' = k
  BY <1>6, <1>7
<1> QED BY <1>7, <1>10, <1>11

LEMMA FoundStays ==
  ASSUME TrialsHold, RowsStep, Told' = Told, NEW ls
  PROVE  FailedNow(ls)' = FailedNow(ls) /\ NeverNow(ls)' = NeverNow(ls)
<1>1. \A l : /\ LatestOf(l)' = LatestOf(l)
             /\ LatestOf(l) /= 0 => (Passed(trial[LatestOf(l)])' <=> Passed(trial[LatestOf(l)]))
  BY LatestStays
<1>2. NeverNow(ls)' = NeverNow(ls)
  BY <1>1 DEF NeverNow
<1>3. FailedNow(ls)' = {l \in ls : LatestOf(l)' /= 0 /\ ~(Passed(trial[LatestOf(l)])')}
  BY DEF FailedNow
<1>4. FailedNow(ls)' = FailedNow(ls)
  BY <1>1, <1>3 DEF FailedNow
<1> QED BY <1>2, <1>4

LEMMA ReadsOnStays ==
  ASSUME TrialsHold, RowsStep, NEW r, ReadsOn(r)
  PROVE  ReadsOn(r)'
<1>1. EndedStays(r.since)'
  BY EndedStaysOn DEF ReadsOn
<1>2. ASSUME Told' = r.since
      PROVE  /\ r.failed = FailedNow(LedgersTo(r.next - 1))'
             /\ r.never = NeverNow(LedgersTo(r.next - 1))'
  <2>1. Told = r.since
    BY <1>2, ToldBefore DEF ReadsOn
  <2>2. r.failed = FailedNow(LedgersTo(r.next - 1)) /\ r.never = NeverNow(LedgersTo(r.next - 1))
    BY <2>1 DEF ReadsOn
  <2>3. PICK ls : ls = LedgersTo(r.next - 1)
    OBVIOUS
  <2>4. FailedNow(ls)' = FailedNow(ls) /\ NeverNow(ls)' = NeverNow(ls)
    BY <1>2, <2>1, FoundStays
  <2>5. LedgersTo(r.next - 1)' = ls
    BY <2>3 DEF LedgersTo
  <2> QED BY <2>2, <2>3, <2>4, <2>5 DEF FailedNow, NeverNow
<1> QED BY <1>1, <1>2 DEF ReadsOn

LEMMA ReadingRests ==
  ASSUME TrialsHold, RowsStep, ReadingIs, reading' = reading \/ reading' = NoReading
  PROVE  ReadingIs'
<1>1. CASE reading' = NoReading
  BY <1>1 DEF ReadingIs
<1>2. CASE reading' = reading
  <2>1. CASE ReadsOn(reading)
    <3>1. PICK r : r = reading
      OBVIOUS
    <3>2. ReadsOn(r)'
      BY <2>1, <3>1, ReadsOnStays
    <3>3. reading' = r
      BY <1>2, <3>1
    <3>4. ReadsOn(reading)'
      BY <3>2, <3>3 DEF ReadsOn, LedgersTo, FailedNow, NeverNow, EndedStays
    <3> QED BY <3>4 DEF ReadingIs
  <2>2. CASE reading = NoReading \/ HasRead(reading)
    BY <1>2, <2>2 DEF ReadingIs, HasRead
  <2> QED BY <2>1, <2>2 DEF ReadingIs
<1> QED BY <1>1, <1>2

LEMMA AskGateReads ==
  ASSUME TrialsHold, AskGate
  PROVE  ReadingIs'
<1>1. PICK r : r = [pc |-> "read", next |-> 1, failed |-> {}, never |-> {}, since |-> Told]
  OBVIOUS
<1>2. reading' = r /\ trial' = trial
  BY <1>1 DEF AskGate
<1>3. /\ r = [pc |-> "read", next |-> r.next, failed |-> r.failed, never |-> r.never, since |-> r.since]
      /\ r.next = 1 /\ r.failed = {} /\ r.never = {} /\ r.since = Told
  BY <1>1
<1>4. 1 \in 1 .. Len(Ledgers)
  BY EvalAssumption
<1>5. EndedStays(Told)
  BY InTold DEF EndedStays, Ended
<1>6. Told = {<<x[1], x[2]>> : x \in Told}
  <2>1. \A x \in Told : x = <<x[1], x[2]>>
    BY DEF Told
  <2> QED BY <2>1
<1>7. LedgersTo(1 - 1) = {}
  BY DEF LedgersTo
<1>8. FailedNow({}) = {} /\ NeverNow({}) = {}
  BY DEF FailedNow, NeverNow
<1>9. ReadsOn(r)
  BY <1>3, <1>4, <1>5, <1>6, <1>7, <1>8 DEF ReadsOn
<1>10. RowsStep
  BY <1>2, RowsRest
<1>11. ReadsOn(r)'
  BY <1>9, <1>10, ReadsOnStays
<1>12. ReadsOn(reading)'
  BY <1>2, <1>11 DEF ReadsOn, LedgersTo, FailedNow, NeverNow, EndedStays
<1> QED BY <1>12 DEF ReadingIs

\* The console's gate over every row there is, from what is found of every ledger.
LEMMA PageGateOfAll ==
  PageGate(trial) = Answer(FailedNow(Named), NeverNow(Named))
<1>1. \A l : LatestOf(l) = Newest({i \in DOMAIN trial : trial[i].ledger = l /\ Ended(trial[i])})
  BY DEF LatestOf, Trials
<1>2. PICK never : never = NeverNow(Named)
  OBVIOUS
<1>3. {l \in Named : Newest({i \in DOMAIN trial : trial[i].ledger = l /\ Ended(trial[i])}) = 0} = never
  BY <1>1, <1>2 DEF NeverNow
<1>4. {l \in Named \ never :
         ~Passed(trial[Newest({i \in DOMAIN trial : trial[i].ledger = l /\ Ended(trial[i])})])} = FailedNow(Named)
  BY <1>1, <1>2 DEF NeverNow, FailedNow
<1> QED BY <1>2, <1>3, <1>4 DEF PageGate

LEMMA ReadLedgerReads ==
  ASSUME TrialsHold, ReadingIs, ReadLedger
  PROVE  ReadingIs'
<1>1. PICK r : r = reading
  OBVIOUS
<1>2. ReadsOn(r) /\ r.pc = "read"
  BY <1>1 DEF ReadLedger, ReadingIs, NoReading, HasRead
<1>3. PICK l : l = Ledgers[r.next]
  OBVIOUS
<1>4. PICK failed : failed = r.failed \cup {x \in {l} : LatestOf(l) /= 0 /\ ~Passed(trial[LatestOf(l)])}
  OBVIOUS
<1>5. PICK never : never = r.never \cup {x \in {l} : LatestOf(l) = 0}
  OBVIOUS
<1>6. reading' = IF r.next < Len(Ledgers)
                 THEN [r EXCEPT !.next = @ + 1, !.failed = failed, !.never = never]
                 ELSE [pc |-> "told", answer |-> Answer(failed, never), torn |-> Told /= r.since,
                       truth |-> PageGate(trial)]
  BY <1>1, <1>3, <1>4, <1>5 DEF ReadLedger
<1>7. trial' = trial /\ Trials' = Trials
  BY DEF ReadLedger, Trials
<1>8. r.next \in 1 .. Len(Ledgers) /\ Len(Ledgers) \in Nat /\ r.next \in Nat
  BY <1>2, EvalAssumption DEF ReadsOn
<1>9. ASSUME Told = r.since
      PROVE  failed = FailedNow(LedgersTo(r.next)) /\ never = NeverNow(LedgersTo(r.next))
  <2>1. r.failed = FailedNow(LedgersTo(r.next - 1)) /\ r.never = NeverNow(LedgersTo(r.next - 1))
    BY <1>2, <1>9 DEF ReadsOn
  <2>2. LedgersTo(r.next) = LedgersTo(r.next - 1) \cup {l}
    <3>1. 1 .. r.next = (1 .. (r.next - 1)) \cup {r.next}
      BY <1>8
    <3> QED BY <1>3, <3>1 DEF LedgersTo
  <2> QED BY <1>4, <1>5, <2>1, <2>2 DEF FailedNow, NeverNow
<1>10. CASE r.next < Len(Ledgers)
  <2>1. PICK k \in Nat : k = r.next + 1
    BY <1>8
  <2>2. PICK n : n = [r EXCEPT !.next = k, !.failed = failed, !.never = never]
    OBVIOUS
  <2>3. reading' = n
    BY <1>6, <1>10, <2>1, <2>2
  <2>4. r = [pc |-> "read", next |-> r.next, failed |-> r.failed, never |-> r.never, since |-> r.since]
    BY <1>2 DEF ReadsOn
  <2>5. PICK q : q = [pc |-> "read", next |-> k, failed |-> failed, never |-> never, since |-> r.since]
    OBVIOUS
  <2>6. n = q
    <3>1. PICK a, b, c, d : a = r.next /\ b = r.failed /\ c = r.never /\ d = r.since
      OBVIOUS
    <3>2. r = [pc |-> "read", next |-> a, failed |-> b, never |-> c, since |-> d]
      BY <2>4, <3>1, Zenon
    <3>3. q = [pc |-> "read", next |-> k, failed |-> failed, never |-> never, since |-> d]
      BY <2>5, <3>1
    <3>4. PICK F : F = {"pc", "next", "failed", "never", "since"}
      OBVIOUS
    <3>5. n = [x \in F |-> n[x]]
      BY <2>2, <3>2, <3>4
    <3>6. n.pc = "read" /\ n.next = k /\ n.failed = failed /\ n.never = never /\ n.since = d
      BY <2>2, <3>2
    <3>7. q = [x \in F |-> q[x]]
      BY <3>3, <3>4
    <3>8. q.pc = "read" /\ q.next = k /\ q.failed = failed /\ q.never = never /\ q.since = d
      BY <3>3
    <3>9. \A x \in F : n[x] = q[x]
      BY <3>4, <3>6, <3>8
    <3>10. [x \in F |-> n[x]] = [x \in F |-> q[x]]
      BY <3>9
    <3> QED BY <3>5, <3>7, <3>10, Zenon
  <2>7. /\ q = [pc |-> "read", next |-> q.next, failed |-> q.failed, never |-> q.never, since |-> q.since]
        /\ q.next = k /\ q.failed = failed /\ q.never = never /\ q.since = r.since
    BY <2>5
  <2>8. k \in 1 .. Len(Ledgers) /\ k - 1 = r.next
    BY <1>8, <1>10, <2>1
  <2>9. ReadsOn(q)
    BY <1>2, <1>9, <2>7, <2>8 DEF ReadsOn
  <2>10. RowsStep
    BY <1>7, RowsRest
  <2>11. ReadsOn(q)'
    BY <2>9, <2>10, ReadsOnStays
  <2>12. ReadsOn(reading)'
    BY <2>3, <2>6, <2>11 DEF ReadsOn, LedgersTo, FailedNow, NeverNow, EndedStays
  <2> QED BY <2>12 DEF ReadingIs
<1>11. CASE ~(r.next < Len(Ledgers))
  <2>1. PICK q : q = [pc |-> "told", answer |-> Answer(failed, never), torn |-> Told /= r.since,
                      truth |-> PageGate(trial)]
    OBVIOUS
  <2>2. reading' = q
    BY <1>6, <1>11, <2>1
  <2>3. /\ q.answer = Answer(failed, never) /\ q.truth = PageGate(trial) /\ (Told /= r.since => q.torn)
        /\ q = [pc |-> "told", answer |-> q.answer, torn |-> q.torn, truth |-> q.truth]
    BY <2>1
  <2>4. LedgersTo(r.next) = Named
    <3>1. r.next = Len(Ledgers) /\ DOMAIN Ledgers = 1 .. Len(Ledgers)
      BY <1>8, <1>11, EvalAssumption
    <3> QED BY <3>1 DEF LedgersTo, Named
  <2>5. Told = r.since => Answer(failed, never) = PageGate(trial)
    BY <1>9, <2>4, PageGateOfAll
  <2>6. HasRead(q)
    BY <2>3, <2>5 DEF HasRead
  <2>7. HasRead(reading)'
    BY <2>2, <2>6 DEF HasRead
  <2> QED BY <2>7 DEF ReadingIs
<1> QED BY <1>10, <1>11
-----------------------------------------------------------------------------

\* The newest load that was asked for, or the one that has come, holds the rows the page started,
\* or the page says that a load failed; as long as a listing holds every row there is.
LoadsAre ==
  /\ console = [x \in {"rows", "asked", "own", "error"} |-> console[x]] /\ looks \in Nat /\ console.own \subseteq Trials
  /\ \A a \in console.asked : a.no \in Nat /\ a.no < looks
ListingHoldsAll == MaxTrials \in Nat /\ MaxTrials <= Window
OwnIsShown ==
  "load" \in crossed \/ console.error \/
    /\ console.asked = {} => console.own \subseteq DOMAIN console.rows
    /\ \A a \in console.asked : (\A b \in console.asked : b.no <= a.no) => console.own \subseteq DOMAIN a.rows
ShownWithin == ListingHoldsAll => Len(trial) <= MaxTrials /\ OwnIsShown

LEMMA LoadsRest ==
  ASSUME LoadsAre, ShownWithin, RowsStep, crossed \subseteq crossed', UNCHANGED <<console, looks>>,
         ListingHoldsAll => Len(trial') <= MaxTrials
  PROVE  LoadsAre' /\ ShownWithin'
<1>1. LoadsAre'
  BY DEF LoadsAre, RowsStep
<1>2. ListingHoldsAll => OwnIsShown'
  BY DEF ShownWithin, OwnIsShown
<1> QED BY <1>1, <1>2 DEF ShownWithin, ListingHoldsAll

LEMMA LoadsMore ==
  ASSUME LoadsAre, ShownWithin, TrialsHold, UNCHANGED <<trial, crossed>>, NEW own, own \subseteq Trials, Loads(own)
  PROVE  LoadsAre' /\ ShownWithin'
<1>1. PICK l : l = [no |-> looks, rows |-> Listed]
  OBVIOUS
<1>2. l.no = looks /\ l.rows = Listed /\ looks \in Nat
  BY <1>1 DEF LoadsAre
<1>3. PICK asked : asked = console.asked \cup {l}
  OBVIOUS
<1>4. PICK mine : mine = console.own \cup own
  OBVIOUS
<1>5. console' = [console EXCEPT !.asked = asked, !.own = mine, !.error = FALSE] /\ looks' = looks + 1
  BY <1>1, <1>3, <1>4 DEF Loads
<1>6. console = [x \in {"rows", "asked", "own", "error"} |-> console[x]]
  BY DEF LoadsAre
<1>7. console'.asked = asked /\ console'.own = mine /\ console'.rows = console.rows
      /\ console' = [x \in {"rows", "asked", "own", "error"} |-> console'[x]]
  BY <1>5, <1>6
<1>8. \A a \in asked : a.no \in Nat /\ a.no <= looks
  BY <1>2, <1>3 DEF LoadsAre
<1>9. mine \subseteq Trials /\ Trials' = Trials
  BY <1>4 DEF LoadsAre, Trials
<1>10. LoadsAre'
  BY <1>2, <1>5, <1>7, <1>8, <1>9 DEF LoadsAre
<1>11. ASSUME ListingHoldsAll PROVE OwnIsShown'
  <2>1. Len(trial) <= MaxTrials
    BY <1>11 DEF ShownWithin
  <2>2. DOMAIN Listed = Trials
    <3>1. DOMAIN Listed = {j \in Trials : j + Window > Len(trial)}
      BY DEF Listed
    <3>2. \A j \in Trials : j + Window > Len(trial)
      BY <1>11, <2>1, EvalAssumption DEF ListingHoldsAll, TrialsHold, Trials
    <3> QED BY <3>1, <3>2
  <2>3. asked /= {}
    BY <1>3
  <2>4. SUFFICES ASSUME NEW a \in asked, \A b \in asked : b.no <= a.no PROVE mine \subseteq DOMAIN a.rows
    BY <1>7, <2>3 DEF OwnIsShown
  <2>5. a = l
    <3>1. l.no <= a.no
      BY <1>3, <2>4
    <3>2. a \in console.asked => a.no \in Nat /\ a.no < looks
      BY DEF LoadsAre
    <3> QED BY <1>2, <1>3, <2>4, <3>1, <3>2
  <2> QED BY <1>2, <1>9, <2>2, <2>5
<1> QED BY <1>10, <1>11 DEF ShownWithin, ListingHoldsAll

LEMMA ShowsOne ==
  ASSUME LoadsAre, ShownWithin, NEW load \in console.asked, ConsoleShows(load)
  PROVE  LoadsAre' /\ ShownWithin'
<1>1. PICK asked : asked = console.asked \ {load}
  OBVIOUS
<1>2. console' = [console EXCEPT !.rows = load.rows, !.asked = asked] /\ trial' = trial /\ looks' = looks
  BY <1>1 DEF ConsoleShows
<1>3. console = [x \in {"rows", "asked", "own", "error"} |-> console[x]]
  BY DEF LoadsAre
<1>4. console'.asked = asked /\ console'.own = console.own /\ console'.rows = load.rows
      /\ console'.error = console.error
      /\ console' = [x \in {"rows", "asked", "own", "error"} |-> console'[x]]
  BY <1>2, <1>3
<1>5. \A a \in asked : a.no \in Nat /\ a.no < looks
  BY <1>1 DEF LoadsAre
<1>6. LoadsAre'
  BY <1>2, <1>4, <1>5 DEF LoadsAre, Trials
<1>7. ASSUME ListingHoldsAll, "load" \notin crossed', ~console.error
      PROVE  /\ asked = {} => console.own \subseteq DOMAIN load.rows
             /\ \A a \in asked : (\A b \in asked : b.no <= a.no) => console.own \subseteq DOMAIN a.rows
  <2>1. "load" \notin crossed /\ \A o \in console.asked : ~(o.no < load.no)
    BY <1>7 DEF ConsoleShows
  <2>2. \A a \in console.asked : (\A b \in console.asked : b.no <= a.no) => console.own \subseteq DOMAIN a.rows
    BY <1>7, <2>1 DEF ShownWithin, OwnIsShown
  <2>3. load.no \in Nat /\ \A a \in asked : load.no <= a.no
    BY <1>1, <1>5, <2>1 DEF LoadsAre
  <2>4. asked = {} => console.own \subseteq DOMAIN load.rows
    BY <1>1, <2>2, <2>3
  <2>5. \A a \in asked : (\A b \in asked : b.no <= a.no) => console.own \subseteq DOMAIN a.rows
    BY <1>1, <2>2, <2>3
  <2> QED BY <2>4, <2>5
<1>8. ListingHoldsAll => OwnIsShown'
  BY <1>4, <1>7 DEF OwnIsShown
<1> QED BY <1>2, <1>6, <1>8 DEF ShownWithin, ListingHoldsAll

LEMMA FailsOne ==
  ASSUME LoadsAre, ShownWithin, NEW load \in console.asked, ConsoleFails(load)
  PROVE  LoadsAre' /\ ShownWithin'
<1>1. PICK asked : asked = console.asked \ {load}
  OBVIOUS
<1>2. console' = [console EXCEPT !.asked = asked, !.error = TRUE] /\ trial' = trial /\ looks' = looks
  BY <1>1 DEF ConsoleFails
<1>3. console = [x \in {"rows", "asked", "own", "error"} |-> console[x]]
  BY DEF LoadsAre
<1>4. console'.asked = asked /\ console'.own = console.own /\ console'.error
      /\ console' = [x \in {"rows", "asked", "own", "error"} |-> console'[x]]
  BY <1>2, <1>3
<1>5. \A a \in asked : a.no \in Nat /\ a.no < looks
  BY <1>1 DEF LoadsAre
<1>6. LoadsAre'
  BY <1>2, <1>4, <1>5 DEF LoadsAre, Trials
<1>7. ListingHoldsAll => OwnIsShown'
  BY <1>4 DEF OwnIsShown
<1> QED BY <1>2, <1>6, <1>7 DEF ShownWithin, ListingHoldsAll

EvalInv == TrialsHold /\ StartersAre /\ Alone /\ ReadingIs /\ LoadsAre /\ ShownWithin

LEMMA EvalStarts == EvalInit => EvalInv
<1> SUFFICES ASSUME EvalInit PROVE EvalInv
  OBVIOUS
<1>1. trial = <<>> /\ Trials = {} /\ Len(trial) = 0
  BY DEF EvalInit, Trials
<1>2. TrialsHold
  BY <1>1 DEF TrialsHold
<1>3. StartersAre
  <2>1. NoStart \notin Making
    BY DEF NoStart, Making
  <2> QED BY <2>1 DEF EvalInit, StartersAre
<1>4. Alone
  BY <1>1 DEF EvalInit, Alone, Open, Holds, Checking, NoStart
<1>5. ReadingIs
  BY DEF EvalInit, ReadingIs
<1>6. console = [x \in {"rows", "asked", "own", "error"} |-> console[x]] /\ console.asked = {} /\ console.own = {}
  BY DEF EvalInit
<1>7. LoadsAre
  BY <1>6 DEF EvalInit, LoadsAre
<1>8. ShownWithin
  BY <1>1, <1>6 DEF ShownWithin, ListingHoldsAll, OwnIsShown
<1> QED BY <1>2, <1>3, <1>4, <1>5, <1>7, <1>8 DEF EvalInv

\* A step of a driver, of the digitizer or of the clock leaves the rest alone.
LEMMA DriverStep ==
  ASSUME EvalInv, RowsStep, Trials' = Trials, UNCHANGED <<starter, reading, console, looks, crossed>>
  PROVE  EvalInv'
<1>1. TrialsHold'
  BY DEF RowsStep
<1>2. StartersAre' /\ Alone'
  BY StartersRest DEF EvalInv
<1>3. ReadingIs'
  BY ReadingRests DEF EvalInv
<1>4. Len(trial') = Len(trial)
  BY <1>1 DEF EvalInv, TrialsHold, Trials
<1>5. LoadsAre' /\ ShownWithin'
  BY <1>4, LoadsRest DEF EvalInv, ShownWithin
<1> QED BY <1>1, <1>2, <1>3, <1>5 DEF EvalInv

LEMMA StarterSteps ==
  ASSUME EvalInv, NEW s \in Starters, StartRuns(s) \/ MakeTrial(s) \/ StartFails(s) \/ Started(s)
  PROVE  EvalInv'
<1>1. CASE StartRuns(s)
  <2>1. RowsStep /\ UNCHANGED <<trial, reading, console, looks>> /\ crossed \subseteq crossed'
    BY <1>1, RowsRest DEF EvalInv, StartRuns
  <2>2. StartersAre' /\ Alone'
    BY <1>1, StartRunsAlone DEF EvalInv
  <2>3. ReadingIs' /\ LoadsAre' /\ ShownWithin'
    BY <2>1, ReadingRests, LoadsRest DEF EvalInv, ShownWithin
  <2> QED BY <2>1, <2>2, <2>3 DEF EvalInv, RowsStep
<1>2. CASE MakeTrial(s)
  <2>1. RowsStep /\ StartersAre' /\ Alone'
    BY <1>2, MakeTrialAlone DEF EvalInv
  <2>2. UNCHANGED <<reading, console, looks, crossed>>
    BY <1>2 DEF MakeTrial
  <2>3. Len(trial) < MaxTrials /\ \E l \in starter[s].left : trial' = Append(trial, NewTrial(l))
    BY <1>2 DEF MakeTrial
  <2>4. Len(trial) \in Nat /\ Len(trial') = Len(trial) + 1
    BY <2>3 DEF EvalInv, TrialsHold
  <2>5. ListingHoldsAll => Len(trial') <= MaxTrials
    BY <2>3, <2>4 DEF ListingHoldsAll
  <2>6. ReadingIs' /\ LoadsAre' /\ ShownWithin'
    BY <2>1, <2>2, <2>5, ReadingRests, LoadsRest DEF EvalInv
  <2> QED BY <2>1, <2>6 DEF EvalInv, RowsStep
<1>3. CASE StartFails(s)
  <2>1. RowsStep /\ Trials' = Trials /\ UNCHANGED <<trial, reading, console, looks, crossed>>
    BY <1>3, RowsRest DEF EvalInv, StartFails
  <2>2. starter[s] \in Making /\ starter' = [starter EXCEPT ![s].left = {}]
    BY <1>3, StarterOf DEF EvalInv, StartFails
  <2>3. StartersAre' /\ Alone'
    BY <2>1, <2>2, StarterEnds DEF EvalInv
  <2>4. ReadingIs' /\ LoadsAre' /\ ShownWithin'
    BY <2>1, ReadingRests, LoadsRest DEF EvalInv, ShownWithin
  <2> QED BY <2>1, <2>3, <2>4 DEF EvalInv, RowsStep
<1>4. CASE Started(s)
  <2>1. RowsStep /\ Trials' = Trials /\ UNCHANGED <<trial, reading, crossed>>
    BY <1>4, RowsRest DEF EvalInv, Started
  <2>2. starter[s] \in Making /\ starter[s].made \subseteq Trials
    BY <1>4, StarterOf DEF EvalInv, Started
  <2>3. starter' = [starter EXCEPT ![s] = Gone]
    BY <1>4 DEF Started, Gone
  <2>4. StartersAre' /\ Alone'
    BY <2>1, <2>2, <2>3, StarterEnds DEF EvalInv
  <2>5. Loads(starter[s].made)
    BY <1>4 DEF Started
  <2>6. LoadsAre' /\ ShownWithin'
    BY <2>1, <2>2, <2>5, LoadsMore DEF EvalInv
  <2>7. ReadingIs'
    BY <2>1, ReadingRests DEF EvalInv
  <2> QED BY <2>1, <2>4, <2>6, <2>7 DEF EvalInv, RowsStep
<1> QED BY <1>1, <1>2, <1>3, <1>4

LEMMA RowSteps ==
  ASSUME EvalInv, NEW i \in Trials,
         \/ BeginTrial(i) \/ CopyVolume(i) \/ Ingested(i) \/ ReadVolume(i) \/ BarVolume(i)
         \/ CompleteRecord(i) \/ Analysed(i) \/ CostLands(i) \/ Score(i) \/ Audited(i) \/ TrialFails(i)
  PROVE  EvalInv'
<1>1. Moved(i)
  BY BeginTrialMoves, CopyVolumeMoves, IngestedMoves, ReadVolumeMoves, BarVolumeMoves, CompleteRecordMoves,
     AnalysedMoves, CostLandsMoves, ScoreMoves, AuditedMoves, TrialFailsMoves DEF EvalInv
<1>2. UNCHANGED <<starter, reading, console, looks, crossed>>
  BY DEF BeginTrial, CopyVolume, Ingested, ReadVolume, BarVolume, CompleteRecord, Analysed, CostLands, Score,
         Audited, TrialFails, Others
<1>3. RowsStep /\ Trials' = Trials
  BY <1>1, MovedStep DEF EvalInv
<1> QED BY <1>2, <1>3, DriverStep

LEMMA EvalSteps == EvalInv /\ [EvalNext]_evalVars => EvalInv'
<1> SUFFICES ASSUME EvalInv, [EvalNext]_evalVars PROVE EvalInv'
  OBVIOUS
<1>1. ASSUME NEW s \in Starters, StartRuns(s) \/ MakeTrial(s) \/ StartFails(s) \/ Started(s) PROVE EvalInv'
  BY <1>1, StarterSteps
<1>2. ASSUME NEW i \in Trials,
             \/ BeginTrial(i) \/ CopyVolume(i) \/ Ingested(i) \/ ReadVolume(i) \/ BarVolume(i)
             \/ CompleteRecord(i) \/ Analysed(i) \/ CostLands(i) \/ Score(i) \/ Audited(i) \/ TrialFails(i)
      PROVE  EvalInv'
  BY <1>2, RowSteps
<1>3. CASE EvalRestart
  <2>1. RowsStep /\ Trials' = Trials /\ StartersAre' /\ Alone'
    BY <1>3, RestartAlone DEF EvalInv
  <2>2. (reading' = NoReading \/ reading' = reading) /\ UNCHANGED <<console, looks, crossed>>
    BY <1>3 DEF EvalRestart
  <2>3. ReadingIs'
    BY <2>1, <2>2, ReadingRests DEF EvalInv
  <2>4. Len(trial') = Len(trial)
    BY <2>1 DEF EvalInv, RowsStep, TrialsHold, Trials
  <2>5. LoadsAre' /\ ShownWithin'
    BY <2>1, <2>2, <2>4, LoadsRest DEF EvalInv, ShownWithin
  <2> QED BY <2>1, <2>3, <2>5 DEF EvalInv, RowsStep
<1>4. CASE RowsAge
  <2>1. RowsStep /\ Trials' = Trials
    BY <1>4, AgeStep DEF EvalInv
  <2>2. UNCHANGED <<starter, reading, console, looks, crossed>>
    BY <1>4 DEF RowsAge, Others
  <2> QED BY <2>1, <2>2, DriverStep
<1>5. CASE AskGate \/ ReadLedger
  <2>1. UNCHANGED <<trial, starter, console, looks, crossed>>
    BY <1>5 DEF AskGate, ReadLedger
  <2>2. RowsStep /\ Trials' = Trials
    BY <2>1, RowsRest DEF EvalInv
  <2>3. ReadingIs'
    BY <1>5, AskGateReads, ReadLedgerReads DEF EvalInv
  <2>4. StartersAre' /\ Alone'
    BY <2>1, <2>2, StartersRest DEF EvalInv
  <2>5. LoadsAre' /\ ShownWithin'
    BY <2>1, <2>2, LoadsRest DEF EvalInv, ShownWithin
  <2> QED BY <2>2, <2>3, <2>4, <2>5 DEF EvalInv, RowsStep
<1>6. CASE OpenConsole
  <2>1. UNCHANGED <<trial, starter, reading, crossed>> /\ Loads({})
    BY <1>6 DEF OpenConsole
  <2>2. RowsStep /\ Trials' = Trials
    BY <2>1, RowsRest DEF EvalInv
  <2>3. StartersAre' /\ Alone' /\ ReadingIs'
    BY <2>1, <2>2, StartersRest, ReadingRests DEF EvalInv
  <2>4. LoadsAre' /\ ShownWithin'
    BY <2>1, LoadsMore DEF EvalInv
  <2> QED BY <2>2, <2>3, <2>4 DEF EvalInv, RowsStep
<1>7. ASSUME NEW load \in console.asked, ConsoleShows(load) PROVE EvalInv'
  <2>1. UNCHANGED <<trial, starter, reading>> /\ crossed \subseteq crossed'
    BY <1>7 DEF ConsoleShows
  <2>2. RowsStep /\ Trials' = Trials
    BY <2>1, RowsRest DEF EvalInv
  <2>3. StartersAre'
    BY <2>1, <2>2 DEF EvalInv, StartersAre
  <2>4. \A s \in Starters, l \in Named : Holds(s, l)' => Holds(s, l)
    BY <2>1 DEF Holds, Checking
  <2>5. Alone'
    BY <2>1, <2>2, <2>4, OpenShrinks, AloneStays DEF EvalInv
  <2>6. ReadingIs'
    BY <2>1, <2>2, ReadingRests DEF EvalInv
  <2>7. LoadsAre' /\ ShownWithin'
    BY <1>7, ShowsOne DEF EvalInv
  <2> QED BY <2>2, <2>3, <2>5, <2>6, <2>7 DEF EvalInv, RowsStep
<1>8. ASSUME NEW load \in console.asked, ConsoleFails(load) PROVE EvalInv'
  <2>1. UNCHANGED <<trial, starter, reading, crossed>>
    BY <1>8 DEF ConsoleFails
  <2>2. RowsStep /\ Trials' = Trials
    BY <2>1, RowsRest DEF EvalInv
  <2>3. StartersAre' /\ Alone' /\ ReadingIs'
    BY <2>1, <2>2, StartersRest, ReadingRests DEF EvalInv
  <2>4. LoadsAre' /\ ShownWithin'
    BY <1>8, FailsOne DEF EvalInv
  <2> QED BY <2>2, <2>3, <2>4 DEF EvalInv, RowsStep
<1>9. CASE UNCHANGED evalVars
  <2>1. UNCHANGED <<trial, starter, reading, console, looks, crossed>>
    BY <1>9 DEF evalVars
  <2>2. RowsStep /\ Trials' = Trials
    BY <2>1, RowsRest DEF EvalInv
  <2> QED BY <2>1, <2>2, DriverStep
<1> QED BY <1>1, <1>2, <1>3, <1>4, <1>5, <1>6, <1>7, <1>8, <1>9 DEF EvalNext

\* Every row of every evaluation run, every start, the reading of the gate and every load of the
\* console are as the rules above say.
THEOREM EvalHolds == EvalSpec => []EvalInv
BY EvalStarts, EvalSteps, PTL DEF EvalSpec

LEMMA ScoredFromRows == EvalInv => ScoredOnWholeRecord
<1> SUFFICES ASSUME EvalInv, NEW i \in Trials, trial[i].status = "SCORED"
             PROVE  /\ trial[i].seen + trial[i].barred = Volumes
                    /\ trial[i].pass => trial[i].found = Volumes /\ (trial[i].cost < Floor \/ trial[i].late)
  BY DEF ScoredOnWholeRecord
<1>1. TrialHolds(trial[i])
  BY RowOf DEF EvalInv
<1> QED BY <1>1 DEF TrialHolds

LEMMA OneFromAlone == EvalInv => OneOpenRun
<1> SUFFICES ASSUME EvalInv, NEW l \in Named, l \notin crossed PROVE Cardinality(Open(l)) <= 1
  BY DEF OneOpenRun
<1>1. \A i, j \in Open(l) : i = j
  BY DEF EvalInv, Alone
<1>2. CASE Open(l) = {}
  BY <1>2, FS_EmptySet
<1>3. CASE Open(l) /= {}
  <2>1. PICK i : Open(l) = {i}
    BY <1>1, <1>3
  <2>2. Cardinality({i}) = 1
    BY FS_Singleton
  <2> QED BY <2>1, <2>2
<1> QED BY <1>2, <1>3

LEMMA OneFromReading == EvalInv /\ ListingHoldsAll => GateIsOne
<1> SUFFICES ASSUME EvalInv, ListingHoldsAll PROVE GateIsOne
  OBVIOUS
<1>1. reading.pc = "told" => reading.torn \/ reading.answer = reading.truth
  BY DEF EvalInv, ReadingIs, ReadsOn, HasRead, NoReading
<1>2. console.asked = {} => console.own \subseteq DOMAIN console.rows \/ console.error \/ "load" \in crossed
  BY DEF EvalInv, ShownWithin, OwnIsShown
<1> QED BY <1>1, <1>2 DEF GateIsOne

\* A row that was scored had every volume of its record read or barred before its analysis began,
\* one that passed found every canary within its margin, and a ledger has one open run unless two
\* starts found it free together; and the Today page's gate is the console's, unless rows changed
\* between the readings of two ledgers: whatever the number of ledgers, volumes, rows, starts,
\* restarts and failures (driveEvalRun, startEvalRuns, evalGateStatus).
THEOREM RunsAreSound ==
  EvalSpec => [](ScoredOnWholeRecord /\ OneOpenRun /\ (reading.pc = "told" => reading.torn \/ reading.answer = reading.truth))
<1>1. EvalInv => (reading.pc = "told" => reading.torn \/ reading.answer = reading.truth)
  BY DEF EvalInv, ReadingIs, ReadsOn, HasRead, NoReading
<1>2. EvalInv =>
        ScoredOnWholeRecord /\ OneOpenRun /\ (reading.pc = "told" => reading.torn \/ reading.answer = reading.truth)
  BY <1>1, ScoredFromRows, OneFromAlone
<1> QED BY <1>2, EvalHolds, PTL

\* And a console that has stopped asking shows the runs it started or says that a load failed,
\* unless an older listing came last, as long as the rows there are fit into a listing (listEvalRuns takes 200 of them; MaxTrials
\* bounds the rows).
THEOREM GateIsAlwaysEarned == ASSUME MaxTrials \in Nat, MaxTrials <= Window PROVE EvalSpec => []GateIsEarned
<1>1. ListingHoldsAll
  BY DEF ListingHoldsAll
<1>2. EvalInv => GateIsEarned
  BY <1>1, ScoredFromRows, OneFromAlone, OneFromReading DEF GateIsEarned
<1> QED BY <1>2, EvalHolds, PTL
=================================================================================
