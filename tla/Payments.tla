-------------------------------- MODULE Payments --------------------------------
(***************************************************************************)
(* The money of one case: the checkout sessions paid at Stripe for it, their *)
(* fulfilment (fulfillCheckoutSession, reached from the webhook, the hourly *)
(* sweep and the success page), refunds from the console (issueRefund), from *)
(* the Stripe dashboard and from lost disputes, and the ledger they leave. *)
(*                                                                         *)
(* Every handler is a sequence of steps, one per await that reads or writes *)
(* what another handler can change; a transaction is one step, its commit. *)
(* A unique index is checked there, and a violation makes the handler throw. *)
(***************************************************************************)
EXTENDS Naturals, FiniteSets, Sequences

CONSTANTS
  Review,             \* the session that buys the review, and with it the case
  Reruns, Overages,   \* the sessions that attach to that case
  Price,              \* what each of them costs
  Contested,          \* the sessions whose money somebody may want back
  CaseEnds,           \* what becomes of the case: "READY", "GONE"
  Handlers, Sweeper,  \* requests and webhook deliveries; the hourly sweep
  Intents,            \* the refunds the operator decides on
  MaxRefunds,         \* bound on refunds of the Stripe dashboard
  MaxFaults           \* bound on handlers that die half-way

Sessions == {Review} \cup Reruns \cup Overages
Processes == Handlers \cup {Sweeper}

ASSUME PaymentsAssumption ==
  /\ Review \notin Reruns \cup Overages /\ Reruns \cap Overages = {}
  /\ Contested \subseteq {Review} \cup Reruns \cup Overages
  /\ CaseEnds \subseteq {"READY", "GONE"}
  /\ Price \in Nat \ {0} /\ MaxRefunds \in Nat /\ MaxFaults \in Nat
  /\ Sweeper \notin Handlers

VARIABLES
  paid,       \* Stripe: the sessions that are paid
  refunds,    \* Stripe: the refunds made, by id, with their idempotency keys
  returned,   \* Stripe: how much of each session's charge went back
  disputes,   \* Stripe: the dispute of each session's charge
  ledger,     \* PaymentEvent rows: the events seen
  payment,    \* Payment rows by session
  refundIds,  \* the unique index of the Refund rows
  booked,     \* the sum of the Refund rows of each payment
  purchases,  \* payment.succeeded and rerun.purchased events of each session
  caseStatus, \* the case
  intent,     \* what the operator wants, and whether the console showed it done
  handler,    \* the handlers in flight
  faults      \* used up bound

vars == <<paid, refunds, returned, disputes, ledger, payment, refundIds, booked,
          purchases, caseStatus, intent, handler, faults>>

stripe == <<paid, refunds, returned, disputes>>
books == <<payment, refundIds, booked, purchases, caseStatus>>

None == "none"
NoPayment == [made |-> FALSE, refunded |-> 0, dispute |-> None]
NoIntent == [state |-> "new", session |-> Review, amount |-> 0]
RefundId(i) == [type |-> "refund", of |-> i]
DisputeId(s) == [type |-> "dispute", of |-> s]

\* A handler: the session it works on, the refund it is about to book, the
\* rollup it read, what is left of its loop, and the intent it serves.
Idle == [pc |-> "idle", session |-> Review, id |-> RefundId(0), amount |-> 0,
         saw |-> 0, reopens |-> FALSE, todo |-> {}, for |-> None]

Remaining(p) == IF p.refunded < Price THEN Price - p.refunded ELSE 0

\* The case as the commerce code sees it: no case, open for documents (and being
\* worked on), finished, refunded, or deleted.
CaseStates == {None, "AWAITING_DOCS", "READY", "REFUNDED", "GONE"}

At(h, pc) == handler[h].pc = pc
Step(h, r) == handler' = [handler EXCEPT ![h] = r]

\* The handler ends by a throw: a console call fails in the operator's hands.
Throw(h) ==
  /\ Step(h, Idle)
  /\ intent' = [i \in Intents |-> IF i = handler[h].for
                                  THEN [intent[i] EXCEPT !.state = "failed"] ELSE intent[i]]

\* A session is done: the sweep goes on to its next one.
Finished(h) == IF h = Sweeper THEN [handler[h] EXCEPT !.pc = "sweep"] ELSE Idle

-------------------------------------------------------------------------------
(* Stripe, the family and the pipeline                                     *)

\* Sessions that attach to a case are only created for a case there is.
Pay(s) ==
  /\ s \notin paid /\ (s # Review => caseStatus # None)
  /\ paid' = paid \cup {s}
  /\ UNCHANGED <<refunds, returned, disputes, ledger, books, intent, handler, faults>>

\* Stripe refuses to return more than the charge.
Return(s, amount, key, i) ==
  /\ returned[s] + amount <= Price
  /\ returned' = [returned EXCEPT ![s] = @ + amount]
  /\ refunds' = Append(refunds, [session |-> s, amount |-> amount, key |-> key, for |-> i])
  /\ UNCHANGED <<paid, disputes>>

NoKey == <<>>

DashboardRefund(s, amount) ==
  /\ s \in paid /\ Cardinality({i \in DOMAIN refunds : refunds[i].key = NoKey}) < MaxRefunds
  /\ Return(s, amount, NoKey, None)
  /\ UNCHANGED <<ledger, books, intent, handler, faults>>

Dispute(s, outcome) ==
  /\ s \in paid
  /\ \/ disputes[s] = None /\ outcome = "open"
     \/ disputes[s] = "open" /\ outcome \in {"won", "lost"}
  /\ disputes' = [disputes EXCEPT ![s] = outcome]
  /\ UNCHANGED <<paid, refunds, returned, ledger, books, intent, handler, faults>>

\* The pipeline delivers the report; the family deletes the case.
CaseMoves ==
  /\ caseStatus' \in CaseEnds
  /\ \/ caseStatus = "AWAITING_DOCS" /\ caseStatus' = "READY"
     \/ caseStatus \notin {None, "GONE"} /\ caseStatus' = "GONE"
  /\ UNCHANGED <<stripe, ledger, payment, refundIds, booked, purchases, intent, handler, faults>>

-------------------------------------------------------------------------------
(* handleStripeEvent                                                       *)

\* The events Stripe has sent: it delivers each any number of times, in any order.
Sent ==
  [type : {"completed"}, of : paid]
    \cup [type : {"refunded"}, of : DOMAIN refunds]
    \cup [type : {"created"}, of : {s \in Sessions : disputes[s] # None}]
    \cup [type : {"closed"}, of : {s \in Sessions : disputes[s] \in {"won", "lost"}}]

Subject(e) == IF e.type = "refunded" THEN refunds[e.of].session ELSE e.of

Entry == [completed |-> "fulfil", refunded |-> "charge", created |-> "created", closed |-> "closed"]

\* The PaymentEvent row commits first; a later delivery of the event meets it and
\* is acknowledged as a duplicate, whatever became of the first.
HandleStripeEvent(h, e) ==
  /\ At(h, "idle") /\ e \in Sent \ ledger
  /\ ledger' = ledger \cup {e}
  /\ Step(h, [Idle EXCEPT !.pc = Entry[e.type], !.session = Subject(e)])
  /\ UNCHANGED <<stripe, books, intent, faults>>

-------------------------------------------------------------------------------
(* fulfillCheckoutSession                                                  *)

\* The success page's poll asks Stripe itself when there is no payment yet.
SelfHeal(h, s) ==
  /\ At(h, "idle") /\ s \in paid /\ ~payment[s].made
  /\ Step(h, [Idle EXCEPT !.pc = "fulfil", !.session = s])
  /\ UNCHANGED <<stripe, ledger, books, intent, faults>>

UnfulfilledFlawed == {s \in paid : s = Review /\ ~payment[s].made}

\* reconcilePayments lists the paid sessions and goes through them; a session
\* that has its payment is skipped whenever the sweep gets there.
Unfulfilled == {s \in paid : ~payment[s].made}

SweepBegin ==
  /\ At(Sweeper, "idle") /\ Unfulfilled # {}
  /\ Step(Sweeper, [Idle EXCEPT !.pc = "sweep", !.todo = Unfulfilled])
  /\ UNCHANGED <<stripe, ledger, books, intent, faults>>

SweepNext ==
  /\ At(Sweeper, "sweep")
  /\ \/ handler[Sweeper].todo = {} /\ Step(Sweeper, Idle)
     \/ \E s \in handler[Sweeper].todo :
          Step(Sweeper, [handler[Sweeper] EXCEPT !.pc = "fulfil", !.session = s, !.todo = @ \ {s}])
  /\ UNCHANGED <<stripe, ledger, books, intent, faults>>

\* Already fulfilled, or no case to attach to: skipped.
Skipped(s) == payment[s].made \/ (s # Review /\ caseStatus \in {None, "GONE"})

FulfillRead(h) ==
  /\ At(h, "fulfil")
  /\ LET s == handler[h].session IN
       Step(h, IF Skipped(s) THEN Finished(h)
               ELSE [handler[h] EXCEPT !.pc = "grant",
                                       !.reopens = s \in Reruns /\ caseStatus = "READY"])
  /\ UNCHANGED <<stripe, ledger, books, intent, faults>>

ConflictsFlawed(h) == handler[h].reopens /\ caseStatus # "READY"

\* Payment.stripeId is unique, and READY is the only state to reopen from.
Conflicts(h) ==
  \/ payment[handler[h].session].made
  \/ handler[h].reopens /\ caseStatus # "READY"

\* One transaction: the payment, its event, and the case it creates or reopens.
Grant(h, s) ==
  /\ payment' = [payment EXCEPT ![s].made = TRUE]
  /\ purchases' = [purchases EXCEPT ![s] = @ + 1]
  /\ caseStatus' = IF s = Review \/ handler[h].reopens THEN "AWAITING_DOCS" ELSE caseStatus
  /\ UNCHANGED <<refundIds, booked>>

FulfillCommit(h) ==
  /\ At(h, "grant")
  /\ \/ Conflicts(h) /\ Throw(h) /\ UNCHANGED books
     \/ /\ ~Conflicts(h) /\ Grant(h, handler[h].session)
        /\ Step(h, Finished(h)) /\ UNCHANGED intent
  /\ UNCHANGED <<stripe, ledger, faults>>

-------------------------------------------------------------------------------
(* issueRefund                                                             *)

\* The console asks again only after a failure; amount 0 is "the rest".
Wanted(i, s, amount) ==
  \/ intent[i].state = "new"
  \/ intent[i] = [state |-> "failed", session |-> s, amount |-> amount]

Refundable(p) == p.made /\ p.dispute # "open" /\ Remaining(p) > 0

IssueRefund(h, i, s, amount) ==
  /\ At(h, "idle") /\ Wanted(i, s, amount)
  /\ Refundable(payment[s]) /\ amount <= Remaining(payment[s])
  /\ intent' = [intent EXCEPT ![i] = [state |-> "asked", session |-> s, amount |-> amount]]
  /\ Step(h, [Idle EXCEPT !.pc = "create", !.session = s, !.for = i, !.saw = payment[s].refunded,
                          !.amount = IF amount = 0 THEN Remaining(payment[s]) ELSE amount])
  /\ UNCHANGED <<stripe, ledger, books, faults>>

\* refund:<payment>:<the rollup read>:<amount>
IdempotencyKey(h) == <<handler[h].session, handler[h].saw, handler[h].amount>>

MadeUnder(key) == {i \in DOMAIN refunds : refunds[i].key = key}

\* Stripe answers a known key with the refund it made for it.
CreateRefund(h) ==
  /\ At(h, "create")
  /\ LET s == handler[h].session
         key == IdempotencyKey(h)
         Booking(id) == [handler[h] EXCEPT !.pc = "book", !.id = RefundId(id)]
     IN \/ /\ \E id \in MadeUnder(key) : Step(h, Booking(id))
           /\ UNCHANGED <<stripe, intent>>
        \/ /\ MadeUnder(key) = {}
           /\ Return(s, handler[h].amount, key, handler[h].for)
           /\ Step(h, Booking(Len(refunds) + 1)) /\ UNCHANGED intent
        \/ /\ MadeUnder(key) = {} /\ returned[s] + handler[h].amount > Price
           /\ Throw(h) /\ UNCHANGED stripe
  /\ UNCHANGED <<ledger, books, faults>>

-------------------------------------------------------------------------------
(* recordRefund, recordStripeRefunds, recordDispute                        *)

BookFlawed(h, s, rollup) ==
  /\ refundIds' = refundIds \cup {handler[h].id}
  /\ booked' = [booked EXCEPT ![s] = @ + handler[h].amount]
  /\ payment' = [payment EXCEPT ![s].refunded = rollup]
  /\ caseStatus' = IF s = Review /\ caseStatus \notin {None, "GONE"} THEN "REFUNDED" ELSE caseStatus
  /\ UNCHANGED purchases

\* The Refund row, the rollup on the payment (from the payment as it was read),
\* and the case: a full refund of the review closes it.
Book(h, s, rollup) ==
  /\ refundIds' = refundIds \cup {handler[h].id}
  /\ booked' = [booked EXCEPT ![s] = @ + handler[h].amount]
  /\ payment' = [payment EXCEPT ![s].refunded = rollup]
  /\ caseStatus' = IF s = Review /\ rollup >= Price /\ caseStatus \notin {None, "GONE"}
                   THEN "REFUNDED" ELSE caseStatus
  /\ UNCHANGED purchases

\* What follows a refund that was booked.
AfterBooking(h) ==
  IF handler[h].id.type = "refund" /\ handler[h].for = None
  THEN [handler[h] EXCEPT !.pc = "reread"] ELSE Idle

RecordRefundFlawed(h) ==
  /\ At(h, "book")
  /\ LET s == handler[h].session
         known == handler[h].id \in refundIds
     IN /\ refundIds' = refundIds \cup {handler[h].id}
        /\ booked' = [booked EXCEPT ![s] = IF known THEN @ ELSE @ + handler[h].amount]
        /\ payment' = [payment EXCEPT ![s].refunded = @ + handler[h].amount]
  /\ Step(h, AfterBooking(h))
  /\ UNCHANGED <<stripe, ledger, purchases, caseStatus, intent, faults>>

\* Refund.stripeRefundId is unique: what is already booked makes it throw.
RecordRefund(h) ==
  /\ At(h, "book")
  /\ \/ handler[h].id \in refundIds /\ Throw(h) /\ UNCHANGED books
     \/ /\ handler[h].id \notin refundIds
        /\ Book(h, handler[h].session, handler[h].saw + handler[h].amount)
        /\ Step(h, AfterBooking(h))
        /\ intent' = [i \in Intents |-> IF i = handler[h].for
                                        THEN [intent[i] EXCEPT !.state = "done"] ELSE intent[i]]
  /\ UNCHANGED <<stripe, ledger, faults>>

\* charge.refunded: the payment, and the refunds Stripe lists for its charge; it lists each that it
\* made, and what the handler does of a charge without any is left out.
FindPaymentForCharge(h) ==
  /\ At(h, "charge")
  /\ LET s == handler[h].session IN
       Step(h, IF payment[s].made
               THEN [handler[h] EXCEPT !.pc = "refunds", !.saw = payment[s].refunded,
                                       !.todo = {i \in DOMAIN refunds : refunds[i].session = s}]
               ELSE Idle)
  /\ UNCHANGED <<stripe, ledger, books, intent, faults>>

NextStripeRefundFlawed(h) ==
  /\ At(h, "refunds")
  /\ \/ handler[h].todo = {} /\ Step(h, Idle)
     \/ \E i \in handler[h].todo :
          LET rest == [handler[h] EXCEPT !.todo = @ \ {i}] IN
          Step(h, IF RefundId(i) \in refundIds THEN rest
                  ELSE [rest EXCEPT !.pc = "book", !.id = RefundId(i),
                                    !.amount = returned[refunds[i].session]])
  /\ UNCHANGED <<stripe, ledger, books, intent, faults>>

\* The next refund of the list, unless it is known.
NextStripeRefund(h) ==
  /\ At(h, "refunds")
  /\ \/ handler[h].todo = {} /\ Step(h, Idle)
     \/ \E i \in handler[h].todo :
          LET rest == [handler[h] EXCEPT !.todo = @ \ {i}] IN
          Step(h, IF RefundId(i) \in refundIds THEN rest
                  ELSE [rest EXCEPT !.pc = "book", !.id = RefundId(i), !.amount = refunds[i].amount])
  /\ UNCHANGED <<stripe, ledger, books, intent, faults>>

Reread(h) ==
  /\ At(h, "reread")
  /\ Step(h, [handler[h] EXCEPT !.pc = "refunds", !.saw = payment[handler[h].session].refunded])
  /\ UNCHANGED <<stripe, ledger, books, intent, faults>>

Marked(s, mark) ==
  payment' = IF payment[s].made THEN [payment EXCEPT ![s].dispute = mark] ELSE payment

DisputeCreated(h) ==
  /\ At(h, "created")
  /\ Marked(handler[h].session, "open") /\ Step(h, Idle)
  /\ UNCHANGED <<stripe, ledger, refundIds, booked, purchases, caseStatus, intent, faults>>

\* A lost dispute is a refund of what the payment has left.
DisputeClosed(h) ==
  /\ At(h, "closed")
  /\ LET s == handler[h].session
         p == payment[s]
         owed == p.made /\ disputes[s] = "lost" /\ DisputeId(s) \notin refundIds /\ Remaining(p) > 0
     IN /\ Marked(s, disputes[s])
        /\ Step(h, IF owed THEN [handler[h] EXCEPT !.pc = "book", !.id = DisputeId(s),
                                                   !.saw = p.refunded, !.amount = Remaining(p)]
                   ELSE Idle)
  /\ UNCHANGED <<stripe, ledger, refundIds, booked, purchases, caseStatus, intent, faults>>

\* Stripe or the database fails a call, or the process dies (which kills all the
\* handlers in flight, one of these for each).
Die(h) ==
  /\ ~At(h, "idle") /\ faults < MaxFaults
  /\ faults' = faults + 1 /\ Throw(h)
  /\ UNCHANGED <<stripe, ledger, books>>

-------------------------------------------------------------------------------
Init ==
  /\ paid = {} /\ refunds = <<>> /\ returned = [s \in Sessions |-> 0]
  /\ disputes = [s \in Sessions |-> None] /\ ledger = {}
  /\ payment = [s \in Sessions |-> NoPayment] /\ refundIds = {}
  /\ booked = [s \in Sessions |-> 0] /\ purchases = [s \in Sessions |-> 0]
  /\ caseStatus = None
  /\ intent = [i \in Intents |-> NoIntent]
  /\ handler = [h \in Processes |-> Idle] /\ faults = 0

Environment ==
  \/ \E s \in Sessions : Pay(s)
  \/ \E s \in Contested, amount \in 1..Price : DashboardRefund(s, amount)
  \/ \E s \in Contested, outcome \in {"open", "won", "lost"} : Dispute(s, outcome)
  \/ CaseMoves

Start(h) ==
  \/ \E e \in Sent : HandleStripeEvent(h, e)
  \/ \E s \in Sessions : SelfHeal(h, s)
  \/ \E i \in Intents, s \in Contested, amount \in 0..Price : IssueRefund(h, i, s, amount)

Continue(h) ==
  \/ FulfillRead(h) \/ FulfillCommit(h)
  \/ CreateRefund(h) \/ RecordRefund(h)
  \/ FindPaymentForCharge(h) \/ NextStripeRefund(h) \/ Reread(h)
  \/ DisputeCreated(h) \/ DisputeClosed(h)

Sweep == SweepBegin \/ SweepNext \/ FulfillRead(Sweeper) \/ FulfillCommit(Sweeper)

Next ==
  \/ Environment
  \/ \E h \in Handlers : Start(h) \/ Continue(h) \/ Die(h)
  \/ Sweep \/ Die(Sweeper)

Spec == Init /\ [][Next]_vars

\* The sweep is on a timer (index.ts), and finds a paid session for 25 hours;
\* nothing makes Stripe deliver an event, or the family look.
Fairness == WF_vars(Sweep) /\ \A h \in Handlers : WF_vars(Continue(h))

FairSpec == Spec /\ Fairness

-------------------------------------------------------------------------------
(* Properties                                                              *)

Ids == [type : {"refund"}, of : Nat] \cup [type : {"dispute"}, of : Sessions]
HandlerType ==
  [pc : {"idle", "fulfil", "sweep", "grant", "create", "book", "charge", "refunds", "reread",
         "created", "closed"},
   session : Sessions, id : Ids, amount : 0..Price, saw : Nat, reopens : BOOLEAN,
   todo : SUBSET (Sessions \cup Nat), for : Intents \cup {None}]

RefundType ==
  [session : Sessions, amount : 1..Price, key : {NoKey} \cup (Sessions \X Nat \X Nat),
   for : Intents \cup {None}]
PaymentType == [made : BOOLEAN, refunded : Nat, dispute : {None, "open", "won", "lost"}]

TypeOK ==
  /\ paid \in SUBSET Sessions
  /\ refunds \in Seq(RefundType)
  /\ returned \in [Sessions -> 0..Price]
  /\ disputes \in [Sessions -> {None, "open", "won", "lost"}]
  /\ ledger \subseteq Sent
  /\ payment \in [Sessions -> PaymentType]
  /\ refundIds \subseteq Ids /\ booked \in [Sessions -> Nat] /\ purchases \in [Sessions -> Nat]
  /\ caseStatus \in CaseStates
  /\ intent \in [Intents -> [state : {"new", "asked", "failed", "done"}, session : Sessions,
                             amount : 0..Price]]
  /\ handler \in [Processes -> HandlerType] /\ faults \in Nat

\* A paid session is delivered at most once, and never without its payment on
\* the books, whichever of webhook, sweep and success page gets there ("safe to
\* call more than once", payments.service.ts:107).
DeliveredOnce == \A s \in Sessions : purchases[s] = IF payment[s].made THEN 1 ELSE 0

\* The rollup that decides what may still be refunded never claims more than the
\* Refund rows show, however late the payment it was computed from was read.
RollupNeverExceedsRows == \A s \in Sessions : payment[s].refunded <= booked[s]

\* The case is closed as refunded only when its review was refunded in full.
ClosedOnlyWhenPaidBack == caseStatus = "REFUNDED" => booked[Review] >= Price

\* The ledger never shows more going back than Stripe returned, with the charge
\* once more when a dispute took it: no refund is booked twice by console,
\* webhook and retry, and none at another amount.
BookedIsWhatWentBack ==
  \A s \in Sessions :
    booked[s] <= returned[s] + (IF disputes[s] = "lost" THEN Price ELSE 0)

\* A paid session is delivered, without any webhook and through any death, unless
\* the case it attaches to was deleted: the sweep heals it.
PaidIsDelivered ==
  \A s \in Sessions : s \in paid ~> payment[s].made \/ (s # Review /\ caseStatus = "GONE")

\* "Retrying this exact step is safe" (refunds.service.ts:136): an operator who
\* retries a refund that failed does not send the money twice.
RetryIsSafe ==
  \A i \in Intents : Cardinality({r \in DOMAIN refunds : refunds[r].for = i}) <= 1

\* refundedCents is the "rollup of Refund rows" (schema.prisma:156).
RollupIsTheRows == \A s \in Sessions : payment[s].refunded = booked[s]
================================================================================
