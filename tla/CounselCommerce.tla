----------------------------- MODULE CounselCommerce -----------------------------
(***************************************************************************)
(* How an organisation's matters are priced and paid for (quote.service):  *)
(* the quote is decided afresh on every call from the record's bucket, the *)
(* allowance, the pack credits and the attorney's standing; accepting it   *)
(* spends what the decision named; a card pays at Stripe first. The analysis *)
(* reads the acceptance and its proof back before it starts.               *)
(*                                                                         *)
(* A handler reads what it decides on in one step and commits its transaction *)
(* in a later one; the job is enqueued after the commit, in a third.       *)
(***************************************************************************)
EXTENDS Naturals, FiniteSets, Sequences

CONSTANTS
  Cases, Attorneys,
  Audience,       \* "ATTORNEY" (a firm), or "OFFICE", "CLINIC"
  Metered,        \* the buckets the page meter finds for each case
  PackRungs,      \* the rungs of the packs on offer
  Grants,         \* the allowances staff may set
  MonthCap,       \* free first reviews a month
  PackRecords,    \* credits of a pack
  Handlers,       \* requests, webhooks and the sweep in flight
  MaxSessions,    \* bound on the Stripe sessions opened
  MaxRequests,    \* bound on the quote requests of a Long record
  MaxRare         \* bound on the rare events: a crash, a Redis failure, a refund, a
                  \* reopened case, staff or the clock changing what is on offer

Rungs == <<"SHORT", "STANDARD", "EXTENDED", "LONG">>
Buckets == {Rungs[i] : i \in DOMAIN Rungs}
RungRank(b) == CHOOSE i \in DOMAIN Rungs : Rungs[i] = b

ASSUME CommerceAssumption ==
  /\ Audience \in {"ATTORNEY", "OFFICE", "CLINIC"} /\ Metered \in [Cases -> SUBSET Buckets]
  /\ PackRungs \subseteq Buckets \ {"LONG"}
  /\ Grants \subseteq Nat /\ 0 \in Grants /\ IsFiniteSet(Handlers) /\ Handlers # {}
  /\ MonthCap \in Nat /\ PackRecords \in Nat /\ MaxSessions \in Nat
  /\ MaxRequests \in Nat /\ MaxRare \in Nat

VARIABLES
  status,     \* the cases
  bucket,     \* Case.recordBucket, as the meter last stored it
  grant,      \* the organisation's allowance, and whether its period runs
  entries,    \* AllowanceEntry rows, unique by case
  packs,      \* the packs bought, oldest first
  spent,      \* Credit rows with consumedAt: the credit and its case
  sessions,   \* Stripe: the checkout sessions opened
  payments,   \* Payment rows
  accepted,   \* the method of the latest quote.accepted event
  requests,   \* QuoteRequest rows of each case
  job,        \* what holds the job id of each case
  runs,       \* the cases whose analysis has started
  reopened,   \* the cases a paid re-run reopened
  handler,    \* the handlers in flight
  lost,       \* the cases a fault has touched
  rare        \* used up bound

vars == <<status, bucket, grant, entries, packs, spent, sessions, payments, accepted,
          requests, job, runs, reopened, handler, lost, rare>>

funds == <<grant, entries, packs, spent>>
money == <<sessions, payments>>
queue == <<job, runs>>
others == <<bucket, reopened, lost, rare>>

NotMetered == "none"
None == "none"
Statuses == {"AWAITING_DOCS", "DOCS_COMPLETE", "QUOTED", "READY", "REFUNDED"}
Idle == [pc |-> "idle"]

At(h, pc) == handler[h].pc = pc
Become(h, r) == handler' = [handler EXCEPT ![h] = r]

-------------------------------------------------------------------------------
(* The decision                                                            *)

\* The ledger of the organisation: every entry ever made counts as used.
AllowanceCovers == grant.open /\ Cardinality(entries) < grant.records

Credits == {<<p, n>> : p \in DOMAIN packs, n \in 1..PackRecords}
SpentCredits == {s.credit : s \in spent}

\* consumeCredit: the nearest rung at or above the record's, then the soonest to
\* expire. A pack bought earlier expires earlier.
Covering(b) ==
  {k \in Credits \ SpentCredits :
     ~packs[k[1]].expired /\ RungRank(packs[k[1]].rung) >= RungRank(b)}
Before(k, l) ==
  LET rank(x) == RungRank(packs[x[1]].rung)
  IN  \/ rank(k) < rank(l)
      \/ rank(k) = rank(l) /\ (k[1] < l[1] \/ (k[1] = l[1] /\ k[2] <= l[2]))
ChosenCredit(b) == CHOOSE k \in Covering(b) : \A l \in Covering(b) : Before(k, l)

PaymentsOf(kind, u) ==
  {i \in DOMAIN payments : payments[i].kind = kind /\ payments[i].user = u
                             /\ payments[i].state = "SUCCEEDED"}
FreeReviews == {i \in DOMAIN payments : payments[i].kind = "FREE"}

\* Mutant: the monthly cap and the attorney's earlier reviews are not looked at.
FirstReviewFreeFlawed(u, b) == RungRank(b) <= RungRank("STANDARD")

\* firstReviewFree: at most 500 reporter pages, nothing before, under the cap.
FirstReviewFree(u, b) ==
  /\ RungRank(b) <= RungRank("STANDARD")
  /\ PaymentsOf("CARD", u) = {} /\ PaymentsOf("FREE", u) = {}
  /\ Cardinality(FreeReviews) < MonthCap

\* quoteForRecord. Offices and clinics have no price per record.
QuoteForRecord(u, b) ==
  CASE b = "LONG"                        -> "QUOTE_REQUIRED"
    [] b # "LONG" /\ AllowanceCovers     -> "ALLOWANCE"
    [] b # "LONG" /\ ~AllowanceCovers /\ Covering(b) # {} -> "CREDIT"
    [] b # "LONG" /\ ~AllowanceCovers /\ Covering(b) = {} ->
         IF Audience # "ATTORNEY" THEN "REFUSED"
         ELSE IF FirstReviewFree(u, b) THEN "FREE" ELSE "PAY"

\* quoteContext: a metered case that waits for its quote.
Quotable(c) == status[c] \in {"DOCS_COMPLETE", "QUOTED"} /\ bucket[c] # NotMetered

-------------------------------------------------------------------------------
(* Counsel                                                                 *)

\* acceptQuote up to its writes. A settled case is answered from its event.
AcceptQuote(h, c, u) ==
  LET decision == QuoteForRecord(u, bucket[c])
  IN  /\ At(h, "idle") /\ accepted[c] = None /\ Quotable(c)
      /\ decision \in {"ALLOWANCE", "CREDIT", "FREE", "PAY"}
      /\ Become(h, [pc |-> "decided", case |-> c, user |-> u, rung |-> bucket[c],
                    decision |-> decision, seen |-> status[c],
                    credit |-> IF decision = "CREDIT" THEN ChosenCredit(bucket[c]) ELSE <<0, 0>>])
      /\ UNCHANGED <<status, funds, money, accepted, requests, queue, others>>

\* enterQuoted: only a case read at DOCS_COMPLETE is moved, and only from there.
EnterQuoted(c, seen) ==
  /\ seen = "DOCS_COMPLETE" => status[c] = "DOCS_COMPLETE"
  /\ status' = IF seen = "DOCS_COMPLETE" THEN [status EXCEPT ![c] = "QUOTED"] ELSE status

Accept(c, method) == accepted' = [accepted EXCEPT ![c] = method]
Start(c) == [pc |-> "starting", case |-> c]

\* The entry is unique by case: a second acceptance takes the one there is, and
\* is answered as a retry, which starts nothing.
SpendAllowance(h) ==
  LET c == handler[h].case
  IN  /\ At(h, "decided") /\ handler[h].decision = "ALLOWANCE"
      /\ EnterQuoted(c, handler[h].seen) /\ Accept(c, "ALLOWANCE")
      /\ entries' = entries \cup {c}
      /\ Become(h, IF c \in entries THEN Idle ELSE Start(c))
      /\ UNCHANGED <<grant, packs, spent, money, requests, queue, others>>

\* Mutant: the update is not guarded on consumedAt.
SpendCreditFlawed(h) ==
  LET c == handler[h].case
  IN  /\ At(h, "decided") /\ handler[h].decision = "CREDIT"
      /\ EnterQuoted(c, handler[h].seen) /\ Accept(c, "CREDIT")
      /\ spent' = spent \cup {[credit |-> handler[h].credit, case |-> c]}
      /\ Become(h, Start(c))
      /\ UNCHANGED <<grant, entries, packs, money, requests, queue, others>>

\* updateMany guarded on consumedAt: a credit spent meanwhile is a CREDIT_RACE.
SpendCredit(h) ==
  LET c == handler[h].case
      k == handler[h].credit
  IN  /\ At(h, "decided") /\ handler[h].decision = "CREDIT" /\ k \notin SpentCredits
      /\ EnterQuoted(c, handler[h].seen) /\ Accept(c, "CREDIT")
      /\ spent' = spent \cup {[credit |-> k, case |-> c]}
      /\ Become(h, Start(c))
      /\ UNCHANGED <<grant, entries, packs, money, requests, queue, others>>

CreditRace(h) ==
  /\ At(h, "decided") /\ handler[h].decision = "CREDIT" /\ handler[h].credit \in SpentCredits
  /\ Become(h, Idle)
  /\ UNCHANGED <<status, funds, money, accepted, requests, queue, others>>

\* Mutant: the acceptance that costs nothing does not start the analysis.
TakeFreeReviewFlawed(h) ==
  LET c == handler[h].case
  IN  /\ At(h, "decided") /\ handler[h].decision = "FREE"
      /\ EnterQuoted(c, handler[h].seen) /\ Accept(c, "FREE")
      /\ payments' = Append(payments, [kind |-> "FREE", case |-> c, user |-> handler[h].user,
                                       session |-> 0, state |-> "SUCCEEDED"])
      /\ Become(h, Idle)
      /\ UNCHANGED <<funds, sessions, requests, queue, others>>

\* A Payment of nothing, under a synthetic id nothing else can collide with.
TakeFreeReview(h) ==
  LET c == handler[h].case
  IN  /\ At(h, "decided") /\ handler[h].decision = "FREE"
      /\ EnterQuoted(c, handler[h].seen) /\ Accept(c, "FREE")
      /\ payments' = Append(payments, [kind |-> "FREE", case |-> c, user |-> handler[h].user,
                                       session |-> 0, state |-> "SUCCEEDED"])
      /\ Become(h, Start(c))
      /\ UNCHANGED <<funds, sessions, requests, queue, others>>

OpenSession(kind, c, u, rung) ==
  /\ Len(sessions) < MaxSessions
  /\ sessions' = Append(sessions, [kind |-> kind, case |-> c, user |-> u, rung |-> rung, paid |-> FALSE])

\* The card is charged at Stripe; the acceptance waits for the money.
OpenReviewCheckout(h) ==
  LET c == handler[h].case
  IN  /\ At(h, "decided") /\ handler[h].decision = "PAY"
      /\ EnterQuoted(c, handler[h].seen)
      /\ OpenSession("review", c, handler[h].user, handler[h].rung)
      /\ Become(h, Idle)
      /\ UNCHANGED <<funds, payments, accepted, requests, queue, others>>

\* buyPack: any rung but Long.
BuyPack(u, rung) ==
  /\ rung \in PackRungs
  /\ OpenSession("pack", None, u, rung)
  /\ UNCHANGED <<status, funds, payments, accepted, requests, queue, handler, others>>

\* startAnalysis: a Redis failure is logged, and the case stays where it is. The
\* fixed job id makes the call a no-op while any job holds it.
StartAnalysis(h) ==
  LET c == handler[h].case
  IN  /\ At(h, "starting")
      /\ job' = [job EXCEPT ![c] = IF @ = None THEN "waiting" ELSE @]
      /\ Become(h, Idle)
      /\ UNCHANGED <<status, funds, money, accepted, requests, runs, others>>

\* requestQuote for a Long record, and the admin's answer to it.
RequestQuote(h, c, u) ==
  /\ At(h, "idle") /\ Quotable(c) /\ QuoteForRecord(u, bucket[c]) = "QUOTE_REQUIRED"
  /\ \A i \in DOMAIN requests[c] : requests[c][i] # "OPEN"
  /\ Become(h, [pc |-> "requesting", case |-> c, seen |-> status[c]])
  /\ UNCHANGED <<status, funds, money, accepted, requests, queue, others>>

OpenRequest(h) ==
  LET c == handler[h].case
  IN  /\ At(h, "requesting") /\ Len(requests[c]) < MaxRequests
      /\ EnterQuoted(c, handler[h].seen)
      /\ requests' = [requests EXCEPT ![c] = Append(@, "OPEN")]
      /\ Become(h, Idle)
      /\ UNCHANGED <<funds, money, accepted, queue, others>>

DecideQuoteRequest(c, i, answer) ==
  /\ i \in DOMAIN requests[c] /\ requests[c][i] = "OPEN" /\ answer \in {"QUOTED", "DECLINED"}
  /\ requests' = [requests EXCEPT ![c][i] = answer]
  /\ UNCHANGED <<status, funds, money, accepted, queue, handler, others>>

-------------------------------------------------------------------------------
(* Stripe and the fulfilment                                               *)

PaySession(s) ==
  /\ s \in DOMAIN sessions /\ ~sessions[s].paid
  /\ sessions' = [sessions EXCEPT ![s].paid = TRUE]
  /\ UNCHANGED <<status, funds, payments, accepted, requests, queue, handler, others>>

Fulfilled(s) == \E i \in DOMAIN payments : payments[i].session = s

\* fulfillCounselSession, reached from the webhook, the sweep and the success page.
FulfillRead(h, s) ==
  /\ At(h, "idle") /\ s \in DOMAIN sessions /\ sessions[s].paid /\ ~Fulfilled(s)
  /\ Become(h, [pc |-> "fulfilling", session |-> s, case |-> sessions[s].case,
                seen |-> IF sessions[s].kind = "pack" THEN None ELSE status[sessions[s].case]])
  /\ UNCHANGED <<status, funds, money, accepted, requests, queue, others>>

Book(s, kind) ==
  payments' = Append(payments, [kind |-> kind, case |-> sessions[s].case, user |-> sessions[s].user,
                                session |-> s, state |-> "SUCCEEDED"])

FulfillPack(h) ==
  LET s == handler[h].session
  IN  /\ At(h, "fulfilling") /\ sessions[s].kind = "pack" /\ ~Fulfilled(s)
      /\ Book(s, "PACK")
      /\ packs' = Append(packs, [rung |-> sessions[s].rung, expired |-> FALSE])
      /\ Become(h, Idle)
      /\ UNCHANGED <<status, grant, entries, spent, sessions, accepted, requests, queue, others>>

\* The money is booked whatever covers the case already; only the first
\* acceptance is written. Either way the job is enqueued.
FulfillReview(h) ==
  LET s == handler[h].session
      c == handler[h].case
  IN  /\ At(h, "fulfilling") /\ sessions[s].kind = "review" /\ ~Fulfilled(s)
      /\ Book(s, "CARD")
      /\ IF accepted[c] = None
         THEN EnterQuoted(c, handler[h].seen) /\ Accept(c, "CARD")
         ELSE UNCHANGED <<status, accepted>>
      /\ Become(h, Start(c))
      /\ UNCHANGED <<funds, sessions, requests, queue, others>>

\* The unique stripeId: the handler that comes second throws.
FulfillConflict(h) ==
  /\ At(h, "fulfilling") /\ Fulfilled(handler[h].session)
  /\ Become(h, Idle)
  /\ UNCHANGED <<status, funds, money, accepted, requests, queue, others>>

-------------------------------------------------------------------------------
(* The organisation, the record, the pipeline and the console              *)

\* One rare event; a fault that loses a start is remembered for its case.
Rare(C) == rare < MaxRare /\ rare' = rare + 1 /\ lost' = lost \cup C

\* Staff set the allowance; its period ends; the oldest pack expires.
SetAllowance(n) ==
  /\ n \in Grants /\ grant # [records |-> n, open |-> TRUE]
  /\ grant' = [records |-> n, open |-> TRUE]
  /\ Rare({})
  /\ UNCHANGED <<status, bucket, entries, packs, spent, money, accepted, requests, queue, reopened, handler>>

PeriodEnds ==
  /\ grant.open /\ grant.records > 0
  /\ grant' = [grant EXCEPT !.open = FALSE]
  /\ Rare({})
  /\ UNCHANGED <<status, bucket, entries, packs, spent, money, accepted, requests, queue, reopened, handler>>

PackExpires(p) ==
  /\ p \in DOMAIN packs /\ ~packs[p].expired /\ \A q \in 1..(p - 1) : packs[q].expired
  /\ packs' = [packs EXCEPT ![p].expired = TRUE]
  /\ Rare({})
  /\ UNCHANGED <<status, bucket, grant, entries, spent, money, accepted, requests, queue, reopened, handler>>

\* recomputeMeter stores what it counted; the record is open for documents and
\* for volume labels until the analysis has started.
Meter(c, b) ==
  /\ status[c] \in {"AWAITING_DOCS", "QUOTED"} /\ b \in Metered[c] \ {bucket[c]}
  /\ bucket' = [bucket EXCEPT ![c] = b]
  /\ UNCHANGED <<status, funds, money, accepted, requests, queue, reopened, handler, lost, rare>>

\* records-complete of a counsel matter: DOCS_COMPLETE and QUOTED in one transaction,
\* and nothing enqueued.
RecordsComplete(c) ==
  /\ status[c] = "AWAITING_DOCS"
  /\ status' = [status EXCEPT ![c] = "QUOTED"]
  /\ UNCHANGED <<funds, money, accepted, requests, queue, handler, others>>

\* assertQuoteSettled: the acceptance and the row that proves it.
QuoteSettled(c) ==
  CASE accepted[c] = None        -> FALSE
    [] accepted[c] = "ALLOWANCE" -> c \in entries
    [] accepted[c] = "CREDIT"    -> \E s \in spent : s.case = c
    [] accepted[c] \in {"CARD", "FREE"} ->
         \E i \in DOMAIN payments : /\ payments[i].case = c /\ payments[i].kind # "PACK"
                                   /\ payments[i].state = "SUCCEEDED"

\* runAnalysis from its queue, and the run to its end (AnalysisPipeline has its
\* steps). A refusal fails the job, which keeps its id.
RunAnalysis(c) ==
  /\ job[c] = "waiting"
  /\ IF status[c] \in {"DOCS_COMPLETE", "QUOTED"} /\ QuoteSettled(c)
     THEN /\ status' = [status EXCEPT ![c] = "READY"]
          /\ job' = [job EXCEPT ![c] = "completed"]
          /\ runs' = runs \cup {c}
     ELSE /\ job' = [job EXCEPT ![c] = "failed"]
          /\ UNCHANGED <<status, runs>>
  /\ UNCHANGED <<funds, money, accepted, requests, handler, others>>

\* A paid re-run reopens the case, and leaves the job id with the old job.
Rerun(c) ==
  /\ status[c] = "READY" /\ c \notin reopened
  /\ status' = [status EXCEPT ![c] = "AWAITING_DOCS"]
  /\ reopened' = reopened \cup {c}
  /\ Rare({})
  /\ UNCHANGED <<bucket, funds, money, accepted, requests, queue, handler>>

\* The console's reanalyze takes a finished case, its resume one that is under way
\* or complete, never one that is QUOTED; both clear the job id.
Reanalyze(c) ==
  /\ status[c] = "READY" /\ job[c] # "waiting" /\ c \notin reopened
  /\ status' = [status EXCEPT ![c] = "DOCS_COMPLETE"]
  /\ job' = [job EXCEPT ![c] = "waiting"]
  /\ reopened' = reopened \cup {c}
  /\ Rare({})
  /\ UNCHANGED <<bucket, funds, money, accepted, requests, runs, handler>>

Resume(c) ==
  /\ status[c] = "DOCS_COMPLETE" /\ job[c] # "waiting"
  /\ job' = [job EXCEPT ![c] = "waiting"]
  /\ UNCHANGED <<status, funds, money, accepted, requests, runs, handler, others>>

\* A refund: of a part, or of all of it, which ends the case. One that meets a case
\* under re-analysis is not counted as a second rare event.
Refund(i, state) ==
  LET c == payments[i].case
  IN  /\ i \in DOMAIN payments /\ payments[i].kind = "CARD" /\ payments[i].state # "REFUNDED"
      /\ state \in {"PARTIALLY_REFUNDED", "REFUNDED"} \ {payments[i].state}
      /\ IF status[c] = "DOCS_COMPLETE" THEN UNCHANGED <<lost, rare>> ELSE Rare({c})
      /\ payments' = [payments EXCEPT ![i].state = state]
      /\ status' = IF state = "REFUNDED" THEN [status EXCEPT ![c] = "REFUNDED"] ELSE status
      /\ UNCHANGED <<funds, sessions, accepted, requests, queue, handler, bucket, reopened>>

\* A crash, or Redis down at the enqueue: a transaction not committed leaves nothing,
\* a job not enqueued is not enqueued later.
Die(h) ==
  /\ ~At(h, "idle")
  /\ Rare(IF At(h, "starting") THEN {handler[h].case} ELSE {})
  /\ Become(h, Idle)
  /\ UNCHANGED <<status, bucket, funds, money, accepted, requests, queue, reopened>>

-------------------------------------------------------------------------------
Init ==
  /\ status = [c \in Cases |-> "AWAITING_DOCS"]
  /\ bucket = [c \in Cases |-> NotMetered]
  /\ grant \in [records : Grants, open : {TRUE}]
  /\ entries = {} /\ packs = <<>> /\ spent = {} /\ sessions = <<>> /\ payments = <<>>
  /\ accepted = [c \in Cases |-> None] /\ requests = [c \in Cases |-> <<>>]
  /\ job = [c \in Cases |-> None] /\ runs = {} /\ reopened = {}
  /\ handler = [h \in Handlers |-> Idle] /\ lost = {} /\ rare = 0

Call(h) ==
  \E c \in Cases, u \in Attorneys : AcceptQuote(h, c, u) \/ RequestQuote(h, c, u)

Continue(h) ==
  \/ SpendAllowance(h) \/ SpendCredit(h) \/ CreditRace(h) \/ TakeFreeReview(h)
  \/ OpenReviewCheckout(h) \/ OpenRequest(h)
  \/ FulfillPack(h) \/ FulfillReview(h) \/ FulfillConflict(h)
  \/ StartAnalysis(h) \/ Die(h)

Case(c) ==
  \/ \E b \in Buckets : Meter(c, b)
  \/ RecordsComplete(c) \/ RunAnalysis(c)
  \/ Rerun(c) \/ Reanalyze(c) \/ Resume(c)
  \/ \E i \in DOMAIN requests[c], a \in {"QUOTED", "DECLINED"} : DecideQuoteRequest(c, i, a)

Next ==
  \/ \E h \in Handlers : Call(h) \/ Continue(h) \/ \E s \in DOMAIN sessions : FulfillRead(h, s)
  \/ \E c \in Cases : Case(c)
  \/ \E u \in Attorneys, r \in Buckets : BuyPack(u, r)
  \/ \E s \in DOMAIN sessions : PaySession(s)
  \/ \E n \in Grants : SetAllowance(n)
  \/ PeriodEnds
  \/ \E p \in DOMAIN packs : PackExpires(p)
  \/ \E i \in DOMAIN payments, s \in {"PARTIALLY_REFUNDED", "REFUNDED"} : Refund(i, s)

Spec == Init /\ [][Next]_vars

-------------------------------------------------------------------------------
(* Properties                                                              *)

\* What covers a case: its allowance entry, its credits, its payments that stand.
CoverOf(c) ==
  ({"allowance"} \X (entries \cap {c}))
    \cup {<<"credit", s.credit>> : s \in {t \in spent : t.case = c}}
    \cup {<<"payment", i>> : i \in {j \in DOMAIN payments :
             payments[j].case = c /\ payments[j].kind # "PACK" /\ payments[j].state = "SUCCEEDED"}}

AllCovers ==
  ({"allowance"} \X Cases)
    \cup ({"credit"} \X ((1..MaxSessions) \X (1..PackRecords)))
    \cup ({"payment"} \X (1..(MaxSessions + MonthCap + Cardinality(Handlers))))

Review == INSTANCE CoveredReview WITH
  Cases <- Cases, Covers <- AllCovers, cover <- [c \in Cases |-> CoverOf(c)], analysed <- runs

\* The commerce implements the promise: whatever handlers race, no credit or payment
\* covers two cases, and no analysis starts on a case nothing covers any more.
CoverIsKept == Review!Spec

\* The allowance and the free reviews are counted outside the transaction that takes
\* one: they can be overdrawn, but never by more than the other requests in flight.
OverdrawnOnlyByRacers ==
  LET racers == Cardinality(Handlers) - 1
  IN  /\ \E n \in Grants : Cardinality(entries) <= n + racers
      /\ Cardinality(FreeReviews) <= MonthCap + racers
      /\ \A u \in Attorneys : Cardinality(PaymentsOf("FREE", u)) <= 1 + racers

Started(c) ==
  \/ job[c] = "waiting"
  \/ \E h \in Handlers : handler[h].pc = "starting" /\ handler[h].case = c

\* An accepted matter waits at QUOTED with no job only after a crash, a Redis failure
\* or a refund, or because a re-run brought it there a second time: acceptQuote
\* answers such a case from its old acceptance, and the console cannot resume it.
ParkedOnlyByFaultOrRerun ==
  \A c \in Cases :
    status[c] = "QUOTED" /\ accepted[c] # None /\ ~Started(c) => c \in lost \cup reopened
================================================================================
