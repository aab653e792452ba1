---------------------------- MODULE StaffRequests ---------------------------
(***************************************************************************)
(* Requests from Support to an Admin (staff-requests.service.ts), and the   *)
(* actions approving one runs: a refund, the deletion of a case, the        *)
(* deletion of its owner's account (deletion.service.ts). A decision is     *)
(* read, acted on and written in three separate moments; the console runs   *)
(* the same actions without a request. One customer, one review payment.    *)
(***************************************************************************)
EXTENDS Naturals, FiniteSetsExt

CONSTANTS
  Admins,       \* handlers of the staff's calls
  Requests,     \* StaffRequest rows
  Owned,        \* the customer's cases
  Reviewed,     \* the one whose review was paid for
  NoRequest,    \* an action the console runs without a request
  Part,         \* a partial refund
  Price,        \* the review's price
  MaxCuts       \* bounds the handlers that die or whose call fails

Whole == 0  \* no amount: what remains
ASSUME MoneyAssumption ==
  /\ Price \in Nat /\ Part \in 1 .. Price
  /\ Reviewed \in Owned /\ NoRequest \notin Requests

VARIABLES
  kase,      \* Owned -> "none", "live", or "marked": DELETED with its rows
  owns,      \* the cases with an access row of the customer
  erased,    \* the account is anonymised
  rollup,    \* Payment.refundedCents
  sent,      \* Stripe: the refunds made, by idempotency key
  booked,    \* the Refund rows, by refund
  request,   \* Requests -> the row
  admin,     \* Admins -> the call in flight
  done,      \* history: Requests -> how often its action was carried through
  clashed,   \* history: requests decided by two at once, or dropped with their action under way
  late,      \* history: cases that came after an account deletion listed its own
  cuts       \* handlers cut short

deskVars == <<kase, owns, erased, rollup, sent, booked, request, admin, done, clashed, late, cuts>>
caseVars == <<kase, owns, erased, late>>
moneyVars == <<rollup, sent, booked>>

NoRow == [type |-> "none"]
AtRest == [pc |-> "idle", req |-> NoRequest, verdict |-> "none", type |-> "none", amount |-> 0, saw |-> 0, todo |-> {}]

DeskInit ==
  /\ kase = [c \in Owned |-> IF c = Reviewed THEN "live" ELSE "none"]
  /\ owns = {Reviewed} /\ erased = FALSE
  /\ rollup = 0 /\ sent = {} /\ booked = {}
  /\ request = [r \in Requests |-> NoRow]
  /\ admin = [a \in Admins |-> AtRest]
  /\ done = [r \in Requests |-> 0] /\ clashed = {} /\ late = {} /\ cuts = 0
-----------------------------------------------------------------------------
Refundable == rollup < Price
Open(r) == request[r] /= NoRow /\ request[r].decision = "none"
Deciding(r) == {a \in Admins : admin[a].req = r /\ admin[a].pc /= "open"}

\* openRequest: its guards, then the row.
RequestRead(a, type, c, amount) ==
  /\ admin[a] = AtRest /\ kase[c] /= "none"
  /\ \A r \in Requests : Open(r) => request[r].of /= c \/ request[r].type /= type
  /\ IF type = "REFUND" THEN c = Reviewed /\ Refundable ELSE amount = Whole
  /\ admin' = [admin EXCEPT ![a] = [AtRest EXCEPT !.pc = "open", !.type = type, !.amount = amount, !.todo = {c}]]
  /\ UNCHANGED <<caseVars, moneyVars, request, done, clashed, cuts>>
RequestCommit(a, r) ==
  /\ admin[a].pc = "open" /\ request[r] = NoRow
  /\ \E c \in admin[a].todo :
       request' = [request EXCEPT ![r] = [type |-> admin[a].type, of |-> c, amount |-> admin[a].amount, decision |-> "none"]]
  /\ admin' = [admin EXCEPT ![a] = AtRest]
  /\ UNCHANGED <<caseVars, moneyVars, done, clashed, cuts>>

\* Where an action begins, and on what.
Begun(type, c, amount) ==
  CASE type = "REFUND" -> [AtRest EXCEPT !.pc = "refund", !.type = type, !.amount = amount]
    [] type = "CASE_DELETE" -> [AtRest EXCEPT !.pc = "mark", !.type = type, !.todo = {c}]
    [] type = "ACCOUNT_DELETE" -> [AtRest EXCEPT !.pc = "list", !.type = type, !.todo = {c}]

DecideRead(a, r, verdict) ==
  /\ admin[a] = AtRest /\ Open(r)
  /\ admin' = [admin EXCEPT ![a] =
       IF verdict = "DECLINED" THEN [AtRest EXCEPT !.pc = "decide", !.req = r, !.verdict = verdict]
       ELSE [Begun(request[r].type, request[r].of, request[r].amount) EXCEPT !.req = r, !.verdict = verdict]]
  /\ clashed' = IF Deciding(r) = {} THEN clashed ELSE clashed \cup {r}
  /\ UNCHANGED <<caseVars, moneyVars, request, done, cuts>>

\* The console's own refund, deletion of a case, deletion of an account.
ConsoleActs(a, type, c, amount) ==
  /\ admin[a] = AtRest
  /\ type = "REFUND" => c = Reviewed
  /\ admin' = [admin EXCEPT ![a] = Begun(type, c, amount)]
  /\ UNCHANGED <<caseVars, moneyVars, request, done, clashed, cuts>>

\* Mutant: a refused action is taken for one that was done.
RefusedFlawed(a) == IF admin[a].req = NoRequest THEN AtRest ELSE [admin[a] EXCEPT !.pc = "decide"]
\* A refused action answers the Admin and leaves the request open.
Refused(a) == AtRest
CarriedOut(a) ==
  /\ admin' = [admin EXCEPT ![a] = IF @.req = NoRequest THEN AtRest ELSE [@ EXCEPT !.pc = "decide", !.todo = {}]]
  /\ done' = [r \in Requests |-> IF r = admin[a].req THEN done[r] + 1 ELSE done[r]]
DecideCommit(a) ==
  /\ admin[a].pc = "decide"
  /\ request' = [request EXCEPT ![admin[a].req].decision = admin[a].verdict]
  /\ admin' = [admin EXCEPT ![a] = AtRest]
  /\ UNCHANGED <<caseVars, moneyVars, done, clashed, cuts>>
-----------------------------------------------------------------------------
(* issueRefund *)
RefundRead(a) ==
  LET amount == IF admin[a].amount = Whole THEN Price - rollup ELSE admin[a].amount
  IN  /\ admin[a].pc = "refund"
      /\ admin' = [admin EXCEPT ![a] = IF Refundable /\ amount <= Price - rollup
                                         THEN [@ EXCEPT !.pc = "send", !.amount = amount, !.saw = rollup]
                                         ELSE Refused(a)]
      /\ UNCHANGED <<caseVars, moneyVars, request, done, clashed, cuts>>

Key(a) == <<admin[a].saw, admin[a].amount>>
SentBack == MapThenSumSet(LAMBDA k : k[2], sent)
\* Stripe answers a known key with the refund it made, and refuses to give back more than was paid.
CreateAtStripe(a) ==
  /\ admin[a].pc = "send"
  /\ \/ Key(a) \in sent /\ UNCHANGED sent
     \/ Key(a) \notin sent /\ SentBack + admin[a].amount <= Price /\ sent' = sent \cup {Key(a)}
  /\ admin' = [admin EXCEPT ![a].pc = "book"]
  /\ UNCHANGED <<caseVars, rollup, booked, request, done, clashed, cuts>>

\* recordRefund: the refund's id is unique, and the rollup is computed from the payment as read.
BookRefund(a) ==
  /\ admin[a].pc = "book" /\ Key(a) \notin booked
  /\ booked' = booked \cup {Key(a)}
  /\ rollup' = admin[a].saw + admin[a].amount
  /\ CarriedOut(a)
  /\ UNCHANGED <<caseVars, sent, request, clashed, cuts>>
-----------------------------------------------------------------------------
(* deleteCaseScoped, and deleteAccount around it *)
ListCases(a) ==
  /\ admin[a].pc = "list"
  /\ admin' = [admin EXCEPT ![a] = IF erased \/ (admin[a].req /= NoRequest /\ ~admin[a].todo \subseteq owns)
                                     THEN Refused(a) ELSE [@ EXCEPT !.pc = "mark", !.todo = owns]]
  /\ UNCHANGED <<caseVars, moneyVars, request, done, clashed, cuts>>

\* Mutant: a case that is marked already counts as deleted.
PassesOverFlawed(a, c) == kase[c] /= "live"
\* A case that is gone is passed over by the account's deletion. One that is marked
\* already is an illegal transition, and the handler throws.
PassesOver(a, c) == kase[c] = "none"
MarkDeleted(a, c) ==
  /\ admin[a].pc = "mark" /\ c \in admin[a].todo
  /\ \/ /\ kase[c] = "live"
        /\ kase' = [kase EXCEPT ![c] = "marked"]
        /\ admin' = [admin EXCEPT ![a].pc = "erase", ![a].saw = c]
     \/ /\ PassesOver(a, c)
        /\ admin' = [admin EXCEPT ![a] = IF @.type = "CASE_DELETE" THEN Refused(a) ELSE [admin[a] EXCEPT !.todo = @ \ {c}]]
        /\ UNCHANGED kase
  /\ UNCHANGED <<owns, erased, late, moneyVars, request, done, clashed, cuts>>

EraseCase(a) ==
  LET c == admin[a].saw
  IN  /\ admin[a].pc = "erase" /\ kase[c] = "marked"
      /\ kase' = [kase EXCEPT ![c] = "none"]
      /\ owns' = owns \ {c}
      /\ IF admin[a].type = "CASE_DELETE" THEN CarriedOut(a)
         ELSE /\ admin' = [admin EXCEPT ![a].pc = "mark", ![a].saw = 0, ![a].todo = @ \ {c}]
              /\ UNCHANGED done
      /\ UNCHANGED <<erased, late, moneyVars, request, clashed, cuts>>

Anonymise(a) ==
  /\ admin[a].pc = "mark" /\ admin[a].type = "ACCOUNT_DELETE" /\ admin[a].todo = {}
  /\ erased' = TRUE /\ owns' = {}
  /\ CarriedOut(a)
  /\ UNCHANGED <<kase, late, moneyVars, request, clashed, cuts>>

Erasing(a) == admin[a].type = "ACCOUNT_DELETE" /\ admin[a].pc \in {"mark", "erase"}
\* fulfillCheckoutSession of a session paid before: it looks at no account.
CaseArrives(c) ==
  /\ c /= Reviewed /\ kase[c] = "none" /\ c \notin late
  /\ kase' = [kase EXCEPT ![c] = "live"]
  /\ owns' = owns \cup {c}
  /\ late' = IF erased \/ \E a \in Admins : Erasing(a) THEN late \cup {c} ELSE late
  /\ UNCHANGED <<erased, moneyVars, request, admin, done, clashed, cuts>>
-----------------------------------------------------------------------------
UnderWay(a) == admin[a].pc \in {"book", "erase", "decide"} \/ (Erasing(a) /\ admin[a].todo /= owns)
\* An exception the state brings about, or a handler cut short by a failed call or a death.
Throws(a) ==
  \/ admin[a].pc = "send" /\ Key(a) \notin sent /\ SentBack + admin[a].amount > Price
  \/ admin[a].pc = "book" /\ Key(a) \in booked
  \/ admin[a].pc = "mark" /\ \E c \in admin[a].todo : kase[c] = "marked"
  \/ admin[a].pc = "erase" /\ kase[admin[a].saw] /= "marked"
CutShort(a) ==
  /\ admin[a] /= AtRest
  /\ \/ Throws(a) /\ UNCHANGED cuts
     \/ cuts < MaxCuts /\ cuts' = cuts + 1
  /\ clashed' = IF UnderWay(a) THEN clashed \cup ({admin[a].req} \cap Requests) ELSE clashed
  /\ admin' = [admin EXCEPT ![a] = AtRest]
  /\ UNCHANGED <<caseVars, moneyVars, request, done>>

Types == {"REFUND", "CASE_DELETE", "ACCOUNT_DELETE"}
DeskNext ==
  \/ \E a \in Admins :
       \/ \E type \in Types, c \in Owned, amount \in {Whole, Part} : RequestRead(a, type, c, amount)
       \/ \E type \in Types, amount \in {Whole, Part} : ConsoleActs(a, type, Reviewed, amount)
       \/ \E r \in Requests : RequestCommit(a, r) \/ \E v \in {"APPROVED", "DECLINED"} : DecideRead(a, r, v)
       \/ RefundRead(a) \/ CreateAtStripe(a) \/ BookRefund(a)
       \/ ListCases(a) \/ (\E c \in Owned : MarkDeleted(a, c)) \/ EraseCase(a) \/ Anonymise(a)
       \/ DecideCommit(a) \/ CutShort(a)
  \/ \E c \in Owned : CaseArrives(c)

DeskSpec == DeskInit /\ [][DeskNext]_deskVars
-----------------------------------------------------------------------------
\* "Approve runs the real action" (staff-requests.service.ts): an approved request
\* was carried out; and but for two Admins who decided at once or a decision dropped
\* half-way, once only, with a declined or an open request not at all.
DecisionMatchesEffect ==
  \A r \in Requests : request[r] /= NoRow =>
    /\ request[r].decision = "APPROVED" => done[r] > 0
    /\ r \in clashed \/ Deciding(r) /= {} \/ done[r] = IF request[r].decision = "APPROVED" THEN 1 ELSE 0

\* A deleted account keeps no case, but one whose payment was fulfilled after its cases
\* were listed; and a case marked deleted keeps its rows only while a deletion is on
\* it, or one was cut short there.
ErasureIsWhole ==
  \A c \in Owned :
    /\ erased => kase[c] = "none" \/ c \in late
    /\ kase[c] = "marked" => cuts > 0 \/ \E a \in Admins : admin[a].pc = "erase" /\ admin[a].saw = c

\* A request has the effect of its decision, and an erasure leaves nothing half done.
RequestsAreHonoured == DecisionMatchesEffect /\ ErasureIsWhole
=============================================================================
