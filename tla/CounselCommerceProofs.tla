------------------------- MODULE CounselCommerceProofs -------------------------
(***************************************************************************)
(* Theorems about the counsel commerce: the allowance and the free reviews *)
(* are overdrawn by racing requests only, the rows cover one case each and *)
(* an analysis starts on a covered case (the refinement of CoveredReview), *)
(* and a matter is parked by a fault or a re-run only.                     *)
(*                                                                         *)
(* The inductive invariant has four parts: types, with what each handler   *)
(* carries (TypeInv); each row of money booked once and each credit spent  *)
(* once (RowsInv); what is taken, counted with what is about to be taken   *)
(* (CountInv); the course of a case nothing has disturbed (ParkInv).       *)
(***************************************************************************)
EXTENDS CounselCommerce, TLAPS, FiniteSetTheorems, SequenceTheorems, WellFoundedInduction

\* What a handler carries from the step that reads to the step that writes.
Seen == {"DOCS_COMPLETE", "QUOTED"}
Decisions == {"ALLOWANCE", "CREDIT", "FREE", "PAY"}
PackType == [rung : Buckets, expired : BOOLEAN]
SessionType == [kind : {"review", "pack"}, case : Cases \cup {None}, user : Attorneys,
                rung : Buckets, paid : BOOLEAN]
PaymentType == [kind : {"CARD", "FREE", "PACK"}, case : Cases \cup {None}, user : Attorneys,
                session : Nat, state : {"SUCCEEDED", "PARTIALLY_REFUNDED", "REFUNDED"}]
DecidedType == [pc : {"decided"}, case : Cases, user : Attorneys, rung : Buckets,
                decision : Decisions, seen : Seen, credit : Nat \X Nat]
StartingType == [pc : {"starting"}, case : Cases]
RequestingType == [pc : {"requesting"}, case : Cases, seen : Seen]
FulfillingType == [pc : {"fulfilling"}, session : Nat, case : Cases \cup {None},
                   seen : Statuses \cup {None}]

\* A decided credit is one there is; a fulfilment is of a session that is open.
HandlerOK(r) ==
  \/ r = Idle
  \/ r \in DecidedType /\ (r.decision = "CREDIT" => r.credit \in Credits)
  \/ r \in StartingType
  \/ r \in RequestingType
  \/ /\ r \in FulfillingType /\ r.session \in DOMAIN sessions
     /\ r.case = sessions[r.session].case
     /\ sessions[r.session].kind = "review" => r.seen \in Statuses

\* The rows and the cases.
DataTypes ==
  /\ status \in [Cases -> Statuses]
  /\ bucket \in [Cases -> Buckets \cup {NotMetered}]
  /\ grant \in [records : Grants, open : BOOLEAN]
  /\ entries \subseteq Cases /\ IsFiniteSet(entries)
  /\ packs \in Seq(PackType)
  /\ spent \subseteq [credit : Credits, case : Cases]
  /\ sessions \in Seq(SessionType)
  /\ \A s \in DOMAIN sessions : sessions[s].kind = "review" => sessions[s].case \in Cases
  /\ payments \in Seq(PaymentType)
  /\ accepted \in [Cases -> {None, "ALLOWANCE", "CREDIT", "CARD", "FREE"}]
  /\ job \in [Cases -> {None, "waiting", "completed", "failed"}]
  /\ runs \subseteq Cases

HandlersOK == DOMAIN handler = Handlers /\ \A h \in Handlers : HandlerOK(handler[h])

TypeInv == DataTypes /\ HandlersOK

\* Rows of money and the session each books: one row a session, one pack a pack row.
PackRows == {i \in DOMAIN payments : payments[i].kind = "PACK"}
MoneyRows == {i \in DOMAIN payments : payments[i].kind # "FREE"}

RowOK(p) ==
  /\ p.kind # "PACK" => p.case \in Cases
  /\ p.kind # "FREE" => p.session \in DOMAIN sessions
  /\ p.kind = "FREE" => p.session = 0 /\ p.state = "SUCCEEDED"

RowsInv ==
  /\ Len(sessions) <= MaxSessions
  /\ \A i \in DOMAIN payments : RowOK(payments[i])
  /\ \A i, j \in MoneyRows : payments[i].session = payments[j].session => i = j
  /\ \A s, t \in spent : s.credit = t.credit => s = t
  /\ Len(packs) = Cardinality(PackRows)

\* A limit is read when a handler decides and taken when it commits: what is taken and
\* what is about to be taken exceed it by the handlers beyond the first.
Deciding(d) == {h \in Handlers : handler[h].pc = "decided" /\ handler[h].decision = d}
FreeRows(u) == PaymentsOf("FREE", u)
FreeOf(u) == {h \in Deciding("FREE") : handler[h].user = u}

AllowanceCount ==
  \E n \in Grants :
    Cardinality(entries) + Cardinality(Deciding("ALLOWANCE")) <= n + Cardinality(Handlers) - 1
FreeCount ==
  Cardinality(FreeReviews) + Cardinality(Deciding("FREE")) <= MonthCap + Cardinality(Handlers) - 1
AttorneyCount(u) ==
  Cardinality(FreeRows(u)) + Cardinality(FreeOf(u)) <= Cardinality(Handlers)

CountInv == AllowanceCount /\ FreeCount /\ \A u \in Attorneys : AttorneyCount(u)

\* Who is about to touch a case: a handler that decided on it, asks for a quote or
\* starts it; a review session opened for it.
Busy(c) ==
  \E h \in Handlers : handler[h].pc \in {"decided", "requesting", "starting"} /\ handler[h].case = c
Starting(c) == \E h \in Handlers : handler[h].pc = "starting" /\ handler[h].case = c
Opened(c) == \E s \in DOMAIN sessions : sessions[s].kind = "review" /\ sessions[s].case = c

\* The course of a case no fault and no re-run has touched.
Undisturbed(c) ==
  /\ status[c] \in {"AWAITING_DOCS", "QUOTED", "READY"}
  /\ status[c] = "AWAITING_DOCS" => accepted[c] = None /\ ~Busy(c) /\ ~Opened(c)
  /\ status[c] = "READY" <=> job[c] = "completed"
  /\ job[c] # "failed"
  /\ job[c] = "waiting" => status[c] = "QUOTED"
  /\ Starting(c) \/ job[c] = "waiting" => accepted[c] # None
  /\ accepted[c] # None => QuoteSettled(c)
  /\ status[c] = "QUOTED" /\ accepted[c] # None => Starting(c) \/ job[c] = "waiting"

\* DOCS_COMPLETE is a case reopened, an entry is an acceptance, and every case out of
\* reach of faults and re-runs is on its course.
ParkInv ==
  /\ \A c \in Cases : status[c] = "DOCS_COMPLETE" => c \in reopened
  /\ \A c \in entries : accepted[c] # None
  /\ \A c \in Cases \ (lost \cup reopened) : Undisturbed(c)

IInv == TypeInv /\ RowsInv /\ CountInv /\ ParkInv

-------------------------------------------------------------------------------
(* Types                                                                   *)

\* Rows are only added, and keep their kind and their case.
Grows ==
  /\ Credits \subseteq Credits' /\ DOMAIN sessions \subseteq DOMAIN sessions'
  /\ \A s \in DOMAIN sessions : /\ sessions'[s].kind = sessions[s].kind
                               /\ sessions'[s].case = sessions[s].case

LEMMA RungsAreFour == Buckets = {"SHORT", "STANDARD", "EXTENDED", "LONG"} /\ NotMetered \notin Buckets
BY DEF Buckets, Rungs, NotMetered

LEMMA HandlerGrows ==
  ASSUME NEW q, HandlerOK(q), Grows, NEW r, r = q
  PROVE  HandlerOK(r)'
BY DEF HandlerOK, Grows, DecidedType, FulfillingType

LEMMA HandlersStep ==
  ASSUME TypeInv, Grows, NEW h \in Handlers, NEW r, Become(h, r), HandlerOK(r)'
  PROVE  HandlersOK'
<1>1. DOMAIN handler' = Handlers /\ handler'[h] = r /\ \A k \in Handlers \ {h} : handler'[k] = handler[k]
  BY DEF TypeInv, HandlersOK, Become
<1>2. ASSUME NEW k \in Handlers \ {h} PROVE HandlerOK(handler[k])'
  <2>1. HandlerOK(handler[k])
    BY DEF TypeInv, HandlersOK
  <2> QED
    BY <1>1, <1>2, <2>1, HandlerGrows
<1>3. HandlerOK(handler[h])'
  BY <1>1
<1> QED
  BY <1>1, <1>2, <1>3 DEF HandlersOK

LEMMA HandlersRest ==
  ASSUME TypeInv, Grows, handler' = handler
  PROVE  HandlersOK'
<1>1. ASSUME NEW k \in Handlers PROVE HandlerOK(handler[k])'
  <2>1. HandlerOK(handler[k]) /\ handler'[k] = handler[k]
    BY DEF TypeInv, HandlersOK
  <2> QED
    BY <2>1, HandlerGrows
<1> QED
  BY <1>1 DEF TypeInv, HandlersOK

LEMMA StillOK ==
  /\ HandlerOK(Idle)'
  /\ \A c \in Cases : HandlerOK(Start(c))'
BY DEF HandlerOK, Start, StartingType, Idle

LEMMA SameRows == ASSUME UNCHANGED packs, UNCHANGED sessions PROVE Grows
BY DEF Grows, Credits

-------------------------------------------------------------------------------
(* The credit that is chosen                                               *)

LEMMA LeastNatural ==
  ASSUME NEW T \in SUBSET Nat, T # {}
  PROVE  \E m \in T : \A n \in T : m <= n
<1>1. PICK m \in T : \A n \in T : ~ (<<n, m>> \in OpToRel(<, Nat))
  BY NatLessThanWellFounded, WFMin, Zenon
<1>2. \A n \in T : ~ (n < m)
  BY <1>1 DEF OpToRel
<1> QED
  BY <1>2

LEMMA ChosenCreditCovers ==
  ASSUME DataTypes, NEW b \in Buckets, Covering(b) # {}
  PROVE  ChosenCredit(b) \in Covering(b)
<1> DEFINE C == Covering(b)
           rank(k) == RungRank(packs[k[1]].rung)
<1>1. \A k \in C : rank(k) \in Nat /\ k[1] \in Nat /\ k[2] \in Nat /\ k = <<k[1], k[2]>>
  <2>1. \A x \in Buckets : RungRank(x) \in Nat
    BY RungsAreFour DEF RungRank, Rungs
  <2>2. PackRecords \in Nat /\ Len(packs) \in Nat /\ DOMAIN packs = 1..Len(packs)
        /\ \A i \in DOMAIN packs : packs[i] \in PackType
    BY CommerceAssumption DEF DataTypes
  <2>3. \A k \in C : k \in Credits
    BY DEF Covering
  <2>4. \A k \in Credits : /\ k = <<k[1], k[2]>> /\ k[1] \in DOMAIN packs /\ k[2] \in 1..PackRecords
    BY DEF Credits
  <2>5. \A i \in DOMAIN packs : packs[i].rung \in Buckets
    BY <2>2 DEF PackType
  <2> QED
    BY <2>1, <2>2, <2>3, <2>4, <2>5
<1> HIDE DEF C, rank
<1>2. PICK r \in {rank(k) : k \in C} : \A q \in {rank(k) : k \in C} : r <= q
  <2>1. {rank(k) : k \in C} # {} /\ {rank(k) : k \in C} \subseteq Nat
    BY <1>1 DEF C
  <2> QED
    BY <2>1, LeastNatural
<1> DEFINE D == {k \in C : rank(k) = r}
<1>3. PICK p \in {k[1] : k \in D} : \A q \in {k[1] : k \in D} : p <= q
  <2>1. {k[1] : k \in D} # {} /\ {k[1] : k \in D} \subseteq Nat
    BY <1>1, <1>2
  <2> QED
    BY <2>1, LeastNatural
<1> DEFINE E == {k \in D : k[1] = p}
<1>4. PICK n \in {k[2] : k \in E} : \A q \in {k[2] : k \in E} : n <= q
  <2>1. {k[2] : k \in E} # {} /\ {k[2] : k \in E} \subseteq Nat
    BY <1>1, <1>3
  <2> QED
    BY <2>1, LeastNatural
<1>5. PICK k \in E : k[2] = n
  BY <1>4
<1>6. ASSUME NEW l \in C PROVE Before(k, l)
  <2>1. k \in C /\ rank(k) = r /\ k[1] = p /\ k[2] = n
    BY <1>5
  <2>2. rank(l) \in Nat /\ r <= rank(l) /\ r \in Nat
    BY <1>1, <1>2, <2>1
  <2>3. rank(l) = r => l \in D /\ p <= l[1] /\ l[1] \in Nat /\ p \in Nat
    BY <1>1, <1>3, <2>1
  <2>4. rank(l) = r /\ l[1] = p => n <= l[2]
    BY <1>4, <2>3
  <2> QED
    BY <2>1, <2>2, <2>3, <2>4 DEF Before, rank
<1>7. \E m \in Covering(b) : \A l \in Covering(b) : Before(m, l)
  BY <1>5, <1>6 DEF C
<1> QED
  BY <1>7 DEF ChosenCredit

-------------------------------------------------------------------------------
(* Types are kept                                                          *)

\* What a handler holds, by where it is.
LEMMA HandlerHolds ==
  ASSUME TypeInv, NEW h \in Handlers
  PROVE  /\ HandlerOK(handler[h])
         /\ At(h, "idle") => handler[h] = Idle
         /\ At(h, "decided") => /\ handler[h] \in DecidedType
                                /\ handler[h].decision = "CREDIT" => handler[h].credit \in Credits
         /\ At(h, "starting") => handler[h] \in StartingType
         /\ At(h, "requesting") => handler[h] \in RequestingType
         /\ At(h, "fulfilling") =>
              /\ handler[h] \in FulfillingType /\ handler[h].session \in DOMAIN sessions
              /\ handler[h].case = sessions[handler[h].session].case
<1>1. HandlerOK(handler[h])
  BY DEF TypeInv, HandlersOK
<1> QED
  BY <1>1 DEF HandlerOK, At, Idle, DecidedType, StartingType, RequestingType, FulfillingType

\* enterQuoted moves one case, and only from DOCS_COMPLETE.
LEMMA Entered ==
  ASSUME DataTypes, NEW c \in Cases, NEW seen, EnterQuoted(c, seen)
  PROVE  /\ status' \in [Cases -> Statuses]
         /\ \A d \in Cases \ {c} : status'[d] = status[d]
         /\ status'[c] = status[c] \/ (status[c] = "DOCS_COMPLETE" /\ status'[c] = "QUOTED")
BY DEF DataTypes, EnterQuoted, Statuses

LEMMA Appended ==
  ASSUME NEW T, NEW q \in Seq(T), NEW e \in T
  PROVE  /\ Append(q, e) \in Seq(T) /\ Len(Append(q, e)) = Len(q) + 1
         /\ DOMAIN q = 1..Len(q) /\ DOMAIN Append(q, e) = 1..(Len(q) + 1)
         /\ DOMAIN Append(q, e) = DOMAIN q \cup {Len(q) + 1} /\ Len(q) + 1 \notin DOMAIN q
         /\ \A i \in DOMAIN q : Append(q, e)[i] = q[i]
         /\ Append(q, e)[Len(q) + 1] = e
BY AppendProperties, LenProperties

\* A step of a handler that buys nothing at Stripe and opens no pack.
LEMMA TypeStep ==
  ASSUME TypeInv, NEW h \in Handlers, NEW r, Become(h, r), HandlerOK(r)',
         DataTypes', UNCHANGED packs, UNCHANGED sessions
  PROVE  TypeInv'
<1>1. HandlersOK'
  BY SameRows, HandlersStep
<1> QED
  BY <1>1 DEF TypeInv

LEMMA TypeCall ==
  ASSUME TypeInv, NEW h \in Handlers, Call(h)
  PROVE  TypeInv'
<1>1. DataTypes
  BY DEF TypeInv
<1>2. ASSUME NEW c \in Cases, NEW u \in Attorneys, AcceptQuote(h, c, u)
      PROVE TypeInv'
  <2> DEFINE b == bucket[c]
             d == QuoteForRecord(u, b)
  <2>r. PICK r : r = [pc |-> "decided", case |-> c, user |-> u, rung |-> b, decision |-> d,
                      seen |-> status[c],
                      credit |-> IF d = "CREDIT" THEN ChosenCredit(b) ELSE <<0, 0>>]
    OBVIOUS
  <2>1. /\ d \in Decisions /\ Quotable(c) /\ Become(h, r)
        /\ UNCHANGED <<status, funds, money, accepted, requests, queue, others>>
    BY <1>2, <2>r DEF AcceptQuote, Decisions
  <2>2. b \in Buckets /\ status[c] \in Seen
    BY <1>1, <2>1 DEF Quotable, DataTypes, Seen
  <2>3. d = "CREDIT" => Covering(b) # {}
    BY DEF QuoteForRecord
  <2>4. d = "CREDIT" => ChosenCredit(b) \in Credits
    BY <1>1, <2>2, <2>3, ChosenCreditCovers DEF Covering
  <2>5. Credits \subseteq Nat \X Nat
    <3>1. DOMAIN packs \subseteq Nat /\ 1..PackRecords \subseteq Nat
      BY <1>1 DEF DataTypes
    <3> QED
      BY <3>1 DEF Credits
  <2> HIDE DEF d, b
  <2>6. r \in DecidedType /\ (r.decision = "CREDIT" => r.credit \in Credits)
    BY <2>r, <2>1, <2>2, <2>4, <2>5 DEF DecidedType
  <2>7. DataTypes' /\ UNCHANGED <<packs, sessions>> /\ Credits' = Credits
    BY <1>1, <2>1 DEF DataTypes, funds, money, queue, others, Credits
  <2>8. HandlerOK(r)'
    BY <2>6, <2>7 DEF HandlerOK
  <2> QED
    BY <2>1, <2>7, <2>8, TypeStep
<1>3. ASSUME NEW c \in Cases, NEW u \in Attorneys, RequestQuote(h, c, u)
      PROVE TypeInv'
  <2>r. PICK r : r = [pc |-> "requesting", case |-> c, seen |-> status[c]]
    OBVIOUS
  <2>1. /\ Quotable(c) /\ Become(h, r)
        /\ UNCHANGED <<status, funds, money, accepted, requests, queue, others>>
    BY <1>3, <2>r DEF RequestQuote
  <2>2. r \in RequestingType
    BY <2>r, <2>1 DEF RequestingType, Quotable, Seen
  <2>3. DataTypes' /\ UNCHANGED <<packs, sessions>>
    BY <1>1, <2>1 DEF DataTypes, funds, money, queue, others, Credits
  <2>4. HandlerOK(r)'
    BY <2>2 DEF HandlerOK
  <2> QED
    BY <2>1, <2>3, <2>4, TypeStep
<1> QED
  BY <1>2, <1>3 DEF Call

\* What a handler that has decided writes.
LEMMA TypeDecided ==
  ASSUME TypeInv, NEW h \in Handlers,
         SpendAllowance(h) \/ SpendCredit(h) \/ CreditRace(h) \/ TakeFreeReview(h) \/ OpenReviewCheckout(h)
  PROVE  TypeInv'
<1>1. DataTypes /\ DOMAIN packs = 1..Len(packs)
  BY DEF TypeInv, DataTypes
<1>2. At(h, "decided") /\ handler[h] \in DecidedType
      /\ (handler[h].decision = "CREDIT" => handler[h].credit \in Credits)
  BY HandlerHolds DEF SpendAllowance, SpendCredit, CreditRace, TakeFreeReview, OpenReviewCheckout
<1>3. PICK c \in Cases : c = handler[h].case
  BY <1>2 DEF DecidedType
<1>4. HandlerOK(Idle)' /\ HandlerOK(Start(c))'
  BY StillOK
<1>5. CASE SpendAllowance(h)
  <2>1. /\ EnterQuoted(c, handler[h].seen) /\ Accept(c, "ALLOWANCE") /\ entries' = entries \cup {c}
        /\ Become(h, Idle) \/ Become(h, Start(c))
        /\ UNCHANGED <<grant, packs, spent, money, requests, queue, others>>
    BY <1>3, <1>5 DEF SpendAllowance
  <2>2. IsFiniteSet(entries')
    BY <1>1, <2>1, FS_AddElement DEF DataTypes
  <2>3. DataTypes'
    BY <1>1, <2>1, <2>2, Entered DEF DataTypes, Accept, money, queue, others, Credits
  <2> QED
    BY <1>4, <2>1, <2>3, TypeStep DEF money
<1>6. CASE SpendCredit(h)
  <2>1. /\ EnterQuoted(c, handler[h].seen) /\ Accept(c, "CREDIT") /\ handler[h].credit \in Credits
        /\ spent' = spent \cup {[credit |-> handler[h].credit, case |-> c]} /\ Become(h, Start(c))
        /\ UNCHANGED <<grant, entries, packs, money, requests, queue, others>>
    BY <1>2, <1>3, <1>6 DEF SpendCredit
  <2>2. spent' \subseteq [credit : Credits, case : Cases] /\ Credits' = Credits
    BY <1>1, <2>1 DEF DataTypes, Credits
  <2>3. DataTypes'
    BY <1>1, <2>1, <2>2, Entered DEF DataTypes, Accept, money, queue, others
  <2> QED
    BY <1>4, <2>1, <2>3, TypeStep DEF money
<1>7. CASE CreditRace(h)
  <2>1. Become(h, Idle) /\ UNCHANGED <<status, funds, money, accepted, requests, queue, others>>
    BY <1>7 DEF CreditRace
  <2>2. DataTypes'
    BY <1>1, <2>1 DEF DataTypes, funds, money, queue, others, Credits
  <2> QED
    BY <1>4, <2>1, <2>2, TypeStep DEF money, funds
<1>8. CASE TakeFreeReview(h)
  <2> DEFINE p == [kind |-> "FREE", case |-> c, user |-> handler[h].user,
                   session |-> 0, state |-> "SUCCEEDED"]
  <2>1. /\ EnterQuoted(c, handler[h].seen) /\ Accept(c, "FREE")
        /\ payments' = Append(payments, p) /\ Become(h, Start(c))
        /\ UNCHANGED <<funds, sessions, requests, queue, others>>
    BY <1>3, <1>8 DEF TakeFreeReview
  <2>2. p \in PaymentType
    BY <1>2 DEF PaymentType, DecidedType
  <2> HIDE DEF p
  <2>3. payments' \in Seq(PaymentType)
    BY <1>1, <2>1, <2>2, Appended DEF DataTypes
  <2>4. DataTypes'
    BY <1>1, <2>1, <2>3, Entered DEF DataTypes, Accept, funds, queue, others, Credits
  <2> QED
    BY <1>4, <2>1, <2>4, TypeStep DEF funds
<1>9. CASE OpenReviewCheckout(h)
  <2> DEFINE x == [kind |-> "review", case |-> c, user |-> handler[h].user,
                   rung |-> handler[h].rung, paid |-> FALSE]
  <2>1. /\ EnterQuoted(c, handler[h].seen)
        /\ sessions' = Append(sessions, x) /\ Become(h, Idle)
        /\ UNCHANGED <<funds, payments, accepted, requests, queue, others>>
    BY <1>3, <1>9 DEF OpenReviewCheckout, OpenSession
  <2>2. x \in SessionType
    BY <1>2 DEF SessionType, DecidedType
  <2> HIDE DEF x
  <2>3. sessions' \in Seq(SessionType) /\ Grows
    BY <1>1, <2>1, <2>2, Appended DEF DataTypes, Grows, funds, Credits
  <2>4. \A s \in DOMAIN sessions' : sessions'[s].kind = "review" => sessions'[s].case \in Cases
    BY <1>1, <2>1, <2>2, Appended DEF DataTypes, x
  <2>6. DataTypes'
    BY <1>1, <2>1, <2>3, <2>4, Entered DEF DataTypes, funds, queue, others, Credits
  <2>5. HandlersOK'
    BY <1>4, <2>1, <2>3, HandlersStep
  <2> QED
    BY <2>5, <2>6 DEF TypeInv
<1> QED
  BY <1>5, <1>6, <1>7, <1>8, <1>9

\* The fulfilment of a paid session.
LEMMA TypeFulfil ==
  ASSUME TypeInv, NEW h \in Handlers,
         \/ \E s \in DOMAIN sessions : FulfillRead(h, s)
         \/ FulfillPack(h) \/ FulfillReview(h) \/ FulfillConflict(h)
  PROVE  TypeInv'
<1>1. DataTypes
  BY DEF TypeInv
<1>2. HandlerOK(Idle)' /\ \A c \in Cases : HandlerOK(Start(c))'
  BY StillOK
<1>3. ASSUME NEW s \in DOMAIN sessions, FulfillRead(h, s)
      PROVE TypeInv'
  <2>r. PICK r : r = [pc |-> "fulfilling", session |-> s, case |-> sessions[s].case,
                      seen |-> IF sessions[s].kind = "pack" THEN None ELSE status[sessions[s].case]]
    OBVIOUS
  <2>1. Become(h, r) /\ UNCHANGED <<status, funds, money, accepted, requests, queue, others>>
    BY <1>3, <2>r DEF FulfillRead
  <2>2. sessions[s] \in SessionType /\ s \in Nat
    BY <1>1 DEF DataTypes
  <2>3. /\ sessions[s].case \in Cases \cup {None} /\ sessions[s].kind \in {"review", "pack"}
        /\ sessions[s].kind = "review" => sessions[s].case \in Cases /\ status[sessions[s].case] \in Statuses
    BY <1>1, <2>2 DEF DataTypes, SessionType
  <2>4. r \in FulfillingType /\ r.session = s /\ r.case = sessions[s].case
        /\ (sessions[s].kind = "review" => r.seen \in Statuses)
    BY <2>r, <2>2, <2>3 DEF FulfillingType
  <2>5. DataTypes' /\ UNCHANGED <<packs, sessions>>
    BY <1>1, <2>1 DEF DataTypes, funds, money, queue, others, Credits
  <2>6. HandlerOK(r)'
    BY <2>4, <2>5 DEF HandlerOK
  <2> QED
    BY <2>1, <2>5, <2>6, TypeStep
<1>4. ASSUME FulfillPack(h) \/ FulfillReview(h), NEW kind \in {"PACK", "CARD"}, Book(handler[h].session, kind)
      PROVE payments' \in Seq(PaymentType)
  <2> DEFINE s == handler[h].session
             p == [kind |-> kind, case |-> sessions[s].case, user |-> sessions[s].user,
                   session |-> s, state |-> "SUCCEEDED"]
  <2>1. s \in DOMAIN sessions
    BY <1>4, HandlerHolds DEF FulfillPack, FulfillReview
  <2>2. sessions[s] \in SessionType /\ s \in Nat
    BY <1>1, <2>1 DEF DataTypes
  <2>3. p \in PaymentType
    BY <2>2 DEF PaymentType, SessionType
  <2> HIDE DEF p
  <2>4. payments' = Append(payments, p)
    BY <1>4 DEF Book, p
  <2> QED
    BY <1>1, <2>3, <2>4, Appended DEF DataTypes
<1>5. CASE FulfillPack(h)
  <2> DEFINE s == handler[h].session
             x == [rung |-> sessions[s].rung, expired |-> FALSE]
  <2>1. /\ s \in DOMAIN sessions /\ payments' \in Seq(PaymentType)
        /\ packs' = Append(packs, x) /\ Become(h, Idle)
        /\ UNCHANGED <<status, grant, entries, spent, sessions, accepted, requests, queue, others>>
    BY <1>4, <1>5, HandlerHolds DEF FulfillPack
  <2>2. x \in PackType
    <3>1. sessions[s] \in SessionType
      BY <1>1, <2>1 DEF DataTypes
    <3> QED
      BY <3>1 DEF PackType, SessionType
  <2> HIDE DEF s, x
  <2>3. packs' \in Seq(PackType) /\ DOMAIN packs \subseteq DOMAIN packs'
    BY <1>1, <2>1, <2>2, Appended DEF DataTypes
  <2>4. Credits \subseteq Credits'
    BY <2>3 DEF Credits
  <2>5. Grows
    BY <2>1, <2>4 DEF Grows
  <2>6. spent' \subseteq [credit : Credits', case : Cases]
    BY <1>1, <2>1, <2>4 DEF DataTypes
  <2>7. DataTypes'
    BY <1>1, <2>1, <2>3, <2>6 DEF DataTypes, queue, others
  <2>8. HandlersOK'
    BY <1>2, <2>1, <2>5, HandlersStep
  <2> QED
    BY <2>7, <2>8 DEF TypeInv
<1>6. CASE FulfillReview(h)
  <2>1. handler[h].session \in DOMAIN sessions /\ handler[h].case = sessions[handler[h].session].case
        /\ sessions[handler[h].session].kind = "review"
    BY <1>6, HandlerHolds DEF FulfillReview
  <2>2. PICK c \in Cases : c = handler[h].case
    BY <1>1, <2>1 DEF DataTypes
  <2>3. /\ payments' \in Seq(PaymentType)
        /\ \/ EnterQuoted(c, handler[h].seen) /\ Accept(c, "CARD")
           \/ UNCHANGED <<status, accepted>>
        /\ Become(h, Start(c)) /\ UNCHANGED <<funds, sessions, requests, queue, others>>
    BY <1>4, <1>6, <2>2 DEF FulfillReview
  <2>4. DataTypes'
    BY <1>1, <2>3, Entered DEF DataTypes, Accept, funds, queue, others, Credits
  <2> QED
    BY <1>2, <2>3, <2>4, TypeStep DEF funds
<1>7. CASE FulfillConflict(h)
  <2>1. Become(h, Idle) /\ UNCHANGED <<status, funds, money, accepted, requests, queue, others>>
    BY <1>7 DEF FulfillConflict
  <2>2. DataTypes'
    BY <1>1, <2>1 DEF DataTypes, funds, money, queue, others, Credits
  <2> QED
    BY <1>2, <2>1, <2>2, TypeStep DEF money, funds
<1> QED
  BY <1>3, <1>5, <1>6, <1>7

\* The other steps of a handler.
LEMMA TypeAfter ==
  ASSUME TypeInv, NEW h \in Handlers, OpenRequest(h) \/ StartAnalysis(h) \/ Die(h)
  PROVE  TypeInv'
<1>1. DataTypes
  BY DEF TypeInv
<1>2. HandlerOK(Idle)'
  BY StillOK
<1>3. CASE OpenRequest(h)
  <2>1. PICK c \in Cases : c = handler[h].case
    BY <1>3, HandlerHolds DEF OpenRequest, RequestingType
  <2>2. /\ EnterQuoted(c, handler[h].seen) /\ Become(h, Idle)
        /\ UNCHANGED <<funds, money, accepted, queue, others>>
    BY <1>3, <2>1 DEF OpenRequest
  <2>3. DataTypes'
    BY <1>1, <2>2, Entered DEF DataTypes, funds, money, queue, others, Credits
  <2> QED
    BY <1>2, <2>2, <2>3, TypeStep DEF money, funds
<1>4. CASE StartAnalysis(h)
  <2>1. PICK c \in Cases : c = handler[h].case
    BY <1>4, HandlerHolds DEF StartAnalysis, StartingType
  <2>2. /\ job' = [job EXCEPT ![c] = IF @ = None THEN "waiting" ELSE @] /\ Become(h, Idle)
        /\ UNCHANGED <<status, funds, money, accepted, requests, runs, others>>
    BY <1>4, <2>1 DEF StartAnalysis
  <2>3. DataTypes'
    BY <1>1, <2>2 DEF DataTypes, funds, money, others, Credits
  <2> QED
    BY <1>2, <2>2, <2>3, TypeStep DEF money, funds
<1>5. CASE Die(h)
  <2>1. Become(h, Idle) /\ UNCHANGED <<status, bucket, funds, money, accepted, requests, queue, reopened>>
    BY <1>5 DEF Die
  <2>2. DataTypes'
    BY <1>1, <2>1 DEF DataTypes, funds, money, queue, Credits
  <2> QED
    BY <1>2, <2>1, <2>2, TypeStep DEF money, funds
<1> QED
  BY <1>3, <1>4, <1>5

\* The steps of the record, the pipeline and the console on one case.
LEMMA TypeCase ==
  ASSUME TypeInv, NEW c \in Cases, Case(c)
  PROVE  TypeInv'
<1>1. DataTypes
  BY DEF TypeInv
<1>2. handler' = handler /\ UNCHANGED <<funds, money, accepted>>
  BY DEF Case, Meter, RecordsComplete, RunAnalysis, Rerun, Reanalyze, Resume, DecideQuoteRequest
<1>3. /\ status' \in [Cases -> Statuses] /\ bucket' \in [Cases -> Buckets \cup {NotMetered}]
      /\ job' \in [Cases -> {None, "waiting", "completed", "failed"}] /\ runs' \subseteq Cases
  <2>1. CASE \E b \in Buckets : Meter(c, b)
    BY <1>1, <2>1 DEF Meter, DataTypes, queue
  <2>2. CASE RecordsComplete(c)
    BY <1>1, <2>2 DEF RecordsComplete, DataTypes, queue, others, Statuses
  <2>3. CASE RunAnalysis(c)
    BY <1>1, <2>3 DEF RunAnalysis, DataTypes, others, Statuses
  <2>4. CASE Rerun(c)
    BY <1>1, <2>4 DEF Rerun, DataTypes, queue, Statuses
  <2>5. CASE Reanalyze(c)
    BY <1>1, <2>5 DEF Reanalyze, DataTypes, Statuses
  <2>6. CASE Resume(c)
    BY <1>1, <2>6 DEF Resume, DataTypes, others
  <2>7. CASE \E i \in DOMAIN requests[c], a \in {"QUOTED", "DECLINED"} : DecideQuoteRequest(c, i, a)
    BY <1>1, <2>7 DEF DecideQuoteRequest, DataTypes, queue, others
  <2> QED
    BY <2>1, <2>2, <2>3, <2>4, <2>5, <2>6, <2>7 DEF Case
<1>4. DataTypes'
  BY <1>1, <1>2, <1>3 DEF DataTypes, funds, money, Credits
<1>5. HandlersOK'
  BY <1>2, SameRows, HandlersRest DEF funds, money
<1> QED
  BY <1>4, <1>5 DEF TypeInv

\* The steps of Stripe, the staff and the clock.
Shop ==
  \/ \E u \in Attorneys, r \in Buckets : BuyPack(u, r)
  \/ \E s \in DOMAIN sessions : PaySession(s)
  \/ \E n \in Grants : SetAllowance(n)
  \/ PeriodEnds
  \/ \E p \in DOMAIN packs : PackExpires(p)
  \/ \E i \in DOMAIN payments, s \in {"PARTIALLY_REFUNDED", "REFUNDED"} : Refund(i, s)

LEMMA TypeShop ==
  ASSUME TypeInv, Shop
  PROVE  TypeInv'
<1>1. DataTypes
  BY DEF TypeInv
<1>2. ASSUME DataTypes', handler' = handler, Grows PROVE TypeInv'
  BY <1>2, HandlersRest DEF TypeInv
<1>3. ASSUME NEW u \in Attorneys, NEW r \in Buckets, BuyPack(u, r)
      PROVE TypeInv'
  <2> DEFINE x == [kind |-> "pack", case |-> None, user |-> u, rung |-> r, paid |-> FALSE]
  <2>1. /\ sessions' = Append(sessions, x) /\ x.kind = "pack" /\ handler' = handler
        /\ UNCHANGED <<status, funds, payments, accepted, requests, queue, others>>
    BY <1>3 DEF BuyPack, OpenSession
  <2>2. x \in SessionType
    BY DEF SessionType
  <2> HIDE DEF x
  <2>3. sessions' \in Seq(SessionType) /\ Grows
        /\ \A s \in DOMAIN sessions' : sessions'[s].kind = "review" => sessions'[s].case \in Cases
    BY <1>1, <2>1, <2>2, Appended DEF DataTypes, Grows, funds, Credits
  <2>4. DataTypes'
    BY <1>1, <2>1, <2>3 DEF DataTypes, funds, queue, others, Credits
  <2> QED
    BY <1>2, <2>1, <2>3, <2>4
<1>4. ASSUME NEW s \in DOMAIN sessions, PaySession(s)
      PROVE TypeInv'
  <2>1. /\ sessions' = [sessions EXCEPT ![s].paid = TRUE] /\ handler' = handler
        /\ UNCHANGED <<status, funds, payments, accepted, requests, queue, others>>
    BY <1>4 DEF PaySession
  <2>2. sessions[s] \in SessionType
    BY <1>1 DEF DataTypes
  <2>3. [sessions[s] EXCEPT !.paid = TRUE] \in SessionType
    BY <2>2 DEF SessionType
  <2>4. sessions' = [sessions EXCEPT ![s] = [sessions[s] EXCEPT !.paid = TRUE]]
    BY <2>1
  <2>5. sessions' \in Seq(SessionType) /\ DOMAIN sessions' = DOMAIN sessions
    BY <1>1, <2>3, <2>4 DEF DataTypes
  <2>6. \A t \in DOMAIN sessions : sessions'[t].kind = sessions[t].kind /\ sessions'[t].case = sessions[t].case
    BY <1>1, <2>2, <2>4 DEF DataTypes, SessionType
  <2>7. Grows
    BY <2>1, <2>5, <2>6 DEF Grows, funds, Credits
  <2>8. DataTypes'
    BY <1>1, <2>1, <2>5, <2>6 DEF DataTypes, funds, queue, others, Credits
  <2> QED
    BY <1>2, <2>1, <2>7, <2>8
<1>5. ASSUME (\E n \in Grants : SetAllowance(n)) \/ PeriodEnds
      PROVE TypeInv'
  <2>1. handler' = handler
        /\ UNCHANGED <<status, bucket, entries, packs, spent, money, accepted, requests, queue>>
    BY <1>5 DEF SetAllowance, PeriodEnds
  <2>2. grant' \in [records : Grants, open : BOOLEAN]
    <3>1. CASE PeriodEnds
      <4>1. grant \in [records : Grants, open : BOOLEAN] /\ grant' = [grant EXCEPT !.open = FALSE]
        BY <1>1, <3>1 DEF PeriodEnds, DataTypes
      <4> QED
        BY <4>1
    <3>2. ASSUME NEW n \in Grants, SetAllowance(n)
          PROVE grant' \in [records : Grants, open : BOOLEAN]
      BY <3>2 DEF SetAllowance
    <3> QED
      BY <1>5, <3>1, <3>2
  <2>3. DataTypes'
    BY <1>1, <2>1, <2>2 DEF DataTypes, money, queue, Credits
  <2> QED
    BY <1>2, <2>1, <2>3, SameRows DEF money
<1>6. ASSUME NEW p \in DOMAIN packs, PackExpires(p)
      PROVE TypeInv'
  <2>1. /\ packs' = [packs EXCEPT ![p].expired = TRUE] /\ handler' = handler
        /\ UNCHANGED <<status, bucket, grant, entries, spent, money, accepted, requests, queue>>
    BY <1>6 DEF PackExpires
  <2>2. packs[p] \in PackType
    BY <1>1 DEF DataTypes
  <2>3. [packs[p] EXCEPT !.expired = TRUE] \in PackType
    BY <2>2 DEF PackType
  <2>4. packs' = [packs EXCEPT ![p] = [packs[p] EXCEPT !.expired = TRUE]]
    BY <2>1
  <2>5. packs' \in Seq(PackType) /\ DOMAIN packs' = DOMAIN packs
    BY <1>1, <2>3, <2>4 DEF DataTypes
  <2>6. Grows /\ Credits' = Credits
    BY <2>1, <2>5 DEF Grows, money, Credits
  <2>7. DataTypes'
    BY <1>1, <2>1, <2>5, <2>6 DEF DataTypes, money, queue
  <2> QED
    BY <1>2, <2>1, <2>6, <2>7
<1>7. ASSUME NEW i \in DOMAIN payments, NEW x \in {"PARTIALLY_REFUNDED", "REFUNDED"}, Refund(i, x)
      PROVE TypeInv'
  <2> DEFINE c == payments[i].case
  <2>1. /\ payments' = [payments EXCEPT ![i].state = x] /\ handler' = handler
        /\ status' = IF x = "REFUNDED" THEN [status EXCEPT ![c] = "REFUNDED"] ELSE status
        /\ UNCHANGED <<funds, sessions, accepted, requests, queue, bucket, reopened>>
    BY <1>7 DEF Refund
  <2>2. payments[i] \in PaymentType
    BY <1>1 DEF DataTypes
  <2>3. [payments[i] EXCEPT !.state = x] \in PaymentType
    BY <2>2 DEF PaymentType
  <2>4. payments' = [payments EXCEPT ![i] = [payments[i] EXCEPT !.state = x]]
    BY <2>1
  <2>5. payments' \in Seq(PaymentType)
    BY <1>1, <2>3, <2>4 DEF DataTypes
  <2>6. status' \in [Cases -> Statuses]
    BY <1>1, <2>1 DEF DataTypes, Statuses
  <2>7. DataTypes'
    BY <1>1, <2>1, <2>5, <2>6 DEF DataTypes, funds, queue, Credits
  <2> QED
    BY <1>2, <2>1, <2>7, SameRows DEF funds
<1> QED
  BY <1>3, <1>4, <1>5, <1>6, <1>7 DEF Shop

LEMMA StepsOfNext ==
  ASSUME [Next]_vars
  PROVE  \/ \E h \in Handlers : Call(h) \/ Continue(h) \/ \E s \in DOMAIN sessions : FulfillRead(h, s)
         \/ \E c \in Cases : Case(c)
         \/ Shop
         \/ UNCHANGED vars
BY DEF Next, Shop

LEMMA TypeNext == TypeInv /\ [Next]_vars => TypeInv'
<1> SUFFICES ASSUME TypeInv, [Next]_vars PROVE TypeInv'
  OBVIOUS
<1>1. ASSUME NEW h \in Handlers, Call(h) \/ Continue(h) \/ \E s \in DOMAIN sessions : FulfillRead(h, s)
      PROVE TypeInv'
  BY <1>1, TypeCall, TypeDecided, TypeFulfil, TypeAfter DEF Continue
<1>2. CASE UNCHANGED vars
  <2>1. DataTypes'
    BY <1>2 DEF TypeInv, DataTypes, vars, Credits
  <2> QED
    BY <1>2, <2>1, SameRows, HandlersRest DEF TypeInv, vars
<1> QED
  BY <1>1, <1>2, TypeCase, TypeShop, StepsOfNext

LEMMA TypeInit == Init => TypeInv
<1> SUFFICES ASSUME Init PROVE TypeInv
  OBVIOUS
<1>1. DataTypes
  <2>1. grant \in [records : Grants, open : BOOLEAN]
    BY DEF Init
  <2>2. /\ packs \in Seq(PackType) /\ sessions \in Seq(SessionType) /\ payments \in Seq(PaymentType)
        /\ \A s \in DOMAIN sessions : sessions[s].kind = "review" => sessions[s].case \in Cases
        /\ IsFiniteSet(entries)
    BY EmptySeq, FS_EmptySet DEF Init
  <2> QED
    BY <2>1, <2>2 DEF Init, DataTypes, Statuses, Credits
<1>2. HandlersOK
  BY DEF Init, HandlersOK, HandlerOK
<1> QED
  BY <1>1, <1>2 DEF TypeInv

-------------------------------------------------------------------------------
(* Rows: a session is booked once, a credit spent once                     *)

\* What is said of one payment row.
LEMMA RowsAre == RowsInv =>
  /\ Len(sessions) <= MaxSessions
  /\ \A i \in DOMAIN payments : RowOK(payments[i])
  /\ \A i, j \in MoneyRows : payments[i].session = payments[j].session => i = j
  /\ \A s, t \in spent : s.credit = t.credit => s = t
  /\ Len(packs) = Cardinality(PackRows)
BY DEF RowsInv, RowOK

LEMMA PackRowsFinite == DataTypes => IsFiniteSet(DOMAIN payments) /\ IsFiniteSet(PackRows) /\ IsFiniteSet(MoneyRows)
<1> SUFFICES ASSUME DataTypes PROVE IsFiniteSet(DOMAIN payments) /\ IsFiniteSet(PackRows) /\ IsFiniteSet(MoneyRows)
  OBVIOUS
<1>1. DOMAIN payments = 1..Len(payments) /\ Len(payments) \in Nat
  BY DEF DataTypes
<1>2. IsFiniteSet(DOMAIN payments)
  BY <1>1, FS_Interval
<1>3. PackRows \in SUBSET DOMAIN payments /\ MoneyRows \in SUBSET DOMAIN payments
  BY DEF PackRows, MoneyRows
<1> QED
  BY <1>2, <1>3, FS_Subset

\* Nothing of what the rows say changes.
LEMMA RowsSame ==
  ASSUME RowsInv, UNCHANGED payments, UNCHANGED spent,
         DOMAIN sessions \subseteq DOMAIN sessions', Len(sessions') <= MaxSessions, Len(packs') = Len(packs)
  PROVE  RowsInv'
BY DEF RowsInv, RowOK, MoneyRows, PackRows

\* A new row for something else than a session, or for a session that has none.
LEMMA RowAdded ==
  ASSUME DataTypes, RowsInv, NEW p \in PaymentType, payments' = Append(payments, p), UNCHANGED spent,
         RowOK(p), UNCHANGED sessions,
         p.kind # "FREE" => \A i \in DOMAIN payments : payments[i].session # p.session,
         Len(packs') = Len(packs) + (IF p.kind = "PACK" THEN 1 ELSE 0)
  PROVE  RowsInv'
<1> DEFINE n == Len(payments) + 1
<1>1. payments \in Seq(PaymentType)
  BY DEF DataTypes
<1>2. /\ DOMAIN payments' = DOMAIN payments \cup {n} /\ n \notin DOMAIN payments
      /\ \A i \in DOMAIN payments : payments'[i] = payments[i]
      /\ payments'[n] = p
  BY <1>1, Appended
<1> HIDE DEF n
<1>3. PackRows' = IF p.kind = "PACK" THEN PackRows \cup {n} ELSE PackRows
  BY <1>2 DEF PackRows
<1>4. MoneyRows' = IF p.kind # "FREE" THEN MoneyRows \cup {n} ELSE MoneyRows
  BY <1>2 DEF MoneyRows
<1>5. n \notin PackRows /\ MoneyRows \subseteq DOMAIN payments
  BY <1>2 DEF PackRows, MoneyRows
<1>6. Cardinality(PackRows') = Cardinality(PackRows) + (IF p.kind = "PACK" THEN 1 ELSE 0)
  <2>1. Cardinality(PackRows) \in Nat
    BY PackRowsFinite, FS_CardinalityType
  <2>2. CASE p.kind = "PACK"
    BY <1>3, <1>5, <2>2, PackRowsFinite, FS_AddElement
  <2>3. CASE p.kind # "PACK"
    BY <1>3, <2>1, <2>3
  <2> QED
    BY <2>2, <2>3
<1>7. \A i, j \in MoneyRows' : payments'[i].session = payments'[j].session => i = j
  BY <1>2, <1>4, <1>5, RowsAre
<1>8. ASSUME NEW i \in DOMAIN payments'
      PROVE  (/\ payments[i].kind # "PACK" => payments[i].case \in Cases
              /\ payments[i].kind # "FREE" => payments[i].session \in DOMAIN sessions
              /\ payments[i].kind = "FREE" => payments[i].session = 0 /\ payments[i].state = "SUCCEEDED")'
  BY <1>2, RowsAre DEF RowOK
<1>9. Len(packs') = Cardinality(PackRows')
  BY <1>6, RowsAre
<1>10. Len(sessions') <= MaxSessions /\ \A s, t \in spent' : s.credit = t.credit => s = t
  BY RowsAre
<1> QED
  BY <1>7, <1>8, <1>9, <1>10 DEF RowsInv, RowOK

LEMMA RowsHandlers ==
  ASSUME TypeInv, RowsInv, NEW h \in Handlers, Call(h) \/ Continue(h) \/ \E s \in DOMAIN sessions : FulfillRead(h, s)
  PROVE  RowsInv'
<1>1. DataTypes /\ DataTypes'
  <2>1. TypeInv'
    BY TypeCall, TypeDecided, TypeFulfil, TypeAfter DEF Continue
  <2> QED
    BY <2>1 DEF TypeInv
<1>2. CASE SpendCredit(h)
  <2>1. /\ handler[h].credit \notin SpentCredits /\ UNCHANGED <<packs, money>>
        /\ spent' = spent \cup {[credit |-> handler[h].credit, case |-> handler[h].case]}
    BY <1>2 DEF SpendCredit
  <2>2. \A s, t \in spent' : s.credit = t.credit => s = t
    BY <2>1, RowsAre DEF SpentCredits
  <2> QED
    BY <2>1, <2>2 DEF RowsInv, RowOK, MoneyRows, PackRows, money
<1>3. CASE TakeFreeReview(h)
  <2>1. PICK p : p = [kind |-> "FREE", case |-> handler[h].case, user |-> handler[h].user,
                      session |-> 0, state |-> "SUCCEEDED"]
    OBVIOUS
  <2>2. handler[h] \in DecidedType /\ payments' = Append(payments, p) /\ UNCHANGED <<spent, packs, sessions>>
    BY <1>3, <2>1, HandlerHolds DEF TakeFreeReview, funds
  <2>3. p \in PaymentType /\ RowOK(p) /\ p.kind = "FREE"
    BY <2>1, <2>2 DEF PaymentType, DecidedType, RowOK
  <2>4. Len(packs') = Len(packs) + (IF p.kind = "PACK" THEN 1 ELSE 0)
    BY <1>1, <2>2, <2>3 DEF DataTypes
  <2> QED
    BY <1>1, <2>2, <2>3, <2>4, RowAdded
<1>4. ASSUME FulfillPack(h) \/ FulfillReview(h), NEW kind \in {"PACK", "CARD"}, Book(handler[h].session, kind),
             kind = "CARD" => UNCHANGED packs /\ handler[h].case \in Cases,
             kind = "PACK" => Len(packs') = Len(packs) + 1
      PROVE RowsInv'
  <2> DEFINE s == handler[h].session
  <2>1. PICK p : p = [kind |-> kind, case |-> sessions[s].case, user |-> sessions[s].user,
                      session |-> s, state |-> "SUCCEEDED"]
    OBVIOUS
  <2>2. s \in DOMAIN sessions /\ handler[h].case = sessions[s].case /\ ~Fulfilled(s) /\ UNCHANGED <<sessions, spent>>
    BY <1>4, HandlerHolds DEF FulfillPack, FulfillReview, funds
  <2>3. sessions[s] \in SessionType /\ s \in Nat
    BY <1>1, <2>2 DEF DataTypes
  <2>4. p \in PaymentType /\ RowOK(p) /\ p.session = s /\ p.kind = kind
    BY <1>4, <2>1, <2>2, <2>3 DEF PaymentType, SessionType, RowOK
  <2>5. payments' = Append(payments, p) /\ \A i \in DOMAIN payments : payments[i].session # p.session
    BY <1>4, <2>1, <2>2, <2>4 DEF Book, Fulfilled
  <2>6. Len(packs') = Len(packs) + (IF p.kind = "PACK" THEN 1 ELSE 0)
    BY <1>1, <1>4, <2>4 DEF DataTypes
  <2> HIDE DEF s
  <2> QED
    BY <1>1, <2>2, <2>4, <2>5, <2>6, RowAdded
<1>5. CASE FulfillPack(h)
  <2>1. Book(handler[h].session, "PACK") /\ packs' = Append(packs, [rung |-> sessions[handler[h].session].rung, expired |-> FALSE])
    BY <1>5 DEF FulfillPack
  <2>2. Len(packs') = Len(packs) + 1
    BY <1>1, <2>1 DEF DataTypes
  <2> QED
    BY <1>4, <1>5, <2>1, <2>2
<1>6. CASE FulfillReview(h)
  <2>1. Book(handler[h].session, "CARD") /\ UNCHANGED packs /\ sessions[handler[h].session].kind = "review"
    BY <1>6 DEF FulfillReview, funds
  <2>2. handler[h].case \in Cases
    BY <1>1, <1>6, <2>1, HandlerHolds DEF FulfillReview, DataTypes
  <2> QED
    BY <1>4, <1>6, <2>1, <2>2
<1>7. CASE OpenReviewCheckout(h)
  <2>1. /\ UNCHANGED <<payments, spent, packs>> /\ Len(sessions) < MaxSessions
        /\ \E x \in [kind : {"review"}, case : {handler[h].case}, user : {handler[h].user},
                      rung : {handler[h].rung}, paid : {FALSE}] : sessions' = Append(sessions, x)
    BY <1>7 DEF OpenReviewCheckout, OpenSession, funds
  <2>2. DOMAIN sessions \subseteq DOMAIN sessions' /\ Len(sessions') = Len(sessions) + 1 /\ Len(sessions) \in Nat
    BY <1>1, <2>1 DEF DataTypes
  <2> QED
    BY <2>1, <2>2, CommerceAssumption, RowsSame
<1>8. CASE UNCHANGED <<payments, spent, packs, sessions>>
  BY <1>8, RowsAre, RowsSame
<1> QED
  BY <1>2, <1>3, <1>5, <1>6, <1>7, <1>8
     DEF Call, Continue, AcceptQuote, RequestQuote, SpendAllowance, CreditRace, OpenRequest, FulfillRead,
         FulfillConflict, StartAnalysis, Die, funds, money

LEMMA RowsCaseAndShop ==
  ASSUME TypeInv, RowsInv, Shop \/ \E c \in Cases : Case(c)
  PROVE  RowsInv'
<1>1. DataTypes
  BY DEF TypeInv
<1>2. CASE \E c \in Cases : Case(c)
  <2>1. UNCHANGED <<payments, spent, packs, sessions>>
    BY <1>2 DEF Case, Meter, RecordsComplete, RunAnalysis, Rerun, Reanalyze, Resume, DecideQuoteRequest, funds, money
  <2> QED
    BY <2>1, RowsAre, RowsSame
<1>3. ASSUME NEW u \in Attorneys, NEW r \in Buckets, BuyPack(u, r)
      PROVE RowsInv'
  <2>1. /\ UNCHANGED <<payments, spent, packs>> /\ Len(sessions) < MaxSessions
        /\ sessions' = Append(sessions, [kind |-> "pack", case |-> None, user |-> u, rung |-> r, paid |-> FALSE])
    BY <1>3 DEF BuyPack, OpenSession, funds
  <2>2. DOMAIN sessions \subseteq DOMAIN sessions' /\ Len(sessions') = Len(sessions) + 1 /\ Len(sessions) \in Nat
    BY <1>1, <2>1 DEF DataTypes
  <2> QED
    BY <2>1, <2>2, CommerceAssumption, RowsSame
<1>4. ASSUME NEW s \in DOMAIN sessions, PaySession(s)
      PROVE RowsInv'
  <2>1. UNCHANGED <<payments, spent, packs>> /\ sessions' = [sessions EXCEPT ![s].paid = TRUE]
    BY <1>4 DEF PaySession, funds
  <2>2. DOMAIN sessions' = DOMAIN sessions /\ Len(sessions') = Len(sessions)
    BY <1>1, <2>1 DEF DataTypes
  <2> QED
    BY <2>1, <2>2, RowsAre, RowsSame
<1>5. CASE (\E n \in Grants : SetAllowance(n)) \/ PeriodEnds
  <2>1. UNCHANGED <<payments, spent, packs, sessions>>
    BY <1>5 DEF SetAllowance, PeriodEnds, money
  <2> QED
    BY <2>1, RowsAre, RowsSame
<1>6. ASSUME NEW p \in DOMAIN packs, PackExpires(p)
      PROVE RowsInv'
  <2>1. UNCHANGED <<payments, spent, sessions>> /\ packs' = [packs EXCEPT ![p].expired = TRUE]
    BY <1>6 DEF PackExpires, money
  <2>2. Len(packs') = Len(packs)
    BY <1>1, <2>1 DEF DataTypes
  <2> QED
    BY <2>1, <2>2, RowsAre, RowsSame
<1>7. ASSUME NEW i \in DOMAIN payments, NEW x \in {"PARTIALLY_REFUNDED", "REFUNDED"}, Refund(i, x)
      PROVE RowsInv'
  <2>1. UNCHANGED <<packs, spent, sessions>> /\ payments[i].kind = "CARD" /\ payments' = [payments EXCEPT ![i].state = x]
    BY <1>7 DEF Refund, funds
  <2>2. payments[i] \in PaymentType /\ DOMAIN payments' = DOMAIN payments
    BY <1>1, <2>1 DEF DataTypes
  <2>3. \A j \in DOMAIN payments :
          /\ payments'[j].kind = payments[j].kind /\ payments'[j].case = payments[j].case
          /\ payments'[j].session = payments[j].session
          /\ payments[j].kind = "FREE" => payments'[j] = payments[j]
    BY <1>1, <2>1, <2>2 DEF DataTypes, PaymentType
  <2>4. PackRows' = PackRows /\ MoneyRows' = MoneyRows /\ MoneyRows \subseteq DOMAIN payments
    BY <2>2, <2>3 DEF PackRows, MoneyRows
  <2> QED
    BY <2>1, <2>2, <2>3, <2>4 DEF RowsInv, RowOK
<1> QED
  BY <1>2, <1>3, <1>4, <1>5, <1>6, <1>7 DEF Shop

LEMMA RowsNext == TypeInv /\ RowsInv /\ [Next]_vars => RowsInv'
<1> SUFFICES ASSUME TypeInv, RowsInv, [Next]_vars PROVE RowsInv'
  OBVIOUS
<1>1. CASE UNCHANGED vars
  BY <1>1, RowsAre, RowsSame DEF vars
<1> QED
  BY <1>1, RowsHandlers, RowsCaseAndShop, StepsOfNext

LEMMA RowsInit == Init => RowsInv
<1> SUFFICES ASSUME Init PROVE RowsInv
  OBVIOUS
<1>1. DOMAIN payments = {} /\ Len(packs) = 0 /\ Len(sessions) = 0
  BY EmptySeq DEF Init
<1>2. PackRows = {} /\ MoneyRows = {}
  BY <1>1 DEF PackRows, MoneyRows
<1> QED
  BY <1>1, <1>2, FS_EmptySet, CommerceAssumption DEF Init, RowsInv

-------------------------------------------------------------------------------
(* Counts: what is taken and what is about to be taken                     *)

\* Who decides after a handler's step.
LEMMA DecidingAfter ==
  ASSUME TypeInv, NEW h \in Handlers, NEW r, Become(h, r), NEW d, NEW u
  PROVE  /\ Deciding(d)' = IF r.pc = "decided" /\ r.decision = d THEN Deciding(d) \cup {h} ELSE Deciding(d) \ {h}
         /\ FreeOf(u)' = IF r.pc = "decided" /\ r.decision = "FREE" /\ r.user = u
                         THEN FreeOf(u) \cup {h} ELSE FreeOf(u) \ {h}
<1>1. DOMAIN handler = Handlers /\ handler'[h] = r /\ \A k \in Handlers \ {h} : handler'[k] = handler[k]
  BY DEF TypeInv, HandlersOK, Become
<1>2. \A k : k \in Deciding(d)' <=>
               k \in (IF r.pc = "decided" /\ r.decision = d THEN Deciding(d) \cup {h} ELSE Deciding(d) \ {h})
  BY <1>1 DEF Deciding
<1>3. \A k : k \in FreeOf(u)' <=>
               k \in (IF r.pc = "decided" /\ r.decision = "FREE" /\ r.user = u
                      THEN FreeOf(u) \cup {h} ELSE FreeOf(u) \ {h})
  BY <1>1 DEF Deciding, FreeOf
<1> QED
  BY <1>2, <1>3

\* The decided are handlers, so there are finitely many and not more than those.
LEMMA DecidingFinite ==
  ASSUME NEW S \in SUBSET Handlers
  PROVE  IsFiniteSet(S) /\ Cardinality(S) \in Nat /\ Cardinality(S) <= Cardinality(Handlers)
         /\ Cardinality(Handlers) \in Nat /\ Cardinality(Handlers) >= 1
<1>1. IsFiniteSet(Handlers) /\ Handlers # {}
  BY CommerceAssumption
<1>2. Cardinality(Handlers) \in Nat /\ Cardinality(Handlers) # 0
  BY <1>1, FS_CardinalityType, FS_EmptySet
<1>3. IsFiniteSet(S) /\ Cardinality(S) <= Cardinality(Handlers)
  BY <1>1, FS_Subset
<1>4. Cardinality(S) \in Nat
  BY <1>3, FS_CardinalityType
<1> QED
  BY <1>2, <1>3, <1>4

LEMMA AreHandlers == \A d, u : Deciding(d) \subseteq Handlers /\ FreeOf(u) \subseteq Handlers
BY DEF Deciding, FreeOf

LEMMA FreeRowsFinite ==
  ASSUME DataTypes, NEW u
  PROVE  /\ IsFiniteSet(FreeReviews) /\ Cardinality(FreeReviews) \in Nat
         /\ IsFiniteSet(FreeRows(u)) /\ Cardinality(FreeRows(u)) \in Nat
         /\ FreeReviews \subseteq DOMAIN payments /\ FreeRows(u) \subseteq DOMAIN payments
<1>1. FreeReviews \in SUBSET DOMAIN payments /\ FreeRows(u) \in SUBSET DOMAIN payments
  BY DEF FreeReviews, FreeRows, PaymentsOf
<1>2. IsFiniteSet(FreeReviews) /\ IsFiniteSet(FreeRows(u))
  BY <1>1, PackRowsFinite, FS_Subset
<1> QED
  BY <1>1, <1>2, FS_CardinalityType

\* Fewer about to take, nothing more taken.
LEMMA FewerHandlers ==
  ASSUME NEW S \in SUBSET Handlers, NEW T \in SUBSET S
  PROVE  Cardinality(T) <= Cardinality(S) /\ Cardinality(T) \in Nat /\ Cardinality(S) \in Nat
BY DecidingFinite, FS_Subset

LEMMA EntriesFinite == DataTypes => IsFiniteSet(entries) /\ Cardinality(entries) \in Nat
BY FS_CardinalityType DEF DataTypes

LEMMA AllowanceFewer ==
  ASSUME DataTypes, AllowanceCount, UNCHANGED entries, Deciding("ALLOWANCE")' \subseteq Deciding("ALLOWANCE")
  PROVE  AllowanceCount'
<1>1. Cardinality(Handlers) \in Nat /\ Grants \subseteq Nat
  BY DecidingFinite, CommerceAssumption
<1>2. PICK n \in Grants : Cardinality(entries) + Cardinality(Deciding("ALLOWANCE")) <= n + Cardinality(Handlers) - 1
  BY DEF AllowanceCount
<1>3. Cardinality(Deciding("ALLOWANCE")') <= Cardinality(Deciding("ALLOWANCE"))
      /\ Cardinality(Deciding("ALLOWANCE")') \in Nat /\ Cardinality(Deciding("ALLOWANCE")) \in Nat
  BY FewerHandlers, AreHandlers
<1>4. Cardinality(entries') + Cardinality(Deciding("ALLOWANCE")') <= n + Cardinality(Handlers) - 1
  BY <1>1, <1>2, <1>3, EntriesFinite
<1> QED
  BY <1>4 DEF AllowanceCount

LEMMA FreeFewer ==
  ASSUME DataTypes, FreeCount, FreeReviews' = FreeReviews, Deciding("FREE")' \subseteq Deciding("FREE")
  PROVE  FreeCount'
<1>1. Cardinality(Handlers) \in Nat /\ MonthCap \in Nat
  BY DecidingFinite, CommerceAssumption
<1>2. Cardinality(Deciding("FREE")') <= Cardinality(Deciding("FREE"))
      /\ Cardinality(Deciding("FREE")') \in Nat /\ Cardinality(Deciding("FREE")) \in Nat
  BY FewerHandlers, AreHandlers
<1>3. Cardinality(FreeReviews') + Cardinality(Deciding("FREE")') <= MonthCap + Cardinality(Handlers) - 1
  BY <1>1, <1>2, FreeRowsFinite DEF FreeCount
<1> QED
  BY <1>3 DEF FreeCount

LEMMA AttorneyFewer ==
  ASSUME DataTypes, NEW u \in Attorneys, AttorneyCount(u), FreeRows(u)' = FreeRows(u), FreeOf(u)' \subseteq FreeOf(u)
  PROVE  AttorneyCount(u)'
<1>1. Cardinality(Handlers) \in Nat
  BY DecidingFinite
<1>2. Cardinality(FreeOf(u)') <= Cardinality(FreeOf(u))
      /\ Cardinality(FreeOf(u)') \in Nat /\ Cardinality(FreeOf(u)) \in Nat
  BY FewerHandlers, AreHandlers
<1>3. Cardinality(FreeRows(u)') + Cardinality(FreeOf(u)') <= Cardinality(Handlers)
  BY <1>1, <1>2, FreeRowsFinite DEF AttorneyCount
<1> QED
  BY <1>3 DEF AttorneyCount

\* The rows of the free reviews, after a step that writes none.
LEMMA FreeRowsKept ==
  ASSUME DataTypes,
         \/ UNCHANGED payments
         \/ \E p \in PaymentType : p.kind # "FREE" /\ payments' = Append(payments, p)
         \/ \E i \in DOMAIN payments, x \in {"PARTIALLY_REFUNDED", "REFUNDED"} :
               payments[i].kind # "FREE" /\ payments' = [payments EXCEPT ![i].state = x]
  PROVE  FreeReviews' = FreeReviews /\ \A u : FreeRows(u)' = FreeRows(u)
<1>1. CASE UNCHANGED payments
  BY <1>1 DEF FreeReviews, FreeRows, PaymentsOf
<1>2. ASSUME NEW p \in PaymentType, p.kind # "FREE", payments' = Append(payments, p)
      PROVE FreeReviews' = FreeReviews /\ \A u : FreeRows(u)' = FreeRows(u)
  <2>1. payments \in Seq(PaymentType)
    BY DEF DataTypes
  <2> DEFINE n == Len(payments) + 1
  <2>2. /\ DOMAIN payments' = DOMAIN payments \cup {n} /\ n \notin DOMAIN payments
        /\ \A i \in DOMAIN payments : payments'[i] = payments[i]
        /\ payments'[n] = p
    BY <1>2, <2>1, Appended
  <2> HIDE DEF n
  <2> QED
    BY <1>2, <2>2 DEF FreeReviews, FreeRows, PaymentsOf
<1>3. ASSUME NEW i \in DOMAIN payments, NEW x \in {"PARTIALLY_REFUNDED", "REFUNDED"},
             payments[i].kind # "FREE", payments' = [payments EXCEPT ![i].state = x]
      PROVE FreeReviews' = FreeReviews /\ \A u : FreeRows(u)' = FreeRows(u)
  <2>1. payments[i] \in PaymentType /\ DOMAIN payments' = DOMAIN payments
    BY <1>3 DEF DataTypes
  <2>2. payments'[i].kind = payments[i].kind /\ \A j \in DOMAIN payments \ {i} : payments'[j] = payments[j]
    BY <1>3, <2>1 DEF DataTypes, PaymentType
  <2> QED
    BY <1>3, <2>1, <2>2 DEF FreeReviews, FreeRows, PaymentsOf
<1> QED
  BY <1>1, <1>2, <1>3

\* A step that takes nothing from what is counted, whose handler does not decide.
LEMMA CountKept ==
  ASSUME TypeInv, CountInv, UNCHANGED entries, FreeReviews' = FreeReviews,
         \A u \in Attorneys : FreeRows(u)' = FreeRows(u),
         \/ UNCHANGED handler
         \/ \E h \in Handlers : \E r : Become(h, r) /\ r.pc # "decided"
  PROVE  CountInv'
<1>1. DataTypes
  BY DEF TypeInv
<1>2. \A d, u : Deciding(d)' \subseteq Deciding(d) /\ FreeOf(u)' \subseteq FreeOf(u)
  <2>1. CASE UNCHANGED handler
    BY <2>1 DEF Deciding, FreeOf
  <2>2. ASSUME NEW h \in Handlers, NEW r, Become(h, r), r.pc # "decided"
        PROVE \A d, u : Deciding(d)' \subseteq Deciding(d) /\ FreeOf(u)' \subseteq FreeOf(u)
    BY <2>2, DecidingAfter
  <2> QED
    BY <2>1, <2>2
<1> QED
  BY <1>1, <1>2, AllowanceFewer, FreeFewer, AttorneyFewer DEF CountInv

\* An acceptance that reads the count goes by it: what the others may be about to
\* take is at most one each.
LEMMA CountAccept ==
  ASSUME TypeInv, CountInv, NEW h \in Handlers, NEW c \in Cases, NEW u \in Attorneys, AcceptQuote(h, c, u)
  PROVE  CountInv'
<1>1. DataTypes
  BY DEF TypeInv
<1>2. PICK d : d = QuoteForRecord(u, bucket[c])
  OBVIOUS
<1>3. PICK r : r = [pc |-> "decided", case |-> c, user |-> u, rung |-> bucket[c], decision |-> d,
                    seen |-> status[c],
                    credit |-> IF d = "CREDIT" THEN ChosenCredit(bucket[c]) ELSE <<0, 0>>]
  OBVIOUS
<1>4. Become(h, r) /\ UNCHANGED <<entries, payments>> /\ r.pc = "decided" /\ r.decision = d /\ r.user = u
  BY <1>2, <1>3 DEF AcceptQuote, funds, money
<1>5. FreeReviews' = FreeReviews /\ \A v : FreeRows(v)' = FreeRows(v)
  BY <1>1, <1>4, FreeRowsKept
<1>6. /\ \A e : Deciding(e)' = IF d = e THEN Deciding(e) \cup {h} ELSE Deciding(e) \ {h}
      /\ \A v : FreeOf(v)' = IF d = "FREE" /\ v = u THEN FreeOf(v) \cup {h} ELSE FreeOf(v) \ {h}
  BY <1>4, DecidingAfter
<1>7. /\ d = "ALLOWANCE" => AllowanceCovers
      /\ d = "FREE" => FirstReviewFree(u, bucket[c])
  BY <1>2 DEF QuoteForRecord
<1>8. Cardinality(Handlers) \in Nat /\ Cardinality(Handlers) >= 1 /\ MonthCap \in Nat /\ Grants \subseteq Nat
      /\ \A S \in SUBSET Handlers : Cardinality(S) \in Nat /\ Cardinality(S) <= Cardinality(Handlers)
  BY DecidingFinite, CommerceAssumption
<1>9. AllowanceCount'
  <2>1. CASE d = "ALLOWANCE"
    <3>1. grant.records \in Grants /\ Cardinality(entries) < grant.records
      BY <1>1, <1>7, <2>1 DEF AllowanceCovers, DataTypes
    <3>2. Deciding("ALLOWANCE")' \in SUBSET Handlers
      BY <1>6, AreHandlers
    <3>3. Cardinality(entries') + Cardinality(Deciding("ALLOWANCE")') <= grant.records + Cardinality(Handlers) - 1
      <4>1. entries' = entries /\ Cardinality(entries) \in Nat /\ grant.records \in Nat
        BY <1>1, <1>4, <1>8, <3>1, EntriesFinite
      <4>2. Cardinality(Deciding("ALLOWANCE")') \in Nat /\ Cardinality(Deciding("ALLOWANCE")') <= Cardinality(Handlers)
        BY <1>8, <3>2
      <4> QED
        BY <1>8, <3>1, <4>1, <4>2
    <3> QED
      BY <3>1, <3>3 DEF AllowanceCount
  <2>2. CASE d # "ALLOWANCE"
    BY <1>1, <1>4, <1>6, <2>2, AllowanceFewer DEF CountInv
  <2> QED
    BY <2>1, <2>2
<1>10. FreeCount'
  <2>1. CASE d = "FREE"
    <3>1. Cardinality(FreeReviews) < MonthCap
      BY <1>7, <2>1 DEF FirstReviewFree
    <3>2. Deciding("FREE")' \in SUBSET Handlers
      BY <1>6, AreHandlers
    <3>3. Cardinality(FreeReviews') + Cardinality(Deciding("FREE")') <= MonthCap + Cardinality(Handlers) - 1
      BY <1>1, <1>5, <1>8, <3>1, <3>2, FreeRowsFinite
    <3> QED
      BY <3>3 DEF FreeCount
  <2>2. CASE d # "FREE"
    BY <1>1, <1>5, <1>6, <2>2, FreeFewer DEF CountInv
  <2> QED
    BY <2>1, <2>2
<1>11. ASSUME NEW v \in Attorneys PROVE AttorneyCount(v)'
  <2>1. CASE d = "FREE" /\ v = u
    <3>1. FreeRows(v)' = {}
      BY <1>5, <1>7, <2>1 DEF FirstReviewFree, FreeRows
    <3>2. FreeOf(v)' \in SUBSET Handlers
      BY <1>6, AreHandlers
    <3>3. Cardinality(FreeRows(v)') + Cardinality(FreeOf(v)') <= Cardinality(Handlers)
      BY <1>8, <3>1, <3>2, FS_EmptySet
    <3> QED
      BY <3>3 DEF AttorneyCount
  <2>2. CASE ~(d = "FREE" /\ v = u)
    <3>1. FreeOf(v)' \subseteq FreeOf(v) /\ FreeRows(v)' = FreeRows(v)
      BY <1>5, <1>6, <2>2
    <3> QED
      BY <1>1, <3>1, AttorneyFewer DEF CountInv
  <2> QED
    BY <2>1, <2>2
<1> QED
  BY <1>9, <1>10, <1>11 DEF CountInv

\* Taking what was decided moves one handler to one row.
LEMMA CountSpend ==
  ASSUME TypeInv, CountInv, NEW h \in Handlers, SpendAllowance(h)
  PROVE  CountInv'
<1>1. DataTypes
  BY DEF TypeInv
<1>2. /\ At(h, "decided") /\ handler[h].decision = "ALLOWANCE" /\ UNCHANGED payments
      /\ entries' = entries \cup {handler[h].case}
      /\ \E r : Become(h, r) /\ r.pc # "decided"
  BY DEF SpendAllowance, money, Idle, Start
<1>3. /\ \A d : Deciding(d)' = Deciding(d) \ {h}
      /\ \A u : FreeOf(u)' = FreeOf(u) \ {h}
  BY <1>2, DecidingAfter
<1>4. FreeReviews' = FreeReviews /\ \A u : FreeRows(u)' = FreeRows(u)
  BY <1>1, <1>2, FreeRowsKept
<1>5. AllowanceCount'
  <2>1. PICK n \in Grants : Cardinality(entries) + Cardinality(Deciding("ALLOWANCE")) <= n + Cardinality(Handlers) - 1
    BY DEF CountInv, AllowanceCount
  <2>2. Cardinality(Handlers) \in Nat /\ n \in Nat
    BY DecidingFinite, CommerceAssumption
  <2>3. IsFiniteSet(Deciding("ALLOWANCE")) /\ Cardinality(Deciding("ALLOWANCE")) \in Nat
    BY AreHandlers, DecidingFinite
  <2>4. h \in Deciding("ALLOWANCE")
    BY <1>2 DEF Deciding, At
  <2>5. Cardinality(Deciding("ALLOWANCE")') = Cardinality(Deciding("ALLOWANCE")) - 1
    BY <1>3, <2>3, <2>4, FS_RemoveElement
  <2>6. Cardinality(entries') <= Cardinality(entries) + 1 /\ Cardinality(entries') \in Nat /\ Cardinality(entries) \in Nat
    <3>1. IsFiniteSet(entries) /\ Cardinality(entries) \in Nat
      BY <1>1, EntriesFinite
    <3>2. PICK c : c = handler[h].case
      OBVIOUS
    <3>3. entries' = entries \cup {c}
      BY <1>2, <3>2
    <3>4. Cardinality(entries') = IF c \in entries THEN Cardinality(entries) ELSE Cardinality(entries) + 1
      BY <3>1, <3>3, FS_AddElement
    <3> QED
      BY <3>1, <3>4
  <2>7. Cardinality(entries') + Cardinality(Deciding("ALLOWANCE")') <= n + Cardinality(Handlers) - 1
    BY <2>1, <2>2, <2>3, <2>5, <2>6
  <2> QED
    BY <2>7 DEF AllowanceCount
<1>6. FreeCount' /\ \A u \in Attorneys : AttorneyCount(u)'
  BY <1>1, <1>3, <1>4, FreeFewer, AttorneyFewer DEF CountInv
<1> QED
  BY <1>5, <1>6 DEF CountInv

LEMMA CountFree ==
  ASSUME TypeInv, CountInv, NEW h \in Handlers, TakeFreeReview(h)
  PROVE  CountInv'
<1>1. DataTypes /\ payments \in Seq(PaymentType)
  BY DEF TypeInv, DataTypes
<1>2. PICK r : r = Start(handler[h].case)
  OBVIOUS
<1>3. /\ At(h, "decided") /\ handler[h].decision = "FREE" /\ UNCHANGED entries
      /\ Become(h, r) /\ r.pc # "decided"
      /\ handler[h] \in DecidedType
  BY <1>2, HandlerHolds DEF TakeFreeReview, funds, Start
<1>4. /\ \A d : Deciding(d)' = Deciding(d) \ {h}
      /\ \A u : FreeOf(u)' = FreeOf(u) \ {h}
  BY <1>3, DecidingAfter
<1> DEFINE n == Len(payments) + 1
           w == handler[h].user
           p == [kind |-> "FREE", case |-> handler[h].case, user |-> w, session |-> 0, state |-> "SUCCEEDED"]
<1>5. payments' = Append(payments, p) /\ p \in PaymentType
  BY <1>3 DEF TakeFreeReview, PaymentType, DecidedType
<1>6. p.kind = "FREE" /\ p.user = w /\ p.state = "SUCCEEDED"
  OBVIOUS
<1> HIDE DEF p
<1>7. /\ DOMAIN payments' = DOMAIN payments \cup {n} /\ n \notin DOMAIN payments
      /\ \A i \in DOMAIN payments : payments'[i] = payments[i]
      /\ payments'[n] = p
  BY <1>1, <1>5, Appended
<1> HIDE DEF n
<1>8. FreeReviews' = FreeReviews \cup {n} /\ n \notin FreeReviews
  BY <1>6, <1>7 DEF FreeReviews
<1>9. \A u : /\ FreeRows(u)' = IF u = w THEN FreeRows(u) \cup {n} ELSE FreeRows(u)
             /\ n \notin FreeRows(u)
  <2>1. \A u, i : i \in FreeRows(u)' <=> i \in (IF u = w THEN FreeRows(u) \cup {n} ELSE FreeRows(u))
    BY <1>6, <1>7 DEF FreeRows, PaymentsOf
  <2>2. \A u : n \notin FreeRows(u)
    BY <1>7 DEF FreeRows, PaymentsOf
  <2> HIDE DEF w
  <2> QED
    BY <2>1, <2>2
<1>10. Cardinality(Handlers) \in Nat /\ MonthCap \in Nat
  BY DecidingFinite, CommerceAssumption
<1>11. FreeCount'
  <2>1. h \in Deciding("FREE")
    BY <1>3 DEF Deciding, At
  <2>2. IsFiniteSet(Deciding("FREE")) /\ Cardinality(Deciding("FREE")) \in Nat
    BY AreHandlers, DecidingFinite
  <2>3. Cardinality(Deciding("FREE")') = Cardinality(Deciding("FREE")) - 1
    BY <1>4, <2>1, <2>2, FS_RemoveElement
  <2>4. Cardinality(FreeReviews') = Cardinality(FreeReviews) + 1 /\ Cardinality(FreeReviews) \in Nat
    BY <1>1, <1>8, FreeRowsFinite, FS_AddElement
  <2>5. Cardinality(FreeReviews') + Cardinality(Deciding("FREE")') <= MonthCap + Cardinality(Handlers) - 1
    BY <1>10, <2>2, <2>3, <2>4 DEF CountInv, FreeCount
  <2> QED
    BY <2>5 DEF FreeCount
<1>12. ASSUME NEW u \in Attorneys PROVE AttorneyCount(u)'
  <2>1. CASE u = w
    <3>1. h \in FreeOf(u)
      BY <1>3, <2>1 DEF FreeOf, Deciding, At
    <3>2. IsFiniteSet(FreeOf(u)) /\ Cardinality(FreeOf(u)) \in Nat
      BY AreHandlers, DecidingFinite
    <3>3. Cardinality(FreeOf(u)') = Cardinality(FreeOf(u)) - 1
      BY <1>4, <3>1, <3>2, FS_RemoveElement
    <3>4. Cardinality(FreeRows(u)') = Cardinality(FreeRows(u)) + 1 /\ Cardinality(FreeRows(u)) \in Nat
      BY <1>1, <1>9, <2>1, FreeRowsFinite, FS_AddElement
    <3>5. Cardinality(FreeRows(u)') + Cardinality(FreeOf(u)') <= Cardinality(Handlers)
      BY <1>10, <3>2, <3>3, <3>4 DEF CountInv, AttorneyCount
    <3> QED
      BY <3>5 DEF AttorneyCount
  <2>2. CASE u # w
    BY <1>1, <1>4, <1>9, <2>2, AttorneyFewer DEF CountInv
  <2> QED
    BY <2>1, <2>2
<1>13. AllowanceCount'
  BY <1>1, <1>3, <1>4, AllowanceFewer DEF CountInv
<1> QED
  BY <1>11, <1>12, <1>13 DEF CountInv

LEMMA CountHandlers ==
  ASSUME TypeInv, CountInv, NEW h \in Handlers, Call(h) \/ Continue(h) \/ \E s \in DOMAIN sessions : FulfillRead(h, s)
  PROVE  CountInv'
<1>1. DataTypes
  BY DEF TypeInv
<1>2. CASE \E c \in Cases, u \in Attorneys : AcceptQuote(h, c, u)
  BY <1>2, CountAccept
<1>3. CASE SpendAllowance(h) \/ TakeFreeReview(h)
  BY <1>3, CountSpend, CountFree
<1>4. ASSUME FulfillPack(h) \/ FulfillReview(h)
      PROVE  CountInv'
  <2>1. PICK kind \in {"PACK", "CARD"} : Book(handler[h].session, kind)
    BY <1>4 DEF FulfillPack, FulfillReview
  <2> DEFINE s == handler[h].session
  <2>2. PICK p : p = [kind |-> kind, case |-> sessions[s].case, user |-> sessions[s].user,
                      session |-> s, state |-> "SUCCEEDED"]
    OBVIOUS
  <2>3. s \in DOMAIN sessions /\ UNCHANGED entries /\ \E r : Become(h, r) /\ r.pc # "decided"
    BY <1>4, HandlerHolds DEF FulfillPack, FulfillReview, funds, Idle, Start
  <2>4. sessions[s] \in SessionType /\ s \in Nat
    BY <1>1, <2>3 DEF DataTypes
  <2>5. p \in PaymentType /\ p.kind # "FREE" /\ payments' = Append(payments, p)
    BY <2>1, <2>2, <2>4 DEF PaymentType, SessionType, Book
  <2>6. FreeReviews' = FreeReviews /\ \A u : FreeRows(u)' = FreeRows(u)
    BY <1>1, <2>5, FreeRowsKept
  <2> QED
    BY <2>3, <2>6, CountKept
<1>5. ASSUME UNCHANGED <<entries, payments>>, \E r : Become(h, r) /\ r.pc # "decided"
      PROVE  CountInv'
  <2>1. FreeReviews' = FreeReviews /\ \A u : FreeRows(u)' = FreeRows(u)
    BY <1>1, <1>5, FreeRowsKept
  <2> QED
    BY <1>5, <2>1, CountKept
<1>6. CASE SpendCredit(h) \/ CreditRace(h) \/ OpenReviewCheckout(h) \/ OpenRequest(h)
           \/ FulfillConflict(h) \/ StartAnalysis(h) \/ Die(h)
  BY <1>5, <1>6 DEF SpendCredit, CreditRace, OpenReviewCheckout, OpenRequest, FulfillConflict, StartAnalysis, Die,
                    funds, money, Idle, Start
<1>7. CASE \E c \in Cases, u \in Attorneys : RequestQuote(h, c, u)
  BY <1>5, <1>7 DEF RequestQuote, funds, money
<1>8. CASE \E s \in DOMAIN sessions : FulfillRead(h, s)
  BY <1>5, <1>8 DEF FulfillRead, funds, money
<1> QED
  BY <1>2, <1>3, <1>4, <1>6, <1>7, <1>8 DEF Call, Continue

LEMMA CountNext == TypeInv /\ CountInv /\ [Next]_vars => CountInv'
<1> SUFFICES ASSUME TypeInv, CountInv, [Next]_vars PROVE CountInv'
  OBVIOUS
<1>1. DataTypes
  BY DEF TypeInv
<1>2. ASSUME UNCHANGED <<entries, handler>>,
             \/ UNCHANGED payments
             \/ \E i \in DOMAIN payments, x \in {"PARTIALLY_REFUNDED", "REFUNDED"} :
                   payments[i].kind # "FREE" /\ payments' = [payments EXCEPT ![i].state = x]
      PROVE  CountInv'
  <2>1. FreeReviews' = FreeReviews /\ \A u : FreeRows(u)' = FreeRows(u)
    BY <1>1, <1>2, FreeRowsKept
  <2> QED
    BY <1>2, <2>1, CountKept
<1>3. CASE UNCHANGED vars
  BY <1>2, <1>3 DEF vars
<1>4. CASE \E c \in Cases : Case(c)
  BY <1>2, <1>4 DEF Case, Meter, RecordsComplete, RunAnalysis, Rerun, Reanalyze, Resume, DecideQuoteRequest, funds, money
<1>5. CASE Shop
  BY <1>2, <1>5 DEF Shop, BuyPack, PaySession, SetAllowance, PeriodEnds, PackExpires, Refund, funds, money
<1> QED
  BY <1>3, <1>4, <1>5, CountHandlers, StepsOfNext

LEMMA CountInit == Init => CountInv
<1> SUFFICES ASSUME Init PROVE CountInv
  OBVIOUS
<1>1. Cardinality(Handlers) \in Nat /\ Cardinality(Handlers) >= 1 /\ MonthCap \in Nat /\ 0 \in Grants
  BY DecidingFinite, CommerceAssumption
<1>2. \A d, u : Deciding(d) = {} /\ FreeOf(u) = {}
  BY DEF Init, Idle, Deciding, FreeOf
<1>3. FreeReviews = {} /\ entries = {} /\ \A u : FreeRows(u) = {}
  BY DEF Init, FreeReviews, FreeRows, PaymentsOf
<1>4. Cardinality({}) = 0
  BY FS_EmptySet
<1>5. AllowanceCount
  <2>1. Cardinality(entries) + Cardinality(Deciding("ALLOWANCE")) <= 0 + Cardinality(Handlers) - 1
    <3>1. Cardinality(entries) = 0 /\ Cardinality(Deciding("ALLOWANCE")) = 0
      BY <1>2, <1>3, <1>4
    <3> QED
      BY <1>1, <3>1
  <2> QED
    BY <1>1, <2>1 DEF AllowanceCount
<1>6. FreeCount
  BY <1>1, <1>2, <1>3, <1>4 DEF FreeCount
<1>7. ASSUME NEW u \in Attorneys PROVE AttorneyCount(u)
  BY <1>1, <1>2, <1>3, <1>4 DEF AttorneyCount
<1> QED
  BY <1>5, <1>6, <1>7 DEF CountInv

\* The allowance and the free reviews are overdrawn by the requests in flight at most.
THEOREM OverdrawnByRacers == Spec => []OverdrawnOnlyByRacers
<1>1. Init => TypeInv /\ CountInv
  BY TypeInit, CountInit
<1>2. TypeInv /\ CountInv /\ [Next]_vars => TypeInv' /\ CountInv'
  BY TypeNext, CountNext
<1>3. TypeInv /\ CountInv => OverdrawnOnlyByRacers
  <2> SUFFICES ASSUME TypeInv, CountInv PROVE OverdrawnOnlyByRacers
    OBVIOUS
  <2>1. DataTypes
    BY DEF TypeInv
  <2>2. Cardinality(Handlers) \in Nat /\ MonthCap \in Nat /\ Grants \subseteq Nat /\ Cardinality(entries) \in Nat
    BY <2>1, DecidingFinite, EntriesFinite, CommerceAssumption
  <2>3. \A d, u : Cardinality(Deciding(d)) \in Nat /\ Cardinality(FreeOf(u)) \in Nat
    BY AreHandlers, DecidingFinite
  <2>4. \E n \in Grants : Cardinality(entries) <= n + (Cardinality(Handlers) - 1)
    BY <2>2, <2>3 DEF CountInv, AllowanceCount
  <2>5. Cardinality(FreeReviews) <= MonthCap + (Cardinality(Handlers) - 1)
    BY <2>1, <2>2, <2>3, FreeRowsFinite DEF CountInv, FreeCount
  <2>6. ASSUME NEW u \in Attorneys PROVE Cardinality(FreeRows(u)) <= 1 + (Cardinality(Handlers) - 1)
    BY <2>1, <2>2, <2>3, FreeRowsFinite DEF CountInv, AttorneyCount
  <2> QED
    BY <2>4, <2>5, <2>6 DEF OverdrawnOnlyByRacers, FreeRows
<1> QED
  BY <1>1, <1>2, <1>3, PTL DEF Spec

-------------------------------------------------------------------------------
(* Refinement: what is settled, withdrawn and analysed                     *)

Pays(i, c) == payments[i].case = c /\ payments[i].kind # "PACK" /\ payments[i].state = "SUCCEEDED"

LEMMA CoverMembers ==
  ASSUME NEW c, NEW x
  PROVE  x \in CoverOf(c) <=>
           \/ x = <<"allowance", c>> /\ c \in entries
           \/ \E s \in spent : s.case = c /\ x = <<"credit", s.credit>>
           \/ \E i \in DOMAIN payments : Pays(i, c) /\ x = <<"payment", i>>
BY DEF CoverOf, Pays

LEMMA IntervalCounts ==
  ASSUME NEW n \in Nat
  PROVE  IsFiniteSet(1..n) /\ Cardinality(1..n) = n
<1>1. n \in Int /\ 1 \in Int
  OBVIOUS
<1>2. Cardinality(1..n) = IF 1 > n THEN 0 ELSE n - 1 + 1
  BY <1>1, FS_Interval
<1>3. IsFiniteSet(1..n)
  BY <1>1, FS_Interval
<1> QED
  BY <1>2, <1>3

\* The rows are as many as sessions were opened, besides the free reviews.
Bounded == Len(packs) <= MaxSessions /\ Len(payments) <= MaxSessions + MonthCap + Cardinality(Handlers)

LEMMA RowsBounded == TypeInv /\ RowsInv /\ CountInv => Bounded
<1> SUFFICES ASSUME TypeInv, RowsInv, CountInv PROVE Bounded
  OBVIOUS
<1>1. DataTypes /\ Len(payments) \in Nat /\ Len(sessions) \in Nat /\ DOMAIN payments = 1..Len(payments)
      /\ DOMAIN sessions = 1..Len(sessions) /\ Len(packs) \in Nat /\ MaxSessions \in Nat /\ MonthCap \in Nat
  BY CommerceAssumption DEF TypeInv, DataTypes
<1>2. IsFiniteSet(DOMAIN sessions) /\ Cardinality(DOMAIN sessions) = Len(sessions)
      /\ IsFiniteSet(DOMAIN payments) /\ Cardinality(DOMAIN payments) = Len(payments)
  <2>1. Cardinality(1..Len(sessions)) = Len(sessions) /\ IsFiniteSet(1..Len(sessions))
    BY <1>1, IntervalCounts
  <2>2. Cardinality(1..Len(payments)) = Len(payments) /\ IsFiniteSet(1..Len(payments))
    BY <1>1, IntervalCounts
  <2> QED
    BY <1>1, <2>1, <2>2
<1>3. IsFiniteSet(MoneyRows) /\ Cardinality(MoneyRows) <= Len(sessions)
  <2> DEFINE f == [i \in MoneyRows |-> payments[i].session]
  <2>1. f \in [MoneyRows -> DOMAIN sessions]
    BY RowsAre DEF MoneyRows, RowOK
  <2>2. \A i, j \in MoneyRows : f[i] = f[j] => i = j
    BY RowsAre
  <2>3. f \in Injection(MoneyRows, DOMAIN sessions)
    BY <2>1, <2>2 DEF Injection, IsInjective
  <2> QED
    BY <1>2, <2>3, FS_Injection
<1>4. PackRows \subseteq MoneyRows
  BY DEF PackRows, MoneyRows
<1>5. Cardinality(PackRows) <= Cardinality(MoneyRows) /\ Cardinality(PackRows) \in Nat /\ Cardinality(MoneyRows) \in Nat
  BY <1>3, <1>4, FS_Subset, FS_CardinalityType
<1>6. Len(packs) <= MaxSessions
  BY <1>1, <1>3, <1>5, RowsAre
<1>7. DOMAIN payments = MoneyRows \cup FreeReviews
  BY DEF MoneyRows, FreeReviews
<1>8. Len(payments) <= Cardinality(MoneyRows) + Cardinality(FreeReviews)
  <2>1. IsFiniteSet(FreeReviews) /\ Cardinality(FreeReviews) \in Nat
    BY <1>1, FreeRowsFinite
  <2>2. Cardinality(MoneyRows \cap FreeReviews) \in Nat
    BY <1>3, FS_Intersection, FS_CardinalityType
  <2>3. Cardinality(MoneyRows \cup FreeReviews)
          = Cardinality(MoneyRows) + Cardinality(FreeReviews) - Cardinality(MoneyRows \cap FreeReviews)
    BY <1>3, <2>1, FS_Union
  <2> QED
    BY <1>2, <1>5, <1>7, <2>1, <2>2, <2>3
<1>9. Cardinality(FreeReviews) <= MonthCap + Cardinality(Handlers)
  <2>1. Cardinality(Handlers) \in Nat /\ Cardinality(Deciding("FREE")) \in Nat
    BY AreHandlers, DecidingFinite
  <2>2. Cardinality(FreeReviews) + Cardinality(Deciding("FREE")) <= MonthCap + Cardinality(Handlers) - 1
    BY DEF CountInv, FreeCount
  <2>3. Cardinality(FreeReviews) \in Nat
    BY <1>1, FreeRowsFinite
  <2> QED
    BY <1>1, <2>1, <2>2, <2>3
<1>10. Cardinality(Handlers) \in Nat /\ Cardinality(FreeReviews) \in Nat
  BY <1>1, DecidingFinite, FreeRowsFinite
<1> QED
  BY <1>1, <1>3, <1>5, <1>6, <1>8, <1>9, <1>10, RowsAre DEF Bounded

Kept(d) == CoverOf(d)' = CoverOf(d)

LEMMA ReviewSettles ==
  ASSUME NEW c \in Cases, NEW k \in AllCovers, \A d \in Cases : k \notin CoverOf(d),
         CoverOf(c)' = CoverOf(c) \cup {k}, \A d \in Cases \ {c} : Kept(d), UNCHANGED runs
  PROVE  Review!Next
<1> DEFINE cover == [d \in Cases |-> CoverOf(d)]
<1>1. cover' = [cover EXCEPT ![c] = @ \cup {k}]
  BY DEF Kept
<1>2. cover' # cover
  BY <1>1
<1>3. Review!Settle(c, k)
  BY <1>1 DEF Review!Settle
<1> QED
  BY <1>2, <1>3 DEF Review!Next, Review!Moves

LEMMA ReviewWithdraws ==
  ASSUME NEW c \in Cases, NEW k \in AllCovers, k \in CoverOf(c),
         CoverOf(c)' = CoverOf(c) \ {k}, \A d \in Cases \ {c} : Kept(d), UNCHANGED runs
  PROVE  Review!Next
<1> DEFINE cover == [d \in Cases |-> CoverOf(d)]
<1>1. cover' = [cover EXCEPT ![c] = @ \ {k}]
  BY DEF Kept
<1>2. cover' # cover
  BY <1>1
<1>3. Review!Withdraw(c, k)
  BY <1>1 DEF Review!Withdraw
<1> QED
  BY <1>2, <1>3 DEF Review!Next, Review!Moves

LEMMA ReviewAnalyses ==
  ASSUME NEW c \in Cases, CoverOf(c) # {}, \A d \in Cases : Kept(d), runs' = runs \cup {c}
  PROVE  Review!Next
<1> DEFINE cover == [d \in Cases |-> CoverOf(d)]
<1>1. cover' = cover
  BY DEF Kept
<1>2. Review!Analyse(c)
  BY <1>1 DEF Review!Analyse
<1> QED
  BY <1>2 DEF Review!Next

CoverAndRuns == <<[c \in Cases |-> CoverOf(c)], runs>>

LEMMA ReviewStutters ==
  ASSUME \A d \in Cases : Kept(d), UNCHANGED runs
  PROVE  UNCHANGED CoverAndRuns
BY DEF Kept, CoverAndRuns

\* The cover, after a step that writes no entry, no credit and no row that pays.
LEMMA CoverKept ==
  ASSUME UNCHANGED <<entries, spent>>, DOMAIN payments \subseteq DOMAIN payments',
         \A i \in DOMAIN payments, c \in Cases : Pays(i, c)' <=> Pays(i, c),
         \A i \in DOMAIN payments' \ DOMAIN payments, c \in Cases : ~Pays(i, c)'
  PROVE  \A c \in Cases : Kept(c)
<1> SUFFICES ASSUME NEW c \in Cases PROVE Kept(c)
  OBVIOUS
<1>1. ASSUME NEW x PROVE x \in CoverOf(c)' <=> x \in CoverOf(c)
  <2>1. x \in CoverOf(c)' <=>
           \/ x = <<"allowance", c>> /\ c \in entries'
           \/ \E s \in spent' : s.case = c /\ x = <<"credit", s.credit>>
           \/ \E i \in DOMAIN payments' : Pays(i, c)' /\ x = <<"payment", i>>
    BY DEF CoverOf, Pays
  <2> QED
    BY <2>1, CoverMembers
<1> QED
  BY <1>1 DEF Kept

\* A handler settles a case with its allowance entry, a credit, or a row that pays;
\* everything else it does leaves the cover as it is.
LEMMA ReviewHandlers ==
  ASSUME TypeInv, RowsInv, CountInv, RowsInv', CountInv', TypeInv', NEW h \in Handlers,
         Call(h) \/ Continue(h) \/ \E s \in DOMAIN sessions : FulfillRead(h, s)
  PROVE  Review!Next \/ UNCHANGED CoverAndRuns
<1>1. DataTypes /\ payments \in Seq(PaymentType)
  BY DEF TypeInv, DataTypes
<1>2. /\ Len(packs) <= MaxSessions /\ Len(payments') <= MaxSessions + MonthCap + Cardinality(Handlers)
      /\ Len(packs) \in Nat /\ Len(payments) \in Nat /\ Len(payments') \in Nat
  <2>1. Bounded'
    BY RowsBounded, PTL
  <2>2. Len(packs) \in Nat /\ Len(payments) \in Nat /\ (Len(payments) \in Nat)'
    BY DEF TypeInv, DataTypes
  <2> QED
    BY <2>1, <2>2, RowsBounded DEF Bounded
<1>3. CASE SpendAllowance(h)
  <2>1. PICK c \in Cases : c = handler[h].case
    BY <1>3, HandlerHolds DEF SpendAllowance, DecidedType
  <2>2. entries' = entries \cup {c} /\ UNCHANGED <<spent, payments, runs>>
    BY <1>3, <2>1 DEF SpendAllowance, money, queue
  <2>3. CASE c \in entries
    <3>1. entries' = entries
      BY <2>2, <2>3
    <3> QED
      BY <2>2, <3>1, CoverKept, ReviewStutters DEF Pays
  <2>4. CASE c \notin entries
    <3> DEFINE k == <<"allowance", c>>
    <3>1. \A d \in Cases : k \notin CoverOf(d)
      BY <2>4 DEF CoverOf
    <3>2. CoverOf(c)' = CoverOf(c) \cup {k}
      BY <2>2 DEF CoverOf
    <3>3. \A d \in Cases \ {c} : Kept(d)
      BY <2>2 DEF CoverOf, Kept
    <3>4. k \in AllCovers
      BY DEF AllCovers
    <3> HIDE DEF k
    <3> QED
      BY <2>2, <3>1, <3>2, <3>3, <3>4, ReviewSettles
  <2> QED
    BY <2>3, <2>4
<1>4. CASE SpendCredit(h)
  <2>1. PICK c \in Cases, k \in Credits : c = handler[h].case /\ k = handler[h].credit
    BY <1>4, HandlerHolds DEF SpendCredit, DecidedType
  <2>2. /\ spent' = spent \cup {[credit |-> k, case |-> c]} /\ UNCHANGED <<entries, payments, runs>>
        /\ \A s \in spent : s.credit # k
    BY <1>4, <2>1 DEF SpendCredit, money, queue, SpentCredits
  <2> DEFINE x == <<"credit", k>>
  <2>3. \A d \in Cases : x \notin CoverOf(d)
    BY <2>2 DEF CoverOf
  <2>4. CoverOf(c)' = CoverOf(c) \cup {x}
    <3>1. {<<"credit", s.credit>> : s \in {t \in spent' : t.case = c}}
            = {<<"credit", s.credit>> : s \in {t \in spent : t.case = c}} \cup {x}
      <4>1. PICK e : e = [credit |-> k, case |-> c]
        OBVIOUS
      <4>2. e.credit = k /\ e.case = c /\ spent' = spent \cup {e}
        BY <2>2, <4>1
      <4>3. {t \in spent' : t.case = c} = {t \in spent : t.case = c} \cup {e}
        BY <4>2
      <4> QED
        BY <4>2, <4>3
    <3> HIDE DEF x
    <3> QED
      BY <2>2, <3>1 DEF CoverOf
  <2>5. \A d \in Cases \ {c} : Kept(d)
    BY <2>2 DEF CoverOf, Kept
  <2>6. x \in AllCovers
    <3>1. DOMAIN packs = 1..Len(packs) /\ MaxSessions \in Nat
      BY <1>1, CommerceAssumption DEF DataTypes
    <3>2. k \in (1..MaxSessions) \X (1..PackRecords)
      BY <1>2, <2>1, <3>1 DEF Credits
    <3> QED
      BY <3>2 DEF AllCovers
  <2> HIDE DEF x
  <2> QED
    BY <2>2, <2>3, <2>4, <2>5, <2>6, ReviewSettles
<1>5. ASSUME NEW c \in Cases, NEW p \in PaymentType, p.kind # "PACK", p.state = "SUCCEEDED", p.case = c,
             payments' = Append(payments, p), UNCHANGED <<entries, spent, runs>>
      PROVE  Review!Next
  <2> DEFINE n == Len(payments) + 1
             x == <<"payment", n>>
  <2>1. /\ DOMAIN payments' = DOMAIN payments \cup {n} /\ n \notin DOMAIN payments
        /\ \A i \in DOMAIN payments : payments'[i] = payments[i]
        /\ payments'[n] = p /\ Len(payments') = n
    BY <1>1, <1>5, Appended
  <2>2. x \in AllCovers
    BY <1>2, <2>1 DEF AllCovers
  <2> HIDE DEF n
  <2>3. \A d \in Cases : x \notin CoverOf(d)
    BY <2>1 DEF CoverOf
  <2>4. CoverOf(c)' = CoverOf(c) \cup {x}
    BY <1>5, <2>1 DEF CoverOf
  <2>5. \A d \in Cases \ {c} : Kept(d)
    BY <1>5, <2>1 DEF CoverOf, Kept
  <2> HIDE DEF x
  <2> QED
    BY <1>5, <2>2, <2>3, <2>4, <2>5, ReviewSettles
<1>6. CASE TakeFreeReview(h)
  <2>1. handler[h] \in DecidedType
    BY <1>6, HandlerHolds DEF TakeFreeReview
  <2>2. PICK p : p = [kind |-> "FREE", case |-> handler[h].case, user |-> handler[h].user,
                      session |-> 0, state |-> "SUCCEEDED"]
    OBVIOUS
  <2>3. p \in PaymentType /\ p.kind # "PACK" /\ p.state = "SUCCEEDED" /\ p.case \in Cases
    BY <2>1, <2>2 DEF PaymentType, DecidedType
  <2>4. payments' = Append(payments, p) /\ UNCHANGED <<entries, spent, runs>>
    BY <1>6, <2>2 DEF TakeFreeReview, funds, queue
  <2> QED
    BY <1>5, <2>3, <2>4
<1>7. CASE FulfillReview(h)
  <2> DEFINE s == handler[h].session
  <2>1. s \in DOMAIN sessions /\ sessions[s].kind = "review" /\ sessions[s] \in SessionType /\ s \in Nat
        /\ sessions[s].case \in Cases
    BY <1>1, <1>7, HandlerHolds DEF FulfillReview, DataTypes
  <2>2. PICK p : p = [kind |-> "CARD", case |-> sessions[s].case, user |-> sessions[s].user,
                      session |-> s, state |-> "SUCCEEDED"]
    OBVIOUS
  <2>3. p \in PaymentType /\ p.kind # "PACK" /\ p.state = "SUCCEEDED" /\ p.case \in Cases
    BY <2>1, <2>2 DEF PaymentType, SessionType
  <2>4. payments' = Append(payments, p) /\ UNCHANGED <<entries, spent, runs>>
    BY <1>7, <2>2 DEF FulfillReview, Book, funds, queue
  <2> QED
    BY <1>5, <2>3, <2>4
<1>8. CASE FulfillPack(h)
  <2> DEFINE n == Len(payments) + 1
             s == handler[h].session
             p == [kind |-> "PACK", case |-> sessions[s].case, user |-> sessions[s].user,
                   session |-> s, state |-> "SUCCEEDED"]
  <2>1. s \in DOMAIN sessions /\ sessions[s] \in SessionType /\ s \in Nat
    BY <1>1, <1>8, HandlerHolds DEF FulfillPack, DataTypes
  <2>2. payments' = Append(payments, p) /\ p \in PaymentType /\ p.kind = "PACK" /\ UNCHANGED <<entries, spent, runs>>
    BY <1>8, <2>1 DEF FulfillPack, Book, queue, PaymentType, SessionType
  <2> HIDE DEF p, s
  <2>3. /\ DOMAIN payments' = DOMAIN payments \cup {n} /\ n \notin DOMAIN payments
        /\ \A i \in DOMAIN payments : payments'[i] = payments[i]
        /\ payments'[n] = p
    BY <1>1, <2>2, Appended
  <2> HIDE DEF n
  <2>4. \A c \in Cases : Kept(c)
    BY <2>2, <2>3, CoverKept DEF Pays
  <2> QED
    BY <2>2, <2>4, ReviewStutters
<1>9. CASE UNCHANGED <<entries, spent, payments, runs>>
  BY <1>9, CoverKept, ReviewStutters DEF Pays
<1> QED
  BY <1>3, <1>4, <1>6, <1>7, <1>8, <1>9
     DEF Call, Continue, AcceptQuote, RequestQuote, CreditRace, OpenReviewCheckout, OpenRequest, FulfillRead,
         FulfillConflict, StartAnalysis, Die, funds, money, queue

\* The analysis starts only on a case that is settled.
LEMMA SettledIsCovered ==
  ASSUME DataTypes, NEW c \in Cases, QuoteSettled(c)
  PROVE  CoverOf(c) # {}
<1>1. accepted[c] \in {None, "ALLOWANCE", "CREDIT", "CARD", "FREE"}
  BY DEF DataTypes
<1>2. CASE accepted[c] = None
  BY <1>2 DEF QuoteSettled, None
<1>3. CASE accepted[c] = "ALLOWANCE"
  <2>1. c \in entries
    BY <1>3 DEF QuoteSettled, None
  <2>2. <<"allowance", c>> \in CoverOf(c)
    BY <2>1, CoverMembers
  <2> QED
    BY <2>2
<1>4. CASE accepted[c] = "CREDIT"
  <2>1. PICK s \in spent : s.case = c
    BY <1>4 DEF QuoteSettled, None
  <2>2. <<"credit", s.credit>> \in CoverOf(c)
    BY <2>1 DEF CoverOf
  <2> QED
    BY <2>2
<1>5. CASE accepted[c] \in {"CARD", "FREE"}
  <2>1. PICK i \in DOMAIN payments : Pays(i, c)
    BY <1>5 DEF QuoteSettled, None, Pays
  <2>2. <<"payment", i>> \in CoverOf(c)
    BY <2>1, CoverMembers
  <2> QED
    BY <2>2
<1> QED
  BY <1>1, <1>2, <1>3, <1>4, <1>5

LEMMA ReviewCaseAndShop ==
  ASSUME TypeInv, RowsInv, CountInv, Shop \/ \E c \in Cases : Case(c)
  PROVE  Review!Next \/ UNCHANGED CoverAndRuns
<1>1. DataTypes /\ payments \in Seq(PaymentType)
  BY DEF TypeInv, DataTypes
<1>2. ASSUME NEW c \in Cases, RunAnalysis(c)
      PROVE Review!Next \/ UNCHANGED CoverAndRuns
  <2>1. \A d \in Cases : Kept(d)
    BY <1>2, CoverKept DEF RunAnalysis, funds, money, Pays
  <2>2. CASE UNCHANGED runs
    BY <2>1, <2>2, ReviewStutters
  <2>3. CASE QuoteSettled(c) /\ runs' = runs \cup {c}
    BY <1>1, <2>1, <2>3, SettledIsCovered, ReviewAnalyses
  <2> QED
    BY <1>2, <2>2, <2>3 DEF RunAnalysis
<1>3. ASSUME NEW i \in DOMAIN payments, NEW x \in {"PARTIALLY_REFUNDED", "REFUNDED"}, Refund(i, x)
      PROVE Review!Next \/ UNCHANGED CoverAndRuns
  <2>1. /\ UNCHANGED <<entries, spent, runs>> /\ payments[i].kind = "CARD"
        /\ payments' = [payments EXCEPT ![i].state = x]
    BY <1>3 DEF Refund, funds, queue
  <2>2. payments[i] \in PaymentType /\ DOMAIN payments' = DOMAIN payments
    BY <1>1, <2>1
  <2>3. /\ \A j \in DOMAIN payments \ {i} : payments'[j] = payments[j]
        /\ payments'[i].state = x /\ payments'[i].state # "SUCCEEDED"
    BY <1>1, <2>1, <2>2 DEF PaymentType
  <2>4. PICK c \in Cases : c = payments[i].case
    BY <2>1, RowsAre DEF RowOK
  <2>5. CASE payments[i].state # "SUCCEEDED"
    <3>1. \A d \in Cases : Kept(d)
      BY <2>1, <2>2, <2>3, <2>5, CoverKept DEF Pays
    <3> QED
      BY <2>1, <3>1, ReviewStutters
  <2>6. CASE payments[i].state = "SUCCEEDED"
    <3> DEFINE k == <<"payment", i>>
    <3>1. k \in CoverOf(c)
      BY <2>1, <2>4, <2>6 DEF CoverOf
    <3>2. CoverOf(c)' = CoverOf(c) \ {k}
      BY <2>1, <2>2, <2>3 DEF CoverOf
    <3>3. \A d \in Cases \ {c} : Kept(d)
      <4>1. \A d \in Cases \ {c}, j \in DOMAIN payments : Pays(j, d)' <=> Pays(j, d)
        BY <2>2, <2>3, <2>4 DEF Pays
      <4>2. ASSUME NEW d \in Cases \ {c}, NEW y PROVE y \in CoverOf(d)' <=> y \in CoverOf(d)
        <5>1. y \in CoverOf(d)' <=>
                 \/ y = <<"allowance", d>> /\ d \in entries'
                 \/ \E s \in spent' : s.case = d /\ y = <<"credit", s.credit>>
                 \/ \E j \in DOMAIN payments' : Pays(j, d)' /\ y = <<"payment", j>>
          BY DEF CoverOf, Pays
        <5> QED
          BY <2>1, <2>2, <4>1, <5>1, CoverMembers
      <4> QED
        BY <4>2 DEF Kept
    <3>4. k \in AllCovers
      <4>1. Bounded
        BY RowsBounded
      <4>2. i \in 1..Len(payments) /\ Len(payments) \in Nat /\ MaxSessions \in Nat /\ MonthCap \in Nat
            /\ Cardinality(Handlers) \in Nat
        BY <1>1, DecidingFinite, CommerceAssumption
      <4> QED
        BY <4>1, <4>2 DEF AllCovers, Bounded
    <3> HIDE DEF k
    <3> QED
      BY <2>1, <3>1, <3>2, <3>3, <3>4, ReviewWithdraws
  <2> QED
    BY <2>5, <2>6
<1>4. ASSUME UNCHANGED <<entries, spent, payments, runs>>
      PROVE UNCHANGED CoverAndRuns
  BY <1>4, CoverKept, ReviewStutters DEF Pays
<1>5. CASE \E c \in Cases : Case(c)
  BY <1>2, <1>4, <1>5 DEF Case, Meter, RecordsComplete, Rerun, Reanalyze, Resume, DecideQuoteRequest, funds, money, queue
<1>6. CASE Shop
  BY <1>3, <1>4, <1>6 DEF Shop, BuyPack, PaySession, SetAllowance, PeriodEnds, PackExpires, funds, money, queue
<1> QED
  BY <1>5, <1>6

LEMMA ReviewInit == Init => Review!Init
<1> SUFFICES ASSUME Init PROVE Review!Init
  OBVIOUS
<1>1. ASSUME NEW c \in Cases PROVE CoverOf(c) = {}
  BY DEF Init, CoverOf
<1> QED
  BY <1>1 DEF Init, Review!Init

\* Counsel commerce implements the covered review: whatever the handlers race, a step is
\* one settlement, one withdrawal, one analysis of a covered case, or none of them.
THEOREM CommerceCoversReviews == Spec => CoverIsKept
<1> DEFINE Together == TypeInv /\ RowsInv /\ CountInv
<1>1. Init => Together
  BY TypeInit, RowsInit, CountInit
<1>2. Together /\ [Next]_vars => Together'
  BY TypeNext, RowsNext, CountNext
<1>3. Together /\ Together' /\ [Next]_vars => [Review!Next]_CoverAndRuns
  <2> SUFFICES ASSUME Together, Together', [Next]_vars PROVE Review!Next \/ UNCHANGED CoverAndRuns
    OBVIOUS
  <2>1. CASE UNCHANGED vars
    <3>1. UNCHANGED <<entries, spent, payments, runs>>
      BY <2>1 DEF vars
    <3> QED
      BY <3>1, CoverKept, ReviewStutters DEF Pays
  <2>2. ASSUME NEW h \in Handlers, Call(h) \/ Continue(h) \/ \E s \in DOMAIN sessions : FulfillRead(h, s)
        PROVE Review!Next \/ UNCHANGED CoverAndRuns
    BY <2>2, ReviewHandlers
  <2>3. CASE Shop \/ \E c \in Cases : Case(c)
    BY <2>3, ReviewCaseAndShop
  <2> QED
    BY <2>1, <2>2, <2>3, StepsOfNext
<1>4. Init => Review!Init
  BY ReviewInit
<1> QED
  <2>1. Spec => []Together
    BY <1>1, <1>2, PTL DEF Spec
  <2>2. Together /\ Together' /\ [Next]_vars => [Review!Next]_<<[c \in Cases |-> CoverOf(c)], runs>>
    BY <1>3 DEF CoverAndRuns
  <2> QED
    BY <1>4, <2>1, <2>2, PTL DEF Spec, CoverIsKept, Review!Spec

-------------------------------------------------------------------------------
(* A matter is parked by a fault or a re-run only                          *)

\* The proof of an acceptance stays while no entry, credit or row that pays is lost.
LEMMA SettledStays ==
  ASSUME DataTypes, NEW c \in Cases, QuoteSettled(c), accepted'[c] = accepted[c],
         entries \subseteq entries', spent \subseteq spent', DOMAIN payments \subseteq DOMAIN payments',
         \A i \in DOMAIN payments : Pays(i, c) => Pays(i, c)'
  PROVE  QuoteSettled(c)'
<1>1. CASE accepted[c] = "ALLOWANCE"
  BY <1>1 DEF QuoteSettled, None
<1>2. CASE accepted[c] = "CREDIT"
  BY <1>2 DEF QuoteSettled, None
<1>3. CASE accepted[c] \in {"CARD", "FREE"}
  BY <1>3 DEF QuoteSettled, None, Pays
<1>4. CASE accepted[c] = None
  BY <1>4 DEF QuoteSettled, None
<1> QED
  BY <1>1, <1>2, <1>3, <1>4 DEF DataTypes

\* A case the step does not concern stays undisturbed.
LEMMA Bystander ==
  ASSUME NEW c \in Cases, Undisturbed(c),
         status'[c] = status[c], job'[c] = job[c], accepted'[c] = accepted[c],
         Starting(c)' <=> Starting(c), Busy(c)' => Busy(c), Opened(c)' => Opened(c),
         QuoteSettled(c) => QuoteSettled(c)'
  PROVE  Undisturbed(c)'
BY DEF Undisturbed

\* What a step of one handler does to the others' cases.
LEMMA OneHandlerMoves ==
  ASSUME DOMAIN handler = Handlers, NEW h \in Handlers, NEW r, Become(h, r), NEW c
  PROVE  /\ Starting(c)' => Starting(c) \/ (r.pc = "starting" /\ r.case = c)
         /\ r.pc = "starting" /\ r.case = c => Starting(c)'
         /\ Starting(c) /\ ~(At(h, "starting") /\ handler[h].case = c) => Starting(c)'
         /\ Busy(c)' => Busy(c) \/ (r.pc \in {"decided", "requesting", "starting"} /\ r.case = c)
<1>1. DOMAIN handler' = Handlers /\ handler'[h] = r /\ \A k \in Handlers \ {h} : handler'[k] = handler[k]
  BY DEF Become
<1> QED
  BY <1>1 DEF Starting, Busy, At

\* A step of a handler at one case d: the others are bystanders.
LEMMA ParkAround ==
  ASSUME TypeInv, ParkInv, NEW h \in Handlers, NEW r, Become(h, r), NEW d \in Cases,
         At(h, "starting") => handler[h].case = d, r = Idle \/ r.case = d,
         \A c \in Cases \ {d} : status'[c] = status[c] /\ accepted'[c] = accepted[c] /\ job'[c] = job[c],
         status'[d] = status[d] \/ status[d] = "DOCS_COMPLETE",
         accepted[d] # None => accepted'[d] # None, d \in entries' => accepted'[d] # None,
         entries \subseteq entries', entries' \subseteq entries \cup {d}, spent \subseteq spent',
         DOMAIN payments \subseteq DOMAIN payments', \A i \in DOMAIN payments : payments'[i] = payments[i],
         \A c \in Cases \ {d} : Opened(c)' => Opened(c),
         UNCHANGED reopened, lost \subseteq lost',
         d \notin lost' \cup reopened /\ Undisturbed(d) => Undisturbed(d)'
  PROVE  ParkInv'
<1>1. DataTypes /\ DOMAIN handler = Handlers
  BY DEF TypeInv, HandlersOK
<1>2. ASSUME NEW c \in Cases, status'[c] = "DOCS_COMPLETE" PROVE c \in reopened'
  BY <1>2 DEF ParkInv
<1>3. ASSUME NEW c \in entries' PROVE accepted'[c] # None
  BY <1>1 DEF ParkInv, DataTypes
<1>4. ASSUME NEW c \in Cases \ (lost' \cup reopened') PROVE Undisturbed(c)'
  <2>1. Undisturbed(c)
    BY DEF ParkInv
  <2>2. CASE c = d
    BY <2>1, <2>2
  <2>3. CASE c # d
    <3>1. Starting(c)' <=> Starting(c)
      BY <1>1, <2>3, OneHandlerMoves DEF Idle
    <3>2. Busy(c)' => Busy(c)
      BY <1>1, <2>3, OneHandlerMoves DEF Idle
    <3>3. QuoteSettled(c) => QuoteSettled(c)'
      BY <1>1, <2>3, SettledStays DEF Pays
    <3> QED
      BY <2>1, <2>3, <3>1, <3>2, <3>3, Bystander
  <2> QED
    BY <2>2, <2>3
<1> QED
  BY <1>2, <1>3, <1>4 DEF ParkInv

\* A step that leaves handlers, sessions and the rows that settle alone, of the case d.
LEMMA ParkBeside ==
  ASSUME TypeInv, ParkInv, NEW d \in Cases, UNCHANGED <<handler, accepted, entries, spent>>,
         \A c \in Cases \ {d} : status'[c] = status[c] /\ job'[c] = job[c],
         status'[d] = "DOCS_COMPLETE" => d \in reopened',
         DOMAIN payments \subseteq DOMAIN payments',
         \A i \in DOMAIN payments, c \in Cases \ {d} : Pays(i, c) => Pays(i, c)',
         \A c \in Cases : Opened(c)' => Opened(c),
         reopened \subseteq reopened', lost \subseteq lost',
         d \notin lost' \cup reopened' /\ Undisturbed(d) => Undisturbed(d)'
  PROVE  ParkInv'
<1>1. DataTypes
  BY DEF TypeInv
<1>2. ASSUME NEW c \in Cases \ (lost' \cup reopened') PROVE Undisturbed(c)'
  <2>1. Undisturbed(c)
    BY DEF ParkInv
  <2>2. CASE c = d
    BY <2>1, <2>2
  <2>3. CASE c # d
    <3>1. (Starting(c)' <=> Starting(c)) /\ (Busy(c)' => Busy(c))
      BY DEF Starting, Busy
    <3>2. QuoteSettled(c) => QuoteSettled(c)'
      BY <1>1, <2>3, SettledStays
    <3> QED
      BY <2>1, <2>3, <3>1, <3>2, Bystander
  <2> QED
    BY <2>2, <2>3
<1> QED
  BY <1>2 DEF ParkInv

\* A step of a handler that neither decides, asks nor starts, before or after.
LEMMA ParkQuietly ==
  ASSUME TypeInv, ParkInv, NEW h \in Handlers, NEW r, Become(h, r), ~At(h, "starting"),
         r.pc \notin {"decided", "requesting", "starting"},
         UNCHANGED <<status, accepted, job, entries, spent, sessions, reopened, lost>>,
         DOMAIN payments \subseteq DOMAIN payments', \A i \in DOMAIN payments : payments'[i] = payments[i]
  PROVE  ParkInv'
<1>1. DataTypes /\ DOMAIN handler = Handlers
  BY DEF TypeInv, HandlersOK
<1>2. ASSUME NEW c \in Cases \ (lost' \cup reopened') PROVE Undisturbed(c)'
  <2>1. Undisturbed(c)
    BY DEF ParkInv
  <2>2. (Starting(c)' <=> Starting(c)) /\ (Busy(c)' => Busy(c))
    BY <1>1, OneHandlerMoves
  <2>3. QuoteSettled(c) => QuoteSettled(c)'
    BY <1>1, SettledStays DEF Pays
  <2>4. Opened(c)' => Opened(c)
    BY DEF Opened
  <2> QED
    BY <2>1, <2>2, <2>3, <2>4, Bystander
<1> QED
  BY <1>2 DEF ParkInv

\* A step that settles its case, with the row that proves it, and starts the analysis.
LEMMA ParkSettles ==
  ASSUME TypeInv, ParkInv, NEW h \in Handlers, NEW d \in Cases, NEW m, m # None,
         (At(h, "decided") /\ handler[h].case = d) \/ (At(h, "fulfilling") /\ Opened(d)),
         Become(h, Start(d)), UNCHANGED <<sessions, job, reopened, lost>>,
         \A c \in Cases \ {d} : status'[c] = status[c],
         status'[d] = status[d] \/ status[d] = "DOCS_COMPLETE",
         (Accept(d, m) /\ QuoteSettled(d)') \/ (UNCHANGED accepted /\ accepted[d] # None),
         entries \subseteq entries', entries' \subseteq entries \cup {d}, spent \subseteq spent',
         DOMAIN payments \subseteq DOMAIN payments', \A i \in DOMAIN payments : payments'[i] = payments[i]
  PROVE  ParkInv'
<1>1. DataTypes /\ DOMAIN handler = Handlers
  BY DEF TypeInv, HandlersOK
<1>2. /\ \A c \in Cases \ {d} : accepted'[c] = accepted[c]
      /\ accepted'[d] # None
  BY <1>1 DEF Accept, DataTypes
<1>3. ASSUME d \notin lost' \cup reopened, Undisturbed(d) PROVE Undisturbed(d)'
  <2>1. status[d] # "AWAITING_DOCS" /\ status'[d] = status[d] /\ job'[d] = job[d]
    <3>1. status[d] = "AWAITING_DOCS" => ~Busy(d) /\ ~Opened(d)
      BY <1>3 DEF Undisturbed
    <3>2. status[d] # "DOCS_COMPLETE"
      BY <1>3 DEF Undisturbed
    <3>3. Busy(d) \/ Opened(d)
      BY DEF Busy, At
    <3> QED
      BY <3>1, <3>2, <3>3
  <2>2. Starting(d)'
    BY <1>1, OneHandlerMoves DEF Start
  <2>3. QuoteSettled(d)'
    <3>1. CASE QuoteSettled(d)'
      BY <3>1
    <3>2. CASE UNCHANGED accepted /\ accepted[d] # None
      BY <1>1, <1>3, <3>2, SettledStays DEF Undisturbed, Pays
    <3> QED
      BY <3>1, <3>2
  <2> QED
    BY <1>2, <1>3, <2>1, <2>2, <2>3 DEF Undisturbed
<1>4. \A c \in Cases \ {d} : Opened(c)' => Opened(c)
  BY DEF Opened
<1>5. PICK r : r = Start(d)
  OBVIOUS
<1>6. r.case = d /\ Become(h, r) /\ ~At(h, "starting")
  BY <1>5 DEF Start, At
<1> QED
  BY <1>2, <1>3, <1>4, <1>6, ParkAround

LEMMA ParkCall ==
  ASSUME TypeInv, ParkInv, NEW h \in Handlers, Call(h)
  PROVE  ParkInv'
<1>1. DataTypes /\ DOMAIN handler = Handlers
  BY DEF TypeInv, HandlersOK
<1> DEFINE Holds(c, r) ==
             /\ At(h, "idle") /\ Quotable(c) /\ Become(h, r) /\ r.case = c /\ r.pc \in {"decided", "requesting"}
             /\ UNCHANGED <<status, funds, money, accepted, requests, queue, others>>
<1>0. PICK c \in Cases : \E r : Holds(c, r)
  BY DEF Call, AcceptQuote, RequestQuote
<1>2. PICK r : Holds(c, r)
  BY <1>0
<1>3. ASSUME Undisturbed(c), c \notin lost' \cup reopened PROVE Undisturbed(c)'
  <2>1. status[c] # "AWAITING_DOCS"
    BY <1>2 DEF Quotable
  <2>2. Starting(c)' <=> Starting(c)
    BY <1>1, <1>2, OneHandlerMoves DEF At
  <2>3. QuoteSettled(c) => QuoteSettled(c)'
    BY <1>1, <1>2, SettledStays DEF funds, money, Pays
  <2> QED
    BY <1>2, <1>3, <2>1, <2>2, <2>3 DEF Undisturbed, queue
<1>4. \A d \in Cases : Opened(d)' => Opened(d)
  BY <1>2 DEF Opened, money
<1>5. ~At(h, "starting")
  BY <1>2 DEF At
<1>6. c \in entries' => accepted'[c] # None
  BY <1>2 DEF ParkInv, funds
<1> QED
  BY <1>2, <1>3, <1>4, <1>5, <1>6, ParkAround DEF funds, money, queue, others

LEMMA ParkDecided ==
  ASSUME TypeInv, ParkInv, NEW h \in Handlers,
         SpendAllowance(h) \/ SpendCredit(h) \/ TakeFreeReview(h) \/ OpenReviewCheckout(h) \/ OpenRequest(h)
  PROVE  ParkInv'
<1>1. DataTypes /\ DOMAIN handler = Handlers
  BY DEF TypeInv, HandlersOK
<1>2. (At(h, "decided") \/ At(h, "requesting")) /\ handler[h].case \in Cases
  BY HandlerHolds DEF SpendAllowance, SpendCredit, TakeFreeReview, OpenReviewCheckout, OpenRequest,
                      DecidedType, RequestingType
<1>3. PICK c \in Cases : c = handler[h].case
  BY <1>2
<1>4. ~At(h, "starting") /\ Busy(c)
  BY <1>2, <1>3 DEF At, Busy
<1>5. CASE SpendAllowance(h)
  <2>1. /\ EnterQuoted(c, handler[h].seen) /\ Accept(c, "ALLOWANCE") /\ entries' = entries \cup {c}
        /\ Become(h, IF c \in entries THEN Idle ELSE Start(c)) /\ At(h, "decided")
        /\ UNCHANGED <<grant, packs, spent, money, requests, queue, others>>
    BY <1>3, <1>5 DEF SpendAllowance
  <2>2. QuoteSettled(c)'
    BY <1>1, <2>1 DEF Accept, QuoteSettled, DataTypes, None
  <2>3. CASE c \notin entries
    <3>1. PICK m : m = "ALLOWANCE" /\ m # None
      BY DEF None
    <3>2. /\ Become(h, Start(c)) /\ Accept(c, m) /\ UNCHANGED <<spent, payments, sessions, job, reopened, lost>>
          /\ entries \subseteq entries' /\ entries' \subseteq entries \cup {c}
      BY <2>1, <2>3, <3>1 DEF money, queue, others
    <3>3. /\ \A d \in Cases \ {c} : status'[d] = status[d]
          /\ status'[c] = status[c] \/ status[c] = "DOCS_COMPLETE"
      BY <1>1, <2>1, Entered
    <3> QED
      BY <1>3, <2>1, <2>2, <3>1, <3>2, <3>3, ParkSettles
  <2>4. CASE c \in entries
    <3>1. PICK r : r = Idle /\ Become(h, r)
      BY <2>1, <2>4
    <3>2. accepted'[c] # None /\ accepted[c] # None /\ \A d \in Cases \ {c} : accepted'[d] = accepted[d]
      BY <1>1, <2>1, <2>4 DEF Accept, DataTypes, None, ParkInv
    <3>3. ASSUME Undisturbed(c), c \notin lost' \cup reopened PROVE Undisturbed(c)'
      <4>1. status[c] # "AWAITING_DOCS" /\ status'[c] = status[c]
        BY <1>1, <1>4, <2>1, <3>3, Entered DEF Undisturbed
      <4>2. Starting(c)' <=> Starting(c)
        BY <1>1, <1>4, <3>1, OneHandlerMoves DEF Idle
      <4> QED
        BY <2>1, <2>2, <3>2, <3>3, <4>1, <4>2 DEF Undisturbed, queue
    <3>4. \A d \in Cases : Opened(d)' => Opened(d)
      BY <2>1 DEF Opened, money
    <3> QED
      BY <1>1, <1>4, <2>1, <3>1, <3>2, <3>3, <3>4, Entered, ParkAround DEF money, queue, others
  <2> QED
    BY <2>3, <2>4
<1>6. CASE SpendCredit(h)
  <2>1. PICK e : e = [credit |-> handler[h].credit, case |-> c]
    OBVIOUS
  <2>2. /\ EnterQuoted(c, handler[h].seen) /\ Accept(c, "CREDIT") /\ spent' = spent \cup {e}
        /\ Become(h, Start(c)) /\ At(h, "decided")
        /\ UNCHANGED <<grant, entries, packs, money, requests, queue, others>>
    BY <1>3, <1>6, <2>1 DEF SpendCredit
  <2>3. QuoteSettled(c)'
    BY <1>1, <2>1, <2>2 DEF Accept, QuoteSettled, DataTypes, None
  <2>4. PICK m : m = "CREDIT" /\ m # None
    BY DEF None
  <2>5. Accept(c, m) /\ UNCHANGED <<entries, payments, sessions, job, reopened, lost>> /\ spent \subseteq spent'
    BY <2>2, <2>4 DEF money, queue, others
  <2>6. /\ \A d \in Cases \ {c} : status'[d] = status[d]
        /\ status'[c] = status[c] \/ status[c] = "DOCS_COMPLETE"
    BY <1>1, <2>2, Entered
  <2> QED
    BY <1>3, <2>2, <2>3, <2>4, <2>5, <2>6, ParkSettles
<1>7. CASE TakeFreeReview(h)
  <2>1. handler[h] \in DecidedType
    BY <1>7, HandlerHolds DEF TakeFreeReview
  <2>2. PICK p : p = [kind |-> "FREE", case |-> c, user |-> handler[h].user, session |-> 0, state |-> "SUCCEEDED"]
    OBVIOUS
  <2>3. p \in PaymentType /\ p.case = c /\ p.kind = "FREE" /\ p.state = "SUCCEEDED"
    BY <2>1, <2>2 DEF PaymentType, DecidedType
  <2>4. /\ EnterQuoted(c, handler[h].seen) /\ Accept(c, "FREE") /\ payments' = Append(payments, p)
        /\ Become(h, Start(c)) /\ At(h, "decided")
        /\ UNCHANGED <<funds, sessions, requests, queue, others>>
    BY <1>3, <1>7, <2>2 DEF TakeFreeReview
  <2>5. /\ DOMAIN payments \subseteq DOMAIN payments' /\ \A i \in DOMAIN payments : payments'[i] = payments[i]
        /\ \E i \in DOMAIN payments' : payments'[i] = p
    BY <1>1, <2>3, <2>4, Appended DEF DataTypes
  <2>6. QuoteSettled(c)'
    BY <1>1, <2>3, <2>4, <2>5 DEF Accept, QuoteSettled, DataTypes, None
  <2>7. PICK m : m = "FREE" /\ m # None
    BY DEF None
  <2>8. Accept(c, m) /\ UNCHANGED <<entries, spent, sessions, job, reopened, lost>>
    BY <2>4, <2>7 DEF funds, queue, others
  <2>9. /\ \A d \in Cases \ {c} : status'[d] = status[d]
        /\ status'[c] = status[c] \/ status[c] = "DOCS_COMPLETE"
    BY <1>1, <2>4, Entered
  <2> QED
    BY <1>3, <2>4, <2>5, <2>6, <2>7, <2>8, <2>9, ParkSettles
<1>8. CASE OpenReviewCheckout(h) \/ OpenRequest(h)
  <2>1. PICK r : r = Idle
    OBVIOUS
  <2>2. /\ EnterQuoted(c, handler[h].seen) /\ Become(h, r)
        /\ UNCHANGED <<funds, payments, accepted, queue, others>>
    BY <1>3, <1>8, <2>1 DEF OpenReviewCheckout, OpenRequest, money
  <2>3. \A d \in Cases \ {c} : Opened(d)' => Opened(d)
    <3>1. CASE UNCHANGED sessions
      BY <3>1 DEF Opened
    <3>2. CASE OpenReviewCheckout(h)
      <4>1. handler[h] \in DecidedType
        BY <3>2, HandlerHolds DEF OpenReviewCheckout
      <4>2. PICK x : x = [kind |-> "review", case |-> c, user |-> handler[h].user,
                          rung |-> handler[h].rung, paid |-> FALSE]
        OBVIOUS
      <4>3. sessions' = Append(sessions, x) /\ x \in SessionType /\ x.case = c
        BY <1>3, <3>2, <4>1, <4>2 DEF OpenReviewCheckout, OpenSession, SessionType, DecidedType
      <4> QED
        BY <1>1, <4>3, Appended DEF DataTypes, Opened
    <3> QED
      BY <1>8, <3>1, <3>2 DEF OpenRequest, money
  <2>4. ASSUME Undisturbed(c), c \notin lost' \cup reopened PROVE Undisturbed(c)'
    <3>1. status[c] # "AWAITING_DOCS" /\ status'[c] = status[c]
      BY <1>1, <1>4, <2>2, <2>4, Entered DEF Undisturbed
    <3>2. Starting(c)' <=> Starting(c)
      BY <1>1, <1>4, <2>1, <2>2, OneHandlerMoves DEF Idle
    <3>3. QuoteSettled(c) => QuoteSettled(c)'
      BY <1>1, <2>2, SettledStays DEF funds, Pays
    <3> QED
      BY <2>2, <2>4, <3>1, <3>2, <3>3 DEF Undisturbed, queue
  <2>5. c \in entries' => accepted'[c] # None
    BY <2>2 DEF ParkInv, funds
  <2> QED
    BY <1>1, <1>4, <2>1, <2>2, <2>3, <2>4, <2>5, Entered, ParkAround DEF funds, queue, others
<1> QED
  BY <1>5, <1>6, <1>7, <1>8

LEMMA ParkAfter ==
  ASSUME TypeInv, ParkInv, NEW h \in Handlers,
         \/ \E s \in DOMAIN sessions : FulfillRead(h, s)
         \/ CreditRace(h) \/ FulfillPack(h) \/ FulfillReview(h) \/ FulfillConflict(h)
         \/ StartAnalysis(h) \/ Die(h)
  PROVE  ParkInv'
<1>1. DataTypes /\ DOMAIN handler = Handlers
  BY DEF TypeInv, HandlersOK
<1>2. PICK q : q = Idle
  OBVIOUS
<1>3. q.pc = "idle"
  BY <1>2 DEF Idle
<1>4. CASE CreditRace(h) \/ FulfillConflict(h) \/ \E s \in DOMAIN sessions : FulfillRead(h, s)
  <2>1. PICK r : /\ Become(h, r) /\ r.pc \in {"idle", "fulfilling"} /\ ~At(h, "starting")
                 /\ UNCHANGED <<status, funds, money, accepted, requests, queue, others>>
    BY <1>2, <1>3, <1>4 DEF CreditRace, FulfillConflict, FulfillRead, At
  <2>2. r.pc \notin {"decided", "requesting", "starting"}
    BY <2>1
  <2>3. UNCHANGED <<status, accepted, job, entries, spent, sessions, payments, reopened, lost>>
    BY <2>1 DEF funds, money, queue, others
  <2> QED
    BY <2>1, <2>2, <2>3, ParkQuietly
<1>5. CASE FulfillPack(h)
  <2> DEFINE s == handler[h].session
             p == [kind |-> "PACK", case |-> sessions[s].case, user |-> sessions[s].user,
                   session |-> s, state |-> "SUCCEEDED"]
  <2>1. s \in DOMAIN sessions /\ sessions[s] \in SessionType /\ s \in Nat
    BY <1>1, <1>5, HandlerHolds DEF FulfillPack, DataTypes
  <2>2. payments' = Append(payments, p) /\ p \in PaymentType
    BY <1>5, <2>1 DEF FulfillPack, Book, PaymentType, SessionType
  <2> HIDE DEF p, s
  <2>3. DOMAIN payments \subseteq DOMAIN payments' /\ \A i \in DOMAIN payments : payments'[i] = payments[i]
    BY <1>1, <2>2, Appended DEF DataTypes
  <2>4. /\ Become(h, q) /\ ~At(h, "starting")
        /\ UNCHANGED <<status, accepted, job, entries, spent, sessions, reopened, lost>>
    BY <1>2, <1>5 DEF FulfillPack, At, queue, others
  <2>5. q.pc \notin {"decided", "requesting", "starting"}
    BY <1>3
  <2> QED
    BY <2>3, <2>4, <2>5, ParkQuietly
<1>6. CASE FulfillReview(h)
  <2> DEFINE s == handler[h].session
  <2>1. /\ s \in DOMAIN sessions /\ sessions[s].kind = "review" /\ sessions[s] \in SessionType /\ s \in Nat
        /\ sessions[s].case \in Cases /\ handler[h].case = sessions[s].case
    BY <1>1, <1>6, HandlerHolds DEF FulfillReview, DataTypes
  <2>2. PICK c \in Cases : c = sessions[s].case
    BY <2>1
  <2>3. PICK p : p = [kind |-> "CARD", case |-> c, user |-> sessions[s].user,
                      session |-> s, state |-> "SUCCEEDED"]
    OBVIOUS
  <2>4. p \in PaymentType /\ p.kind = "CARD" /\ p.state = "SUCCEEDED" /\ p.case = c
    BY <2>1, <2>3 DEF PaymentType, SessionType
  <2>5. payments' = Append(payments, p)
    BY <1>6, <2>2, <2>3 DEF FulfillReview, Book
  <2>6. /\ DOMAIN payments \subseteq DOMAIN payments' /\ \A i \in DOMAIN payments : payments'[i] = payments[i]
        /\ \E i \in DOMAIN payments' : payments'[i] = p
    BY <1>1, <2>4, <2>5, Appended DEF DataTypes
  <2>7. PICK m : m = "CARD" /\ m # None
    BY DEF None
  <2>8. /\ Become(h, Start(c)) /\ At(h, "fulfilling") /\ Opened(c)
        /\ UNCHANGED <<sessions, job, reopened, lost, entries, spent>>
    BY <1>6, <2>1, <2>2 DEF FulfillReview, Opened, funds, queue, others
  <2>9. \/ UNCHANGED <<status, accepted>> /\ accepted[c] # None
        \/ EnterQuoted(c, handler[h].seen) /\ Accept(c, m)
    BY <1>6, <2>1, <2>2, <2>7 DEF FulfillReview
  <2>10. /\ \A d \in Cases \ {c} : status'[d] = status[d]
         /\ status'[c] = status[c] \/ status[c] = "DOCS_COMPLETE"
    BY <1>1, <2>9, Entered
  <2>11. Accept(c, m) => QuoteSettled(c)'
    BY <1>1, <2>4, <2>6, <2>7 DEF Accept, QuoteSettled, DataTypes, None
  <2> QED
    BY <2>6, <2>7, <2>8, <2>9, <2>10, <2>11, ParkSettles
<1>7. CASE StartAnalysis(h)
  <2>1. handler[h] \in StartingType /\ At(h, "starting")
    BY <1>7, HandlerHolds DEF StartAnalysis
  <2>2. PICK c \in Cases : c = handler[h].case
    BY <2>1 DEF StartingType
  <2>3. /\ job' = [job EXCEPT ![c] = IF @ = None THEN "waiting" ELSE @] /\ Become(h, q)
        /\ UNCHANGED <<status, funds, money, accepted, requests, runs, others>>
    BY <1>2, <1>7, <2>2 DEF StartAnalysis
  <2>4. ASSUME Undisturbed(c), c \notin lost' \cup reopened PROVE Undisturbed(c)'
    <3>1. Starting(c) /\ accepted[c] # None /\ status[c] # "AWAITING_DOCS"
      BY <2>1, <2>2, <2>4 DEF At, Starting, Undisturbed
    <3>2. job'[c] = IF job[c] = None THEN "waiting" ELSE job[c]
      BY <1>1, <2>3 DEF DataTypes
    <3>3. QuoteSettled(c)'
      BY <1>1, <2>3, <2>4, <3>1, SettledStays DEF funds, money, Pays, Undisturbed
    <3>4. job[c] \in {None, "waiting", "completed", "failed"}
      BY <1>1 DEF DataTypes
    <3> QED
      BY <2>3, <2>4, <3>1, <3>2, <3>3, <3>4 DEF Undisturbed, None
  <2>5. \A d \in Cases \ {c} : job'[d] = job[d] /\ (Opened(d)' => Opened(d))
    BY <1>1, <2>3 DEF DataTypes, Opened, money
  <2>6. c \in entries' => accepted'[c] # None
    BY <2>3 DEF ParkInv, funds
  <2>7. UNCHANGED <<status, accepted, entries, spent, payments, reopened, lost>>
    BY <2>3 DEF funds, money, others
  <2> QED
    BY <1>2, <2>2, <2>3, <2>4, <2>5, <2>6, <2>7, ParkAround
<1>8. CASE Die(h)
  <2>1. /\ Become(h, q) /\ lost \subseteq lost' /\ (At(h, "starting") => handler[h].case \in lost')
        /\ UNCHANGED <<status, bucket, funds, money, accepted, requests, queue, reopened>>
    BY <1>2, <1>8 DEF Die, Rare
  <2>2. UNCHANGED <<status, accepted, job, entries, spent, sessions, payments, reopened>>
    BY <2>1 DEF funds, money, queue
  <2>3. CASE At(h, "starting")
    <3>1. PICK c \in Cases : c = handler[h].case
      BY <2>3, HandlerHolds DEF StartingType
    <3>2. \A d \in Cases : Opened(d)' => Opened(d)
      BY <2>2 DEF Opened
    <3>3. c \in entries' => accepted'[c] # None
      BY <2>2 DEF ParkInv
    <3> QED
      BY <1>2, <2>1, <2>2, <2>3, <3>1, <3>2, <3>3, ParkAround
  <2>4. CASE ~At(h, "starting")
    <3>1. lost' = lost
      BY <1>8, <2>4 DEF Die, Rare
    <3> QED
      BY <1>3, <2>1, <2>2, <2>4, <3>1, ParkQuietly
  <2> QED
    BY <2>3, <2>4
<1> QED
  BY <1>4, <1>5, <1>6, <1>7, <1>8

\* A step that changes nothing of what a case's course depends on.
LEMMA ParkSame ==
  ASSUME ParkInv, UNCHANGED <<status, accepted, job, entries, spent, payments, handler, reopened, lost>>,
         \A c \in Cases : Opened(c)' => Opened(c)
  PROVE  ParkInv'
<1>1. ASSUME NEW c \in Cases \ (lost' \cup reopened') PROVE Undisturbed(c)'
  <2>1. Undisturbed(c) /\ (Opened(c)' => Opened(c))
    BY DEF ParkInv
  <2>2. (Starting(c)' <=> Starting(c)) /\ (Busy(c)' => Busy(c)) /\ (QuoteSettled(c) => QuoteSettled(c)')
    BY DEF Starting, Busy, QuoteSettled
  <2> QED
    BY <2>1, <2>2, Bystander
<1> QED
  BY <1>1 DEF ParkInv

LEMMA ParkCase ==
  ASSUME TypeInv, ParkInv, NEW c \in Cases, Case(c)
  PROVE  ParkInv'
<1>1. DataTypes
  BY DEF TypeInv
<1>2. ASSUME UNCHANGED <<status, accepted, job, entries, spent, payments, sessions, handler, reopened, lost>>
      PROVE  ParkInv'
  BY <1>2, ParkSame DEF Opened
<1>3. ASSUME NEW b \in Buckets, Meter(c, b) PROVE ParkInv'
  BY <1>2, <1>3 DEF Meter, funds, money, queue
<1>4. ASSUME NEW i \in DOMAIN requests[c], NEW a \in {"QUOTED", "DECLINED"}, DecideQuoteRequest(c, i, a)
      PROVE  ParkInv'
  BY <1>2, <1>4 DEF DecideQuoteRequest, funds, money, queue, others
<1>5. ASSUME UNCHANGED <<handler, accepted, entries, spent, payments, sessions, lost>>,
             \A d \in Cases \ {c} : status'[d] = status[d] /\ job'[d] = job[d],
             status'[c] = "DOCS_COMPLETE" => c \in reopened', reopened \subseteq reopened',
             c \notin lost \cup reopened' /\ Undisturbed(c) => Undisturbed(c)'
      PROVE  ParkInv'
  <2>1. \A d \in Cases : Opened(d)' => Opened(d)
    BY <1>5 DEF Opened
  <2> QED
    BY <1>5, <2>1, ParkBeside DEF Pays
<1>6. CASE RecordsComplete(c)
  <2>1. /\ status[c] = "AWAITING_DOCS" /\ status'[c] = "QUOTED"
        /\ \A d \in Cases \ {c} : status'[d] = status[d]
        /\ UNCHANGED <<handler, accepted, entries, spent, payments, sessions, lost, job, reopened>>
    BY <1>1, <1>6 DEF RecordsComplete, DataTypes, funds, money, queue, others
  <2>2. ASSUME Undisturbed(c) PROVE Undisturbed(c)'
    BY <2>1, <2>2 DEF Undisturbed, Starting, Busy, Opened
  <2> QED
    BY <1>5, <2>1, <2>2
<1>7. CASE RunAnalysis(c)
  <2>1. /\ job[c] = "waiting" /\ \A d \in Cases \ {c} : status'[d] = status[d] /\ job'[d] = job[d]
        /\ UNCHANGED <<handler, accepted, entries, spent, payments, sessions, lost, reopened>>
    BY <1>1, <1>7 DEF RunAnalysis, DataTypes, funds, money, others
  <2>2. ASSUME Undisturbed(c) PROVE Undisturbed(c)'
    <3>1. status[c] = "QUOTED" /\ accepted[c] # None /\ QuoteSettled(c)
      BY <2>1, <2>2 DEF Undisturbed
    <3>2. status'[c] = "READY" /\ job'[c] = "completed"
      BY <1>1, <1>7, <3>1 DEF RunAnalysis, DataTypes
    <3>3. QuoteSettled(c)' /\ (Busy(c)' => Busy(c))
      BY <2>1, <3>1 DEF QuoteSettled, Busy
    <3> QED
      BY <2>1, <3>1, <3>2, <3>3 DEF Undisturbed
  <2>3. status'[c] = "DOCS_COMPLETE" => c \in reopened'
    BY <1>1, <1>7, <2>1 DEF RunAnalysis, DataTypes, ParkInv
  <2> QED
    BY <1>5, <2>1, <2>2, <2>3
<1>8. CASE Rerun(c) \/ Reanalyze(c)
  <2>1. /\ \A d \in Cases \ {c} : status'[d] = status[d] /\ job'[d] = job[d]
        /\ UNCHANGED <<handler, accepted, entries, spent, payments, sessions, lost>>
        /\ reopened' = reopened \cup {c}
    BY <1>1, <1>8 DEF Rerun, Reanalyze, Rare, DataTypes, funds, money, queue
  <2> QED
    BY <1>5, <2>1
<1>9. CASE Resume(c)
  <2>1. /\ \A d \in Cases \ {c} : status'[d] = status[d] /\ job'[d] = job[d]
        /\ UNCHANGED <<status, handler, accepted, entries, spent, payments, sessions, lost, reopened>>
        /\ c \in reopened
    BY <1>1, <1>9 DEF Resume, DataTypes, funds, money, others, ParkInv
  <2> QED
    BY <1>5, <2>1
<1> QED
  BY <1>3, <1>4, <1>6, <1>7, <1>8, <1>9 DEF Case

LEMMA ParkShop ==
  ASSUME TypeInv, RowsInv, ParkInv, Shop
  PROVE  ParkInv'
<1>1. DataTypes /\ payments \in Seq(PaymentType) /\ sessions \in Seq(SessionType)
  BY DEF TypeInv, DataTypes
<1>2. ASSUME UNCHANGED <<status, accepted, job, entries, spent, payments, handler, reopened, lost>>,
             \A c \in Cases : Opened(c)' => Opened(c)
      PROVE  ParkInv'
  BY <1>2, ParkSame
<1>3. ASSUME NEW u \in Attorneys, NEW r \in Buckets, BuyPack(u, r) PROVE ParkInv'
  <2>1. PICK x : x = [kind |-> "pack", case |-> None, user |-> u, rung |-> r, paid |-> FALSE]
    OBVIOUS
  <2>2. sessions' = Append(sessions, x) /\ x \in SessionType /\ x.kind = "pack"
    BY <1>3, <2>1 DEF BuyPack, OpenSession, SessionType
  <2>3. \A c \in Cases : Opened(c)' => Opened(c)
    BY <1>1, <2>2, Appended DEF Opened
  <2> QED
    BY <1>2, <1>3, <2>3 DEF BuyPack, funds, queue, others
<1>4. ASSUME NEW s \in DOMAIN sessions, PaySession(s) PROVE ParkInv'
  <2>1. /\ DOMAIN sessions' = DOMAIN sessions
        /\ \A k \in DOMAIN sessions : sessions'[k].kind = sessions[k].kind /\ sessions'[k].case = sessions[k].case
    BY <1>1, <1>4 DEF PaySession, SessionType
  <2>2. \A c \in Cases : Opened(c)' => Opened(c)
    BY <2>1 DEF Opened
  <2> QED
    BY <1>2, <1>4, <2>2 DEF PaySession, funds, queue, others
<1>5. ASSUME \/ \E n \in Grants : SetAllowance(n)
             \/ PeriodEnds
             \/ \E p \in DOMAIN packs : PackExpires(p)
      PROVE  ParkInv'
  <2>1. UNCHANGED <<status, accepted, job, entries, spent, payments, sessions, handler, reopened, lost>>
    BY <1>5 DEF SetAllowance, PeriodEnds, PackExpires, Rare, money, queue
  <2>2. \A c \in Cases : Opened(c)' => Opened(c)
    BY <2>1 DEF Opened
  <2> QED
    BY <1>2, <2>1, <2>2
<1>6. ASSUME NEW i \in DOMAIN payments, NEW x \in {"PARTIALLY_REFUNDED", "REFUNDED"}, Refund(i, x)
      PROVE ParkInv'
  <2>1. PICK c \in Cases : c = payments[i].case
    BY <1>6, RowsAre DEF RowOK, Refund
  <2>2. /\ UNCHANGED <<handler, accepted, entries, spent, sessions, job, reopened>>
        /\ payments' = [payments EXCEPT ![i].state = x] /\ lost \subseteq lost'
        /\ \A d \in Cases \ {c} : status'[d] = status[d]
        /\ status'[c] = status[c] \/ status'[c] = "REFUNDED"
    BY <1>1, <1>6, <2>1 DEF Refund, Rare, funds, queue, DataTypes
  <2>3. status[c] # "DOCS_COMPLETE" => c \in lost'
    BY <1>6, <2>1 DEF Refund, Rare
  <2>4. status[c] = "DOCS_COMPLETE" => c \in reopened
    BY DEF ParkInv
  <2>5. status'[c] = "DOCS_COMPLETE" => c \in reopened'
    BY <2>2, <2>4
  <2>6. DOMAIN payments' = DOMAIN payments /\ \A j \in DOMAIN payments \ {i} : payments'[j] = payments[j]
    BY <1>1, <2>2
  <2>7. \A j \in DOMAIN payments, d \in Cases \ {c} : Pays(j, d) => Pays(j, d)'
    BY <2>1, <2>6 DEF Pays
  <2>8. \A d \in Cases : Opened(d)' => Opened(d)
    BY <2>2 DEF Opened
  <2>9. c \in lost' \cup reopened'
    BY <2>2, <2>3, <2>4
  <2> QED
    BY <2>2, <2>5, <2>6, <2>7, <2>8, <2>9, ParkBeside
<1> QED
  BY <1>3, <1>4, <1>5, <1>6 DEF Shop

LEMMA ParkNext == TypeInv /\ RowsInv /\ ParkInv /\ [Next]_vars => ParkInv'
<1> SUFFICES ASSUME TypeInv, RowsInv, ParkInv, [Next]_vars PROVE ParkInv'
  OBVIOUS
<1>1. ASSUME NEW h \in Handlers, Call(h) \/ Continue(h) \/ \E s \in DOMAIN sessions : FulfillRead(h, s)
      PROVE ParkInv'
  BY <1>1, ParkCall, ParkDecided, ParkAfter DEF Continue
<1>2. CASE UNCHANGED vars
  BY <1>2, ParkSame DEF vars, Opened
<1> QED
  BY <1>1, <1>2, ParkCase, ParkShop, StepsOfNext

LEMMA ParkInit == Init => ParkInv
<1> SUFFICES ASSUME Init PROVE ParkInv
  OBVIOUS
<1>1. ASSUME NEW c \in Cases PROVE Undisturbed(c)
  <2>1. ~Busy(c) /\ ~Starting(c) /\ ~Opened(c)
    BY DEF Init, Busy, Starting, Opened, Idle
  <2> QED
    BY <2>1 DEF Init, Undisturbed, None
<1> QED
  BY <1>1 DEF Init, ParkInv

\* A matter that was accepted waits at QUOTED with no job only where a crash, a Redis
\* failure or a refund touched it, or a re-run reopened it.
THEOREM ParkedByFaultOrRerun == Spec => []ParkedOnlyByFaultOrRerun
<1>1. Init => IInv
  BY TypeInit, RowsInit, CountInit, ParkInit DEF IInv
<1>2. IInv /\ [Next]_vars => IInv'
  BY TypeNext, RowsNext, CountNext, ParkNext DEF IInv
<1>3. IInv => ParkedOnlyByFaultOrRerun
  <2> SUFFICES ASSUME IInv, NEW c \in Cases, status[c] = "QUOTED", accepted[c] # None, ~Started(c),
                      c \notin lost \cup reopened
               PROVE  FALSE
    BY DEF ParkedOnlyByFaultOrRerun
  <2>1. Undisturbed(c)
    BY DEF IInv, ParkInv
  <2> QED
    BY <2>1 DEF Undisturbed, Started, Starting
<1> QED
  BY <1>1, <1>2, <1>3, PTL DEF Spec
================================================================================
