---------------------------- MODULE CaseDeskProofs ---------------------------
(***************************************************************************)
(* The staff's desk and the case's own facts, for every value of the        *)
(* constants: a request has the effect of its decision, an erasure leaves   *)
(* nothing half done (StaffRequests), and the five places a case's facts    *)
(* are kept in tell one story (CaseFacts). Each of them has an inductive    *)
(* invariant, a lemma for each action, and the property as a theorem.       *)
(***************************************************************************)
EXTENDS StaffRequests, CaseFacts, Integers, TLAPS
-----------------------------------------------------------------------------
(***************************************************************************)
(* StaffRequests                                                            *)
(***************************************************************************)
Working == {"refund", "send", "book", "list", "mark", "erase"}
DeskCall == [pc : Working \cup {"idle", "open", "decide"}, req : Requests \cup {NoRequest},
             verdict : {"none", "APPROVED", "DECLINED"}, type : Types \cup {"none"},
             amount : Int, saw : Int \cup Owned, todo : SUBSET Owned]
RequestRow == [type : Types, of : Owned, amount : Int, decision : {"none", "APPROVED", "DECLINED"}]

\* A call that is about a request is approving it while it works on it; a refund
\* remembers the rollup it read, an erasure the case.
CallOK(w) ==
  /\ w.pc \in {"idle", "open"} => w.req = NoRequest
  /\ w.pc = "decide" => w.req \in Requests
  /\ w.pc \in Working /\ w.req \in Requests => w.verdict = "APPROVED"
  /\ w.pc \in {"send", "book"} => w.saw \in Int
  /\ w.pc = "erase" => w.saw \in Owned
  /\ w.pc = "open" => w.type \in Types

DeskTypes ==
  /\ kase \in [Owned -> {"none", "live", "marked"}]
  /\ owns \subseteq Owned /\ late \subseteq Owned /\ erased \in BOOLEAN
  /\ rollup \in Int /\ cuts \in Nat
  /\ request \in [Requests -> RequestRow \cup {NoRow}]
  /\ admin \in [Admins -> DeskCall] /\ \A a \in Admins : CallOK(admin[a])
  /\ done \in [Requests -> Nat] /\ clashed \subseteq Requests

\* A call's request, and whether it has carried that one's action out.
Holds(a, r) == admin[a].req = r
Carried(w) == w.pc = "decide" /\ w.verdict = "APPROVED"
Undecided(r) == request[r] /= NoRow /\ request[r].decision = "none"

\* A request no two decided and none dropped is in one call's hands, which has or has
\* not yet carried its action out, or in none's, its effect that of its decision.
EffectOf(r) ==
  /\ request[r] = NoRow => done[r] = 0 /\ \A a \in Admins : ~Holds(a, r)
  /\ request[r] /= NoRow /\ request[r].decision = "APPROVED" => done[r] > 0
  /\ \A a \in Admins : Holds(a, r) /\ Carried(admin[a]) => done[r] > 0
  /\ \/ r \in clashed
     \/ \E a \in Admins : /\ Holds(a, r) /\ \A b \in Admins \ {a} : ~Holds(b, r)
                          /\ Undecided(r)
                          /\ done[r] = IF Carried(admin[a]) THEN 1 ELSE 0
     \/ /\ \A a \in Admins : ~Holds(a, r)
        /\ done[r] = IF request[r] /= NoRow /\ request[r].decision = "APPROVED" THEN 1 ELSE 0

\* A case that is there is its owner's or came late; a deletion of the account has
\* before it every case it may still leave behind; and a case marked deleted is in a
\* deletion's hands, unless one was cut short.
ErasureInv ==
  /\ \A c \in Owned : kase[c] /= "none" => c \in owns \/ c \in late
  /\ erased => \A c \in Owned : kase[c] = "none" \/ c \in late
  /\ \A a \in Admins : Erasing(a) => \A c \in Owned : kase[c] = "none" \/ c \in late \/ c \in admin[a].todo
  /\ \A c \in Owned : kase[c] = "marked" => cuts > 0 \/ \E a \in Admins : admin[a].pc = "erase" /\ admin[a].saw = c

DeskInv == DeskTypes /\ (\A r \in Requests : EffectOf(r)) /\ ErasureInv

\* A call with one field written is a call with the others as they were.
LEMMA SetPc ==
  ASSUME NEW w \in DeskCall, NEW x \in Working \cup {"idle", "open", "decide"}, NEW v, v = [w EXCEPT !.pc = x]
  PROVE  /\ v \in DeskCall /\ v.pc = x
         /\ v.req = w.req /\ v.verdict = w.verdict /\ v.type = w.type /\ v.amount = w.amount /\ v.saw = w.saw /\ v.todo = w.todo
BY DEF DeskCall

LEMMA SetReq ==
  ASSUME NEW w \in DeskCall, NEW x \in Requests \cup {NoRequest}, NEW v, v = [w EXCEPT !.req = x]
  PROVE  /\ v \in DeskCall /\ v.req = x
         /\ v.pc = w.pc /\ v.verdict = w.verdict /\ v.type = w.type /\ v.amount = w.amount /\ v.saw = w.saw /\ v.todo = w.todo
BY DEF DeskCall

LEMMA SetVerdict ==
  ASSUME NEW w \in DeskCall, NEW x \in {"none", "APPROVED", "DECLINED"}, NEW v, v = [w EXCEPT !.verdict = x]
  PROVE  /\ v \in DeskCall /\ v.verdict = x
         /\ v.pc = w.pc /\ v.req = w.req /\ v.type = w.type /\ v.amount = w.amount /\ v.saw = w.saw /\ v.todo = w.todo
BY DEF DeskCall

LEMMA SetType ==
  ASSUME NEW w \in DeskCall, NEW x \in Types \cup {"none"}, NEW v, v = [w EXCEPT !.type = x]
  PROVE  /\ v \in DeskCall /\ v.type = x
         /\ v.pc = w.pc /\ v.req = w.req /\ v.verdict = w.verdict /\ v.amount = w.amount /\ v.saw = w.saw /\ v.todo = w.todo
BY DEF DeskCall

LEMMA SetAmount ==
  ASSUME NEW w \in DeskCall, NEW x \in Int, NEW v, v = [w EXCEPT !.amount = x]
  PROVE  /\ v \in DeskCall /\ v.amount = x
         /\ v.pc = w.pc /\ v.req = w.req /\ v.verdict = w.verdict /\ v.type = w.type /\ v.saw = w.saw /\ v.todo = w.todo
BY DEF DeskCall

LEMMA SetSaw ==
  ASSUME NEW w \in DeskCall, NEW x \in Int \cup Owned, NEW v, v = [w EXCEPT !.saw = x]
  PROVE  /\ v \in DeskCall /\ v.saw = x
         /\ v.pc = w.pc /\ v.req = w.req /\ v.verdict = w.verdict /\ v.type = w.type /\ v.amount = w.amount /\ v.todo = w.todo
BY DEF DeskCall

LEMMA SetTodo ==
  ASSUME NEW w \in DeskCall, NEW x \in SUBSET Owned, NEW v, v = [w EXCEPT !.todo = x]
  PROVE  /\ v \in DeskCall /\ v.todo = x
         /\ v.pc = w.pc /\ v.req = w.req /\ v.verdict = w.verdict /\ v.type = w.type /\ v.amount = w.amount /\ v.saw = w.saw
BY DEF DeskCall

\* A step of one call leaves the others as they are.
LEMMA OneCall ==
  ASSUME DeskTypes, NEW a \in Admins, NEW w, w \in DeskCall, CallOK(w), admin' = [admin EXCEPT ![a] = w]
  PROVE  /\ admin' \in [Admins -> DeskCall] /\ \A b \in Admins : CallOK(admin'[b])
         /\ admin'[a] = w /\ \A b \in Admins \ {a} : admin'[b] = admin[b]
BY DEF DeskTypes

LEMMA RestIsACall ==
  /\ AtRest \in DeskCall /\ CallOK(AtRest)
  /\ AtRest.pc = "idle" /\ AtRest.req = NoRequest /\ AtRest.type = "none"
  /\ AtRest.verdict = "none" /\ AtRest.todo = {}
BY MoneyAssumption DEF AtRest, DeskCall, CallOK, Working

\* A call that works on, on the same request or on none, leaves each effect as it is.
LEMMA WorkGoesOn ==
  ASSUME \A r \in Requests : EffectOf(r), NEW a \in Admins,
         \A b \in Admins \ {a} : admin'[b] = admin[b],
         admin'[a].req = admin[a].req, admin'[a].pc /= "decide", admin[a].pc /= "decide",
         UNCHANGED <<request, done>>, clashed \subseteq clashed'
  PROVE  \A r \in Requests : EffectOf(r)'
<1> SUFFICES ASSUME NEW r \in Requests PROVE EffectOf(r)'
  OBVIOUS
<1>1. \A b \in Admins : (Holds(b, r)' <=> Holds(b, r)) /\ (Carried(admin[b])' <=> Carried(admin[b]))
  BY DEF Holds, Carried
<1>2. Undecided(r)' <=> Undecided(r)
  BY DEF Undecided
<1>3. EffectOf(r)
  OBVIOUS
<1> QED
  BY <1>1, <1>2, <1>3 DEF EffectOf

\* A call that lets its request go before the action was done leaves it open; one
\* that had done it leaves it among the clashed.
LEMMA WorkDropped ==
  ASSUME \A r \in Requests : EffectOf(r), NEW a \in Admins,
         \A b \in Admins \ {a} : admin'[b] = admin[b], admin'[a] = AtRest,
         admin[a].pc = "decide" => admin[a].req \in clashed',
         UNCHANGED <<request, done>>, clashed \subseteq clashed'
  PROVE  \A r \in Requests : EffectOf(r)'
<1> SUFFICES ASSUME NEW r \in Requests PROVE EffectOf(r)'
  OBVIOUS
<1>1. ~Holds(a, r)' /\ ~Carried(admin[a])'
  BY RestIsACall, MoneyAssumption DEF Holds, Carried
<1>2. \A b \in Admins \ {a} : (Holds(b, r)' <=> Holds(b, r)) /\ (Carried(admin[b])' <=> Carried(admin[b]))
  BY DEF Holds, Carried
<1>3. Undecided(r)' <=> Undecided(r)
  BY DEF Undecided
<1>4. EffectOf(r)
  OBVIOUS
<1>5. CASE ~Holds(a, r)
  BY <1>1, <1>2, <1>3, <1>4, <1>5 DEF EffectOf
<1>6. CASE Holds(a, r)
  <2>1. CASE admin[a].pc = "decide"
    <3>1. r \in clashed'
      BY <1>6, <2>1 DEF Holds
    <3> QED
      BY <1>1, <1>2, <1>4, <1>6, <3>1 DEF EffectOf
  <2>2. CASE admin[a].pc /= "decide"
    <3>1. ~Carried(admin[a])
      BY <2>2 DEF Carried
    <3> QED
      BY <1>1, <1>2, <1>3, <1>4, <1>6, <3>1 DEF EffectOf, Undecided
  <2> QED
    BY <2>1, <2>2
<1> QED
  BY <1>5, <1>6

\* What one call has carried out counts once for its request.
LEMMA WorkDone ==
  ASSUME DeskTypes, \A r \in Requests : EffectOf(r), NEW a \in Admins,
         \A b \in Admins \ {a} : admin'[b] = admin[b], admin[a].pc \in Working,
         IF admin[a].req = NoRequest THEN admin'[a] = AtRest
         ELSE admin'[a].req = admin[a].req /\ Carried(admin'[a]),
         done' = [r \in Requests |-> IF r = admin[a].req THEN done[r] + 1 ELSE done[r]],
         UNCHANGED <<request, clashed>>
  PROVE  \A r \in Requests : EffectOf(r)'
<1> SUFFICES ASSUME NEW r \in Requests PROVE EffectOf(r)'
  OBVIOUS
<1>1. done[r] \in Nat /\ r /= NoRequest /\ ~Carried(admin[a])
  BY MoneyAssumption DEF DeskTypes, Working, Carried
<1>2. \A b \in Admins \ {a} : (Holds(b, r)' <=> Holds(b, r)) /\ (Carried(admin[b])' <=> Carried(admin[b]))
  BY DEF Holds, Carried
<1>3. Undecided(r)' <=> Undecided(r)
  BY DEF Undecided
<1>4. EffectOf(r)
  OBVIOUS
<1>5. CASE ~Holds(a, r)
  <2>1. done'[r] = done[r]
    BY <1>5 DEF Holds
  <2>2. ~Holds(a, r)'
    BY <1>1, <1>5, RestIsACall DEF Holds
  <2> QED
    BY <1>2, <1>3, <1>4, <1>5, <2>1, <2>2 DEF EffectOf
<1>6. CASE Holds(a, r)
  <2>1. done'[r] = done[r] + 1 /\ done'[r] > 0
    BY <1>1, <1>6 DEF Holds
  <2>2. Holds(a, r)' /\ Carried(admin[a])'
    BY <1>1, <1>6 DEF Holds
  <2>3. request[r] /= NoRow
    BY <1>4, <1>6 DEF EffectOf
  <2>4. r \in clashed \/ \E x \in Admins : /\ Holds(x, r) /\ \A b \in Admins \ {x} : ~Holds(b, r)
                                          /\ Undecided(r)
                                          /\ done[r] = IF Carried(admin[x]) THEN 1 ELSE 0
    BY <1>4, <1>6 DEF EffectOf
  <2>5. CASE r \in clashed
    BY <1>2, <1>4, <2>1, <2>2, <2>3, <2>5 DEF EffectOf
  <2>6. CASE r \notin clashed
    <3>1. /\ \A b \in Admins \ {a} : ~Holds(b, r)
          /\ Undecided(r) /\ done[r] = 0
      BY <1>1, <1>6, <2>4, <2>6
    <3>2. done'[r] = 1
      BY <2>1, <3>1
    <3> QED
      BY <1>2, <1>3, <1>4, <2>1, <2>2, <2>3, <3>1, <3>2 DEF EffectOf
  <2> QED
    BY <2>5, <2>6
<1> QED
  BY <1>5, <1>6

\* A step that touches no case, of a call that erases none before or after, disturbs
\* no erasure.
LEMMA NothingErased ==
  ASSUME DeskTypes, ErasureInv, NEW a \in Admins, UNCHANGED caseVars,
         \A b \in Admins \ {a} : admin'[b] = admin[b],
         admin[a].pc /= "erase", admin'[a].pc /= "erase",
         Erasing(a)' => Erasing(a) /\ admin'[a].todo = admin[a].todo,
         cuts' \in Nat, cuts <= cuts'
  PROVE  ErasureInv'
<1>1. UNCHANGED <<kase, owns, erased, late>>
  BY DEF caseVars
<1>2. \A b \in Admins : Erasing(b)' => Erasing(b) /\ admin'[b].todo = admin[b].todo
  BY DEF Erasing
<1>3. ASSUME NEW c \in Owned, kase[c] = "marked"
      PROVE  cuts' > 0 \/ \E b \in Admins : admin'[b].pc = "erase" /\ admin'[b].saw = c
  <2>1. cuts > 0 \/ \E b \in Admins : admin[b].pc = "erase" /\ admin[b].saw = c
    BY <1>3 DEF ErasureInv
  <2>2. CASE cuts > 0
    BY <2>2 DEF DeskTypes
  <2>3. ASSUME NEW b \in Admins, admin[b].pc = "erase", admin[b].saw = c
        PROVE  admin'[b].pc = "erase" /\ admin'[b].saw = c
    BY <2>3
  <2> QED
    BY <2>1, <2>2, <2>3
<1> QED
  BY <1>1, <1>2, <1>3 DEF ErasureInv

\* The row a request opens is one no call is about yet.
LEMMA OpenDesk ==
  ASSUME DeskInv, NEW a \in Admins,
         \/ \E type \in Types, c \in Owned, amount \in {Whole, Part} : RequestRead(a, type, c, amount)
         \/ \E r \in Requests : RequestCommit(a, r)
  PROVE  DeskInv'
<1>1. ASSUME NEW type \in Types, NEW c \in Owned, NEW amount \in {Whole, Part}, RequestRead(a, type, c, amount)
      PROVE  DeskInv'
  <2>1. PICK w1 : w1 = [AtRest EXCEPT !.pc = "open"]
    OBVIOUS
  <2>2. PICK w2 : w2 = [w1 EXCEPT !.type = type]
    OBVIOUS
  <2>3. PICK w3 : w3 = [w2 EXCEPT !.amount = amount]
    OBVIOUS
  <2>4. PICK w : w = [w3 EXCEPT !.todo = {c}]
    OBVIOUS
  <2>5. w1 \in DeskCall /\ w1.pc = "open" /\ w1.req = NoRequest
    BY <2>1, RestIsACall, SetPc
  <2>6. w2 \in DeskCall /\ w2.pc = "open" /\ w2.req = NoRequest /\ w2.type = type
    BY <2>2, <2>5, SetType
  <2>7. amount \in Int
    BY MoneyAssumption DEF Whole
  <2>8. w3 \in DeskCall /\ w3.pc = "open" /\ w3.req = NoRequest /\ w3.type = type
    BY <2>3, <2>6, <2>7, SetAmount
  <2>9. w \in DeskCall /\ w.pc = "open" /\ w.req = NoRequest /\ w.type = type
    BY <2>4, <2>8, SetTodo
  <2>10. /\ admin[a] = AtRest /\ admin' = [admin EXCEPT ![a] = w]
         /\ UNCHANGED <<caseVars, moneyVars, request, done, clashed, cuts>>
    <3>1. w = [[[[AtRest EXCEPT !.pc = "open"] EXCEPT !.type = type] EXCEPT !.amount = amount] EXCEPT !.todo = {c}]
      BY <2>1, <2>2, <2>3, <2>4
    <3> QED
      BY <1>1, <3>1 DEF RequestRead
  <2>11. CallOK(w)
    BY <2>9 DEF CallOK, Working
  <2>12. /\ admin' \in [Admins -> DeskCall] /\ \A b \in Admins : CallOK(admin'[b])
         /\ admin'[a] = w /\ \A b \in Admins \ {a} : admin'[b] = admin[b]
    BY <2>9, <2>10, <2>11, OneCall DEF DeskInv
  <2>13. DeskTypes'
    BY <2>10, <2>12 DEF DeskInv, DeskTypes, caseVars, moneyVars
  <2>14. \A r \in Requests : EffectOf(r)'
    BY <2>9, <2>10, <2>12, RestIsACall, WorkGoesOn DEF DeskInv
  <2>15. ErasureInv'
    <3>1. ~Erasing(a)'
      BY <2>9, <2>12 DEF Erasing
    <3>2. admin[a].pc /= "erase" /\ admin'[a].pc /= "erase" /\ cuts' \in Nat /\ cuts <= cuts'
      BY <2>9, <2>10, <2>12, RestIsACall DEF DeskInv, DeskTypes
    <3> QED
      BY <2>10, <2>12, <3>1, <3>2, NothingErased DEF DeskInv
  <2> QED
    BY <2>13, <2>14, <2>15 DEF DeskInv
<1>2. ASSUME NEW r \in Requests, RequestCommit(a, r) PROVE DeskInv'
  <2>1. PICK c \in admin[a].todo :
          request' = [request EXCEPT ![r] = [type |-> admin[a].type, of |-> c, amount |-> admin[a].amount, decision |-> "none"]]
    BY <1>2 DEF RequestCommit
  <2>2. PICK x : x = [type |-> admin[a].type, of |-> c, amount |-> admin[a].amount, decision |-> "none"]
    OBVIOUS
  <2>3. /\ admin[a].pc = "open" /\ request[r] = NoRow /\ admin' = [admin EXCEPT ![a] = AtRest]
        /\ request' = [request EXCEPT ![r] = x]
        /\ UNCHANGED <<caseVars, moneyVars, done, clashed, cuts>>
    BY <1>2, <2>1, <2>2 DEF RequestCommit
  <2>4. admin[a] \in DeskCall /\ admin[a].type \in Types /\ admin[a].req = NoRequest /\ admin[a].todo \subseteq Owned
    BY <2>3 DEF DeskInv, DeskTypes, CallOK, DeskCall
  <2>5. x \in RequestRow /\ x /= NoRow /\ x.decision = "none"
    <3>1. x \in RequestRow /\ x.decision = "none" /\ x.type \in Types
      BY <2>2, <2>4 DEF RequestRow, DeskCall
    <3>2. NoRow.type \notin Types
      BY DEF NoRow, Types
    <3> QED
      BY <3>1, <3>2
  <2>6. /\ admin' \in [Admins -> DeskCall] /\ \A b \in Admins : CallOK(admin'[b])
        /\ admin'[a] = AtRest /\ \A b \in Admins \ {a} : admin'[b] = admin[b]
    BY <2>3, RestIsACall, OneCall DEF DeskInv
  <2>7. request' \in [Requests -> RequestRow \cup {NoRow}] /\ request'[r] = x /\ \A y \in Requests \ {r} : request'[y] = request[y]
    BY <2>3, <2>5 DEF DeskInv, DeskTypes
  <2>8. DeskTypes'
    BY <2>3, <2>6, <2>7 DEF DeskInv, DeskTypes, caseVars, moneyVars
  <2>9. \A y \in Requests, b \in Admins : (Holds(b, y)' <=> Holds(b, y)) /\ (Holds(b, y) => (Carried(admin[b])' <=> Carried(admin[b])))
    BY <2>4, <2>6, RestIsACall, MoneyAssumption DEF Holds, Carried
  <2>10. EffectOf(r)'
    BY <2>3, <2>5, <2>7, <2>9 DEF DeskInv, EffectOf
  <2>11. ASSUME NEW y \in Requests, y /= r PROVE EffectOf(y)'
    <3>1. request'[y] = request[y] /\ done'[y] = done[y] /\ clashed' = clashed /\ (Undecided(y)' <=> Undecided(y))
      BY <2>3, <2>7, <2>11 DEF Undecided
    <3>2. EffectOf(y)
      BY DEF DeskInv
    <3> QED
      BY <2>9, <3>1, <3>2 DEF EffectOf
  <2>12. ErasureInv'
    <3>1. ~Erasing(a)'
      BY <2>6, RestIsACall DEF Erasing
    <3>2. admin[a].pc /= "erase" /\ admin'[a].pc /= "erase" /\ cuts' \in Nat /\ cuts <= cuts'
      BY <2>3, <2>6, RestIsACall DEF DeskInv, DeskTypes
    <3> QED
      BY <2>3, <2>6, <3>1, <3>2, NothingErased DEF DeskInv
  <2> QED
    BY <2>8, <2>10, <2>11, <2>12 DEF DeskInv
<1> QED
  BY <1>1, <1>2

\* An action begins with nothing carried out and nothing erased.
LEMMA BegunIsACall ==
  ASSUME NEW type \in Types, NEW c \in Owned, NEW amount \in Int, NEW w, w = Begun(type, c, amount)
  PROVE  /\ w \in DeskCall /\ w.pc \in {"refund", "mark", "list"} /\ w.req = NoRequest
         /\ ~(w.type = "ACCOUNT_DELETE" /\ w.pc = "mark")
<1>1. CASE type = "REFUND"
  <2>1. PICK w1 : w1 = [AtRest EXCEPT !.pc = "refund"]
    OBVIOUS
  <2>2. PICK w2 : w2 = [w1 EXCEPT !.type = type]
    OBVIOUS
  <2>3. w1 \in DeskCall /\ w1.pc = "refund" /\ w1.req = NoRequest
    BY <2>1, RestIsACall, SetPc DEF Working
  <2>4. w2 \in DeskCall /\ w2.pc = "refund" /\ w2.req = NoRequest
    BY <2>2, <2>3, SetType
  <2>5. w = [w2 EXCEPT !.amount = amount]
    <3>1. w = [AtRest EXCEPT !.pc = "refund", !.type = type, !.amount = amount]
      BY <1>1 DEF Begun
    <3> QED
      BY <2>1, <2>2, <3>1
  <2> QED
    BY <2>4, <2>5, SetAmount
<1>2. CASE type = "CASE_DELETE"
  <2>1. PICK w1 : w1 = [AtRest EXCEPT !.pc = "mark"]
    OBVIOUS
  <2>2. PICK w2 : w2 = [w1 EXCEPT !.type = type]
    OBVIOUS
  <2>3. w1 \in DeskCall /\ w1.pc = "mark" /\ w1.req = NoRequest
    BY <2>1, RestIsACall, SetPc DEF Working
  <2>4. w2 \in DeskCall /\ w2.pc = "mark" /\ w2.req = NoRequest /\ w2.type = type
    BY <2>2, <2>3, SetType
  <2>5. w = [w2 EXCEPT !.todo = {c}]
    <3>1. w = [AtRest EXCEPT !.pc = "mark", !.type = type, !.todo = {c}]
      BY <1>2 DEF Begun
    <3> QED
      BY <2>1, <2>2, <3>1
  <2> QED
    BY <1>2, <2>4, <2>5, SetTodo
<1>3. CASE type = "ACCOUNT_DELETE"
  <2>1. PICK w1 : w1 = [AtRest EXCEPT !.pc = "list"]
    OBVIOUS
  <2>2. PICK w2 : w2 = [w1 EXCEPT !.type = type]
    OBVIOUS
  <2>3. w1 \in DeskCall /\ w1.pc = "list" /\ w1.req = NoRequest
    BY <2>1, RestIsACall, SetPc DEF Working
  <2>4. w2 \in DeskCall /\ w2.pc = "list" /\ w2.req = NoRequest
    BY <2>2, <2>3, SetType
  <2>5. w = [w2 EXCEPT !.todo = {c}]
    <3>1. w = [AtRest EXCEPT !.pc = "list", !.type = type, !.todo = {c}]
      BY <1>3 DEF Begun
    <3> QED
      BY <2>1, <2>2, <3>1
  <2> QED
    BY <2>4, <2>5, SetTodo
<1> QED
  BY <1>1, <1>2, <1>3 DEF Types

\* A step of one call to w that touches no case and erases none keeps the types and
\* the erasures.
LEMMA DeskStands ==
  ASSUME DeskInv, NEW a \in Admins, NEW w, w \in DeskCall, CallOK(w), admin' = [admin EXCEPT ![a] = w],
         UNCHANGED caseVars, rollup' \in Int, cuts' \in Nat, cuts <= cuts', clashed' \subseteq Requests,
         request' \in [Requests -> RequestRow \cup {NoRow}], done' \in [Requests -> Nat],
         admin[a].pc /= "erase", w.pc /= "erase",
         w.type = "ACCOUNT_DELETE" /\ w.pc = "mark" => Erasing(a) /\ w.todo = admin[a].todo
  PROVE  /\ DeskTypes' /\ ErasureInv'
         /\ admin'[a] = w /\ \A b \in Admins \ {a} : admin'[b] = admin[b]
<1>1. /\ admin' \in [Admins -> DeskCall] /\ \A b \in Admins : CallOK(admin'[b])
      /\ admin'[a] = w /\ \A b \in Admins \ {a} : admin'[b] = admin[b]
  BY OneCall DEF DeskInv
<1>2. DeskTypes'
  BY <1>1 DEF DeskInv, DeskTypes, caseVars
<1>3. Erasing(a)' => Erasing(a) /\ admin'[a].todo = admin[a].todo
  BY <1>1 DEF Erasing
<1>4. ErasureInv'
  BY <1>1, <1>3, NothingErased DEF DeskInv
<1> QED
  BY <1>1, <1>2, <1>4

\* The first to decide an open request is its only holder; a second is what clashed
\* records.
LEMMA DecideDesk ==
  ASSUME DeskInv, NEW a \in Admins, NEW r \in Requests, NEW verdict \in {"APPROVED", "DECLINED"},
         DecideRead(a, r, verdict)
  PROVE  DeskInv'
<1>1. /\ admin[a] = AtRest /\ request[r] /= NoRow /\ request[r].decision = "none" /\ request[r] \in RequestRow
      /\ clashed' = IF Deciding(r) = {} THEN clashed ELSE clashed \cup {r}
      /\ UNCHANGED <<caseVars, moneyVars, request, done, cuts>>
  BY DEF DecideRead, Open, DeskInv, DeskTypes
<1>2. PICK w : /\ admin' = [admin EXCEPT ![a] = w] /\ w \in DeskCall /\ CallOK(w)
               /\ w.req = r /\ ~Carried(w) /\ w.pc \in {"refund", "mark", "list", "decide"}
               /\ ~(w.type = "ACCOUNT_DELETE" /\ w.pc = "mark")
  <2>1. CASE verdict = "DECLINED"
    <3>1. PICK w1 : w1 = [AtRest EXCEPT !.pc = "decide"]
      OBVIOUS
    <3>2. PICK w2 : w2 = [w1 EXCEPT !.req = r]
      OBVIOUS
    <3>3. PICK w : w = [w2 EXCEPT !.verdict = verdict]
      OBVIOUS
    <3>4. w1 \in DeskCall /\ w1.pc = "decide"
      BY <3>1, RestIsACall, SetPc
    <3>5. w2 \in DeskCall /\ w2.pc = "decide" /\ w2.req = r
      BY <3>2, <3>4, SetReq
    <3>6. w \in DeskCall /\ w.pc = "decide" /\ w.req = r /\ w.verdict = "DECLINED"
      BY <2>1, <3>3, <3>5, SetVerdict
    <3>7. admin' = [admin EXCEPT ![a] = w]
      <4>1. w = [[[AtRest EXCEPT !.pc = "decide"] EXCEPT !.req = r] EXCEPT !.verdict = verdict]
        BY <3>1, <3>2, <3>3
      <4> QED
        BY <2>1, <4>1 DEF DecideRead
    <3>8. CallOK(w) /\ ~Carried(w)
      BY <3>6 DEF CallOK, Carried, Working
    <3> QED
      BY <3>6, <3>7, <3>8
  <2>2. CASE verdict = "APPROVED"
    <3>1. PICK w1 : w1 = Begun(request[r].type, request[r].of, request[r].amount)
      OBVIOUS
    <3>2. PICK w2 : w2 = [w1 EXCEPT !.req = r]
      OBVIOUS
    <3>3. PICK w : w = [w2 EXCEPT !.verdict = verdict]
      OBVIOUS
    <3>4. /\ w1 \in DeskCall /\ w1.pc \in {"refund", "mark", "list"}
          /\ ~(w1.type = "ACCOUNT_DELETE" /\ w1.pc = "mark")
      <4>1. request[r].type \in Types /\ request[r].of \in Owned /\ request[r].amount \in Int
        BY <1>1 DEF RequestRow
      <4> QED
        BY <3>1, <4>1, BegunIsACall
    <3>5. w2 \in DeskCall /\ w2.pc = w1.pc /\ w2.type = w1.type /\ w2.req = r
      BY <3>2, <3>4, SetReq
    <3>6. w \in DeskCall /\ w.pc = w1.pc /\ w.type = w1.type /\ w.req = r /\ w.verdict = "APPROVED"
      BY <2>2, <3>3, <3>5, SetVerdict
    <3>7. admin' = [admin EXCEPT ![a] = w]
      <4>1. w = [[Begun(request[r].type, request[r].of, request[r].amount) EXCEPT !.req = r] EXCEPT !.verdict = verdict]
        BY <3>1, <3>2, <3>3
      <4> QED
        BY <2>2, <4>1 DEF DecideRead
    <3>8. CallOK(w) /\ ~Carried(w)
      BY <3>4, <3>6 DEF CallOK, Carried
    <3> QED
      BY <3>4, <3>6, <3>7, <3>8
  <2> QED
    BY <2>1, <2>2
<1>3. /\ DeskTypes' /\ ErasureInv'
      /\ admin'[a] = w /\ \A b \in Admins \ {a} : admin'[b] = admin[b]
  <2>1. /\ rollup' \in Int /\ cuts' \in Nat /\ cuts <= cuts' /\ clashed' \subseteq Requests
        /\ request' \in [Requests -> RequestRow \cup {NoRow}] /\ done' \in [Requests -> Nat]
    BY <1>1 DEF DeskInv, DeskTypes, moneyVars
  <2>2. admin[a].pc /= "erase" /\ w.pc /= "erase"
    BY <1>1, <1>2, RestIsACall
  <2> QED
    BY <1>1, <1>2, <2>1, <2>2, DeskStands
<1>4. /\ \A b \in Admins \ {a}, x \in Requests : (Holds(b, x)' <=> Holds(b, x)) /\ (Carried(admin[b])' <=> Carried(admin[b]))
      /\ \A x \in Requests : ~Holds(a, x) /\ (Holds(a, x)' <=> x = r)
      /\ ~Carried(admin[a])'
      /\ \A x \in Requests : Undecided(x)' <=> Undecided(x)
  BY <1>1, <1>2, <1>3, RestIsACall, MoneyAssumption DEF Holds, Carried, Undecided
<1>5. ASSUME NEW x \in Requests, x /= r PROVE EffectOf(x)'
  <2>1. EffectOf(x) /\ (x \in clashed' <=> x \in clashed)
    BY <1>1, <1>5 DEF DeskInv
  <2> QED
    BY <1>1, <1>4, <1>5, <2>1 DEF EffectOf
<1>6. EffectOf(r)'
  <2>1. EffectOf(r)
    BY DEF DeskInv
  <2>2. CASE Deciding(r) /= {}
    <3>1. r \in clashed'
      BY <1>1, <2>2
    <3> QED
      BY <1>1, <1>4, <2>1, <3>1 DEF EffectOf
  <2>3. CASE Deciding(r) = {}
    <3>1. \A b \in Admins : ~Holds(b, r)
      BY <2>3, MoneyAssumption DEF Deciding, Holds, DeskInv, DeskTypes, CallOK
    <3>2. r \in clashed \/ done[r] = 0
      BY <1>1, <2>1, <3>1 DEF EffectOf
    <3>3. Undecided(r)
      BY <1>1 DEF Undecided
    <3> QED
      BY <1>1, <1>4, <2>1, <2>3, <3>1, <3>2, <3>3 DEF EffectOf
  <2> QED
    BY <2>2, <2>3
<1> QED
  BY <1>3, <1>5, <1>6 DEF DeskInv

\* The console's own action is about no request.
LEMMA ConsoleDesk ==
  ASSUME DeskInv, NEW a \in Admins, NEW type \in Types, NEW amount \in {Whole, Part},
         ConsoleActs(a, type, Reviewed, amount)
  PROVE  DeskInv'
<1>1. PICK w : w = Begun(type, Reviewed, amount)
  OBVIOUS
<1>2. amount \in Int
  BY MoneyAssumption DEF Whole
<1>3. /\ w \in DeskCall /\ w.pc \in {"refund", "mark", "list"} /\ w.req = NoRequest
      /\ ~(w.type = "ACCOUNT_DELETE" /\ w.pc = "mark")
  BY <1>1, <1>2, BegunIsACall, MoneyAssumption
<1>4. /\ admin[a] = AtRest /\ admin' = [admin EXCEPT ![a] = w]
      /\ UNCHANGED <<caseVars, moneyVars, request, done, clashed, cuts>>
  BY <1>1 DEF ConsoleActs
<1>5. CallOK(w)
  BY <1>3, MoneyAssumption DEF CallOK
<1>6. /\ DeskTypes' /\ ErasureInv'
      /\ admin'[a] = w /\ \A b \in Admins \ {a} : admin'[b] = admin[b]
  <2>1. /\ rollup' \in Int /\ cuts' \in Nat /\ cuts <= cuts' /\ clashed' \subseteq Requests
        /\ request' \in [Requests -> RequestRow \cup {NoRow}] /\ done' \in [Requests -> Nat]
    BY <1>4 DEF DeskInv, DeskTypes, moneyVars
  <2>2. admin[a].pc /= "erase" /\ w.pc /= "erase"
    BY <1>3, <1>4, RestIsACall
  <2> QED
    BY <1>3, <1>4, <1>5, <2>1, <2>2, DeskStands
<1>7. \A r \in Requests : EffectOf(r)'
  BY <1>3, <1>4, <1>6, RestIsACall, WorkGoesOn DEF DeskInv
<1> QED
  BY <1>6, <1>7 DEF DeskInv

\* The decision written is the one the call came with.
LEMMA WriteDesk ==
  ASSUME DeskInv, NEW a \in Admins, DecideCommit(a)
  PROVE  DeskInv'
<1>1. PICK r : r = admin[a].req
  OBVIOUS
<1>2. PICK d : d = admin[a].verdict
  OBVIOUS
<1>3. /\ admin[a].pc = "decide" /\ request' = [request EXCEPT ![r].decision = d]
      /\ admin' = [admin EXCEPT ![a] = AtRest]
      /\ UNCHANGED <<caseVars, moneyVars, done, clashed, cuts>>
  BY <1>1, <1>2 DEF DecideCommit
<1>4. r \in Requests /\ d \in {"none", "APPROVED", "DECLINED"} /\ Holds(a, r) /\ request[r] /= NoRow
  <2>1. r \in Requests /\ d \in {"none", "APPROVED", "DECLINED"} /\ Holds(a, r)
    BY <1>1, <1>2, <1>3 DEF DeskInv, DeskTypes, CallOK, DeskCall, Holds
  <2> QED
    BY <2>1 DEF DeskInv, EffectOf
<1>5. PICK x : x = [request[r] EXCEPT !.decision = d]
  OBVIOUS
<1>6. x \in RequestRow /\ x.decision = d /\ x /= NoRow
  <2>1. request[r] \in RequestRow
    BY <1>4 DEF DeskInv, DeskTypes
  <2>2. x \in RequestRow /\ x.decision = d /\ x.type \in Types
    BY <1>4, <1>5, <2>1 DEF RequestRow
  <2>3. NoRow.type \notin Types
    BY DEF NoRow, Types
  <2> QED
    BY <2>2, <2>3
<1>7. /\ request' \in [Requests -> RequestRow \cup {NoRow}] /\ request'[r] = x
      /\ \A y \in Requests \ {r} : request'[y] = request[y]
  BY <1>3, <1>4, <1>5, <1>6 DEF DeskInv, DeskTypes
<1>8. /\ DeskTypes' /\ ErasureInv'
      /\ admin'[a] = AtRest /\ \A b \in Admins \ {a} : admin'[b] = admin[b]
  <2>1. /\ rollup' \in Int /\ cuts' \in Nat /\ cuts <= cuts' /\ clashed' \subseteq Requests
        /\ done' \in [Requests -> Nat]
    BY <1>3 DEF DeskInv, DeskTypes, moneyVars
  <2>2. admin[a].pc /= "erase" /\ AtRest.pc /= "erase" /\ AtRest.type /= "ACCOUNT_DELETE"
    BY <1>3, RestIsACall
  <2> QED
    BY <1>3, <1>7, <2>1, <2>2, RestIsACall, DeskStands
<1>9. /\ \A b \in Admins \ {a}, y \in Requests : (Holds(b, y)' <=> Holds(b, y)) /\ (Carried(admin[b])' <=> Carried(admin[b]))
      /\ \A y \in Requests : ~Holds(a, y)' /\ (Holds(a, y) => y = r)
      /\ (Carried(admin[a]) <=> d = "APPROVED")
  BY <1>1, <1>2, <1>3, <1>8, RestIsACall, MoneyAssumption DEF Holds, Carried
<1>10. ASSUME NEW y \in Requests, y /= r PROVE EffectOf(y)'
  <2>1. EffectOf(y) /\ ~Holds(a, y) /\ request'[y] = request[y] /\ (Undecided(y)' <=> Undecided(y))
    BY <1>7, <1>9, <1>10 DEF DeskInv, Undecided
  <2> QED
    BY <1>3, <1>9, <2>1 DEF EffectOf
<1>11. EffectOf(r)'
  <2>1. EffectOf(r)
    BY <1>4 DEF DeskInv
  <2>2. d = "APPROVED" => done[r] > 0
    BY <1>4, <1>9, <2>1 DEF EffectOf
  <2>3. r \in clashed \/ ((\A b \in Admins \ {a} : ~Holds(b, r)) /\ done[r] = IF d = "APPROVED" THEN 1 ELSE 0)
    BY <1>4, <1>9, <2>1 DEF EffectOf
  <2> QED
    BY <1>3, <1>4, <1>6, <1>7, <1>9, <2>1, <2>2, <2>3 DEF EffectOf
<1> QED
  BY <1>8, <1>10, <1>11 DEF DeskInv

\* A refused action lets the request go undone.
LEMMA DropDesk ==
  ASSUME DeskInv, NEW a \in Admins, admin' = [admin EXCEPT ![a] = AtRest],
         admin[a].pc \in Working \ {"erase"},
         UNCHANGED <<caseVars, moneyVars, request, done, clashed, cuts>>
  PROVE  DeskInv'
<1>1. /\ DeskTypes' /\ ErasureInv'
      /\ admin'[a] = AtRest /\ \A b \in Admins \ {a} : admin'[b] = admin[b]
  <2>1. /\ rollup' \in Int /\ cuts' \in Nat /\ cuts <= cuts' /\ clashed' \subseteq Requests
        /\ request' \in [Requests -> RequestRow \cup {NoRow}] /\ done' \in [Requests -> Nat]
    BY DEF DeskInv, DeskTypes, moneyVars
  <2>2. admin[a].pc /= "erase" /\ AtRest.pc /= "erase" /\ AtRest.type /= "ACCOUNT_DELETE"
    BY RestIsACall
  <2> QED
    BY <2>1, <2>2, RestIsACall, DeskStands
<1>2. admin[a].pc /= "decide"
  BY DEF Working
<1>3. \A r \in Requests : EffectOf(r)'
  BY <1>1, <1>2, WorkDropped DEF DeskInv
<1> QED
  BY <1>1, <1>3 DEF DeskInv

\* What a call that has carried its action out goes on with.
LEMMA CarriedIsACall ==
  ASSUME DeskInv, NEW a \in Admins, CarriedOut(a), admin[a].pc \in Working
  PROVE  /\ admin' \in [Admins -> DeskCall] /\ \A b \in Admins : CallOK(admin'[b])
         /\ admin' = [admin EXCEPT ![a] = admin'[a]]
         /\ admin'[a].pc \in {"idle", "decide"} /\ \A b \in Admins \ {a} : admin'[b] = admin[b]
         /\ IF admin[a].req = NoRequest THEN admin'[a] = AtRest
            ELSE admin'[a].req = admin[a].req /\ Carried(admin'[a])
         /\ done' = [r \in Requests |-> IF r = admin[a].req THEN done[r] + 1 ELSE done[r]]
         /\ done' \in [Requests -> Nat]
<1>1. PICK v : v = admin[a]
  OBVIOUS
<1>2. PICK w1 : w1 = [v EXCEPT !.pc = "decide"]
  OBVIOUS
<1>3. PICK w2 : w2 = [w1 EXCEPT !.todo = {}]
  OBVIOUS
<1>4. PICK w : w = IF v.req = NoRequest THEN AtRest ELSE w2
  OBVIOUS
<1>5. v \in DeskCall /\ CallOK(v)
  BY <1>1 DEF DeskInv, DeskTypes
<1>6. w1 \in DeskCall /\ w1.pc = "decide" /\ w1.req = v.req /\ w1.verdict = v.verdict
  BY <1>2, <1>5, SetPc
<1>7. w2 \in DeskCall /\ w2.pc = "decide" /\ w2.req = v.req /\ w2.verdict = v.verdict
  BY <1>3, <1>6, SetTodo
<1>8. admin' = [admin EXCEPT ![a] = w] /\ done' = [r \in Requests |-> IF r = v.req THEN done[r] + 1 ELSE done[r]]
  <2>1. w2 = [v EXCEPT !.pc = "decide", !.todo = {}]
    BY <1>2, <1>3
  <2> QED
    BY <1>1, <1>4, <2>1 DEF CarriedOut
<1>9. w \in DeskCall /\ w.pc \in {"idle", "decide"} /\ CallOK(w)
  <2>1. CASE v.req = NoRequest
    BY <1>4, <2>1, RestIsACall
  <2>2. CASE v.req /= NoRequest
    <3>1. v.req \in Requests
      BY <1>5, <2>2 DEF DeskCall
    <3> QED
      BY <1>4, <1>7, <2>2, <3>1 DEF CallOK, Working
  <2> QED
    BY <2>1, <2>2
<1>10. /\ admin' \in [Admins -> DeskCall] /\ \A b \in Admins : CallOK(admin'[b])
       /\ admin'[a] = w /\ \A b \in Admins \ {a} : admin'[b] = admin[b]
  BY <1>8, <1>9, OneCall DEF DeskInv
<1>11. IF v.req = NoRequest THEN w = AtRest ELSE w.req = v.req /\ Carried(w)
  <2>1. v.req /= NoRequest => v.verdict = "APPROVED"
    BY <1>1, <1>5 DEF DeskCall, CallOK
  <2> QED
    BY <1>4, <1>7, <2>1 DEF Carried
<1> QED
  BY <1>1, <1>8, <1>9, <1>10, <1>11 DEF DeskInv, DeskTypes

\* A refund reads the rollup, is made, and is booked: the request is done with the
\* booking, and no case is touched.
LEMMA RefundDesk ==
  ASSUME DeskInv, NEW a \in Admins, RefundRead(a) \/ CreateAtStripe(a) \/ BookRefund(a)
  PROVE  DeskInv'
<1>1. PICK v : v = admin[a]
  OBVIOUS
<1>2. v \in DeskCall /\ CallOK(v) /\ rollup \in Int /\ Price \in Int /\ v.amount \in Int
  BY <1>1, MoneyAssumption DEF DeskInv, DeskTypes, DeskCall
<1>3. /\ cuts' \in Nat /\ cuts <= cuts' /\ clashed' \subseteq Requests /\ UNCHANGED <<caseVars, request, clashed, cuts>>
      /\ request' \in [Requests -> RequestRow \cup {NoRow}]
  BY DEF DeskInv, DeskTypes, RefundRead, CreateAtStripe, BookRefund
<1>4. CASE RefundRead(a)
  <2>1. PICK n : n = IF v.amount = Whole THEN Price - rollup ELSE v.amount
    OBVIOUS
  <2>2. n \in Int
    BY <1>2, <2>1
  <2>3. v.pc = "refund" /\ UNCHANGED <<caseVars, moneyVars, request, done, clashed, cuts>>
    BY <1>1, <1>4 DEF RefundRead
  <2>4. CASE ~(Refundable /\ n <= Price - rollup)
    <3>1. admin' = [admin EXCEPT ![a] = AtRest]
      BY <1>1, <1>4, <2>1, <2>4 DEF RefundRead, Refused
    <3> QED
      BY <1>1, <2>3, <3>1, DropDesk DEF Working
  <2>5. CASE Refundable /\ n <= Price - rollup
    <3>1. PICK w1 : w1 = [v EXCEPT !.pc = "send"]
      OBVIOUS
    <3>2. PICK w2 : w2 = [w1 EXCEPT !.amount = n]
      OBVIOUS
    <3>3. PICK w : w = [w2 EXCEPT !.saw = rollup]
      OBVIOUS
    <3>4. w1 \in DeskCall /\ w1.pc = "send" /\ w1.req = v.req /\ w1.verdict = v.verdict
      BY <1>2, <3>1, SetPc DEF Working
    <3>5. w2 \in DeskCall /\ w2.pc = "send" /\ w2.req = v.req /\ w2.verdict = v.verdict
      BY <2>2, <3>2, <3>4, SetAmount
    <3>6. w \in DeskCall /\ w.pc = "send" /\ w.req = v.req /\ w.verdict = v.verdict /\ w.saw = rollup
      BY <1>2, <3>3, <3>5, SetSaw
    <3>7. admin' = [admin EXCEPT ![a] = w]
      <4>1. w = [v EXCEPT !.pc = "send", !.amount = n, !.saw = rollup]
        BY <3>1, <3>2, <3>3
      <4> QED
        BY <1>1, <1>4, <2>1, <2>5, <4>1 DEF RefundRead
    <3>8. CallOK(w)
      BY <1>2, <2>3, <3>6 DEF CallOK, Working
    <3>9. rollup' \in Int /\ done' \in [Requests -> Nat]
      BY <1>2, <2>3 DEF moneyVars, DeskInv, DeskTypes
    <3>10. admin[a].pc /= "erase" /\ w.pc /= "erase" /\ w.pc /= "mark"
      BY <1>1, <2>3, <3>6
    <3>11. /\ DeskTypes' /\ ErasureInv'
           /\ admin'[a] = w /\ \A b \in Admins \ {a} : admin'[b] = admin[b]
      BY <1>3, <3>6, <3>7, <3>8, <3>9, <3>10, DeskStands
    <3>12. \A r \in Requests : EffectOf(r)'
      BY <1>1, <2>3, <3>6, <3>11, WorkGoesOn DEF DeskInv
    <3> QED
      BY <3>11, <3>12 DEF DeskInv
  <2> QED
    BY <2>4, <2>5
<1>5. CASE CreateAtStripe(a)
  <2>1. PICK w : w = [v EXCEPT !.pc = "book"]
    OBVIOUS
  <2>2. w \in DeskCall /\ w.pc = "book" /\ w.req = v.req /\ w.verdict = v.verdict /\ w.saw = v.saw
    BY <1>2, <2>1, SetPc DEF Working
  <2>3. v.pc = "send" /\ UNCHANGED <<caseVars, rollup, request, done, clashed, cuts>>
    BY <1>1, <1>5 DEF CreateAtStripe
  <2>4. admin' = [admin EXCEPT ![a] = w]
    <3>1. admin' = [admin EXCEPT ![a] = [admin[a] EXCEPT !.pc = "book"]]
      BY <1>5 DEF CreateAtStripe, DeskInv, DeskTypes
    <3> QED
      BY <1>1, <2>1, <3>1
  <2>5. CallOK(w)
    BY <1>2, <2>2, <2>3 DEF CallOK, Working
  <2>6. rollup' \in Int /\ done' \in [Requests -> Nat]
    BY <1>2, <2>3 DEF DeskInv, DeskTypes
  <2>7. admin[a].pc /= "erase" /\ w.pc /= "erase" /\ w.pc /= "mark"
    BY <1>1, <2>2, <2>3
  <2>8. /\ DeskTypes' /\ ErasureInv'
        /\ admin'[a] = w /\ \A b \in Admins \ {a} : admin'[b] = admin[b]
    BY <1>3, <2>2, <2>4, <2>5, <2>6, <2>7, DeskStands
  <2>9. \A r \in Requests : EffectOf(r)'
    BY <1>1, <2>2, <2>3, <2>8, WorkGoesOn DEF DeskInv
  <2> QED
    BY <2>8, <2>9 DEF DeskInv
<1>6. CASE BookRefund(a)
  <2>1. v.pc = "book" /\ rollup' = v.saw + v.amount /\ CarriedOut(a) /\ v.pc \in Working
    BY <1>1, <1>6 DEF BookRefund, Working
  <2>2. rollup' \in Int
    BY <1>2, <2>1 DEF CallOK
  <2>3. /\ admin' \in [Admins -> DeskCall] /\ \A b \in Admins : CallOK(admin'[b])
        /\ admin' = [admin EXCEPT ![a] = admin'[a]]
        /\ admin'[a].pc \in {"idle", "decide"} /\ \A b \in Admins \ {a} : admin'[b] = admin[b]
        /\ IF admin[a].req = NoRequest THEN admin'[a] = AtRest
           ELSE admin'[a].req = admin[a].req /\ Carried(admin'[a])
        /\ done' = [r \in Requests |-> IF r = admin[a].req THEN done[r] + 1 ELSE done[r]]
        /\ done' \in [Requests -> Nat]
    BY <1>1, <2>1, CarriedIsACall
  <2>4. PICK w : w = admin'[a]
    OBVIOUS
  <2>5. w \in DeskCall /\ CallOK(w) /\ admin' = [admin EXCEPT ![a] = w] /\ w.pc /= "erase" /\ w.pc /= "mark"
        /\ admin[a].pc /= "erase"
    BY <1>1, <2>1, <2>3, <2>4
  <2>6. DeskTypes' /\ ErasureInv'
    BY <1>3, <2>2, <2>3, <2>5, DeskStands
  <2>7. \A r \in Requests : EffectOf(r)'
    BY <1>1, <1>3, <2>1, <2>3, WorkDone DEF DeskInv
  <2> QED
    BY <2>6, <2>7 DEF DeskInv
<1> QED
  BY <1>4, <1>5, <1>6

\* An account's deletion lists every case its owner has: what is there is on the list
\* or came late.
LEMMA ListDesk ==
  ASSUME DeskInv, NEW a \in Admins, ListCases(a)
  PROVE  DeskInv'
<1>1. PICK v : v = admin[a]
  OBVIOUS
<1>2. v \in DeskCall /\ CallOK(v) /\ owns \subseteq Owned
  BY <1>1 DEF DeskInv, DeskTypes
<1>3. v.pc = "list" /\ UNCHANGED <<caseVars, moneyVars, request, done, clashed, cuts>>
  BY <1>1 DEF ListCases
<1>4. CASE erased \/ (v.req /= NoRequest /\ ~v.todo \subseteq owns)
  <2>1. admin' = [admin EXCEPT ![a] = AtRest]
    BY <1>1, <1>4 DEF ListCases, Refused
  <2> QED
    BY <1>1, <1>3, <2>1, DropDesk DEF Working
<1>5. CASE ~erased /\ ~(v.req /= NoRequest /\ ~v.todo \subseteq owns)
  <2>1. PICK w1 : w1 = [v EXCEPT !.pc = "mark"]
    OBVIOUS
  <2>2. PICK w : w = [w1 EXCEPT !.todo = owns]
    OBVIOUS
  <2>3. w1 \in DeskCall /\ w1.pc = "mark" /\ w1.req = v.req /\ w1.verdict = v.verdict
    BY <1>2, <2>1, SetPc DEF Working
  <2>4. w \in DeskCall /\ w.pc = "mark" /\ w.req = v.req /\ w.verdict = v.verdict /\ w.todo = owns
    BY <1>2, <2>2, <2>3, SetTodo
  <2>5. admin' = [admin EXCEPT ![a] = w]
    <3>1. w = [v EXCEPT !.pc = "mark", !.todo = owns]
      BY <2>1, <2>2
    <3> QED
      BY <1>1, <1>5, <3>1 DEF ListCases
  <2>6. CallOK(w)
    BY <1>2, <1>3, <2>4 DEF CallOK, Working
  <2>7. /\ admin' \in [Admins -> DeskCall] /\ \A b \in Admins : CallOK(admin'[b])
        /\ admin'[a] = w /\ \A b \in Admins \ {a} : admin'[b] = admin[b]
    BY <2>4, <2>5, <2>6, OneCall DEF DeskInv
  <2>8. DeskTypes'
    BY <1>3, <2>7 DEF DeskInv, DeskTypes, caseVars, moneyVars
  <2>9. \A r \in Requests : EffectOf(r)'
    BY <1>1, <1>3, <2>4, <2>7, WorkGoesOn DEF DeskInv
  <2>10. UNCHANGED <<kase, owns, erased, late, cuts>>
    BY <1>3 DEF caseVars
  <2>11. ASSUME NEW b \in Admins, Erasing(b)', NEW c \in Owned
         PROVE  kase[c] = "none" \/ c \in late \/ c \in admin'[b].todo
    <3>1. CASE b = a
      BY <2>4, <2>7, <3>1 DEF DeskInv, ErasureInv
    <3>2. CASE b /= a
      BY <2>7, <2>11, <3>2 DEF DeskInv, ErasureInv, Erasing
    <3> QED
      BY <3>1, <3>2
  <2>12. ASSUME NEW c \in Owned, kase[c] = "marked"
         PROVE  cuts > 0 \/ \E b \in Admins : admin'[b].pc = "erase" /\ admin'[b].saw = c
    <3>1. cuts > 0 \/ \E b \in Admins : admin[b].pc = "erase" /\ admin[b].saw = c
      BY <2>12 DEF DeskInv, ErasureInv
    <3>2. admin[a].pc /= "erase"
      BY <1>1, <1>3
    <3> QED
      BY <2>7, <3>1, <3>2
  <2>13. ErasureInv'
    BY <2>10, <2>11, <2>12 DEF DeskInv, ErasureInv
  <2> QED
    BY <2>8, <2>9, <2>13 DEF DeskInv
<1> QED
  BY <1>4, <1>5

\* A case is marked by the call that is to erase it; one already gone is off the list.
LEMMA MarkDesk ==
  ASSUME DeskInv, NEW a \in Admins, NEW c \in Owned, MarkDeleted(a, c)
  PROVE  DeskInv'
<1>1. PICK v : v = admin[a]
  OBVIOUS
<1>2. v \in DeskCall /\ CallOK(v) /\ v.todo \subseteq Owned
  BY <1>1 DEF DeskInv, DeskTypes, DeskCall
<1>3. v.pc = "mark" /\ UNCHANGED <<owns, erased, late, moneyVars, request, done, clashed, cuts>>
  BY <1>1 DEF MarkDeleted
<1>4. CASE /\ kase[c] = "live" /\ kase' = [kase EXCEPT ![c] = "marked"]
           /\ admin' = [admin EXCEPT ![a].pc = "erase", ![a].saw = c]
  <2>1. PICK w1 : w1 = [v EXCEPT !.pc = "erase"]
    OBVIOUS
  <2>2. PICK w : w = [w1 EXCEPT !.saw = c]
    OBVIOUS
  <2>3. w1 \in DeskCall /\ w1.pc = "erase" /\ w1.req = v.req /\ w1.verdict = v.verdict /\ w1.type = v.type /\ w1.todo = v.todo
    BY <1>2, <2>1, SetPc DEF Working
  <2>4. /\ w \in DeskCall /\ w.pc = "erase" /\ w.req = v.req /\ w.verdict = v.verdict /\ w.type = v.type
        /\ w.todo = v.todo /\ w.saw = c
    BY <2>2, <2>3, SetSaw
  <2>5. admin' = [admin EXCEPT ![a] = w]
    <3>1. w = [v EXCEPT !.pc = "erase", !.saw = c]
      BY <2>1, <2>2
    <3>2. admin' = [admin EXCEPT ![a] = [admin[a] EXCEPT !.pc = "erase", !.saw = c]]
      BY <1>4 DEF DeskInv, DeskTypes
    <3> QED
      BY <1>1, <3>1, <3>2
  <2>6. CallOK(w)
    BY <1>2, <1>3, <2>4 DEF CallOK, Working
  <2>7. /\ admin' \in [Admins -> DeskCall] /\ \A b \in Admins : CallOK(admin'[b])
        /\ admin'[a] = w /\ \A b \in Admins \ {a} : admin'[b] = admin[b]
    BY <2>4, <2>5, <2>6, OneCall DEF DeskInv
  <2>8. /\ kase' \in [Owned -> {"none", "live", "marked"}] /\ kase'[c] = "marked"
        /\ \A x \in Owned \ {c} : kase'[x] = kase[x]
    BY <1>4 DEF DeskInv, DeskTypes
  <2>9. DeskTypes'
    BY <1>3, <2>7, <2>8 DEF DeskInv, DeskTypes, moneyVars
  <2>10. \A r \in Requests : EffectOf(r)'
    BY <1>1, <1>3, <2>4, <2>7, WorkGoesOn DEF DeskInv
  <2>11. \A x \in Owned : (kase'[x] = "none" <=> kase[x] = "none")
    BY <1>4, <2>8
  <2>12. \A b \in Admins : Erasing(b)' => (Erasing(b) /\ admin'[b].todo = admin[b].todo)
    BY <1>1, <1>3, <2>4, <2>7 DEF Erasing
  <2>13. ASSUME NEW x \in Owned, kase'[x] = "marked"
         PROVE  cuts > 0 \/ \E b \in Admins : admin'[b].pc = "erase" /\ admin'[b].saw = x
    <3>1. CASE x = c
      BY <2>4, <2>7, <3>1
    <3>2. CASE x /= c
      <4>1. cuts > 0 \/ \E b \in Admins : admin[b].pc = "erase" /\ admin[b].saw = x
        BY <2>8, <2>13, <3>2 DEF DeskInv, ErasureInv
      <4>2. admin[a].pc /= "erase"
        BY <1>1, <1>3
      <4> QED
        BY <2>7, <4>1, <4>2
    <3> QED
      BY <3>1, <3>2
  <2>14. ErasureInv'
    BY <1>3, <2>11, <2>12, <2>13 DEF DeskInv, ErasureInv
  <2> QED
    BY <2>9, <2>10, <2>14 DEF DeskInv
<1>5. CASE /\ kase[c] = "none" /\ UNCHANGED kase
           /\ admin' = [admin EXCEPT ![a] = IF @.type = "CASE_DELETE" THEN Refused(a) ELSE [admin[a] EXCEPT !.todo = @ \ {c}]]
  <2>1. UNCHANGED caseVars
    BY <1>3, <1>5 DEF caseVars
  <2>2. CASE v.type = "CASE_DELETE"
    <3>1. admin' = [admin EXCEPT ![a] = AtRest]
      BY <1>1, <1>5, <2>2 DEF Refused
    <3> QED
      BY <1>1, <1>3, <2>1, <3>1, DropDesk DEF Working
  <2>3. CASE v.type /= "CASE_DELETE"
    <3>1. PICK w : w = [v EXCEPT !.todo = v.todo \ {c}]
      OBVIOUS
    <3>2. /\ w \in DeskCall /\ w.pc = "mark" /\ w.req = v.req /\ w.verdict = v.verdict /\ w.type = v.type
          /\ w.todo = v.todo \ {c}
      BY <1>2, <1>3, <3>1, SetTodo
    <3>3. admin' = [admin EXCEPT ![a] = w]
      <4>1. admin[a].type /= "CASE_DELETE" /\ w = [admin[a] EXCEPT !.todo = admin[a].todo \ {c}]
        BY <1>1, <2>3, <3>1
      <4>2. admin' = [admin EXCEPT ![a] = [admin[a] EXCEPT !.todo = admin[a].todo \ {c}]]
        BY <1>5, <4>1 DEF DeskInv, DeskTypes
      <4> QED
        BY <4>1, <4>2
    <3>4. CallOK(w)
      BY <1>2, <1>3, <3>2 DEF CallOK, Working
    <3>5. /\ admin' \in [Admins -> DeskCall] /\ \A b \in Admins : CallOK(admin'[b])
          /\ admin'[a] = w /\ \A b \in Admins \ {a} : admin'[b] = admin[b]
      BY <3>2, <3>3, <3>4, OneCall DEF DeskInv
    <3>6. DeskTypes'
      BY <1>3, <1>5, <3>5 DEF DeskInv, DeskTypes, moneyVars
    <3>7. \A r \in Requests : EffectOf(r)'
      BY <1>1, <1>3, <3>2, <3>5, WorkGoesOn DEF DeskInv
    <3>8. \A b \in Admins : Erasing(b)' => (Erasing(b) /\ admin[b].todo \subseteq admin'[b].todo \cup {c})
      BY <1>1, <1>3, <3>2, <3>5 DEF Erasing
    <3>9. ASSUME NEW x \in Owned, kase[x] = "marked"
          PROVE  cuts > 0 \/ \E b \in Admins : admin'[b].pc = "erase" /\ admin'[b].saw = x
      <4>1. cuts > 0 \/ \E b \in Admins : admin[b].pc = "erase" /\ admin[b].saw = x
        BY <3>9 DEF DeskInv, ErasureInv
      <4>2. admin[a].pc /= "erase"
        BY <1>1, <1>3
      <4> QED
        BY <3>5, <4>1, <4>2
    <3>10. ErasureInv'
      <4>1. ASSUME NEW b \in Admins, Erasing(b)', NEW x \in Owned
            PROVE  kase[x] = "none" \/ x \in late \/ x \in admin'[b].todo
        BY <1>5, <3>8, <4>1 DEF DeskInv, ErasureInv
      <4> QED
        BY <1>3, <1>5, <3>9, <4>1 DEF DeskInv, ErasureInv
    <3> QED
      BY <3>6, <3>7, <3>10 DEF DeskInv
  <2> QED
    BY <2>2, <2>3
<1> QED
  BY <1>4, <1>5 DEF MarkDeleted, PassesOver


\* The case a deletion had marked is gone with its owner's row, and its deletion is
\* over or goes on to the account's next.
LEMMA EraseDesk ==
  ASSUME DeskInv, NEW a \in Admins, EraseCase(a)
  PROVE  DeskInv'
<1>1. PICK v : v = admin[a]
  OBVIOUS
<1>2. PICK c : c = v.saw
  OBVIOUS
<1>3. v \in DeskCall /\ CallOK(v) /\ v.todo \subseteq Owned /\ v.pc = "erase" /\ c \in Owned
  <2>1. v.pc = "erase"
    BY <1>1 DEF EraseCase
  <2> QED
    BY <1>1, <1>2, <2>1 DEF DeskInv, DeskTypes, DeskCall, CallOK
<1>4. /\ kase' = [kase EXCEPT ![c] = "none"] /\ owns' = owns \ {c}
      /\ UNCHANGED <<erased, late, moneyVars, request, clashed, cuts>>
  BY <1>1, <1>2 DEF EraseCase
<1>5. /\ kase' \in [Owned -> {"none", "live", "marked"}] /\ kase'[c] = "none"
      /\ \A x \in Owned \ {c} : kase'[x] = kase[x]
  BY <1>3, <1>4 DEF DeskInv, DeskTypes
<1>6. ASSUME NEW w, w = admin'[a], w.pc /= "erase", \A b \in Admins \ {a} : admin'[b] = admin[b],
             w.type = "ACCOUNT_DELETE" /\ w.pc = "mark" => v.type = "ACCOUNT_DELETE" /\ v.todo \subseteq w.todo \cup {c}
      PROVE  ErasureInv'
  <2>1. ASSUME NEW b \in Admins, Erasing(b)', NEW x \in Owned
        PROVE  kase'[x] = "none" \/ x \in late \/ x \in admin'[b].todo
    <3>1. Erasing(b) /\ admin[b].todo \subseteq admin'[b].todo \cup {c}
      BY <1>1, <1>3, <1>6, <2>1 DEF Erasing
    <3> QED
      BY <1>5, <3>1 DEF DeskInv, ErasureInv
  <2>2. ASSUME NEW x \in Owned, kase'[x] = "marked"
        PROVE  cuts > 0 \/ \E b \in Admins : admin'[b].pc = "erase" /\ admin'[b].saw = x
    <3>1. x /= c
      BY <1>5, <2>2
    <3>2. cuts > 0 \/ \E b \in Admins : admin[b].pc = "erase" /\ admin[b].saw = x
      BY <1>5, <2>2, <3>1 DEF DeskInv, ErasureInv
    <3>3. admin[a].saw /= x
      BY <1>1, <1>2, <3>1
    <3> QED
      BY <1>6, <3>2, <3>3
  <2> QED
    BY <1>4, <1>5, <2>1, <2>2 DEF DeskInv, ErasureInv
<1>7. CASE v.type = "CASE_DELETE"
  <2>1. CarriedOut(a) /\ v.pc \in Working
    BY <1>1, <1>3, <1>7 DEF EraseCase, Working
  <2>2. /\ admin' \in [Admins -> DeskCall] /\ \A b \in Admins : CallOK(admin'[b])
        /\ admin'[a].pc \in {"idle", "decide"} /\ \A b \in Admins \ {a} : admin'[b] = admin[b]
        /\ IF admin[a].req = NoRequest THEN admin'[a] = AtRest
           ELSE admin'[a].req = admin[a].req /\ Carried(admin'[a])
        /\ done' = [r \in Requests |-> IF r = admin[a].req THEN done[r] + 1 ELSE done[r]]
        /\ done' \in [Requests -> Nat]
    BY <1>1, <2>1, CarriedIsACall
  <2>3. DeskTypes'
    BY <1>4, <1>5, <2>2 DEF DeskInv, DeskTypes, moneyVars
  <2>4. \A r \in Requests : EffectOf(r)'
    BY <1>1, <1>4, <2>1, <2>2, WorkDone DEF DeskInv
  <2>5. PICK w : w = admin'[a]
    OBVIOUS
  <2>6. w.pc /= "erase" /\ w.pc /= "mark"
    BY <2>2, <2>5
  <2>7. ErasureInv'
    BY <1>6, <2>2, <2>5, <2>6
  <2> QED
    BY <2>3, <2>4, <2>7 DEF DeskInv
<1>8. CASE v.type /= "CASE_DELETE"
  <2>1. PICK w1 : w1 = [v EXCEPT !.pc = "mark"]
    OBVIOUS
  <2>2. PICK w2 : w2 = [w1 EXCEPT !.saw = 0]
    OBVIOUS
  <2>3. PICK w : w = [w2 EXCEPT !.todo = v.todo \ {c}]
    OBVIOUS
  <2>4. w1 \in DeskCall /\ w1.pc = "mark" /\ w1.req = v.req /\ w1.verdict = v.verdict /\ w1.type = v.type /\ w1.todo = v.todo
    BY <1>3, <2>1, SetPc DEF Working
  <2>5. w2 \in DeskCall /\ w2.pc = "mark" /\ w2.req = v.req /\ w2.verdict = v.verdict /\ w2.type = v.type /\ w2.todo = v.todo
    BY <2>2, <2>4, SetSaw
  <2>6. /\ w \in DeskCall /\ w.pc = "mark" /\ w.req = v.req /\ w.verdict = v.verdict /\ w.type = v.type
        /\ w.todo = v.todo \ {c}
    BY <1>3, <2>3, <2>5, SetTodo
  <2>7. admin' = [admin EXCEPT ![a] = w] /\ done' = done
    <3>1. w = [v EXCEPT !.pc = "mark", !.saw = 0, !.todo = v.todo \ {c}]
      BY <2>1, <2>2, <2>3
    <3>2. /\ admin' = [admin EXCEPT ![a] = [admin[a] EXCEPT !.pc = "mark", !.saw = 0, !.todo = admin[a].todo \ {c}]]
          /\ done' = done
      BY <1>1, <1>2, <1>8 DEF EraseCase, DeskInv, DeskTypes, DeskCall
    <3> QED
      BY <1>1, <3>1, <3>2
  <2>8. CallOK(w)
    BY <1>3, <2>6 DEF CallOK, Working
  <2>9. /\ admin' \in [Admins -> DeskCall] /\ \A b \in Admins : CallOK(admin'[b])
        /\ admin'[a] = w /\ \A b \in Admins \ {a} : admin'[b] = admin[b]
    BY <2>6, <2>7, <2>8, OneCall DEF DeskInv
  <2>10. DeskTypes'
    BY <1>4, <1>5, <2>7, <2>9 DEF DeskInv, DeskTypes, moneyVars
  <2>11. \A r \in Requests : EffectOf(r)'
    BY <1>1, <1>3, <1>4, <2>6, <2>7, <2>9, WorkGoesOn DEF DeskInv
  <2>12. ErasureInv'
    BY <1>6, <2>6, <2>9
  <2> QED
    BY <2>10, <2>11, <2>12 DEF DeskInv
<1> QED
  BY <1>7, <1>8

\* The account is anonymised once its list is empty: what is still there came late.
LEMMA AnonymiseDesk ==
  ASSUME DeskInv, NEW a \in Admins, Anonymise(a)
  PROVE  DeskInv'
<1>1. /\ admin[a].pc = "mark" /\ admin[a].todo = {} /\ Erasing(a) /\ CarriedOut(a)
      /\ erased' = TRUE /\ owns' = {} /\ UNCHANGED <<kase, late, moneyVars, request, clashed, cuts>>
  BY DEF Anonymise, Erasing
<1>2. admin[a].pc \in Working /\ admin[a].pc /= "erase"
  BY <1>1 DEF Working
<1>3. /\ admin' \in [Admins -> DeskCall] /\ \A b \in Admins : CallOK(admin'[b])
      /\ admin'[a].pc \in {"idle", "decide"} /\ \A b \in Admins \ {a} : admin'[b] = admin[b]
      /\ IF admin[a].req = NoRequest THEN admin'[a] = AtRest
         ELSE admin'[a].req = admin[a].req /\ Carried(admin'[a])
      /\ done' = [r \in Requests |-> IF r = admin[a].req THEN done[r] + 1 ELSE done[r]]
      /\ done' \in [Requests -> Nat]
  BY <1>1, <1>2, CarriedIsACall
<1>4. DeskTypes'
  BY <1>1, <1>3 DEF DeskInv, DeskTypes, moneyVars
<1>5. \A r \in Requests : EffectOf(r)'
  BY <1>1, <1>2, <1>3, WorkDone DEF DeskInv
<1>6. \A x \in Owned : kase[x] = "none" \/ x \in late
  BY <1>1 DEF DeskInv, ErasureInv
<1>7. ASSUME NEW x \in Owned, kase[x] = "marked"
      PROVE  cuts > 0 \/ \E b \in Admins : admin'[b].pc = "erase" /\ admin'[b].saw = x
  <2>1. cuts > 0 \/ \E b \in Admins : admin[b].pc = "erase" /\ admin[b].saw = x
    BY <1>7 DEF DeskInv, ErasureInv
  <2> QED
    BY <1>2, <1>3, <2>1
<1>8. ErasureInv'
  BY <1>1, <1>6, <1>7 DEF ErasureInv
<1> QED
  BY <1>4, <1>5, <1>8 DEF DeskInv

\* A case whose payment is fulfilled belongs to its owner; after an account's deletion
\* listed its cases it is a late one.
LEMMA ArriveDesk ==
  ASSUME DeskInv, NEW c \in Owned, CaseArrives(c)
  PROVE  DeskInv'
<1>1. /\ kase' = [kase EXCEPT ![c] = "live"] /\ owns' = owns \cup {c}
      /\ late' = IF erased \/ \E a \in Admins : Erasing(a) THEN late \cup {c} ELSE late
      /\ UNCHANGED <<erased, moneyVars, request, admin, done, clashed, cuts>>
  BY DEF CaseArrives
<1>2. /\ kase' \in [Owned -> {"none", "live", "marked"}] /\ kase'[c] = "live"
      /\ \A x \in Owned \ {c} : kase'[x] = kase[x]
  BY <1>1 DEF DeskInv, DeskTypes
<1>3. DeskTypes'
  BY <1>1, <1>2 DEF DeskInv, DeskTypes, moneyVars
<1>4. \A r \in Requests : EffectOf(r)'
  BY <1>1 DEF DeskInv, EffectOf, Holds, Carried, Undecided
<1>5. \A b \in Admins : Erasing(b)' <=> Erasing(b)
  BY <1>1 DEF Erasing
<1>6. ErasureInv'
  <2>1. \A x \in Owned : kase'[x] /= "none" => x \in owns' \/ x \in late'
    BY <1>1, <1>2 DEF DeskInv, ErasureInv
  <2>2. erased' => \A x \in Owned : kase'[x] = "none" \/ x \in late'
    BY <1>1, <1>2 DEF DeskInv, ErasureInv
  <2>3. ASSUME NEW b \in Admins, Erasing(b)', NEW x \in Owned
        PROVE  kase'[x] = "none" \/ x \in late' \/ x \in admin'[b].todo
    <3>1. Erasing(b) /\ c \in late'
      BY <1>1, <1>5, <2>3
    <3> QED
      BY <1>1, <1>2, <3>1 DEF DeskInv, ErasureInv
  <2>4. ASSUME NEW x \in Owned, kase'[x] = "marked"
        PROVE  cuts' > 0 \/ \E b \in Admins : admin'[b].pc = "erase" /\ admin'[b].saw = x
    BY <1>1, <1>2, <2>4 DEF DeskInv, ErasureInv
  <2> QED
    BY <2>1, <2>2, <2>3, <2>4 DEF ErasureInv
<1> QED
  BY <1>3, <1>4, <1>6 DEF DeskInv

\* A call that ends early leaves its request open, or among the clashed if it was done;
\* and a case stays marked only where one was cut short.
LEMMA CutDesk ==
  ASSUME DeskInv, NEW a \in Admins, CutShort(a)
  PROVE  DeskInv'
<1>1. /\ admin' = [admin EXCEPT ![a] = AtRest]
      /\ clashed' = IF UnderWay(a) THEN clashed \cup ({admin[a].req} \cap Requests) ELSE clashed
      /\ (Throws(a) /\ UNCHANGED cuts) \/ cuts' = cuts + 1
      /\ UNCHANGED <<caseVars, moneyVars, request, done>>
  BY DEF CutShort
<1>2. cuts \in Nat /\ cuts' \in Nat /\ cuts <= cuts' /\ (~Throws(a) => cuts' > 0)
  BY <1>1 DEF DeskInv, DeskTypes
<1>3. /\ admin' \in [Admins -> DeskCall] /\ \A b \in Admins : CallOK(admin'[b])
      /\ admin'[a] = AtRest /\ \A b \in Admins \ {a} : admin'[b] = admin[b]
  BY <1>1, RestIsACall, OneCall DEF DeskInv
<1>4. clashed \subseteq clashed' /\ clashed' \subseteq Requests
  BY <1>1 DEF DeskInv, DeskTypes
<1>5. DeskTypes'
  BY <1>1, <1>2, <1>3, <1>4 DEF DeskInv, DeskTypes, caseVars, moneyVars
<1>6. admin[a].pc = "decide" => admin[a].req \in clashed'
  BY <1>1 DEF UnderWay, DeskInv, DeskTypes, CallOK
<1>7. \A r \in Requests : EffectOf(r)'
  BY <1>1, <1>3, <1>4, <1>6, WorkDropped DEF DeskInv
<1>8. UNCHANGED <<kase, owns, erased, late>>
  BY <1>1 DEF caseVars
<1>9. \A b \in Admins : Erasing(b)' => (Erasing(b) /\ admin'[b].todo = admin[b].todo)
  BY <1>3, RestIsACall DEF Erasing
<1>10. ASSUME NEW x \in Owned, kase[x] = "marked"
       PROVE  cuts' > 0 \/ \E b \in Admins : admin'[b].pc = "erase" /\ admin'[b].saw = x
  <2>1. cuts > 0 \/ \E b \in Admins : admin[b].pc = "erase" /\ admin[b].saw = x
    BY <1>10 DEF DeskInv, ErasureInv
  <2>2. CASE admin[a].pc = "erase" /\ admin[a].saw = x
    <3>1. ~Throws(a)
      BY <1>10, <2>2 DEF Throws
    <3> QED
      BY <1>2, <3>1
  <2>3. CASE cuts > 0
    BY <1>2, <2>3
  <2>4. ASSUME NEW b \in Admins \ {a}, admin[b].pc = "erase", admin[b].saw = x
        PROVE  admin'[b].pc = "erase" /\ admin'[b].saw = x
    BY <1>3, <2>4
  <2> QED
    BY <2>1, <2>2, <2>3, <2>4
<1>11. ErasureInv'
  BY <1>8, <1>9, <1>10 DEF DeskInv, ErasureInv
<1> QED
  BY <1>5, <1>7, <1>11 DEF DeskInv

\* The desk opens with no request, one case of the customer's and no call in flight.
LEMMA DeskOpens == DeskInit => DeskInv
<1> SUFFICES ASSUME DeskInit PROVE DeskInv
  OBVIOUS
<1>1. \A a \in Admins : admin[a] = AtRest /\ admin[a].pc = "idle" /\ admin[a].req = NoRequest /\ admin[a].type = "none"
  BY RestIsACall DEF DeskInit
<1>2. DeskTypes
  <2>1. kase \in [Owned -> {"none", "live", "marked"}] /\ owns \subseteq Owned
    BY MoneyAssumption DEF DeskInit
  <2>2. admin \in [Admins -> DeskCall] /\ \A a \in Admins : CallOK(admin[a])
    BY <1>1, RestIsACall DEF DeskInit
  <2>3. request \in [Requests -> RequestRow \cup {NoRow}] /\ done \in [Requests -> Nat]
    BY DEF DeskInit
  <2>4. late \subseteq Owned /\ rollup \in Int /\ cuts \in Nat /\ clashed \subseteq Requests
    BY DEF DeskInit
  <2>5. erased \in BOOLEAN
    BY Zenon DEF DeskInit
  <2> QED
    BY <2>1, <2>2, <2>3, <2>4, <2>5 DEF DeskTypes
<1>3. ASSUME NEW r \in Requests PROVE EffectOf(r)
  <2>1. request[r] = NoRow /\ done[r] = 0 /\ r /= NoRequest
    BY MoneyAssumption DEF DeskInit
  <2> QED
    BY <1>1, <2>1 DEF EffectOf, Holds
<1>4. ErasureInv
  <2>1. \A c \in Owned : (kase[c] /= "none" => c \in owns) /\ kase[c] /= "marked"
    BY DEF DeskInit
  <2>2. \A a \in Admins : ~Erasing(a)
    BY <1>1 DEF Erasing
  <2> QED
    BY <2>1, <2>2 DEF DeskInit, ErasureInv
<1> QED
  BY <1>2, <1>3, <1>4 DEF DeskInv

\* Every step of the desk keeps the invariant.
LEMMA DeskSteps == DeskInv /\ [DeskNext]_deskVars => DeskInv'
<1> SUFFICES ASSUME DeskInv, [DeskNext]_deskVars PROVE DeskInv'
  OBVIOUS
<1>1. CASE UNCHANGED deskVars
  <2>1. \A a \in Admins : Erasing(a)' <=> Erasing(a)
    BY <1>1 DEF deskVars, Erasing
  <2>2. DeskTypes' /\ ErasureInv'
    BY <1>1, <2>1 DEF deskVars, DeskInv, DeskTypes, ErasureInv
  <2>3. \A r \in Requests : EffectOf(r)'
    BY <1>1 DEF deskVars, DeskInv, EffectOf, Holds, Carried, Undecided
  <2> QED
    BY <2>2, <2>3 DEF DeskInv
<1>2. ASSUME NEW a \in Admins,
             \/ \E type \in Types, c \in Owned, amount \in {Whole, Part} : RequestRead(a, type, c, amount)
             \/ \E r \in Requests : RequestCommit(a, r)
      PROVE  DeskInv'
  BY <1>2, OpenDesk
<1>3. ASSUME NEW a \in Admins, \E type \in Types, amount \in {Whole, Part} : ConsoleActs(a, type, Reviewed, amount)
      PROVE  DeskInv'
  BY <1>3, ConsoleDesk
<1>4. ASSUME NEW a \in Admins, \E r \in Requests, v \in {"APPROVED", "DECLINED"} : DecideRead(a, r, v)
      PROVE  DeskInv'
  BY <1>4, DecideDesk
<1>5. ASSUME NEW a \in Admins, RefundRead(a) \/ CreateAtStripe(a) \/ BookRefund(a)
      PROVE  DeskInv'
  BY <1>5, RefundDesk
<1>6. ASSUME NEW a \in Admins,
             ListCases(a) \/ (\E c \in Owned : MarkDeleted(a, c)) \/ EraseCase(a) \/ Anonymise(a)
      PROVE  DeskInv'
  BY <1>6, ListDesk, MarkDesk, EraseDesk, AnonymiseDesk
<1>7. ASSUME NEW a \in Admins, DecideCommit(a) \/ CutShort(a)
      PROVE  DeskInv'
  BY <1>7, WriteDesk, CutDesk
<1>8. ASSUME NEW c \in Owned, CaseArrives(c)
      PROVE  DeskInv'
  BY <1>8, ArriveDesk
<1> QED
  BY <1>1, <1>2, <1>3, <1>4, <1>5, <1>6, <1>7, <1>8 DEF DeskNext

\* Whatever calls the staff make in whatever order, and wherever one is cut short: no
\* request is in two effects at once unless two decided it, and no erasure forgets a
\* case (staff-requests.service.ts, deletion.service.ts).
THEOREM DeskStandsAlways == DeskSpec => []DeskInv
<1>1. DeskInit => DeskInv
  BY DeskOpens
<1>2. DeskInv /\ [DeskNext]_deskVars => DeskInv'
  BY DeskSteps
<1> QED
  BY <1>1, <1>2, PTL DEF DeskSpec

\* An approved request was carried out, and but for two Admins at once or a decision
\* dropped half-way once only, a declined one never; a deleted account keeps no case
\* but a late one, and a case marked deleted is in a deletion's hands.
THEOREM RequestsHonoured == DeskSpec => []RequestsAreHonoured
<1>1. DeskInv => RequestsAreHonoured
  <2> SUFFICES ASSUME DeskInv PROVE DecisionMatchesEffect /\ ErasureIsWhole
    BY DEF RequestsAreHonoured
  <2>1. ASSUME NEW r \in Requests, request[r] /= NoRow, r \notin clashed, Deciding(r) = {}
        PROVE  done[r] = IF request[r].decision = "APPROVED" THEN 1 ELSE 0
    <3>1. \A a \in Admins : ~Holds(a, r)
      BY <2>1, MoneyAssumption DEF Deciding, Holds, DeskInv, DeskTypes, CallOK
    <3>2. EffectOf(r)
      BY DEF DeskInv
    <3> QED
      BY <2>1, <3>1, <3>2 DEF EffectOf
  <2>2. ASSUME NEW r \in Requests, request[r] /= NoRow
        PROVE  request[r].decision = "APPROVED" => done[r] > 0
    BY <2>2 DEF DeskInv, EffectOf
  <2>3. DecisionMatchesEffect
    BY <2>1, <2>2 DEF DecisionMatchesEffect
  <2>4. ErasureIsWhole
    BY DEF DeskInv, ErasureInv, ErasureIsWhole
  <2> QED
    BY <2>3, <2>4
<1> QED
  BY <1>1, DeskStandsAlways, PTL
-----------------------------------------------------------------------------
(***************************************************************************)
(* CaseFacts                                                                *)
(***************************************************************************)
Day == Dates \cup {None}
Lanes == {None, "TRIAL", "PLEA"}
FactsJson == [judgment : Day, year : Day, plea : {None, "trial", "plea"}, appeal : {None, "decided", "none"},
              prior : {None, "no", "yes"}, merits : {None, "merits"}]
CaseRow == [status : {"AWAITING_DOCS", "DOCS_COMPLETE", "IN_REVIEW"}, lane : Lanes, sub : BOOLEAN,
            year : Day, deadline : Day, facts : FactsJson]
WhatWasRead == [lane : Lanes, sub : BOOLEAN, deadline : Day, facts : FactsJson]
Checked(its) == its \in [DOMAIN its -> {"NEEDED", "UPLOADED"}]

\* What each edit asks for.
InterviewAsked(asks) ==
  asks \in [op : {"interview"}, year : Dates, appeal : {None, "decided", "none"},
           judgment : Day, own : Day]
FactsAsked(asks) ==
  \E key \in Shaping \cup {"year", "judgment"} : \E value \in Answers(key) :
    asks = [op |-> "facts", key |-> key, value |-> value]
MatterAsked(asks) ==
  /\ matter /= None
  /\ \/ \E key \in {"signed", "imposed"}, value \in Day : asks = [op |-> "matter", key |-> key, value |-> value]
     \/ \E value \in {None, "merits"} : asks = [op |-> "matter", key |-> "merits", value |-> value]
InFlight(w) ==
  /\ w.row \in WhatWasRead /\ w.op = w.asks.op
  /\ \/ InterviewAsked(w.asks)
     \/ FactsAsked(w.asks)
     \/ MatterAsked(w.asks)

FactsTypes ==
  /\ row \in CaseRow /\ matter \in Matter \cup {None} /\ Checked(items)
  /\ \A e \in Editors : editor[e] = NoEdit \/ InFlight(editor[e])
  /\ editor = [e \in Editors |-> editor[e]]

Story == DatesAgree /\ ShapeAgrees /\ YearsAgree /\ ChecklistAgrees /\ MatterAgrees
FactsInv == FactsTypes /\ (raced \/ Story)

\* The template is what is asked for once a checklist is seeded: nothing else is
\* added, and what was there stays as it was.
LEMMA SeedStands ==
  ASSUME NEW its, Checked(its), NEW lane, NEW sub, NEW had, NEW s, s = Seeded(its, lane, sub, had)
  PROVE  /\ Checked(s) /\ ChecklistTemplate(lane, sub, had) \subseteq DOMAIN s
         /\ \A k \in DOMAIN s : s[k] = "NEEDED" =>
              k \in ChecklistTemplate(lane, sub, had) \/ (k \in DOMAIN its /\ its[k] = "NEEDED")
BY DEF Seeded, Checked

\* What a re-seeding handler starts from has nothing left to be asked for.
LEMMA StartedStands ==
  ASSUME Checked(items), NEW s, s = Started
  PROVE  Checked(s) /\ \A k \in DOMAIN s : s[k] /= "NEEDED"
BY DEF Started, Checked

\* A checklist seeded from nothing, or from what was received, agrees with the case it
\* was seeded for.
LEMMA SeededAgrees ==
  ASSUME NEW its, Checked(its), \A k \in DOMAIN its : its[k] /= "NEEDED",
         NEW lane, NEW sub, NEW had, NEW s, s = Seeded(its, lane, sub, had)
  PROVE  /\ Checked(s) /\ {k \in DOMAIN s : s[k] = "NEEDED"} \subseteq ChecklistTemplate(lane, sub, had)
         /\ ChecklistTemplate(lane, sub, had) \subseteq DOMAIN s
BY SeedStands

\* A commit whose row and checklist are of their types leaves every type as it is, and
\* its own request gone.
LEMMA WriteStands ==
  ASSUME FactsTypes, NEW e \in Editors, NEW w, NEW its, NEW o, Write(e, w, its, o),
         w \in CaseRow, Checked(its), matter' \in Matter \cup {None}, matter /= None => matter' /= None
  PROVE  /\ FactsTypes' /\ row' = w /\ items' = its
         /\ ~raced' => editor[e].row = Merged(row) /\ ~raced
<1>1. /\ row' = w /\ items' = its /\ editor' = [editor EXCEPT ![e] = NoEdit]
      /\ raced' = (raced \/ editor[e].row /= Merged(row))
  BY DEF Write
<1>2. \A f \in Editors : editor'[f] = NoEdit \/ (f /= e /\ editor'[f] = editor[f])
  BY <1>1 DEF FactsTypes
<1>3. ASSUME NEW f \in Editors PROVE editor'[f] = NoEdit \/ InFlight(editor[f])'
  <2>1. CASE editor'[f] = NoEdit
    BY <2>1
  <2>2. CASE editor'[f] = editor[f] /\ InFlight(editor[f])
    BY <2>2 DEF InFlight, MatterAsked, InterviewAsked, FactsAsked
  <2> QED
    BY <1>2, <2>1, <2>2 DEF FactsTypes
<1>4. editor' = [f \in Editors |-> editor'[f]]
  BY <1>1 DEF FactsTypes
<1>5. Checked(items)'
  BY <1>1 DEF Checked
<1> QED
  BY <1>1, <1>3, <1>4, <1>5 DEF FactsTypes

\* A request that has read the row carries what it read.
LEMMA ReadStands ==
  ASSUME FactsInv, NEW e \in Editors, NEW asks, Read(e, asks), UNCHANGED matter,
         \/ InterviewAsked(asks)
         \/ FactsAsked(asks)
         \/ MatterAsked(asks)
  PROVE  FactsInv'
<1>1. PICK w : w = [op |-> asks.op, asks |-> asks, row |-> Merged(row)]
  OBVIOUS
<1>2. editor' = [editor EXCEPT ![e] = w] /\ UNCHANGED <<row, matter, items, raced, overruled, brought>>
  BY <1>1 DEF Read
<1>3. Merged(row) \in WhatWasRead
  BY DEF FactsInv, FactsTypes, Merged, CaseRow, WhatWasRead
<1>4. InFlight(w)
  BY <1>1, <1>3 DEF InFlight
<1>5. \A f \in Editors : editor'[f] = IF f = e THEN w ELSE editor[f]
  BY <1>2 DEF FactsInv, FactsTypes
<1>6. ASSUME NEW f \in Editors PROVE editor'[f] = NoEdit \/ InFlight(editor[f])'
  <2>1. \A x : InFlight(x)' <=> InFlight(x)
    BY <1>2 DEF InFlight, InterviewAsked, FactsAsked, MatterAsked
  <2>2. editor'[f] = NoEdit \/ InFlight(editor'[f])
    BY <1>4, <1>5 DEF FactsInv, FactsTypes
  <2> QED
    BY <1>2, <2>2 DEF InFlight, InterviewAsked, FactsAsked, MatterAsked
<1>7. editor' = [f \in Editors |-> editor'[f]]
  BY <1>2 DEF FactsInv, FactsTypes
<1>8. FactsTypes'
  BY <1>2, <1>6, <1>7 DEF FactsInv, FactsTypes, Checked
<1>9. raced' \/ Story'
  BY <1>2 DEF FactsInv, Story, DatesAgree, ShapeAgrees, YearsAgree, ChecklistAgrees, MatterAgrees
<1> QED
  BY <1>8, <1>9 DEF FactsInv

\* The interview, a question answered, and counsel's matter are all read so.
LEMMA ReadsKeep ==
  ASSUME FactsInv, NEW e \in Editors, InterviewRead(e) \/ FactsRead(e) \/ MatterRead(e)
  PROVE  FactsInv'
<1>1. CASE InterviewRead(e)
  <2>1. PICK year \in Dates, appeal \in {None, "decided", "none"}, jd, own \in Dates \cup {None} :
          Read(e, [op |-> "interview", year |-> year, appeal |-> appeal, judgment |-> jd, own |-> own])
    BY <1>1 DEF InterviewRead
  <2>2. PICK asks : asks = [op |-> "interview", year |-> year, appeal |-> appeal, judgment |-> jd, own |-> own]
    OBVIOUS
  <2>3. InterviewAsked(asks)
    BY <2>2 DEF InterviewAsked, Day
  <2>4. Read(e, asks) /\ UNCHANGED matter
    BY <2>1, <2>2 DEF Read
  <2> QED
    BY <2>3, <2>4, ReadStands
<1>2. CASE FactsRead(e)
  <2>1. PICK key \in Shaping \cup {"year", "judgment"} : \E value \in Answers(key) :
          Read(e, [op |-> "facts", key |-> key, value |-> value])
    BY <1>2 DEF FactsRead
  <2>2. PICK value \in Answers(key) : Read(e, [op |-> "facts", key |-> key, value |-> value])
    BY <2>1
  <2>3. PICK asks : asks = [op |-> "facts", key |-> key, value |-> value]
    OBVIOUS
  <2>4. FactsAsked(asks)
    BY <2>3 DEF FactsAsked
  <2>5. Read(e, asks) /\ UNCHANGED matter
    BY <2>2, <2>3 DEF Read
  <2> QED
    BY <2>4, <2>5, ReadStands
<1>3. CASE MatterRead(e)
  <2>1. matter /= None
    BY <1>3 DEF MatterRead
  <2>2. ASSUME NEW key \in {"signed", "imposed"}, NEW value \in Dates \cup {None},
               Read(e, [op |-> "matter", key |-> key, value |-> value])
        PROVE  FactsInv'
    <3>1. PICK asks : asks = [op |-> "matter", key |-> key, value |-> value]
      OBVIOUS
    <3>2. MatterAsked(asks)
      BY <2>1, <3>1 DEF MatterAsked, Day
    <3>3. Read(e, asks) /\ UNCHANGED matter
      BY <2>2, <3>1 DEF Read
    <3> QED
      BY <3>2, <3>3, ReadStands
  <2>3. ASSUME NEW value \in {None, "merits"}, Read(e, [op |-> "matter", key |-> "merits", value |-> value])
        PROVE  FactsInv'
    <3>1. PICK asks : asks = [op |-> "matter", key |-> "merits", value |-> value]
      OBVIOUS
    <3>2. MatterAsked(asks)
      BY <2>1, <3>1 DEF MatterAsked
    <3>3. Read(e, asks) /\ UNCHANGED matter
      BY <2>3, <3>1 DEF Read
    <3> QED
      BY <3>2, <3>3, ReadStands
  <2> QED
    BY <1>3, <2>2, <2>3 DEF MatterRead
<1> QED
  BY <1>1, <1>2, <1>3

\* The interview writes the year twice, the judgment date twice, and the checklist for
\* the lane and mode it read.
LEMMA InterviewKeeps ==
  ASSUME FactsInv, NEW e \in Editors, InterviewCommit(e)
  PROVE  FactsInv'
<1>1. PICK asks : asks = editor[e].asks
  OBVIOUS
<1>2. PICK saw : saw = editor[e].row
  OBVIOUS
<1>3. PICK f : f = [saw.facts EXCEPT !.year = asks.year,
                                     !.appeal = IF asks.appeal = None THEN @ ELSE asks.appeal,
                                     !.judgment = IF asks.judgment = None THEN @ ELSE asks.judgment]
  OBVIOUS
<1>4. PICK d : d = IF asks.own /= None THEN asks.own
                   ELSE IF asks.judgment /= None THEN asks.judgment
                   ELSE IF saw.deadline /= None THEN saw.deadline ELSE row.deadline
  OBVIOUS
<1>5. PICK s : s = Started
  OBVIOUS
<1>6. PICK its : its = Seeded(s, saw.lane, saw.sub, HadAppeal(f))
  OBVIOUS
<1>7. PICK w : w = [row EXCEPT !.year = asks.year, !.deadline = d, !.facts = f]
  OBVIOUS
<1>8. /\ editor[e].op = "interview" /\ Write(e, w, its, TRUE) /\ UNCHANGED matter
       /\ brought' = IF asks.judgment /= None \/ asks.own /= None THEN asks.own ELSE brought
  BY <1>1, <1>2, <1>3, <1>4, <1>5, <1>6, <1>7 DEF InterviewCommit
<1>9. InterviewAsked(asks) /\ saw \in WhatWasRead /\ row \in CaseRow
  <2>1. editor[e] /= NoEdit
    BY <1>8 DEF NoEdit
  <2>2. InFlight(editor[e])
    BY <2>1 DEF FactsInv, FactsTypes
  <2>3. saw \in WhatWasRead /\ asks.op = "interview" /\ (InterviewAsked(asks) \/ FactsAsked(asks) \/ MatterAsked(asks))
    BY <1>1, <1>2, <1>8, <2>2 DEF InFlight
  <2>4. ~FactsAsked(asks) /\ ~MatterAsked(asks)
    BY <2>3 DEF FactsAsked, MatterAsked
  <2> QED
    BY <2>3, <2>4 DEF FactsInv, FactsTypes
<1>10. /\ asks.year \in Dates /\ asks.year \in Day /\ asks.judgment \in Day /\ asks.own \in Day /\ asks.appeal \in {None, "decided", "none"}
       /\ saw.facts \in FactsJson /\ saw.deadline \in Day /\ row.deadline \in Day
  BY <1>9 DEF InterviewAsked, WhatWasRead, CaseRow, Day
<1>11. /\ f \in FactsJson /\ f.year = asks.year /\ f.plea = saw.facts.plea /\ f.prior = saw.facts.prior
       /\ f.judgment = IF asks.judgment = None THEN saw.facts.judgment ELSE asks.judgment
  BY <1>3, <1>10 DEF FactsJson
<1>12. d \in Day
  BY <1>4, <1>10
<1>13. /\ w \in CaseRow /\ w.year = asks.year /\ w.deadline = d /\ w.facts = f
       /\ w.lane = row.lane /\ w.sub = row.sub /\ w.status = row.status
  BY <1>7, <1>9, <1>10, <1>11, <1>12 DEF CaseRow
<1>14. Checked(items) /\ matter \in Matter \cup {None}
  BY DEF FactsInv, FactsTypes
<1>15. Checked(s) /\ \A k \in DOMAIN s : s[k] /= "NEEDED"
  BY <1>5, <1>14, StartedStands
<1>16. /\ Checked(its) /\ {k \in DOMAIN its : its[k] = "NEEDED"} \subseteq ChecklistTemplate(saw.lane, saw.sub, HadAppeal(f))
       /\ ChecklistTemplate(saw.lane, saw.sub, HadAppeal(f)) \subseteq DOMAIN its
  BY <1>6, <1>15, SeededAgrees
<1>17. /\ FactsTypes' /\ row' = w /\ items' = its
       /\ ~raced' => editor[e].row = Merged(row) /\ ~raced
  BY <1>8, <1>13, <1>14, <1>16, WriteStands DEF FactsInv
<1>18. ASSUME ~raced' PROVE Story'
  <2>1. saw = Merged(row) /\ Story
    BY <1>2, <1>17, <1>18 DEF FactsInv
  <2>2. saw.lane = row.lane /\ saw.sub = row.sub /\ saw.deadline = row.deadline /\ saw.facts = row.facts
    BY <2>1 DEF Merged
  <2>3. DatesAgree'
    <3>1. row.deadline = IF brought = None THEN saw.facts.judgment ELSE brought
      BY <2>1, <2>2 DEF Story, DatesAgree
    <3>2. d = IF asks.own /= None THEN asks.own ELSE IF asks.judgment = None THEN row.deadline ELSE asks.judgment
      BY <1>4, <2>2
    <3>3. d = IF brought' = None THEN f.judgment ELSE brought'
      BY <1>8, <1>11, <3>1, <3>2
    <3> QED
      BY <1>13, <1>17, <3>3 DEF DatesAgree
  <2>4. ShapeAgrees'
    BY <1>11, <1>13, <1>17, <2>1, <2>2 DEF Story, ShapeAgrees
  <2>5. YearsAgree'
    BY <1>11, <1>13, <1>17 DEF YearsAgree
  <2>6. ChecklistAgrees'
    BY <1>13, <1>16, <1>17, <2>2 DEF ChecklistAgrees
  <2>7. MatterAgrees'
    BY <1>8 DEF MatterAgrees, Write
  <2> QED
    BY <2>3, <2>4, <2>5, <2>6, <2>7 DEF Story
<1> QED
  BY <1>17, <1>18 DEF FactsInv

\* The facts f are x with the one answer given.
OneAnswer(f, x, key, value) ==
  /\ f \in FactsJson
  /\ f.plea = (IF key = "plea" THEN value ELSE x.plea)
  /\ f.appeal = (IF key = "appeal" THEN value ELSE x.appeal)
  /\ f.prior = (IF key = "prior" THEN value ELSE x.prior)
  /\ f.year = (IF key = "year" THEN value ELSE x.year)
  /\ f.judgment = (IF key = "judgment" THEN value ELSE x.judgment)

\* An answer of its own set changes one of the facts, and keeps their types.
LEMMA AnswerStands ==
  ASSUME NEW x \in FactsJson, NEW key \in Shaping \cup {"year", "judgment"}, NEW value \in Answers(key),
         NEW f, f = [x EXCEPT ![key] = value]
  PROVE  OneAnswer(f, x, key, value)
<1>1. CASE key = "plea"
  <2>1. value \in {"trial", "plea"} /\ f = [x EXCEPT !.plea = value]
    BY <1>1 DEF Answers
  <2> QED
    BY <1>1, <2>1 DEF OneAnswer, FactsJson
<1>2. CASE key = "appeal"
  <2>1. value \in {"decided", "none"} /\ f = [x EXCEPT !.appeal = value]
    BY <1>2 DEF Answers
  <2> QED
    BY <1>2, <2>1 DEF OneAnswer, FactsJson
<1>3. CASE key = "prior"
  <2>1. value \in {"no", "yes"} /\ f = [x EXCEPT !.prior = value]
    BY <1>3 DEF Answers
  <2> QED
    BY <1>3, <2>1 DEF OneAnswer, FactsJson
<1>4. CASE key = "year"
  <2>1. value \in Dates /\ f = [x EXCEPT !.year = value]
    BY <1>4 DEF Answers
  <2> QED
    BY <1>4, <2>1 DEF OneAnswer, FactsJson, Day
<1>5. CASE key = "judgment"
  <2>1. value \in Dates \cup {None} /\ f = [x EXCEPT !.judgment = value]
    BY <1>5 DEF Answers
  <2> QED
    BY <1>5, <2>1 DEF OneAnswer, FactsJson, Day
<1> QED
  BY <1>1, <1>2, <1>3, <1>4, <1>5 DEF Shaping

\* The row an answer writes: the columns derived again from it, the others as read or
\* as they are.
LEMMA AnswerWritten ==
  ASSUME row \in CaseRow, NEW saw \in WhatWasRead, NEW key \in Shaping \cup {"year", "judgment"},
         NEW value \in Answers(key), NEW w, w = FactsWritten(saw, key, value)
  PROVE  /\ w \in CaseRow /\ w.facts = [saw.facts EXCEPT ![key] = value]
         /\ w.year = (IF key = "year" THEN value ELSE row.year)
         /\ w.deadline = (IF key = "judgment" THEN value ELSE saw.deadline)
         /\ w.lane = (IF key \in Shaping THEN IF key = "plea" THEN LaneOf(value) ELSE saw.lane ELSE row.lane)
         /\ w.sub = (IF key \in Shaping THEN IF key = "prior" THEN value = "yes" ELSE saw.sub ELSE row.sub)
<1>1. PICK f : f = [saw.facts EXCEPT ![key] = value]
  OBVIOUS
<1>2. saw.facts \in FactsJson /\ saw.lane \in Lanes /\ saw.sub \in BOOLEAN /\ saw.deadline \in Day
  BY DEF WhatWasRead
<1>3. f \in FactsJson
  BY <1>1, <1>2, AnswerStands DEF OneAnswer
<1>4. PICK lane : lane = IF key = "plea" THEN LaneOf(value) ELSE saw.lane
  OBVIOUS
<1>5. PICK sub : sub = IF key = "prior" THEN value = "yes" ELSE saw.sub
  OBVIOUS
<1>6. PICK shaped : shaped = IF key \in Shaping THEN [row EXCEPT !.lane = lane, !.sub = sub] ELSE row
  OBVIOUS
<1>7. PICK year : year = IF key = "year" THEN value ELSE row.year
  OBVIOUS
<1>8. PICK d : d = IF key = "judgment" THEN value ELSE saw.deadline
  OBVIOUS
<1>9. lane \in Lanes
  BY <1>2, <1>4 DEF LaneOf, Lanes
<1>10. sub \in BOOLEAN
  <2>1. CASE key = "prior"
    BY <1>5, <2>1, Zenon
  <2>2. CASE key /= "prior"
    BY <1>2, <1>5, <2>2, Zenon
  <2> QED
    BY <2>1, <2>2
<1>11. year \in Day /\ d \in Day
  BY <1>2, <1>7, <1>8 DEF CaseRow, Day, Answers
<1>12. /\ shaped \in CaseRow /\ shaped.year = row.year
       /\ shaped.lane = (IF key \in Shaping THEN lane ELSE row.lane)
       /\ shaped.sub = (IF key \in Shaping THEN sub ELSE row.sub)
  BY <1>6, <1>9, <1>10 DEF CaseRow
<1>13. w = [shaped EXCEPT !.facts = f, !.year = year, !.deadline = d]
  <2>1. w = [shaped EXCEPT !.facts = f, !.year = IF key = "year" THEN value ELSE shaped.year, !.deadline = d]
    BY <1>1, <1>4, <1>5, <1>6, <1>8 DEF FactsWritten
  <2> QED
    BY <1>7, <1>12, <2>1
<1>14. /\ w \in CaseRow /\ w.facts = f /\ w.year = year /\ w.deadline = d
       /\ w.lane = shaped.lane /\ w.sub = shaped.sub
  BY <1>3, <1>11, <1>12, <1>13 DEF CaseRow
<1> QED
  BY <1>1, <1>4, <1>5, <1>7, <1>8, <1>12, <1>14

\* An answer is written with what was derived from it, and the checklist is seeded
\* again whenever the lane, the mode or the appeal may have changed.
LEMMA AnswerKeeps ==
  ASSUME FactsInv, NEW e \in Editors, FactsCommit(e)
  PROVE  FactsInv'
<1>1. PICK asks : asks = editor[e].asks
  OBVIOUS
<1>2. PICK saw : saw = editor[e].row
  OBVIOUS
<1>3. PICK w : w = FactsWritten(saw, asks.key, asks.value)
  OBVIOUS
<1>4. PICK s : s = Started
  OBVIOUS
<1>5. PICK its : its = IF asks.key \in Shaping THEN Seeded(s, w.lane, w.sub, HadAppeal(w.facts)) ELSE items
  OBVIOUS
<1>6. /\ editor[e].op = "facts" /\ Write(e, w, its, TRUE) /\ UNCHANGED matter
      /\ brought' = IF asks.key = "judgment" THEN None ELSE brought
  BY <1>1, <1>2, <1>3, <1>4, <1>5 DEF FactsCommit
<1>7. FactsAsked(asks) /\ saw \in WhatWasRead /\ row \in CaseRow
  <2>1. editor[e] /= NoEdit
    BY <1>6 DEF NoEdit
  <2>2. InFlight(editor[e])
    BY <2>1 DEF FactsInv, FactsTypes
  <2>3. saw \in WhatWasRead /\ asks.op = "facts" /\ (InterviewAsked(asks) \/ FactsAsked(asks) \/ MatterAsked(asks))
    BY <1>1, <1>2, <1>6, <2>2 DEF InFlight
  <2>4. ~InterviewAsked(asks) /\ ~MatterAsked(asks)
    BY <2>3 DEF InterviewAsked, MatterAsked
  <2> QED
    BY <2>3, <2>4 DEF FactsInv, FactsTypes
<1>8. PICK key \in Shaping \cup {"year", "judgment"} : \E value \in Answers(key) :
        asks = [op |-> "facts", key |-> key, value |-> value]
  BY <1>7 DEF FactsAsked
<1>9. PICK value \in Answers(key) : asks = [op |-> "facts", key |-> key, value |-> value]
  BY <1>8
<1>10. asks.key = key /\ asks.value = value /\ w = FactsWritten(saw, key, value)
  BY <1>3, <1>9
<1>11. PICK f : f = [saw.facts EXCEPT ![key] = value]
  OBVIOUS
<1>12. /\ w \in CaseRow /\ w.facts = f
       /\ w.year = (IF key = "year" THEN value ELSE row.year)
       /\ w.deadline = (IF key = "judgment" THEN value ELSE saw.deadline)
       /\ w.lane = (IF key \in Shaping THEN IF key = "plea" THEN LaneOf(value) ELSE saw.lane ELSE row.lane)
       /\ w.sub = (IF key \in Shaping THEN IF key = "prior" THEN value = "yes" ELSE saw.sub ELSE row.sub)
  BY <1>7, <1>10, <1>11, AnswerWritten
<1>13. /\ f \in FactsJson
       /\ f.plea = (IF key = "plea" THEN value ELSE saw.facts.plea)
       /\ f.appeal = (IF key = "appeal" THEN value ELSE saw.facts.appeal)
       /\ f.prior = (IF key = "prior" THEN value ELSE saw.facts.prior)
       /\ f.year = (IF key = "year" THEN value ELSE saw.facts.year)
       /\ f.judgment = (IF key = "judgment" THEN value ELSE saw.facts.judgment)
  <2>1. PICK x : x = saw.facts
    OBVIOUS
  <2>2. x \in FactsJson /\ f = [x EXCEPT ![key] = value]
    BY <1>7, <1>11, <2>1 DEF WhatWasRead
  <2>3. OneAnswer(f, x, key, value)
    BY <2>2, AnswerStands
  <2> QED
    BY <2>1, <2>3 DEF OneAnswer
<1>14. Checked(items) /\ matter \in Matter \cup {None}
  BY DEF FactsInv, FactsTypes
<1>15. Checked(s) /\ \A k \in DOMAIN s : s[k] /= "NEEDED"
  BY <1>4, <1>14, StartedStands
<1>16. key \in Shaping => /\ Checked(its)
                          /\ {k \in DOMAIN its : its[k] = "NEEDED"} \subseteq ChecklistTemplate(w.lane, w.sub, HadAppeal(w.facts))
                          /\ ChecklistTemplate(w.lane, w.sub, HadAppeal(w.facts)) \subseteq DOMAIN its
  <2>1. key \in Shaping => its = Seeded(s, w.lane, w.sub, HadAppeal(w.facts))
    BY <1>5, <1>10
  <2> QED
    BY <1>15, <2>1, SeededAgrees
<1>17. /\ FactsTypes' /\ row' = w /\ items' = its
       /\ ~raced' => editor[e].row = Merged(row) /\ ~raced
  <2>1. Checked(its)
    BY <1>5, <1>10, <1>14, <1>16
  <2> QED
    BY <1>6, <1>12, <1>14, <2>1, WriteStands DEF FactsInv
<1>18. ASSUME ~raced' PROVE Story'
  <2>1. saw = Merged(row) /\ Story
    BY <1>2, <1>17, <1>18 DEF FactsInv
  <2>2. saw.lane = row.lane /\ saw.sub = row.sub /\ saw.deadline = row.deadline /\ saw.facts = row.facts
    BY <2>1 DEF Merged
  <2>3. DatesAgree'
    <3>1. row.deadline = IF brought = None THEN saw.facts.judgment ELSE brought
      BY <2>1, <2>2 DEF Story, DatesAgree
    <3>2. w.deadline = IF brought' = None THEN f.judgment ELSE brought'
      BY <1>6, <1>10, <1>12, <1>13, <2>2, <3>1
    <3> QED
      BY <1>12, <1>17, <3>2 DEF DatesAgree
  <2>4. ShapeAgrees'
    <3>1. w.facts.plea = None \/ w.lane = LaneOf(w.facts.plea)
      BY <1>12, <1>13, <2>1, <2>2 DEF Story, ShapeAgrees, Shaping
    <3>2. w.sub = (w.facts.prior = "yes")
      <4>1. CASE key = "prior"
        <5>1. w.facts.prior = value /\ w.sub = (value = "yes")
          BY <1>12, <1>13, <4>1 DEF Shaping
        <5> QED
          BY <5>1
      <4>2. CASE key /= "prior"
        <5>1. w.facts.prior = row.facts.prior /\ w.sub = row.sub
          BY <1>12, <1>13, <2>2, <4>2
        <5> QED
          BY <2>1, <5>1 DEF Story, ShapeAgrees
      <4> QED
        BY <4>1, <4>2
    <3> QED
      BY <1>17, <3>1, <3>2 DEF ShapeAgrees
  <2>5. YearsAgree'
    <3>1. row.year = row.facts.year \/ (matter /= None /\ MatterJudgmentDate(matter) = None)
      BY <2>1 DEF Story, YearsAgree
    <3>2. w.year = w.facts.year \/ (w.year = row.year /\ w.facts.year = row.facts.year)
      BY <1>12, <1>13, <2>2
    <3>3. w.year = w.facts.year \/ (matter /= None /\ MatterJudgmentDate(matter) = None)
      BY <3>1, <3>2
    <3> QED
      BY <1>6, <1>17, <3>3 DEF YearsAgree, MatterJudgmentDate
  <2>6. ChecklistAgrees'
    <3>1. CASE key \in Shaping
      BY <1>16, <1>17, <3>1 DEF ChecklistAgrees
    <3>2. CASE key \notin Shaping
      <4>1. its = items /\ w.lane = row.lane /\ w.sub = row.sub /\ w.facts.appeal = row.facts.appeal
        BY <1>5, <1>10, <1>12, <1>13, <2>2, <3>2 DEF Shaping
      <4> QED
        BY <1>17, <2>1, <4>1 DEF Story, ChecklistAgrees, HadAppeal
    <3> QED
      BY <3>1, <3>2
  <2>7. MatterAgrees'
    BY <1>6 DEF MatterAgrees, Write
  <2> QED
    BY <2>3, <2>4, <2>5, <2>6, <2>7 DEF Story
<1> QED
  BY <1>17, <1>18 DEF FactsInv

\* A date of the matter's moves the case's with it, or clears them all; its merits
\* touch nothing that has to agree.
LEMMA MatterKeeps ==
  ASSUME FactsInv, NEW e \in Editors, MatterCommit(e)
  PROVE  FactsInv'
<1>1. PICK asks : asks = editor[e].asks
  OBVIOUS
<1>2. PICK seen : seen = editor[e].row
  OBVIOUS
<1>3. PICK saw : saw = seen.facts
  OBVIOUS
<1>4. PICK m : m = IF asks.key = "merits" THEN matter ELSE [matter EXCEPT ![asks.key] = asks.value]
  OBVIOUS
<1>5. PICK jd : jd = MatterJudgmentDate(m)
  OBVIOUS
<1>6. editor[e].op = "matter" /\ matter' = m /\ brought' = IF asks.key = "merits" THEN brought ELSE None
  BY <1>1, <1>4 DEF MatterCommit
<1>7. MatterAsked(asks) /\ seen \in WhatWasRead /\ row \in CaseRow /\ saw \in FactsJson
  <2>1. editor[e] /= NoEdit
    BY <1>6 DEF NoEdit
  <2>2. InFlight(editor[e])
    BY <2>1 DEF FactsInv, FactsTypes
  <2>3. seen \in WhatWasRead /\ asks.op = "matter" /\ (InterviewAsked(asks) \/ FactsAsked(asks) \/ MatterAsked(asks))
    BY <1>1, <1>2, <1>6, <2>2 DEF InFlight
  <2>4. ~InterviewAsked(asks) /\ ~FactsAsked(asks)
    BY <2>3 DEF InterviewAsked, FactsAsked
  <2> QED
    BY <1>3, <2>3, <2>4 DEF FactsInv, FactsTypes, WhatWasRead
<1>8. matter /= None /\ matter \in Matter /\ Checked(items)
  BY <1>7 DEF MatterAsked, FactsInv, FactsTypes
<1>9. CASE asks.key = "merits"
  <2>1. PICK value \in {None, "merits"} : asks.value = value
    BY <1>7, <1>9 DEF MatterAsked
  <2>2. PICK f : f = [saw EXCEPT !.merits = value]
    OBVIOUS
  <2>3. PICK w : w = [row EXCEPT !.facts = f]
    OBVIOUS
  <2>4. Write(e, w, items, overruled) /\ m = matter
    BY <1>1, <1>2, <1>3, <1>4, <1>9, <2>1, <2>2, <2>3 DEF MatterCommit
  <2>5. /\ f \in FactsJson /\ f.plea = saw.plea /\ f.appeal = saw.appeal /\ f.prior = saw.prior
        /\ f.year = saw.year /\ f.judgment = saw.judgment
    BY <1>7, <2>2 DEF FactsJson
  <2>6. /\ w \in CaseRow /\ w.facts = f /\ w.year = row.year /\ w.deadline = row.deadline
        /\ w.lane = row.lane /\ w.sub = row.sub
    BY <1>7, <2>3, <2>5 DEF CaseRow
  <2>7. /\ FactsTypes' /\ row' = w /\ items' = items
        /\ ~raced' => editor[e].row = Merged(row) /\ ~raced
    BY <1>6, <1>8, <2>4, <2>6, WriteStands DEF FactsInv
  <2>8. ASSUME ~raced' PROVE Story'
    <3>1. saw = row.facts /\ Story
      BY <1>2, <1>3, <2>7, <2>8 DEF FactsInv, Merged
    <3>2. DatesAgree' /\ ShapeAgrees' /\ YearsAgree'
      BY <1>6, <1>9, <2>4, <2>5, <2>6, <2>7, <3>1 DEF Story, DatesAgree, ShapeAgrees, YearsAgree, MatterJudgmentDate
    <3>3. ChecklistAgrees'
      BY <2>5, <2>6, <2>7, <3>1 DEF Story, ChecklistAgrees, HadAppeal
    <3>4. MatterAgrees'
      BY <1>6, <1>8, <2>4, <2>5, <2>6, <2>7, <3>1 DEF Story, MatterAgrees, MatterJudgmentDate, Write
    <3> QED
      BY <3>2, <3>3, <3>4 DEF Story
  <2> QED
    BY <2>7, <2>8 DEF FactsInv
<1>10. CASE asks.key /= "merits"
  <2>1. PICK key \in {"signed", "imposed"}, value \in Day : asks.key = key /\ asks.value = value
    BY <1>7, <1>10 DEF MatterAsked
  <2>2. m \in Matter /\ m /= None
    <3>1. m = [matter EXCEPT ![key] = value]
      BY <1>4, <1>10, <2>1
    <3>2. m \in Matter
      <4>1. CASE key = "signed"
        BY <1>8, <3>1, <4>1 DEF Matter, Day
      <4>2. CASE key = "imposed"
        BY <1>8, <3>1, <4>2 DEF Matter, Day
      <4> QED
        BY <4>1, <4>2
    <3> QED
      BY <3>2, NoneAssumption
  <2>3. jd \in Day
    BY <1>5, <2>2 DEF MatterJudgmentDate, Matter, Day
  <2>4. PICK year : year = IF jd = None THEN saw.year ELSE jd
    OBVIOUS
  <2>5. PICK f : f = [saw EXCEPT !.judgment = jd, !.year = year]
    OBVIOUS
  <2>6. PICK w : w = [row EXCEPT !.facts = f, !.year = jd, !.deadline = jd]
    OBVIOUS
  <2>7. Write(e, w, items, FALSE)
    <3>1. f = [saw EXCEPT !.judgment = jd, !.year = IF jd = None THEN saw.year ELSE jd]
      BY <2>4, <2>5
    <3> QED
      BY <1>1, <1>2, <1>3, <1>4, <1>5, <1>7, <1>10, <2>6, <3>1 DEF MatterCommit, FactsJson
  <2>8. /\ f \in FactsJson /\ f.plea = saw.plea /\ f.appeal = saw.appeal /\ f.prior = saw.prior
        /\ f.year = year /\ f.judgment = jd
    BY <1>7, <2>3, <2>4, <2>5 DEF FactsJson
  <2>9. /\ w \in CaseRow /\ w.facts = f /\ w.year = jd /\ w.deadline = jd
        /\ w.lane = row.lane /\ w.sub = row.sub
    BY <1>7, <2>3, <2>6, <2>8 DEF CaseRow
  <2>10. /\ FactsTypes' /\ row' = w /\ items' = items
         /\ ~raced' => editor[e].row = Merged(row) /\ ~raced
    BY <1>6, <1>8, <2>2, <2>7, <2>9, WriteStands DEF FactsInv
  <2>11. ASSUME ~raced' PROVE Story'
    <3>1. saw = row.facts /\ Story
      BY <1>2, <1>3, <2>10, <2>11 DEF FactsInv, Merged
    <3>2. DatesAgree'
      BY <1>6, <1>10, <2>8, <2>9, <2>10 DEF DatesAgree
    <3>3. ShapeAgrees'
      BY <2>8, <2>9, <2>10, <3>1 DEF Story, ShapeAgrees
    <3>4. MatterJudgmentDate(matter)' = jd /\ matter' /= None
      BY <1>5, <1>6, <2>2 DEF MatterJudgmentDate
    <3>5. YearsAgree' /\ MatterAgrees'
      BY <2>4, <2>8, <2>9, <2>10, <3>4 DEF YearsAgree, MatterAgrees, MatterJudgmentDate
    <3>6. ChecklistAgrees'
      BY <2>8, <2>9, <2>10, <3>1 DEF Story, ChecklistAgrees, HadAppeal
    <3> QED
      BY <3>2, <3>3, <3>5, <3>6 DEF Story
  <2> QED
    BY <2>10, <2>11 DEF FactsInv
<1> QED
  BY <1>9, <1>10

\* A step that touches no answer, no date and no request in flight, and asks for no
\* more of the record, leaves the story as it was.
LEMMA StoryStands ==
  ASSUME FactsInv, UNCHANGED <<matter, editor, raced, overruled, brought>>, row' \in CaseRow,
         row'.lane = row.lane, row'.sub = row.sub, row'.year = row.year,
         row'.deadline = row.deadline, row'.facts = row.facts,
         Checked(items'), DOMAIN items' = DOMAIN items,
         {k \in DOMAIN items' : items'[k] = "NEEDED"} \subseteq {k \in DOMAIN items : items[k] = "NEEDED"},
         items = << >> => items' = << >>
  PROVE  FactsInv'
<1>1. \A w : InFlight(w)' <=> InFlight(w)
  BY DEF InFlight, InterviewAsked, FactsAsked, MatterAsked
<1>2. FactsTypes'
  <2>1. \A e \in Editors : editor[e] = NoEdit \/ InFlight(editor[e])'
    BY DEF FactsInv, FactsTypes, InFlight, InterviewAsked, FactsAsked, MatterAsked
  <2>2. Checked(items)'
    BY DEF Checked
  <2> QED
    BY <2>1, <2>2 DEF FactsInv, FactsTypes
<1>3. raced \/ Story
  BY DEF FactsInv
<1>4. ASSUME Story PROVE Story'
  <2>1. DatesAgree' /\ ShapeAgrees' /\ YearsAgree' /\ MatterAgrees'
    BY <1>4 DEF Story, DatesAgree, ShapeAgrees, YearsAgree, MatterAgrees, MatterJudgmentDate
  <2>2. ChecklistAgrees'
    BY <1>4 DEF Story, ChecklistAgrees, HadAppeal
  <2> QED
    BY <2>1, <2>2 DEF Story
<1> QED
  BY <1>2, <1>3, <1>4 DEF FactsInv

\* A page received is asked for no longer; the pipeline moves the status alone.
LEMMA OthersKeep ==
  ASSUME FactsInv, (\E k \in {"rr_volume"} : Receive(k)) \/ Advance
  PROVE  FactsInv'
<1>1. row \in CaseRow /\ Checked(items)
  BY DEF FactsInv, FactsTypes
<1>2. CASE \E k \in {"rr_volume"} : Receive(k)
  <2>1. PICK k : Receive(k)
    BY <1>2
  <2>2. /\ k \in DOMAIN items /\ items' = [items EXCEPT ![k] = "UPLOADED"]
        /\ UNCHANGED <<row, matter, editor, edits, raced, overruled, brought>>
    BY <2>1 DEF Receive
  <2>3. DOMAIN items' = DOMAIN items /\ Checked(items')
    BY <1>1, <2>2 DEF Checked
  <2>4. {j \in DOMAIN items' : items'[j] = "NEEDED"} \subseteq {j \in DOMAIN items : items[j] = "NEEDED"}
    BY <1>1, <2>2, <2>3 DEF Checked
  <2>5. items = << >> => items' = << >>
    BY <2>2
  <2> QED
    BY <1>1, <2>2, <2>3, <2>4, <2>5, StoryStands
<1>3. CASE Advance
  <2>1. PICK x \in {"AWAITING_DOCS", "DOCS_COMPLETE", "IN_REVIEW"} : row' = [row EXCEPT !.status = x]
    BY <1>3 DEF Advance
  <2>2. UNCHANGED <<matter, items, editor, raced, overruled, brought>>
    BY <1>3 DEF Advance
  <2>3. /\ row' \in CaseRow /\ row'.lane = row.lane /\ row'.sub = row.sub /\ row'.year = row.year
        /\ row'.deadline = row.deadline /\ row'.facts = row.facts
    BY <1>1, <2>1 DEF CaseRow
  <2>4. Checked(items')
    BY <1>1, <2>2 DEF Checked
  <2> QED
    BY <2>2, <2>3, <2>4, StoryStands
<1> QED
  BY <1>2, <1>3

\* A case starts with one story: bought from the free check, or opened by counsel.
LEMMA FactsStart == FactsInit => FactsInv
<1> SUFFICES ASSUME FactsInit PROVE FactsInv
  OBVIOUS
<1>1. /\ editor = [e \in Editors |-> NoEdit] /\ raced = FALSE /\ overruled = FALSE /\ brought = None
      /\ \A e \in Editors : editor[e] = NoEdit
  BY DEF FactsInit
<1>2. PICK empty : empty = << >>
  OBVIOUS
<1>3. Checked(empty) /\ DOMAIN empty = {}
  BY <1>2 DEF Checked
<1>4. ASSUME NEW plea \in {None, "trial"}, NEW appeal \in {None, "decided"}, NEW prior \in {None, "no"},
             NEW jd \in Dates \cup {None}, FamilyCase(plea, appeal, prior, jd, jd)
      PROVE  row \in CaseRow /\ matter \in Matter \cup {None} /\ Checked(items) /\ Story
  <2>1. PICK lane : lane = IF plea = None THEN None ELSE LaneOf(plea)
    OBVIOUS
  <2>2. PICK sub : sub = (prior = "yes")
    OBVIOUS
  <2>3. PICK f : f = [judgment |-> jd, year |-> jd, plea |-> plea, appeal |-> appeal, prior |-> prior, merits |-> None]
    OBVIOUS
  <2>4. lane \in Lanes /\ sub \in BOOLEAN /\ jd \in Day
    <3>1. lane \in Lanes
      BY <2>1 DEF LaneOf, Lanes
    <3>2. sub \in BOOLEAN
      BY <2>2, Zenon
    <3> QED
      BY <3>1, <3>2 DEF Day
  <2>5. f \in FactsJson
    BY <2>3, <2>4 DEF FactsJson
  <2>6. /\ row = [status |-> "AWAITING_DOCS", lane |-> lane, sub |-> sub, year |-> jd, deadline |-> jd, facts |-> f]
        /\ matter = None
        /\ items = IF plea = None \/ jd = None \/ appeal = None THEN << >>
                   ELSE Seeded(empty, lane, sub, appeal /= "none")
    BY <1>2, <1>4, <2>1, <2>2, <2>3 DEF FamilyCase
  <2>7. row \in CaseRow
    BY <2>4, <2>5, <2>6 DEF CaseRow
  <2>8. DatesAgree /\ ShapeAgrees /\ YearsAgree /\ MatterAgrees
    <3>1. row.facts.plea = None \/ row.lane = LaneOf(row.facts.plea)
      BY <2>1, <2>3, <2>6
    <3>2. row.sub = (row.facts.prior = "yes")
      BY <2>2, <2>3, <2>6
    <3> QED
      BY <1>1, <2>3, <2>6, <3>1, <3>2 DEF DatesAgree, ShapeAgrees, YearsAgree, MatterAgrees
  <2>9. CASE plea = None \/ jd = None \/ appeal = None
    <3>1. items = << >> /\ Checked(items)
      BY <1>2, <1>3, <2>6, <2>9
    <3> QED
      BY <2>6, <2>7, <2>8, <3>1 DEF Story, ChecklistAgrees
  <2>10. CASE ~(plea = None \/ jd = None \/ appeal = None)
    <3>1. items = Seeded(empty, lane, sub, appeal /= "none")
      BY <2>6, <2>10
    <3>2. \A k \in DOMAIN empty : empty[k] /= "NEEDED"
      BY <1>3
    <3>3. /\ Checked(items) /\ {k \in DOMAIN items : items[k] = "NEEDED"} \subseteq ChecklistTemplate(lane, sub, appeal /= "none")
          /\ ChecklistTemplate(lane, sub, appeal /= "none") \subseteq DOMAIN items
      BY <1>3, <3>1, <3>2, SeededAgrees
    <3>4. row.lane = lane /\ row.sub = sub /\ HadAppeal(row.facts) = (appeal /= "none")
      BY <2>3, <2>6 DEF HadAppeal
    <3>5. ChecklistAgrees
      BY <3>3, <3>4 DEF ChecklistAgrees
    <3> QED
      BY <2>6, <2>7, <2>8, <3>3, <3>5 DEF Story
  <2> QED
    BY <2>9, <2>10
<1>5. ASSUME NEW vehicle \in {"direct_appeal", "11.07"}, NEW signed \in Dates,
             CounselCase(vehicle, "trial", "no", signed, None)
      PROVE  row \in CaseRow /\ matter \in Matter \cup {None} /\ Checked(items) /\ Story
  <2>1. PICK f : f = [judgment |-> signed, year |-> signed, plea |-> "trial", appeal |-> None, prior |-> "no", merits |-> None]
    OBVIOUS
  <2>2. PICK m : m = [signed |-> signed, imposed |-> None, sub |-> FALSE, vehicle |-> vehicle]
    OBVIOUS
  <2>3. MatterJudgmentDate(m) = signed /\ m \in Matter
    BY <2>2 DEF MatterJudgmentDate, Matter
  <2>4. PICK lane : lane = IF "trial" = None THEN None ELSE LaneOf("trial")
    OBVIOUS
  <2>5. lane \in Lanes
    BY <2>4 DEF LaneOf, Lanes
  <2>6. /\ row = [status |-> "AWAITING_DOCS", lane |-> lane, sub |-> "no" = "yes", year |-> signed, deadline |-> signed, facts |-> f]
        /\ matter = m
        /\ items = Seeded(empty, lane, "no" = "yes", vehicle /= "direct_appeal")
    <3>1. m = [signed |-> signed, imposed |-> None, sub |-> "no" = "yes", vehicle |-> vehicle]
      BY <2>2
    <3> QED
      BY <1>2, <1>5, <2>1, <2>3, <2>4, <3>1 DEF CounselCase
  <2>7. /\ row = [status |-> "AWAITING_DOCS", lane |-> lane, sub |-> FALSE, year |-> signed, deadline |-> signed, facts |-> f]
        /\ items = Seeded(empty, lane, FALSE, vehicle /= "direct_appeal")
    BY <2>6
  <2>8. signed \in Day /\ f \in FactsJson
    BY <2>1 DEF Day, FactsJson
  <2>9. row \in CaseRow /\ matter \in Matter /\ matter = m
    BY <2>3, <2>5, <2>6, <2>7, <2>8 DEF CaseRow
  <2>10. /\ row.lane = lane /\ row.sub = FALSE /\ row.facts = f /\ row.deadline = signed /\ row.year = signed
         /\ f.judgment = signed /\ f.year = signed /\ f.plea = "trial" /\ f.appeal = None /\ f.prior = "no"
    BY <2>1, <2>7
  <2>11. \A k \in DOMAIN empty : empty[k] /= "NEEDED"
    BY <1>3
  <2>12. PICK had : had = (vehicle /= "direct_appeal")
    OBVIOUS
  <2>13. items = Seeded(empty, lane, FALSE, had)
    BY <2>7, <2>12
  <2>14. /\ Checked(items) /\ {k \in DOMAIN items : items[k] = "NEEDED"} \subseteq ChecklistTemplate(lane, FALSE, had)
         /\ ChecklistTemplate(lane, FALSE, had) \subseteq DOMAIN items
    BY <1>3, <2>11, <2>13, SeededAgrees
  <2>15. HadAppeal(row.facts)
    BY <2>10, NoneAssumption DEF HadAppeal
  <2>16. /\ ChecklistTemplate(lane, FALSE, had) \subseteq ChecklistTemplate(lane, FALSE, TRUE)
         /\ ChecklistTemplate(lane, FALSE, TRUE) \ ChecklistTemplate(lane, FALSE, had) \subseteq {"appellate_opinion"}
    BY DEF ChecklistTemplate
  <2>17. ChecklistTemplate(row.lane, row.sub, HadAppeal(row.facts)) = ChecklistTemplate(lane, FALSE, TRUE)
    <3>1. HadAppeal(row.facts) = TRUE
      BY <2>15 DEF HadAppeal
    <3> QED
      BY <2>10, <3>1
  <2>18. ChecklistAgrees
    BY <2>14, <2>16, <2>17 DEF ChecklistAgrees
  <2>19. DatesAgree /\ ShapeAgrees /\ YearsAgree /\ MatterAgrees
    <3>1. row.facts.plea = None \/ row.lane = LaneOf(row.facts.plea)
      BY <2>4, <2>10
    <3>2. row.sub = (row.facts.prior = "yes")
      BY <2>10
    <3> QED
      BY <1>1, <2>3, <2>9, <2>10, <3>1, <3>2 DEF DatesAgree, ShapeAgrees, YearsAgree, MatterAgrees
  <2> QED
    BY <2>9, <2>14, <2>18, <2>19 DEF Story
<1>6. row \in CaseRow /\ matter \in Matter \cup {None} /\ Checked(items) /\ Story
  <2>1. ASSUME NEW appeal \in {None, "decided"}, NEW jd \in Dates \cup {None}, FamilyCase("trial", appeal, "no", jd, jd)
        PROVE  row \in CaseRow /\ matter \in Matter \cup {None} /\ Checked(items) /\ Story
    BY <1>4, <2>1
  <2>2. ASSUME FamilyCase(None, None, None, None, None)
        PROVE  row \in CaseRow /\ matter \in Matter \cup {None} /\ Checked(items) /\ Story
    BY <1>4, <2>2
  <2> QED
    BY <1>5, <2>1, <2>2 DEF FactsInit
<1>7. FactsTypes
  BY <1>1, <1>6 DEF FactsTypes
<1> QED
  BY <1>6, <1>7 DEF FactsInv

\* Every step on the case keeps its story, unless an edit was made of a row that
\* changed under it.
LEMMA FactsSteps == FactsInv /\ [FactsNext]_factsVars => FactsInv'
<1> SUFFICES ASSUME FactsInv, [FactsNext]_factsVars PROVE FactsInv'
  OBVIOUS
<1>1. CASE UNCHANGED factsVars
  <2>1. /\ row' \in CaseRow /\ row' = row /\ Checked(items') /\ items' = items
        /\ UNCHANGED <<matter, editor, raced, overruled, brought>>
    BY <1>1 DEF factsVars, FactsInv, FactsTypes, Checked
  <2> QED
    BY <2>1, StoryStands
<1>2. ASSUME NEW e \in Editors, InterviewRead(e) \/ FactsRead(e) \/ MatterRead(e)
      PROVE  FactsInv'
  BY <1>2, ReadsKeep
<1>3. ASSUME NEW e \in Editors, InterviewCommit(e) \/ FactsCommit(e) \/ MatterCommit(e)
      PROVE  FactsInv'
  BY <1>3, InterviewKeeps, AnswerKeeps, MatterKeeps
<1>4. ASSUME (\E k \in {"rr_volume"} : Receive(k)) \/ Advance
      PROVE  FactsInv'
  BY <1>4, OthersKeep
<1> QED
  BY <1>1, <1>2, <1>3, <1>4 DEF FactsNext

\* As long as no edit was made of a row that changed under it, the dates, the lane and
\* mode, the conviction year, the checklist and counsel's matter say the same thing
\* (intake.ts, matters.ts), whatever edits came in whatever order; but for a judgment date
\* that came in a deadlineFacts of its own, until an edit sets the date again.
THEOREM OneStory == FactsSpec => []OneStoryUnlessRaced
<1>1. FactsInit => FactsInv
  BY FactsStart
<1>2. FactsInv /\ [FactsNext]_factsVars => FactsInv'
  BY FactsSteps
<1>3. FactsInv => OneStoryUnlessRaced
  BY DEF FactsInv, Story, OneStoryUnlessRaced
<1> QED
  BY <1>1, <1>2, <1>3, PTL DEF FactsSpec
==============================================================================
