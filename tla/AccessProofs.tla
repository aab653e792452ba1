------------------------------- MODULE AccessProofs -------------------------------
(***************************************************************************)
(* Who gets in, for any people, devices, rows and requests in flight: the   *)
(* seats, the bar number and the staff's keys of Organisations; what leaves *)
(* a case in Sharing; one account's addresses and sessions in Accounts.     *)
(*                                                                         *)
(* In all three a request reads, refuses by what it read, and writes later. *)
(* So each invariant says, next to what it promises, what a request in      *)
(* flight may rely on: what it read, and what may have changed since.       *)
(***************************************************************************)
EXTENDS Organisations, Sharing, Accounts, FiniteSetTheorems, TLAPS

-------------------------------------------------------------------------------
(* Seats, bar number and keys                                              *)

Seats == {"OWNER", "VIEWER"}
Roles == {"ADMIN", "SUPPORT", "VIEWER"}
InvitationRow == [mail : Mail, role : Seats, open : BOOLEAN]
Licence == [number : Numbers \cup {NoOne}, status : {"PENDING", "VERIFIED", "REJECTED"},
            verified : BOOLEAN, for : Numbers \cup {NoOne}]

\* What a request in flight read lets it do: remove an owner among others, write
\* a number nobody verified, take the role or the account of somebody else.
RequestOK(q) ==
  /\ q.op = "invite" => q.mail \in Mail /\ q.role \in Seats
  /\ q.op = "accept" => q.id \in Invitations /\ q.saw \in InvitationRow /\ q.saw.open
                        /\ q.saw /= NoOne /\ q.who \subseteq People
  /\ q.op = "remove" /\ q.on \in q.saw => Cardinality(q.saw) > 1
  /\ q.op = "number" => q.number \in Numbers /\ ~q.saw.verified
  /\ q.op = "decision" => q.status \in {"VERIFIED", "REJECTED"} /\ q.for \in Numbers \cup {NoOne}
  /\ q.op = "role" => q.by \in Staff /\ q.role \in Roles
  /\ q.op = "delete" => q.by \in Staff /\ q.by /= q.on

KeysTypes ==
  /\ seat \in [People -> Seats \cup {NoOne}] /\ mail \in [People -> Mail \cup {NoOne}]
  /\ invited \in [Invitations -> InvitationRow \cup {NoOne}]
  /\ licence \in Licence /\ looked \in Numbers \cup {NoOne}
  /\ staff \in [Staff -> Roles \cup {NoOne}]
  /\ overtaken \in BOOLEAN /\ moved \in BOOLEAN /\ demoted \in BOOLEAN
  /\ route = [r \in Routes |-> route[r]]
  /\ \A r \in Routes : RequestOK(route[r])

\* The row of an invitation that is being accepted is there; rows are never deleted.
RowsThere ==
  \A r \in Routes : route[r].op = "accept" => invited[route[r].id] \in InvitationRow

\* An open invitation is the only one of its address, and nobody of that address
\* is seated: so accepting it never takes an owner's role away.
SeatsInv ==
  overtaken \/ moved \/
    /\ Owners /= {}
    /\ \A p \in People : seat[p] /= NoOne => mail[p] /= NoOne
    /\ \A m \in Mail : OpenFor(m) /= {} => Seated(m) = {}
    /\ \A m \in Mail : \A i, j \in OpenFor(m) : i = j

StaffInv ==
  /\ overtaken \/ demoted \/ \E s \in Staff : staff[s] = "ADMIN"
  /\ grants = [s \in Staff |-> GrantKindForRole(staff[s])]

KeysInv == KeysTypes /\ RowsThere /\ SeatsInv /\ StaffInv /\ LicenceWasLookedUp

\* A request ends: nothing is in flight in its place, and overtaken stays.
LEMMA EndOK ==
  ASSUME KeysTypes, RowsThere, NEW r \in Routes, NEW b \in BOOLEAN, End(r, b),
         \A i \in Invitations : invited[i] \in InvitationRow => invited'[i] \in InvitationRow
  PROVE  /\ RowsThere' /\ route' = [q \in Routes |-> route'[q]]
         /\ \A q \in Routes : RequestOK(route'[q])
         /\ overtaken' \in BOOLEAN /\ (overtaken => overtaken') /\ (b => overtaken')
<1>1. RequestOK(NoRoute)
  BY DEF RequestOK, NoRoute
<1>2. route' = [route EXCEPT ![r] = NoRoute] /\ overtaken' = (overtaken \/ b)
  BY DEF End
<1>3. \A q \in Routes : route'[q] = IF q = r THEN NoRoute ELSE route[q]
  BY <1>2 DEF KeysTypes
<1>4. RowsThere'
  BY <1>3 DEF RowsThere, NoRoute, KeysTypes, RequestOK
<1> QED
  BY <1>1, <1>2, <1>4 DEF KeysTypes

LEMMA BeginOK ==
  ASSUME KeysInv, NEW r \in Routes, NEW q, RequestOK(q), Begin(r, q),
         q.op = "accept" => invited[q.id] \in InvitationRow
  PROVE  KeysInv'
<1>1. /\ route' = [route EXCEPT ![r] = q]
      /\ UNCHANGED <<seat, mail, invited, moved, licence, looked, staff, grants, demoted, overtaken>>
  BY DEF Begin, seatVars, barVars, staffVars
<1>2. KeysTypes'
  BY <1>1 DEF KeysInv, KeysTypes
<1>3. SeatsInv'
  BY <1>1 DEF KeysInv, SeatsInv, Owners, OpenFor, Seated, Holder
<1>4. StaffInv' /\ LicenceWasLookedUp'
  BY <1>1 DEF KeysInv, StaffInv, LicenceWasLookedUp, BarPasses
<1>5. RowsThere'
  BY <1>1 DEF KeysInv, KeysTypes, RowsThere
<1> QED
  BY <1>2, <1>3, <1>4, <1>5 DEF KeysInv

\* The staff's and the number's steps leave the seats; the seats' leave theirs.
LEMMA SeatsStand ==
  ASSUME SeatsInv, UNCHANGED seatVars, overtaken => overtaken'
  PROVE  SeatsInv'
BY DEF SeatsInv, seatVars, Owners, OpenFor, Seated, Holder

LEMMA StaffStands ==
  ASSUME StaffInv, UNCHANGED staffVars, overtaken => overtaken'
  PROVE  StaffInv'
BY DEF StaffInv, staffVars

LEMMA LicenceStands ==
  ASSUME LicenceWasLookedUp, UNCHANGED barVars, overtaken => overtaken'
  PROVE  LicenceWasLookedUp'
BY DEF LicenceWasLookedUp, barVars, BarPasses

LEMMA InviteKeys ==
  ASSUME KeysInv, NEW r \in Routes, InviteCommit(r)
  PROVE  KeysInv'
<1>0. PICK q : q = route[r]
  OBVIOUS
<1>1. RequestOK(q) /\ q.op = "invite" /\ q.mail \in Mail /\ q.role \in Seats
  BY <1>0 DEF InviteCommit, KeysInv, KeysTypes, RequestOK
<1>2. PICK i \in Invitations :
        /\ IF q.saw = {} THEN invited[i] = NoOne ELSE i \in q.saw
        /\ invited' = [invited EXCEPT ![i] = IF @ = NoOne THEN [mail |-> q.mail, role |-> q.role, open |-> TRUE]
                                                          ELSE [@ EXCEPT !.role = q.role]]
  BY <1>0 DEF InviteCommit
<1>3. PICK b : b = (Seated(q.mail) /= {} \/ OpenFor(q.mail) /= q.saw)
  OBVIOUS
<1>4. /\ b \in BOOLEAN /\ End(r, b)
      /\ UNCHANGED <<seat, mail, moved, licence, looked, staff, grants, demoted>>
  BY <1>0, <1>3 DEF InviteCommit, barVars, staffVars
<1>5. PICK row : row = IF invited[i] = NoOne THEN [mail |-> q.mail, role |-> q.role, open |-> TRUE]
                                             ELSE [invited[i] EXCEPT !.role = q.role]
  OBVIOUS
<1>6. /\ invited' = [invited EXCEPT ![i] = row] /\ row \in InvitationRow
      /\ invited[i] = NoOne => row.mail = q.mail
      /\ invited[i] /= NoOne => row.mail = invited[i].mail /\ row.open = invited[i].open
  BY <1>1, <1>2, <1>5 DEF KeysInv, KeysTypes, InvitationRow
<1>7. /\ RowsThere' /\ (overtaken => overtaken') /\ (b => overtaken')
       /\ route' = [x \in Routes |-> route'[x]] /\ overtaken' \in BOOLEAN
       /\ \A x \in Routes : RequestOK(route'[x])
  <2>1. \A j \in Invitations : invited[j] \in InvitationRow => invited'[j] \in InvitationRow
    BY <1>6 DEF KeysInv, KeysTypes
  <2> QED
    BY <1>4, <2>1, EndOK DEF KeysInv
<1>8. KeysTypes'
  <2>2. invited' \in [Invitations -> InvitationRow \cup {NoOne}]
    BY <1>6 DEF KeysInv, KeysTypes
  <2> QED
    BY <1>4, <1>7, <2>2 DEF KeysInv, KeysTypes
<1>9. SeatsInv'
  <2>1. CASE overtaken \/ moved \/ b
    BY <1>4, <1>7, <2>1 DEF KeysInv, SeatsInv
  <2>2. CASE ~(overtaken \/ moved \/ b)
    <3>1. Seated(q.mail) = {} /\ OpenFor(q.mail) = q.saw
      BY <1>3, <2>2
    <3>2. /\ Owners /= {} /\ \A p \in People : seat[p] /= NoOne => mail[p] /= NoOne
          /\ \A m \in Mail : OpenFor(m) /= {} => Seated(m) = {}
          /\ \A m \in Mail : \A k, j \in OpenFor(m) : k = j
      BY <2>2 DEF KeysInv, SeatsInv
    <3>3. \A m : Seated(m)' = Seated(m)
      BY <1>4 DEF Seated, Holder
    <3>4. ASSUME NEW m \in Mail, NEW j \in OpenFor(m)'
          PROVE  \/ j \in OpenFor(m) /\ j /= i
                 \/ j = i /\ m = q.mail /\ (q.saw = {} \/ OpenFor(m) = {j})
      <4>1. CASE j /= i
        <5>1. invited'[j] = invited[j]
          BY <1>6, <4>1 DEF OpenFor, KeysInv, KeysTypes
        <5> QED
          BY <4>1, <5>1 DEF OpenFor
      <4>2. CASE j = i
        <5>1. row.mail = m /\ row.open
          BY <1>6, <4>2 DEF OpenFor, KeysInv, KeysTypes
        <5>2. CASE invited[i] = NoOne
          <6>1. i \notin OpenFor(q.mail)
            BY <5>2 DEF OpenFor
          <6>2. q.saw = {}
            BY <1>2, <3>1, <6>1
          <6> QED
            BY <1>6, <4>2, <5>1, <5>2, <6>2
        <5>3. CASE invited[i] /= NoOne
          <6>1. i \in q.saw
            BY <1>2, <5>3
          <6>2. i \in OpenFor(q.mail)
            BY <3>1, <6>1
          <6>3. invited[i].mail = q.mail /\ m = q.mail
            BY <1>6, <5>1, <5>3, <6>2 DEF OpenFor
          <6>4. OpenFor(m) = {i}
            BY <1>1, <3>2, <6>2, <6>3
          <6> QED
            BY <4>2, <6>3, <6>4
        <5> QED
          BY <5>2, <5>3
      <4> QED
        BY <4>1, <4>2
    <3>5. ASSUME NEW m \in Mail, OpenFor(m)' /= {} PROVE Seated(m)' = {}
      BY <3>1, <3>2, <3>3, <3>4, <3>5
    <3>6. ASSUME NEW m \in Mail, NEW k \in OpenFor(m)', NEW j \in OpenFor(m)' PROVE k = j
      BY <3>1, <3>2, <3>4
    <3>7. Owners' /= {} /\ \A p \in People : seat'[p] /= NoOne => mail'[p] /= NoOne
      BY <1>4, <3>2 DEF Owners
    <3> QED
      BY <3>5, <3>6, <3>7 DEF SeatsInv
  <2> QED
    BY <2>1, <2>2
<1> QED
  BY <1>4, <1>8, <1>9, <1>7, StaffStands, LicenceStands DEF KeysInv, staffVars, barVars

LEMMA AcceptKeys ==
  ASSUME KeysInv, NEW r \in Routes, AcceptCommit(r)
  PROVE  KeysInv'
<1>0. PICK q : q = route[r]
  OBVIOUS
<1>1. /\ RequestOK(q) /\ q.op = "accept" /\ q.id \in Invitations /\ q.saw \in InvitationRow
      /\ q.saw.open /\ q.saw /= NoOne /\ invited[q.id] \in InvitationRow
  BY <1>0 DEF AcceptCommit, KeysInv, KeysTypes, RequestOK, RowsThere
<1>2. PICK p \in People :
        /\ p \in (IF q.who = {} THEN {x \in People : mail[x] = NoOne} ELSE q.who)
        /\ seat' = [seat EXCEPT ![p] = q.saw.role]
        /\ mail' = IF q.who = {} THEN [mail EXCEPT ![p] = q.saw.mail] ELSE mail
  <2>1. q.who \subseteq People
    BY <1>1 DEF RequestOK
  <2> QED
    BY <1>0, <2>1 DEF AcceptCommit
<1>3. PICK b : b = (invited[q.id] /= q.saw \/ Holder(q.saw.mail) /= q.who)
  OBVIOUS
<1>4. /\ b \in BOOLEAN /\ End(r, b) /\ invited' = [invited EXCEPT ![q.id].open = FALSE]
      /\ UNCHANGED <<moved, licence, looked, staff, grants, demoted>>
  BY <1>0, <1>3 DEF AcceptCommit, barVars, staffVars
<1>5. q.saw.role \in Seats /\ q.saw.mail \in Mail
  BY <1>1 DEF InvitationRow
<1>6. PICK row : row = [invited[q.id] EXCEPT !.open = FALSE]
  OBVIOUS
<1>7. row \in InvitationRow /\ ~row.open /\ invited' = [invited EXCEPT ![q.id] = row]
  BY <1>1, <1>4, <1>6 DEF InvitationRow
<1>8. /\ RowsThere' /\ (overtaken => overtaken') /\ (b => overtaken')
      /\ route' = [x \in Routes |-> route'[x]] /\ overtaken' \in BOOLEAN
      /\ \A x \in Routes : RequestOK(route'[x])
  <2>1. \A j \in Invitations : invited[j] \in InvitationRow => invited'[j] \in InvitationRow
    BY <1>7 DEF KeysInv, KeysTypes
  <2> QED
    BY <1>4, <2>1, EndOK DEF KeysInv
<1>9. KeysTypes'
  <2>1. invited' \in [Invitations -> InvitationRow \cup {NoOne}]
    BY <1>1, <1>7 DEF KeysInv, KeysTypes
  <2>2. seat' \in [People -> Seats \cup {NoOne}] /\ mail' \in [People -> Mail \cup {NoOne}]
    BY <1>2, <1>5 DEF KeysInv, KeysTypes
  <2> QED
    BY <1>4, <1>8, <2>1, <2>2 DEF KeysInv, KeysTypes
<1>10. SeatsInv'
  <2>1. CASE overtaken \/ moved \/ b
    BY <1>4, <1>8, <2>1 DEF KeysInv, SeatsInv
  <2>2. CASE ~(overtaken \/ moved \/ b)
    <3> DEFINE m == q.saw.mail
    <3>1. /\ Owners /= {} /\ \A x \in People : seat[x] /= NoOne => mail[x] /= NoOne
          /\ \A a \in Mail : OpenFor(a) /= {} => Seated(a) = {}
          /\ \A a \in Mail : \A k, j \in OpenFor(a) : k = j
          /\ invited[q.id] = q.saw /\ Holder(m) = q.who
      BY <1>3, <2>2 DEF KeysInv, SeatsInv
    <3>2. seat[p] = NoOne /\ mail'[p] = m /\ m \in Mail
      <4>1. CASE q.who = {}
        BY <1>2, <1>5, <3>1, <4>1 DEF KeysInv, KeysTypes
      <4>2. CASE q.who /= {}
        <5>1. p \in Holder(m) /\ mail' = mail
          BY <1>2, <3>1, <4>2
        <5>2. q.id \in OpenFor(m)
          BY <1>1, <3>1 DEF OpenFor
        <5> QED
          BY <1>5, <3>1, <5>1, <5>2 DEF Seated, Holder
      <4> QED
        BY <4>1, <4>2
    <3>3. \A x \in People \ {p} : seat'[x] = seat[x] /\ mail'[x] = mail[x]
      BY <1>2 DEF KeysInv, KeysTypes
    <3>4. Owners' /= {}
      <4>1. PICK o \in People : seat[o] = "OWNER"
        BY <3>1 DEF Owners
      <4>2. o /= p
        BY <3>2, <4>1, KeysAssumption
      <4> QED
        BY <3>3, <4>1, <4>2 DEF Owners
    <3>5. ASSUME NEW x \in People, seat'[x] /= NoOne PROVE mail'[x] /= NoOne
      BY <3>1, <3>2, <3>3, <3>5, KeysAssumption
    <3>6. ASSUME NEW a \in Mail PROVE OpenFor(a)' \subseteq OpenFor(a) \ {q.id}
      BY <1>1, <1>7 DEF OpenFor, KeysInv, KeysTypes
    <3>7. ASSUME NEW a \in Mail, OpenFor(a)' /= {} PROVE Seated(a)' = {}
      <4>1. PICK j \in OpenFor(a) : j /= q.id
        BY <3>6, <3>7
      <4>2. a /= m
        <5>1. q.id \in OpenFor(m)
          BY <1>1, <3>1 DEF OpenFor
        <5> QED
          BY <3>1, <4>1, <5>1
      <4>3. Seated(a) = {}
        BY <3>1, <4>1
      <4> QED
        BY <3>2, <3>3, <4>2, <4>3 DEF Seated, Holder
    <3> QED
      BY <3>1, <3>4, <3>5, <3>6, <3>7 DEF SeatsInv
  <2> QED
    BY <2>1, <2>2
<1> QED
  BY <1>4, <1>8, <1>9, <1>10, StaffStands, LicenceStands DEF KeysInv, staffVars, barVars

\* Where there is more than one owner, there is another than the one who goes.
LEMMA OthersLeft ==
  ASSUME NEW S, NEW x, Cardinality(S) > 1
  PROVE  \E y \in S : y /= x
<1> SUFFICES ASSUME \A y \in S : y = x PROVE FALSE
  OBVIOUS
<1>1. S = {} \/ S = {x}
  OBVIOUS
<1>2. Cardinality({}) = 0 /\ Cardinality({x}) = 1
  BY FS_EmptySet, FS_Singleton
<1> QED
  BY <1>1, <1>2

LEMMA RemoveKeys ==
  ASSUME KeysInv, NEW r \in Routes, RemoveCommit(r)
  PROVE  KeysInv'
<1>0. PICK q : q = route[r]
  OBVIOUS
<1>1. RequestOK(q) /\ q.op = "remove" /\ seat' = [seat EXCEPT ![q.on] = NoOne]
  BY <1>0 DEF RemoveCommit, KeysInv, KeysTypes
<1>2. PICK b : b = (q.saw /= Owners)
  OBVIOUS
<1>3. /\ b \in BOOLEAN /\ End(r, b)
      /\ UNCHANGED <<mail, invited, moved, licence, looked, staff, grants, demoted>>
  BY <1>0, <1>2 DEF RemoveCommit, barVars, staffVars
<1>4. /\ RowsThere' /\ (overtaken => overtaken') /\ (b => overtaken')
      /\ route' = [x \in Routes |-> route'[x]] /\ overtaken' \in BOOLEAN
      /\ \A x \in Routes : RequestOK(route'[x])
  BY <1>3, EndOK DEF KeysInv
<1>5. \A x \in People : seat'[x] = IF x = q.on THEN NoOne ELSE seat[x]
  BY <1>1 DEF KeysInv, KeysTypes
<1>6. KeysTypes'
  BY <1>1, <1>3, <1>4 DEF KeysInv, KeysTypes
<1>7. SeatsInv'
  <2>1. CASE overtaken \/ moved \/ b
    BY <1>3, <1>4, <2>1 DEF KeysInv, SeatsInv
  <2>2. CASE ~(overtaken \/ moved \/ b)
    <3>1. /\ Owners /= {} /\ \A x \in People : seat[x] /= NoOne => mail[x] /= NoOne
          /\ \A a \in Mail : OpenFor(a) /= {} => Seated(a) = {}
          /\ \A a \in Mail : \A k, j \in OpenFor(a) : k = j
          /\ q.saw = Owners
      BY <1>2, <2>2 DEF KeysInv, SeatsInv
    <3>2. \E o \in Owners : o /= q.on
      <4>1. CASE q.on \in Owners
        BY <1>1, <3>1, <4>1, OthersLeft DEF RequestOK
      <4>2. CASE q.on \notin Owners
        BY <3>1, <4>2
      <4> QED
        BY <4>1, <4>2
    <3>3. Owners' /= {}
      BY <1>5, <3>2 DEF Owners
    <3>4. \A x \in People : seat'[x] /= NoOne => mail'[x] /= NoOne
      BY <1>3, <1>5, <3>1
    <3>5. \A a : OpenFor(a)' = OpenFor(a) /\ Seated(a)' \subseteq Seated(a)
      BY <1>3, <1>5 DEF OpenFor, Seated, Holder
    <3> QED
      BY <3>1, <3>3, <3>4, <3>5 DEF SeatsInv
  <2> QED
    BY <2>1, <2>2
<1> QED
  BY <1>3, <1>4, <1>6, <1>7, StaffStands, LicenceStands DEF KeysInv, staffVars, barVars

LEMMA AddressKeys ==
  ASSUME KeysInv, NEW p \in People, NEW m \in Mail, AddressMoves(p, m)
  PROVE  KeysInv'
<1>1. /\ mail' = [mail EXCEPT ![p] = m] /\ mail[p] /= NoOne
      /\ moved' = (moved \/ OpenFor(m) /= {})
      /\ UNCHANGED <<seat, invited, licence, looked, staff, grants, demoted, route, overtaken>>
  BY DEF AddressMoves, barVars, staffVars
<1>2. KeysTypes' /\ RowsThere'
  BY <1>1 DEF KeysInv, KeysTypes, RowsThere
<1>3. SeatsInv'
  <2>1. CASE overtaken \/ moved \/ OpenFor(m) /= {}
    BY <1>1, <2>1 DEF KeysInv, SeatsInv
  <2>2. CASE ~(overtaken \/ moved \/ OpenFor(m) /= {})
    <3>1. /\ Owners /= {} /\ \A x \in People : seat[x] /= NoOne => mail[x] /= NoOne
          /\ \A a \in Mail : OpenFor(a) /= {} => Seated(a) = {}
          /\ \A a \in Mail : \A k, j \in OpenFor(a) : k = j
      BY <2>2 DEF KeysInv, SeatsInv
    <3>2. \A x \in People : mail'[x] = IF x = p THEN m ELSE mail[x]
      BY <1>1 DEF KeysInv, KeysTypes
    <3>3. \A a : OpenFor(a)' = OpenFor(a)
      BY <1>1 DEF OpenFor
    <3>4. Owners' /= {} /\ \A x \in People : seat'[x] /= NoOne => mail'[x] /= NoOne
      BY <1>1, <3>1, <3>2, KeysAssumption DEF Owners
    <3>5. ASSUME NEW a \in Mail, OpenFor(a)' /= {} PROVE Seated(a)' = {}
      <4>1. a /= m /\ Seated(a) = {}
        BY <2>2, <3>1, <3>3, <3>5
      <4> QED
        BY <1>1, <3>2, <4>1 DEF Seated, Holder
    <3> QED
      BY <3>1, <3>3, <3>4, <3>5 DEF SeatsInv
  <2> QED
    BY <2>1, <2>2
<1> QED
  BY <1>1, <1>2, <1>3, StaffStands, LicenceStands DEF KeysInv, staffVars, barVars

\* A number is written over a licence nobody verified; a decision is of the number
\* on the desk's list.
LEMMA BarKeys ==
  ASSUME KeysInv, NEW r \in Routes, NumberCommit(r) \/ DecisionCommit(r)
  PROVE  KeysInv'
<1>0. PICK q : q = route[r]
  OBVIOUS
<1>1. RequestOK(q) /\ licence \in Licence
  BY <1>0 DEF KeysInv, KeysTypes
<1>2. PICK b : b = IF q.op = "number" THEN q.saw /= licence ELSE q.for /= licence.number
  OBVIOUS
<1>3. /\ b \in BOOLEAN /\ End(r, b) /\ q.op \in {"number", "decision"}
      /\ UNCHANGED <<seat, mail, invited, moved, looked, staff, grants, demoted>>
  BY <1>0, <1>2 DEF NumberCommit, DecisionCommit, seatVars, staffVars
<1>4. /\ RowsThere' /\ (overtaken => overtaken') /\ (b => overtaken')
      /\ route' = [x \in Routes |-> route'[x]] /\ overtaken' \in BOOLEAN
      /\ \A x \in Routes : RequestOK(route'[x])
  BY <1>3, EndOK DEF KeysInv
<1>5. licence' \in Licence /\ LicenceWasLookedUp'
  <2>1. CASE q.op = "number"
    <3>1. licence' = [licence EXCEPT !.number = q.number, !.status = "PENDING"]
      BY <1>0, <2>1 DEF NumberCommit, DecisionCommit
    <3>2. licence' \in Licence /\ licence'.verified = licence.verified
      BY <1>1, <2>1, <3>1 DEF Licence, RequestOK
    <3>3. b \/ ~licence.verified
      BY <1>1, <1>2, <2>1 DEF RequestOK
    <3> QED
      BY <1>4, <3>2, <3>3 DEF LicenceWasLookedUp, BarPasses
  <2>2. CASE q.op = "decision"
    <3>1. licence' = [licence EXCEPT !.status = q.status, !.verified = (q.status = "VERIFIED"), !.for = q.for]
      BY <1>0, <2>2 DEF NumberCommit, DecisionCommit
    <3>2. /\ q.status \in {"VERIFIED", "REJECTED"} /\ q.for \in Numbers \cup {NoOne}
          /\ (q.status = "VERIFIED") \in BOOLEAN
      BY <1>1, <2>2 DEF RequestOK
    <3>3. licence' \in Licence /\ licence'.number = licence.number /\ licence'.for = q.for
      BY <1>1, <3>1, <3>2 DEF Licence
    <3>4. b \/ q.for = licence.number
      BY <1>2, <2>2
    <3> QED
      BY <1>4, <3>3, <3>4 DEF LicenceWasLookedUp
  <2> QED
    BY <1>3, <2>1, <2>2
<1>6. KeysTypes'
  BY <1>3, <1>4, <1>5 DEF KeysInv, KeysTypes
<1> QED
  BY <1>3, <1>4, <1>5, <1>6, SeatsStand, StaffStands DEF KeysInv, seatVars, staffVars

LEMMA DeskKeys ==
  ASSUME KeysInv, DeskLooks
  PROVE  KeysInv'
<1>1. /\ looked' = licence.number
      /\ UNCHANGED <<seat, mail, invited, moved, licence, staff, grants, demoted, route, overtaken>>
  BY DEF DeskLooks, seatVars, staffVars
<1>2. KeysTypes' /\ RowsThere'
  BY <1>1 DEF KeysInv, KeysTypes, RowsThere, Licence
<1>3. LicenceWasLookedUp'
  BY <1>1 DEF KeysInv, LicenceWasLookedUp, BarPasses
<1> QED
  BY <1>1, <1>2, <1>3, SeatsStand, StaffStands DEF KeysInv, seatVars, staffVars

\* A staff member's row and grants change together; somebody else's stay.
LEMMA StaffKeys ==
  ASSUME KeysInv, NEW r \in Routes,
         \/ \E by, s \in Staff, role \in Roles : CreateUser(r, by, s, role)
         \/ RoleCommit(r) \/ DeleteCommit(r)
  PROVE  KeysInv'
<1>1. /\ staff \in [Staff -> Roles \cup {NoOne}] /\ grants = [s \in Staff |-> GrantKindForRole(staff[s])]
      /\ GrantKindForRole(NoOne) = {}
  BY KeysAssumption DEF KeysInv, KeysTypes, StaffInv, GrantKindForRole
<1>2. ASSUME NEW by \in Staff, NEW s \in Staff, NEW role \in Roles, CreateUser(r, by, s, role)
      PROVE  KeysInv'
  <2>1. /\ staff[s] = NoOne /\ staff' = [staff EXCEPT ![s] = role]
        /\ grants' = [grants EXCEPT ![s] = GrantKindForRole(role)]
        /\ UNCHANGED <<seatVars, barVars, demoted, route, overtaken>>
    BY <1>2 DEF CreateUser
  <2>2. KeysTypes' /\ RowsThere'
    BY <2>1 DEF KeysInv, KeysTypes, RowsThere, seatVars, barVars
  <2>3. StaffInv'
    BY <1>1, <2>1, KeysAssumption DEF KeysInv, StaffInv
  <2> QED
    BY <2>1, <2>2, <2>3, SeatsStand, LicenceStands DEF KeysInv
<1>3. CASE RoleCommit(r) \/ DeleteCommit(r)
  <2>0. PICK q : q = route[r]
    OBVIOUS
  <2>1. PICK role : role = IF q.op = "role" THEN q.role ELSE NoOne
    OBVIOUS
  <2>2. PICK b : b = ~IsAdmin(q.by)
    OBVIOUS
  <2>3. /\ RequestOK(q) /\ q.op \in {"role", "delete"} /\ b \in BOOLEAN /\ End(r, b)
        /\ UNCHANGED <<seatVars, barVars>>
        /\ staff' = [staff EXCEPT ![q.on] = role]
        /\ grants' = [grants EXCEPT ![q.on] = GrantKindForRole(role)]
        /\ demoted' = (demoted \/ (q.op = "role" /\ q.on = q.by /\ q.role /= "ADMIN"))
        /\ demoted' \in BOOLEAN
    BY <1>1, <1>3, <2>0, <2>1, <2>2 DEF RoleCommit, DeleteCommit, Regranted, KeysInv, KeysTypes
  <2>4. /\ RowsThere' /\ (overtaken => overtaken') /\ (b => overtaken')
        /\ route' = [x \in Routes |-> route'[x]] /\ overtaken' \in BOOLEAN
        /\ \A x \in Routes : RequestOK(route'[x])
    BY <2>3, EndOK DEF KeysInv, seatVars
  <2>5. role \in Roles \cup {NoOne}
    BY <2>1, <2>3 DEF RequestOK
  <2>6. KeysTypes'
    BY <2>3, <2>4, <2>5 DEF KeysInv, KeysTypes, seatVars, barVars
  <2>7. StaffInv'
    <3>1. grants' = [s \in Staff |-> GrantKindForRole(staff'[s])]
      BY <1>1, <2>3
    <3>2. \A s \in Staff : staff'[s] = IF s = q.on THEN role ELSE staff[s]
      BY <1>1, <2>3
    <3>3. overtaken' \/ demoted' \/ \E s \in Staff : staff'[s] = "ADMIN"
      <4>1. CASE b \/ overtaken \/ demoted
        BY <2>3, <2>4, <4>1
      <4>2. CASE ~b
        <5>1. q.by \in Staff /\ staff[q.by] = "ADMIN"
          BY <2>2, <4>2 DEF IsAdmin
        <5>2. CASE q.on = q.by
          BY <2>1, <2>3, <3>2, <5>1, <5>2 DEF RequestOK
        <5>3. CASE q.on /= q.by
          BY <3>2, <5>1, <5>3
        <5> QED
          BY <5>2, <5>3
      <4> QED
        BY <4>1, <4>2
    <3> QED
      BY <3>1, <3>3 DEF StaffInv
  <2> QED
    BY <2>3, <2>4, <2>6, <2>7, SeatsStand, LicenceStands DEF KeysInv
<1> QED
  BY <1>2, <1>3

LEMMA FailsKeys ==
  ASSUME KeysInv, NEW r \in Routes, Fails(r)
  PROVE  KeysInv'
<1>1. End(r, FALSE) /\ UNCHANGED <<seatVars, barVars, staffVars>>
  BY DEF Fails, Throw
<1>2. /\ RowsThere' /\ (overtaken => overtaken')
      /\ route' = [x \in Routes |-> route'[x]] /\ overtaken' \in BOOLEAN
      /\ \A x \in Routes : RequestOK(route'[x])
  BY <1>1, EndOK DEF KeysInv, seatVars
<1>3. KeysTypes'
  BY <1>1, <1>2 DEF KeysInv, KeysTypes, seatVars, barVars, staffVars
<1> QED
  BY <1>1, <1>2, <1>3, SeatsStand, StaffStands, LicenceStands DEF KeysInv

\* What a request reads is what it may rely on.
LEMMA ReadKeys ==
  ASSUME KeysInv, NEW r \in Routes,
         \/ \E by \in People, m \in Mail, role \in {"OWNER", "VIEWER"} : InviteRead(r, by, m, role)
         \/ \E by, on \in People : RemoveRead(r, by, on)
         \/ \E i \in Invitations : AcceptRead(r, i)
         \/ \E n \in Numbers : NumberRead(r, n)
         \/ \E status \in {"VERIFIED", "REJECTED"} : DecisionRead(r, status)
         \/ \E by, s \in Staff :
              (\E role \in Roles : RoleRead(r, by, s, role)) \/ DeleteRead(r, by, s)
  PROVE  KeysInv'
<1>1. ASSUME NEW by \in People, NEW m \in Mail, NEW role \in Seats, InviteRead(r, by, m, role)
      PROVE  KeysInv'
  <2>1. PICK q : q = [op |-> "invite", mail |-> m, role |-> role, saw |-> OpenFor(m)]
    OBVIOUS
  <2>2. RequestOK(q) /\ q.op = "invite"
    BY <2>1 DEF RequestOK
  <2> QED
    BY <1>1, <2>1, <2>2, BeginOK DEF InviteRead
<1>2. ASSUME NEW by \in People, NEW on \in People, RemoveRead(r, by, on) PROVE KeysInv'
  <2>1. PICK q : q = [op |-> "remove", on |-> on, saw |-> Owners]
    OBVIOUS
  <2>2. RequestOK(q) /\ q.op = "remove"
    BY <1>2, <2>1 DEF RequestOK, RemoveRead, Removable, Owners
  <2> QED
    BY <1>2, <2>1, <2>2, BeginOK DEF RemoveRead
<1>3. ASSUME NEW i \in Invitations, AcceptRead(r, i) PROVE KeysInv'
  <2>1. PICK q : q = [op |-> "accept", id |-> i, saw |-> invited[i], who |-> Holder(invited[i].mail)]
    OBVIOUS
  <2>2. invited[i] \in InvitationRow /\ invited[i] /= NoOne /\ invited[i].open
    BY <1>3 DEF AcceptRead, KeysInv, KeysTypes
  <2>3. RequestOK(q) /\ q.op = "accept" /\ invited[q.id] \in InvitationRow
    BY <2>1, <2>2 DEF RequestOK, Holder
  <2> QED
    BY <1>3, <2>1, <2>3, BeginOK DEF AcceptRead
<1>4. ASSUME NEW n \in Numbers, NumberRead(r, n) PROVE KeysInv'
  <2>1. PICK q : q = [op |-> "number", number |-> n, saw |-> licence]
    OBVIOUS
  <2>2. RequestOK(q) /\ q.op = "number"
    BY <1>4, <2>1 DEF RequestOK, NumberRead
  <2> QED
    BY <1>4, <2>1, <2>2, BeginOK DEF NumberRead
<1>5. ASSUME NEW status \in {"VERIFIED", "REJECTED"}, DecisionRead(r, status) PROVE KeysInv'
  <2>1. PICK q : q = [op |-> "decision", status |-> status, saw |-> licence, for |-> looked]
    OBVIOUS
  <2>2. RequestOK(q) /\ q.op = "decision"
    BY <2>1 DEF RequestOK, KeysInv, KeysTypes
  <2> QED
    BY <1>5, <2>1, <2>2, BeginOK DEF DecisionRead
<1>6. ASSUME NEW by \in Staff, NEW s \in Staff, NEW role \in Roles, RoleRead(r, by, s, role)
      PROVE  KeysInv'
  <2>1. PICK q : q = [op |-> "role", by |-> by, on |-> s, role |-> role]
    OBVIOUS
  <2>2. RequestOK(q) /\ q.op = "role"
    BY <2>1 DEF RequestOK
  <2> QED
    BY <1>6, <2>1, <2>2, BeginOK DEF RoleRead
<1>7. ASSUME NEW by \in Staff, NEW s \in Staff, DeleteRead(r, by, s) PROVE KeysInv'
  <2>1. PICK q : q = [op |-> "delete", by |-> by, on |-> s]
    OBVIOUS
  <2>2. RequestOK(q) /\ q.op = "delete"
    BY <1>7, <2>1 DEF RequestOK, DeleteRead
  <2> QED
    BY <1>7, <2>1, <2>2, BeginOK DEF DeleteRead
<1> QED
  BY <1>1, <1>2, <1>3, <1>4, <1>5, <1>6, <1>7 DEF Seats

LEMMA KeysStart == KeysInit => KeysInv
<1> SUFFICES ASSUME KeysInit PROVE KeysInv
  OBVIOUS
<1> DEFINE m0 == CHOOSE m \in Mail : TRUE
<1>1. m0 \in Mail
  BY KeysAssumption
<1> HIDE DEF m0
<1>2. /\ seat = [p \in People |-> IF p = Founder THEN "OWNER" ELSE NoOne]
      /\ mail = [p \in People |-> IF p = Founder THEN m0 ELSE NoOne]
      /\ invited = [i \in Invitations |-> NoOne]
      /\ licence = [number |-> NoOne, status |-> "PENDING", verified |-> FALSE, for |-> NoOne]
      /\ looked = NoOne
      /\ staff = [s \in Staff |-> IF s = FirstAdmin THEN "ADMIN" ELSE NoOne]
      /\ grants = [s \in Staff |-> IF s = FirstAdmin THEN {"ADMIN"} ELSE {}]
      /\ route = [r \in Routes |-> NoRoute]
      /\ overtaken = FALSE /\ moved = FALSE /\ demoted = FALSE
  BY DEF KeysInit, m0
<1>3. licence \in Licence /\ LicenceWasLookedUp
  BY <1>2 DEF Licence, LicenceWasLookedUp
<1>4. \A r \in Routes : RequestOK(route[r]) /\ route[r].op = "none"
  BY <1>2 DEF RequestOK, NoRoute
<1>5. KeysTypes /\ RowsThere
  BY <1>1, <1>2, <1>3, <1>4 DEF KeysTypes, RowsThere, Seats, Roles
<1>6. SeatsInv
  <2>1. \A m : OpenFor(m) = {}
    BY <1>2 DEF OpenFor
  <2>2. Owners /= {} /\ \A p \in People : seat[p] /= NoOne => mail[p] /= NoOne
    BY <1>1, <1>2, KeysAssumption DEF Owners
  <2> QED
    BY <2>1, <2>2 DEF SeatsInv
<1>7. StaffInv
  <2>1. \A s \in Staff : grants[s] = GrantKindForRole(staff[s])
    BY <1>2, KeysAssumption DEF GrantKindForRole
  <2>2. staff[FirstAdmin] = "ADMIN" /\ FirstAdmin \in Staff
    BY <1>2, KeysAssumption
  <2> QED
    BY <1>2, <2>1, <2>2 DEF StaffInv
<1> QED
  BY <1>3, <1>5, <1>6, <1>7 DEF KeysInv

LEMMA KeysStep == KeysInv /\ [KeysNext]_keyVars => KeysInv'
<1> SUFFICES ASSUME KeysInv, [KeysNext]_keyVars PROVE KeysInv'
  OBVIOUS
<1>1. CASE SeatsNext
  BY <1>1, ReadKeys, InviteKeys, AcceptKeys, RemoveKeys, AddressKeys DEF SeatsNext
<1>2. CASE BarNext
  BY <1>2, ReadKeys, BarKeys, DeskKeys DEF BarNext
<1>3. CASE StaffNext
  BY <1>3, ReadKeys, StaffKeys DEF StaffNext, Roles
<1>4. ASSUME NEW r \in Routes, Fails(r) PROVE KeysInv'
  BY <1>4, FailsKeys
<1>5. CASE UNCHANGED keyVars
  <2>1. KeysTypes' /\ RowsThere'
    BY <1>5 DEF KeysInv, KeysTypes, RowsThere, keyVars
  <2> QED
    BY <1>5, <2>1, SeatsStand, StaffStands, LicenceStands DEF KeysInv, keyVars, seatVars, staffVars, barVars
<1> QED
  BY <1>1, <1>2, <1>3, <1>4, <1>5 DEF KeysNext

\* For any people, rows, staff and requests in flight: an organisation keeps an
\* owner and the console an Admin, nobody holds a grant but the role's, and a bar
\* number that opens counsel review is the one looked up, but for what the three
\* histories name.
THEOREM KeysHold == KeysSpec => []KeysAreEarned
<1>1. KeysInv => KeysAreEarned
  <2> SUFFICES ASSUME KeysInv PROVE KeysAreEarned
    OBVIOUS
  <2>1. \A s \in Staff : grants[s] = GrantKindForRole(staff[s])
    BY DEF KeysInv, StaffInv
  <2> QED
    BY <2>1 DEF KeysInv, SeatsInv, StaffInv, KeysAreEarned, OwnersAndAdminsRemain
<1> QED
  BY <1>1, KeysStart, KeysStep, PTL DEF KeysSpec

-------------------------------------------------------------------------------
(* What leaves a case                                                      *)

Classes == {"clinic", "attorney"}
Delivery == [consent : Consents \cup {NoConsent}, opened : BOOLEAN]
Link == [version : Nat, live : BOOLEAN, log : Nat, crossed : BOOLEAN]

\* A request in flight is about rows there are.
VisitOK(w) ==
  /\ w.op = "grant" => w.class \in Classes /\ w.named \in BOOLEAN
  /\ w.op = "revoke" => w.class \in Classes /\ w.saw \subseteq Consents
  /\ w.op = "deliver" => w.version \in 1 .. Versions /\ w.consent \in Consents
  /\ w.op = "open" => w \in [op : {"open"}, version : 1 .. Versions, first : BOOLEAN]
  /\ w.op = "tell" => w.version \in 1 .. Versions
  /\ w.op = "view" => w.link \in Links /\ w.log \in Nat

ShareTypes ==
  /\ consent \in [Consents -> Consent \cup {NoConsent}]
  /\ off \subseteq Classes /\ granted \subseteq Classes
  /\ version \in 0 .. Versions
  /\ delivery \in [1 .. Versions -> Delivery] /\ told \in [1 .. Versions -> Nat]
  /\ link \in [Links -> Link] /\ seen \in [Links -> Nat] /\ torn \in BOOLEAN
  /\ visit = [q \in Visits |-> visit[q]]
  /\ \A q \in Visits : VisitOK(visit[q])

\* A class that was turned off, and not granted anew or meanwhile, has no active
\* consent; a request that turns one off has all of it in hand, unless a grant came
\* between; and what is delivered, about to be, or being opened is under a clinic's
\* consent.
ClinicRow(g) == g \in Consents /\ consent[g] \in Consent /\ consent[g].class = "clinic"
ConsentInv ==
  /\ \A class \in off \ granted : Active(class) = {}
  /\ \A q \in Visits : visit[q].op = "revoke" =>
       /\ \A g \in visit[q].saw : consent[g] \in Consent
       /\ visit[q].class \in granted \/ Active(visit[q].class) \subseteq visit[q].saw
  /\ \A q \in Visits :
       /\ visit[q].op = "deliver" => ClinicRow(visit[q].consent)
       /\ visit[q].op = "open" => ClinicRow(delivery[visit[q].version].consent)
  /\ \A v \in 1 .. Versions : delivery[v] /= NoDelivery => ClinicRow(delivery[v].consent)

\* A packet's first opening has been told, or one request is on its way to tell it.
Telling(q, v) == visit[q].op = "tell" /\ visit[q].version = v
TellInv ==
  torn \/ \A v \in 1 .. Versions :
            \/ ~delivery[v].opened /\ told[v] = 0 /\ \A q \in Visits : ~Telling(q, v)
            \/ delivery[v].opened /\ told[v] = 1 /\ \A q \in Visits : ~Telling(q, v)
            \/ /\ delivery[v].opened /\ told[v] = 0
               /\ \E q \in Visits : Telling(q, v) /\ \A p \in Visits \ {q} : ~Telling(p, v)

\* A reader has read no more of the log than there were readings.
LinkInv ==
  /\ \A l \in Links : link[l].log <= seen[l] /\ (link[l].crossed \/ link[l].log = seen[l])
  /\ \A q \in Visits : visit[q].op = "view" => visit[q].log <= seen[visit[q].link]

ShareInv == ShareTypes /\ ConsentInv /\ TellInv /\ LinkInv

LEMMA LeaveOK ==
  ASSUME ShareTypes, NEW q \in Visits, Leave(q)
  PROVE  /\ visit' = [p \in Visits |-> visit'[p]]
         /\ \A p \in Visits : visit'[p] = IF p = q THEN NoVisit ELSE visit[p]
         /\ \A p \in Visits : VisitOK(visit'[p])
         /\ NoVisit.op = "none"
BY DEF ShareTypes, Leave, VisitOK, NoVisit

\* A request that reads and goes on changes no row.
LEMMA EnterOK ==
  ASSUME ShareInv, NEW q \in Visits, NEW w, Enter(q, w), VisitOK(w), w.op /= "tell",
         UNCHANGED <<consentVars, version, packetVars, linkVars>>,
         w.op = "revoke" => /\ \A g \in w.saw : consent[g] \in Consent
                            /\ w.class \in granted \/ Active(w.class) \subseteq w.saw,
         w.op = "deliver" => ClinicRow(w.consent),
         w.op = "open" => ClinicRow(delivery[w.version].consent),
         w.op = "view" => w.log <= seen[w.link]
  PROVE  ShareInv'
<1>1. /\ visit' = [visit EXCEPT ![q] = w] /\ visit[q] = NoVisit
      /\ UNCHANGED <<consent, off, granted, version, delivery, told, torn, link, seen>>
  BY DEF Enter, consentVars, packetVars, linkVars
<1>2. /\ \A p \in Visits : visit'[p] = IF p = q THEN w ELSE visit[p]
      /\ visit' = [p \in Visits |-> visit'[p]]
  BY <1>1 DEF ShareInv, ShareTypes
<1>3. ShareTypes'
  BY <1>1, <1>2 DEF ShareInv, ShareTypes
<1>4. ConsentInv'
  BY <1>1, <1>2 DEF ShareInv, ConsentInv, Active, ClinicRow
<1>5. TellInv'
  <2>1. \A p \in Visits, v \in 1 .. Versions : Telling(p, v)' <=> Telling(p, v)
    BY <1>1, <1>2 DEF Telling, NoVisit
  <2> QED
    BY <1>1, <2>1 DEF ShareInv, TellInv
<1>6. LinkInv'
  BY <1>1, <1>2 DEF ShareInv, LinkInv
<1> QED
  BY <1>3, <1>4, <1>5, <1>6 DEF ShareInv

\* What a consent's steps do not touch stands.
LEMMA ConsentStands ==
  ASSUME ConsentInv, NEW q \in Visits, UNCHANGED consentVars,
         \A p \in Visits \ {q} : visit'[p] = visit[p],
         visit'[q].op \notin {"revoke", "deliver", "open"} \/ visit'[q] = visit[q],
         \A v \in 1 .. Versions : ClinicRow(delivery'[v].consent) \/ delivery'[v] = delivery[v],
         \A p \in Visits : VisitOK(visit[p])
  PROVE  ConsentInv'
<1>1. UNCHANGED <<consent, off, granted>>
  BY DEF consentVars
<1>2. ASSUME NEW p \in Visits
      PROVE  /\ visit'[p].op = "deliver" => ClinicRow(visit[p].consent)'
             /\ visit'[p].op = "open" => ClinicRow(delivery[visit[p].version].consent)'
  BY <1>1 DEF ConsentInv, ClinicRow, VisitOK
<1> QED
  BY <1>1, <1>2 DEF ConsentInv, Active, ClinicRow

LEMMA TellStands ==
  ASSUME TellInv, NEW q \in Visits, torn => torn', told' = told,
         \A v \in 1 .. Versions : delivery'[v].opened = delivery[v].opened,
         \A p \in Visits \ {q} : visit'[p] = visit[p],
         visit'[q].op /= "tell" /\ visit[q].op /= "tell"
  PROVE  TellInv'
<1>1. \A p \in Visits, v \in 1 .. Versions : Telling(p, v)' <=> Telling(p, v)
  BY DEF Telling
<1> QED
  BY <1>1 DEF TellInv

LEMMA LinkStands ==
  ASSUME LinkInv, NEW q \in Visits, UNCHANGED linkVars,
         \A p \in Visits \ {q} : visit'[p] = visit[p], visit'[q].op /= "view"
  PROVE  LinkInv'
BY DEF LinkInv, linkVars

\* A grant makes a consent active, of a class that no longer counts as off; of one
\* being turned off meanwhile it says so.
LEMMA GrantShare ==
  ASSUME ShareInv, NEW q \in Visits, NEW g \in Consents, GrantCommit(q, g)
  PROVE  ShareInv'
<1>0. PICK w : w = visit[q]
  OBVIOUS
<1>1. PICK row : row = [class |-> w.class, named |-> w.named, live |-> TRUE]
  OBVIOUS
<1>2. /\ w.op = "grant" /\ consent[g] = NoConsent /\ consent' = [consent EXCEPT ![g] = row]
      /\ off' = off \ {w.class} /\ Leave(q)
      /\ granted' = granted \cup {visit[p].class : p \in {p \in Visits : visit[p].op = "revoke"}}
      /\ UNCHANGED <<version, delivery, told, torn, link, seen>>
  BY <1>0, <1>1 DEF GrantCommit, packetVars, linkVars
<1>3. w.class \in Classes /\ row \in Consent /\ row.class = w.class
  BY <1>0, <1>1, <1>2 DEF ShareInv, ShareTypes, VisitOK, Consent, Classes
<1>4. /\ visit' = [p \in Visits |-> visit'[p]]
      /\ \A p \in Visits : visit'[p] = IF p = q THEN NoVisit ELSE visit[p]
      /\ \A p \in Visits : VisitOK(visit'[p])
      /\ NoVisit.op = "none"
  BY <1>2, LeaveOK DEF ShareInv
<1>5. \A x \in Consents : consent'[x] = IF x = g THEN row ELSE consent[x]
  BY <1>2 DEF ShareInv, ShareTypes
<1>6. ShareTypes'
  <2>1. granted' \subseteq Classes
    BY <1>2 DEF ShareInv, ShareTypes, VisitOK
  <2> QED
    BY <1>2, <1>3, <1>4, <2>1 DEF ShareInv, ShareTypes
<1>7. ConsentInv'
  <2>1. consent[g] \notin Consent /\ \A x : ClinicRow(x) => ClinicRow(x)'
    BY <1>2, <1>5, SharingAssumption DEF ClinicRow
  <2>2. ASSUME NEW class \in off' \ granted' PROVE Active(class)' = {}
    <3>1. Active(class) = {} /\ class /= w.class
      BY <1>2, <2>2 DEF ShareInv, ConsentInv
    <3> QED
      BY <1>3, <1>5, <3>1 DEF Active
  <2>3. ASSUME NEW p \in Visits, visit'[p].op = "revoke"
        PROVE  visit'[p].class \in granted' /\ \A x \in visit'[p].saw : consent'[x] \in Consent
    <3>1. visit'[p] = visit[p] /\ visit[p].op = "revoke"
      BY <1>4, <2>3
    <3>2. \A x \in visit[p].saw : x \in Consents /\ consent[x] \in Consent
      BY <3>1 DEF ShareInv, ShareTypes, VisitOK, ConsentInv
    <3> QED
      BY <1>2, <1>3, <1>5, <3>1, <3>2
  <2>4. ASSUME NEW p \in Visits, visit'[p].op = "deliver" PROVE ClinicRow(visit[p].consent)'
    <3>1. PICK x : x = visit[p].consent
      OBVIOUS
    <3>2. visit'[p] = visit[p] /\ ClinicRow(x)
      BY <1>4, <2>4, <3>1 DEF ShareInv, ConsentInv
    <3> QED
      BY <2>1, <3>1, <3>2 DEF ClinicRow
  <2>5. ASSUME NEW v \in 1 .. Versions, delivery'[v] /= NoDelivery PROVE ClinicRow(delivery[v].consent)'
    <3>1. PICK x : x = delivery[v].consent
      OBVIOUS
    <3>2. delivery'[v] = delivery[v] /\ ClinicRow(x)
      BY <1>2, <2>5, <3>1 DEF ShareInv, ConsentInv
    <3> QED
      BY <2>1, <3>1, <3>2 DEF ClinicRow
  <2>6. ASSUME NEW p \in Visits, visit'[p].op = "open" PROVE ClinicRow(delivery[visit[p].version].consent)'
    <3>1. PICK x : x = delivery[visit[p].version].consent
      OBVIOUS
    <3>2. visit'[p] = visit[p] /\ delivery' = delivery /\ ClinicRow(x)
      BY <1>2, <1>4, <2>6, <3>1 DEF ShareInv, ConsentInv
    <3> QED
      BY <2>1, <3>1, <3>2 DEF ClinicRow
  <2> QED
    BY <2>2, <2>3, <2>4, <2>5, <2>6 DEF ConsentInv, ClinicRow
<1>8. TellInv' /\ LinkInv'
  BY <1>0, <1>2, <1>4, TellStands, LinkStands DEF ShareInv, linkVars
<1> QED
  BY <1>6, <1>7, <1>8 DEF ShareInv

\* A revocation leaves no active consent of its class, unless one was granted while
\* it was on its way.
LEMMA RevokeShare ==
  ASSUME ShareInv, NEW q \in Visits, RevokeCommit(q)
  PROVE  ShareInv'
<1>0. PICK w : w = visit[q]
  OBVIOUS
<1>2. /\ w.op = "revoke" /\ off' = off \cup {w.class} /\ Leave(q)
      /\ consent' = [g \in Consents |-> IF g \in w.saw THEN [consent[g] EXCEPT !.live = FALSE] ELSE consent[g]]
      /\ UNCHANGED <<granted, version, delivery, told, torn, link, seen>>
  BY <1>0 DEF RevokeCommit, packetVars, linkVars
<1>3. /\ w.class \in Classes /\ w.saw \subseteq Consents
      /\ \A g \in w.saw : consent[g] \in Consent
      /\ w.class \in granted \/ Active(w.class) \subseteq w.saw
  BY <1>0, <1>2 DEF ShareInv, ShareTypes, VisitOK, ConsentInv
<1>4. /\ visit' = [p \in Visits |-> visit'[p]]
      /\ \A p \in Visits : visit'[p] = IF p = q THEN NoVisit ELSE visit[p]
      /\ \A p \in Visits : VisitOK(visit'[p])
      /\ NoVisit.op = "none"
  BY <1>2, LeaveOK DEF ShareInv
<1>5. ASSUME NEW g \in Consents
      PROVE  \/ consent'[g] = consent[g] /\ g \notin w.saw
             \/ /\ consent[g] \in Consent /\ consent'[g] \in Consent /\ ~consent'[g].live
                /\ consent'[g].class = consent[g].class /\ g \in w.saw
  <2>1. CASE g \in w.saw
    <3>1. consent'[g] = [consent[g] EXCEPT !.live = FALSE] /\ consent[g] \in Consent
      BY <1>2, <1>3, <2>1
    <3> QED
      BY <2>1, <3>1 DEF Consent
  <2>2. CASE g \notin w.saw
    BY <1>2, <2>2
  <2> QED
    BY <2>1, <2>2
<1>6. ShareTypes'
  <2>1. consent' \in [Consents -> Consent \cup {NoConsent}]
    BY <1>2, <1>5 DEF ShareInv, ShareTypes
  <2> QED
    BY <1>2, <1>3, <1>4, <2>1 DEF ShareInv, ShareTypes
<1>7. ConsentInv'
  <2>1. /\ \A x : ClinicRow(x) => ClinicRow(x)'
        /\ \A x \in Consents : consent[x] \in Consent => consent'[x] \in Consent
        /\ \A class : Active(class)' \subseteq Active(class) \ w.saw
    <3>1. \A x : ClinicRow(x) => ClinicRow(x)'
      BY <1>5 DEF ClinicRow
    <3>2. \A x \in Consents : consent[x] \in Consent => consent'[x] \in Consent
      BY <1>5
    <3>3. ASSUME NEW class, NEW g \in Active(class)' PROVE g \in Active(class) /\ g \notin w.saw
      BY <1>5 DEF Active
    <3> QED
      BY <3>1, <3>2, <3>3
  <2>2. ASSUME NEW class \in off' \ granted' PROVE Active(class)' = {}
    <3>1. CASE class = w.class
      BY <1>2, <1>3, <2>1, <2>2, <3>1
    <3>2. CASE class /= w.class
      <4>1. Active(class) = {}
        BY <1>2, <2>2, <3>2 DEF ShareInv, ConsentInv
      <4> QED
        BY <2>1, <4>1
    <3> QED
      BY <3>1, <3>2
  <2>3. ASSUME NEW p \in Visits, visit'[p].op = "revoke"
        PROVE  /\ \A x \in visit'[p].saw : consent'[x] \in Consent
               /\ visit'[p].class \in granted' \/ Active(visit[p].class)' \subseteq visit'[p].saw
    <3>1. PICK u : u = visit[p]
      OBVIOUS
    <3>2. visit'[p] = u /\ u.op = "revoke"
      BY <1>4, <2>3, <3>1
    <3>3. /\ \A x \in u.saw : x \in Consents /\ consent[x] \in Consent
          /\ u.class \in granted \/ Active(u.class) \subseteq u.saw
      BY <3>1, <3>2 DEF ShareInv, ShareTypes, VisitOK, ConsentInv
    <3>4. Active(u.class)' \subseteq Active(u.class)
      BY <2>1
    <3>5. Active(visit[p].class)' = Active(u.class)'
      BY <3>2 DEF Active
    <3> QED
      BY <1>2, <2>1, <3>2, <3>3, <3>4, <3>5
  <2>4. ASSUME NEW p \in Visits, visit'[p].op = "deliver" PROVE ClinicRow(visit[p].consent)'
    <3>1. PICK x : x = visit[p].consent
      OBVIOUS
    <3>2. visit'[p] = visit[p] /\ ClinicRow(x)
      BY <1>4, <2>4, <3>1 DEF ShareInv, ConsentInv
    <3> QED
      BY <2>1, <3>1, <3>2 DEF ClinicRow
  <2>5. ASSUME NEW v \in 1 .. Versions, delivery'[v] /= NoDelivery PROVE ClinicRow(delivery[v].consent)'
    <3>1. PICK x : x = delivery[v].consent
      OBVIOUS
    <3>2. delivery'[v] = delivery[v] /\ ClinicRow(x)
      BY <1>2, <2>5, <3>1 DEF ShareInv, ConsentInv
    <3> QED
      BY <2>1, <3>1, <3>2 DEF ClinicRow
  <2>6. ASSUME NEW p \in Visits, visit'[p].op = "open" PROVE ClinicRow(delivery[visit[p].version].consent)'
    <3>1. PICK x : x = delivery[visit[p].version].consent
      OBVIOUS
    <3>2. visit'[p] = visit[p] /\ delivery' = delivery /\ ClinicRow(x)
      BY <1>2, <1>4, <2>6, <3>1 DEF ShareInv, ConsentInv
    <3> QED
      BY <2>1, <3>1, <3>2 DEF ClinicRow
  <2> QED
    BY <2>2, <2>3, <2>4, <2>5, <2>6 DEF ConsentInv, ClinicRow
<1>8. TellInv' /\ LinkInv'
  BY <1>0, <1>2, <1>4, TellStands, LinkStands DEF ShareInv, linkVars
<1> QED
  BY <1>6, <1>7, <1>8 DEF ShareInv

LEMMA DeliverShare ==
  ASSUME ShareInv, NEW q \in Visits, DeliverCommit(q)
  PROVE  ShareInv'
<1>0. PICK w : w = visit[q]
  OBVIOUS
<1>1. /\ w.op = "deliver" /\ delivery[w.version] = NoDelivery /\ Leave(q)
      /\ delivery' = [delivery EXCEPT ![w.version].consent = w.consent]
      /\ UNCHANGED <<consentVars, version, told, torn, linkVars>>
  BY <1>0 DEF DeliverCommit
<1>2. w.version \in 1 .. Versions /\ w.consent \in Consents /\ ClinicRow(w.consent)
  BY <1>0, <1>1 DEF ShareInv, ShareTypes, VisitOK, ConsentInv
<1>3. /\ visit' = [p \in Visits |-> visit'[p]]
      /\ \A p \in Visits : visit'[p] = IF p = q THEN NoVisit ELSE visit[p]
      /\ \A p \in Visits : VisitOK(visit'[p])
      /\ NoVisit.op = "none"
  BY <1>1, LeaveOK DEF ShareInv
<1>4. PICK row : row = [delivery[w.version] EXCEPT !.consent = w.consent]
  OBVIOUS
<1>5. /\ delivery' = [delivery EXCEPT ![w.version] = row] /\ delivery[w.version] \in Delivery
      /\ row \in Delivery /\ row.consent = w.consent /\ row.opened = delivery[w.version].opened
  BY <1>1, <1>2, <1>4 DEF ShareInv, ShareTypes, Delivery
<1>6. /\ delivery' \in [1 .. Versions -> Delivery]
      /\ \A v \in 1 .. Versions : delivery'[v] = IF v = w.version THEN row ELSE delivery[v]
  BY <1>2, <1>5 DEF ShareInv, ShareTypes
<1>7. ShareTypes'
  BY <1>1, <1>3, <1>6 DEF ShareInv, ShareTypes, consentVars, linkVars
<1>8. ConsentInv'
  <2>1. \A v \in 1 .. Versions : ClinicRow(delivery'[v].consent) \/ delivery'[v] = delivery[v]
    BY <1>2, <1>5, <1>6
  <2>2. \A p \in Visits \ {q} : visit'[p] = visit[p]
    BY <1>3
  <2>3. visit'[q].op \notin {"revoke", "deliver", "open"}
    BY <1>3
  <2> QED
    BY <1>1, <2>1, <2>2, <2>3, ConsentStands DEF ShareInv, ShareTypes
<1>9. TellInv' /\ LinkInv'
  BY <1>0, <1>1, <1>3, <1>5, <1>6, TellStands, LinkStands DEF ShareInv
<1> QED
  BY <1>7, <1>8, <1>9 DEF ShareInv

\* The first opening marks the packet and has the family told; a second one at once
\* is what torn records.
LEMMA MarkShare ==
  ASSUME ShareInv, NEW q \in Visits, MarkOpened(q)
  PROVE  ShareInv'
<1>0. PICK w : w = visit[q]
  OBVIOUS
<1>1. PICK v : v = w.version
  OBVIOUS
<1>2. /\ w.op = "open" /\ w \in [op : {"open"}, version : 1 .. Versions, first : BOOLEAN]
      /\ v \in 1 .. Versions /\ ClinicRow(delivery[v].consent)
      /\ UNCHANGED <<consentVars, version, told, linkVars>>
  BY <1>0, <1>1 DEF MarkOpened, ShareInv, ShareTypes, VisitOK, ConsentInv
<1>3. CASE ~w.first
  <2>1. Leave(q) /\ UNCHANGED <<delivery, torn>>
    BY <1>0, <1>3 DEF MarkOpened
  <2>2. /\ visit' = [p \in Visits |-> visit'[p]]
        /\ \A p \in Visits : visit'[p] = IF p = q THEN NoVisit ELSE visit[p]
        /\ \A p \in Visits : VisitOK(visit'[p])
        /\ NoVisit.op = "none"
    BY <2>1, LeaveOK DEF ShareInv
  <2>3. ShareTypes'
    BY <1>2, <2>1, <2>2 DEF ShareInv, ShareTypes, consentVars, linkVars
  <2>4. ConsentInv'
    <3>1. /\ \A x \in 1 .. Versions : ClinicRow(delivery'[x].consent) \/ delivery'[x] = delivery[x]
          /\ \A p \in Visits \ {q} : visit'[p] = visit[p]
          /\ visit'[q].op \notin {"revoke", "deliver", "open"}
      BY <2>1, <2>2
    <3> QED
      BY <1>2, <3>1, ConsentStands DEF ShareInv, ShareTypes
  <2>5. TellInv' /\ LinkInv'
    BY <1>0, <1>2, <2>1, <2>2, TellStands, LinkStands DEF ShareInv
  <2> QED
    BY <2>3, <2>4, <2>5 DEF ShareInv
<1>4. CASE w.first
  <2>1. /\ delivery' = [delivery EXCEPT ![v].opened = TRUE]
        /\ torn' = (torn \/ delivery[v].opened)
        /\ visit' = [visit EXCEPT ![q].op = "tell"]
    BY <1>0, <1>1, <1>4 DEF MarkOpened
  <2>2. PICK row : row = [delivery[v] EXCEPT !.opened = TRUE]
    OBVIOUS
  <2>3. /\ delivery' = [delivery EXCEPT ![v] = row] /\ delivery[v] \in Delivery
        /\ row \in Delivery /\ row.consent = delivery[v].consent /\ row.opened = TRUE
    BY <1>2, <2>1, <2>2 DEF ShareInv, ShareTypes, Delivery
  <2>4. /\ delivery' \in [1 .. Versions -> Delivery]
        /\ \A x \in 1 .. Versions : delivery'[x] = IF x = v THEN row ELSE delivery[x]
    BY <1>2, <2>3 DEF ShareInv, ShareTypes
  <2>5. PICK u : u = [w EXCEPT !.op = "tell"]
    OBVIOUS
  <2>6. u.op = "tell" /\ u.version = v
    BY <1>1, <1>2, <2>5
  <2>7. /\ visit' = [p \in Visits |-> visit'[p]]
        /\ \A p \in Visits : visit'[p] = IF p = q THEN u ELSE visit[p]
    <3>1. visit' = [visit EXCEPT ![q] = u]
      BY <1>0, <2>1, <2>5
    <3> QED
      BY <3>1 DEF ShareInv, ShareTypes
  <2>8. ShareTypes'
    <3>1. VisitOK(u)
      BY <1>2, <2>6 DEF VisitOK
    <3>2. torn' \in BOOLEAN
      BY <2>1
    <3> QED
      BY <1>2, <2>4, <2>7, <3>1, <3>2 DEF ShareInv, ShareTypes, consentVars, linkVars
  <2>9. ConsentInv'
    <3>1. /\ \A x \in 1 .. Versions : ClinicRow(delivery'[x].consent) \/ delivery'[x] = delivery[x]
          /\ \A p \in Visits \ {q} : visit'[p] = visit[p]
          /\ visit'[q].op \notin {"revoke", "deliver", "open"}
      BY <1>2, <2>3, <2>4, <2>6, <2>7
    <3> QED
      BY <1>2, <3>1, ConsentStands DEF ShareInv, ShareTypes
  <2>10. TellInv'
    <3>1. CASE torn \/ delivery[v].opened
      BY <2>1, <3>1 DEF TellInv
    <3>2. CASE ~torn /\ ~delivery[v].opened
      <4>1. /\ told[v] = 0 /\ \A p \in Visits : ~Telling(p, v)
        BY <1>2, <3>2 DEF ShareInv, TellInv
      <4>2. \A p \in Visits : Telling(p, v)' <=> p = q
        BY <2>6, <2>7, <4>1 DEF Telling
      <4>3. \A p \in Visits, x \in 1 .. Versions \ {v} : Telling(p, x)' <=> Telling(p, x)
        BY <1>0, <1>2, <2>6, <2>7 DEF Telling
      <4>4. delivery'[v].opened /\ told'[v] = 0 /\ told' = told
        BY <1>2, <2>3, <2>4, <4>1
      <4>5. \A x \in 1 .. Versions \ {v} : delivery'[x] = delivery[x]
        BY <2>4
      <4>6. ASSUME NEW x \in 1 .. Versions, x /= v
            PROVE  \/ ~delivery'[x].opened /\ told'[x] = 0 /\ \A p \in Visits : ~Telling(p, x)'
                   \/ delivery'[x].opened /\ told'[x] = 1 /\ \A p \in Visits : ~Telling(p, x)'
                   \/ /\ delivery'[x].opened /\ told'[x] = 0
                      /\ \E p \in Visits : Telling(p, x)' /\ \A o \in Visits \ {p} : ~Telling(o, x)'
        BY <3>2, <4>3, <4>4, <4>5, <4>6 DEF ShareInv, TellInv
      <4> QED
        BY <4>2, <4>4, <4>6 DEF TellInv
    <3> QED
      BY <3>1, <3>2
  <2>11. LinkInv'
    BY <1>2, <2>6, <2>7, LinkStands DEF ShareInv
  <2> QED
    BY <2>8, <2>9, <2>10, <2>11 DEF ShareInv
<1> QED
  BY <1>2, <1>3, <1>4

\* One request tells the family of the one opening.
LEMMA TellShare ==
  ASSUME ShareInv, NEW q \in Visits, TellFamily(q)
  PROVE  ShareInv'
<1>0. PICK w : w = visit[q]
  OBVIOUS
<1>1. PICK v : v = w.version
  OBVIOUS
<1>2. /\ w.op = "tell" /\ v \in 1 .. Versions /\ Leave(q)
      /\ told' = [told EXCEPT ![v] = @ + 1]
      /\ UNCHANGED <<consentVars, version, delivery, torn, linkVars>>
  BY <1>0, <1>1 DEF TellFamily, ShareInv, ShareTypes, VisitOK
<1>3. /\ visit' = [p \in Visits |-> visit'[p]]
      /\ \A p \in Visits : visit'[p] = IF p = q THEN NoVisit ELSE visit[p]
      /\ \A p \in Visits : VisitOK(visit'[p])
      /\ NoVisit.op = "none"
  BY <1>2, LeaveOK DEF ShareInv
<1>4. /\ told' \in [1 .. Versions -> Nat] /\ told'[v] = told[v] + 1
      /\ \A x \in 1 .. Versions \ {v} : told'[x] = told[x]
  BY <1>2 DEF ShareInv, ShareTypes
<1>5. ShareTypes'
  BY <1>2, <1>3, <1>4 DEF ShareInv, ShareTypes, consentVars, linkVars
<1>6. ConsentInv'
  <2>1. /\ \A x \in 1 .. Versions : ClinicRow(delivery'[x].consent) \/ delivery'[x] = delivery[x]
        /\ \A p \in Visits \ {q} : visit'[p] = visit[p]
        /\ visit'[q].op \notin {"revoke", "deliver", "open"}
    BY <1>2, <1>3
  <2> QED
    BY <1>2, <2>1, ConsentStands DEF ShareInv, ShareTypes
<1>7. TellInv'
  <2>1. CASE torn
    BY <1>2, <2>1 DEF TellInv
  <2>2. CASE ~torn
    <3>1. Telling(q, v)
      BY <1>0, <1>1, <1>2 DEF Telling
    <3>2. /\ delivery[v].opened /\ told[v] = 0
          /\ \A p \in Visits \ {q} : ~Telling(p, v)
      BY <1>2, <2>2, <3>1 DEF ShareInv, TellInv
    <3>3. \A p \in Visits : ~Telling(p, v)'
      BY <1>3, <3>2 DEF Telling
    <3>4. \A p \in Visits, x \in 1 .. Versions \ {v} : Telling(p, x)' <=> Telling(p, x)
      BY <1>0, <1>1, <1>3 DEF Telling
    <3>5. told'[v] = 1
      BY <1>4, <3>2
    <3>6. ASSUME NEW x \in 1 .. Versions, x /= v
          PROVE  \/ ~delivery'[x].opened /\ told'[x] = 0 /\ \A p \in Visits : ~Telling(p, x)'
                 \/ delivery'[x].opened /\ told'[x] = 1 /\ \A p \in Visits : ~Telling(p, x)'
                 \/ /\ delivery'[x].opened /\ told'[x] = 0
                    /\ \E p \in Visits : Telling(p, x)' /\ \A o \in Visits \ {p} : ~Telling(o, x)'
      BY <1>2, <1>4, <2>2, <3>4, <3>6 DEF ShareInv, TellInv
    <3> QED
      BY <1>2, <3>2, <3>3, <3>5, <3>6 DEF TellInv
  <2> QED
    BY <2>1, <2>2
<1>8. LinkInv'
  BY <1>2, <1>3, LinkStands DEF ShareInv
<1> QED
  BY <1>5, <1>6, <1>7, <1>8 DEF ShareInv

\* A reading counts itself, and writes the count it read and one more.
LEMMA ViewShare ==
  ASSUME ShareInv, NEW q \in Visits, ViewCommit(q)
  PROVE  ShareInv'
<1>0. PICK w : w = visit[q]
  OBVIOUS
<1>1. PICK l : l = w.link
  OBVIOUS
<1>2. PICK row : row = [link[l] EXCEPT !.log = w.log + 1, !.crossed = @ \/ link[l].log /= w.log]
  OBVIOUS
<1>3. /\ w.op = "view" /\ Leave(q)
      /\ seen' = [seen EXCEPT ![l] = @ + 1]
      /\ UNCHANGED <<consentVars, version, packetVars>>
  BY <1>0, <1>1 DEF ViewCommit
<1>4. l \in Links /\ w.log \in Nat /\ w.log <= seen[l] /\ link[l] \in Link /\ seen[l] \in Nat
  BY <1>0, <1>1, <1>3 DEF ShareInv, ShareTypes, VisitOK, LinkInv
<1>5. link' = [link EXCEPT ![l] = row]
  BY <1>0, <1>1, <1>2, <1>4 DEF ViewCommit, ShareInv, ShareTypes, Link
<1>6. row \in Link /\ row.log = w.log + 1 /\ (row.crossed \/ (link[l].log = w.log /\ ~link[l].crossed))
  <2>1. PICK b : b = (link[l].crossed \/ link[l].log /= w.log)
    OBVIOUS
  <2>2. b \in BOOLEAN
    BY <2>1, <1>4 DEF Link
  <2>3. \A n \in Nat, c \in BOOLEAN :
           /\ [link[l] EXCEPT !.log = n, !.crossed = c] \in Link
           /\ [link[l] EXCEPT !.log = n, !.crossed = c].log = n
           /\ [link[l] EXCEPT !.log = n, !.crossed = c].crossed = c
    BY <1>4 DEF Link
  <2>4. row \in Link /\ row.log = w.log + 1 /\ row.crossed = b
    <3>1. row = [link[l] EXCEPT !.log = w.log + 1, !.crossed = b]
      BY <1>2, <1>4, <2>1 DEF Link
    <3>2. w.log + 1 \in Nat
      BY <1>4
    <3> HIDE DEF Link
    <3> QED
      BY <2>2, <2>3, <3>1, <3>2
  <2>5. CASE b = TRUE
    <3>1. row.crossed
      BY <2>4, <2>5, Zenon
    <3> QED
      BY <2>4, <3>1
  <2>6. CASE b = FALSE
    <3>1. ~(link[l].crossed \/ link[l].log /= w.log)
      BY <2>1, <2>6, Zenon
    <3> QED
      BY <2>4, <3>1
  <2> QED
    BY <2>2, <2>5, <2>6
<1>7. /\ visit' = [p \in Visits |-> visit'[p]]
      /\ \A p \in Visits : visit'[p] = IF p = q THEN NoVisit ELSE visit[p]
      /\ \A p \in Visits : VisitOK(visit'[p])
      /\ NoVisit.op = "none"
  BY <1>3, LeaveOK DEF ShareInv
<1>8. /\ link' \in [Links -> Link] /\ seen' \in [Links -> Nat]
      /\ link'[l] = row /\ seen'[l] = seen[l] + 1
      /\ \A x \in Links \ {l} : link'[x] = link[x] /\ seen'[x] = seen[x]
  BY <1>3, <1>4, <1>5, <1>6 DEF ShareInv, ShareTypes
<1>9. ShareTypes'
  BY <1>3, <1>7, <1>8 DEF ShareInv, ShareTypes, consentVars, packetVars
<1>10. ConsentInv'
  <2>1. /\ \A x \in 1 .. Versions : ClinicRow(delivery'[x].consent) \/ delivery'[x] = delivery[x]
        /\ \A p \in Visits \ {q} : visit'[p] = visit[p]
        /\ visit'[q].op \notin {"revoke", "deliver", "open"}
    BY <1>3, <1>7 DEF packetVars
  <2> QED
    BY <1>3, <2>1, ConsentStands DEF ShareInv, ShareTypes
<1>11. TellInv'
  BY <1>0, <1>3, <1>7, TellStands DEF ShareInv, packetVars
<1>12. LinkInv'
  <2>1. link'[l].log <= seen'[l] /\ (link'[l].crossed \/ link'[l].log = seen'[l])
    BY <1>4, <1>6, <1>8 DEF ShareInv, LinkInv
  <2>2. ASSUME NEW x \in Links
        PROVE  link'[x].log <= seen'[x] /\ (link'[x].crossed \/ link'[x].log = seen'[x])
    BY <1>8, <2>1 DEF ShareInv, LinkInv
  <2>3. ASSUME NEW p \in Visits, visit'[p].op = "view" PROVE visit'[p].log <= seen'[visit'[p].link]
    <3>1. PICK u : u = visit[p]
      OBVIOUS
    <3>2. visit'[p] = u /\ u.op = "view" /\ u.link \in Links /\ u.log \in Nat /\ u.log <= seen[u.link]
      BY <1>7, <2>3, <3>1 DEF ShareInv, ShareTypes, VisitOK, LinkInv
    <3>3. seen'[u.link] >= seen[u.link] /\ seen[u.link] \in Nat /\ seen'[u.link] \in Nat
      <4>1. \A x \in Links : seen'[x] = seen[x] + 1 \/ seen'[x] = seen[x]
        BY <1>8
      <4>2. \A x \in Links : seen[x] \in Nat
        BY DEF ShareInv, ShareTypes
      <4> QED
        BY <3>2, <4>1, <4>2
    <3> QED
      BY <3>2, <3>3
  <2> QED
    BY <2>2, <2>3 DEF LinkInv
<1> QED
  BY <1>9, <1>10, <1>11, <1>12 DEF ShareInv

\* A request lost on its way to tell of an opening leaves the family untold, and torn
\* says so; any other leaves nothing.
LEMMA LostShare ==
  ASSUME ShareInv, NEW q \in Visits, Lost(q)
  PROVE  ShareInv'
<1>1. /\ Leave(q) /\ torn' = (torn \/ visit[q].op = "tell")
      /\ UNCHANGED <<consentVars, version, delivery, told, linkVars>>
  BY DEF Lost
<1>2. /\ visit' = [p \in Visits |-> visit'[p]]
      /\ \A p \in Visits : visit'[p] = IF p = q THEN NoVisit ELSE visit[p]
      /\ \A p \in Visits : VisitOK(visit'[p])
      /\ NoVisit.op = "none"
  BY <1>1, LeaveOK DEF ShareInv
<1>3. ShareTypes'
  <2>1. torn' \in BOOLEAN
    BY <1>1
  <2> QED
    BY <1>1, <1>2, <2>1 DEF ShareInv, ShareTypes, consentVars, linkVars
<1>4. ConsentInv'
  <2>1. /\ \A x \in 1 .. Versions : ClinicRow(delivery'[x].consent) \/ delivery'[x] = delivery[x]
        /\ \A p \in Visits \ {q} : visit'[p] = visit[p]
        /\ visit'[q].op \notin {"revoke", "deliver", "open"}
    BY <1>1, <1>2
  <2> QED
    BY <1>1, <2>1, ConsentStands DEF ShareInv, ShareTypes
<1>5. TellInv'
  <2>1. CASE visit[q].op = "tell"
    BY <1>1, <2>1 DEF TellInv
  <2>2. CASE visit[q].op /= "tell"
    BY <1>1, <1>2, <2>2, TellStands DEF ShareInv
  <2> QED
    BY <2>1, <2>2
<1>6. LinkInv'
  BY <1>1, <1>2, LinkStands DEF ShareInv
<1> QED
  BY <1>3, <1>4, <1>5, <1>6 DEF ShareInv

\* A link is made with nothing in its log and turned off with its log as it is.
LEMMA LinksShare ==
  ASSUME ShareInv, (\E l \in Links : MakeLink(l) \/ Expire(l)) \/ RevokeLinks
  PROVE  ShareInv'
<1>1. UNCHANGED <<consentVars, version, packetVars, seen, visit>>
  BY DEF MakeLink, Expire, RevokeLinks
<1>2. /\ link' \in [Links -> Link]
      /\ \A x \in Links : link'[x].log = link[x].log /\ link'[x].crossed = link[x].crossed
  <2>1. ASSUME NEW l \in Links, MakeLink(l) PROVE <1>2!:
    <3>1. PICK row : row = [NoLink EXCEPT !.version = version, !.live = TRUE]
      OBVIOUS
    <3>2. NoLink \in Link /\ version \in Nat
      BY DEF NoLink, Link, ShareInv, ShareTypes
    <3>3. row \in Link /\ row.log = NoLink.log /\ row.crossed = NoLink.crossed
      <4>1. \A r \in Link, n \in Nat, c \in BOOLEAN :
               /\ [r EXCEPT !.version = n, !.live = c] \in Link
               /\ [r EXCEPT !.version = n, !.live = c].log = r.log
               /\ [r EXCEPT !.version = n, !.live = c].crossed = r.crossed
        BY DEF Link
      <4> HIDE DEF Link, NoLink
      <4> QED
        BY <3>1, <3>2, <4>1
    <3>4. link' = [link EXCEPT ![l] = row] /\ link[l] = NoLink
      BY <2>1, <3>1 DEF MakeLink
    <3> QED
      BY <3>3, <3>4 DEF ShareInv, ShareTypes
  <2>2. ASSUME NEW l \in Links, Expire(l) PROVE <1>2!:
    <3>1. PICK row : row = [link[l] EXCEPT !.live = FALSE]
      OBVIOUS
    <3>2. row \in Link /\ row.log = link[l].log /\ row.crossed = link[l].crossed
      BY <3>1 DEF Link, ShareInv, ShareTypes
    <3>3. link' = [link EXCEPT ![l] = row]
      BY <2>2, <3>1 DEF Expire
    <3> QED
      BY <3>2, <3>3 DEF ShareInv, ShareTypes
  <2>3. CASE RevokeLinks
    BY <2>3 DEF RevokeLinks, ShareInv, ShareTypes, Link
  <2> QED
    BY <2>1, <2>2, <2>3
<1>3. ShareTypes'
  BY <1>1, <1>2 DEF ShareInv, ShareTypes, consentVars, packetVars
<1>4. ConsentInv'
  BY <1>1 DEF ShareInv, ConsentInv, consentVars, packetVars, Active, ClinicRow
<1>5. TellInv'
  BY <1>1 DEF ShareInv, TellInv, packetVars, Telling
<1>6. LinkInv'
  BY <1>1, <1>2 DEF ShareInv, LinkInv
<1> QED
  BY <1>3, <1>4, <1>5, <1>6 DEF ShareInv

\* The clinic's standing and the report's version decide who may read, and no row.
LEMMA OutsideShare ==
  ASSUME ShareInv, ClinicChanges \/ Republish \/ DeleteCase
  PROVE  ShareInv'
<1>1. UNCHANGED <<consentVars, packetVars, linkVars, visit>> /\ version' \in 0 .. Versions
  BY SharingAssumption DEF ClinicChanges, Republish, DeleteCase, ShareInv, ShareTypes
<1>2. ShareTypes'
  BY <1>1 DEF ShareInv, ShareTypes, consentVars, packetVars, linkVars
<1>3. ConsentInv'
  BY <1>1 DEF ShareInv, ConsentInv, consentVars, packetVars, Active, ClinicRow
<1>4. TellInv'
  BY <1>1 DEF ShareInv, TellInv, packetVars, Telling
<1>5. LinkInv'
  BY <1>1 DEF ShareInv, LinkInv, linkVars
<1> QED
  BY <1>2, <1>3, <1>4, <1>5 DEF ShareInv

\* What a request reads is what there is: all the active consents of a class, an
\* active one of the clinics', a packet delivered under one, a link's own log.
LEMMA ReadsShare ==
  ASSUME ShareInv, NEW q \in Visits,
         \/ \E class \in Classes, named \in BOOLEAN : GrantRead(q, class, named)
         \/ \E class \in Classes : RevokeRead(q, class)
         \/ \E g \in Consents : DeliverRead(q, g)
         \/ \E v \in 1 .. Versions : OpenRead(q, v)
         \/ \E l \in Links : ViewRead(q, l)
  PROVE  ShareInv'
<1>1. ASSUME NEW class \in Classes, NEW named \in BOOLEAN, GrantRead(q, class, named) PROVE ShareInv'
  <2>1. PICK w : w = [op |-> "grant", class |-> class, named |-> named]
    OBVIOUS
  <2>2. w.op = "grant" /\ VisitOK(w)
    BY <2>1 DEF VisitOK
  <2>3. Enter(q, w) /\ UNCHANGED <<consentVars, version, packetVars, linkVars>>
    BY <1>1, <2>1 DEF GrantRead
  <2> QED
    BY <2>2, <2>3, EnterOK
<1>2. ASSUME NEW class \in Classes, RevokeRead(q, class) PROVE ShareInv'
  <2>1. PICK w : w = [op |-> "revoke", class |-> class, saw |-> Active(class)]
    OBVIOUS
  <2>2. w.op = "revoke" /\ VisitOK(w) /\ w.saw = Active(w.class)
    BY <2>1 DEF VisitOK, Active
  <2>3. Enter(q, w) /\ UNCHANGED <<consentVars, version, packetVars, linkVars>>
    BY <1>2, <2>1 DEF RevokeRead, ToRevoke
  <2>4. \A g \in w.saw : consent[g] \in Consent
    BY <2>2 DEF Active, ShareInv, ShareTypes
  <2> QED
    BY <2>2, <2>3, <2>4, EnterOK
<1>3. ASSUME NEW g \in Consents, DeliverRead(q, g) PROVE ShareInv'
  <2>1. PICK w : w = [op |-> "deliver", version |-> version, consent |-> g]
    OBVIOUS
  <2>2. w.op = "deliver" /\ VisitOK(w) /\ w.consent = g
    BY <1>3, <2>1 DEF VisitOK, DeliverRead, ShareInv, ShareTypes
  <2>3. Enter(q, w) /\ UNCHANGED <<consentVars, version, packetVars, linkVars>>
    BY <1>3, <2>1 DEF DeliverRead
  <2>4. ClinicRow(g)
    BY <1>3 DEF DeliverRead, Active, ClinicRow, ShareInv, ShareTypes
  <2> QED
    BY <2>2, <2>3, <2>4, EnterOK
<1>4. ASSUME NEW v \in 1 .. Versions, OpenRead(q, v) PROVE ShareInv'
  <2>1. PICK w : w = [op |-> "open", version |-> v, first |-> ~delivery[v].opened]
    OBVIOUS
  <2>2. w.op = "open" /\ VisitOK(w) /\ w.version = v
    BY <2>1 DEF VisitOK
  <2>3. Enter(q, w) /\ UNCHANGED <<consentVars, version, packetVars, linkVars>>
    BY <1>4, <2>1 DEF OpenRead
  <2>4. ClinicRow(delivery[w.version].consent)
    BY <1>4, <2>2 DEF OpenRead, Readable, ShareInv, ConsentInv
  <2> QED
    BY <2>2, <2>3, <2>4, EnterOK
<1>5. ASSUME NEW l \in Links, ViewRead(q, l) PROVE ShareInv'
  <2>1. PICK w : w = [op |-> "view", link |-> l, log |-> link[l].log]
    OBVIOUS
  <2>2. w.op = "view" /\ VisitOK(w) /\ w.link = l /\ w.log = link[l].log
    BY <2>1 DEF VisitOK, ShareInv, ShareTypes, Link
  <2>3. Enter(q, w) /\ UNCHANGED <<consentVars, version, packetVars, linkVars>>
    BY <1>5, <2>1 DEF ViewRead
  <2>4. w.log <= seen[w.link]
    BY <2>2 DEF ShareInv, LinkInv
  <2> QED
    BY <2>2, <2>3, <2>4, EnterOK
<1> QED
  BY <1>1, <1>2, <1>3, <1>4, <1>5

\* What holds of consents, packets and links, and of the requests about them, holds
\* in every state.
THEOREM SharingStands == ShareSpec => []ShareInv
<1>1. ShareInit => ShareInv
  <2> SUFFICES ASSUME ShareInit PROVE ShareInv
    OBVIOUS
  <2>1. /\ consent = [g \in Consents |-> NoConsent] /\ off = {} /\ granted = {} /\ version = 1
        /\ delivery = [v \in 1 .. Versions |-> NoDelivery] /\ told = [v \in 1 .. Versions |-> 0]
        /\ torn = FALSE /\ link = [l \in Links |-> NoLink] /\ seen = [l \in Links |-> 0]
        /\ visit = [q \in Visits |-> NoVisit]
    BY DEF ShareInit
  <2>2. NoVisit.op = "none" /\ VisitOK(NoVisit)
    BY DEF NoVisit, VisitOK
  <2>3. NoDelivery \in Delivery /\ NoDelivery.opened = FALSE /\ NoLink \in Link /\ NoLink.log = 0
    BY DEF NoDelivery, Delivery, NoLink, Link
  <2>4. ShareTypes
    <3>1. version \in 0 .. Versions
      BY <2>1, SharingAssumption
    <3>2. consent \in [Consents -> Consent \cup {NoConsent}]
      BY <2>1
    <3>3. /\ delivery \in [1 .. Versions -> Delivery] /\ told \in [1 .. Versions -> Nat]
          /\ link \in [Links -> Link] /\ seen \in [Links -> Nat]
      BY <2>1, <2>3
    <3>4. visit = [q \in Visits |-> visit[q]] /\ \A q \in Visits : VisitOK(visit[q])
      BY <2>1, <2>2
    <3> QED
      BY <2>1, <3>1, <3>2, <3>3, <3>4 DEF ShareTypes
  <2>5. ConsentInv
    BY <2>1, <2>2 DEF ConsentInv
  <2>6. TellInv
    BY <2>1, <2>2, <2>3 DEF TellInv, Telling
  <2>7. LinkInv
    BY <2>1, <2>2, <2>3 DEF LinkInv
  <2> QED
    BY <2>4, <2>5, <2>6, <2>7 DEF ShareInv
<1>2. ShareInv /\ [ShareNext]_shareVars => ShareInv'
  <2> SUFFICES ASSUME ShareInv, [ShareNext]_shareVars PROVE ShareInv'
    OBVIOUS
  <2>1. CASE UNCHANGED shareVars
    BY <2>1 DEF shareVars, ShareInv, ShareTypes, ConsentInv, TellInv, LinkInv, Active, ClinicRow, Telling
  <2>2. ASSUME NEW q \in Visits, NEW g \in Consents, GrantCommit(q, g) PROVE ShareInv'
    BY <2>2, GrantShare
  <2>3. ASSUME NEW q \in Visits,
               RevokeCommit(q) \/ DeliverCommit(q) \/ MarkOpened(q) \/ TellFamily(q) \/ ViewCommit(q) \/ Lost(q)
        PROVE  ShareInv'
    BY <2>3, RevokeShare, DeliverShare, MarkShare, TellShare, ViewShare, LostShare
  <2>4. ASSUME NEW q \in Visits,
               \/ \E class \in Classes, named \in BOOLEAN : GrantRead(q, class, named)
               \/ \E class \in Classes : RevokeRead(q, class)
               \/ \E g \in Consents : DeliverRead(q, g)
               \/ \E v \in 1 .. Versions : OpenRead(q, v)
               \/ \E l \in Links : ViewRead(q, l)
        PROVE  ShareInv'
    BY <2>4, ReadsShare
  <2>5. CASE (\E l \in Links : MakeLink(l) \/ Expire(l)) \/ RevokeLinks
    BY <2>5, LinksShare
  <2>6. CASE ClinicChanges \/ Republish \/ DeleteCase
    BY <2>6, OutsideShare
  <2> QED
    BY <2>1, <2>2, <2>3, <2>4, <2>5, <2>6 DEF ShareNext, Classes
<1> QED
  BY <1>1, <1>2, PTL DEF ShareSpec

\* "Turn it off" means off, and what the family is told of its readers is true
\* (next-steps.ts, packets.ts): a clinic's consent turned off and not granted anew
\* or meanwhile leaves no delivered packet readable, a packet opened is told once but
\* for openings at once or cut short, a link's count falls short only of readings
\* that crossed. For any number of requests, consents, links and versions.
THEOREM WhatIsSharedIsShown == ShareSpec => []SharedAsShown
<1>1. ShareInv => SharedAsShown
  <2> SUFFICES ASSUME ShareInv PROVE SharedAsShown
    OBVIOUS
  <2>1. OffMeansOff
    <3> SUFFICES ASSUME "clinic" \in off \ granted, NEW v \in 1 .. Versions, Readable(v) PROVE FALSE
      BY DEF OffMeansOff
    <3>1. PICK g : g = delivery[v].consent
      OBVIOUS
    <3>2. ClinicRow(g) /\ consent[g].live /\ Active("clinic") = {}
      BY <3>1 DEF ShareInv, ConsentInv, Readable
    <3>3. consent[g] /= NoConsent
      BY <3>2, SharingAssumption DEF ClinicRow
    <3> QED
      BY <3>2, <3>3 DEF Active, ClinicRow
  <2>2. ASSUME NEW v \in 1 .. Versions
        PROVE  torn \/ (\E q \in Visits : visit[q].op = "tell")
                    \/ told[v] = IF delivery[v].opened THEN 1 ELSE 0
    BY DEF ShareInv, TellInv, Telling
  <2>3. OpensAreCounted
    BY <2>2 DEF OpensAreCounted, ShareInv, LinkInv
  <2> QED
    BY <2>1, <2>3 DEF SharedAsShown
<1> QED
  BY <1>1, SharingStands, PTL
-----------------------------------------------------------------------------
(***************************************************************************)
(* Accounts: an address is written from the row a request read, and while   *)
(* none crossed another that row is the row there is; a session's password  *)
(* is told from the account's by two clocks, of which one is coarser.       *)
(***************************************************************************)
AnyAddress == Addresses \cup {NoAddress}
UserRow == [email : AnyAddress, pending : AnyAddress, backup : AnyAddress, verified : BOOLEAN,
            proved : AnyAddress, reset : BOOLEAN, password : Nat, changedAt : Nat]
SessionRow == [live : BOOLEAN, baseline : Nat, owes : BOOLEAN, checked : Nat, password : Nat,
               straddled : BOOLEAN]
AccountOps == {"email", "confirm", "cancel", "backup", "verify", "remove", "forgot", "password", "reset"}
CallRow == [op : AccountOps, address : AnyAddress, device : Devices \cup {NoDevice}, saw : UserRow]

AccountTypes ==
  /\ time \in Nat /\ outages \in Nat /\ crossed \in BOOLEAN
  /\ user \in UserRow /\ user.changedAt <= time
  /\ session \in [Devices -> SessionRow]
  /\ call \in [Calls -> CallRow \cup {NoCall}]

\* No session was issued, and no password checked, that is still to come; a route
\* takes no backup that is the address it read.
AccountBounds ==
  /\ \A d \in Devices : /\ session[d].baseline <= Second(time)
                        /\ session[d].password <= user.password
                        /\ session[d].checked <= user.password
  /\ \A c \in Calls : call[c] /= NoCall /\ call[c].op = "backup" => call[c].address /= call[c].saw.email

\* A session that has acknowledged its changes holds another password exactly if the
\* change is of a later second; one that has not made the change itself.
SessionTells(s, u) ==
  s.live /\ ~s.straddled =>
    IF s.owes THEN s.password = u.password
    ELSE s.password /= u.password <=> s.baseline < Second(u.changedAt)
SessionsInv == outages = 0 => \A d \in Devices : SessionTells(session[d], user)

AccountInv == AccountTypes /\ AccountBounds /\ BackupIsAnother /\ SessionsInv

\* A second has two halves.
LEMMA SecondsOf ==
  ASSUME NEW t \in Nat
  PROVE  Second(t) \in Nat /\ 2 * Second(t) <= t /\ t < 2 * Second(t) + 2
BY DEF Second

LEMMA SecondsPass ==
  ASSUME NEW s \in Nat, NEW t \in Nat, s <= t
  PROVE  Second(s) <= Second(t)
BY SecondsOf

\* What a step that leaves the row and the requests alone does to the sessions is all
\* there is to show of it.
LEMMA AccountStands ==
  ASSUME AccountInv, UNCHANGED <<user, crossed>>, time' \in Nat, time <= time', outages' \in Nat,
         outages' = 0 => outages = 0,
         call' \in [Calls -> CallRow \cup {NoCall}],
         \A c \in Calls : call'[c] /= NoCall /\ call'[c].op = "backup" => call'[c].address /= call'[c].saw.email,
         session' \in [Devices -> SessionRow],
         \A d \in Devices :
            \/ session'[d] = session[d]
            \/ /\ session'[d].baseline <= Second(time')
               /\ session'[d].password <= user.password
               /\ session'[d].checked <= user.password
               /\ (outages' = 0 => SessionTells(session'[d], user))
  PROVE  AccountInv'
<1>1. AccountTypes'
  BY DEF AccountInv, AccountTypes, UserRow
<1>2. AccountBounds'
  <2>1. Second(time) \in Nat /\ Second(time') \in Nat /\ Second(time) <= Second(time')
    BY SecondsOf, SecondsPass DEF AccountInv, AccountTypes
  <2>2. ASSUME NEW d \in Devices
        PROVE  /\ session'[d].baseline <= Second(time')
               /\ session'[d].password <= user.password
               /\ session'[d].checked <= user.password
    <3>1. CASE session'[d] = session[d]
      <4>1. session[d].baseline <= Second(time) /\ session[d].baseline \in Nat
        BY DEF AccountInv, AccountTypes, AccountBounds, SessionRow
      <4> QED
        BY <2>1, <3>1, <4>1 DEF AccountInv, AccountBounds
    <3>2. CASE session'[d] /= session[d]
      BY <3>2, Zenon
    <3> QED
      BY <3>1, <3>2
  <2>3. Second(time)' = Second(time') /\ user' = user
    BY DEF Second
  <2> QED
    BY <2>2, <2>3 DEF AccountBounds
<1>3. BackupIsAnother'
  BY DEF AccountInv, BackupIsAnother
<1>4. SessionsInv'
  <2>1. ASSUME NEW d \in Devices, outages' = 0 PROVE SessionTells(session'[d], user)
    <3>1. SessionTells(session[d], user)
      BY <2>1 DEF AccountInv, SessionsInv
    <3>2. CASE session'[d] = session[d]
      BY <3>1, <3>2, Zenon
    <3>3. CASE session'[d] /= session[d]
      BY <2>1, <3>3, Zenon
    <3> QED
      BY <3>2, <3>3
  <2> QED
    BY <2>1 DEF SessionsInv
<1> QED
  BY <1>1, <1>2, <1>3, <1>4 DEF AccountInv

\* Time passes over an acknowledgement without harm: the device made the change.
LEMMA TimeAccount ==
  ASSUME AccountInv, Tick \/ WrongPassword \/ WindowPasses
  PROVE  AccountInv'
<1>1. /\ UNCHANGED <<user, session, call, outages, crossed>> /\ time' \in Nat /\ time <= time'
  BY DEF Tick, WrongPassword, WindowPasses, AccountInv, AccountTypes
<1> QED
  BY <1>1, AccountStands DEF AccountInv, AccountTypes, AccountBounds

\* A request reads the row there is.
LEMMA ReadAccount ==
  ASSUME AccountInv, NEW c \in Calls, NEW op \in AccountOps, NEW address \in AnyAddress,
         NEW device \in Devices \cup {NoDevice}, CallRead(c, op, address, device)
  PROVE  AccountInv'
<1>1. PICK r : r = [op |-> op, address |-> address, device |-> device, saw |-> user]
  OBVIOUS
<1>2. r \in CallRow /\ r.op = op /\ r.address = address /\ r.saw = user
  BY <1>1 DEF CallRow, AccountInv, AccountTypes
<1>3. call' = [call EXCEPT ![c] = r] /\ Accepted(op, address) /\ UNCHANGED <<time, user, session, outages, crossed>>
  BY <1>1 DEF CallRead
<1>4. op = "backup" => address /= user.email
  BY <1>3 DEF Accepted
<1>5. /\ call' \in [Calls -> CallRow \cup {NoCall}]
      /\ \A x \in Calls : call'[x] = IF x = c THEN r ELSE call[x]
  BY <1>2, <1>3 DEF AccountInv, AccountTypes
<1>6. \A x \in Calls : call'[x] /= NoCall /\ call'[x].op = "backup" => call'[x].address /= call'[x].saw.email
  BY <1>2, <1>4, <1>5 DEF AccountInv, AccountBounds
<1>7. time' \in Nat /\ time <= time' /\ outages' \in Nat /\ session' \in [Devices -> SessionRow]
  BY <1>3 DEF AccountInv, AccountTypes
<1> QED
  BY <1>3, <1>5, <1>6, <1>7, AccountStands

BackupSafe(u) == u.backup /= NoAddress => u.backup /= u.email /\ (u.verified => u.proved = u.backup)

\* What a route writes is a row, a new password with the time of it or none, and
\* keeps the two addresses apart if the addresses it read are still there.
LEMMA UpdateKeeps ==
  ASSUME AccountInv, NEW r \in CallRow, r.op = "backup" => r.address /= r.saw.email,
         NEW u, u = Updated(r.op, r.address, r.saw)
  PROVE  /\ u \in UserRow
         /\ r.op \in {"password", "reset"} => u.password = user.password + 1 /\ u.changedAt = time
         /\ r.op \notin {"password", "reset"} => u.password = user.password /\ u.changedAt = user.changedAt
         /\ AddressesOf(r.saw) = AddressesOf(user) /\ BackupSafe(user) => BackupSafe(u)
<1>1. /\ user \in UserRow /\ time \in Nat /\ r.op \in AccountOps /\ r.address \in AnyAddress /\ r.saw \in UserRow
      /\ NoAddress \in AnyAddress
  BY DEF AccountInv, AccountTypes, CallRow, AnyAddress
<1>2. AddressesOf(r.saw) = AddressesOf(user) =>
        r.saw.email = user.email /\ r.saw.pending = user.pending /\ r.saw.backup = user.backup
  BY DEF AddressesOf
<1>3. ASSUME NEW v \in UserRow
      PROVE  /\ NoBackup(v) \in UserRow /\ NoBackup(v).backup = NoAddress
             /\ NoBackup(v).password = v.password /\ NoBackup(v).changedAt = v.changedAt
  BY <1>1 DEF UserRow, NoBackup
<1>4. CASE r.op \in {"email", "cancel"}
  <2>1. \A a \in AnyAddress :
          /\ [user EXCEPT !.pending = a] \in UserRow
          /\ [user EXCEPT !.pending = a].password = user.password
          /\ [user EXCEPT !.pending = a].changedAt = user.changedAt
          /\ [user EXCEPT !.pending = a].email = user.email
          /\ [user EXCEPT !.pending = a].backup = user.backup
          /\ [user EXCEPT !.pending = a].verified = user.verified
          /\ [user EXCEPT !.pending = a].proved = user.proved
    BY <1>1 DEF UserRow
  <2>2. PICK a \in AnyAddress : u = [user EXCEPT !.pending = a]
    BY <1>1, <1>4 DEF Updated
  <2>3. /\ u \in UserRow /\ u.password = user.password /\ u.changedAt = user.changedAt
        /\ u.email = user.email /\ u.backup = user.backup /\ u.verified = user.verified /\ u.proved = user.proved
    BY <2>1, <2>2
  <2> QED
    BY <1>4, <2>3 DEF BackupSafe
<1>5. CASE r.op = "confirm"
  <2>1. PICK v : v = [user EXCEPT !.email = r.saw.pending, !.pending = NoAddress]
    OBVIOUS
  <2>2. \A a, b \in AnyAddress :
          /\ [user EXCEPT !.email = a, !.pending = b] \in UserRow
          /\ [user EXCEPT !.email = a, !.pending = b].password = user.password
          /\ [user EXCEPT !.email = a, !.pending = b].changedAt = user.changedAt
          /\ [user EXCEPT !.email = a, !.pending = b].email = a
          /\ [user EXCEPT !.email = a, !.pending = b].backup = user.backup
          /\ [user EXCEPT !.email = a, !.pending = b].verified = user.verified
          /\ [user EXCEPT !.email = a, !.pending = b].proved = user.proved
    BY <1>1 DEF UserRow
  <2>3. r.saw.pending \in AnyAddress
    BY <1>1 DEF UserRow
  <2>4. /\ v \in UserRow /\ v.password = user.password /\ v.changedAt = user.changedAt
        /\ v.email = r.saw.pending /\ v.backup = user.backup /\ v.verified = user.verified /\ v.proved = user.proved
    BY <1>1, <2>1, <2>2, <2>3
  <2>5. u = IF r.saw.backup = r.saw.pending THEN NoBackup(v) ELSE v
    BY <1>5, <2>1 DEF Updated, Confirmed
  <2>6. CASE r.saw.backup = r.saw.pending
    BY <1>3, <1>5, <2>4, <2>5, <2>6 DEF BackupSafe
  <2>7. CASE r.saw.backup /= r.saw.pending
    BY <1>2, <1>5, <2>4, <2>5, <2>7 DEF BackupSafe
  <2> QED
    BY <2>6, <2>7
<1>6. CASE r.op = "backup"
  <2>1. u = [user EXCEPT !.backup = r.address, !.verified = FALSE]
    BY <1>6 DEF Updated
  <2>2. \A a \in AnyAddress :
          /\ [user EXCEPT !.backup = a, !.verified = FALSE] \in UserRow
          /\ [user EXCEPT !.backup = a, !.verified = FALSE].password = user.password
          /\ [user EXCEPT !.backup = a, !.verified = FALSE].changedAt = user.changedAt
          /\ [user EXCEPT !.backup = a, !.verified = FALSE].email = user.email
          /\ [user EXCEPT !.backup = a, !.verified = FALSE].backup = a
          /\ [user EXCEPT !.backup = a, !.verified = FALSE].verified = FALSE
    BY <1>1 DEF UserRow
  <2>3. /\ u \in UserRow /\ u.password = user.password /\ u.changedAt = user.changedAt
        /\ u.email = user.email /\ u.backup = r.address /\ u.verified = FALSE
    BY <1>1, <2>1, <2>2
  <2> QED
    BY <1>2, <1>6, <2>3 DEF BackupSafe
<1>7. CASE r.op = "verify"
  <2>1. PICK a \in AnyAddress : a = r.saw.backup
    BY <1>1 DEF UserRow
  <2>2. PICK v : v = [user EXCEPT !.verified = TRUE]
    OBVIOUS
  <2>3. /\ v \in UserRow /\ v.password = user.password /\ v.changedAt = user.changedAt
        /\ v.email = user.email /\ v.backup = user.backup
    BY <1>1, <2>2 DEF UserRow
  <2>4. u = [v EXCEPT !.proved = a]
    BY <1>7, <2>1, <2>2 DEF Updated
  <2>5. /\ u \in UserRow /\ u.password = user.password /\ u.changedAt = user.changedAt
        /\ u.email = user.email /\ u.backup = user.backup /\ u.proved = a
    BY <2>3, <2>4 DEF UserRow
  <2> QED
    BY <1>2, <1>7, <2>1, <2>5 DEF BackupSafe
<1>8. CASE r.op = "remove"
  <2>1. u = NoBackup(user)
    BY <1>8 DEF Updated
  <2> QED
    BY <1>1, <1>3, <1>8, <2>1 DEF BackupSafe
<1>9. CASE r.op = "forgot"
  <2>1. u = [user EXCEPT !.reset = TRUE]
    BY <1>9 DEF Updated
  <2>2. /\ u \in UserRow /\ u.password = user.password /\ u.changedAt = user.changedAt
        /\ u.email = user.email /\ u.backup = user.backup /\ u.verified = user.verified /\ u.proved = user.proved
    BY <1>1, <2>1 DEF UserRow
  <2> QED
    BY <1>9, <2>2 DEF BackupSafe
<1>10. CASE r.op \in {"password", "reset"}
  <2>1. PICK b \in BOOLEAN : u = [[[user EXCEPT !.password = @ + 1] EXCEPT !.changedAt = time] EXCEPT !.reset = b]
    <3>1. CASE r.op = "password"
      <4>1. u = [user EXCEPT !.password = @ + 1, !.changedAt = time]
        BY <3>1 DEF Updated
      <4>2. u = [[[user EXCEPT !.password = @ + 1] EXCEPT !.changedAt = time] EXCEPT !.reset = user.reset]
        BY <1>1, <4>1 DEF UserRow
      <4> QED
        BY <1>1, <4>2 DEF UserRow
    <3>2. CASE r.op = "reset"
      BY <1>1, <3>2 DEF Updated, UserRow
    <3> QED
      BY <1>10, <3>1, <3>2
  <2>2. PICK n \in Nat : n = user.password + 1
    BY <1>1 DEF UserRow
  <2>3. PICK v : v = [user EXCEPT !.password = n]
    OBVIOUS
  <2>4. v \in UserRow /\ v.password = n /\ v.email = user.email /\ v.backup = user.backup
        /\ v.verified = user.verified /\ v.proved = user.proved
    BY <1>1, <2>2, <2>3 DEF UserRow
  <2>5. PICK w : w = [v EXCEPT !.changedAt = time]
    OBVIOUS
  <2>6. w \in UserRow /\ w.password = n /\ w.changedAt = time /\ w.email = user.email /\ w.backup = user.backup
        /\ w.verified = user.verified /\ w.proved = user.proved
    BY <1>1, <2>4, <2>5 DEF UserRow
  <2>7. u = [w EXCEPT !.reset = b]
    BY <2>1, <2>2, <2>3, <2>5
  <2>8. u \in UserRow /\ u.password = n /\ u.changedAt = time /\ u.email = user.email /\ u.backup = user.backup
        /\ u.verified = user.verified /\ u.proved = user.proved
    BY <2>1, <2>6, <2>7 DEF UserRow
  <2> QED
    BY <1>10, <2>2, <2>8 DEF BackupSafe
<1> QED
  BY <1>1, <1>4, <1>5, <1>6, <1>7, <1>8, <1>9, <1>10 DEF AccountOps

\* A change of the password leaves a session that knew the old one behind it, unless
\* the two are of one second or the session had yet to acknowledge another; then it
\* has straddled a change.
LEMMA CommitAccount ==
  ASSUME AccountInv, NEW c \in Calls, CallCommit(c)
  PROVE  AccountInv'
<1>1. PICK r : r = call[c]
  OBVIOUS
<1>2. PICK u : u = Updated(r.op, r.address, r.saw)
  OBVIOUS
<1>3. r \in CallRow /\ (r.op = "backup" => r.address /= r.saw.email)
  BY <1>1 DEF CallCommit, AccountInv, AccountTypes, AccountBounds
<1>4. /\ user' = u /\ call' = [call EXCEPT ![c] = NoCall]
      /\ session' = [d \in Devices |-> Told(d, r)]
      /\ crossed' = (crossed \/ AddressesOf(r.saw) /= AddressesOf(user))
      /\ UNCHANGED <<time, outages>>
  BY <1>1, <1>2 DEF CallCommit
<1>5. /\ u \in UserRow
      /\ r.op \in {"password", "reset"} => u.password = user.password + 1 /\ u.changedAt = time
      /\ r.op \notin {"password", "reset"} => u.password = user.password /\ u.changedAt = user.changedAt
      /\ AddressesOf(r.saw) = AddressesOf(user) /\ BackupSafe(user) => BackupSafe(u)
  BY <1>2, <1>3, UpdateKeeps
<1>6. /\ user \in UserRow /\ user.password \in Nat /\ user.changedAt \in Nat /\ time \in Nat
      /\ user.changedAt <= time
      /\ Second(time) \in Nat /\ Second(user.changedAt) \in Nat /\ Second(user.changedAt) <= Second(time)
  BY SecondsOf, SecondsPass DEF AccountInv, AccountTypes, UserRow
<1>7. u.password \in Nat /\ user.password <= u.password /\ u.changedAt <= time
  BY <1>5, <1>6
<1>8. ASSUME NEW d \in Devices
      PROVE  /\ Told(d, r) \in SessionRow
             /\ Told(d, r).baseline <= Second(time)
             /\ Told(d, r).password <= u.password
             /\ Told(d, r).checked <= u.password
             /\ SessionTells(session[d], user) => SessionTells(Told(d, r), u)
  <2>1. PICK s : s = session[d]
    OBVIOUS
  <2>2. /\ s \in SessionRow /\ s.baseline \in Nat /\ s.password \in Nat /\ s.checked \in Nat
        /\ s.baseline <= Second(time) /\ s.password <= user.password /\ s.checked <= user.password
    BY <2>1 DEF AccountInv, AccountTypes, AccountBounds, SessionRow
  <2>3. CASE r.op \notin {"password", "reset"}
    <3>1. Told(d, r) = s
      BY <2>1, <2>3 DEF Told
    <3>2. u.password = user.password /\ u.changedAt = user.changedAt
      BY <1>5, <2>3
    <3>3. SessionTells(s, user) => SessionTells(s, u)
      BY <3>2 DEF SessionTells
    <3> QED
      BY <2>1, <2>2, <3>1, <3>2, <3>3
  <2>4. CASE r.op \in {"password", "reset"} /\ ~s.live
    <3>1. Told(d, r) = s
      BY <2>1, <2>4 DEF Told
    <3>2. SessionTells(s, u)
      BY <2>4 DEF SessionTells
    <3> QED
      BY <1>6, <1>7, <2>1, <2>2, <3>1, <3>2
  <2>5. CASE r.op = "password" /\ s.live /\ d = r.device
    <3>1. PICK w : w = [s EXCEPT !.owes = TRUE]
      OBVIOUS
    <3>2. w \in SessionRow /\ w.owes = TRUE /\ w.baseline = s.baseline /\ w.checked = s.checked
      BY <2>2, <3>1 DEF SessionRow
    <3>3. PICK x : x = [w EXCEPT !.password = u.password]
      OBVIOUS
    <3>4. x \in SessionRow /\ x.owes = TRUE /\ x.baseline = s.baseline /\ x.checked = s.checked /\ x.password = u.password
      BY <1>7, <3>2, <3>3 DEF SessionRow
    <3>5. Told(d, r) = [s EXCEPT !.owes = TRUE, !.password = user.password + 1]
      BY <2>1, <2>5 DEF Told
    <3>6. Told(d, r) = x
      BY <1>5, <2>2, <2>5, <3>1, <3>3, <3>5 DEF SessionRow
    <3>7. SessionTells(x, u)
      BY <3>4 DEF SessionTells
    <3> QED
      BY <1>6, <1>7, <2>1, <2>2, <3>4, <3>6, <3>7
  <2>6. CASE r.op \in {"password", "reset"} /\ s.live /\ ~(r.op = "password" /\ d = r.device)
    <3>1. PICK b : b = (s.straddled \/ s.owes \/ s.baseline = Second(time))
      OBVIOUS
    <3>2. b \in BOOLEAN
      BY <2>2, <3>1 DEF SessionRow
    <3>3. PICK x : x = [s EXCEPT !.straddled = b]
      OBVIOUS
    <3>4. /\ x \in SessionRow /\ x.straddled = b /\ x.baseline = s.baseline /\ x.checked = s.checked
          /\ x.password = s.password /\ x.owes = s.owes
      BY <2>2, <3>2, <3>3 DEF SessionRow
    <3>5. Told(d, r) = x
      BY <2>1, <2>6, <3>1, <3>3 DEF Told
    <3>6. SessionTells(x, u)
      <4>1. CASE b = TRUE
        BY <3>4, <4>1, Zenon DEF SessionTells
      <4>2. CASE b = FALSE
        <5>1. ~s.owes /\ s.baseline /= Second(time)
          BY <3>1, <4>2, Zenon
        <5>2. s.baseline < Second(u.changedAt) /\ s.password /= u.password
          BY <1>5, <1>6, <2>2, <2>6, <5>1
        <5> QED
          BY <3>4, <5>1, <5>2 DEF SessionTells
      <4> QED
        BY <3>2, <4>1, <4>2
    <3> QED
      BY <1>6, <1>7, <2>1, <2>2, <3>4, <3>5, <3>6
  <2> QED
    BY <2>3, <2>4, <2>5, <2>6
<1>9. AccountTypes'
  <2>1. session' \in [Devices -> SessionRow]
    BY <1>4, <1>8
  <2>2. call' \in [Calls -> CallRow \cup {NoCall}]
    BY <1>4 DEF AccountInv, AccountTypes
  <2>3. crossed' \in BOOLEAN
    BY <1>4
  <2> QED
    BY <1>4, <1>5, <1>7, <2>1, <2>2, <2>3 DEF AccountInv, AccountTypes
<1>10. AccountBounds'
  <2>1. \A d \in Devices : /\ session'[d].baseline <= Second(time')
                          /\ session'[d].password <= user'.password
                          /\ session'[d].checked <= user'.password
    BY <1>4, <1>8
  <2>2. \A x \in Calls : call'[x] /= NoCall /\ call'[x].op = "backup" => call'[x].address /= call'[x].saw.email
    BY <1>4 DEF AccountInv, AccountTypes, AccountBounds
  <2> QED
    BY <2>1, <2>2 DEF AccountBounds, Second
<1>11. BackupIsAnother'
  <2>1. CASE crossed \/ AddressesOf(r.saw) /= AddressesOf(user)
    BY <1>4, <2>1, Zenon DEF BackupIsAnother
  <2>2. CASE ~crossed /\ AddressesOf(r.saw) = AddressesOf(user)
    <3>1. BackupSafe(user)
      BY <2>2 DEF AccountInv, BackupIsAnother, BackupSafe
    <3>2. BackupSafe(u)
      BY <1>5, <2>2, <3>1
    <3> QED
      BY <1>4, <3>2 DEF BackupIsAnother, BackupSafe
  <2> QED
    BY <2>1, <2>2
<1>12. SessionsInv'
  <2>1. ASSUME outages = 0, NEW d \in Devices PROVE SessionTells(session'[d], u)
    <3>1. SessionTells(session[d], user)
      BY <2>1 DEF AccountInv, SessionsInv
    <3> QED
      BY <1>4, <1>8, <3>1
  <2> QED
    BY <1>4, <2>1 DEF SessionsInv
<1> QED
  BY <1>9, <1>10, <1>11, <1>12 DEF AccountInv

\* A sign-in holds the password that was checked; a refresh lets a session live on
\* only past no change of a later second than its own.
LEMMA SessionAccount ==
  ASSUME AccountInv, NEW d \in Devices,
         SignInRead(d) \/ SignIn(d) \/ Refresh(d) \/ RefreshSkipped(d) \/ SignOut(d)
  PROVE  AccountInv'
<1>1. PICK s : s = session[d]
  OBVIOUS
<1>2. PICK x : x = session'[d]
  OBVIOUS
<1>3. /\ s \in SessionRow /\ s.baseline \in Nat /\ s.password \in Nat /\ s.checked \in Nat
      /\ s.baseline <= Second(time) /\ s.password <= user.password /\ s.checked <= user.password
  BY <1>1 DEF AccountInv, AccountTypes, AccountBounds, SessionRow
<1>4. /\ user \in UserRow /\ user.password \in Nat /\ user.changedAt \in Nat /\ time \in Nat
      /\ user.changedAt <= time /\ outages \in Nat
      /\ Second(time) \in Nat /\ Second(user.changedAt) \in Nat /\ Second(user.changedAt) <= Second(time)
      /\ 2 * Second(user.changedAt) <= user.changedAt /\ user.changedAt < 2 * Second(user.changedAt) + 2
  BY SecondsOf, SecondsPass DEF AccountInv, AccountTypes, UserRow
<1>5. NoSession \in SessionRow /\ ~NoSession.live /\ NoSession.baseline = 0 /\ NoSession.password = 0 /\ NoSession.checked = 0
  BY DEF NoSession, SessionRow
<1>6. outages = 0 => SessionTells(s, user)
  BY <1>1 DEF AccountInv, SessionsInv
<1>7. /\ UNCHANGED <<time, user, call, crossed>> /\ outages' \in Nat /\ (outages' = 0 => outages = 0)
  BY <1>4 DEF SignInRead, SignIn, Refresh, RefreshSkipped, SignOut
<1>8. /\ session' = [session EXCEPT ![d] = x] /\ x \in SessionRow
      /\ x.baseline <= Second(time) /\ x.password <= user.password /\ x.checked <= user.password
      /\ outages' = 0 => SessionTells(x, user)
  <2>1. CASE SignInRead(d)
    <3>1. PICK w : w = [s EXCEPT !.checked = user.password]
      OBVIOUS
    <3>2. /\ w \in SessionRow /\ w.live = s.live /\ w.baseline = s.baseline /\ w.password = s.password
          /\ w.checked = user.password
      BY <1>3, <1>4, <3>1 DEF SessionRow
    <3>3. session' = [session EXCEPT ![d] = w] /\ ~s.live
      BY <1>1, <2>1, <3>1 DEF SignInRead
    <3>4. x = w
      BY <1>2, <3>3 DEF AccountInv, AccountTypes
    <3> QED
      BY <1>3, <1>4, <3>2, <3>3, <3>4 DEF SessionTells
  <2>2. CASE SignIn(d)
    <3>1. PICK b : b = (s.checked /= user.password)
      OBVIOUS
    <3>2. PICK w : w = [NoSession EXCEPT !.live = TRUE, !.baseline = Second(time), !.password = s.checked, !.straddled = b]
      OBVIOUS
    <3>3. /\ w \in SessionRow /\ w.baseline = Second(time) /\ w.password = s.checked
          /\ w.checked = 0 /\ w.owes = FALSE /\ w.straddled = b
      <4>1. PICK r1 : r1 = [NoSession EXCEPT !.live = TRUE]
        OBVIOUS
      <4>2. PICK r2 : r2 = [r1 EXCEPT !.baseline = Second(time)]
        OBVIOUS
      <4>3. PICK r3 : r3 = [r2 EXCEPT !.password = s.checked]
        OBVIOUS
      <4>4. w = [r3 EXCEPT !.straddled = b]
        <5>1. w = [[[[NoSession EXCEPT !.live = TRUE] EXCEPT !.baseline = Second(time)]
                      EXCEPT !.password = s.checked] EXCEPT !.straddled = b]
          BY <3>2
        <5> QED
          BY <4>1, <4>2, <4>3, <5>1
      <4>5. r1 \in SessionRow /\ r1.checked = 0 /\ r1.owes = FALSE
        BY <1>5, <4>1 DEF SessionRow, NoSession
      <4>6. r2 \in SessionRow /\ r2.checked = 0 /\ r2.owes = FALSE /\ r2.baseline = Second(time)
        BY <1>4, <4>2, <4>5 DEF SessionRow
      <4>7. r3 \in SessionRow /\ r3.checked = 0 /\ r3.owes = FALSE /\ r3.baseline = Second(time) /\ r3.password = s.checked
        BY <1>3, <4>3, <4>6 DEF SessionRow
      <4>8. b \in BOOLEAN
        BY <3>1
      <4> QED
        BY <4>4, <4>7, <4>8 DEF SessionRow
    <3>4. session' = [session EXCEPT ![d] = w]
      BY <1>1, <2>2, <3>1, <3>2 DEF SignIn
    <3>5. x = w
      BY <1>2, <3>4 DEF AccountInv, AccountTypes
    <3>6. SessionTells(w, user)
      <4>1. CASE b = TRUE
        BY <3>3, <4>1, Zenon DEF SessionTells
      <4>2. CASE b = FALSE
        <5>1. s.checked = user.password
          BY <3>1, <4>2, Zenon
        <5> QED
          BY <1>4, <3>3, <5>1 DEF SessionTells
      <4> QED
        BY <3>1, <4>1, <4>2
    <3> QED
      BY <1>3, <1>4, <3>3, <3>4, <3>5, <3>6
  <2>3. CASE (Refresh(d) /\ Stale(Baseline(d))) \/ SignOut(d)
    <3>1. session' = [session EXCEPT ![d] = NoSession]
      BY <2>3 DEF Refresh, SignOut
    <3>2. x = NoSession
      BY <1>2, <3>1 DEF AccountInv, AccountTypes
    <3> QED
      BY <1>3, <1>4, <1>5, <3>1, <3>2 DEF SessionTells
  <2>4. CASE (Refresh(d) /\ ~Stale(Baseline(d))) \/ RefreshSkipped(d)
    <3>1. PICK w : w = [s EXCEPT !.baseline = Second(time)]
      OBVIOUS
    <3>2. /\ w \in SessionRow /\ w.baseline = Second(time) /\ w.password = s.password
          /\ w.checked = s.checked /\ w.live = s.live /\ w.straddled = s.straddled
      BY <1>3, <1>4, <3>1 DEF SessionRow
    <3>3. PICK z : z = [w EXCEPT !.owes = FALSE]
      OBVIOUS
    <3>4. /\ z \in SessionRow /\ z.baseline = Second(time) /\ z.password = s.password /\ ~z.owes
          /\ z.checked = s.checked /\ z.live = s.live /\ z.straddled = s.straddled
      BY <3>2, <3>3 DEF SessionRow
    <3>5. session' = [session EXCEPT ![d] = z]
      <4>1. z = [s EXCEPT !.baseline = Second(time), !.owes = FALSE]
        BY <1>3, <3>1, <3>3 DEF SessionRow
      <4>2. CASE Refresh(d) /\ ~Stale(Baseline(d))
        BY <1>1, <4>1, <4>2 DEF Refresh
      <4>3. CASE RefreshSkipped(d)
        BY <1>1, <1>3, <4>1, <4>3 DEF RefreshSkipped, AccountInv, AccountTypes
      <4> QED
        BY <2>4, <4>2, <4>3
    <3>6. x = z
      BY <1>2, <3>5 DEF AccountInv, AccountTypes
    <3>7. ASSUME outages' = 0 PROVE SessionTells(z, user)
      <4>1. Refresh(d) /\ ~Stale(Baseline(d)) /\ SessionTells(s, user)
        BY <1>4, <1>6, <1>7, <2>4, <3>7 DEF RefreshSkipped
      <4>2. CASE s.owes
        BY <1>4, <3>4, <4>1, <4>2 DEF SessionTells
      <4>3. CASE ~s.owes
        <5>1. ~(user.changedAt > 2 * s.baseline)
          BY <1>1, <4>1, <4>3 DEF Stale, Baseline
        <5>2. ~(s.baseline < Second(user.changedAt))
          BY <1>3, <1>4, <5>1
        <5> QED
          BY <1>4, <3>4, <4>1, <4>3, <5>2 DEF SessionTells
      <4> QED
        BY <4>2, <4>3
    <3> QED
      BY <1>3, <1>4, <3>4, <3>5, <3>6, <3>7
  <2> QED
    BY <2>1, <2>2, <2>3, <2>4
<1>9. /\ session' \in [Devices -> SessionRow]
      /\ \A e \in Devices : session'[e] = IF e = d THEN x ELSE session[e]
  BY <1>8 DEF AccountInv, AccountTypes
<1>10. \A e \in Devices :
         \/ session'[e] = session[e]
         \/ /\ session'[e].baseline <= Second(time')
            /\ session'[e].password <= user.password
            /\ session'[e].checked <= user.password
            /\ (outages' = 0 => SessionTells(session'[e], user))
  BY <1>7, <1>8, <1>9
<1> QED
  BY <1>7, <1>9, <1>10, AccountStands DEF AccountInv, AccountTypes, AccountBounds

\* What holds of the account's row, its sessions and the requests about it holds in
\* every state.
THEOREM AccountStandsAlways == AccountSpec => []AccountInv
<1>1. AccountInit => AccountInv
  <2> SUFFICES ASSUME AccountInit PROVE AccountInv
    OBVIOUS
  <2>1. /\ time = 0 /\ outages = 0 /\ crossed = FALSE
        /\ user = [email |-> Primary, pending |-> NoAddress, backup |-> NoAddress, verified |-> FALSE,
                   proved |-> NoAddress, reset |-> FALSE, password |-> 1, changedAt |-> 0]
        /\ session = [d \in Devices |-> NoSession] /\ call = [c \in Calls |-> NoCall]
    BY DEF AccountInit
  <2>2. /\ NoSession \in SessionRow /\ ~NoSession.live /\ NoSession.baseline = 0
        /\ NoSession.password = 0 /\ NoSession.checked = 0
    BY DEF NoSession, SessionRow
  <2>3. /\ user \in UserRow /\ user.backup = NoAddress /\ user.changedAt = 0 /\ user.password = 1
    BY <2>1 DEF UserRow, AnyAddress, Addresses
  <2>4. Second(time) \in Nat
    BY <2>1, SecondsOf
  <2>5. AccountTypes
    <3>1. session \in [Devices -> SessionRow] /\ call \in [Calls -> CallRow \cup {NoCall}]
      BY <2>1, <2>2
    <3>2. time \in Nat /\ outages \in Nat /\ user.changedAt <= time
      BY <2>1, <2>3, 0 \in Nat
    <3>3. crossed \in BOOLEAN
      BY <2>1
    <3> QED
      BY <2>3, <3>1, <3>2, <3>3 DEF AccountTypes
  <2>6. AccountBounds
    BY <2>1, <2>2, <2>3, <2>4 DEF AccountBounds
  <2>7. BackupIsAnother /\ SessionsInv
    BY <2>1, <2>2, <2>3 DEF BackupIsAnother, SessionsInv, SessionTells
  <2> QED
    BY <2>5, <2>6, <2>7 DEF AccountInv
<1>2. AccountInv /\ [AccountNext]_accountVars => AccountInv'
  <2> SUFFICES ASSUME AccountInv, [AccountNext]_accountVars PROVE AccountInv'
    OBVIOUS
  <2>1. CASE UNCHANGED accountVars
    BY <2>1 DEF accountVars, AccountInv, AccountTypes, AccountBounds, BackupIsAnother, SessionsInv, SessionTells, Second
  <2>2. CASE Tick \/ WrongPassword \/ WindowPasses
    BY <2>2, TimeAccount
  <2>3. ASSUME NEW c \in Calls, NEW op \in {"email", "backup", "forgot"}, NEW address \in Addresses,
               CallRead(c, op, address, NoDevice)
        PROVE  AccountInv'
    BY <2>3, ReadAccount DEF AccountOps, AnyAddress
  <2>4. ASSUME NEW c \in Calls, NEW op \in {"confirm", "cancel", "verify", "remove", "reset"},
               CallRead(c, op, NoAddress, NoDevice)
        PROVE  AccountInv'
    BY <2>4, ReadAccount DEF AccountOps, AnyAddress
  <2>5. ASSUME NEW c \in Calls, NEW d \in Devices, CallRead(c, "password", NoAddress, d)
        PROVE  AccountInv'
    BY <2>5, ReadAccount DEF AccountOps, AnyAddress
  <2>6. ASSUME NEW c \in Calls, CallCommit(c) PROVE AccountInv'
    BY <2>6, CommitAccount
  <2>7. ASSUME NEW d \in Devices,
               SignInRead(d) \/ SignIn(d) \/ Refresh(d) \/ RefreshSkipped(d) \/ SignOut(d)
        PROVE  AccountInv'
    BY <2>7, SessionAccount
  <2> QED
    BY <2>1, <2>2, <2>3, <2>4, <2>5, <2>6, <2>7 DEF AccountNext
<1> QED
  BY <1>1, <1>2, PTL DEF AccountSpec

\* What leads into an account is its owner's (me.ts, auth-options.ts): the backup a
\* reset link may go to is another address than the sign-in's and was confirmed from a
\* link sent there, but for requests that crossed; a session of an earlier password ends
\* at its next refresh and one of the present password does not, but where its clock
\* and the change's cannot tell. For any number of devices, requests and addresses.
THEOREM AccountsAreTheirOwners == AccountSpec => []AccountIsItsOwners
<1>1. AccountInv => AccountIsItsOwners
  <2> SUFFICES ASSUME AccountInv PROVE AccountIsItsOwners
    OBVIOUS
  <2>1. ASSUME outages = 0, NEW d \in Devices, session[d].live, ~session[d].straddled,
               Baseline(d) /= Second(user.changedAt)
        PROVE  Stale(Baseline(d)) <=> session[d].password /= user.password
    <3>1. PICK s : s = session[d]
      OBVIOUS
    <3>2. /\ s.baseline \in Nat /\ s.baseline <= Second(time) /\ SessionTells(s, user)
          /\ s.live /\ ~s.straddled
      BY <2>1, <3>1 DEF AccountInv, AccountTypes, AccountBounds, SessionsInv, SessionRow
    <3>3. /\ user.changedAt \in Nat /\ Second(time) \in Nat /\ Second(user.changedAt) \in Nat
          /\ Second(user.changedAt) <= Second(time)
          /\ 2 * Second(user.changedAt) <= user.changedAt /\ user.changedAt < 2 * Second(user.changedAt) + 2
      BY SecondsOf, SecondsPass DEF AccountInv, AccountTypes, UserRow
    <3>4. CASE s.owes
      <4>1. Baseline(d) = Max({s.baseline, Second(time)})
        BY <3>1, <3>4 DEF Baseline
      <4>2. Max({s.baseline, Second(time)}) = Second(time)
        BY <3>2, <3>3 DEF Max
      <4>3. Second(user.changedAt) < Second(time)
        BY <2>1, <3>3, <4>1, <4>2
      <4>4. ~Stale(Baseline(d))
        BY <3>3, <4>1, <4>2, <4>3 DEF Stale
      <4> QED
        BY <3>1, <3>2, <3>4, <4>4 DEF SessionTells
    <3>5. CASE ~s.owes
      <4>1. Baseline(d) = s.baseline
        BY <3>1, <3>5 DEF Baseline
      <4>2. user.changedAt > 2 * s.baseline <=> s.baseline < Second(user.changedAt)
        BY <2>1, <3>2, <3>3, <4>1
      <4> QED
        BY <3>1, <3>2, <3>5, <4>1, <4>2 DEF SessionTells, Stale
    <3> QED
      BY <3>4, <3>5
  <2> QED
    BY <2>1 DEF AccountIsItsOwners, SessionsFollowPassword, AccountInv
<1> QED
  BY <1>1, AccountStandsAlways, PTL
================================================================================
