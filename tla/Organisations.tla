---------------------------- MODULE Organisations ---------------------------
(***************************************************************************)
(* Who holds the keys: the seats of an organisation and the invitations to  *)
(* them (counsel-org.ts), a member's bar number and its verification by     *)
(* staff (counsel.ts, ops-professional.ts), and the roles and grants of the *)
(* staff themselves (permissions.ts). Each route reads what it refuses by,  *)
(* and writes later, by id. The three meet in no row; overtaken says of any   *)
(* of them that a request wrote over something other than what it had read. *)
(***************************************************************************)
EXTENDS Naturals, FiniteSets

CONSTANTS
  People,       \* accounts of the organisation, made or to be made
  Founder,      \* the one who signed it up
  Mail,         \* email addresses
  Invitations,  \* Invitation rows
  Staff,        \* accounts of the staff, made or to be made
  FirstAdmin,   \* the one there from the start
  Numbers,      \* bar numbers
  Routes,       \* requests in flight
  NoOne,        \* nobody, nothing
  MaxRoutes     \* bounds the requests made

ASSUME KeysAssumption ==
  /\ Founder \in People /\ FirstAdmin \in Staff /\ MaxRoutes \in Nat
  /\ Mail /= {} /\ NoOne \notin Mail \cup {"OWNER", "VIEWER", "ADMIN", "SUPPORT", "ATTORNEY"}

VARIABLES
  seat,       \* People -> the Membership role, or NoOne
  mail,       \* People -> the account's address, or NoOne before there is an account
  invited,    \* Invitations -> the row, or NoOne
  licence,    \* one member's bar number, and what staff decided; for is history: of which number
  looked,     \* the number on the desk's list
  staff,      \* Staff -> the role, or NoOne
  grants,     \* Staff -> the StaffGrant rows not revoked
  route,      \* Routes -> the request in flight, with what it read
  routes,     \* requests made so far
  overtaken,    \* history: a request committed over something it had not read
  moved,      \* history: an account took an address with an open invitation
  demoted     \* history: an Admin gave up the role herself

keyVars == <<seat, mail, invited, licence, looked, staff, grants, route, routes, overtaken, moved, demoted>>
seatVars == <<seat, mail, invited, moved>>
barVars == <<licence, looked>>
staffVars == <<staff, grants, demoted>>

NoRoute == [op |-> "none"]
KeysInit ==
  /\ seat = [p \in People |-> IF p = Founder THEN "OWNER" ELSE NoOne]
  /\ mail = [p \in People |-> IF p = Founder THEN CHOOSE m \in Mail : TRUE ELSE NoOne]
  /\ invited = [i \in Invitations |-> NoOne]
  /\ licence = [number |-> NoOne, status |-> "PENDING", verified |-> FALSE, for |-> NoOne]
  /\ looked = NoOne
  /\ staff = [s \in Staff |-> IF s = FirstAdmin THEN "ADMIN" ELSE NoOne]
  /\ grants = [s \in Staff |-> IF s = FirstAdmin THEN {"ADMIN"} ELSE {}]
  /\ route = [r \in Routes |-> NoRoute]
  /\ routes = 0 /\ overtaken = FALSE /\ moved = FALSE /\ demoted = FALSE

Begin(r, q) ==
  /\ route[r] = NoRoute /\ routes < MaxRoutes
  /\ route' = [route EXCEPT ![r] = q]
  /\ routes' = routes + 1
  /\ UNCHANGED <<seatVars, barVars, staffVars, overtaken>>
End(r, stale) ==
  /\ route' = [route EXCEPT ![r] = NoRoute]
  /\ overtaken' = (overtaken \/ stale)
  /\ UNCHANGED routes
Throw(r) == End(r, FALSE) /\ UNCHANGED <<seatVars, barVars, staffVars>>
-----------------------------------------------------------------------------
(* Seats and invitations *)
Owners == {p \in People : seat[p] = "OWNER"}
OpenFor(m) == {i \in Invitations : invited[i] /= NoOne /\ invited[i].open /\ invited[i].mail = m}
Holder(m) == {p \in People : mail[p] = m}
Seated(m) == {p \in Holder(m) : seat[p] /= NoOne}

\* A current member is refused; a pending invitation is rotated, not doubled.
InviteRead(r, by, m, role) ==
  /\ seat[by] = "OWNER" /\ Seated(m) = {}
  /\ Begin(r, [op |-> "invite", mail |-> m, role |-> role, saw |-> OpenFor(m)])
InviteCommit(r) ==
  LET q == route[r]
  IN  /\ q.op = "invite"
      /\ \E i \in Invitations :
           /\ IF q.saw = {} THEN invited[i] = NoOne ELSE i \in q.saw
           /\ invited' = [invited EXCEPT ![i] = IF @ = NoOne THEN [mail |-> q.mail, role |-> q.role, open |-> TRUE]
                                                             ELSE [@ EXCEPT !.role = q.role]]
      /\ End(r, Seated(q.mail) /= {} \/ OpenFor(q.mail) /= q.saw)
      /\ UNCHANGED <<seat, mail, moved, barVars, staffVars>>

\* By the link in the mail: the invited address's account, or a new one.
AcceptRead(r, i) ==
  /\ invited[i] /= NoOne /\ invited[i].open
  /\ Begin(r, [op |-> "accept", id |-> i, saw |-> invited[i], who |-> Holder(invited[i].mail)])
AcceptCommit(r) ==
  LET q == route[r]
      fresh == {p \in People : mail[p] = NoOne}
  IN  /\ q.op = "accept"
      /\ q.who = {} => Holder(q.saw.mail) = {}
      /\ \E p \in (IF q.who = {} THEN fresh ELSE q.who) :
           /\ seat' = [seat EXCEPT ![p] = q.saw.role]
           /\ mail' = IF q.who = {} THEN [mail EXCEPT ![p] = q.saw.mail] ELSE mail
      /\ invited' = [invited EXCEPT ![q.id].open = FALSE]
      /\ End(r, invited[q.id] /= q.saw \/ Holder(q.saw.mail) /= q.who)
      /\ UNCHANGED <<moved, barVars, staffVars>>

\* Mutant: an owner is counted among the others before she goes.
RemovableFlawed(by, on) == seat[by] = "OWNER" /\ seat[on] /= NoOne /\ (seat[on] = "OWNER" => Cardinality(Owners) >= 1)
Removable(by, on) == seat[by] = "OWNER" /\ seat[on] /= NoOne /\ (seat[on] = "OWNER" => Cardinality(Owners) > 1)
RemoveRead(r, by, on) ==
  /\ Removable(by, on)
  /\ Begin(r, [op |-> "remove", on |-> on, saw |-> Owners])
RemoveCommit(r) ==
  LET q == route[r]
  IN  /\ q.op = "remove" /\ seat[q.on] /= NoOne
      /\ seat' = [seat EXCEPT ![q.on] = NoOne]
      /\ End(r, q.saw /= Owners)
      /\ UNCHANGED <<mail, invited, moved, barVars, staffVars>>

\* The confirmed change of an account's address, me.ts.
AddressMoves(p, m) ==
  /\ mail[p] /= NoOne /\ Holder(m) = {}
  /\ mail' = [mail EXCEPT ![p] = m]
  /\ moved' = (moved \/ OpenFor(m) /= {})
  /\ UNCHANGED <<seat, invited, barVars, staffVars, route, routes, overtaken>>
-----------------------------------------------------------------------------
(* The bar number *)
Verified == licence.verified /\ licence.status = "VERIFIED"

\* Mutant: a verified number can be changed too.
NumberReadFlawed(r, n) == Begin(r, [op |-> "number", number |-> n, saw |-> licence])
NumberRead(r, n) ==
  /\ ~licence.verified /\ licence.status /= "VERIFIED"
  /\ Begin(r, [op |-> "number", number |-> n, saw |-> licence])
NumberCommit(r) ==
  LET q == route[r]
  IN  /\ q.op = "number"
      /\ licence' = [licence EXCEPT !.number = q.number, !.status = "PENDING"]
      /\ End(r, q.saw /= licence)
      /\ UNCHANGED <<looked, seatVars, staffVars>>

DeskLooks ==
  /\ licence.number /= NoOne /\ looked /= licence.number
  /\ looked' = licence.number
  /\ UNCHANGED <<licence, seatVars, staffVars, route, routes, overtaken>>

\* professionalWithBar, and the decisions already taken.
DecisionRead(r, status) ==
  /\ licence.number /= NoOne /\ looked /= NoOne
  /\ IF status = "VERIFIED" THEN ~Verified ELSE licence.status /= "REJECTED"
  /\ Begin(r, [op |-> "decision", status |-> status, saw |-> licence, for |-> looked])
DecisionCommit(r) ==
  LET q == route[r]
  IN  /\ q.op = "decision"
      /\ licence' = [licence EXCEPT !.status = q.status, !.verified = (q.status = "VERIFIED"), !.for = q.for]
      /\ End(r, q.for /= licence.number)
      /\ UNCHANGED <<looked, seatVars, staffVars>>

\* checkLawyerSeat, of a seat that has the role: the timestamp, and a status that only refuses.
BarPasses == licence.status /= "REJECTED" /\ licence.verified
-----------------------------------------------------------------------------
(* Staff *)
IsAdmin(s) == s \in Staff /\ staff[s] = "ADMIN"
GrantKindForRole(role) ==
  CASE role \in {"ADMIN", "SUPPORT"} -> {role} [] role = "ATTORNEY" -> {"REVIEWER"} [] OTHER -> {}

CreateUser(r, by, s, role) ==
  /\ IsAdmin(by) /\ staff[s] = NoOne /\ route[r] = NoRoute
  /\ staff' = [staff EXCEPT ![s] = role]
  /\ grants' = [grants EXCEPT ![s] = GrantKindForRole(role)]
  /\ UNCHANGED <<seatVars, barVars, demoted, route, routes, overtaken>>

RoleRead(r, by, s, role) ==
  /\ IsAdmin(by) /\ staff[s] /= NoOne
  /\ Begin(r, [op |-> "role", by |-> by, on |-> s, role |-> role])
\* Mutant: the old grant outlives the role.
RegrantedFlawed(held, role) == held \cup GrantKindForRole(role)
\* Role and grants move together: every other grant is revoked.
Regranted(held, role) == GrantKindForRole(role)
RoleCommit(r) ==
  LET q == route[r]
  IN  /\ q.op = "role" /\ staff[q.on] /= NoOne
      /\ staff' = [staff EXCEPT ![q.on] = q.role]
      /\ grants' = [grants EXCEPT ![q.on] = Regranted(@, q.role)]
      /\ demoted' = (demoted \/ (q.on = q.by /\ q.role /= "ADMIN"))
      /\ End(r, ~IsAdmin(q.by))
      /\ UNCHANGED <<seatVars, barVars>>

DeleteRead(r, by, s) ==
  /\ IsAdmin(by) /\ staff[s] /= NoOne /\ by /= s
  /\ Begin(r, [op |-> "delete", by |-> by, on |-> s])
DeleteCommit(r) ==
  LET q == route[r]
  IN  /\ q.op = "delete" /\ staff[q.on] /= NoOne
      /\ staff' = [staff EXCEPT ![q.on] = NoOne]
      /\ grants' = [grants EXCEPT ![q.on] = {}]
      /\ End(r, ~IsAdmin(q.by))
      /\ UNCHANGED <<seatVars, barVars, demoted>>

Fails(r) ==
  LET q == route[r]
  IN  /\ \/ q.op = "accept" /\ q.who = {} /\ Holder(q.saw.mail) /= {}
         \/ q.op = "remove" /\ seat[q.on] = NoOne
         \/ q.op \in {"role", "delete"} /\ staff[q.on] = NoOne
      /\ Throw(r)
-----------------------------------------------------------------------------
SeatsNext ==
  \/ \E r \in Routes :
       \/ \E by \in People, m \in Mail, role \in {"OWNER", "VIEWER"} : InviteRead(r, by, m, role)
       \/ \E by, on \in People : RemoveRead(r, by, on)
       \/ \E i \in Invitations : AcceptRead(r, i)
       \/ InviteCommit(r) \/ AcceptCommit(r) \/ RemoveCommit(r)
  \/ \E p \in People, m \in Mail : AddressMoves(p, m)
BarNext ==
  \/ \E r \in Routes :
       \/ \E n \in Numbers : NumberRead(r, n)
       \/ \E status \in {"VERIFIED", "REJECTED"} : DecisionRead(r, status)
       \/ NumberCommit(r) \/ DecisionCommit(r)
  \/ DeskLooks
StaffNext ==
  \E r \in Routes :
    \/ \E by, s \in Staff :
         \/ \E role \in {"ADMIN", "SUPPORT", "VIEWER"} : CreateUser(r, by, s, role) \/ RoleRead(r, by, s, role)
         \/ DeleteRead(r, by, s)
    \/ RoleCommit(r) \/ DeleteCommit(r)
KeysNext == SeatsNext \/ BarNext \/ StaffNext \/ \E r \in Routes : Fails(r)
KeysSpec == KeysInit /\ [][KeysNext]_keyVars
-----------------------------------------------------------------------------
\* "An organisation keeps at least one owner" (counsel-org.ts), unless a request was
\* overtaken by another, or an invitation still open for an address seated the owner
\* who took it anew. The console keeps an Admin, unless one gave up the role or was
\* overtaken; and nobody holds a grant but the role's, whatever overtook what.
OwnersAndAdminsRemain ==
  /\ overtaken \/ moved \/ Owners /= {}
  /\ overtaken \/ demoted \/ \E s \in Staff : staff[s] = "ADMIN"
  /\ \A s \in Staff : grants[s] = GrantKindForRole(staff[s])

\* A bar number that opens counsel review is the one staff looked up, unless its
\* member changed it meanwhile.
LicenceWasLookedUp == BarPasses => overtaken \/ licence.number = licence.for

\* Every organisation keeps its owner, staff its Admin, and counsel review a number that was looked up.
KeysAreEarned == OwnersAndAdminsRemain /\ LicenceWasLookedUp
=============================================================================
