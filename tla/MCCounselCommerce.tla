---------------------------- MODULE MCCounselCommerce ----------------------------
(***************************************************************************)
(* Counsel commerce and, apart from it, the accounts of its users, the      *)
(* seats and keys of organisation and staff, the desk that decides refunds  *)
(* and deletions, and what leaves a case to a clinic or by a link. subject  *)
(* says which of them moves; the others rest in their initial state, so     *)
(* that the state spaces add and do not multiply.                           *)
(***************************************************************************)
EXTENDS CounselCommerce, Accounts, Organisations, StaffRequests, Sharing, TLC
CONSTANTS c1, c2, u1, h1, h2, d1, d2
VARIABLE subject
MCMetered == c1 :> {"SHORT"} @@ c2 :> {"SHORT", "LONG"}
\* Every part is given the same handlers, and the same rows to make.
Symmetric == Permutations(Handlers) \cup Permutations(Devices)

\* Only the password's requests meet the sessions: the addresses move without them.
AddressesMove == UNCHANGED <<time, session, tries>> /\ AccountNext
SessionsMove == AccountNext /\ \A q \in Calls : call'[q].op \in {"none", "forgot", "reset", "password"}

\* Money and erasure meet in no row; a deletion needs one request of its kind.
MoneyMoves == UNCHANGED caseVars /\ DeskNext /\ \A a \in Admins : admin'[a].type \in {"none", "REFUND"}
ErasureMoves ==
  /\ UNCHANGED moneyVars /\ DeskNext
  /\ \A a \in Admins : admin'[a].type /= "REFUND"
  /\ Cardinality({r \in Requests : request'[r] /= NoRow}) <= 1

PartsInit ==
  /\ subject \in {"commerce", "addresses", "sessions", "seats", "licence", "staff", "money", "erasure", "packets", "links"}
  /\ Init /\ AccountInit /\ KeysInit /\ DeskInit /\ ShareInit
  /\ subject = "commerce" \/ grant.records = 0
PartsNext ==
  /\ UNCHANGED subject
  /\ \/ /\ subject = "commerce" /\ Next
        /\ UNCHANGED <<accountVars, keyVars, deskVars, shareVars>>
     \/ /\ (subject = "addresses" /\ AddressesMove) \/ (subject = "sessions" /\ SessionsMove)
        /\ UNCHANGED <<vars, keyVars, deskVars, shareVars>>
     \/ /\ \/ subject = "seats" /\ (SeatsNext \/ \E r \in Routes : Fails(r))
           \/ subject = "licence" /\ BarNext
           \/ subject = "staff" /\ (StaffNext \/ \E r \in Routes : Fails(r))
        /\ UNCHANGED <<vars, accountVars, deskVars, shareVars>>
     \/ /\ (subject = "money" /\ MoneyMoves) \/ (subject = "erasure" /\ ErasureMoves)
        /\ UNCHANGED <<vars, accountVars, keyVars, shareVars>>
     \/ /\ \/ subject = "packets" /\ UNCHANGED linkVars /\ ShareNext
           \/ subject = "links" /\ UNCHANGED <<consentVars, packetVars>> /\ ShareNext
        /\ UNCHANGED <<vars, accountVars, keyVars, deskVars>>
PartsSpec == PartsInit /\ [][PartsNext]_<<subject, vars, accountVars, keyVars, deskVars, shareVars>>
================================================================================
