------------------------------- MODULE Accounts -----------------------------
(***************************************************************************)
(* One account: its addresses (me.ts), its password (me.ts,                 *)
(* auth-recovery.ts) and the sessions signed in with it (auth-options.ts).  *)
(* Every route reads the User row, checks it, and later writes the columns  *)
(* it owns by id alone; bcrypt lies between. A session is a token in its    *)
(* device: what ends it is the comparison of two clocks at its refresh, the *)
(* change in milliseconds against an issue time in whole seconds.           *)
(***************************************************************************)
EXTENDS Naturals, FiniteSetsExt

CONSTANTS
  Devices,      \* browsers
  Calls,        \* requests in flight
  Primary,      \* the address the account was opened with
  Spare,        \* the other addresses its owner has
  Foreign,      \* addresses that are another account's sign-in
  NoAddress,    \* no address
  NoDevice,     \* a request no session is behind
  MaxSignInTries, \* sign-in attempts in a window; 5 in the code
  MaxTime,      \* bounds time, in half seconds
  MaxCalls,     \* bounds the requests made
  MaxOutages    \* bounds the refreshes that cannot read the row

VARIABLES
  time,       \* now, in half seconds
  user,       \* the User row
  session,    \* Devices -> the session there, and the sign-in under way
  call,       \* Calls -> the request in flight, with the row it read
  tries,      \* the rate limiter's count for the address
  calls,      \* requests made so far
  outages,    \* refreshes that could not read the row
  crossed     \* history: a request wrote over addresses other than those it read

accountVars == <<time, user, session, call, tries, calls, outages, crossed>>

Addresses == {Primary} \cup Spare \cup Foreign
Second(t) == t \div 2
NoCall == [op |-> "none"]
\* baseline: the later of the token's issue and its acknowledgement, in seconds.
\* password and straddled are history: the password the device knows, and whether
\* that changed too close to the token's making for its clock to tell.
NoSession == [live |-> FALSE, baseline |-> 0, owes |-> FALSE, checked |-> 0, password |-> 0, straddled |-> FALSE]
AddressesOf(u) == <<u.email, u.pending, u.backup, u.verified>>

AccountInit ==
  /\ time = 0 /\ tries = 0 /\ calls = 0 /\ outages = 0 /\ crossed = FALSE
  /\ user = [email |-> Primary, pending |-> NoAddress, backup |-> NoAddress, verified |-> FALSE,
             proved |-> NoAddress, reset |-> FALSE, password |-> 1, changedAt |-> 0]
  /\ session = [d \in Devices |-> NoSession]
  /\ call = [c \in Calls |-> NoCall]

Tick ==
  /\ time < MaxTime
  /\ time' = time + 1
  /\ UNCHANGED <<user, session, call, tries, calls, outages, crossed>>
-----------------------------------------------------------------------------
(* The addresses and the password *)

\* What a route refuses of the row it read; a link that was replaced is refused too.
Accepted(op, address) ==
  CASE op \in {"email", "backup"} -> address /= user.email /\ address \notin Foreign
    [] op = "confirm" -> user.pending /= NoAddress /\ user.pending \notin Foreign
    [] op = "verify" -> user.backup /= NoAddress /\ ~user.verified
    [] op = "forgot" -> address = user.email \/ (address = user.backup /\ user.verified)
    [] op = "reset" -> user.reset
    [] OTHER -> TRUE

CallRead(c, op, address, device) ==
  /\ call[c] = NoCall /\ calls < MaxCalls
  /\ Accepted(op, address)
  /\ call' = [call EXCEPT ![c] = [op |-> op, address |-> address, device |-> device, saw |-> user]]
  /\ calls' = calls + 1
  /\ UNCHANGED <<time, user, session, tries, outages, crossed>>

NoBackup(u) == [u EXCEPT !.backup = NoAddress, !.verified = FALSE]
\* Mutant: the backup that becomes the sign-in address stays.
ConfirmedFlawed(saw) == [user EXCEPT !.email = saw.pending, !.pending = NoAddress]
\* A backup that becomes the primary stops being a backup.
Confirmed(saw) ==
  LET moved == [user EXCEPT !.email = saw.pending, !.pending = NoAddress]
  IN  IF saw.backup = saw.pending THEN NoBackup(moved) ELSE moved

\* The columns a route writes, whatever the row holds by now.
Updated(op, address, saw) ==
  CASE op = "email" -> [user EXCEPT !.pending = address]
    [] op = "confirm" -> Confirmed(saw)
    [] op = "cancel" -> [user EXCEPT !.pending = NoAddress]
    [] op = "backup" -> [user EXCEPT !.backup = address, !.verified = FALSE]
    [] op = "verify" -> [user EXCEPT !.verified = TRUE, !.proved = saw.backup]
    [] op = "remove" -> NoBackup(user)
    [] op = "forgot" -> [user EXCEPT !.reset = TRUE]
    [] op = "password" -> [user EXCEPT !.password = @ + 1, !.changedAt = time]
    [] op = "reset" -> [user EXCEPT !.password = @ + 1, !.changedAt = time, !.reset = FALSE]

\* The device that changed its password is to refresh its session; the others' tell
\* the change by their clocks, if they can.
Told(d, r) ==
  LET s == session[d]
  IN  CASE ~s.live \/ r.op \notin {"password", "reset"} -> s
        [] s.live /\ r.op = "password" /\ d = r.device -> [s EXCEPT !.owes = TRUE, !.password = user.password + 1]
        [] OTHER -> [s EXCEPT !.straddled = @ \/ s.owes \/ s.baseline = Second(time)]

CallCommit(c) ==
  LET r == call[c]
  IN  /\ r /= NoCall
      /\ user' = Updated(r.op, r.address, r.saw)
      /\ session' = [d \in Devices |-> Told(d, r)]
      /\ call' = [call EXCEPT ![c] = NoCall]
      /\ crossed' = (crossed \/ AddressesOf(r.saw) /= AddressesOf(user))
      /\ UNCHANGED <<time, tries, calls, outages>>
-----------------------------------------------------------------------------
(* Sign-in and sessions *)

\* authorize counts the attempt first; the right password clears the count.
SignInRead(d) ==
  /\ ~session[d].live /\ session[d].checked = 0 /\ tries < MaxSignInTries
  /\ session' = [session EXCEPT ![d].checked = user.password]
  /\ tries' = 0
  /\ UNCHANGED <<time, user, call, calls, outages, crossed>>
WrongPassword ==
  /\ tries < MaxSignInTries
  /\ tries' = tries + 1
  /\ UNCHANGED <<time, user, session, call, calls, outages, crossed>>
WindowPasses ==
  /\ tries > 0
  /\ tries' = 0
  /\ UNCHANGED <<time, user, session, call, calls, outages, crossed>>

\* The jwt callback of a sign-in: the baseline is now.
SignIn(d) ==
  LET checked == session[d].checked
  IN  /\ checked > 0
      /\ session' = [session EXCEPT ![d] = [NoSession EXCEPT !.live = TRUE, !.baseline = Second(time),
                                              !.password = checked, !.straddled = checked /= user.password]]
      /\ UNCHANGED <<time, user, call, tries, calls, outages, crossed>>

\* Mutant: the issue time is compared as if it were in the change's unit.
StaleFlawed(baseline) == user.changedAt > baseline
Stale(baseline) == user.changedAt > 2 * baseline

\* The client's update after its own change acknowledges it.
Baseline(d) ==
  IF session[d].owes THEN Max({session[d].baseline, Second(time)}) ELSE session[d].baseline

\* The jwt callback of a later request; the token is made anew and its issue time with it.
Refresh(d) ==
  /\ session[d].live
  /\ session' = [session EXCEPT ![d] = IF Stale(Baseline(d)) THEN NoSession
                                         ELSE [@ EXCEPT !.baseline = Second(time), !.owes = FALSE]]
  /\ UNCHANGED <<time, user, call, tries, calls, outages, crossed>>

\* A refresh that cannot read the row skips the check, and the token is made anew all the same.
RefreshSkipped(d) ==
  /\ session[d].live /\ outages < MaxOutages
  /\ session' = [session EXCEPT ![d].baseline = Second(time), ![d].owes = FALSE]
  /\ outages' = outages + 1
  /\ UNCHANGED <<time, user, call, tries, calls, crossed>>

SignOut(d) ==
  /\ session[d].live
  /\ session' = [session EXCEPT ![d] = NoSession]
  /\ UNCHANGED <<time, user, call, tries, calls, outages, crossed>>

AccountNext ==
  \/ Tick \/ WrongPassword \/ WindowPasses
  \/ \E c \in Calls :
       \/ \E op \in {"email", "backup", "forgot"}, address \in Addresses :
            CallRead(c, op, address, NoDevice)
       \/ \E op \in {"confirm", "cancel", "verify", "remove", "reset"} :
            CallRead(c, op, NoAddress, NoDevice)
       \/ \E d \in Devices : session[d].live /\ CallRead(c, "password", NoAddress, d)
       \/ CallCommit(c)
  \/ \E d \in Devices :
       SignInRead(d) \/ SignIn(d) \/ Refresh(d) \/ RefreshSkipped(d) \/ SignOut(d)

AccountSpec == AccountInit /\ [][AccountNext]_accountVars
-----------------------------------------------------------------------------
\* The two addresses of an account are never the same one (me.ts), and a backup
\* that may receive a reset link was confirmed from a link sent to it; only two
\* requests that crossed can break either.
BackupIsAnother ==
  crossed \/ (user.backup /= NoAddress => /\ user.backup /= user.email
                                          /\ user.verified => user.proved = user.backup)

\* A session of an earlier password ends at its next refresh, and one of the
\* present password does not, unless its clock and the change's cannot tell: the
\* two are of one second, the sign-in or the acknowledgement straddled another
\* change, or a refresh went unchecked.
SessionsFollowPassword ==
  outages = 0 =>
    \A d \in Devices :
      session[d].live /\ ~session[d].straddled /\ Baseline(d) /= Second(user.changedAt) =>
        (Stale(Baseline(d)) <=> session[d].password /= user.password)

\* What leads into an account is its owner's: the address a reset link goes to,
\* and the sessions.
AccountIsItsOwners == BackupIsAnother /\ SessionsFollowPassword
=============================================================================
