--------------------------- MODULE MCEventsAndFeed ---------------------------
(***************************************************************************)
(* The event spine under its loops' fairness and, apart from it, what the   *)
(* status page makes of the events and pulses it is sent: two runs, or a    *)
(* document read beside the start of one. subject says which of them moves; *)
(* the others rest.                                                         *)
(***************************************************************************)
EXTENDS MCCaseEventOutbox, ProgressFeed
VARIABLE subject

\* The outbox is at most two events behind, and one thing is out of the ordinary.
Runs == FeedNext /\ paper' = "unread" /\ Len(facts') - told' <= 2 /\ spent'.beats + spent'.snags <= 1
Reading == FeedNext /\ analysis'.at = 0 /\ Len(facts') - told' <= 1 /\ spent'.beats + spent'.snags <= 1

PartsInit ==
  /\ subject \in {"outbox", "runs", "reading"}
  /\ Init /\ FeedInit
PartsNext ==
  /\ UNCHANGED subject
  /\ \/ subject = "outbox" /\ Next /\ UNCHANGED feedVars
     \/ /\ (subject = "runs" /\ Runs) \/ (subject = "reading" /\ Reading)
        /\ UNCHANGED vars
\* The fairness is the outbox's: the invariants are checked in every state, what
\* must eventually happen only where the outbox moves.
PartsSpec ==
  /\ PartsInit /\ [][PartsNext]_<<subject, vars, feedVars>>
  /\ Fairness
================================================================================
