------------------------------- MODULE EventFeed -------------------------------
(***************************************************************************)
(* What the case-event outbox promises its readers, and nothing about how: *)
(* an event that was committed is heard, at least once, on the case's      *)
(* channel; an event that never committed is not heard at all              *)
(* (packages/database/events.ts, "at-least-once").                         *)
(***************************************************************************)
CONSTANT Events

VARIABLES
  committed,  \* the events of committed transactions
  heard       \* the events published on the channel, once or more often

vars == <<committed, heard>>

Init == committed = {} /\ heard = {}

Commit(e) ==
  /\ e \notin committed
  /\ committed' = committed \cup {e}
  /\ UNCHANGED heard

Hear(e) ==
  /\ e \in committed \ heard
  /\ heard' = heard \cup {e}
  /\ UNCHANGED committed

Next == \E e \in Events : Commit(e) \/ Hear(e)

SafeSpec == Init /\ [][Next]_vars

Spec == SafeSpec /\ \A e \in Events : WF_vars(Hear(e))
================================================================================
