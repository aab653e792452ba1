------------------------------ MODULE CoveredReview ------------------------------
(***************************************************************************)
(* What the counsel price is for: a review is analysed only while something *)
(* covers it, and whatever covers one review covers no other.              *)
(***************************************************************************)
CONSTANTS Cases, Covers

VARIABLES
  cover,    \* what covers each case
  analysed  \* the cases whose analysis has started

Init == cover = [c \in Cases |-> {}] /\ analysed = {}

Settle(c, k) ==
  /\ \A d \in Cases : k \notin cover[d]
  /\ cover' = [cover EXCEPT ![c] = @ \cup {k}]
  /\ UNCHANGED analysed

\* Money that goes back covers nothing any more.
Withdraw(c, k) ==
  /\ k \in cover[c]
  /\ cover' = [cover EXCEPT ![c] = @ \ {k}]
  /\ UNCHANGED analysed

Analyse(c) ==
  /\ cover[c] # {}
  /\ analysed' = analysed \cup {c}
  /\ UNCHANGED cover

Moves == \E c \in Cases : \E k \in Covers : Settle(c, k) \/ Withdraw(c, k)

\* Both moves change the cover; saying so first spares TLC the search on every other step.
Next == (\E c \in Cases : Analyse(c)) \/ (cover' # cover /\ Moves)

Spec == Init /\ [][Next]_<<cover, analysed>>
================================================================================
