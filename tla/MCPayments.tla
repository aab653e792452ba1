------------------------------- MODULE MCPayments -------------------------------
(***************************************************************************)
(* Instances of Payments for TLC: model values for the checkout sessions,  *)
(* the handlers and the operator's intents.                                *)
(***************************************************************************)
EXTENDS Payments, TLC

CONSTANTS review, rerun, overage, h1, h2, sweep, i1, i2

Symmetric == Permutations(Handlers) \cup Permutations(Intents)
================================================================================
