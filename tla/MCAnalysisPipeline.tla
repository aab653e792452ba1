--------------------------- MODULE MCAnalysisPipeline ---------------------------
(***************************************************************************)
(* Instances of AnalysisPipeline for TLC: model values for the handlers    *)
(* and the documents, and the permutations they may be reduced by.         *)
(***************************************************************************)
EXTENDS AnalysisPipeline, TLC

CONSTANTS s1, s2, d1, d2

Symmetric == Permutations(Slots) \cup Permutations(Docs)
================================================================================
