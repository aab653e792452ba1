--------------------------- MODULE MCCaseEventOutbox ---------------------------
(***************************************************************************)
(* Instance of CaseEventOutbox for TLC: model values for the api processes. *)
(***************************************************************************)
EXTENDS CaseEventOutbox

CONSTANTS p1, p2
================================================================================
