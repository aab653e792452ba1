----------------------------- MODULE MCCaseAndPages ------------------------------
(***************************************************************************)
(* The pipeline of a case and, apart from it, two pages of its family: the  *)
(* purchase of a review, and the documents page. subject says which of them *)
(* moves, and of the documents page what it is given: a zip, one file, a    *)
(* zip and a file in one batch, or files dropped on it while it is busy.    *)
(* The others rest.                                                         *)
(***************************************************************************)
EXTENDS MCAnalysisPipeline, DocumentsPage, FamilyCheckout
CONSTANTS b1, b2, f1, f2, p3, u1, u2
VARIABLE subject

\* Two visits are of one buyer, and as alike as the request handlers are.
MCBuyerOf == [q \in Slots |-> u1] @@ p3 :> u2

OneBatch(files, most) ==
  PageNext /\ batch'[b2] = Resting /\ wanted' \subseteq files /\ gestures' <= most
NoButtons(Moves) == UNCHANGED <<read, running>> /\ Moves /\ get'[Hand] = NoGet
\* Of two batches that are alike the second is taken for the drop; no poll beside them.
Dropped ==
  /\ NoButtons(PageNext) /\ Zip \notin wanted' /\ gestures' <= 2
  /\ get'[Timer] = NoGet
  /\ batch'[b2] = Resting \/ Active /= {}

\* One edit of the code changes one thing about it.
OneThing == Cardinality({x \in DOMAIN code : code'[x] /= code[x]}) <= 1

PartsInit ==
  /\ subject \in {"pipeline", "purchase", "zip", "file", "batch", "drop"}
  /\ Init /\ PageInit /\ CheckoutInit
  /\ subject = "purchase" \/ code.off = Amount
PartsNext ==
  /\ UNCHANGED subject
  /\ \/ subject = "pipeline" /\ Next /\ UNCHANGED <<docVars, checkoutVars>>
     \/ subject = "purchase" /\ CheckoutNext /\ OneThing /\ UNCHANGED <<vars, docVars>>
     \/ /\ \/ subject = "zip" /\ OneBatch({Zip}, 2)
           \/ subject = "file" /\ OneBatch({f1}, MaxGestures)
           \/ subject = "batch" /\ NoButtons(OneBatch({Zip, f1}, 2))
                                 /\ gestures' + breaks' <= 2
           \/ subject = "drop" /\ Dropped
        /\ UNCHANGED <<vars, checkoutVars>>
PartsSpec == PartsInit /\ [][PartsNext]_<<subject, vars, docVars, checkoutVars>>
================================================================================
