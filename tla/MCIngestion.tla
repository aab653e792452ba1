---------------------------- MODULE MCIngestion ----------------------------
(***************************************************************************)
(* Several parts in one run. subject says which of them moves; the others   *)
(* rest in one initial state, so that their state spaces add and do not     *)
(* multiply.                                                                *)
(***************************************************************************)
EXTENDS Ingestion, CaseFacts, DeadlineClocks, TLC
CONSTANTS fa, fb, r1, r2, q1, unz, e1, e2
VARIABLE subject

Page(t, l) == [text |-> t, low |-> l]
MCFileOf ==
  fa :> [pages |-> <<Page("p", FALSE)>>, infected |-> FALSE, item |-> "i",
         confidence |-> "high", volume |-> "REPORTER"]
  @@ fb :> [pages |-> <<Page("p", TRUE), Page("", TRUE), Page("p", TRUE)>>, infected |-> FALSE, item |-> "i",
            confidence |-> "low", volume |-> "UNKNOWN"]
MCArchive == <<fb>>
Symmetric == Permutations(Readers) \cup Permutations(Editors)

PartsInit ==
  /\ subject \in {"ingestion", "facts", "clock"}
  /\ IngestInit /\ FactsInit /\ ClockInit
  /\ subject = "facts" \/ (matter = None /\ row.facts.plea = None)
  /\ subject = "clock" \/ vehicle = "2254"
PartsNext ==
  /\ UNCHANGED subject
  /\ \/ subject = "ingestion" /\ IngestNext /\ UNCHANGED <<factsVars, clockVars>>
     \/ subject = "facts" /\ FactsNext /\ UNCHANGED <<ingestVars, clockVars>>
     \/ subject = "clock" /\ ClockNext /\ UNCHANGED <<ingestVars, factsVars>>
PartsSpec == PartsInit /\ [][PartsNext]_<<subject, ingestVars, factsVars, clockVars>>
================================================================================
