---------------------------- MODULE MCCaseAndFindings ----------------------------
(***************************************************************************)
(* The pipeline of a case under its workers' fairness and, apart from it,   *)
(* the findings of its runs: one run of screens that answer anything, or    *)
(* two runs and their reports. subject says which of them moves; the others *)
(* rest.                                                                    *)
(***************************************************************************)
EXTENDS MCAnalysisPipeline, FindingsReview
CONSTANTS g1, e1, e2
VARIABLE subject

Says(weight, category, preserved, harm, partA, grounds) ==
  [weight |-> weight, category |-> category, preserved |-> preserved,
   harm |-> harm, partA |-> partA, grounds |-> grounds]
MCAnswers ==
  { Says(1, "record", "yes", "none", "plain", TRUE), Says(2, "record", "yes", "none", "plain", TRUE),
    Says(1, "record", "yes", "none", "advises", TRUE), Says(2, "record", "no", "none", "plain", TRUE),
    Says(2, "outside", "unknown", "structural", "plain", TRUE), Says(1, "sentence", "no", "none", "plain", FALSE) }
MCPlan == <<"record", "outside">>
MCChanges ==
  { [field |-> "preserved", to |-> "no"], [field |-> "harm", to |-> "structural"],
    [field |-> "partA", to |-> "advises"], [field |-> "partA", to |-> "plain"] }

\* One run, its corrections, and no report but the gate's.
OneRun ==
  /\ ReviewNext /\ runNo' = 1 /\ tries'.reissues = 0 /\ tries'.mishaps = 0
  /\ \A e \in Staff : desk'[e].pc \in {"idle", "patch"}
\* Two runs whose first screen finds what is of the record and preserved, if it finds
\* anything; no corrections, and three reports.
Reports ==
  /\ ReviewNext /\ tries'.patches = 0 /\ (engine'.pc /= "idle" => engine'.dropped = 0)
  /\ \A q \in Passages : finding'[q] /= NoRow =>
       /\ finding'[q].screen = "record" /\ finding'[q].category = "record"
       /\ finding'[q].preserved = "yes" /\ finding'[q].weight = 1
  /\ Len(released') <= 3

PartsInit ==
  /\ subject \in {"pipeline", "findings", "reports"}
  /\ Init /\ ReviewInit
PartsNext ==
  /\ UNCHANGED subject
  /\ \/ subject = "pipeline" /\ Next /\ UNCHANGED reviewVars
     \/ /\ (subject = "findings" /\ OneRun) \/ (subject = "reports" /\ Reports)
        /\ UNCHANGED vars
\* The fairness is the pipeline's: the invariants are checked in every state, what
\* must eventually happen only where the pipeline moves.
PartsSpec ==
  /\ PartsInit /\ [][PartsNext]_<<subject, vars, reviewVars>>
  /\ Fairness
================================================================================
