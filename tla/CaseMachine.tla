------------------------------ MODULE CaseMachine ------------------------------
(***************************************************************************)
(* The canonical case state machine: the pure functions of                 *)
(* packages/case-lifecycle/machine.ts.  It keeps no state of its own; the  *)
(* modules that move a case (AnalysisPipeline, CaseEventOutbox) are built  *)
(* on it, as the routes, workers and services are built on the package.    *)
(***************************************************************************)
EXTENDS Naturals

CaseStatuses ==
  {"DRAFT", "AWAITING_DOCS", "DOCS_COMPLETE", "QUOTED", "DIGITIZING",
   "ANALYZING", "ADJUDICATING", "QA_REVIEW", "QA_REJECTED", "READY",
   "DELIVERED", "REFUNDED", "DELETED"}

CaseHolds == {"OCR_HALT", "DELAY_OURS", "SUBSEQUENT_WRIT_MODE"}

\* FORWARD: the transitions of the review itself, without refund and deletion.
Forward ==
  [ DRAFT         |-> {"AWAITING_DOCS"},
    AWAITING_DOCS |-> {"DOCS_COMPLETE"},
    DOCS_COMPLETE |-> {"DIGITIZING", "QUOTED"},
    QUOTED        |-> {"DIGITIZING"},
    DIGITIZING    |-> {"ANALYZING"},
    ANALYZING     |-> {"ADJUDICATING"},
    ADJUDICATING  |-> {"QA_REVIEW"},
    QA_REVIEW     |-> {"QA_REJECTED", "READY"},
    QA_REJECTED   |-> {"ANALYZING", "QA_REVIEW"},
    READY         |-> {"DELIVERED", "AWAITING_DOCS"},
    DELIVERED     |-> {"AWAITING_DOCS"},
    REFUNDED      |-> {},
    DELETED       |-> {} ]

\* A refund reaches every state but the two ends, a deletion every state but
\* itself.
LegalTransitions(from) ==
  Forward[from]
    \cup (IF from \notin {"REFUNDED", "DELETED"} THEN {"REFUNDED"} ELSE {})
    \cup (IF from # "DELETED" THEN {"DELETED"} ELSE {})

\* isLegalTransition, and assertTransition, which throws when it is false.
IsLegalTransition(from, to) == to \in LegalTransitions(from)

CustomerStages ==
  {"awaiting_documents", "docs_received", "digitizing", "analyzing",
   "quality_review", "ready", "delivered", "refunded", "deleted"}

StageOfStatus ==
  [ DRAFT         |-> "awaiting_documents",
    AWAITING_DOCS |-> "awaiting_documents",
    DOCS_COMPLETE |-> "docs_received",
    QUOTED        |-> "docs_received",
    DIGITIZING    |-> "digitizing",
    ANALYZING     |-> "analyzing",
    ADJUDICATING  |-> "analyzing",
    QA_REVIEW     |-> "quality_review",
    QA_REJECTED   |-> "quality_review",
    READY         |-> "ready",
    DELIVERED     |-> "delivered",
    REFUNDED      |-> "refunded",
    DELETED       |-> "deleted" ]

\* An OCR halt outranks a delay of ours; the stage never depends on a hold.
CustomerView(status, holds) ==
  [ stage |-> StageOfStatus[status],
    overlay |-> CASE "OCR_HALT" \in holds   -> "needs_your_help"
                  [] "OCR_HALT" \notin holds /\ "DELAY_OURS" \in holds
                                            -> "delay_ours"
                  [] OTHER                  -> "none",
    subsequentWritMode |-> "SUBSEQUENT_WRIT_MODE" \in holds ]
================================================================================
