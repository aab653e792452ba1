----------------------------- MODULE MCMoneyAndGate -----------------------------
(***************************************************************************)
(* Checkout and fulfilment under the sweep's fairness and, apart from it,   *)
(* the evaluation gate: one trial, two of them while the gate is read, or   *)
(* two of them and the console's page. subject says which of them moves;    *)
(* the others rest.                                                         *)
(***************************************************************************)
EXTENDS MCPayments, EvalRuns
VARIABLE subject

MCLedgers == <<"la", "lb">>
\* Of two requests that are alike the first is sent first.
Starts == EvalNext /\ (starter'[h2] /= NoStart => starter'[h1] /= NoStart)
OneTrial == Starts /\ looks' = 0 /\ reading' = NoReading /\ starter'[h2] = NoStart /\ Len(trial') <= 1
\* Until they are scored two drivers do not meet: the first goes first. A request for both
\* ledgers names them in their order.
Hidden == {"start", "ingest", "digitize", "analysis"}
InTurn ==
  /\ Starts
  /\ Len(trial') > Len(trial) =>
       \A s \in Starters : starter'[s] /= starter[s] => Ledgers[1] \notin starter'[s].left
  /\ \A i \in DOMAIN trial' :
       /\ trial'[i].cost + trial'[i].unbooked <= 1 /\ trial'[i].barred = 0
       /\ trial'[i].copied <= trial'[i].read + 1
       /\ trial'[i].read < trial'[i].copied \/ trial'[i].unbooked > 0 => trial'[i].pc /= "none"
  /\ \A i \in Trials : trial'[i] /= trial[i] /\ trial[i].pc \in Hidden /\ trial'[i].pc /= "none" =>
       \A j \in 1 .. i - 1 : trial[j].pc \notin Hidden /\ trial[j].read = trial[j].copied /\ trial[j].unbooked = 0
GateRead == InTurn /\ looks' = 0
ConsoleMoves ==
  /\ InTurn /\ reading' = NoReading /\ misfires' = 0
  /\ \A i \in DOMAIN trial' :
       trial'[i].ledger = Ledgers[1] /\ (trial'[i].pc \in {"score", "audit"} => trial'[i].found > 0)

PartsInit ==
  /\ subject \in {"money", "trial", "gate", "console"}
  /\ Init /\ EvalInit
PartsNext ==
  /\ UNCHANGED subject
  /\ \/ subject = "money" /\ Next /\ UNCHANGED evalVars
     \/ /\ \/ subject = "trial" /\ OneTrial
           \/ subject = "gate" /\ GateRead
           \/ subject = "console" /\ ConsoleMoves
        /\ UNCHANGED vars
\* Payments' Fairness, where Payments moves.
PartsSpec ==
  /\ PartsInit /\ [][PartsNext]_<<subject, vars, evalVars>>
  /\ WF_vars(subject = "money" /\ Sweep)
  /\ \A h \in Handlers : WF_vars(subject = "money" /\ Continue(h))
================================================================================
