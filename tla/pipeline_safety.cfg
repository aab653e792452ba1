SPECIFICATION PartsSpec
CONSTANTS
  s1 = s1
  s2 = s2
  d1 = d1
  d2 = d2
  Docs = {d1, d2}
  Slots = {s1, s2}
  Ops = {"records", "rerun", "approve", "qaRerun", "qaReject", "resume", "reanalyze", "republish", "refund", "delete"}
  AutoApprove = TRUE
  Screens = 1
  MaxRequests = 3
  MaxFaults = 1
  b1 = b1
  b2 = b2
  f1 = f1
  f2 = f2
  Papers = {f1, f2}
  Zip = zip
  Inside = inside
  Batches = {b1, b2}
  Hand = hand
  Timer = timer
  Cap = 1
  PollBudget = 1
  MaxSkew = 1
  MaxGestures = 3
  MaxBreaks = 1
  p3 = p3
  u1 = u1
  u2 = u2
  Pages = {s1, s2, p3}
  BuyerOf <- MCBuyerOf
  Amount = 2
  Offs = {1, 2}
  Redemptions = 2
  Monthly = 2
  Caps = {0, 1}
  MaxRare = 1
SYMMETRY Symmetric
CHECK_DEADLOCK FALSE
INVARIANTS
  TypeOK
  JobIdGuardsTheRun
  ReleasedReportIsOfACompletedRun
  ClockBeforeAnalysis
  NeverAnalysedTwice
  FirstAnalysisIsNotSwallowed
  DeletionMissesOnlyTheInFlight
  FilesAccountedFor
  BoughtAsAgreed
PROPERTIES
  DeletedStaysGone
  SettledStaysSettled
