SPECIFICATION PartsSpec
CONSTANTS
  s1 = s1
  s2 = s2
  d1 = d1
  d2 = d2
  Docs = {d1}
  Slots = {s1, s2}
  Ops = {"records", "rerun", "approve", "qaRerun", "resume", "reanalyze", "republish", "refund", "delete"}
  AutoApprove = TRUE
  Screens = 1
  MaxRequests = 2
  MaxFaults = 2
  g1 = g1
  e1 = e1
  e2 = e2
  Passages = {g1}
  Answers <- MCAnswers
  Plan <- MCPlan
  Samples = 2
  Staff = {e1, e2}
  Licensed = {e1}
  Changes <- MCChanges
  MaxRuns = 2
  MaxPatches = 2
  MaxReissues = 2
  MaxMishaps = 1
CHECK_DEADLOCK FALSE
INVARIANTS VehicleFollows FamilyReadsWhatPassed
PROPERTY CompleteRecordIsDecided
