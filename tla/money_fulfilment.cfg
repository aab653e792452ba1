SPECIFICATION PartsSpec
CONSTANTS
  review = review
  rerun = rerun
  overage = overage
  h1 = h1
  h2 = h2
  sweep = sweep
  i1 = i1
  i2 = i2
  Review = review
  Reruns = {rerun}
  Overages = {overage}
  CaseEnds = {"READY", "GONE"}
  Price = 1
  Contested = {}
  Handlers = {h1}
  Sweeper = sweep
  Intents = {}
  MaxRefunds = 0
  MaxFaults = 2
  Ledgers <- MCLedgers
  Volumes = 2
  Floor = 2
  Starters = {h1, h2}
  Window = 3
  MaxTrials = 2
  MaxMisfires = 1
  MaxLooks = 2
CHECK_DEADLOCK FALSE
INVARIANTS DeliveredOnce GateIsEarned
PROPERTY PaidIsDelivered
