SPECIFICATION Spec
CONSTANTS
  review = review
  rerun = rerun
  overage = overage
  h1 = h1
  h2 = h2
  sweep = sweep
  i1 = i1
  i2 = i2
  Review = review
  Reruns = {}
  Overages = {}
  CaseEnds = {"GONE"}
  Price = 2
  Contested = {review}
  Handlers = {h1, h2}
  Sweeper = sweep
  Intents = {i1}
  MaxRefunds = 1
  MaxFaults = 0
CHECK_DEADLOCK FALSE
INVARIANT RollupIsTheRows
