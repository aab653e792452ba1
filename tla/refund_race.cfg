SPECIFICATION Spec
CONSTANTS
  s1 = s1
  s2 = s2
  d1 = d1
  d2 = d2
  Docs = {d1, d2}
  Slots = {s1}
  Ops = {"records", "refund"}
  AutoApprove = FALSE
  Screens = 1
  MaxRequests = 4
  MaxFaults = 0
SYMMETRY Symmetric
CHECK_DEADLOCK FALSE
INVARIANT RefundedStaysRefunded
