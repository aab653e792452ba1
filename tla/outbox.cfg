SPECIFICATION PartsSpec
CONSTANTS
  p1 = p1
  p2 = p2
  Publishers = {p1, p2}
  MaxEvents = 2
  BatchSize = 2
  Holds = {"OCR_HALT"}
  Moves = {"DOCS_COMPLETE", "DELETED"}
  MaxFaults = 1
  Checks = 2
  NoStep = none
  Paper = paper
  MaxTakes = 2
  MaxBeats = 1
  MaxPolls = 1
  MaxSnags = 1
CHECK_DEADLOCK FALSE
INVARIANTS
  StampedWasHeard
  ClaimsAreDisjoint
  ProgressIsReal
  NewsIsNotOlderThanItsEvent
PROPERTIES
  ImplementsFeed
  PageCatchesUp
