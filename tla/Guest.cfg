CONSTANTS
  Interval = 5
  None = None
  Programs <- MCPrograms
  Sleepers = {2}
  MaxDepth = 3
SPECIFICATION FairSpec
INVARIANTS Faithful HonestResult
PROPERTIES HaltsAtOnce StopEndsGuest
CHECK_DEADLOCK FALSE
