SPECIFICATION FairSpec
CONSTANTS
  Calls = {c1, c2}
  Closers = {k1, k2}
  MaxJobs = 1
INVARIANTS CloseIsSafe SlotsBoundGuests
PROPERTIES GaveUpReleases CloseReturns
CHECK_DEADLOCK FALSE
