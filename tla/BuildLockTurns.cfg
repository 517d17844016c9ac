SPECIFICATION LockSpec
CONSTANTS
  Scripts = {p, q, r}
  Departed = {g}
  NoDirectory = NoDirectory
INVARIANTS MutualExclusion
CHECK_DEADLOCK FALSE
