SPECIFICATION FairSpec
CONSTANTS
  Scripts = {p, q, r}
  Departed = {g}
  NoDirectory = NoDirectory
INVARIANTS TakeTurns
PROPERTIES WaitersServed
CHECK_DEADLOCK FALSE
