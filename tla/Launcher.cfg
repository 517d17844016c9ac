CONSTANTS
  Modes = {"version", "verify", "compiler", "generator", "capnp", "generate"}
  Signals = {SIGINT, SIGTERM}
  Entries <- MCEntries
  Ancestors <- MCAncestors
  Shapes <- MCShapes
  Meddling = 2
  None = None
SPECIFICATION FairSpec
INVARIANTS NothingLost ExitTellsOutput
PROPERTIES StopHonoured StopEnds
CHECK_DEADLOCK FALSE
