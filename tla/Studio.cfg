CONSTANTS
  Paths = {"a.capnp", "notes.txt"}
  Schemas = {"a.capnp"}
  Contents = {"x", "huge"}
  Huge = "huge"
  Sources <- MCSources
  Languages = {cpp, go}
  First = cpp
  MaxFiles = 2
  MaxRevision = 2
  MaxWaiting = 1
  None = None
SPECIFICATION FairSpec
INVARIANTS OutputsCurrent SlotsAgree OneClient
PROPERTIES EditsKept RestartServed
CHECK_DEADLOCK FALSE
