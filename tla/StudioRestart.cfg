CONSTANTS
  Paths = {"a.capnp", "notes.txt"}
  Schemas = {"a.capnp"}
  Contents = {"x", "huge"}
  Huge = "huge"
  Sources <- MCSources
  Languages = {cpp, go}
  First = cpp
  MaxFiles = 2
  MaxRevision = 2
  MaxWaiting = 2
  None = None
SPECIFICATION Spec
INVARIANTS RunLeavesJobAlone
CHECK_DEADLOCK FALSE
