CONSTANTS
  Flavors = {"full", "runtime"}
  GoSdk = {"full"}
  GoTag = "go"
  Files = {"shared", "go", "host"}
  Commits = {1, 2}
  Tracked <- MCTracked
  MaxStarts = 3
  MaxMoves = 2
  None = None
SPECIFICATION Spec
INVARIANTS ArchiveWhole OneSource
CHECK_DEADLOCK FALSE
