CONSTANTS
  Names = {a, b}
  Unfit = {b}
  NewInodes = {1, 2}
  MaxOutput = 1
  MaxStdout = 2
  MaxRequest = 1
  MaxStderr = 1
  MaxEntries = 2
  MaxPath = 1
  MaxFds = 5
  MaxTable = 5
  Jobs <- MCJobs
  None = None
SPECIFICATION Spec
INVARIANTS ResourcesExact InputsKept WalkAgrees FailureNamesCause
CHECK_DEADLOCK FALSE
