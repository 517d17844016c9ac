SPECIFICATION FairSpec
CONSTANTS
  Jobs = {j1, j2}
  Creation = creation
  None = none
  HasCell = TRUE
  TokenRange = 2
INVARIANTS SerialWorker CancelHitsItsJob WorkersOwned
PROPERTIES WorkerKept CallsEnd ImplementsService
CHECK_DEADLOCK FALSE
