SPECIFICATION FairSpec
CONSTANTS
  N = 3
  Lock <- RwLock
  Checks <- RwChecks
  Signals = TRUE
  MayFail = TRUE
INVARIANTS
  Exclusion
  LockReleased
PROPERTIES
  TextSpec
  UnloadCompletes
  RequestsGranted
CHECK_DEADLOCK FALSE
