SPECIFICATION Spec
CONSTANTS
  Callers = {c1, c2}
  Tasks = {t1, t2}
  MonProcs = {p1, p2}
  Cmds <- AllCmds
  EarlyOpen = TRUE
  GetProcMayFail = TRUE
  NULL = NULL
  ErrPtr = ErrPtr
SYMMETRY Symmetry
INVARIANTS
  TypeOK
  LockOwned
  EntriesOwned
  CursorSafe
  UsageExact
  TornDown
PROPERTIES
  ReapsOnlyTheDead
  TextSpec
CHECK_DEADLOCK FALSE
