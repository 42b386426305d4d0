SPECIFICATION CancelSpec
CONSTANTS
  Callers = {c1}
  Tasks = {t1}
  MonProcs = {p1}
  Cmds = {"SET", "CANCEL", "ALLOC", "MON"}
  EarlyOpen = FALSE
  GetProcMayFail = FALSE
  NULL = NULL
  ErrPtr = ErrPtr
INVARIANT CancelIsFinal
CHECK_DEADLOCK FALSE
