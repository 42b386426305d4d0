SPECIFICATION FairSpec
CONSTANTS
  Callers = {c1, c2}
  Tasks = {t1}
  MonProcs = {p1}
  Cmds <- RearmingCmds
  EarlyOpen = FALSE
  GetProcMayFail = FALSE
  NULL = NULL
  ErrPtr = ErrPtr
PROPERTIES
  DeadAreReaped
  KeepsTicking
  UnloadCompletes
