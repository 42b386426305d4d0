SPECIFICATION Lab13Spec
CONSTANTS
  Timeout = 3
  MaxLate = 2
  Wrap = 12
  Signals = TRUE
  KthreadMayFail = TRUE
INVARIANTS
  ExpiresInWindow
  StopsOnDemand
  ExitHeardThread
PROPERTIES
  MessagesApart
  KeepsPrinting
  HandshakeEnds
CHECK_DEADLOCK FALSE
