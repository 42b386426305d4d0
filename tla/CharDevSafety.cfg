SPECIFICATION Spec
CONSTANTS
  Files = {f1, f2}
  Calls = {c1, c2}
  BUFSIZ = 4
  BUFFER_SIZE = 2
  MaxCount = 3
  EarlyOpen = FALSE
INVARIANTS
  Exclusive
  NeverStuck
PROPERTY TextSpec
CHECK_DEADLOCK FALSE
