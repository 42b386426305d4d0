SPECIFICATION Spec
CONSTANTS
  INT_MAX = 31
  KMALLOC_MAX = 20
  Sizes <- MCSizes
INVARIANTS
  NoOverflow
PROPERTIES
  CountsPrimes
CHECK_DEADLOCK FALSE
