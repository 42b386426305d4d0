SPECIFICATION Spec
CONSTANTS
  INT_MAX = 31
  KMALLOC_MAX = 20
  Sizes <- MCSizes
PROPERTY CountsEveryPrime
CHECK_DEADLOCK FALSE
