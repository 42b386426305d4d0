SPECIFICATION Spec
CONSTANTS
  Writers = {w}
  Readers = {r}
  Entries = {e1, e2, e3}
  Counts = {3, 6, 132, 133}
  HEAD = HEAD
  POISON = POISON
  Rmmod = Rmmod
  NAME_MAX_SIZE = 128
  PROCFS_MAX_SIZE = 1024
  UINT = 65536
INVARIANTS
  TypeOK
  WellLinked
  Thorough
  ReadsWhole
  FaultsNeedDeletion
SYMMETRY Symmetry
PROPERTIES
  NameListSpec
  TextSpec
CHECK_DEADLOCK FALSE
