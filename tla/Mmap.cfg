SPECIFICATION Spec
CONSTANTS
  Files = {f1, f2}
  Vmas = {v1, v2}
  MAX_PAGES = 3
  MaxLen = 4
  NoFile = NoFile
INVARIANTS
  ShowsStampedArea
PROPERTIES
  StoresSurvive
CHECK_DEADLOCK FALSE
