SPECIFICATION FairSpec
CONSTANTS
  p1 = p1
  c1 = c1
  e1 = e1
  Clients = {p1, c1, e1}
  Program <- TestAndChild
  MayDie = TRUE
  EarlyOpen = {e1}
INVARIANTS
  TypeOK
  ExpectedSums
  CleanHandover
PROPERTY TestsEnd
CHECK_DEADLOCK FALSE
