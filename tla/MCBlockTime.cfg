\* One automatic update and a request, three chunks at most.
CONSTANTS
  Loops = {a1}
  Callers = {c1}
  FirstBlock = 10
  StartBlock = 10
  InitialHead = 12
  MaxBlock = 13
  EachUpdateAmount = 2
  PNum = 2
  MaxOthers = 1
  MaxRequests = 1
  MaxErrors = 1
SPECIFICATION FairSpec
INVARIANTS TypeOK RangeIsStored
PROPERTIES ExitsOnlyNearHead CallEnds AutoUpdateEnds
CHECK_DEADLOCK FALSE
