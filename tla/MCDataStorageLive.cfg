\* Two auto_update threads, an operator request and summary refreshes, on a
\* chain that is not reorganised; the process does not exit.
CONSTANTS
  p1 = p1
  p2 = p2
  v1 = v1
  v2 = v2
  Pairs = {p1}
  Workers = {w1, w2}
  Callers = {c1}
  Values = {v1}
  BlockContents <- OneLog
  StartBlock = 1
  InitialHead = 1
  MaxBlock = 3
  EachUpdateAmount = 1
  SwitchBlock <- NoSwitch
  MaxReorgs = 0
  MaxCrashes = 0
  MaxRefreshes = 2
  MaxCalls = 1
SPECIFICATION FairSpec
INVARIANT SummaryIsStored
PROPERTIES PricesFollowTheChain AutoUpdateCatchesUp
CHECK_DEADLOCK FALSE
