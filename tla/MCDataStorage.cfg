\* One auto_update thread, an operator request and two summary refreshes; the
\* head block is reorganised once, the process exits once.
CONSTANTS
  p1 = p1
  p2 = p2
  v1 = v1
  v2 = v2
  Pairs = {p1}
  Workers = {w1}
  Callers = {c1}
  Values = {v1, v2}
  BlockContents <- TwoVersions
  StartBlock = 1
  InitialHead = 2
  MaxBlock = 3
  EachUpdateAmount = 1
  SwitchBlock <- NoSwitch
  MaxReorgs = 1
  MaxCrashes = 1
  MaxRefreshes = 2
  MaxCalls = 1
SPECIFICATION Spec
INVARIANTS TypeOK NoHoles SummaryIsStored
CHECK_DEADLOCK FALSE
