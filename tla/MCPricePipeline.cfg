\* One crawler, one operator request, one block price updater, one exit; the
\* summary page never meets a half crawled block.
CONSTANTS
  p1 = p1
  v1 = v1
  Pairs = {p1}
  Workers = {w1}
  Callers = {c1}
  Values = {v1}
  BlockContents <- TwoLogs
  StartBlock = 1
  InitialHead = 2
  MaxBlock = 3
  EachUpdateAmount = 1
  SwitchBlock <- NoSwitch
  MaxReorgs = 0
  MaxCrashes = 1
  MaxRefreshes = 2
  MaxCalls = 1
  Updaters = {u1}
  AutoUpdaters = {u1}
  Ranges <- NoRanges
  MaxInt = 9
  QuietRefresh = TRUE
SPECIFICATION PipelineSpec
PROPERTY BlockPricesRestOnTheCrawl
INVARIANT PricesUseAllData
CHECK_DEADLOCK FALSE
