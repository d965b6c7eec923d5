\* The auto-update thread loops, a request of the page runs beside it, the
\* process exits once.
CONSTANTS
  Pairs = {p1}
  Logs <- SomeLogs
  LastBlock = 3
  Updaters = {u1, u2}
  AutoUpdaters = {u1}
  Ranges <- NoRanges
  MaxInt = 9
  MaxExits = 1
SPECIFICATION FairSpec
INVARIANTS TypeOK MeansAreOfWholeBlocks NothingSkipped
PROPERTY ReportedBlocksGetPrices
