\* Crawlers started by one click or by a button each; what holds of the latter.
CONSTANTS
  PricesTo = 1
  PoolTo = 2
  InitialHead = 4
  MaxBlock = 6
  PriceAmount = 1
  PoolAmount = 3
SPECIFICATION FairSpec
INVARIANTS TypeOK OwnRangeIsCrawled
PROPERTY OwnCatchUp
CHECK_DEADLOCK FALSE
