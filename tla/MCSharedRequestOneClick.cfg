\* Whether it holds of crawlers that auto_main gives one request, too.
CONSTANTS
  PricesTo = 1
  PoolTo = 2
  InitialHead = 4
  MaxBlock = 6
  PriceAmount = 1
  PoolAmount = 3
SPECIFICATION Spec
INVARIANT RangeIsCrawled
CHECK_DEADLOCK FALSE
