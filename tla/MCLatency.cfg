\* A looping caller and one that names an end; two windows of two blocks.
CONSTANTS
  Needed = {source, target}
  Feeds <- TwoFeeds
  Updaters = {u1, u2}
  AutoUpdaters = {u1}
  Ends <- OnlySome
  GlobalFrom = 1
  PricedFrom = 3
  Frequency = 2
  MaxBlock = 7
  MaxInt = 10
  MaxExits = 1
SPECIFICATION FairSpec
INVARIANTS TypeOK NoWindowSkipped SameAsOneCall WindowsArePriced
PROPERTY EveryWindowIsTried
CHECK_DEADLOCK FALSE
