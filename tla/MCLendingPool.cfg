\* A crawler in either direction, the request that seeds the range, an exit.
CONSTANTS
  Actions <- FiveActions
  Rank <- Order
  NoData <- Switches
  NotKept <- FlashLoans
  Unknown <- Pauses
  BlockContents <- AnyBlock
  Crawlers = {w1}
  Callers = {c1}
  CreateBlock = 1
  InitialHead = 2
  MaxBlock = 4
  EachUpdateAmount = 3
  MaxInt = 9
  MaxDirections = 1
  MaxExits = 1
  MaxCalls = 1
SPECIFICATION FairSpec
INVARIANTS TypeOK OverallIsStored
PROPERTIES ForwardCatchesUp ReverseReachesCreation
CHECK_DEADLOCK FALSE
