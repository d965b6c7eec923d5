\* Two tokens, six actions of the pool, one transfer of aTokens.
CONSTANTS
  Tokens = {weth, usdc}
  Amounts = {1, 2}
  TransfersIn = 1
  MaxLogs = 6
SYMMETRY TokenSymmetry
SPECIFICATION DebtSpec
INVARIANTS DebtTypeOK DebtIsThePoolsAndTheRepaid CollateralIsThePools RaisesOnlyAtTheBottom
CHECK_DEADLOCK FALSE
