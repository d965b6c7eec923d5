---------------------------- MODULE MCLendingPool ----------------------------
(***************************************************************************)
(* Instances of LendingPool for TLC. Five actions stand for the eleven:    *)
(* one that is only status (ReserveDataUpdated), one interaction, the      *)
(* collateral switch without a data part, the flash loan no table takes,   *)
(* and the liquidation call that comes after it. A pause is an event of    *)
(* the pool that the code does not know.                                   *)
(***************************************************************************)
EXTENDS LendingPool

FiveActions == {"ReserveDataUpdated", "ReserveUsedAsCollateralEnabled", "Deposit",
                "FlashLoan", "LiquidationCall"}
Order == [a \in FiveActions |->
            CASE a = "ReserveDataUpdated" -> 0
              [] a = "ReserveUsedAsCollateralEnabled" -> 1
              [] a = "Deposit" -> 2
              [] a = "FlashLoan" -> 3
              [] a = "LiquidationCall" -> 4]
Switches == {"ReserveUsedAsCollateralEnabled"}
FlashLoans == {"FlashLoan"}
Pauses == {"Paused"}

\* What a transaction of the pool leaves in a block: an update of the reserve
\* comes with every one but the collateral switch.
Deposits == {"ReserveDataUpdated", "ReserveUsedAsCollateralEnabled", "Deposit"}
Liquidations == {"ReserveDataUpdated", "FlashLoan", "LiquidationCall"}
AnyBlock == {Deposits, Liquidations, Switches, Pauses, {}}

=============================================================================
