---------------------------- MODULE MCDebtAccount ----------------------------
(***************************************************************************)
(* Instance of DebtAccount for TLC: two tokens that may change places, as  *)
(* no definition tells them apart.                                         *)
(***************************************************************************)
EXTENDS DebtAccount, TLC

TokenSymmetry == Permutations(Tokens)

=============================================================================
