---------------------------- MODULE MCHealthChart ----------------------------
(***************************************************************************)
(* Instances of HealthChart for TLC: an address liquidated in both blocks  *)
(* and one that never was.                                                 *)
(***************************************************************************)
EXTENDS HealthChart

CONSTANTS b, n  \* the addresses

RowsOf == [t \in Targets |-> IF t = b THEN {1, 2} ELSE {1}]
CallsOf == [t \in Targets |-> IF t = b THEN {1, 2} ELSE {}]

=============================================================================
