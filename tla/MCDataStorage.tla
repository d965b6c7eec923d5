---------------------------- MODULE MCDataStorage ----------------------------
(***************************************************************************)
(* Instances of DataStorage for TLC.                                       *)
(***************************************************************************)
EXTENDS DataStorage

CONSTANTS p1, p2, v1, v2

\* A block holds two logs of the pair (so it can be half inserted), one, or none;
\* its sibling may price the first log otherwise.
TwoVersions == {{<<0, v1>>, <<1, v1>>}, {<<0, v2>>}, {}}
OneLog == {{}, {<<0, v1>>}}

NoSwitch == [p \in Pairs |-> 0]

\* A feed that moves to a new contract inside a window; no run is about it.
SwitchAt3 == [p \in Pairs |-> 3]

=============================================================================
