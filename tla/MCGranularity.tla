---------------------------- MODULE MCGranularity ----------------------------
(***************************************************************************)
(* Instances of Granularity for TLC.                                       *)
(***************************************************************************)
EXTENDS Granularity

\* Block 2 holds two logs, so that it can be half crawled.
SomeLogs == {[block |-> 1, index |-> 0], [block |-> 2, index |-> 0],
             [block |-> 2, index |-> 1], [block |-> 3, index |-> 0]}

NoRanges == {<<-1, -1>>}

=============================================================================
