--------------------------- MODULE MCPricePipeline ---------------------------
(***************************************************************************)
(* Instances of PricePipeline for TLC.                                     *)
(***************************************************************************)
EXTENDS PricePipeline

CONSTANTS p1, v1

\* Every block holds two logs of the pair, so that it can be half crawled.
TwoLogs == {{<<0, v1>>, <<1, v1>>}}
NoSwitch == [p \in Pairs |-> 0]
NoRanges == {<<-1, -1>>}

=============================================================================
