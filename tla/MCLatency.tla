----------------------------- MODULE MCLatency -----------------------------
(***************************************************************************)
(* Instances of Latency for TLC: calls up to the last price, and one that  *)
(* names an earlier block_to.                                              *)
(***************************************************************************)
EXTENDS Latency

OnlySome == {5}

\* The price that fills the second window's first row was reported at the
\* recorded end, or between it and the window.
TwoFeeds == {{3, 6}, {4, 6}}

=============================================================================
