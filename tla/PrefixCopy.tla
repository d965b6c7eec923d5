----------------------------- MODULE PrefixCopy ------------------------------
(***************************************************************************)
(* What the price crawl promises, whatever threads and windows it uses:    *)
(* the Price table is a copy of the chain's logs made in the order of the  *)
(* chain. The chain grows at its end; the copy only ever takes the first   *)
(* log it lacks. So at any moment the table is a prefix of the history,    *)
(* and a crawl that stops loses nothing it would not find again.           *)
(***************************************************************************)
EXTENDS Integers

CONSTANT Pairs

VARIABLES
  source,  \* [Pairs -> set of logs] on the chain
  copy     \* [Pairs -> set of logs] stored

copyVars == <<source, copy>>

Precedes(l, k) == \/ l.block < k.block
                  \/ l.block = k.block /\ l.index < k.index

Init == copy = [p \in Pairs |-> {}]

\* New logs come after all the old ones.
Extend ==
  /\ \A p \in Pairs :
       /\ source[p] \subseteq source'[p]
       /\ \A l \in source'[p] \ source[p], k \in source[p] : Precedes(k, l)
  /\ copy' = copy

CopyNext(p) ==
  /\ \E l \in source[p] \ copy[p] :
       /\ \A k \in source[p] : Precedes(k, l) => k \in copy[p]
       /\ copy' = [copy EXCEPT ![p] = @ \cup {l}]
  /\ source' = source

Next == Extend \/ \E p \in Pairs : CopyNext(p)

Spec == Init /\ [][Next]_copyVars

=============================================================================
