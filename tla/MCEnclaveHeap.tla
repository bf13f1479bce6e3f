--------------------------- MODULE MCEnclaveHeap ----------------------------
(* Instances of EnclaveHeap: the trees of up to four nodes.                *)
EXTENDS EnclaveHeap

CONSTANT MaxNodes

(* Post-order: the root is last, every other node's parent is later, and   *)
(* every subtree is an interval.                                           *)
MCTrees ==
    UNION {{tr \in [1..n -> [parent_idx : 0..n]] :
              /\ tr[n].parent_idx = 0
              /\ \A c \in 1..(n - 1) : tr[c].parent_idx > c
              /\ \A v \in 1..n : LET s == Subtree(tr, v)
                                 IN  s = (v - Cardinality(s) + 1)..v} : n \in 1..MaxNodes}

=============================================================================
