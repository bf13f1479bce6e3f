--------------------------- MODULE MCBatchExpand ----------------------------
(* Instances of BatchExpand. *)
EXTENDS BatchExpand, Functions

CONSTANTS MaxRows, MaxMult, MaxOut     \* rows of a table, copies of a row, rows of the output

MCCounts ==
    {c \in UNION {[1..n -> 0..MaxMult] : n \in 1..MaxRows} :
        FoldLeft(LAMBDA s, x : s + x, 0, c) <= MaxOut}

=============================================================================
