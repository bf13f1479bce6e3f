--------------------------- MODULE MCResultStream ---------------------------
(* Instances of ResultStream: results of up to MaxRows rows of two columns *)
(* whose values all differ, and every projection to one or two columns.    *)
EXTENDS ResultStream

CONSTANT MaxRows

MCResults == {[r \in 1..n |-> [c \in 1..2 |-> 10 * r + c]] : n \in 0..MaxRows}

MCOutCols(res) == [1..1 -> 1..2] \cup [1..2 -> 1..2]

=============================================================================
