------------------------------ MODULE BandJoin ------------------------------
(***************************************************************************)
(* The vocabulary shared by the join modules: the reference definition of  *)
(* a multi-way band join, against which the pipeline is checked.           *)
(*                                                                         *)
(* A node of the tree is a record                                          *)
(*   [parent_idx, parent_join_col, join_col, num_cols,                     *)
(*    deviation1, equality1, deviation2, equality2]                        *)
(* with column numbers from 1.  Every node has a table of its own, so a    *)
(* node number stands for the code's table_idx too.  A table is a sequence *)
(* of rows, a row a sequence of attributes.                                *)
(***************************************************************************)
EXTENDS JoinTree, BandConstraint

-----------------------------------------------------------------------------
(* The reference join.  An assignment gives each node of a set ns one row  *)
(* of its table; it matches when every edge inside ns holds.               *)

EdgeHolds(tree, tab, a, c) ==
    LET v == tree[c].parent_idx
    IN  InBand(tab[c][a[c]][tree[c].join_col],
               tab[v][a[v]][tree[c].parent_join_col], tree[c])

Assignments(tab, ns) ==
    LET most == CHOOSE m \in {Len(tab[n]) : n \in ns} : \A n \in ns : Len(tab[n]) <= m
    IN  {a \in [ns -> 1..most] : \A n \in ns : a[n] <= Len(tab[n])}

Matches(tree, tab, ns) ==
    {a \in Assignments(tab, ns) :
        \A c \in ns \cap NonRoot(tree) :
            tree[c].parent_idx \in ns => EdgeHolds(tree, tab, a, c)}

(* The matches of the whole query. *)
JoinMatches(tree, tab) == Matches(tree, tab, Nodes(tree))

=============================================================================
