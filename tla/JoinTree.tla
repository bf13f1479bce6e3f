------------------------------ MODULE JoinTree ------------------------------
(***************************************************************************)
(* The shape of the join tree that the host hands to the enclave: a        *)
(* sequence of nodes in post-order, each a record with a field parent_idx. *)
(* Node numbers start at 1; parent_idx = 0 is the code's -1.               *)
(***************************************************************************)
EXTENDS Integers, Sequences, FiniteSets, SequencesExt

Nodes(tree) == 1..Len(tree)
IsRoot(tree, n) == tree[n].parent_idx = 0
NonRoot(tree) == {n \in Nodes(tree) : ~IsRoot(tree, n)}
Children(tree, v) == {c \in Nodes(tree) : tree[c].parent_idx = v}
ChildSeq(tree, v) == SetToSortSeq(Children(tree, v), <)

(* The node itself and everything below it. *)
Subtree(tree, v) ==
    LET sub[n \in Nodes(tree)] == {n} \cup UNION {sub[c] : c \in Children(tree, n)}
    IN  sub[v]

RootOf(tree) == CHOOSE r \in Nodes(tree) :
                  IsRoot(tree, r) /\ \A n \in Nodes(tree) : IsRoot(tree, n) => n <= r

(* preorder (align.c), and the attach order that align_concat derives from *)
(* it: for each parent in pre-order, its children in array order.          *)
preorder(tree) ==
    LET pre[v \in Nodes(tree)] ==
            <<v>> \o FlattenSeq([i \in 1..Cardinality(Children(tree, v)) |->
                                    pre[ChildSeq(tree, v)[i]]])
    IN  pre

AttachOrder(tree) ==
    LET pre == preorder(tree)[RootOf(tree)]
    IN  FlattenSeq([i \in DOMAIN pre |-> ChildSeq(tree, pre[i])])

=============================================================================
