---------------------------- MODULE TreeBuilder -----------------------------
(***************************************************************************)
(* From the comparisons of a query to the join tree of the batching engine *)
(* (query_parser.cpp, join_tree_builder.cpp, join_tree_node.h).  The tree  *)
(* is the sequence of its nodes in the order in which they are created,    *)
(* which is pre-order; a node has its table, its parent's position and the *)
(* constraint on the edge to the parent, with the node's table as source.  *)
(***************************************************************************)
EXTENDS QueryText, JoinTree

(* Comparisons of the same two columns in the same order become one        *)
(* constraint.  The constraints stand in the order of a map whose keys are *)
(* spelled with the columns' names: any order.                             *)
ColumnPair(c) == <<c.left_table, c.left_column, c.right_table, c.right_column>>

MergedBand(group) ==
    LET bands == [i \in DOMAIN group |-> operator_to_constraint(group[i].op, group[i].deviation)]
        merge(m, b) == IF is_valid_range(Intersection(m, b)) THEN Intersection(m, b) ELSE m
    IN  FoldLeft(merge, bands[1], Tail(bands))

ConstraintOf(pair, conditions) ==
    [source_table |-> pair[1], source_column |-> pair[2],
     target_table |-> pair[3], target_column |-> pair[4],
     band |-> MergedBand(SelectSeq(conditions, LAMBDA c : ColumnPair(c) = pair))]

merge_join_conditions(conditions) ==
    SetToSeqs({ConstraintOf(ColumnPair(c), conditions) : c \in ToSet(conditions)})

-----------------------------------------------------------------------------

Turned_columns(c) ==        \* mutant: the band stays as it is
    [source_table |-> c.target_table, source_column |-> c.target_column,
     target_table |-> c.source_table, target_column |-> c.source_column, band |-> c.band]

Turned(c) ==
    [source_table |-> c.target_table, source_column |-> c.target_column,
     target_table |-> c.source_table, target_column |-> c.source_column,
     band |-> reverse(c.band)]

Ends(c) == {c.source_table, c.target_table}

OtherEnd(c, table) == IF c.source_table = table THEN c.target_table ELSE c.source_table

get_connected_tables(table, constraints) ==
    LET touching == SelectSeq(constraints, LAMBDA c : table \in Ends(c))
    IN  [i \in DOMAIN touching |-> OtherEnd(touching[i], table)]

find_constraint_between(table1, table2, constraints) ==
    SelectSeq(constraints, LAMBDA c : Ends(c) = {table1, table2})[1]

(* The constraint with the child as its source. *)
ForChildOf(c, table) == IF c.source_table = table THEN Turned(c) ELSE c

RECURSIVE build_tree_recursive(_, _, _, _)

(* Node v gets the tables that a constraint connects to its own and that   *)
(* no node has yet, one after the other, each with all that hangs on it;   *)
(* a table that was not loaded is passed over with a warning.              *)
build_tree_recursive(nodes, v, constraints, loaded) ==
    LET table == nodes[v].table
        attach(ns, t) ==
            IF t \in {ns[n].table : n \in DOMAIN ns} \/ t \notin loaded THEN ns
            ELSE LET c == find_constraint_between(table, t, constraints)
                     child == [table |-> t, parent_idx |-> v, constraint |-> ForChildOf(c, table)]
                 IN  build_tree_recursive(Append(ns, child), Len(ns) + 1, constraints, loaded)
    IN  FoldLeft(attach, nodes, get_connected_tables(table, constraints))

NoConstraint == [source_table |-> "none"]

(* The first table of the query is the root. *)
build_from_query(tables, constraints, loaded) ==
    build_tree_recursive(<<[table |-> tables[1], parent_idx |-> 0, constraint |-> NoConstraint]>>,
                         1, constraints, loaded)

-----------------------------------------------------------------------------
(* The edges, each named by its child node, in the orders of the phases.   *)

PostOrderTraversal(tree) ==
    LET post[v \in Nodes(tree)] ==
            FlattenSeq([i \in 1..Cardinality(Children(tree, v)) |->
                           post[ChildSeq(tree, v)[i]]]) \o <<v>>
    IN  post[1]

(* Bottom-up: for each node in post-order, its children. *)
BottomUpOrder(tree) ==
    LET post == PostOrderTraversal(tree)
    IN  FlattenSeq([i \in DOMAIN post |-> ChildSeq(tree, post[i])])

(* Top-down: every node but the root in pre-order. *)
TopDownOrder(tree) == [i \in 1..(Len(tree) - 1) |-> i + 1]

=============================================================================
