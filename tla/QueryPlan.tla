----------------------------- MODULE QueryPlan ------------------------------
(***************************************************************************)
(* From the parsed WHERE clause to the join tree that the enclave is given:*)
(* QueryParser::merge_join_conditions groups the conditions by their       *)
(* columns and intersects each group; serialize_join_tree picks the root   *)
(* and the order of every node's children from a variant number, walks the *)
(* join graph depth first, and emits the nodes in post-order.  The host    *)
(* runs the variants of a query one after the other.                       *)
(*                                                                         *)
(* A loaded table is its position in the host's vector of tables.  A       *)
(* condition is left.left_col op right.right_col + deviation.              *)
(***************************************************************************)
EXTENDS BandConstraint, JoinTree

CONSTANTS
    Queries,        \* records [tables, conditions]: the FROM and the WHERE clause
    NumCols,        \* columns of each loaded table
    Values          \* attribute values over which meanings are compared

(* What the parser delivers: conditions between columns of any tables, the *)
(* FROM clause's or others, with a deviation in the safe range.  A number  *)
(* beyond the loaded tables stands for a name that is not loaded, one      *)
(* beyond a table's columns for a column that it lacks.                    *)
Conditions ==
    [left : Nat \ {0}, left_col : Nat, op : {"=", ">=", ">", "<=", "<", "!="},
     right : Nat \ {0}, right_col : Nat, deviation : -AttrMax..AttrMax]

ASSUME QueriesAssumption ==
    \A q \in Queries : q.tables \in Seq(Nat \ {0}) /\ q.conditions \in Seq(Conditions)

ASSUME ColumnsAssumption == NumCols \in Seq(Nat)

ASSUME ValuesAssumption == Values \subseteq Int

VARIABLES
    query,              \* fixed
    pc,
    groups,             \* merge_join_conditions: groups of columns still to be merged
    join_conditions,    \* the merged conditions
    variant,
    perm_state,         \* what is left of the variant number
    stack,              \* collect_postorder's frames, innermost last
    visited,            \* tables claimed by the traversal
    nodes,              \* nodes emitted
    tree,               \* serialize_join_tree's answer
    earlier             \* history: the node orders of the earlier variants

plan == <<groups, join_conditions>>
walk == <<perm_state, stack, visited, nodes>>
vars == <<query, pc, plan, variant, walk, tree, earlier>>

Tables == DOMAIN NumCols

-----------------------------------------------------------------------------
(* merge_join_conditions.  The conditions' columns, in this order, are the *)
(* key of a group; the groups come in the order of their keys as strings,  *)
(* here in any order.                                                      *)

Columns(c) == <<c.left, c.left_col, c.right, c.right_col>>

Oriented(key, band) ==
    [source_table |-> key[1], source_column |-> key[2],
     target_table |-> key[3], target_column |-> key[4], band |-> band]

Given(i) == operator_to_constraint(query.conditions[i].op, query.conditions[i].deviation)

(* A condition whose intersection with the others is empty is passed over. *)
MergeStep(merged, next) ==
    LET m == Intersection(merged, next)
    IN  IF is_valid_range(m) THEN m ELSE merged

(* The group's band, after the first i conditions of the query. *)
Merged(key) ==
    LET mine(i)  == Columns(query.conditions[i]) = key
        first(i) == \A h \in 1..(i - 1) : ~mine(h)
        merged[i \in 0..Len(query.conditions)] ==
            IF i = 0 THEN Band(0, EQ, 0, EQ)
            ELSE IF ~mine(i) THEN merged[i - 1]
            ELSE IF first(i) THEN Given(i)
            ELSE MergeStep(merged[i - 1], Given(i))
    IN  merged[Len(query.conditions)]

Init ==
    /\ query \in Queries
    /\ pc = "merge"
    /\ groups = {Columns(query.conditions[i]) : i \in DOMAIN query.conditions}
    /\ join_conditions = <<>>
    /\ variant = 0 /\ perm_state = 0
    /\ stack = <<>> /\ visited = {} /\ nodes = <<>> /\ tree = <<>>
    /\ earlier = {}

MergeGroup ==
    /\ pc = "merge"
    /\ \E key \in groups :
          /\ join_conditions' = Append(join_conditions, Oriented(key, Merged(key)))
          /\ groups' = groups \ {key}
    /\ UNCHANGED <<query, pc, variant, walk, tree, earlier>>

-----------------------------------------------------------------------------
(* The children of a table: its neighbours that are loaded and not yet     *)
(* visited, in condition order, each with its constraint turned so that    *)
(* the child is the source.                                                *)

Reversed(c) ==
    [source_table |-> c.target_table, source_column |-> c.target_column,
     target_table |-> c.source_table, target_column |-> c.source_column,
     band |-> reverse(c.band)]

Towards(c, t) == IF c.source_table = t THEN Reversed(c) ELSE c

Touches(c, t) == c.source_table = t \/ c.target_table = t

LeadsOn(c, t, seen) == Touches(c, t) /\ Towards(c, t).source_table \in Tables \ seen

Kids(constraints, t, seen) ==
    LET kids[i \in 0..Len(constraints)] ==
            IF i = 0 THEN <<>>
            ELSE IF LeadsOn(constraints[i], t, seen)
            THEN Append(kids[i - 1], Towards(constraints[i], t))
            ELSE kids[i - 1]
    IN  kids[Len(constraints)]

factorial(n) ==
    LET f[i \in 0..n] == IF i = 0 THEN 1 ELSE i * f[i - 1]
    IN  f[n]

(* One element more of a permutation, of the n that are left in the pool.  *)
Picked(acc, n) ==
    LET pick == acc.k \div factorial(n - 1) + 1
    IN  [k |-> acc.k % factorial(n - 1), pool |-> RemoveAt(acc.pool, pick),
         v |-> Append(acc.v, acc.pool[pick])]

(* The k-th permutation of s in lexicographic order of positions. *)
nth_permutation(s, k) ==
    LET acc[i \in 0..Len(s)] ==
            IF i = 0 THEN [k |-> k, pool |-> s, v |-> <<>>]
            ELSE Picked(acc[i - 1], Len(s) - i + 1)
    IN  acc[Len(s)].v

(* The tables that cur leads to, claimed one after the other. *)
Claims(constraints, cur, seen) ==
    LET acc[i \in 0..Len(constraints)] ==
            IF i = 0 THEN [seen |-> seen, new |-> <<>>]
            ELSE LET prev == acc[i - 1]
                     next == Towards(constraints[i], cur).source_table
                 IN  IF LeadsOn(constraints[i], cur, prev.seen)
                     THEN [seen |-> prev.seen \cup {next}, new |-> Append(prev.new, next)]
                     ELSE prev
    IN  acc[Len(constraints)]

(* One table taken from the frontier. *)
Looked(constraints, acc) ==
    IF acc.frontier = <<>> THEN acc
    ELSE LET found == Claims(constraints, Last(acc.frontier), acc.seen)
         IN  [frontier |-> Front(acc.frontier) \o found.new, seen |-> found.seen,
              total |-> acc.total * factorial(Len(found.new))]

(* The product of the factorials of the numbers of children; no table is   *)
(* on the frontier twice.                                                  *)
child_orderings_for_root(constraints, root) ==
    LET look[i \in 0..Len(NumCols)] ==
            IF i = 0 THEN [frontier |-> <<root>>, seen |-> {root}, total |-> 1]
            ELSE Looked(constraints, look[i - 1])
    IN  look[Len(NumCols)].total

(* How many variants the first n roots have. *)
VariantsUpTo(constraints, tables, n) ==
    LET sum[i \in 0..Len(tables)] ==
            IF i = 0 THEN 0 ELSE sum[i - 1] + child_orderings_for_root(constraints, tables[i])
    IN  sum[n]

VariantsBefore(pos) == VariantsUpTo(join_conditions, query.tables, pos - 1)

count_join_tree_variants == VariantsUpTo(join_conditions, query.tables, Len(query.tables))

-----------------------------------------------------------------------------
(* A call of collect_postorder: the frame, and what is left of perm_state. *)
Digit(perm, kids) == IF Len(kids) > 1 THEN perm % factorial(Len(kids)) ELSE 0

PermLeft_whole(perm, kids) == perm          \* mutant: the digit is not consumed

PermLeft(perm, kids) == IF Len(kids) > 1 THEN perm \div factorial(Len(kids)) ELSE perm

Frame(t, edge, seen, perm) ==
    LET kids == Kids(join_conditions, t, seen)
    IN  [table |-> t, edge |-> edge, kids |-> nth_permutation(kids, Digit(perm, kids))]

NoEdge == Oriented(<<0, 0, 0, 0>>, Band(0, EQ, 0, EQ))

Throw == pc' = "error"

SerializeStart ==
    /\ pc = "merge" /\ groups = {}
    /\ \/ /\ \E i \in DOMAIN query.tables : query.tables[i] \notin Tables
          /\ Throw /\ UNCHANGED <<walk, tree>>
       \/ /\ \A i \in DOMAIN query.tables : query.tables[i] \in Tables
          /\ \E pos \in DOMAIN query.tables :
                /\ VariantsBefore(pos) <= variant /\ variant < VariantsBefore(pos + 1)
                /\ LET root == query.tables[pos]
                       perm == variant - VariantsBefore(pos)
                   IN  /\ visited' = {root}
                       /\ stack' = <<Frame(root, NoEdge, {root}, perm)>>
                       /\ perm_state' = PermLeft(perm, Kids(join_conditions, root, {root}))
          /\ nodes' = <<>> /\ tree' = <<>>
          /\ pc' = "walk"
       \/ /\ \A i \in DOMAIN query.tables : query.tables[i] \in Tables
          /\ variant >= count_join_tree_variants
          /\ Throw /\ UNCHANGED <<walk, tree>>
    /\ UNCHANGED <<query, plan, variant, earlier>>

Top == Last(stack)

WithoutKid ==
    [stack EXCEPT ![Len(stack)] = [table |-> Top.table, edge |-> Top.edge, kids |-> Tail(Top.kids)]]

HasColumns_crossed(kid) ==          \* mutant: each column is looked up in the other table
    /\ kid.source_column <= NumCols[kid.target_table]
    /\ kid.target_column <= NumCols[kid.source_table]

HasColumns(kid) ==
    /\ kid.source_column <= NumCols[kid.source_table]
    /\ kid.target_column <= NumCols[kid.target_table]

Claimed(t) == visited \cup {t}

(* The next child, unless an earlier sibling's subtree has claimed it or a *)
(* column of the edge does not exist.                                      *)
Descend ==
    /\ pc = "walk" /\ stack # <<>> /\ Top.kids # <<>>
    /\ LET kid == Head(Top.kids)
           t   == kid.source_table
       IN  \/ /\ t \in visited
              /\ stack' = WithoutKid
              /\ UNCHANGED <<pc, perm_state, visited>>
           \/ /\ t \notin visited /\ HasColumns(kid)
              /\ visited' = Claimed(t)
              /\ stack' = Append(WithoutKid, Frame(t, kid, visited', perm_state))
              /\ perm_state' = PermLeft(perm_state, Kids(join_conditions, t, visited'))
              /\ UNCHANGED pc
           \/ /\ t \notin visited /\ ~HasColumns(kid)
              /\ Throw
              /\ UNCHANGED <<perm_state, stack, visited>>
    /\ UNCHANGED <<query, plan, variant, nodes, tree, earlier>>

(* A node is emitted after all its children. *)
Emitted_first(node) == <<node>> \o nodes        \* mutant: the order of the visits reversed

Emitted(node) == Append(nodes, node)

Emit ==
    /\ pc = "walk" /\ stack # <<>> /\ Top.kids = <<>>
    /\ nodes' = Emitted([table |-> Top.table, edge |-> Top.edge])
    /\ stack' = Front(stack)
    /\ UNCHANGED <<query, pc, plan, variant, perm_state, visited, tree, earlier>>

(* The check for a disconnected graph, and the nodes with parent_idx.      *)
Reached == Cardinality(visited) = Len(query.tables)

NodePos(t) == CHOOSE i \in DOMAIN nodes : nodes[i].table = t

SerializeEnd ==
    /\ pc = "walk" /\ stack = <<>>
    /\ \/ /\ Reached
          /\ tree' = [i \in DOMAIN nodes |->
                LET edge == nodes[i].edge
                IN  [table |-> nodes[i].table,
                     parent_idx |-> IF edge = NoEdge THEN 0 ELSE NodePos(edge.target_table),
                     join_col |-> edge.source_column, parent_join_col |-> edge.target_column,
                     deviation1 |-> edge.band.deviation1, equality1 |-> edge.band.equality1,
                     deviation2 |-> edge.band.deviation2, equality2 |-> edge.band.equality2]]
          /\ pc' = "done"
       \/ /\ ~Reached
          /\ Throw /\ UNCHANGED tree
    /\ UNCHANGED <<query, plan, variant, walk, earlier>>

Order(tr) == [i \in DOMAIN tr |-> tr[i].table]

(* The host asks for the query's next variant, in the end one too many. *)
NextVariant ==
    /\ pc = "done"
    /\ variant' = variant + 1
    /\ earlier' = earlier \cup {Order(tree)}
    /\ pc' = "merge"
    /\ UNCHANGED <<query, plan, walk, tree>>

Ended == pc = "error" /\ UNCHANGED vars

Next ==
    \/ MergeGroup \/ SerializeStart \/ Descend \/ Emit \/ SerializeEnd \/ NextVariant \/ Ended

Spec == Init /\ [][Next]_vars

-----------------------------------------------------------------------------
(* Properties *)

TablesOf(q) == {q.tables[i] : i \in DOMAIN q.tables}

FromTables == TablesOf(query)

(* The WHERE clause names tables of the FROM clause only, which nothing    *)
(* checks.                                                                 *)
WhereNamesFrom(q) ==
    \A i \in DOMAIN q.conditions : {q.conditions[i].left, q.conditions[i].right} \subseteq TablesOf(q)

(* Type invariant. *)
TypeOK ==
    /\ pc \in {"merge", "walk", "done", "error"}
    /\ \A i \in DOMAIN join_conditions : join_conditions[i].band \in BandConstraints
    /\ visited \subseteq Tables
    /\ \A i \in DOMAIN stack : stack[i].table \in visited
    /\ perm_state \in Nat

(* What bottom_up, top_down and align_concat take for granted: the root is *)
(* last, children come before their parents, and the nodes are the query's *)
(* tables, each once, so that a node's table can be its own.  They are as  *)
(* many in any case: only their number is checked, so that a table of the  *)
(* WHERE clause alone may stand where one of the FROM clause is missing.   *)
TreeIsPostOrder ==
    pc = "done" =>
        /\ \A i \in DOMAIN tree :
              IF i = Len(tree) THEN IsRoot(tree, i)
              ELSE tree[i].parent_idx \in (i + 1)..Len(tree)
        /\ Len(tree) = Len(query.tables)
        /\ WhereNamesFrom(query) => \A t \in FromTables : \E i \in DOMAIN tree : tree[i].table = t

(* The traversal's state has its types, every pending call's table being   *)
(* marked, and its result is a post-order (collect_postorder).             *)
WalkInvariant == TypeOK /\ TreeIsPostOrder

(* A choice of attribute values satisfies the WHERE clause exactly when it *)
(* satisfies every edge of the tree, with the child's attribute in the     *)
(* band around its parent's.                                               *)
Attributes ==
    UNION {{<<query.conditions[i].left, query.conditions[i].left_col>>,
            <<query.conditions[i].right, query.conditions[i].right_col>>} :
                i \in DOMAIN query.conditions}

SatisfiesWhere(v) ==
    \A i \in DOMAIN query.conditions :
        LET c == query.conditions[i]
        IN  Compare(v[<<c.left, c.left_col>>], c.op, v[<<c.right, c.right_col>>] + c.deviation)

SatisfiesTree(v) ==
    \A n \in NonRoot(tree) :
        InBand(v[<<tree[n].table, tree[n].join_col>>],
               v[<<tree[tree[n].parent_idx].table, tree[n].parent_join_col>>], tree[n])

TreeDecidesQuery ==
    pc = "done" => \A v \in [Attributes -> Values] : SatisfiesWhere(v) <=> SatisfiesTree(v)

(* The query's join graph, and the tables on t's side of the edge between  *)
(* t and u.                                                                *)
Adjacent(q, t, u) ==
    \E i \in DOMAIN q.conditions : {q.conditions[i].left, q.conditions[i].right} = {t, u}

Side(q, t, u) ==
    LET side[i \in 0..Len(q.tables)] ==
            IF i = 0 THEN {t}
            ELSE LET s == side[i - 1]
                 IN  s \cup {w \in TablesOf(q) \ {u} : \E x \in s : Adjacent(q, x, w)}
    IN  side[Len(q.tables)]

(* The post-orders of the join graph's rooted orientations: the tables on  *)
(* a child's side of its edge stand together, the child last.              *)
Orientations ==
    LET n == Cardinality(FromTables)
        together(p, t, u) ==
            LET size == Cardinality(Side(query, t, u))
            IN  \E i \in size..n : p[i] = t /\ {p[j] : j \in (i - size + 1)..i} = Side(query, t, u)
    IN  {p \in [1..n -> FromTables] :
            /\ \A i, j \in 1..n : p[i] = p[j] => i = j
            /\ \A t, u \in FromTables : Adjacent(query, t, u) /\ p[n] \notin Side(query, t, u) => together(p, t, u)}

(* join_tree_serializer.h: the variants are the rooted orientations of the *)
(* join graph, each exactly once, and the count is their number.           *)
VariantsEnumerateOrientations ==
    pc = "done" /\ WhereNamesFrom(query) =>
        /\ Order(tree) \notin earlier
        /\ variant + 1 = count_join_tree_variants =>
              earlier \cup {Order(tree)} = Orientations

(* A query is refused only if it names a table that is not loaded or a     *)
(* column that its table does not have, if its join graph is disconnected, *)
(* if a table that only the WHERE clause names may have been counted with  *)
(* those reached (join_tree_serializer.cpp:269), or if it has no such      *)
(* variant.                                                                *)
RefusedForAReason ==
    pc = "error" =>
        \/ \E i \in DOMAIN query.tables : query.tables[i] \notin Tables
        \/ \E i \in DOMAIN query.conditions :
              LET c == query.conditions[i]
              IN  \/ c.left \in Tables /\ c.left_col > NumCols[c.left]
                  \/ c.right \in Tables /\ c.right_col > NumCols[c.right]
        \/ \E i, j \in DOMAIN query.tables :
              i # j /\ query.tables[j] \notin Side(query, query.tables[i], 0) \ {query.tables[i]}
        \/ ~WhereNamesFrom(query)
        \/ variant = count_join_tree_variants

=============================================================================
