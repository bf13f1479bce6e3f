--------------------------- MODULE MCEnclaveJoin ----------------------------
(* Instances of EnclaveJoin: tree shapes, constraints and table contents.  *)
EXTENDS EnclaveJoin

CONSTANTS Shapes,       \* names of the tree shapes of this run
          Constraints,  \* names of the edge constraints of this run
          Values,       \* attribute values
          MaxRows,      \* rows per table
          MaxRootRows,  \* rows of the root's table
          MaxLastRows,  \* rows of the last leaf's table, when the tree has several leaves
          PairConstraints, PairValues, PairRows     \* the same for trees of one edge

Node(parent, pcol, col, cols, con) ==
    [parent_idx |-> parent, parent_join_col |-> pcol, join_col |-> col, num_cols |-> cols,
     deviation1 |-> con[1], equality1 |-> con[2], deviation2 |-> con[3], equality2 |-> con[4]]

(* What operator_to_constraint and the merger make of a condition. *)
Constraint(name) ==
    CASE name = "equal"    -> <<0, EQ, 0, EQ>>
      [] name = "band"     -> <<-1, EQ, 1, EQ>>
      [] name = "openlow"  -> <<-1, NEQ, 0, EQ>>
      [] name = "openhigh" -> <<0, EQ, 2, NEQ>>
      [] name = "open"     -> <<-1, NEQ, 1, NEQ>>
      [] name = "atleast"  -> <<0, EQ, JOIN_ATTR_POS_INF, NEQ>>
      [] name = "more"     -> <<0, NEQ, JOIN_ATTR_POS_INF, NEQ>>
      [] name = "atmost"   -> <<JOIN_ATTR_NEG_INF, NEQ, 0, EQ>>
      [] name = "less"     -> <<JOIN_ATTR_NEG_INF, NEQ, 0, NEQ>>
      [] name = "unequal"  -> <<1, EQ, 0, EQ>>

NoConstraint == Constraint("equal")

(* Trees in post-order.  "pair": one edge; "chain": 1 under 2 under 3;     *)
(* "star": 1 and 2 under 3; "centre": 1 and 2 under 3 under 4, the shape   *)
(* that align.c singles out; "fork": 1 under 2, and 2 and 3 under 4.       *)
TreesOf(shape) ==
    LET C == {Constraint(c) : c \in IF shape = "pair" THEN PairConstraints ELSE Constraints}
        top(cols) == Node(0, 1, 1, cols, NoConstraint)
    IN  CASE shape = "pair"   -> {<<Node(2, 1, 1, 1, a), top(1)>> : a \in C}
          [] shape = "chain"  -> {<<Node(2, 2, 1, 1, a), Node(3, 1, 1, 2, b), top(1)>> : a, b \in C}
          [] shape = "star"   -> {<<Node(3, 1, 1, 1, a), Node(3, 2, 1, 1, b), top(2)>> : a, b \in C}
          [] shape = "centre" -> {<<Node(3, 2, 1, 1, a), Node(3, 1, 1, 1, a),
                                    Node(4, 1, 1, 2, NoConstraint), top(1)>> : a \in C}
          [] shape = "fork"   -> {<<Node(2, 1, 1, 1, a), Node(4, 1, 1, 1, b),
                                    Node(4, 1, 1, 1, a), top(1)>> : a, b \in C}

(* The ends of the safe range of join attributes. *)
MCExtremes == {-AttrMax, 0, AttrMax}

(* Tables of up to most rows; one for each bag of three or of wide rows.   *)
Contents(cols, values, most) ==
    UNION {{tab \in [1..m -> [1..cols -> values]] :
                (cols = 1 /\ m < 3) \/ \A i \in 2..m : ~KeyLess(tab[i], tab[i - 1])} : m \in 0..most}

(* Every second row arrives encrypted. *)
Wire(n, tab) ==
    [r \in DOMAIN tab |->
        LET enc == (n + r) % 2 = 0
        IN  [is_encrypted |-> enc,
             attributes   |-> [c \in DOMAIN tab[r] |-> IF enc THEN XorKey(tab[r][c]) ELSE tab[r][c]]]]

MCTrees == UNION {TreesOf(s) : s \in Shapes}

MCTableData(tr) ==
    LET leaves  == {n \in Nodes(tr) : Children(tr, n) = {}}
        last(n) == Cardinality(leaves) > 1 /\ n \in leaves /\ \A m \in leaves : m <= n
        pair    == Len(tr) = 2
        most(n) == CASE IsRoot(tr, n) -> MaxRootRows [] last(n) -> MaxLastRows
                     [] OTHER -> IF pair THEN PairRows ELSE MaxRows
        T(n) == {Wire(n, tab) : tab \in
                    Contents(tr[n].num_cols, IF pair THEN PairValues ELSE Values, most(n))}
    IN  CASE Len(tr) = 2 -> {<<a, b>> : a \in T(1), b \in T(2)}
          [] Len(tr) = 3 -> {<<a, b, c>> : a \in T(1), b \in T(2), c \in T(3)}
          [] Len(tr) = 4 -> {<<a, b, c, d>> : a \in T(1), b \in T(2), c \in T(3), d \in T(4)}

(* Three-bit words under a constant key stream: v XOR 5. *)
MCXorKey(v) ==
    LET bit(x, i) == (x \div 2^i) % 2
    IN  bit(v, 1) * 2 + (1 - bit(v, 0)) + (1 - bit(v, 2)) * 4

(* For signed values: flip every bit (v XOR -1). *)
MCXorKeySigned(v) == -v - 1

(* The shuffle leaves ties in the order of the array, or reversed. *)
MCShuffles ==
    {[n \in 0..20 |-> [i \in 1..n |-> i]], [n \in 0..20 |-> [i \in 1..n |-> n + 1 - i]]}

=============================================================================
