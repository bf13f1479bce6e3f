---------------------------- MODULE MCBatchSort -----------------------------
(* Instances of BatchSort: the tables and comparators of a run. *)
EXTENDS BatchSort

CONSTANTS SmallSizes,   \* sizes sorted by every comparator, rows of every kind
          LargeSizes    \* sizes sorted by one comparator, a few tables each

SortRow(i, ft, et, attr, idx) ==
    [id |-> i, field_type |-> ft, equality_type |-> et, join_attr |-> attr, original_index |-> idx]

(* Kinds of rows that each comparator meets. *)
Kinds(c) ==
    CASE c = "JOIN_ATTR"    -> {<<SOURCE, "NONE", 0, 0>>, <<START, "NEQ", 0, 0>>, <<END, "NEQ", 0, 0>>}
      [] c = "PAIRWISE"     -> {<<SOURCE, "NONE", 0, 0>>, <<START, "EQ", 0, 1>>, <<END, "EQ", 0, 1>>}
      [] c = "END_FIRST"    -> {<<SOURCE, "NONE", 0, 0>>, <<END, "EQ", 0, 0>>, <<END, "EQ", 0, 1>>}
      [] c = "PADDING_LAST" -> {<<SOURCE, "NONE", 0, 0>>, <<SOURCE, "NONE", 0, 1>>,
                                <<DIST_PADDING, "NONE", 0, 0>>}

Comparators == {"JOIN_ATTR", "PAIRWISE", "END_FIRST", "PADDING_LAST"}

TableOf(kinds) == [i \in DOMAIN kinds |-> SortRow(i, kinds[i][1], kinds[i][2], kinds[i][3], kinds[i][4])]

(* Tables of a larger size: the first rows vary, the others alternate.     *)
Values(n) == {v \in [1..n -> {0, 1}] : \A i \in (IF n > 4 THEN 2 ELSE 4)..n : v[i] = i % 2}

Larger(n, v) ==
    IF n = 3 THEN [op   |-> "PADDING_LAST",
                   rows |-> [i \in 1..n |-> SortRow(i, IF v[i] = 1 THEN DIST_PADDING ELSE SOURCE,
                                                "NONE", 0, i - 1)]]
    ELSE [op |-> "JOIN_ATTR", rows |-> [i \in 1..n |-> SortRow(i, SOURCE, "NONE", v[i], i - 1)]]

MCInputs ==
    UNION {{[op |-> c, rows |-> TableOf(t)] : t \in UNION {[1..n -> Kinds(c)] : n \in SmallSizes}} :
             c \in Comparators}
    \cup UNION {{Larger(n, v) : v \in Values(n)} : n \in LargeSizes}

=============================================================================
