---------------------------- MODULE MCBatchJoin -----------------------------
(* Instances of BatchJoin: queries over one to four tables. *)
EXTENDS BatchJoin

CONSTANTS MaxRows, Values, PairValues, Comparisons, WideComparisons

(* Tables of a name's columns, with rows in ascending order. *)
Columns(t) == CASE t = "A" -> <<"a">> [] t = "B" -> <<"b1", "b2">> [] t = "C" -> <<"c">>
                [] t = "D" -> <<"d">>

Ascending(s) == \A i, j \in DOMAIN s : i < j => ~KeyLess(s[j], s[i])

TablesOver(vals, t, n) ==
    {[columns |-> Columns(t), rows |-> s] :
        s \in {r \in UNION {[1..k -> [1..Len(Columns(t)) -> vals]] : k \in 0..n} : Ascending(r)}}

TablesFor(t, n) == TablesOver(Values, t, n)

Cond(l, lc, op, r, rc, d) ==
    [left_table |-> l, left_column |-> lc, op |-> op, right_table |-> r, right_column |-> rc,
     deviation |-> d]

Query(ts, cs) == [tables |-> ts, conditions |-> cs]

Conds(l, lc, r, rc, c) == [i \in DOMAIN c |-> Cond(l, lc, c[i][1], r, rc, c[i][2])]

(* Two tables, the conditions written from either side, with and without   *)
(* encryption; a directory without the query's first table; one table.     *)
Pairs ==
    UNION {{[query |-> Query(<<"A", "D">>, cs), data |-> [t \in {"A", "D"} |-> IF t = "A" THEN x ELSE y],
             encrypt |-> FALSE] :
                x \in TablesOver(PairValues, "A", MaxRows), y \in TablesOver(PairValues, "D", 2)} :
           cs \in UNION {{Conds("A", "a", "D", "d", c), Conds("D", "d", "A", "a", c)} : c \in Comparisons}}

Encrypted ==
    {[query |-> Query(<<"A", "D">>, Conds("D", "d", "A", "a", <<<<"=", 0>>>>)),
      data |-> [t \in {"A", "D"} |-> IF t = "A" THEN x ELSE y], encrypt |-> TRUE] :
        x \in TablesFor("A", 2), y \in TablesFor("D", 2)}

Singles ==
    {[query |-> Query(<<t>>, <<>>), data |-> [u \in {"A"} |-> x], encrypt |-> enc] :
        t \in {"A", "D"}, x \in TablesFor("A", 2), enc \in BOOLEAN}

(* Three tables: a chain from either end, a star, B in the middle. *)
Triples ==
    UNION {{[query |-> Query(ts, Conds("B", "b1", "A", "a", c1) \o Conds("B", "b2", "C", "c", c2)),
             data |-> [t \in {"A", "B", "C"} |-> IF t = "A" THEN x ELSE IF t = "B" THEN y ELSE z],
             encrypt |-> FALSE] :
                x \in TablesFor("A", 2), y \in TablesFor("B", 2), z \in TablesFor("C", 2)} :
           ts \in {<<"A", "B", "C">>, <<"B", "A", "C">>}, c1 \in WideComparisons, c2 \in WideComparisons}

(* Four tables: B in the middle is the child of A and has two children, or *)
(* is the root of three.                                                   *)
Quads ==
    UNION {{[query |-> Query(ts, Conds("B", "b1", "A", "a", c) \o Conds("B", "b2", "C", "c", c)
                                 \o Conds("D", "d", "B", "b2", c)),
             data |-> [t \in {"A", "B", "C", "D"} |->
                          CASE t = "A" -> x [] t = "B" -> y [] OTHER -> [z EXCEPT !.columns = Columns(t)]],
             encrypt |-> FALSE] :
                x \in {u \in TablesFor("A", 2) : u.rows = <<<<0>>, <<1>>>>},
                y \in {u \in TablesFor("B", 2) : Len(u.rows) = 2}, z \in TablesFor("C", 2)} :
           ts \in {<<"A", "B", "C", "D">>, <<"B", "C", "D", "A">>},
           c \in {w \in WideComparisons : w[1][1] = ">="}}

MCInputs == Pairs \cup Encrypted \cup Singles \cup Triples \cup Quads

MCComparisons ==
    {<<<<"=", 0>>>>, <<<<">=", 1>>>>, <<<<"<", 0>>>>, <<<<">", -1>>, <<"<=", 1>>>>}

MCWideComparisons == {<<<<"=", 0>>>>, <<<<">=", 0>>>>}

MCShuffles == {[n \in 0..20 |-> [i \in 1..n |-> i]], [n \in 0..20 |-> [i \in 1..n |-> n + 1 - i]]}

=============================================================================
