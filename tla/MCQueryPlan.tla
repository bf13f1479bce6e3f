---------------------------- MODULE MCQueryPlan -----------------------------
(* Instances of QueryPlan: join graphs of up to five tables, some refused. *)
EXTENDS QueryPlan

CONSTANTS GoodOps,      \* operators of the conditions of accepted queries
          Families      \* names of the query families of this run

Cond(l, lc, op, r, rc, d) ==
    [left |-> l, left_col |-> lc, op |-> op, right |-> r, right_col |-> rc, deviation |-> d]

Q(tables, conditions) == [tables |-> tables, conditions |-> conditions]

MCValues == {-1, 0, 1}

(* Five loaded tables, the second with two columns. *)
MCNumCols == <<1, 2, 1, 1, 1>>

(* Trees: a chain with a band on one edge, a star, and a table with two    *)
(* neighbours one of which has three.                                      *)
Chains ==
    {Q(<<1, 2, 3>>, <<Cond(1, 1, ">", 2, 1, -1), Cond(3, 1, o, 2, 2, 0), Cond(1, 1, "<=", 2, 1, 1)>>) : o \in GoodOps}

Stars ==
    {Q(<<4, 2, 1, 3>>, <<Cond(2, 1, o, 1, 1, 1), Cond(3, 1, ">=", 2, 2, 0), Cond(2, 1, "<", 4, 1, 0)>>) : o \in GoodOps}

Branching ==
    {Q(<<1, 2, 3, 4, 5>>, <<Cond(1, 1, "=", 2, 1, 0), Cond(3, 1, "<=", 1, 1, 1),
                            Cond(2, 1, o, 4, 1, 0), Cond(5, 1, ">", 2, 2, -1)>>) : o \in GoodOps}

(* A table that is not loaded, a column that is not there, a table that no *)
(* condition reaches, and a table named twice.                             *)
Refused ==
    {Q(<<1, 6>>, <<Cond(1, 1, "=", 6, 1, 0)>>), Q(<<1, 3>>, <<Cond(1, 1, "=", 3, 2, 0)>>),
     Q(<<1, 2, 3>>, <<Cond(1, 1, "=", 2, 2, 0)>>), Q(<<1, 1, 2>>, <<Cond(1, 1, "=", 2, 1, 0)>>)}

(* A third table in the WHERE clause alone: one too many is reached, or as *)
(* many as there should be.                                                *)
WhereOnly ==
    {Q(<<1, 2>>, <<Cond(1, 1, "=", 2, 1, 0), Cond(2, 2, ">=", 3, 1, 0)>>),
     Q(<<1, 3>>, <<Cond(4, 1, "<=", 1, 1, 1)>>)}

Single == {Q(<<4>>, <<>>)}

(* Conditions on one pair of columns, written from either side. *)
Opposite == {Q(<<1, 3>>, <<Cond(1, 1, ">=", 3, 1, 0), Cond(3, 1, ">=", 1, 1, -1)>>)}

MCQueries ==
    UNION {CASE f = "chain" -> Chains [] f = "star" -> Stars [] f = "branching" -> Branching
             [] f = "single" -> Single
             [] f = "refused" -> Refused [] f = "where_only" -> WhereOnly [] f = "opposite" -> Opposite : f \in Families}

=============================================================================
