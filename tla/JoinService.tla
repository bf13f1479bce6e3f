---------------------------- MODULE JoinService -----------------------------
(***************************************************************************)
(* What a join call promises, with no phase, sort or buffer in sight: given*)
(* a join tree and its tables it either fails and delivers nothing, or     *)
(* delivers, in one step, the multiset of all tuples of the band join, one *)
(* per matching choice of rows.                                            *)
(***************************************************************************)
EXTENDS BandJoin, Bags

VARIABLES tree, tables, status, answer

vars == <<tree, tables, status, answer>>

(* The multiset of output tuples; a tuple gives each node its row. *)
JoinBag ==
    LET tuple(a) == [n \in Nodes(tree) |-> tables[n][a[n]]]
        matches  == JoinMatches(tree, tables)
    IN  [t \in {tuple(a) : a \in matches} |-> Cardinality({a \in matches : tuple(a) = t})]

Init == status = "running" /\ answer = EmptyBag

Deliver ==
    /\ status = "running"
    /\ status' = "answered" /\ answer' = JoinBag
    /\ UNCHANGED <<tree, tables>>

Fail ==
    /\ status = "running"
    /\ status' = "failed" /\ answer' = EmptyBag
    /\ UNCHANGED <<tree, tables>>

Next == Deliver \/ Fail

Spec == Init /\ [][Next]_vars

=============================================================================
