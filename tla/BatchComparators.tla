-------------------------- MODULE BatchComparators --------------------------
(***************************************************************************)
(* The orders that the batching engine sorts by (merge_comparators.c).     *)
(* Each comparator decides by a few keys in turn, so an order is the tuple *)
(* of keys that it gives a row; padding added for the sort comes last in   *)
(* every order.  The code compares keys by the sign of their difference,   *)
(* which is right for keys less than 2^31 apart: the model is of these.    *)
(***************************************************************************)
EXTENDS BatchOps

START == "start"
END   == "end"

Flag(b) == IF b THEN 1 ELSE 0

IsTarget(e) == e.field_type \in {START, END}

get_precedence_closed(ft, et) ==     \* mutant: open ends as closed ones
    CASE ft = START -> 1 [] ft = SOURCE -> 2 [] ft = END -> 3 [] OTHER -> 0

(* Which of a row and the ends of intervals comes first at one value.      *)
get_precedence(ft, et) ==
    CASE <<ft, et>> \in {<<END, "NEQ">>, <<START, "EQ">>} -> 1
      [] ft = SOURCE                                      -> 2
      [] <<ft, et>> \in {<<END, "EQ">>, <<START, "NEQ">>} -> 3
      [] OTHER                                            -> 0

SortKey(op, e) ==
    CASE op = "JOIN_ATTR"       -> <<e.join_attr, get_precedence(e.field_type, e.equality_type)>>
      [] op = "PAIRWISE"        -> <<Flag(~IsTarget(e)), e.original_index,
                                     Flag(e.field_type # START)>>
      [] op = "END_FIRST"       -> <<Flag(e.field_type # END), e.original_index>>
      [] op = "JOIN_THEN_OTHER" -> <<e.join_attr>> \o e.attributes
      [] op = "ALIGNMENT_KEY"   -> <<e.alignment_key>>
      [] op = "PADDING_LAST"    -> <<Flag(e.field_type = DIST_PADDING), e.original_index>>

KeyLess(a, b) ==
    \E i \in DOMAIN a : a[i] < b[i] /\ \A j \in 1..(i - 1) : a[j] = b[j]

compare_unpadded(op, e1, e2) ==      \* mutant: padding sorts by its keys
    KeyLess(SortKey(op, e1), SortKey(op, e2))

(* e1 goes before e2. *)
compare(op, e1, e2) ==
    LET padding1 == e1.field_type = SORT_PADDING
        padding2 == e2.field_type = SORT_PADDING
    IN  IF padding1 # padding2 THEN padding2
        ELSE KeyLess(SortKey(op, e1), SortKey(op, e2))

IsOrdered(op, s) == \A i, j \in DOMAIN s : i < j => ~compare(op, s[j], s[i])

=============================================================================
