----------------------------- MODULE BatchRows ------------------------------
(***************************************************************************)
(* What the batching engine's enclave does with rows in the four phases of *)
(* a join: the transforms of one row, the windows over two rows, and the   *)
(* passes of the host that apply them to a table.  A row is written with   *)
(* its attributes in the clear; is_encrypted says whether the host sees it *)
(* encrypted.  dst_idx and index, which only the expansion of one table    *)
(* uses (BatchExpand), are left out.                                       *)
(***************************************************************************)
EXTENDS BatchComparators, MachineWords

NULL_VALUE == 2^(IntBits - 1) - 1

(* IO_Entry::to_entry: a row as it is loaded from a file. *)
to_entry(attributes, is_encrypted) ==
    [attributes |-> attributes, is_encrypted |-> is_encrypted, join_attr |-> attributes[1],
     field_type |-> "UNKNOWN", equality_type |-> "NONE",
     original_index |-> 0, local_mult |-> 0, final_mult |-> 0, foreign_sum |-> 0,
     local_cumsum |-> 0, local_interval |-> 0, foreign_interval |-> 0, local_weight |-> 0,
     copy_index |-> 0, alignment_key |-> 0]

-----------------------------------------------------------------------------
(* Transforms (transform_functions.c). *)

init_metadata_null(e) ==
    [e EXCEPT !.original_index = NULL_VALUE, !.local_mult = NULL_VALUE,
              !.final_mult = NULL_VALUE, !.foreign_sum = NULL_VALUE,
              !.local_cumsum = NULL_VALUE, !.local_interval = NULL_VALUE,
              !.foreign_interval = NULL_VALUE, !.local_weight = NULL_VALUE,
              !.copy_index = NULL_VALUE, !.alignment_key = NULL_VALUE,
              !.field_type = "NULL", !.equality_type = "NULL"]

set_local_mult_one(e) == [e EXCEPT !.local_mult = 1, !.final_mult = 0]

set_index(e, index) == [e EXCEPT !.original_index = index]

set_join_attr(e, column_index) == [e EXCEPT !.join_attr = e.attributes[column_index]]

to_source(e) == [e EXCEPT !.field_type = SOURCE, !.equality_type = "NONE"]

to_start(e, deviation, equality) ==
    [e EXCEPT !.field_type = START, !.equality_type = equality,
              !.join_attr = Int32(@ + deviation)]

to_end(e, deviation, equality) ==
    [e EXCEPT !.field_type = END, !.equality_type = equality,
              !.join_attr = Int32(@ + deviation)]

init_local_temps(e) == [e EXCEPT !.local_cumsum = e.local_mult, !.local_interval = 0]

init_final_mult(e) ==
    [e EXCEPT !.final_mult = e.local_mult, !.foreign_sum = 0, !.foreign_interval = 0,
              !.local_weight = 0]

init_foreign_temps_zero(e) ==       \* mutant: the first row's weight starts from nothing
    [e EXCEPT !.foreign_sum = 0, !.foreign_interval = 0, !.local_weight = 0]

init_foreign_temps(e) ==
    [e EXCEPT !.foreign_sum = 0, !.foreign_interval = 0, !.local_weight = e.local_mult]

init_copy_index(e) == [e EXCEPT !.copy_index = 0]

compute_alignment_key_raw(e) ==     \* mutant: every copy a key of its own
    [e EXCEPT !.alignment_key = Int32(e.foreign_sum + e.copy_index)]

compute_alignment_key(e) ==
    LET safe_local_mult == IF e.local_mult = 0 THEN 1 ELSE e.local_mult
    IN  [e EXCEPT !.alignment_key = Int32(e.foreign_sum + CDiv(e.copy_index, safe_local_mult))]

-----------------------------------------------------------------------------
(* Windows over neighbours: the new second row (window_functions.c). *)

set_original_index(e1, e2) == [e2 EXCEPT !.original_index = e1.original_index + 1]

(* A SOURCE is counted unless it stands right behind an open START of its  *)
(* attribute.                                                              *)
IsCounted(e1, e2) ==
    /\ e2.field_type = SOURCE
    /\ ~(e1.field_type = START /\ e1.equality_type = "NEQ" /\ e1.join_attr = e2.join_attr)

IsPair(e1, e2) == e1.field_type = START /\ e2.field_type = END

compute_local_sum(e1, e2) ==
    [e2 EXCEPT !.local_cumsum =
        Int32(e1.local_cumsum + (IF IsCounted(e1, e2) THEN e2.local_mult ELSE 0))]

compute_local_interval(e1, e2) ==
    IF IsPair(e1, e2)
    THEN [e2 EXCEPT !.local_interval = Int32(e2.local_cumsum - e1.local_cumsum)] ELSE e2

compute_foreign_sum(e1, e2) ==
    LET delta  == CASE e2.field_type = START -> e2.local_mult
                    [] e2.field_type = END   -> -e2.local_mult
                    [] OTHER                 -> 0
        weight == Int32(e1.local_weight + delta)
        safe_weight == IF weight = 0 THEN 1 ELSE weight
    IN  [e2 EXCEPT !.local_weight = weight,
                   !.foreign_sum = Int32(e1.foreign_sum
                        + (IF IsCounted(e1, e2) THEN CDiv(e2.final_mult, safe_weight) ELSE 0))]

(* The END of a pair also takes over the START's sum, where its block of   *)
(* alignment keys begins.                                                  *)
compute_foreign_interval(e1, e2) ==
    IF IsPair(e1, e2)
    THEN [e2 EXCEPT !.foreign_interval = Int32(e2.foreign_sum - e1.foreign_sum),
                    !.foreign_sum = e1.foreign_sum]
    ELSE e2

update_copy_index(e1, e2) ==
    [e2 EXCEPT !.copy_index =
        IF e1.original_index = e2.original_index THEN e1.copy_index + 1 ELSE 0]

(* Windows over the rows of two tables: the new row of the second. *)

update_target_multiplicity(source, target) ==
    [target EXCEPT !.local_mult = Int32(@ * source.local_interval)]

update_target_final_multiplicity(source, target) ==
    [target EXCEPT !.final_mult = Int32(source.foreign_interval * target.local_mult),
                   !.foreign_sum = source.foreign_sum]

(* ... and of the first. *)
concat_attributes(left, right) == [left EXCEPT !.attributes = @ \o right.attributes]

-----------------------------------------------------------------------------
(* The passes of Table. *)

batched_map(op(_), t) == [i \in DOMAIN t |-> op(t[i])]

batched_linear_pass(op(_, _), t) ==
    LET new[i \in DOMAIN t] == IF i = 1 THEN t[1] ELSE op(new[i - 1], t[i])
    IN  [i \in DOMAIN t |-> new[i]]

batched_parallel_pass(op(_, _), t, other) == [i \in DOMAIN t |-> op(t[i], other[i])]

(* The table in the order of the comparator; rows with equal keys in the   *)
(* order in which the permutation sh[Len(t)] lists them.  Every row leaves *)
(* a sort encrypted; a table of one row is not sorted.                     *)
shuffle_merge_sort(op, t, sh) ==
    LET key   == [i \in DOMAIN t |-> SortKey(op, t[i])]
        order == SortSeq([i \in DOMAIN t |-> sh[Len(t)][i]], LAMBDA i, j : KeyLess(key[i], key[j]))
        out(i) == [t[order[i]] EXCEPT !.is_encrypted = @ \/ Len(t) > 1]
    IN  [i \in DOMAIN t |-> out(i)]

=============================================================================
