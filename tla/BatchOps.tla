------------------------------ MODULE BatchOps ------------------------------
(***************************************************************************)
(* The batching engine's operations on rows: what the enclave does with    *)
(* one row (transforms) or with two neighbours (windows, which write the   *)
(* second), by the op code the host sends; and the batch collector, which  *)
(* gathers operations with the rows they name and sends them together.     *)
(***************************************************************************)
EXTENDS Integers, Sequences, SequencesExt

SOURCE == "source"                \* any field_type that is no padding
DIST_PADDING == "dist_padding"
SORT_PADDING == "sort_padding"

-----------------------------------------------------------------------------
Row(original_index, final_mult, dst_idx, field_type, is_encrypted) ==
    [original_index |-> original_index, final_mult |-> final_mult, dst_idx |-> dst_idx,
     field_type |-> field_type, is_encrypted |-> is_encrypted]

WithFlag(e, enc) == Row(e.original_index, e.final_mult, e.dst_idx, e.field_type, enc)
Decrypted(e)     == WithFlag(e, FALSE)

WithDestination(e, d) == Row(e.original_index, e.final_mult, d, e.field_type, e.is_encrypted)

WithType(e, type) == Row(e.original_index, e.final_mult, e.dst_idx, type, e.is_encrypted)

(* Transforms (transform_functions.c). *)
transform(op, e) ==
    CASE op = "TRANSFORM_INIT_DST_IDX" -> WithDestination(e, 0)
      [] op = "TRANSFORM_MARK_ZERO_MULT_PADDING" ->
            WithType(e, IF e.final_mult = 0 THEN DIST_PADDING ELSE e.field_type)
      [] op = "TRANSFORM_CREATE_DIST_PADDING" -> Row(-1, 0, -1, DIST_PADDING, e.is_encrypted)

(* Windows over neighbours e1, e2 (window_functions.c): the new e2. *)
window(op, e1, e2) ==
    CASE op = "WINDOW_COMPUTE_DST_IDX" -> WithDestination(e2, e1.dst_idx + e1.final_mult)
      [] op = "WINDOW_EXPAND_COPY" -> IF e2.field_type = DIST_PADDING THEN e1 ELSE e2

-----------------------------------------------------------------------------
(* The collector: the rows collected, where the host keeps them, and the   *)
(* operations as pairs of indices into the rows, 0 for no second row.      *)

BATCH_NO_PARAM == 0

EmptyBatch == [entry_pointers |-> <<>>, batch_data |-> <<>>, operations |-> <<>>]

IndexIn(b, ptr) == CHOOSE j \in DOMAIN b.entry_pointers : b.entry_pointers[j] = ptr

(* A copy of the row at ptr is appended. *)
Copied(b, t, ptr) ==
    [entry_pointers |-> Append(b.entry_pointers, ptr),
     batch_data     |-> Append(b.batch_data, t[ptr]),
     operations     |-> b.operations]

Collect_always(b, t, ptr) == Copied(b, t, ptr)      \* mutant: no deduplication

(* A row already in the batch is named again, not copied again. *)
Collect(b, t, ptr) ==
    IF \E j \in DOMAIN b.entry_pointers : b.entry_pointers[j] = ptr THEN b
    ELSE Copied(b, t, ptr)

Ordered(b, o) ==
    [entry_pointers |-> b.entry_pointers, batch_data |-> b.batch_data,
     operations |-> Append(b.operations, o)]

add_operation2(b, t, p1, p2) ==
    LET c == Collect(Collect(b, t, p1), t, p2)
    IN  Ordered(c, <<IndexIn(c, p1), IndexIn(c, p2)>>)

add_operation1(b, t, p) ==
    LET c == Collect(b, t, p)
    IN  Ordered(c, <<IndexIn(c, p), BATCH_NO_PARAM>>)

(* One operation on an array of plaintext rows. *)
Step(op, data, o) ==
    IF o[2] = BATCH_NO_PARAM THEN [data EXCEPT ![o[1]] = transform(op, @)]
    ELSE [data EXCEPT ![o[2]] = window(op, data[o[1]], @)]

(* The rows, decrypted, after the first n operations, for each n.          *)
Run(op, data, ops) ==
    LET run[n \in 0..Len(ops)] ==
            IF n = 0 THEN [j \in DOMAIN data |-> Decrypted(data[j])]
            ELSE Step(op, run[n - 1], ops[n])
    IN  run

batch_dispatcher_short(op, data, ops) ==    \* mutant: encrypts as many rows as operations
    LET done == Run(op, data, ops)[Len(ops)]
    IN  [j \in DOMAIN data |-> WithFlag(done[j], data[j].is_encrypted /\ j <= Len(ops))]

(* ecall_batch_dispatcher: decrypt every row, run the operations in order, *)
(* encrypt the rows that were encrypted.                                   *)
batch_dispatcher(op, data, ops) ==
    LET done == Run(op, data, ops)[Len(ops)]
    IN  [j \in DOMAIN data |-> WithFlag(done[j], data[j].is_encrypted)]

(* write_back_results: each copy goes where its row is; of several copies  *)
(* of a row, the last one stays.                                           *)
write_back(t, b, data) ==
    LET copies(r) == {j \in DOMAIN data : b.entry_pointers[j] = r}
    IN  [r \in DOMAIN t |->
            IF copies(r) = {} THEN t[r]
            ELSE data[CHOOSE j \in copies(r) : \A l \in copies(r) : l <= j]]

(* What the table becomes when the batch is flushed. *)
Flushed(op, t, b) == write_back(t, b, batch_dispatcher(op, b.batch_data, b.operations))

=============================================================================
