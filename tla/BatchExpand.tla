---------------------------- MODULE BatchExpand -----------------------------
(***************************************************************************)
(* DistributeExpand::ExpandSingleTable of the batching engine, for one     *)
(* table: maps and linear passes through the batch collector, the sort     *)
(* that puts padding last, the distribution, and the pass that fills every *)
(* gap with the row before it.                                             *)
(*                                                                         *)
(* One action is one turn of a pass's loop (with the flush that it may     *)
(* cause), one step of the distribution, or one of the calls in between.   *)
(* The enclave may be lost at any moment, and every later call into it     *)
(* fails.  The collector throws then (and, as its destructor flushes once  *)
(* more, ends the process); the output size, the sort and the distribution *)
(* log the failure at most and go on.                                      *)
(***************************************************************************)
EXTENDS AksDistribute

CONSTANTS MaxBatch,     \* MAX_BATCH_SIZE
          Counts        \* the final_mult sequences of the tables

ASSUME MaxBatchAssumption == MaxBatch \in Nat \ {0}

(* A table without rows is returned as it is (distribute_expand.cpp:70).   *)
ASSUME CountsAssumption ==
    \A c \in Counts : Len(c) \in Nat \ {0} /\ c \in [1..Len(c) -> Nat]

VARIABLES table,        \* the table being worked on
          pc,           \* the step of ExpandSingleTable
          i,            \* turn of the pass's loop
          batch,        \* the collector
          output_size,
          lost,         \* the enclave is gone
          before,       \* history: the table when the pass started
          counts        \* history: final_mult of the rows

vars == <<entries, stack, table, pc, i, batch, output_size, lost, before, counts>>

Init ==
    /\ counts \in Counts
    /\ \E enc \in BOOLEAN :
          table = [r \in DOMAIN counts |-> Row(r - 1, counts[r], 7, SOURCE, enc)]
    /\ pc = "init_dst_idx" /\ i = 1 /\ batch = EmptyBatch /\ output_size = 0
    /\ before = table /\ lost = FALSE
    /\ entries = <<>> /\ stack = <<>>

-----------------------------------------------------------------------------
(* Passes *)

Op(step) ==
    CASE step = "init_dst_idx" -> "TRANSFORM_INIT_DST_IDX"
      [] step = "cumsum"       -> "WINDOW_COMPUTE_DST_IDX"
      [] step = "mark"         -> "TRANSFORM_MARK_ZERO_MULT_PADDING"
      [] step = "pad"          -> "TRANSFORM_CREATE_DIST_PADDING"
      [] step = "expand_copy"  -> "WINDOW_EXPAND_COPY"

Passes       == {"init_dst_idx", "cumsum", "mark", "pad", "expand_copy"}
LinearPasses == {"cumsum", "expand_copy"}
LinearPass   == pc \in LinearPasses

Turns == IF pc = "pad" THEN output_size - Len(before)
         ELSE IF LinearPass THEN Len(table) - 1 ELSE Len(table)

(* A row that add_batched_padding appends, before the enclave fills it.    *)
Blank(enc) == Row(0, 0, 0, SOURCE, enc)

(* The flag of all rows of a table; it stops at a table of both kinds.     *)
AssertConsistentEncryption(t) == IF t = <<>> THEN FALSE ELSE t[1].is_encrypted

(* The table and the batch once turn i has added its operation.            *)
Extended ==
    IF pc = "pad" THEN Append(table, Blank(AssertConsistentEncryption(before))) ELSE table
Collected ==
    IF LinearPass THEN add_operation2(batch, Extended, i, i + 1)
    ELSE add_operation1(batch, Extended, IF pc = "pad" THEN Len(Extended) ELSE i)

NeedsFlush(b) == Len(b.operations) >= MaxBatch

PassTurn ==
    /\ pc \in Passes /\ i <= Turns
    /\ IF ~NeedsFlush(Collected)
       THEN table' = Extended /\ batch' = Collected /\ i' = i + 1 /\ UNCHANGED pc
       ELSE IF lost THEN pc' = "thrown" /\ UNCHANGED <<table, batch, i>>
       ELSE table' = Flushed(Op(pc), Extended, Collected) /\ batch' = EmptyBatch
            /\ i' = i + 1 /\ UNCHANGED pc
    /\ UNCHANGED <<entries, stack, output_size, lost, before, counts>>

After == [init_dst_idx |-> "cumsum", cumsum |-> "size", mark |-> "sort", pad |-> "distribute",
          expand_copy |-> "done"]

(* The flush after the loop. *)
PassEnd ==
    /\ pc \in Passes /\ i > Turns
    /\ IF batch.operations = <<>> THEN UNCHANGED table /\ pc' = After[pc]
       ELSE IF lost THEN UNCHANGED table /\ pc' = "thrown"
       ELSE table' = Flushed(Op(pc), table, batch) /\ pc' = After[pc]
    /\ batch' = EmptyBatch /\ i' = 1
    /\ before' = table'
    /\ UNCHANGED <<entries, stack, output_size, lost, counts>>

-----------------------------------------------------------------------------
(* Between the passes *)

(* ComputeOutputSize: a failed call counts as an output of no rows. *)
ObtainOutputSize ==
    /\ pc = "size"
    /\ output_size' = IF lost THEN 0
                      ELSE table[Len(table)].dst_idx + table[Len(table)].final_mult
    /\ IF output_size' = 0 THEN table' = <<>> /\ pc' = "done" ELSE pc' = "mark" /\ UNCHANGED table
    /\ before' = table'
    /\ UNCHANGED <<entries, stack, i, batch, lost, counts>>

(* compare_padding_last: padding behind rows, each in order of their index. *)
PaddingLast_index(a, b) == a.original_index < b.original_index     \* mutant

compare_padding_last(a, b) ==
    IF (a.field_type = DIST_PADDING) # (b.field_type = DIST_PADDING) THEN b.field_type = DIST_PADDING
    ELSE a.original_index < b.original_index

(* shuffle_merge_sort, by what module SortService promises of it, and the  *)
(* truncation to the output size.                                          *)
Truncated(t) == [j \in 1..Least(Len(t), output_size) |-> t[j]]

(* A table of more than one row leaves the sort encrypted. *)
FlagSorted(t) == IF Len(t) > 1 THEN TRUE ELSE t[1].is_encrypted

Sort ==
    /\ pc = "sort" /\ (Len(table) > 1 => ~lost)
    /\ \E p \in Bijection(DOMAIN table, DOMAIN table) :
          /\ \A j, k \in DOMAIN table :
                j < k => ~compare_padding_last(table[p[k]], table[p[j]])
          /\ table' = Truncated([j \in DOMAIN table |-> WithFlag(table[p[j]], FlagSorted(table))])
    /\ pc' = "pad" /\ before' = table'
    /\ UNCHANGED <<entries, stack, i, batch, output_size, lost, counts>>

NULL_VALUE == -1        \* no row's original_index (INT32_MAX in the code)

SortPadding(enc) == Row(NULL_VALUE, 0, 0, SORT_PADDING, enc)

(* What a failed sort leaves: the rows named in kept, 0 for padding.       *)
Remains(kept, enc) ==
    [j \in DOMAIN kept |->
        IF kept[j] = 0 THEN SortPadding(enc) ELSE WithFlag(table[kept[j]], enc)]

(* The enclave is gone already, or goes in the middle of the sort: the     *)
(* padding throws, or the failures are logged and what is left is some of  *)
(* the rows in any order, none twice, perhaps with padding among them.     *)
SortFails ==
    /\ pc = "sort" /\ Len(table) > 1
    /\ \/ lost /\ pc' = "thrown" /\ UNCHANGED table
       \/ /\ pc' = "pad"
          /\ \E n \in 0..Len(table), enc \in {table[1].is_encrypted, TRUE} :
             \E kept \in [1..n -> 0..Len(table)] :
                /\ \A j, k \in 1..n : kept[j] = kept[k] /\ kept[j] # 0 => j = k
                /\ table' = Truncated(Remains(kept, enc))
    /\ before' = table' /\ lost' = TRUE
    /\ UNCHANGED <<entries, stack, i, batch, output_size, counts>>

(* DistributeManager::distribute copies the table and calls the enclave.   *)
DistributeStart ==
    /\ pc = "distribute"
    /\ IF output_size <= 1 THEN pc' = "expand_copy" /\ UNCHANGED <<entries, stack>>
       ELSE /\ entries' = table
            /\ stack' = IF lost THEN <<>> ELSE <<Call("inner", 0, 0, 0, output_size)>>
            /\ pc' = "aks"
    /\ UNCHANGED <<table, i, batch, output_size, lost, before, counts>>

DistributeStep ==
    /\ pc = "aks" /\ AksNext
    /\ UNCHANGED <<table, pc, i, batch, output_size, lost, before, counts>>

DistributeEnd ==
    /\ pc = "aks" /\ stack = <<>>
    /\ table' = entries /\ entries' = <<>> /\ before' = table'
    /\ pc' = "expand_copy"
    /\ UNCHANGED <<stack, i, batch, output_size, lost, counts>>

(* The enclave goes; a call that is running in it returns at once.         *)
EnclaveLost ==
    /\ ~lost /\ pc \notin {"done", "thrown"}
    /\ lost' = TRUE
    /\ \/ stack' = <<>> /\ UNCHANGED entries
       \/ pc = "aks" /\ AksSwapTorn
    /\ UNCHANGED <<table, pc, i, batch, output_size, before, counts>>

Ended == pc \in {"done", "thrown"} /\ UNCHANGED vars

Advance ==
    \/ PassTurn \/ PassEnd \/ ObtainOutputSize \/ Sort \/ SortFails
    \/ DistributeStart \/ DistributeStep \/ DistributeEnd

Next == Advance \/ EnclaveLost \/ Ended

(* A sequential call keeps running: weak fairness of Advance, which is     *)
(* enabled exactly until the call has ended, in TLC's terms without ENABLED. *)
KeepsRunning == []<>(pc \in {"done", "thrown"}) \/ []<><<Advance>>_vars

Spec == Init /\ [][Next]_vars /\ KeepsRunning

-----------------------------------------------------------------------------
(* Properties *)

(* Type invariant. *)
TypeOK ==
    /\ pc \in Passes \cup {"size", "sort", "distribute", "aks", "done", "thrown"}
    /\ i \in 1..(Turns + 1)
    /\ Len(batch.operations) < MaxBatch
    /\ \A o \in DOMAIN batch.operations :
          batch.operations[o][1] \in DOMAIN batch.batch_data
    /\ \A p \in DOMAIN batch.entry_pointers : batch.entry_pointers[p] \in DOMAIN table

(* The rows as the unbatched code would make them, one turn after the      *)
(* other on the table itself: a window finds the new row in front of it.   *)
NewRows(step, first) ==
    LET new[r \in DOMAIN first] ==
            IF step \notin LinearPasses THEN transform(Op(step), first[r])
            ELSE IF r = 1 THEN first[r] ELSE window(Op(step), new[r - 1], first[r])
    IN  new

Unbatched(step, first, turns) ==
    IF step = "pad"
    THEN [r \in 1..(Len(first) + turns) |->
             IF r <= Len(first) THEN first[r]
             ELSE transform(Op(step), Blank(AssertConsistentEncryption(first)))]
    ELSE [r \in DOMAIN first |->
             IF r <= (IF step \in LinearPasses THEN turns + 1 ELSE turns)
             THEN NewRows(step, first)[r] ELSE first[r]]

(* Clear of the flags, which the unbatched windows copy too. *)
Contents(t) == [j \in DOMAIN t |-> Decrypted(t[j])]

(* At every moment, flushing what is collected gives what the unbatched    *)
(* pass has made of the table so far, however the batches fell: a row      *)
(* shared by two operations is one row of the batch, and one shared by two *)
(* batches is collected again after it was written back.                   *)
BatchesContinueThePass ==
    (pc \in Passes) =>
        Contents(Flushed(Op(pc), table, batch)) = Contents(Unbatched(pc, before, i - 1))

(* The collector refers to rows and to copies that exist, is never left    *)
(* full, and continues the pass.                                           *)
BatchInvariant == TypeOK /\ BatchesContinueThePass

(* Each pending call of the distribution finds in its part of the array    *)
(* the rows that belong there, and what no call covers any more is routed: *)
(* what every rotation, offset and order of calls must keep while parts    *)
(* are swapped chunk by chunk (module AksDistribute).                      *)
DistributionInvariant ==
    (pc = "aks" /\ ~lost) => PartsAreSelfContained /\ FinishedPartsAreRouted

(* Rows leave as ciphertext or not at all as one: the next phase stops at  *)
(* a table of both kinds (AssertConsistentEncryption).                     *)
EncryptionIsUniform ==
    pc \in {"sort", "pad", "done"} =>
        \A j, k \in DOMAIN table : table[j].is_encrypted = table[k].is_encrypted

-----------------------------------------------------------------------------
Service == INSTANCE ExpandService WITH
    status <- CASE pc = "done" -> "answered" [] pc = "thrown" -> "failed" [] OTHER -> "running",
    answer <- IF pc = "done" THEN [j \in DOMAIN table |-> table[j].original_index + 1] ELSE <<>>

(* The call implements the one-step service: each row final_mult times in  *)
(* order, or a thrown error.  A lost enclave never leaves a table half     *)
(* distributed: it goes unnoticed only in an output of one row or none.    *)
ImplementsExpandService == Service!Spec

=============================================================================
