----------------------------- MODULE BatchSort ------------------------------
(***************************************************************************)
(* Table::shuffle_merge_sort of the batching engine: pad the table to a    *)
(* size that the shuffle takes, shuffle it, sort runs of at most MaxBatch  *)
(* rows in the enclave, merge K runs at a time until one is left, and cut  *)
(* the padding off.                                                        *)
(*                                                                         *)
(* The merge runs in the enclave over buffers of MergeBuffer rows that the *)
(* host refills when called back, and hands out MergeBuffer rows per call. *)
(* One action is one record through the heap, or one call around it.       *)
(* One fault may occur anywhere: the enclave is lost, or its crypto        *)
(* library fails at one row.                                               *)
(***************************************************************************)
EXTENDS BatchShuffle, MinHeap

CONSTANTS MergeBuffer,  \* MERGE_BUFFER_SIZE
          Inputs        \* the comparators and tables to sort: records [op, rows]

ASSUME MergeAssumption == MergeBuffer \in Nat \ {0}

(* Each row has an id of its own, and none is padding of the sort, which   *)
(* only a sort adds and which it cuts off again.  The comparators are those  *)
(* that the engine sorts by.                                               *)
ASSUME InputsAssumption ==
    \A in \in Inputs :
        /\ in.rows \in Seq(ToSet(in.rows)) /\ IsInjective(in.rows)
        /\ \A e \in ToSet(in.rows) : e.field_type # SORT_PADDING
        /\ in.op \in {"JOIN_ATTR", "PAIRWISE", "END_FIRST", "JOIN_THEN_OTHER", "ALIGNMENT_KEY",
                     "PADDING_LAST"}

(* A comparator has as many keys for each row of a table, all of them      *)
(* integers.                                                               *)
ASSUME KeysAssumption ==
    \A in \in Inputs : \A e, f \in ToSet(in.rows) :
        /\ SortKey(in.op, e) \in Seq(Int)
        /\ Len(SortKey(in.op, e)) = Len(SortKey(in.op, f))

VARIABLES table, op, pc,
          runs, new_runs,
          next,         \* the first run of the group to merge
          merge,        \* the merge in progress, or NoMerge
          rows          \* history: the table before the call

sortVars == <<table, op, pc, runs, new_runs, next, merge, rows>>
vars == <<shuffleVars, sortVars, fault>>

NoMerge == [k |-> 0]

Init ==
    /\ \E in \in Inputs : table = in.rows /\ op = in.op
    /\ rows = table /\ pc = "pad"
    /\ vector = <<>> /\ ShuffleInit
    /\ runs = <<>> /\ new_runs = <<>> /\ next = 1 /\ merge = NoMerge

-----------------------------------------------------------------------------
(* Padding and shuffle *)

(* What transform_set_sort_padding makes of a row of zeros.  9 stands for  *)
(* the largest number, <<>> for attributes that are all zero.              *)
PaddingRow ==
    [id |-> 0, field_type |-> SORT_PADDING, equality_type |-> "NONE", join_attr |-> 9,
     original_index |-> 9, attributes |-> <<>>, alignment_key |-> 0]

Pad ==
    /\ pc = "pad" /\ Len(table) > 1
    /\ LET missing == calculate_shuffle_padding(Len(table)) - Len(table)
       IN  IF missing > 0 /\ fault = "lost" THEN pc' = "thrown" /\ UNCHANGED <<table, vector>>
           ELSE /\ table' = table \o [j \in 1..missing |-> PaddingRow]
                /\ vector' = table'
                /\ pc' = IF is_valid_shuffle_size(Len(table')) THEN "shuffle" ELSE "runs"
    /\ UNCHANGED <<calls, groups, group_positions, output_entries, current_instance, enclave,
                   shuffled, op, runs, new_runs, next, merge, rows, fault>>

NothingToSort ==
    /\ pc = "pad" /\ Len(table) <= 1
    /\ pc' = "done"
    /\ UNCHANGED <<shuffleVars, fault, table, op, runs, new_runs, next, merge, rows>>

Shuffle ==
    /\ pc = "shuffle" /\ recursive_shuffle(0, <<>>)
    /\ pc' = "shuffling"
    /\ UNCHANGED <<table, op, runs, new_runs, next, merge, rows>>

Shuffling == pc = "shuffling" /\ ShuffleStep /\ UNCHANGED sortVars

ShuffleEnd ==
    /\ pc = "shuffling" /\ calls = <<>>
    /\ table' = vector /\ pc' = "runs"
    /\ UNCHANGED <<shuffleVars, fault, op, runs, new_runs, next, merge, rows>>

-----------------------------------------------------------------------------
(* MergeSortManager *)

Least2(a, b) == IF a < b THEN a ELSE b

(* One run; the manager does not look at what the enclave's call returned, *)
(* and a failure there leaves the run unsorted, or sorted if it came late. *)
CreateRun ==
    /\ pc = "runs" /\ Len(runs) * MaxBatch < Len(table)
    /\ LET start  == Len(runs) * MaxBatch
           run    == SubSeq(table, start + 1, Least2(start + MaxBatch, Len(table)))
           sorted == heap_sort(op, run)
       IN  \/ CallWorks /\ runs' = Append(runs, sorted)
           \/ CallFails /\ runs' = Append(runs, run)
           \/ fault = "none" /\ fault' = "crypto" /\ runs' = Append(runs, sorted)
    /\ UNCHANGED <<shuffleVars, table, op, pc, new_runs, next, merge, rows>>

RunsCreated ==
    /\ pc = "runs" /\ Len(runs) * MaxBatch >= Len(table)
    /\ pc' = "merge"
    /\ UNCHANGED <<shuffleVars, fault, table, op, runs, new_runs, next, merge, rows>>

(* handle_refill_buffer: the next rows of the group's r-th run, of which   *)
(* pos have been read; current_merge_indices maps r to the run.            *)
RunOf(r) == runs[next + r - 1]

Chunk(r, pos) == SubSeq(RunOf(r), pos + 1, Least2(pos + MergeBuffer, Len(RunOf(r))))

GroupEnds(result) ==
    /\ new_runs' = Append(new_runs, result)
    /\ next' = next + K /\ merge' = NoMerge

(* ecall_k_way_merge_init: fill every buffer and push its first row.       *)
Initialised(k) ==
    LET first == [r \in 1..k |-> Chunk(r, 0)]
        pushed[r \in 0..k] ==
            IF r = 0 THEN <<>>
            ELSE IF first[r] = <<>> THEN pushed[r - 1]
            ELSE heap_push(op, pushed[r - 1], k, Head(first[r]), r)
    IN  [k             |-> k,
         heap          |-> pushed[k],
         buffers       |-> [r \in 1..k |-> IF first[r] = <<>> THEN <<>> ELSE Tail(first[r])],
         run_exhausted |-> [r \in 1..k |-> first[r] = <<>>],
         run_positions |-> [r \in 1..k |-> Len(first[r])],
         produced      |-> <<>>,     \* output_buffer of the call
         result        |-> <<>>]

Merging == pc = "merge" /\ Len(runs) > 1 /\ merge # NoMerge

MergeGroup ==
    /\ pc = "merge" /\ Len(runs) > 1 /\ merge = NoMerge /\ next <= Len(runs)
    /\ LET k == Least2(K, Len(runs) - next + 1)
       IN  \/ k = 1 /\ GroupEnds(runs[next]) /\ UNCHANGED fault
           \/ k > 1 /\ CallWorks /\ merge' = Initialised(k) /\ UNCHANGED <<new_runs, next>>
           \/ k > 1 /\ CallFails /\ GroupEnds(<<>>)
    /\ UNCHANGED <<shuffleVars, table, op, pc, runs, rows>>

(* The call returns: the manager appends what it produced. *)
Returned(m) == [m EXCEPT !.result = @ \o m.produced, !.produced = <<>>]

ReturnedIfFull(m) == IF Len(m.produced) >= MergeBuffer THEN Returned(m) ELSE m

Pushed(m, r) ==
    [m EXCEPT !.heap = heap_push(op, @, m.k, Head(m.buffers[r]), r),
              !.buffers[r] = Tail(@)]

EndsRun_short(chunk) == Len(chunk) < MergeBuffer      \* mutant: a short refill ends the run

EndsRun(chunk) == chunk = <<>>

(* The smallest record leaves the heap and is put out.                     *)
Popped == [merge EXCEPT !.heap = heap_pop(op, @), !.produced = Append(@, merge.heap[1].entry)]

(* The next record of its run follows, if the buffer needs no refill or    *)
(* the refill brings one.                                                  *)
Followed ==
    LET r     == merge.heap[1].run_idx
        chunk == Chunk(r, merge.run_positions[r])
        read  == [Popped EXCEPT !.run_positions[r] = @ + Len(chunk)]
    IN  IF merge.buffers[r] # <<>> THEN Pushed(Popped, r)
        ELSE IF merge.run_exhausted[r] THEN Popped
        ELSE IF EndsRun(chunk) THEN [read EXCEPT !.run_exhausted[r] = TRUE]
        ELSE Pushed([read EXCEPT !.buffers[r] = chunk], r)

MergeStep ==
    /\ Merging /\ merge.heap # <<>>
    /\ CallWorks
    /\ merge' = ReturnedIfFull(Followed)
    /\ UNCHANGED <<shuffleVars, table, op, pc, runs, new_runs, next, rows>>

(* The crypto library fails at the record put out, which is then dropped,  *)
(* or at a row of the refill after it.  Either way no record of that run   *)
(* follows; the call returns an error that the manager does not look at.   *)
MergeStepFails ==
    /\ Merging /\ merge.heap # <<>>
    /\ fault = "none" /\ fault' = "crypto"
    /\ LET r     == merge.heap[1].run_idx
           chunk == Chunk(r, merge.run_positions[r])
       IN  \/ merge' = Returned([merge EXCEPT !.heap = heap_pop(op, @)])
           \/ /\ merge.buffers[r] = <<>> /\ ~merge.run_exhausted[r] /\ chunk # <<>>
              /\ merge' = Returned([Popped EXCEPT !.run_positions[r] = @ + Len(chunk)])
    /\ UNCHANGED <<shuffleVars, table, op, pc, runs, new_runs, next, rows>>

(* A call that cannot be made or is cut off ends the loop with what the    *)
(* calls before it produced.                                               *)
MergeLost ==
    /\ Merging /\ fault = "lost"
    /\ GroupEnds(merge.result)
    /\ UNCHANGED <<shuffleVars, fault, table, op, pc, runs, rows>>

MergeComplete ==
    /\ Merging /\ merge.heap = <<>> /\ fault # "lost"
    /\ GroupEnds(Returned(merge).result)
    /\ UNCHANGED <<shuffleVars, fault, table, op, pc, runs, rows>>

(* All groups of this iteration are merged. *)
NextIteration ==
    /\ pc = "merge" /\ Len(runs) > 1 /\ merge = NoMerge /\ next > Len(runs)
    /\ runs' = new_runs /\ new_runs' = <<>> /\ next' = 1
    /\ UNCHANGED <<shuffleVars, fault, table, op, pc, merge, rows>>

(* Copy back, and cut off what exceeds the original size.                  *)
Finish ==
    /\ pc = "merge" /\ Len(runs) = 1
    /\ table' = SubSeq(runs[1], 1, Least2(Len(rows), Len(runs[1])))
    /\ pc' = "done"
    /\ UNCHANGED <<shuffleVars, fault, op, runs, new_runs, next, merge, rows>>

EnclaveLost ==
    /\ pc \notin {"done", "thrown"} /\ fault = "none"
    /\ fault' = "lost"
    /\ UNCHANGED <<shuffleVars, sortVars>>

Ended == pc \in {"done", "thrown"} /\ UNCHANGED vars

Advance ==
    \/ Pad \/ NothingToSort \/ Shuffle \/ Shuffling \/ ShuffleEnd
    \/ CreateRun \/ RunsCreated \/ MergeGroup \/ MergeStep \/ MergeStepFails
    \/ MergeLost \/ MergeComplete \/ NextIteration \/ Finish

Next == Advance \/ EnclaveLost \/ Ended

(* A sequential call keeps running: weak fairness of Advance, which is     *)
(* enabled exactly until the call has ended, in TLC's terms without ENABLED. *)
KeepsRunning == []<>(pc \in {"done", "thrown"}) \/ []<><<Advance>>_vars

Spec == Init /\ [][Next]_vars /\ KeepsRunning

-----------------------------------------------------------------------------
(* Properties *)

(* Type invariant. *)
TypeOK ==
    /\ pc \in {"pad", "shuffle", "shuffling", "runs", "merge", "done", "thrown"}
    /\ fault \in {"none", "lost", "crypto"}
    /\ \A c \in DOMAIN calls :
          /\ calls[c].i \in 1..(K + 1) /\ calls[c].g \in 0..K
          /\ c > 1 => calls[c].n < calls[c - 1].n
    /\ \A j \in 1..K : Len(enclave.buffers[j]) <= ShuffleBuffer
                       /\ group_positions[j] \in 0..Len(groups[j])
    /\ \A r \in DOMAIN runs : pc = "runs" => Len(runs[r]) <= MaxBatch
    /\ next \in 1..(Len(runs) + K)
    /\ merge # NoMerge =>
          /\ Len(merge.heap) <= merge.k /\ Len(merge.produced) < MergeBuffer
          /\ \A r \in 1..merge.k : Len(merge.buffers[r]) < MergeBuffer
                                   /\ merge.run_positions[r] \in 0..Len(RunOf(r))

(* The size a table is padded to is one that the shuffle accepts, so that  *)
(* no table is sorted without having been given to the shuffle.            *)
PaddedSizeIsAccepted ==
    pc \in {"shuffle", "shuffling", "runs", "merge"} =>
        Len(table) >= Len(rows) /\ is_valid_shuffle_size(Len(table))

(* The shuffle, whether or not it comes to its end, leaves the same rows,  *)
(* and during it none is lost between groups and buffers.                  *)
ShuffleKeepsRows == pc = "shuffling" => EveryRowIsSomewhere(table)

(* Where the heap has a record of the group's r-th run, and what is still  *)
(* to come of that run.                                                    *)
InHeap(r) == {x \in DOMAIN merge.heap : merge.heap[x].run_idx = r}

Pending(r) ==
    (IF InHeap(r) = {} THEN <<>> ELSE <<merge.heap[CHOOSE x \in InHeap(r) : TRUE].entry>>)
    \o merge.buffers[r]
    \o SubSeq(RunOf(r), merge.run_positions[r] + 1, Len(RunOf(r)))

(* During a merge the heap holds exactly the next row of every run that is *)
(* not used up, whichever buffers ended when: heap, buffer and unread rows *)
(* are together an end of the run, and none is missing.                    *)
HeapHoldsRunHeads ==
    (merge # NoMerge /\ fault = "none") =>
        /\ \A x, y \in DOMAIN merge.heap : merge.heap[x].run_idx = merge.heap[y].run_idx => x = y
        /\ \A r \in 1..merge.k :
              /\ IsSuffix(Pending(r), RunOf(r))
              /\ Pending(r) # <<>> => InHeap(r) # {}
        /\ RowBag(FlattenSeq([r \in 1..merge.k |-> RunOf(r)]))
             = RowBag(merge.result \o merge.produced
                      \o FlattenSeq([r \in 1..merge.k |-> Pending(r)]))

(* Without a fault every run is in order, and so is what a merge has put   *)
(* out so far.                                                             *)
RunsAreOrdered ==
    fault = "none" =>
        /\ \A r \in DOMAIN runs : IsOrdered(op, runs[r])
        /\ \A r \in DOMAIN new_runs : IsOrdered(op, new_runs[r])
        /\ merge # NoMerge => IsOrdered(op, merge.result \o merge.produced)

NoRowTwice(s) ==
    \A i, j \in DOMAIN s : (s[i] = s[j] /\ s[i].field_type # SORT_PADDING) => i = j

(* Whatever fails, no row gets into two runs or twice into one.            *)
RowsNeverMultiply ==
    LET here == FlattenSeq(new_runs) \o (IF merge = NoMerge THEN <<>>
                   ELSE merge.result \o merge.produced
                        \o FlattenSeq([r \in 1..merge.k |-> Pending(r)]))
    IN  pc \in {"runs", "merge"} => NoRowTwice(here) /\ NoRowTwice(FlattenSeq(runs))

(* The merge over its levels, groups, buffers and refill callbacks: the    *)
(* heap has the head of every run, what has come out is in order, and no   *)
(* row is there twice.                                                     *)
MergeInvariant == TypeOK /\ HeapHoldsRunHeads /\ RunsAreOrdered /\ RowsNeverMultiply

Service == INSTANCE SortService WITH
    comparator <- op,
    status <- CASE pc = "done" -> "answered" [] pc = "thrown" -> "failed" [] OTHER -> "running",
    answer <- IF pc = "done" THEN table ELSE <<>>,
    faulty <- fault # "none"

(* The call implements the one-step service: the rows in order, or, once   *)
(* something failed, a report or some of the rows.                         *)
ImplementsSortService == Service!Spec

(* The call ends: no buffer, callback or failure keeps the manager's loop  *)
(* running.                                                                *)
CallEnds == <>(pc \in {"done", "thrown"})

(* Without a fault the rows of a table that has any order are shuffled     *)
(* before they are sorted.                                                 *)
ShuffleCompletes ==
    (Len(rows) > 1 /\ pc \in {"runs", "merge", "done"} /\ fault = "none") => shuffled

=============================================================================
