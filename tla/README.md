# Oblivious multi-way band joins: TLA+ models and proofs

This directory is the formal companion of the join engines in `src/`. The program
answers `SELECT *` queries over several tables whose join conditions form a tree;
every edge of the tree is an equality or a *band* condition
(`child.a IN [parent.b + d1, parent.b + d2]`, each end open, closed or infinite). The
join runs inside an SGX enclave and is oblivious: its memory accesses must not depend
on the data, which is why it is built from sorts, linear passes and a fixed routing
network instead of hash tables. That makes it correct for reasons that no single
function shows: counts made in one pass are the sort keys of a pass two phases later.

The modules here say what the program does, step by step, and what it must achieve.
TLC checks them on small instances, TLAPS proves the central results for all inputs.

    tlc  -workers 2 -config EnclaveJoin.cfg MCEnclaveJoin     # a run
    tlapm DistributeProofs.tla                                     # a proof

`PROJECT.json` lists the runs, the source lines behind every definition (`map`), the
mutants (a plausible bug per property, which TLC must catch), the hazards and the theorems.

---------------------------------------------------------------------------------------

## 1. Inventory

The repository holds two engines of its own and drives a third one.

* **Single-ecall engine** (`app/`, `common/`, `enclave/`): the host parses the query,
  reads the tables, builds the join tree, and makes one call into the enclave.
* **Batching engine** (`baselines/batching/`): the same algorithm, driven by the host,
  which calls the enclave for every batch of row operations.
* **OBLIVIATOR** (`baselines/obliviator/`): Python scripts that drive a third-party
  program which is not in the repository.

| component | source | state | operations | status |
|---|---|---|---|---|
| Query front end | `app/query` | tokens, list of join conditions | tokenise, parse, comparison to constraint, merge conditions on the same columns | partly: the conditions |
| Join-tree serialisation | `app/join` | visited set, permutation state, emitted nodes | root and child order of a variant, depth-first walk, post-order emission, counting the variants | modelled, proved |
| Host driver, table reader | `app/sgx/sgx_join.cpp`, `app/io` | loaded tables, output columns | result layout, projection, CSV input | partly: the column map |
| Enclave join pipeline | `enclave/trusted/join` | the rows' scratch fields, expanded tables, accumulated result | decrypt, bottom-up, top-down, expand, align | modelled |
| Oblivious sort | `oblivious_sort.c` | padded copy, control bits | Waksman shuffle, then `qsort` | modelled |
| Distribution network | `distribute.c` | slots, distance | compare-and-swap passes | modelled, proved |
| Result stream, decryptor | `Enclave.cpp`, `ocalls.cpp`, `decrypt_result.cpp`, `aes_crypto.c` | chunk buffer, nonce counter, CSV file, batch | stage, encrypt, send, write, read back, decrypt | modelled |
| Enclave heap | `mem_track.c` and all of the above | live blocks, pointers | allocate, release, every failure path | modelled |
| Batching: join phases | `baselines/batching/app/algorithms` | tables of entries | the four phases as maps, windows and sorts; the expansion of one table | modelled |
| Batching: external merge sort | `merge_sort_manager.cpp`, `k_way_merge.c`, `min_heap.c` | runs, heap, refill buffers | sort runs, merge k ways, refill by callback | modelled |
| Batching: shuffle | `shuffle_manager.cpp`, `k_way_shuffle.c`, `oblivious_waksman.c` | groups and positions | decompose, recurse, reconstruct | modelled, proved |
| Batching: distribution | `aks_distribute.c`, `distribute_manager.cpp` | the host's array, pending calls | recursive distribution, chunk by chunk | modelled |
| Batching: collector, dispatcher | `ecall_batch_collector.cpp`, `batch_dispatcher.c`, `table.cpp` | rows by address, operations, write-back list | collect, flush, write back | partly: maps, linear passes, padding; parallel passes by their effect |
| Batching: tree building, host I/O | `app/query`, `app/join`, `app/file_io`, `main` | join tree, directory of tables | merge conditions, build tree, encrypt, load, save | partly: all but text |
| OBLIVIATOR harness, SGX bridge, scripts | `baselines/obliviator`, `Enclave_t.c`, `Enclave_u.c`, `scripts` | – | – | not modelled |

**How they interact.** In the single-ecall engine everything is a chain of calls. The
front end's conditions are the serialiser's join graph; the serialiser's array of nodes
is the enclave's input, and its order is the loop order of every phase. The host
computes from the same array where each table's columns are in a result row
(`result_layout`), on its own, and must agree with the order in which `align_concat`
attaches tables. The enclave hands result rows back by `ocall_stream_result`, one call
per chunk; the writer on the host keeps the row width from a marker row. Later
`decrypt_result` sends the file through the enclave again. In the batching engine the
host keeps the tables and calls the enclave for each batch; the merge sort and the
shuffle call back into the host for the next buffer of a run or a group.

**What is hard.** Neither engine has threads. The difficulty lies elsewhere:

* *Order that nobody chose.* The oblivious sort shuffles before it sorts, so that rows
  with equal keys end in any order. Every phase has to be right for all of them.
* *Protocols over long distances.* `foreign_sum`, written by the top-down pass, is half
  of the key by which, two phases later, copies of a child's rows are aligned with copies
  of its parent's. An error shows only in trees with a centre node or two levels.
* *Boundaries.* Open and closed ends at equal attribute values, rows that no match
  uses, empty tables, wrap-around of 32-bit counts, infinities that are finite numbers,
  powers of two that fit an array or just do not.
* *Reused memory.* The chunk buffer, the global comparator context, buffers that move
  from one owner to another, nonces that must not repeat.
* *Partial failure.* Any allocation and any call of the crypto library may fail, in the
  middle of a phase, of a sort under it, or of a half-sent result.
* *Batches* (batching engine): an operation collected later must see the effect of an
  earlier one in the same batch; a heap holds records of some runs while another run is
  refilled; recursion runs over the members of one manager object.

**What makes each component correct.** The front end: the conditions kept mean what the
text means. The serialiser: the tree is a post-order of the query's tables that decides
the WHERE clause, and the variants are all rooted orientations, each once. The pipeline:
the result is the multiset of all matches, for every tie order and layout. The network:
every row reaches its slot and none is displaced. The stream: only ciphertext leaves, no
nonce twice, the file is a prefix of the result, and reads back as such. The heap: every
buffer is released exactly once, and every failure of an allocation, of a random key or of a
key stream is reported (the failing decryption of an input row is not, section 5). The batching engine: the
same promises as the single-ecall engine, phase by phase; its sort, whatever sizes padding,
groups, runs and buffers have, loses and repeats no row and ends; and a run leaves the query's
answer or a failure that is reported.

---------------------------------------------------------------------------------------

## 2. Modules

    single-ecall engine
      BandConstraint
        │  JoinTree ─────────────── EnclaveHeap ─┬─ MCEnclaveHeap
        │   │                                    └─ EnclaveHeapProofs
        │   │  └──── QueryPlan (with BandConstraint) ─┬─ MCQueryPlan
        │   │                                         └─ QueryPlanProofs
        └─ BandJoin
            │   DistributeOps ── Distribute ──┬─ MCDistribute (with EnclaveSort)
            │     │                           └─ DistributeProofs
            └─ JoinPhases ── EnclaveJoin ── MCEnclaveJoin
               (with MachineWords, EnclaveSort)
                  JoinService  (implemented by EnclaveJoin)
      ResultStream ─┬─ MCResultStream
                    └─ ResultStreamProofs
      WaksmanNetwork ── EnclaveSort

    batching engine
      BatchOps ─┬─ AksDistribute ── BatchExpand ── MCBatchExpand
                │      ExpandService  (implemented by BatchExpand)
                ├─ BatchOpsProofs ── AksDistributeProofs ── BatchExpandProofs
                │      (about BatchOps, AksDistribute and BatchExpand)
                └─ BatchComparators ─┬─ BatchSort ─┬─ MCBatchSort
                                     │             └─ BatchSortProofs (with BatchOpsProofs)
                                     │  (with MinHeap, BatchShuffle; WaksmanNetwork ── BatchShuffle)
                                     │     SortService  (implemented by BatchSort)
                                     └─ BatchRows ── TableFiles ─┐
      BandConstraint ── QueryText ── TreeBuilder (with JoinTree) ┴─ BatchJoin ── MCBatchJoin
                            └─ QueryService  (implemented by BatchJoin)

| module | models | how it corresponds to the code |
|---|---|---|
| `BandConstraint` | `join_constraint.h`, `condition_merger.cpp`, `operator_to_constraint` | The meaning of a constraint (`InBand`) and the three ways the front end makes one: from a comparison, by intersection, by turning it around. |
| `QueryPlan` | `merge_join_conditions`, `join_tree_serializer.cpp` | `MergeGroup` is one group of the merge loop. A frame of `stack` is a call of `collect_postorder`, with the children it still has to visit; `Descend` is one iteration of its loop (visit, skip or throw), `Emit` its return, `SerializeStart` and `SerializeEnd` the code around it, `NextVariant` the next invocation of the program with the variant number one higher. |
| `JoinTree`, `BandJoin` | `ecall_types.h`, `align.c` | The node array, its traversals, and the reference definition of the join: the matching choices of one row per node. |
| `DistributeOps` | `distribute.c` | The swap condition and the swap, shared by the two modules below. |
| `MachineWords` | `int32_t` | `Int32` reduces to `IntBits` bits; `CDiv` is C's division. |
| `WaksmanNetwork`, `EnclaveSort` | `oblivious_sort.c`, `pad_adjust` | The network as the sequence of its switches; the sort over every stream of bits (`Outcomes`), and `ej_osort_g`, the sort as the phases use it, which `SortLeavesTiesInAnyOrder` ties to the former. |
| `JoinPhases` | `skinny.c`, `trow.c`, `bottom_up.c`, `top_down.c`, `distribute.c`, `align.c` | One operator per phase function. A sort is `ej_osort_g(s, key, sh)`: `s` in the order of the comparator's keys, its ties as the permutation `sh` leaves them. Counters are reduced to `IntBits` by `Int32` where the code stores an `int32_t`. |
| `EnclaveJoin` | `ecall_run_join` | One action per iteration of a phase's loop, over the whole rows with their scratch fields. `OutOfMemory` may happen in any phase. |
| `JoinService` | – | The abstract promise: one step delivers the bag of all matches, or fails with nothing. |
| `Distribute` | `expand_single_table` | One action per loop iteration; in the network, one per compare-and-swap. |
| `ResultStream` | `stream_result_rows`, `ocall_stream_result`, `decrypt_result.cpp`, `aes_crypto.c` | A cell is a value under a set of key-stream words. Applying a word twice removes it, so the model tells plaintext, ciphertext, and a cell decrypted with the wrong nonce apart. Every `malloc` and crypto call may fail. |
| `EnclaveHeap` | all allocations of the call | Blocks and pointer variables only. A `free` of a pointer that is not a live block, or of one block twice, sets `bad`; a row of `free` calls is one operator over the set of its pointers; the allocator hands out the lowest free block, so that a dangling pointer soon points to someone else's. `Fault` notes what failed; a failing decryption is noted and changes nothing else, as in the code. |
| `BatchOps` | `ecall_batch_collector.cpp`, `batch_dispatcher.c`, `transform_functions.c`, `window_functions.c` | The row operations by op code; a batch as the collector keeps it (addresses, copies of the rows, operations as pairs of indices); the dispatcher and the write-back. |
| `AksDistribute` | `aks_distribute.c`, `distribute_manager.cpp` | `distribute_inner` and `distribute_2power` run in the enclave's buffer and are recursive functions. The `_large` functions work on the host's array: `stack` holds their pending calls, and a step is one chunk scanned or swapped, or one part that fits the buffer; a lost enclave may leave a swapped chunk half written (`AksSwapTorn`). |
| `BatchExpand` | `distribute_expand.cpp`, `table.cpp` | `ExpandSingleTable` for one table. `PassTurn` is one turn of any pass's loop with the flush that it causes, `PassEnd` the flush behind the loop; the sort is modelled by what `SortService` promises of it: `Sort` with the enclave, `SortFails` without. `EnclaveLost` may happen at any moment. |
| `ExpandService` | – | The abstract promise: one step answers with every row `final_mult` times, or the call fails because the enclave is gone; what a lost enclave may leave unnoticed is named. |
| `BatchComparators`, `MinHeap` | `merge_comparators.c`, `min_heap.c`, `heap_sort.c` | An order is the tuple of keys by which its comparator decides; the heap is the array, as a sequence, under the code's sifts. |
| `BatchShuffle` | `shuffle_manager.cpp`, `k_way_shuffle.c`, `oblivious_waksman.c`, `calculate_shuffle_padding` | The manager's members, the enclave's shuffle state and the buffers; a step is one round of dealing or collecting `K` rows, or one group. |
| `BatchSort` | `shuffle_merge_sort`, `merge_sort_manager.cpp`, `k_way_merge.c` | Around the shuffle: padding, runs, and the merge, in which a step is one row popped, with the refill that it causes. The enclave may be lost, and its crypto library may fail, at any step. |
| `SortService` | – | The abstract promise: the table in order; after a fault only, a report or some of the rows. |
| `BatchRows` | `transform_functions.c`, `window_functions.c`, the passes of `table.cpp` | One operator per transform and window, under the code's names; a pass applies one to a table. A sort is modelled by what `SortService` promises, with ties as `sh` leaves them. |
| `QueryText`, `TreeBuilder` | the query's text, `query_parser.cpp`, `join_tree_builder.cpp` | What an author means by a query (tables, comparisons, the bag of its answer), with no reference to trees; and the tree that the engine makes of it. |
| `TableFiles` | `table_io.cpp`, `crypto_utils.cpp`, `aes_crypto.c` | A file as its column names, its mark of encryption, and its lines of numbers. Saving encrypts the rows if the first is plain (`save_encrypted_csv`) and throws at a table of both kinds or in a lost enclave (`SaveThrows`); what is written of a row is what the host holds (`StoredLine`). |
| `BatchJoin` | `encrypt_tables.cpp`, `main.cpp`, `oblivious_join.cpp` and the phases | One run of the engine from the directory of tables to the file of the answer. A step is a file encrypted, an edge or a node treated by a phase, a child attached. Rows carry the flag that the code gives them: that of their file, until a sort or the distribution encrypts them. `EnclaveLost` may happen at any moment, and inside an expansion (`ExpandInterrupted`). |
| `QueryService` | – | The abstract promise: one step answers the query's text over the directory's tables, or reports a failure that has a reason. |

**Abstractions.** Rows are sequences of small integers; column names are positions; text
(SQL, CSV) is left out except for the row count and order of the files. Node arrays, rows and
columns count from 1 where the code counts from 0; array slots in `Distribute` and row
indices keep the code's 0. `EnclaveJoin` takes one table per node, which `TreeIsPostOrder`
of `QueryPlan`, a theorem, says the serialiser guarantees. The AES-CTR key stream is a constant
involution in `EnclaveJoin`, a set of words in `ResultStream`, and the word of all ones in `TableFiles`. In `BatchRows` a row is written with
its attributes in the clear, with a flag that says whether the host holds it encrypted; that
encryption is uniform where it has to be is the matter of `BatchExpand`. The heap's byte counts
and the high-water mark are statistics and are left out.

---------------------------------------------------------------------------------------

## 3. Runs

| run | question | bounds |
|---|---|---|
| `join` | Does the call compute the band join for every kind of edge constraint, tie order and table content? Do copies align and columns land where the host reads them when a centre node has children on both sides? | two tables, child up to 3 rows, root up to 2, values 0..2 (of tables with three or more rows, or two columns, one per bag of rows, since every phase sorts before it scans and the shuffle alone decides what a sort does with ties), ten constraints (every comparison operator, `!=`, and bands with each combination of open and closed ends); two trees of four nodes under one one-sided condition; 157,064 states |
| `join_wrap` | Do the multiplicities of several children and several levels combine, even where counters wrap on the way? | chains and stars of three tables of up to 2 rows, two values, equality and an infinite side, counters of 3 bits; 139,040 states |
| `distribute` | Does every row reach its block? Can the sort before it, switch by switch, leave ties in every order, and nothing else? | every table of up to 4 rows with up to 3 copies each; every stream of bits for each |
| `result_stream` | Does what leaves the enclave, and what the decryptor reads back, equal the result? | results of up to 7 rows of 2 columns, every projection, chunks of 2 rows, a fault anywhere |
| `enclave_heap` | Is every buffer released exactly once on every path? | all trees of up to 4 nodes, every table empty, of one row, a power of two, or any other length; one fault anywhere that ends the call, with or without a failed decryption before it |
| `query_plan` | Does the tree decide the WHERE clause in every variant? | join graphs of 1 to 5 tables: a chain with a two-condition band, a star, a branching tree with a two-column table, under three operators, four queries that must be refused, and two with a table that only the WHERE clause names; all variants of each |
| `batch_expand` | Does the batching engine's expansion give every row its copies, wherever batches and buffers end, and what does a lost enclave leave behind? | tables of up to 3 rows with up to 7 copies each and up to 13 slots, encrypted or not, batches of 3, an enclave buffer of 4; 224,016 states |
| `batch_sort` | Does the batching engine sort, wherever groups, runs and buffers end, and what do a lost enclave and a failing crypto library leave behind? Does it end? | tables of up to 9 rows (padded to 16, in 6 runs), four comparators, `K` = 2, batches of 3, merge buffers of 2, shuffle buffers of 1 |
| `batch_join` | Does a run of the batching engine leave the query's answer in the file, or report a failure? | queries over one to four tables: pairs with conditions written from either side, chains, a star, a tree with a centre node; tables of up to 3 rows, encrypted first or not, ties in either order, the enclave lost anywhere; 280,382 states |
| `join_infinity`, `plan_opposite`, `nested_shuffle` | disagreements, see section 6 | |

**What the properties say.**

* `LocalMultCountsSubtrees`, `FinalMultCountsUses`: the counts in the rows, after every
  step of the first two phases, equal the numbers of partial and of full matches that the
  reference join has. The first is stated modulo the counter's width and so also holds
  when counters wrap; the second whenever the result's cardinality fits.
* `AccumulatorIsPartialJoin`: after each attached child the accumulated rows are the join
  restricted to the attached nodes, with the multiplicities of the *whole* join, at the
  columns where the host looks for them. This is the property that a wrong alignment key
  violates.
* `ImplementsJoinService`: a refinement. Under the mapping that reads the answer through
  the host's column map, every behaviour of the call is one step of the abstract service.
* `RowsReachDestinations`, `EveryRowFillsItsBlock`, `NeverDisplacesARow`: delivery,
  expansion, and the action property that a step never moves a row to the left.
* `SortLeavesTiesInAnyOrder`: over every stream of bits, the orders that the enclave's sort
  leaves are exactly those in which equal keys stand in any order. One half (no order but a
  sorted one, no row lost to the padding) is what the phases rely on; the other (no order
  missing, although each level of the network leaves a switch out) is what the tie orders
  of the other runs stand for. The batching engine's network has the same switches.
* `OnlyCiphertextLeaves`, `NoncesAreFresh`, `FileIsResultPrefix`, `FailsOnlyOnFault`,
  `DecryptorRestoresFile`: the stream's promises; the fourth says that a call fails only
  when the library or the allocator did, which the reuse of the chunk buffer endangers.
* `HeapInvariant`, `NothingLeaks`, `FailureIsReported`: the heap's promises. The first joins
  `TypeOK`, `NoBadFree` (nothing released that is not live) and `OneOwnerEach` (every buffer the
  code at this place uses is live, and every live block has exactly one owner among the pointers
  that this code may still release). The third says that the call succeeds exactly when nothing
  that it checks failed (`Noticed`); it discards the status of the decryption
  (`Enclave.cpp:143`), so that one failure is in the model and not in the status.
* `BatchInvariant`: `TypeOK`, and `BatchesContinueThePass`: at every moment, flushing the batch
  as it is would give what the unbatched pass has made of the table so far.
* `DistributionInvariant`: each pending call of the
  distribution finds in its part of the array exactly the rows that belong there, and what no
  call covers any more is routed. A wrong rotation or offset violates it.
* `EncryptionIsUniform`: no table is ever half encrypted where the next phase would stop at it.
* `ImplementsExpandService`: a refinement with its liveness. The call ends, with the
  expansion or a failure; a lost enclave goes unnoticed only where the answer needs no further
  call, which is an output of one row (a row of the table, or of the sort's padding) or none.
* `PaddedSizeIsAccepted`: whatever size the padding makes, the recursion of the shuffle can divide.
* `ShuffleKeepsRows`: in the middle of dealing and collecting, the rows in groups, buffers and
  output are the table's, none lost or twice; and the vector always has them, faults or not.
* `MergeInvariant`: `TypeOK`; `HeapHoldsRunHeads`, the heap has the next row of each run that has
  not ended; `RunsAreOrdered`, every run, of every level, is in order; `RowsNeverMultiply`,
  no row is in the output of a merge twice, faults or not.
* `ImplementsSortService`, `CallEnds`: the refinement and its liveness. After a fault the manager
  may end a merge early and carry on; the abstract service says how much of that can be seen.
* `TreeDecidesTheQuery`: the batching engine's tree holds each table once, and its edges'
  constraints, turned as the tree requires, admit the row choices that the text admits.
* `LocalMultIsSubtreeCount`, `FinalMultIsUseCount`, `AccumulatorHoldsMatches`: what the three
  phases' passes leave in the rows, in terms of the query's text alone: the matches in the
  subtrees already taken in, the matches of the whole query that use the row, and the bag of all
  matches seen through the tables attached so far.
* `ImplementsQueryService`: a refinement over the whole run. An answered run's file, decrypted,
  holds the answer of the text; a failed one had a lost enclave, a table without rows, or a
  missing first table. (A query of one table may be answered empty when the enclave is lost at
  the call for the output size: the code does that, so the service allows it.)
* `WalkInvariant` (`TypeOK` and `TreeIsPostOrder`), `TreeDecidesQuery`, `VariantsEnumerateOrientations`,
  `RefusedForAReason`: what the phases take for granted of the array; that an assignment of
  attribute values satisfies the text exactly when it satisfies the tree, whichever table is the
  root; that the variants are all post-orders of the join graph's orientations (defined
  independently of the traversal), each exactly once; and that nothing else is refused. If the WHERE
  clause names a table that the FROM clause does not, less is true (section 6), and the properties say
  so by `WhereNamesFrom`: the tree is then a post-order of as many tables as the query has, not
  necessarily of its own, and the query may be refused for that reason.

**Why the bounds are enough.** Ties matter as soon as two rows share a key, and two or
three rows per table with two or three values produce every pattern of ties and of rows
without a match, including empty tables. Bands up to width 3 over values 0..2 put rows
before, on both ends of, inside and after each interval. A division of an output count
among children needs two children or two levels: `join_wrap`. That the attach order
differs from pre-order, and that a node is centre between parent and children, needs four
nodes: the second part of `join`, and the last one of `batch_join`. Chunks of 2 with up to 7 rows give no, one partial, several full, and
a partial last chunk. Passes of 0 to 13 turns over batches of 3
end before, with and after a flush, and neighbouring rows fall into one batch or into two; 13 slots over a buffer of 4 make the
distribution recurse through both of its functions above the buffer (13 = 5 + 8, 8 = 4 + 4)
with odd remainders. In `batch_sort`, the 16 rows that 9 are padded to make six
runs of 3, merged on three levels, with a group of one run, and with runs
that end with and before their buffer; tables above the threshold go through one
level of groups, which is all that works (section 6). In `batch_join` two values suffice to make
matches, ties and rows without a match once there are three tables or more; pairs have three values, for
the bands. In `Distribute` up to 12 slots give distances 8, 4, 2, 1; the
theorems remove the bound. Two shuffles (order kept, order reversed) are enough to put any
two tied rows in either order; what is not enumerated is three tied rows in mixed orders.

**Bounds in the modules.** `MaxRows`, `MaxLastRows`, `MaxRootRows`, `Values`, `Constraints`,
`Shapes`, `PairConstraints`, `PairValues`, `PairRows` (`MCEnclaveJoin`), `MaxRows`, `MaxMult` (`MCDistribute`), `MaxRows`,
`STREAM_CHUNK`, `BATCH` (`MCResultStream`), `MaxNodes` (`MCEnclaveHeap`), `Families`, `GoodOps`,
`Values` (`MCQueryPlan`), `AKS_BUFFER`, `MaxBatch`, `MaxRows`, `MaxMult`, `MaxOut` (`MCBatchExpand`),
`SmallSizes`, `LargeSizes`, `K`, `MaxBatch`, `ShuffleBuffer`, `MergeBuffer` (`MCBatchSort`), `MaxRows`, `Values`,
`PairValues`, `Comparisons`, `WideComparisons`, `Shuffles` (`MCBatchJoin`); `IntBits` and `AttrMax`,
the width of an `int32_t` and the range of attributes, where they occur. All are
constants of the instances; the modules themselves are unbounded, save that `EnclaveHeap`
has at most one fault per call besides failed decryptions, as every other failure ends it.

**Fairness.** `BatchExpand` and `BatchSort` assume weak fairness of the call's own steps
(`Advance`, written out as `KeepsRunning`, as the steps are enabled exactly until the call ends): it is
sequential code that waits for nobody, so it keeps running. The loss of the enclave and the
failures of its crypto library are not fair: they may never happen. The other modules claim no liveness. Their calls are sequential
loops over finite arrays; each run has deadlock checking on and ends in an explicit `Ended`
step, so that a loop which gets stuck is reported.

---------------------------------------------------------------------------------------

## 4. Proofs

`DistributeProofs` proves, for every table and every number of copies
(`MultsAssumption`: the multiplicities are sequences of naturals):

| theorem | property |
|---|---|
| `TypeCorrect` | `TypeOK`; in particular no pair of slots lies outside the array |
| `Delivery` | `RowsReachDestinations` |
| `Expansion` | `EveryRowFillsItsBlock` |
| `NoDisplacement` | `NeverDisplacesARow` |

None of the properties is inductive. That a row is home when the network ends says nothing
about the middle; that a swap only ever meets padding depends on *all* rows' positions.
The invariant `IInv` adds:

* `Blocks`, `NoGap`: the destinations are prefix sums, and the blocks of the rows that have
  copies tile the slots without a gap;
* `Starts`, `Indexed`: after the sort, rows stand in order at the front, and (`Gaps`) each
  starts at or before its destination, no two destinations being closer than the starts;
* `Halves`: every distance of the search for the first one is 1 or twice an earlier one, so
  that halving it again is exact;
* `Routed`, the heart: in the pass with distance *d*, a row has come a multiple of *d* from
  its start and is less than 2*d* short of its destination; less than *d* if it stands at or
  behind slot `j`, the part that the pass has treated. Two rows that would meet in a slot
  would differ by a multiple of *d* in their starts, while `Gaps` keeps their destinations at
  least that far apart: so one of them was not due to move. Hence a swap meets padding
  (`SwapsIntoPadding`), and no row ever goes back;
* `Filled`: in the last pass, the slots before the loop's position hold their block's row.

Each conjunct has a lemma saying that a step preserves it (`TypeStep`, `BlocksStep`, ...,
`FilledStep`), with one case per action; `Invariance` combines them.

`QueryPlanProofs` begins with the algebra of constraints, for every attribute range
(`AttrMaxAssumption`: `JOIN_ATTR_MAX` is a positive number): `OperatorMeaning` (a
comparison's constraint admits what the comparison does), `ReverseSwapsRoles`,
`MergeIsIntersection`, `RefusedRangeIsEmpty`. The rest of the module builds on these: whichever way an edge is turned and
however many conditions it was merged from, its constraint admits the same pairs.

`ResultStreamProofs` proves all six properties of `result_stream`, for every result, projection,
chunk and batch size (`SizesAssumption`: results and projections are finite sequences; the chunk and batch sizes are positive):

| theorem | property |
|---|---|
| `TypeCorrect` | `TypeOK` |
| `Ciphertext`, `FreshNonces` | `OnlyCiphertextLeaves`, `NoncesAreFresh` |
| `PrefixInOrder` | `FileIsResultPrefix` |
| `NoRefusal` | `FailsOnlyOnFault` |
| `Restoration` | `DecryptorRestoresFile` |

What the properties say of the file does not follow from what they say of it one step earlier:
it depends on the chunk, which is reused. The invariant adds `Counters` (while the call streams, the
nonce counter is the number of the next row; whole chunks have been sent, or everything), `Staging`
(the entries staged so far hold the rows after those sent, each under the words of its own nonce,
and every other entry is of the right shape, whatever chunk left it there) and `Restored` (the decryptor's
output followed by its pending batch is what it has read). The two lemmas about the cipher carry
it: an entry whose flag and columns were reset is encrypted without refusal, and what is
rebuilt from a line decrypts to that line's row. Without the reset, the first one fails from the second chunk on.

`EnclaveHeapProofs` proves the three properties of `enclave_heap`, for every join tree:

| theorem | property |
|---|---|
| `Owned` | `HeapInvariant`: `TypeOK`, `NoBadFree`, `OneOwnerEach` |
| `NoLeak` | `NothingLeaks` |
| `Reported` | `FailureIsReported` |

The argument is ownership. `Sound(heap, U, S)` says that the pointers in `S` own the live blocks, one
each, and that those in `U` have one. Each operation is a lemma on sound heaps: an allocation adds an owner
(`Allocation`, with `FreshIsFree`: the allocator's choice exists and is free), a release takes owners away
(`Release`), a block changes hands (`Move`), a cleared pointer stops mattering (`Forgetting`, `Clearing`).
`OwnersAtEachPlace` tabulates which pointers own something at each place of the code, and the proof that a step keeps `Ownership`
follows the code from row to row of that table, once per way out. At `returned` the row is empty,
so nothing is live. `Control` and `Failure` complete the invariant: a sort
that failed is known to its caller, and to nobody else.

`TreesAssumption` (a tree has a node; its root and the children to attach are nodes of it) is an
assumption on the trees the host passes. That the pre-order over `children` stays
within the array is an induction over trees, out of the prover's reach; TLC evaluates the assumption on every
tree of `MCEnclaveHeap`.

`BatchExpandProofs` proves three properties of `batch_expand` and the safety part of its refinement, for every table with rows
(`CountsAssumption`), every batch size (`MaxBatchAssumption`: it is positive) and every enclave
buffer (`AksBufferAssumption`: an even number of at least two rows), wherever the enclave is lost:

| theorem | property |
|---|---|
| `BatchesAreSafe` | `BatchInvariant`: `TypeOK`, `BatchesContinueThePass` |
| `EncryptionStaysUniform` | `EncryptionIsUniform` |
| `DistributionRoutes` | `DistributionInvariant` |
| `ExpansionIsCorrect` | `Service!Init /\ [][Service!Next]_(Service!vars)`, the safety part of `ImplementsExpandService` |

*Batches.* `BatchOpsProofs` says what a batch does, in terms of its *effect*: the table as flushing it
would leave it. A batch that names each row once, with copies of the rows as they are in the table
(`WellFormed`), writes back the run of its operations on the copies (`EffectOfFlush`); collecting
a row that is not in it has no effect (`CollectingHasNoEffect`, which is false without the
deduplication by address); and one more operation changes the effect by that operation, applied to
the rows *as the batch would leave them*, not as the table holds them (`MapTurn`,
`WindowTurn`). The run is a recursive function; that it has a solution, one step after
the other, is itself a lemma (`RunExists`, by way of the smallest number without one: `UpTo`). `IInv` then says that the
effect is the unbatched pass so far (`InPass`). `BatchesContinueThePass` alone is not inductive: it says
nothing of a batch's shape, on which the next turn depends, nor of the sizes: the last row that gives the
output size must be there, and so must a first row for the linear passes.

*Flags.* The transforms and windows leave a row's flag alone, because the dispatcher restores it (`FlushKeepsFlags`);
padding takes the flag of the first row; only the distribution changes flags, and must then change all of
them. `AksDistributeProofs` shows that it does: by `NoSlotForgotten`, each slot of the array either
holds an encrypted row or lies in the part of a pending call of two rows at least. A call that
divides its part hands every slot on (`SubcallsDivide`; its halves fill the part because `aks_pow2_lt` finds
the largest power of two below the part's size, `LargestPower`, and the rotating calls only ever get powers of two,
`HalfOfPower`), except the single slot of a part of one row, which no call handles any more, and which the
swap has just encrypted. A lost enclave does leave a half-encrypted table, of two rows or more; `FlagInv`
says that the copying pass over it then holds an operation in its batch and cannot end but by throwing.

*Routing.* `DistributionInvariant` says what each pending call finds in its part; that it follows from what the calls before it
did takes the whole algorithm. `Arranged` is the shape that the code keeps: the rows of a part lie in a run of slots that starts
at the rotation `ofs` and may wrap around, in the order of their destinations, all of which are in the part, with padding in
the other slots. Splitting such a part gives two such parts, and the rotations that the code computes for them are theirs:
`HalvesArranged` for a part of a power of two rows, `InnerArranged` for the others, both for every width, start and
rotation. (A scan counts the rows of the left half; `CountIsRank` turns the count into a place in the order.)
From these follow two things:

* `InnerRoutes`: in the enclave's own buffer, `distribute_inner` and `distribute_2power` put every row of a part
  in its slot, whatever its width. The model writes their recursion as a function over the widths below
  (`Halving`, `Parting`: one call, given what the calls that it makes do), and the calls on the halves as calls on slices;
  the smallest width that is routed wrongly does not exist (`HalvingRoutes`, `PartingRoutes`).
* `Parted`, the invariant of the array in the host's memory: each pending call is at some chunk of its scan or of its
  swap, and what it has counted and swapped so far is what those chunks hold (`Progress`: its part is arranged, but for the
  first pairs, which are exchanged); only the first call has begun, parts do not meet, and slots in
  no part are done with. Each step of the four keeps it (`StepsKeepParted`), and it decides the property (`PartedDecides`).

`RowInv` brings the rows there: indices and zero destinations after the first pass, prefix sums
after the second, rows without copies marked as padding, and after the sort (`SortedIsFronted`) real rows in front with
ascending destinations, which is how the distribution wants them (`StartIsParted`). That destinations ascend is where
the prefix sums come in (`SumsGrow`). TLC evaluated both invariants over the states of `batch_expand` first.

*The answer.* Routing alone would hold of an array that has lost a row. `SameReal` says that two tables have the same
rows, up to their flags: sorting and cutting the table to the size of its output keeps them, because that many slots
hold all rows with copies (`SortedHasRows`, `FrontSpreads`), padding adds none, and every swap and every part routed in the enclave
keeps them (`SwapKeepsRows`, `BaseCaseKeepsRows`). So after the distribution each row with copies is at the slot
where its copies begin, with padding up to the next row's; the copying pass, which the batches continue, fills
that with copies (`CopiesFill`), and the result is the flattened sequence that `ExpandService` names
(`BlocksAreExpansion`). `RowInv` follows the lost enclave too. A loss before the sort ends the call at the next flush. One in the
sort leaves some of the rows in any order, perhaps with padding (`RemainsIs`, `SortFailsKeepsRows`), one in the distribution
rows that never moved, or half of a chunk's; then either the next pass holds an
operation that it must flush, and throws (`Unflushed`), or it has no turn to make, and the answer is one row, of the table or of the padding, or
none. Each action is then a step of the service or a stutter (`NextServes`).

`BatchSortProofs` proves two properties of `batch_sort`, for every table, every buffer size, wherever the
enclave is lost or its crypto library fails, and however deep the shuffle runs inside itself (the runs go
one level deep, `nested_shuffle` two):

| theorem | property |
|---|---|
| `ShuffleKeepsAll` | `ShuffleKeepsRows` |
| `EveryTableIsShuffled` | `PaddedSizeIsAccepted` |

The assumptions are `ShuffleAssumption` (`K` is at least 2, sizes are positive), `InputsAssumption` (tables are
finite sequences of distinct rows, none of them padding, and sorted by one of the engine's comparators) and, for the second theorem only, `SizesAssumption`: `K` is a power of two and at most twice
the threshold. The code has 8 and 2000 (the Makefile takes other thresholds; 4 is enough). Without it the property
is false: if both were 3, eight rows would be padded to twelve, a size that the check refuses.

*Rows.* That two sequences have the same rows is said by counting: `SameRows` says that of every set both have as many rows
(`Times`), which adds up over concatenation (`TimesConcat`), over the groups
(`AllAdds`), and is invariant under an exchange (`ExchangeRearranges`); `SameBag` translates it to the bags of the
property. The switches of the Waksman network are built from those of its halves, and all of them are inside the
array (`SwitchesInside`, by the smallest size that has none: `NetworkExists`), so that whichever cross, the rows are
the same (`WaksmanRearranges`).

*Places.* `ShuffleKeepsRows` speaks of the outermost activation and is not inductive. `ShuffleInv` adds how activations nest (`Nested`: all but
the innermost wait in their loop over the groups, and only the outermost works for `shuffle()`'s vector); what
the enclave holds for the innermost one (`Served`); and per phase where rows are and how far each group is
(`Dealing`, `Dealt`, `Rebuilding`: as many rows in each group and buffer as rounds have been dealt, or are to
come). The last of these needs `Disowned`: a nested activation that has ended leaves `current_instance` unset,
and then no group can be read, so that what the outer one would put together, out of groups that
the nested one has cleared, never replaces the vector. That is how the rows survive the
failure of section 6. Each action has a lemma (`DecomposeRoundKeeps`, ...). TLC evaluated `ShuffleInv` over
the states of `batch_sort` and `nested_shuffle` first.

*Sizes.* `Powers` is the least set with 1 and all doubles. Of two powers one divides the other
(`PowersDivide`), so the loop of `is_valid_shuffle_size` can divide a power above the threshold by `K`, and
ends at a power below it (`PowersAreValid`). The padded size is a power, as a product of powers, and not below
the table's (`PaddedIsPower`): rounding up when dividing loses nothing (`DividedCovers`). So the branch
"this shouldn't happen" of `calculate_shuffle_padding` does not.

*Heap sort.* The runs are sorted in the enclave by `heap_sort`, which `BatchOpsProofs` treats:
`HeapSortSorts` says, for every table and every comparator under which its keys are comparable (`Orders`), that the
result has the table's rows, none lost or repeated (`Rearranged`), in order. A turn of either sift repairs the heap at
one place and breaks it one level on at most; when no turn is left, the heap is whole. Since a turn exchanges two records, the rows
stay the same. The same lemmas give what the merge needs of `heap_push` and `heap_pop`.

`QueryPlanProofs` proves three properties of `query_plan`, for every query
(`QueriesAssumption`: table and column numbers are numbers, as the parser makes them; whether they
name anything that is loaded is for the code to find out), any number of loaded
tables with any number of columns (`ColumnsAssumption`), every attribute range, and every set of
integer attribute values (`ValuesAssumption`):

| theorem | property |
|---|---|
| `WalkIsPostOrder` | `WalkInvariant`: `TypeOK`, `TreeIsPostOrder` |
| `RefusalsHaveReasons` | `RefusedForAReason` |
| `TreesDecideQueries` | `TreeDecidesQuery`, for treelike queries |
| `TreeLosesNothing` | half of it, for every query without a "!=" |

The properties speak of the end of a walk; the invariant `IInv` (`PlanIsInductive`) of its middle:

* `Merging`: what is merged so far comes from the query's conditions, and every condition is in a
  group to come or in an edge;
* `Calls`: the marked tables are those of pending calls and those emitted, each once (`Marked`, `Once`); each pending
  call but the first is for an edge from its caller (`Nested`), with children that are neighbours of
  its table (`KidsOf`); the parent of an emitted node is pending or emitted later (`ParentsAhead`), so that
  with nothing pending the order is a post-order, and only the last node is a root;
* `Closed`: the neighbours of an emitted table are marked, those of a pending one are marked or among
  its children to come. At the end, then, the marked tables are a whole component of the join graph, and
  if their number is not the query's, the graph is disconnected (`MissedTables`, by `SideInside`);
* `Chosen`: the variant number is below the count while the walk lasts, and never beyond it.

The invariant itself was checked by TLC over the states of `query_plan` first. Each operation has a lemma on constant arguments (`DropKid`, `PushFrame`, `PopFrame`, and the
same for `Closed`), each action one that applies them (`DescendKeeps`, ...). `PermutationKeeps` says that the children in the order of
a digit of the variant number are the children, none lost and none twice: the factoradic digits stay in range
because each division leaves a remainder below the next factorial. The functions of the module are recursive over
`0..n`; `Recursion` and `StaysIn` give each its equation and its range, from the smallest
number without (`UpTo`), so that no induction theorem with an operator for a parameter is needed.

Nothing checks that the WHERE clause names only tables of the FROM clause, and no theorem assumes it of
the query: `Marked` and `Closed` are about the loaded tables, whichever clause names them. Only that the nodes
are the FROM clause's own tables is said under the hypothesis `WhereNamesFrom`, and a query without it may be refused
for that (section 6, the reachability check).

What the tree *means* is a second invariant, `EdgesInv` (`EdgesAreConditions`). `Means(q, key, b)` says of a band
`b` that whatever satisfies the query's conditions on the columns `key` lies in it, and, if those conditions can be
satisfied together (`Agree`), that nothing else does. It holds of the first condition of a
group (`GivenMeans`), is kept when the next one is merged, refused intersections included (`StepMeans`), and so of the
whole group (`MergedMeans`). `EdgesInv` adds that each edge of a pending call and of an emitted node is one of the
merged conditions turned towards its parent (`NodeAgrees`), and that the tree answered carries the nodes' bands and
columns (`TreeAgrees`). Turning changes nothing (`TurnedMeansTheSame`). So every edge follows from the WHERE
clause: `TreeLosesNothing`, which needs no assumption on the shape of the query; on a cyclic query too, the
engine's tree admits too much and never too little.

For the converse no condition may be left over, which is a counting argument:
no condition is used by two nodes (`DifferentConditions`), a tree has one edge fewer than tables,
and so has the query (`NoConditionIsLeftOver`). That is the hypothesis `Treelike`:
one pair of columns fewer than tables, conditions on one pair that can be satisfied together, and no "!=". Without it
the property is false of the code, and not for want of a proof: a pair written from both sides is two groups, of which the
tree carries one (`plan_opposite`); a condition whose intersection is empty is dropped (section 6); and "!=" has no
band. TLC evaluated `Treelike` too: it holds of every query that `query_plan` answers. That the
variants are all the orientations, each once, is model-checked.

**Only model-checked**: the join phases of both engines and their refinements,
which trees the variants are, and the batching engine's merge. Most of these are
built from the library's folds over sequences and from recursion over trees; what
they compute for every input would need induction over data. The library's induction theorems, which take
an operator, cannot be instantiated; for functions over `0..n` a smallest counterexample does instead, as in
`BatchOpsProofs`, `AksDistributeProofs`, `QueryPlanProofs` and `BatchSortProofs`, but the library's folds and the recursion
over trees would have to be given that form first. Liveness (`CallEnds`, and that of `ImplementsExpandService`) stays with TLC as
well.

---------------------------------------------------------------------------------------

## 5. Not modelled, and why

* Tokenising, the recursive-descent parser, CSV reading: text processing without state that
  several steps share. (Conditions that are not joins are kept in `filter_conditions`, marked
  "not yet supported", and not applied.)
* Obliviousness itself, that is, that access patterns do not depend on data: a property of
  pairs of executions of compiled code. The models are about results.
* `qsort` and the generator of the shuffle's bits: modelled by what they return.
* Timing, statistics, debug output, the generated SGX bridge, experiment scripts and data.
* OBLIVIATOR: the program is not in the repository.
* What the join makes of a row that could not be decrypted: the status of `aes_decrypt_entry` is
  ignored at `Enclave.cpp:143`. `EnclaveHeap` has this failure, and shows that the call reports success all
  the same; in `EnclaveJoin`, whose properties are about the answer, decryption succeeds.
* Failures of the crypto library inside the batching engine's enclave; the loss of the enclave
  is modelled.
* The flush in the batch collector's destructor, when a failed flush unwinds: it throws a second
  time, and the process ends.
* Code that nothing calls: `batched_distribute_pass`, `DistributeExpand::DistributePhase`,
  `window_propagate`, `add_metadata`, `init_index` and `increment_index` outside the expansion,
  `SetJoinAttributesForTree` and `...ForNode`, `validate_tree`, the compare-and-swap variants in
  `comparators.c`, `save_csv`, `load_csv_directory`, and two merge comparators.
* In `BatchRows`: the fields `dst_idx` and `index`, which only the expansion uses; nonces; rows of
  more than `MAX_ATTRIBUTES` columns, and what lies behind a row's columns in its fixed array.
* Directories that hold encrypted and plain tables at once.

---------------------------------------------------------------------------------------

## 6. Where the code and its documentation disagree

* **One-sided conditions at the ends of the value range** (`join_infinity`). Infinity is
  the finite offset ±1073741821, added to the parent's attribute. A parent at the lower end of the
  safe range then misses children at the upper end.
* **Conditions on one pair of columns written from both sides** (`plan_opposite`).
  `A.x >= B.y AND B.y >= A.x - 1` stays two conditions, and the tree carries one.
* **The shuffle of a large table** (`nested_shuffle`). A group above the shuffle's threshold is
  shuffled by the same manager, which clears the groups of the shuffle in progress; the failure is
  logged, and the table is sorted without having been shuffled.
* **Contradictory conditions** (no run). A condition whose intersection with the earlier ones
  is empty is said to be kept separate; it is dropped, and the query answers as if it were not there.
* **The reachability check** (no run of its own) compares two counts, and the walk follows
  conditions to any table that is loaded. With a table that only the WHERE clause names, a connected query is
  refused with "join graph is disconnected" (`join_tree_serializer.cpp:269`), or that table
  stands in for a FROM table that was not reached. `query_plan` has a query of each kind.
* **Shared column names** (no run). `align_concat.cpp:48-50` says that every join column is "uniquely
  findable by its qualified name"; columns are kept and looked up by their bare names, and
  `get_column_index` takes the first. With `A(k)`, `B(b1, k)`, `C(c)` and
  `B.b1 >= A.k AND C.c = B.k`, `C` is attached by `A`'s `k`. The shipped data prefixes its column names.
* **Tables that are missing or not connected** (no run). `join_tree_builder.cpp:41` and `:94` warn and
  skip the table, and the query is answered without it; the comment above the first says "Add
  disconnected tables as direct children of root (cross product)".
* **Comparison by difference** (no run). `merge_comparators.c:77` subtracts join attributes;
  `enclave_types.h:46-49` says that the limits on attributes make all this safe. The end of an infinite
  band around an attribute of 10 is 2^31 and more away from the attribute `JOIN_ATTR_MIN`, so that the
  difference overflows. The single-ecall engine compares with `<`.
* Comments only: `align.h` documents the columns of the result in subtree order, the code appends
  them in attach order (the host agrees with the code, so results are right); `tests/test_join_tree_serializer.cpp:14` says a node's parent has a smaller
  index, in the array it has a larger one; `Enclave.cpp:200` speaks of microseconds where
  milliseconds are returned.

---------------------------------------------------------------------------------------

## 7. Plan

The order is by importance: the engine whose result everything else is compared with first,
then what feeds it and what carries its result, then the second engine.

1. *Done.* `BandJoin`, `JoinPhases`, `EnclaveJoin`, `JoinService`: the pipeline and its
   refinement. `Distribute` and its proofs.
2. *Done.* `ResultStream`, `EnclaveHeap`. `BandConstraint` with proofs, `QueryPlan`.
3. *Done.* `BatchOps`, `AksDistribute`, `BatchExpand`, `ExpandService`: the collector under maps,
   linear passes and padding, and the distribution, inside the expansion of one table.
4. *Done.* `BatchSort`, `MinHeap`, `BatchComparators`: runs and the k-way merge with its heap and refill
   callbacks, under faults; `SortService`.
5. *Done.* `BatchShuffle`, `WaksmanNetwork`, `EnclaveSort`: both shuffles and their network.
6. *Done.* `BatchRows`, `BatchJoin`, with `QueryText`, `TreeBuilder` and `TableFiles`: a whole run of the
   batching engine, shown to implement `QueryService`.
7. Open: the parallel pass of the collector, turn by turn, over two tables; text.
8. Proofs. *Done:* `Distribute`, `BandConstraint`, `ResultStream`, `EnclaveHeap`, the batches, the
   flags and the distribution of `BatchExpand`, the walk of `QueryPlan` and what its trees mean, the shuffle and the padding of
   `BatchSort`, the enclave's heap sort, the safety part of `ImplementsExpandService`. Open: that the merge loses no entry; the safety part of `Distribute`'s place in the pipeline, as a refinement.
