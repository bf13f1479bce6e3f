---------------------------- MODULE BatchShuffle ----------------------------
(***************************************************************************)
(* The batching engine's oblivious shuffle: a Waksman network in the       *)
(* enclave for few rows; for many, rounds of K rows are shuffled and dealt *)
(* to K groups, each group is shuffled in turn, and rounds of one row per  *)
(* group are shuffled and put together again (shuffle_manager.cpp,         *)
(* k_way_shuffle.c, oblivious_waksman.c).                                  *)
(*                                                                         *)
(* The groups, their read positions and the output are members of one      *)
(* manager, and the enclave's calls back reach it through a static         *)
(* pointer; shuffle_large runs inside itself when a group is large.        *)
(* calls holds its activations, innermost last.                            *)
(***************************************************************************)
EXTENDS BatchOps, WaksmanNetwork

CONSTANTS K,                \* MERGE_SORT_K
          MaxBatch,         \* MAX_BATCH_SIZE, which is WAKSMAN_THRESHOLD too
          ShuffleBuffer     \* the MERGE_BUFFER_SIZE of k_way_shuffle.c

ASSUME ShuffleAssumption ==
    K \in Nat \ {0, 1} /\ MaxBatch \in Nat \ {0} /\ ShuffleBuffer \in Nat \ {0}

VARIABLES vector,           \* the rows that shuffle() works on
          calls,            \* activations of shuffle_large
          groups, group_positions, output_entries,      \* the manager's members
          current_instance, \* the static pointer is set
          enclave,          \* g_shuffle_state with the arguments of the call
          shuffled,         \* history: the outermost shuffle ran to its end
          fault             \* "none"; "lost": the enclave is gone; "crypto":
                            \* its crypto library has failed once

shuffleVars == <<vector, calls, groups, group_positions, output_entries, current_instance,
                 enclave, shuffled>>

(* What a call into the enclave may come back with other than success.     *)
CallFails == \/ fault = "lost" /\ UNCHANGED fault
             \/ fault = "none" /\ fault' = "crypto"

CallWorks == fault # "lost" /\ UNCHANGED fault

-----------------------------------------------------------------------------
(* The rows after the switches of the set cross have crossed. *)
waksman(rows, cross) ==
    LET net == Switches(Len(rows))
        crossed(a, i, j) == [a EXCEPT ![i] = a[j], ![j] = a[i]]
        after[s \in 0..Len(net)] ==
            IF s = 0 THEN rows
            ELSE IF s \notin cross THEN after[s - 1]
            ELSE crossed(after[s - 1], net[s][1] + 1, net[s][2] + 1)
    IN  after[Len(net)]

(* The switch bits come from the key stream: any bits.  *)
Shuffles(rows) == {waksman(rows, cross) : cross \in SUBSET DOMAIN Switches(Len(rows))}

-----------------------------------------------------------------------------
(* Sizes (table.cpp): loops, with as many steps as suffice. *)

next_power_of_two(n) ==
    LET power[i \in 0..n] ==
            IF i = 0 THEN 1
            ELSE LET p == power[i - 1] IN IF p < n THEN p * 2 ELSE p
    IN  power[n]

IsPowerOfTwo(n) == next_power_of_two(n) = n

(* n divided by K, rounding up, until it fits the threshold: what is left, *)
(* and the power of K it was divided by.                                   *)
Divided(n) ==
    LET d[i \in 0..n] ==
            IF i = 0 THEN <<n, 1>>
            ELSE LET t == d[i - 1]
                 IN  IF t[1] <= MaxBatch THEN t ELSE <<(t[1] + K - 1) \div K, t[2] * K>>
    IN  d[n]

calculate_shuffle_padding_whole(n) ==      \* mutant: what is left is no power of two
    Divided(n)[1] * Divided(n)[2]

calculate_shuffle_padding(n) ==
    LET d == Divided(n)
        m == next_power_of_two(d[1]) * d[2]
    IN  IF n <= MaxBatch THEN next_power_of_two(n) ELSE IF m < n THEN 2 * m ELSE m

(* n divided by K as often as it must and can be. *)
Reduced(n) ==
    LET r[i \in 0..n] ==
            IF i = 0 THEN n
            ELSE LET m == r[i - 1] IN IF m > MaxBatch /\ m % K = 0 THEN m \div K ELSE m
    IN  r[n]

is_valid_shuffle_size(n) == Reduced(n) <= MaxBatch /\ IsPowerOfTwo(Reduced(n))

(* The code has 8 and 2000.  If both were 3, eight rows would be padded to *)
(* twelve, which is no valid size.                                         *)
ASSUME SizesAssumption == IsPowerOfTwo(K) /\ K <= 2 * MaxBatch

-----------------------------------------------------------------------------
(* The manager *)

NoGroups == [j \in 1..K |-> <<>>]

Idle == [input |-> <<>>, round |-> 0, buffers |-> NoGroups, out |-> <<>>]

ShuffleInit ==
    /\ calls = <<>> /\ groups = NoGroups /\ group_positions = [j \in 1..K |-> 0]
    /\ output_entries = <<>> /\ current_instance = FALSE /\ enclave = Idle
    /\ shuffled = FALSE /\ fault = "none"

Top == calls[Len(calls)]

(* A reference to a vector: 0 is shuffle()'s, g the member groups[g].      *)
VectorOf(g) == IF g = 0 THEN vector ELSE groups[g]

Assign(g, rows) ==
    IF g = 0 THEN vector' = rows /\ UNCHANGED groups
    ELSE groups' = [groups EXCEPT ![g] = rows] /\ UNCHANGED vector

(* shuffle_small: the caller's activations become rest. *)
shuffle_small(g, rest) ==
    /\ calls' = rest
    /\ \/ /\ CallWorks /\ IsPowerOfTwo(Len(VectorOf(g)))
          /\ \E rows \in Shuffles(VectorOf(g)) : Assign(g, rows)
          /\ shuffled' = (shuffled \/ g = 0)
       \/ CallFails /\ UNCHANGED <<vector, groups, shuffled>>
       \/ ~IsPowerOfTwo(Len(VectorOf(g))) /\ UNCHANGED <<vector, groups, shuffled, fault>>
    /\ UNCHANGED <<group_positions, output_entries, current_instance, enclave>>

(* What vector storage holds that was reserved and never written.          *)
JUNK == [id |-> -1]

(* The beginning of shuffle_large.  For a group its argument is one of the *)
(* members that it clears: what remains is the reserved storage.           *)
shuffle_large(g, rest) ==
    LET n == Len(VectorOf(g))
    IN  /\ calls' = Append(rest, [g |-> g, n |-> n, i |-> 1, step |-> "decompose"])
        /\ groups' = NoGroups
        /\ current_instance' = TRUE
        /\ enclave' = [Idle EXCEPT !.input = IF g = 0 THEN vector ELSE [i \in 1..n |-> JUNK]]
        /\ UNCHANGED <<vector, group_positions, output_entries, shuffled, fault>>

recursive_shuffle(g, rest) ==
    LET n == Len(VectorOf(g))
    IN  IF n <= 1 THEN calls' = rest /\ UNCHANGED <<vector, groups, group_positions,
                          output_entries, current_instance, enclave, shuffled, fault>>
        ELSE IF n <= MaxBatch THEN shuffle_small(g, rest) ELSE shuffle_large(g, rest)

Abandon_retried ==                      \* mutant: an activation that fails starts again
    /\ calls' = [calls EXCEPT ![Len(calls)].step = "decompose", ![Len(calls)].i = 1]
    /\ groups' = NoGroups /\ enclave' = [Idle EXCEPT !.input = vector]
    /\ UNCHANGED <<vector, group_positions, output_entries, current_instance, shuffled>>

(* An activation gives up; its vector is as it was. *)
Abandon ==
    /\ calls' = Front(calls) /\ current_instance' = FALSE /\ enclave' = Idle
    /\ UNCHANGED <<vector, groups, group_positions, output_entries, shuffled>>

Running(step) == calls # <<>> /\ Top.step = step

Rounds == Top.n \div K

DealtTo_first(j, s) == s[1]             \* mutant: the first row of the round to every group

DealtTo(j, s) == s[j]

(* A round of ecall_k_way_shuffle_decompose; full buffers are flushed.     *)
DecomposeRound ==
    /\ Running("decompose") /\ enclave.round < Rounds /\ Top.n % K = 0
    /\ CallWorks
    /\ \E s \in Shuffles(SubSeq(enclave.input, enclave.round * K + 1, enclave.round * K + K)) :
          LET filled == [j \in 1..K |-> Append(enclave.buffers[j], DealtTo(j, s))]
              full   == {j \in 1..K : Len(filled[j]) >= ShuffleBuffer}
          IN  /\ groups' = [j \in 1..K |->
                               IF j \in full THEN groups[j] \o filled[j] ELSE groups[j]]
              /\ enclave' = [input   |-> enclave.input, round |-> enclave.round + 1,
                             buffers |-> [j \in 1..K |-> IF j \in full THEN <<>> ELSE filled[j]],
                             out     |-> enclave.out]
    /\ UNCHANGED <<vector, calls, group_positions, output_entries, current_instance, shuffled>>

(* Its end, with the rest of the buffers. *)
DecomposeEnd ==
    /\ Running("decompose") /\ enclave.round = Rounds /\ Top.n % K = 0
    /\ CallWorks
    /\ groups' = [j \in 1..K |-> groups[j] \o enclave.buffers[j]]
    /\ calls' = [calls EXCEPT ![Len(calls)].step = "groups"]
    /\ enclave' = Idle
    /\ UNCHANGED <<vector, group_positions, output_entries, current_instance, shuffled>>

(* The enclave refuses the call, or fails at a row; rows never written may *)
(* look like any row, also like one that cannot be decrypted.              *)
DecomposeFails ==
    /\ Running("decompose")
    /\ \/ CallFails
       \/ (Top.n % K # 0 \/ Top.g # 0) /\ UNCHANGED fault
    /\ Abandon

ShuffleGroup ==
    /\ Running("groups") /\ Top.i <= K
    /\ recursive_shuffle(Top.i, [calls EXCEPT ![Len(calls)].i = @ + 1])

ReconstructStart ==
    /\ Running("groups") /\ Top.i > K
    /\ calls' = [calls EXCEPT ![Len(calls)].step = "reconstruct"]
    /\ output_entries' = <<>> /\ group_positions' = [j \in 1..K |-> 0]
    /\ UNCHANGED <<vector, groups, current_instance, enclave, shuffled, fault>>

(* handle_refill_from_group, if group j's buffer is empty. *)
Refill(j) ==
    IF enclave.buffers[j] # <<>> \/ ~current_instance THEN <<>>
    ELSE SubSeq(groups[j], group_positions[j] + 1,
                IF group_positions[j] + ShuffleBuffer < Len(groups[j])
                THEN group_positions[j] + ShuffleBuffer ELSE Len(groups[j]))

Input(j) == enclave.buffers[j] \o Refill(j)

(* A round of ecall_k_way_shuffle_reconstruct. *)
ReconstructRound ==
    /\ Running("reconstruct") /\ enclave.round < Rounds
    /\ \A j \in 1..K : Input(j) # <<>>
    /\ CallWorks
    /\ group_positions' = [j \in 1..K |-> group_positions[j] + Len(Refill(j))]
    /\ \E s \in Shuffles([j \in 1..K |-> Head(Input(j))]) :
          LET out   == enclave.out \o s
              whole == (Len(out) \div ShuffleBuffer) * ShuffleBuffer
          IN  /\ output_entries' = output_entries \o SubSeq(out, 1, whole)
              /\ enclave' = [input   |-> enclave.input, round |-> enclave.round + 1,
                             buffers |-> [j \in 1..K |-> Tail(Input(j))],
                             out     |-> SubSeq(out, whole + 1, Len(out))]
    /\ UNCHANGED <<vector, calls, groups, current_instance, shuffled>>

(* Its end; the output becomes the activation's vector. *)
ReconstructEnd ==
    /\ Running("reconstruct") /\ enclave.round = Rounds
    /\ CallWorks
    /\ Assign(Top.g, output_entries \o enclave.out)
    /\ output_entries' = <<>> /\ enclave' = Idle
    /\ calls' = Front(calls) /\ current_instance' = FALSE
    /\ shuffled' = (shuffled \/ Top.g = 0)
    /\ UNCHANGED group_positions

(* "Group exhausted", or a failed call. *)
ReconstructFails ==
    /\ Running("reconstruct")
    /\ \/ CallFails
       \/ enclave.round < Rounds /\ (\E j \in 1..K : Input(j) = <<>>) /\ UNCHANGED fault
    /\ Abandon

ShuffleStep ==
    \/ DecomposeRound \/ DecomposeEnd \/ DecomposeFails \/ ShuffleGroup
    \/ ReconstructStart \/ ReconstructRound \/ ReconstructEnd \/ ReconstructFails

-----------------------------------------------------------------------------
(* Properties *)

RowBag(s) == [r \in ToSet(s) |-> Cardinality({i \in DOMAIN s : s[i] = r})]

All(f) == FlattenSeq([j \in 1..K |-> f[j]])

Unread == [j \in 1..K |-> SubSeq(groups[j], group_positions[j] + 1, Len(groups[j]))]

(* While rows are being shuffled, each of them is in one place: at every   *)
(* round of an outermost activation, not yet dealt, in a buffer, in a      *)
(* group, or in the output (a nested activation has cleared the groups;    *)
(* then the vector still has them), and in the end in the vector.          *)
EveryRowIsSomewhere(rows) ==
    /\ RowBag(vector) = RowBag(rows)
    /\ (Len(calls) = 1 /\ current_instance) =>
        RowBag(rows) = RowBag(
            CASE Top.step = "decompose" ->
                    SubSeq(enclave.input, enclave.round * K + 1, Top.n)
                    \o All(groups) \o All(enclave.buffers)
              [] Top.step = "groups" -> All(groups)
              [] Top.step = "reconstruct" ->
                    All(Unread) \o All(enclave.buffers) \o enclave.out \o output_entries)

=============================================================================
