----------------------------- MODULE Distribute -----------------------------
(***************************************************************************)
(* expand_single_table (distribute.c) for one table, loop by loop: prefix  *)
(* sums of final_mult, the sort that moves rows without copies to the end, *)
(* the resize to output_size slots, the distribution network, and the pass *)
(* that copies each row into the padding that follows it.                  *)
(*                                                                         *)
(* The multiplicities are natural numbers whose sum fits the code's        *)
(* int32_t; EnclaveJoin treats the word's width.                           *)
(***************************************************************************)
EXTENDS DistributeOps

CONSTANT Mults          \* the final_mult columns of the input tables

ASSUME MultsAssumption == Mults \subseteq Seq(Nat)

VARIABLES
    mult,       \* final_mult of the rows, fixed
    pc,         \* the loop in progress
    i,          \* its position, where it counts up
    total,      \* dst, the running sum; output_size after the first loop
    work,       \* the trow work array, in row order
    arr,        \* the slots 0..total-1
    distance,   \* of the network's current pass
    j,          \* the current pass has treated the slots from j on
    home,       \* history: the slot in which the network received each row
    passes      \* history: the distances reached while searching the largest

vars == <<mult, pc, i, total, work, arr, distance, j, home, passes>>

Rows == DOMAIN mult
Slots == 0..(total - 1)
HasCopies(r) == mult[r] > 0

Init ==
    /\ mult \in Mults
    /\ pc = "sum" /\ i = 1 /\ total = 0 /\ work = <<>>
    /\ arr = <<>> /\ distance = 1 /\ j = 0 /\ home = <<>> /\ passes = {1}

(* Step 1, and the mark of step 2 for the row. *)
Sum ==
    /\ pc = "sum" /\ i <= Len(mult)
    /\ work' = Append(work, [pad |-> mult[i] = 0, dst_idx |-> total, row |-> i])
    /\ total' = total + mult[i]
    /\ i' = i + 1
    /\ UNCHANGED <<mult, pc, arr, distance, j, home, passes>>

(* No row survives the join. *)
NoOutput ==
    /\ pc = "sum" /\ i > Len(mult) /\ total = 0
    /\ pc' = "done"
    /\ UNCHANGED <<mult, i, total, work, arr, distance, j, home, passes>>

(* t_cmp_dist_padding_last. *)
SortsBefore_rowonly(r1, r2) == r1 < r2          \* mutant: padding not moved back

SortsBefore(r1, r2) ==
    IF work[r1].pad = work[r2].pad THEN r1 < r2 ELSE work[r2].pad

(* A result of the sort: where each row ends up. *)
Sorted(pos) ==
    /\ \A r1, r2 \in Rows : SortsBefore(r1, r2) => pos[r1] < pos[r2]
    /\ \A s \in 0..(Len(mult) - 1) : \E r \in Rows : pos[r] = s

(* Steps 3 and 4: sort, then truncate or pad to output_size. *)
SortAndResize ==
    /\ pc = "sum" /\ i > Len(mult) /\ total > 0
    /\ \E pos \in [Rows -> 0..(Len(mult) - 1)] :
          /\ Sorted(pos)
          /\ home' = pos
          /\ arr' = [s \in Slots |->
                        IF s < Len(mult) THEN work[CHOOSE r \in Rows : pos[r] = s]
                        ELSE make_dist_padding]
    /\ pc' = "index" /\ i' = 0
    /\ UNCHANGED <<mult, total, work, distance, j, passes>>

(* The slot indices.  A slot's index is its number here. *)
Index ==
    /\ pc = "index" /\ i < total
    /\ i' = i + 1
    /\ UNCHANGED <<mult, pc, total, work, arr, distance, j, home, passes>>

(* The largest power of two that fits. *)
CanDouble_late == distance <= total     \* mutant: stops one doubling too late

CanDouble == 2 * distance <= total

Grow ==
    /\ pc = "index" /\ i >= total /\ CanDouble
    /\ distance' = 2 * distance
    /\ passes' = passes \cup {2 * distance}
    /\ UNCHANGED <<mult, pc, i, total, work, arr, j, home>>

StartRouting ==
    /\ pc = "index" /\ i >= total /\ ~CanDouble
    /\ pc' = "route" /\ j' = total - distance
    /\ UNCHANGED <<mult, i, total, work, arr, distance, home, passes>>

(* Step 5. *)
Pair ==
    /\ pc = "route" /\ j > 0
    /\ arr' = dist_pair(arr, j - 1, distance)
    /\ j' = j - 1
    /\ UNCHANGED <<mult, pc, i, total, work, distance, home, passes>>

HalveDistance ==
    /\ pc = "route" /\ j = 0 /\ distance > 1
    /\ distance' = distance \div 2
    /\ j' = total - distance \div 2
    /\ UNCHANGED <<mult, pc, i, total, work, arr, home, passes>>

StartFilling ==
    /\ pc = "route" /\ j = 0 /\ distance = 1
    /\ pc' = "fill" /\ i' = 1
    /\ UNCHANGED <<mult, total, work, arr, distance, j, home, passes>>

(* Step 6. *)
Fill ==
    /\ pc = "fill" /\ i < total
    /\ arr' = fill_from_predecessor(arr, i)
    /\ i' = i + 1
    /\ UNCHANGED <<mult, pc, total, work, distance, j, home, passes>>

Finish ==
    /\ pc = "fill" /\ i >= total
    /\ pc' = "done"
    /\ UNCHANGED <<mult, i, total, work, arr, distance, j, home, passes>>

Ended == pc = "done" /\ UNCHANGED vars

Next ==
    \/ Sum \/ NoOutput \/ SortAndResize \/ Index \/ Grow \/ StartRouting
    \/ Pair \/ HalveDistance \/ StartFilling \/ Fill \/ Finish \/ Ended

Spec == Init /\ [][Next]_vars

-----------------------------------------------------------------------------
(* Properties *)

dst(r) == work[r].dst_idx

Occupied(s) == ~arr[s].pad

SlotType == [pad : BOOLEAN, dst_idx : Nat \cup {-1}, row : Nat]

(* Type invariant. *)
TypeOK ==
    /\ mult \in Seq(Nat)
    /\ pc \in {"sum", "index", "route", "fill", "done"}
    /\ i \in Nat /\ total \in Nat /\ j \in Nat
    /\ distance \in Nat \ {0}
    /\ work \in Seq(SlotType)
    /\ pc \in {"index", "route", "fill"} => total > 0
    /\ pc \in {"index", "route", "fill"} => arr \in [Slots -> SlotType]
    /\ passes \subseteq Nat

(* When the network is through, every row that has copies is in the slot   *)
(* where its block of copies starts, and none was lost on the way.         *)
RowsReachDestinations ==
    pc \in {"fill", "done"} =>
        \A r \in Rows : HasCopies(r) => dst(r) \in Slots /\ arr[dst(r)] = work[r]

(* The result: slot s belongs to the row whose block of mult copies covers *)
(* it, so each row occurs final_mult times, its copies next to each other. *)
EveryRowFillsItsBlock ==
    pc = "done" =>
        \A s \in Slots :
            LET r == arr[s].row
            IN  r \in Rows /\ dst(r) <= s /\ s < dst(r) + mult[r]

(* A swap of the network only ever moves a row into padding: no row is     *)
(* thrown back to the left by one that passes it.                          *)
NeverDisplacesARow ==
    [][\A s \in Slots : pc = "route" /\ Occupied(s) =>
          \E t \in Slots : t >= s /\ arr'[t] = arr[s]]_vars

=============================================================================
