--------------------------- MODULE DistributeOps ----------------------------
(***************************************************************************)
(* The slots of one table's distribution network (distribute.c), and the   *)
(* compare-and-swap it is made of.  Slots are numbered from 0 as in the    *)
(* code, so that a slot's number is its `index` field, which dist_pair     *)
(* leaves in place.  A slot holds the number of an input row (its payload),*)
(* that row's destination dst_idx, and whether it is DIST_PADDING.         *)
(***************************************************************************)
EXTENDS Integers, Sequences

NoRow == 0

(* make_dist_padding: a fresh slot behind the rows. *)
make_dist_padding == [pad |-> TRUE, dst_idx |-> -1, row |-> NoRow]

should_swap_any(e1, idx2) == e1.dst_idx >= idx2       \* mutant: padding moves too

should_swap(e1, idx2) == e1.dst_idx >= idx2 /\ ~e1.pad

dist_pair(arr, j, distance) ==
    IF should_swap(arr[j], j + distance)
    THEN [arr EXCEPT ![j] = arr[j + distance], ![j + distance] = arr[j]]
    ELSE arr

(* One step of the expansion pass: a padding slot takes its predecessor's  *)
(* contents.                                                               *)
fill_from_predecessor(arr, i) ==
    IF arr[i].pad THEN [arr EXCEPT ![i] = arr[i - 1]] ELSE arr

=============================================================================
