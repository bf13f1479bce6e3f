----------------------------- MODULE JoinPhases -----------------------------
(***************************************************************************)
(* The computations of the four join phases of the enclave, each a         *)
(* function of its input rows: the per-edge passes of bottom_up.c and      *)
(* top_down.c over the 32-byte sk_rec_t records of skinny.c, the expansion *)
(* of one table of distribute.c, and the alignment of one child of         *)
(* align.c.  EnclaveJoin runs them in the order of the enclave call.       *)
(*                                                                         *)
(* Arithmetic on multiplicities and prefix sums is that of an IntBits-bit  *)
(* two's complement word (int32_t in the code).                            *)
(***************************************************************************)
EXTENDS BandJoin, DistributeOps, MachineWords, EnclaveSort

CONSTANT
    Shuffles    \* orders the Waksman shuffle may leave an array in before qsort:
                \* functions that map a length n to a permutation of 1..n

-----------------------------------------------------------------------------
Flag(b) == IF b THEN 1 ELSE 0

-----------------------------------------------------------------------------
(* skinny.c: records and orders of the two multiplicity phases. *)

SkRecs(rows, col, field_type, dev, eq) ==
    [i \in DOMAIN rows |->
        [join_attr      |-> rows[i].attributes[col] + dev,
         field_type     |-> field_type,
         equality_type  |-> eq,
         original_index |-> rows[i].original_index,
         local_mult     |-> rows[i].local_mult,
         fmult          |-> rows[i].final_mult,
         weight         |-> rows[i].local_mult,
         acc            |-> 0,
         interval       |-> 0]]

get_prec_closed(ft, et) ==          \* mutant: open boundaries treated as closed
    CASE ft = "START"  -> 1
      [] ft = "SOURCE" -> 2
      [] ft = "END"    -> 3

get_prec(ft, et) ==
    CASE <<ft, et>> \in {<<"END", NEQ>>, <<"START", EQ>>} -> 1
      [] ft = "SOURCE"                                    -> 2
      [] <<ft, et>> \in {<<"END", EQ>>, <<"START", NEQ>>} -> 3

IsTarget(e) == e.field_type \in {"START", "END"}

sk_cmp_join_attr(s) ==
    [i \in DOMAIN s |-> <<s[i].join_attr, get_prec(s[i].field_type, s[i].equality_type)>>]

sk_cmp_pairwise_untied(s) ==        \* mutant: START/END of one row left unordered
    [i \in DOMAIN s |-> <<Flag(~IsTarget(s[i])), s[i].original_index>>]

sk_cmp_pairwise(s) ==
    [i \in DOMAIN s |-> <<Flag(~IsTarget(s[i])), s[i].original_index,
                          Flag(s[i].field_type # "START")>>]

sk_cmp_end_first(s) ==
    [i \in DOMAIN s |-> <<Flag(s[i].field_type # "END"), s[i].original_index>>]

(* A SOURCE right after an open START of the same attribute is not counted. *)
Skipped(s, i) ==
    /\ s[i].field_type = "SOURCE"
    /\ s[i - 1].field_type = "START" /\ s[i - 1].equality_type = NEQ
    /\ s[i - 1].join_attr = s[i].join_attr

IsPair(s, i) == i > 1 /\ s[i - 1].field_type = "START" /\ s[i].field_type = "END"

(* Steps 4 to 6 of both passes: bring the START and the END of each target *)
(* row together, take the difference of their running sums, and return the *)
(* END records in row order.                                               *)
IntervalsByRow(s, keepStart, sh) ==
    LET paired == ej_osort_g(s, sk_cmp_pairwise(s), sh)
        withInterval ==
            [i \in DOMAIN paired |->
                IF IsPair(paired, i)
                THEN [paired[i] EXCEPT
                        !.interval = Int32(paired[i].acc - paired[i - 1].acc),
                        !.acc = IF keepStart THEN paired[i - 1].acc ELSE @]
                ELSE paired[i]]
    IN  ej_osort_g(withInterval, sk_cmp_end_first(withInterval), sh)

-----------------------------------------------------------------------------
(* bottom_up.c: multiply each parent row's local_mult by the total         *)
(* local_mult of the child rows in its band.                               *)

BottomUpAcc(s) ==
    LET acc[i \in DOMAIN s] ==
            IF i = 1 THEN s[1].local_mult   \* what step 1 stored; cancels out
            ELSE Int32(acc[i - 1]
                       + (IF s[i].field_type = "SOURCE" /\ ~Skipped(s, i)
                          THEN s[i].local_mult ELSE 0))
    IN  [i \in DOMAIN s |-> [s[i] EXCEPT !.acc = acc[i]]]

compute_local_mult(parent, child, nd, sh) ==
    IF parent = <<>> THEN parent
    ELSE LET comb == SkRecs(child, nd.join_col, "SOURCE", 0, "NONE")
                     \o SkRecs(parent, nd.parent_join_col, "START", nd.deviation1, nd.equality1)
                     \o SkRecs(parent, nd.parent_join_col, "END", nd.deviation2, nd.equality2)
             sorted == ej_osort_g(comb, sk_cmp_join_attr(comb), sh)
             ends == IntervalsByRow(BottomUpAcc(sorted), FALSE, sh)
         IN  [i \in DOMAIN parent |->
                 [parent[i] EXCEPT !.local_mult = Int32(@ * ends[i].interval)]]

-----------------------------------------------------------------------------
(* top_down.c: each parent row splits its final_mult evenly over the       *)
(* local_mult of the child rows whose reversed band covers it; a child row *)
(* collects the shares of the parents it covers.                           *)

TopDownWeight(s) ==
    LET weight[i \in DOMAIN s] ==
            IF i = 1 THEN s[1].weight
            ELSE CASE s[i].field_type = "START"  -> Int32(weight[i - 1] + s[i].local_mult)
                   [] s[i].field_type = "END"    -> Int32(weight[i - 1] - s[i].local_mult)
                   [] s[i].field_type = "SOURCE" -> weight[i - 1]
    IN  weight

TopDownAcc(s) ==
    LET weight == TopDownWeight(s)
        safe_weight(i) == IF weight[i] = 0 THEN 1 ELSE weight[i]
        acc[i \in DOMAIN s] ==
            IF i = 1 THEN 0
            ELSE Int32(acc[i - 1]
                       + (IF s[i].field_type = "SOURCE" /\ ~Skipped(s, i)
                          THEN CDiv(s[i].fmult, safe_weight(i)) ELSE 0))
    IN  [i \in DOMAIN s |-> [s[i] EXCEPT !.acc = acc[i], !.weight = weight[i]]]

ReversedConstraint_unswapped(nd) ==  \* mutant: equality tags keep their places
    [deviation1 |-> -nd.deviation2, equality1 |-> nd.equality1,
     deviation2 |-> -nd.deviation1, equality2 |-> nd.equality2]

ReversedConstraint(nd) ==
    [deviation1 |-> -nd.deviation2, equality1 |-> nd.equality2,
     deviation2 |-> -nd.deviation1, equality2 |-> nd.equality1]

compute_final_mult(parent, child, nd, sh) ==
    IF child = <<>> THEN child
    ELSE LET rev  == ReversedConstraint(nd)
             comb == SkRecs(parent, nd.parent_join_col, "SOURCE", 0, "NONE")
                     \o SkRecs(child, nd.join_col, "START", rev.deviation1, rev.equality1)
                     \o SkRecs(child, nd.join_col, "END", rev.deviation2, rev.equality2)
             sorted == ej_osort_g(comb, sk_cmp_join_attr(comb), sh)
             ends == IntervalsByRow(TopDownAcc(sorted), TRUE, sh)
         IN  [i \in DOMAIN child |->
                 [child[i] EXCEPT !.final_mult  = Int32(ends[i].interval * child[i].local_mult),
                                  !.foreign_sum = ends[i].acc]]

-----------------------------------------------------------------------------
(* distribute.c: replicate each row final_mult times. *)

(* Exclusive prefix sums of final_mult; dst[n + 1] is output_size. *)
DstIdx(rows) ==
    LET dst[i \in 1..(Len(rows) + 1)] ==
            IF i = 1 THEN 0 ELSE Int32(dst[i - 1] + rows[i - 1].final_mult)
    IN  dst

OutputSize(rows) == DstIdx(rows)[Len(rows) + 1]

t_cmp_dist_padding_last(s) == [i \in DOMAIN s |-> <<Flag(s[i].pad), s[i].row>>]

(* Steps 1 to 4: rows in order, those without copies marked as padding and *)
(* moved behind the others, then cut or filled up to output_size slots.    *)
SlotsBefore(rows, sh) ==
    LET dst  == DstIdx(rows)
        work == [i \in DOMAIN rows |->
                    [pad |-> rows[i].final_mult = 0, dst_idx |-> dst[i], row |-> i]]
        sorted == ej_osort_g(work, t_cmp_dist_padding_last(work), sh)
    IN  [i \in 0..(OutputSize(rows) - 1) |->
            IF i < Len(rows) THEN sorted[i + 1] ELSE make_dist_padding]

(* The network's schedule: distances halve from the largest power of two   *)
(* that fits, and each pass runs right to left.                            *)
LargestDistance(size) ==
    2^(CHOOSE e \in 0..size : 2^e <= size /\ size < 2^(e + 1))

NetworkSchedule(size) ==
    LET pass(distance) == [k \in 1..(size - distance) |-> <<size - distance - k, distance>>]
        sched[e \in 0..size] ==
            IF e = 0 THEN pass(1) ELSE pass(2^e) \o sched[e - 1]
    IN  sched[CHOOSE e \in 0..size : 2^e = LargestDistance(size)]

expand_single_table(rows, sh) ==
    LET size   == OutputSize(rows)
        routed == FoldLeft(LAMBDA arr, p : dist_pair(arr, p[1], p[2]),
                           SlotsBefore(rows, sh), NetworkSchedule(size))
        filled == FoldLeft(fill_from_predecessor, routed, [i \in 1..(size - 1) |-> i])
    IN  IF size = 0 THEN <<>> ELSE [i \in 1..size |-> rows[filled[i - 1].row]]

-----------------------------------------------------------------------------
(* align.c: bring the accumulated result and one child's expanded table    *)
(* into the same order, and concatenate them row by row.                   *)

CopyIndex(exp) ==
    LET copy[i \in DOMAIN exp] ==
            IF i > 1 /\ exp[i].original_index = exp[i - 1].original_index
            THEN copy[i - 1] + 1 ELSE 0
    IN  copy

AlignmentKey_local(e, copy) ==      \* mutant: foreign_sum ignored
    CDiv(copy, IF e.local_mult = 0 THEN 1 ELSE e.local_mult)

AlignmentKey(e, copy) ==
    LET safe_mult == IF e.local_mult = 0 THEN 1 ELSE e.local_mult
    IN  Int32(e.foreign_sum + CDiv(copy, safe_mult))

t_cmp_alignment_key(s) ==
    [i \in DOMAIN s |-> <<s[i].alignment_key, s[i].original_index, s[i].copy_index>>]

rr_cmp_join_then_other(s, col) == [i \in DOMAIN s |-> <<s[i][col]>> \o s[i]]

attach_child(res, child, parent_col_global, sh) ==
    LET copy    == CopyIndex(child)
        keyed   == [i \in DOMAIN child |->
                       [attributes     |-> child[i].attributes,
                        original_index |-> child[i].original_index,
                        copy_index     |-> copy[i],
                        alignment_key  |-> AlignmentKey(child[i], copy[i])]]
        left    == ej_osort_g(res, rr_cmp_join_then_other(res, parent_col_global), sh)
        right   == ej_osort_g(keyed, t_cmp_alignment_key(keyed), sh)
    IN  [i \in DOMAIN res |-> left[i] \o right[i].attributes]

=============================================================================
