-------------------------- MODULE DistributeProofs ---------------------------
(***************************************************************************)
(* The distribution network delivers every row, for every table: proofs of *)
(* the properties of Distribute.                                           *)
(*                                                                         *)
(* The argument.  The prefix sums lay the blocks of the rows with copies   *)
(* side by side (Blocks).  The sort puts these rows in front, in order, so *)
(* a row never starts to the right of its block, and two rows are never    *)
(* closer in their blocks than in their starting slots (Gaps).  While the  *)
(* network runs at distance d, a row has moved a multiple of d from its    *)
(* starting slot and is less than 2d short of its block, less than d once  *)
(* the pass has treated its slot (Routed).  Two rows d apart would have    *)
(* started a multiple of d apart, hence at least d, and so would be the    *)
(* starts of their blocks; then the left one does not want to move, or the *)
(* right one is already too short.  So a row only ever moves into padding. *)
(***************************************************************************)
EXTENDS Distribute, TLAPS

CopyRows == {r \in Rows : HasCopies(r)}
Holds(s, r) == arr[s] = work[r]

(* What the first loop has established for the rows before i. *)
Blocks ==
    /\ Len(work) \in 0..Len(mult)
    /\ pc = "sum" => i = Len(work) + 1
    /\ pc # "sum" => Len(work) = Len(mult)
    /\ \A r \in DOMAIN work :
          /\ work[r] = [pad |-> mult[r] = 0, dst_idx |-> dst(r), row |-> r]
          /\ dst(r) \in Nat
          /\ dst(r) + mult[r] <= total
    /\ \A r, q \in DOMAIN work : r < q => dst(r) + mult[r] <= dst(q)

(* The blocks leave no slot uncovered. *)
NoGap ==
    /\ total > 0 => \E r \in DOMAIN work : HasCopies(r) /\ dst(r) = 0
    /\ \A r \in DOMAIN work : HasCopies(r) =>
          \/ dst(r) + mult[r] = total
          \/ \E q \in DOMAIN work : HasCopies(q) /\ dst(q) = dst(r) + mult[r]

Halves ==
    /\ pc = "sum" => distance = 1
    /\ distance \in passes
    /\ passes \subseteq Nat \ {0}
    /\ \A x \in passes : x = 1 \/ \E y \in passes : x = 2 * y

(* The sort's result. *)
Starts ==
    pc \in {"index", "route", "fill"} =>
        /\ home \in [Rows -> 0..(Len(mult) - 1)]
        /\ Sorted(home)

(* The slots below bound: no row starts right of its block, and blocks are *)
(* no closer than starts.                                                  *)
Gaps(bound) ==
    \A q \in CopyRows : home[q] < bound =>
        /\ home[q] <= dst(q)
        /\ \A r \in CopyRows : r < q => dst(q) - dst(r) >= home[q] - home[r]

Indexed ==
    pc = "index" =>
        /\ i <= total
        /\ distance = 1 \/ distance <= total
        /\ Gaps(i)
        /\ \A s \in Slots :
              \/ \E r \in Rows : home[r] = s /\ Holds(s, r)
              \/ s >= Len(mult) /\ arr[s] = make_dist_padding
        /\ \A r \in Rows : home[r] \in Slots => Holds(home[r], r)

(* A row with copies is in exactly one slot, everything else is padding. *)
Placed ==
    /\ \A s \in Slots : Occupied(s) => \E r \in CopyRows : Holds(s, r)
    /\ \A r \in CopyRows : \E s \in Slots : Holds(s, r)
    /\ \A s, t \in Slots : Occupied(s) /\ arr[s] = arr[t] => s = t

Routed ==
    pc = "route" =>
        /\ distance <= total
        /\ j <= total - distance
        /\ \A r \in CopyRows : home[r] < total
        /\ Gaps(total)
        /\ Placed
        /\ \A s \in Slots, r \in CopyRows : Holds(s, r) =>
              /\ \E m \in Nat : s = home[r] + m * distance
              /\ s <= dst(r)
              /\ dst(r) - s < 2 * distance
              /\ s >= j => dst(r) - s < distance

Filled ==
    pc \in {"fill", "done"} =>
        /\ pc = "fill" => i \in 1..total
        /\ \A r \in CopyRows : dst(r) \in Slots /\ Holds(dst(r), r)
        /\ \A s \in Slots : s < i \/ pc = "done" =>
              \E r \in CopyRows : Holds(s, r) /\ dst(r) <= s /\ s < dst(r) + mult[r]
        /\ \A s \in Slots : Occupied(s) /\ s >= i /\ pc = "fill" =>
              \E r \in CopyRows : Holds(s, r) /\ s = dst(r)

IInv == TypeOK /\ Blocks /\ NoGap /\ Halves /\ Starts /\ Indexed /\ Routed /\ Filled

-----------------------------------------------------------------------------
(* The initial state. *)
LEMMA InitIInv == Init => IInv
<1> SUFFICES ASSUME Init PROVE IInv
    OBVIOUS
<1> USE DEF Init
<1>1. mult \in Seq(Nat)
    BY MultsAssumption
<1>2. TypeOK
    BY <1>1 DEF TypeOK
<1>3. Blocks /\ NoGap
    BY <1>1 DEF Blocks, NoGap
<1>4. Halves /\ Starts /\ Indexed /\ Routed /\ Filled
    BY DEF Halves, Starts, Indexed, Routed, Filled
<1> QED
    BY <1>2, <1>3, <1>4 DEF IInv

(* Type correctness is preserved by every step. *)
LEMMA TypeStep == IInv /\ [Next]_vars => TypeOK'
<1> SUFFICES ASSUME IInv, [Next]_vars PROVE TypeOK'
    OBVIOUS
<1> USE DEF IInv, TypeOK
<1>1. CASE Sum
    <2>1. mult[i] \in Nat
        BY <1>1 DEF Sum, Blocks
    <2>2. [pad |-> mult[i] = 0, dst_idx |-> total, row |-> i] \in SlotType
        BY <1>1, <2>1 DEF Sum, SlotType
    <2>3. work' \in Seq(SlotType)
        BY <1>1, <2>2 DEF Sum
    <2> QED
        BY <1>1, <2>1, <2>3 DEF Sum
<1>2. CASE NoOutput
    BY <1>2 DEF NoOutput
<1>3. CASE SortAndResize
    <2>1. PICK pos \in [Rows -> 0..(Len(mult) - 1)] :
              /\ Sorted(pos)
              /\ arr' = [s \in Slots |->
                           IF s < Len(mult) THEN work[CHOOSE r \in Rows : pos[r] = s]
                           ELSE make_dist_padding]
        BY <1>3 DEF SortAndResize
    <2>2. ASSUME NEW s \in Slots PROVE arr'[s] \in SlotType
        <3>1. CASE s < Len(mult)
            <4>1. \E r \in Rows : pos[r] = s
                BY <2>1, <3>1 DEF Sorted, Slots
            <4>2. (CHOOSE r \in Rows : pos[r] = s) \in DOMAIN work
                BY <4>1, <1>3 DEF Blocks, SortAndResize, Rows
            <4> QED
                BY <2>1, <3>1, <4>2
        <3>2. CASE ~(s < Len(mult))
            BY <2>1, <3>2 DEF make_dist_padding, SlotType, NoRow
        <3> QED
            BY <3>1, <3>2
    <2> QED
        BY <1>3, <2>1, <2>2 DEF SortAndResize, Slots
<1>4. CASE Index
    BY <1>4 DEF Index, Slots
<1>5. CASE Grow
    BY <1>5 DEF Grow, Slots
<1>6. CASE StartRouting
    BY <1>6 DEF StartRouting, CanDouble, Slots, Indexed
<1>7. CASE Pair
    <2>1. j - 1 \in Slots /\ j - 1 + distance \in Slots
        BY <1>7 DEF Pair, Slots, Routed
    <2>2. arr' \in [Slots -> SlotType]
        BY <1>7, <2>1 DEF Pair, dist_pair
    <2> QED
        BY <1>7, <2>2 DEF Pair, Slots
<1>8. CASE HalveDistance
    <2>1. PICK y \in passes : distance = 2 * y
        BY <1>8 DEF HalveDistance, Halves
    <2>2. distance \div 2 = y /\ y \in Nat \ {0}
        BY <2>1 DEF Halves
    <2> QED
        BY <1>8, <2>1, <2>2 DEF HalveDistance, Slots, Routed
<1>9. CASE StartFilling
    BY <1>9 DEF StartFilling, Slots
<1>10. CASE Fill
    <2>1. i \in Slots /\ i - 1 \in Slots
        BY <1>10 DEF Fill, Slots, Filled
    <2>2. arr' \in [Slots -> SlotType]
        BY <1>10, <2>1 DEF Fill, fill_from_predecessor
    <2> QED
        BY <1>10, <2>2 DEF Fill, Slots
<1>11. CASE Finish
    BY <1>11 DEF Finish
<1>12. CASE Ended \/ UNCHANGED vars
    BY <1>12 DEF Ended, vars, Slots
<1> QED
    BY <1>1, <1>2, <1>3, <1>4, <1>5, <1>6, <1>7, <1>8, <1>9, <1>10, <1>11, <1>12 DEF Next

(* The first loop lays the blocks side by side. *)
LEMMA BlocksStep == IInv /\ [Next]_vars => Blocks' /\ NoGap'
<1> SUFFICES ASSUME IInv, [Next]_vars PROVE Blocks' /\ NoGap'
    OBVIOUS
<1> USE DEF IInv
<1>1. CASE Sum
    <2> DEFINE e == [pad |-> mult[i] = 0, dst_idx |-> total, row |-> i]
    <2>1. /\ i = Len(work) + 1 /\ i \in 1..Len(mult) /\ mult[i] \in Nat /\ total \in Nat
          /\ mult' = mult /\ total' = total + mult[i] /\ i' = i + 1 /\ pc' = pc /\ pc = "sum"
        BY <1>1 DEF Sum, Blocks, TypeOK
    <2>2. /\ Len(work') = i /\ DOMAIN work' = DOMAIN work \cup {i}
          /\ DOMAIN work = 1..(i - 1)
          /\ work'[i] = e /\ \A r \in DOMAIN work : work'[r] = work[r]
        BY <1>1, <2>1 DEF Sum, TypeOK
    <2>3. /\ \A r : r = i => dst(r)' = total
          /\ \A r \in DOMAIN work : dst(r)' = dst(r)
        BY <2>2 DEF dst
    <2>4. Blocks'
        <3>1. ASSUME NEW r \in DOMAIN work'
              PROVE  /\ work'[r] = [pad |-> mult'[r] = 0, dst_idx |-> dst(r)', row |-> r]
                     /\ dst(r)' \in Nat
                     /\ dst(r)' + mult'[r] <= total'
            <4>1. CASE r = i
                BY <4>1, <2>1, <2>2, <2>3
            <4>2. CASE r \in DOMAIN work
                <5>1. mult[r] \in Nat
                    BY <4>2, <2>1, <2>2 DEF TypeOK
                <5> QED
                    BY <4>2, <5>1, <2>1, <2>2, <2>3 DEF Blocks
            <4> QED
                BY <4>1, <4>2, <2>2
        <3>2. ASSUME NEW r \in DOMAIN work', NEW q \in DOMAIN work', r < q
              PROVE  dst(r)' + mult'[r] <= dst(q)'
            <4>1. r \in DOMAIN work
                BY <3>2, <2>1, <2>2
            <4>2. CASE q = i
                BY <4>1, <4>2, <2>1, <2>3 DEF Blocks
            <4>3. CASE q \in DOMAIN work
                BY <3>2, <4>1, <4>3, <2>1, <2>3 DEF Blocks
            <4> QED
                BY <4>2, <4>3, <2>2
        <3> QED
            BY <3>1, <3>2, <2>1, <2>2 DEF Blocks
    <2>5. NoGap'
        <3>1. ASSUME total' > 0 PROVE \E r \in DOMAIN work' : HasCopies(r)' /\ dst(r)' = 0
            <4>1. CASE total > 0
                BY <4>1, <2>1, <2>2, <2>3 DEF NoGap, HasCopies
            <4>2. CASE total = 0
                BY <4>2, <3>1, <2>1, <2>2, <2>3 DEF HasCopies
            <4> QED
                BY <4>1, <4>2, <2>1
        <3>2. ASSUME NEW r \in DOMAIN work', HasCopies(r)'
              PROVE  \/ dst(r)' + mult'[r] = total'
                     \/ \E q \in DOMAIN work' : HasCopies(q)' /\ dst(q)' = dst(r)' + mult'[r]
            <4>1. CASE r = i
                BY <4>1, <2>1, <2>3
            <4>2. CASE r \in DOMAIN work /\ dst(r) + mult[r] = total
                BY <4>2, <2>1, <2>2, <2>3 DEF HasCopies
            <4>3. CASE r \in DOMAIN work /\ dst(r) + mult[r] # total
                <5>1. PICK q \in DOMAIN work : HasCopies(q) /\ dst(q) = dst(r) + mult[r]
                    BY <3>2, <4>3, <2>1 DEF NoGap, HasCopies
                <5> QED
                    BY <4>3, <5>1, <2>1, <2>2, <2>3 DEF HasCopies
            <4> QED
                BY <4>1, <4>2, <4>3, <2>2
        <3> QED
            BY <3>1, <3>2 DEF NoGap
    <2> QED
        BY <2>4, <2>5
<1>2. CASE pc' # "sum" /\ UNCHANGED <<mult, total, work>>
    <2>1. pc # "sum" \/ Len(work) = Len(mult)
        BY <1>2 DEF Next, vars, Sum, NoOutput, SortAndResize, Index, Grow, StartRouting, Pair,
            HalveDistance, StartFilling, Fill, Finish, Ended, Blocks, TypeOK
    <2> QED
        BY <1>2, <2>1 DEF Blocks, NoGap, HasCopies, dst
<1>3. CASE UNCHANGED vars
    BY <1>3 DEF Blocks, NoGap, HasCopies, dst, vars
<1> QED
    BY <1>1, <1>2, <1>3 DEF Next, NoOutput, SortAndResize, Index, Grow, StartRouting, Pair,
        HalveDistance, StartFilling, Fill, Finish, Ended, TypeOK

(* The distances of the passes are halves of each other. *)
LEMMA HalvesStep == IInv /\ [Next]_vars => Halves'
<1> SUFFICES ASSUME IInv, [Next]_vars PROVE Halves'
    OBVIOUS
<1> USE DEF IInv, Halves
<1>1. CASE Grow
    BY <1>1 DEF Grow, TypeOK
<1>2. CASE HalveDistance
    <2>1. PICK y \in passes : distance = 2 * y
        BY <1>2 DEF HalveDistance
    <2>2. distance \div 2 = y
        BY <2>1
    <2> QED
        BY <1>2, <2>1, <2>2 DEF HalveDistance
<1>3. CASE UNCHANGED <<distance, passes>> /\ (pc' = "sum" => pc = "sum")
    BY <1>3
<1> QED
    BY <1>1, <1>2, <1>3 DEF Next, vars, Sum, NoOutput, SortAndResize, Index, StartRouting, Pair,
        StartFilling, Fill, Finish, Ended

(* What the sort's specification says of the rows with copies. *)
LEMMA SortedOrder ==
    ASSUME TypeOK, Blocks, Len(work) = Len(mult),
           NEW pos \in [Rows -> 0..(Len(mult) - 1)], Sorted(pos)
    PROVE  /\ \A r, q \in Rows : pos[r] = pos[q] => r = q
           /\ \A r, q \in CopyRows : r < q => pos[r] < pos[q]
           /\ \A r \in CopyRows, q \in Rows : ~HasCopies(q) => pos[r] < pos[q]
<1> USE DEF Rows
<1>1. Rows = 1..Len(mult) /\ DOMAIN work = Rows /\ Len(mult) \in Nat
    BY DEF TypeOK
<1>2. \A r \in Rows : work[r].pad = (mult[r] = 0) /\ mult[r] \in Nat /\ pos[r] \in Int /\ r \in Int
    BY <1>1 DEF Blocks, TypeOK
<1>3. \A r, q \in Rows : r < q => SortsBefore(r, q) \/ SortsBefore(q, r)
    BY <1>1, <1>2 DEF SortsBefore
<1>4. ASSUME NEW r \in Rows, NEW q \in Rows, pos[r] = pos[q] PROVE r = q
    <2>1. ~(r < q) /\ ~(q < r)
        BY <1>2, <1>3, <1>4 DEF Sorted
    <2> QED
        BY <2>1, <1>1, <1>2
<1>5. ASSUME NEW r \in CopyRows, NEW q \in CopyRows, r < q PROVE pos[r] < pos[q]
    <2>1. SortsBefore(r, q)
        BY <1>2, <1>5 DEF SortsBefore, CopyRows, HasCopies
    <2> QED
        BY <2>1 DEF Sorted, CopyRows
<1>6. ASSUME NEW r \in CopyRows, NEW q \in Rows, ~HasCopies(q) PROVE pos[r] < pos[q]
    <2>1. ~work[r].pad /\ work[q].pad
        <3>1. work[r].pad = FALSE /\ work[q].pad = TRUE
            <4>1. r \in Rows /\ mult[r] # 0 /\ mult[q] = 0
                BY <1>2, <1>6 DEF CopyRows, HasCopies
            <4>2. (mult[r] = 0) = FALSE /\ (mult[q] = 0) = TRUE
                BY <4>1
            <4> QED
                BY <4>1, <4>2, <1>2
        <3> QED
            BY <3>1
    <2>2. SortsBefore(r, q)
        BY <2>1 DEF SortsBefore
    <2> QED
        BY <2>2 DEF Sorted, CopyRows
<1> QED
    BY <1>4, <1>5, <1>6

(* After the sort the rows stay in order, each with its home.              *)
LEMMA StartsStep == IInv /\ [Next]_vars => Starts'
<1> SUFFICES ASSUME IInv, [Next]_vars PROVE Starts'
    OBVIOUS
<1> USE DEF IInv
<1>1. CASE SortAndResize
    <2>1. home' \in [Rows -> 0..(Len(mult) - 1)] /\ Sorted(home') /\ UNCHANGED <<mult, work>>
        BY <1>1 DEF SortAndResize
    <2>2. Sorted(home)'
        BY <2>1 DEF Sorted, SortsBefore, Rows
    <2> QED
        BY <2>1, <2>2 DEF Starts, Rows
<1>2. CASE UNCHANGED <<mult, work, home>> /\ (pc' = pc \/ pc \in {"index", "route", "fill"})
    <2>1. Sorted(home) => Sorted(home)'
        BY <1>2 DEF Sorted, SortsBefore, Rows
    <2> QED
        BY <1>2, <2>1 DEF Starts, Rows
<1>3. CASE Sum \/ NoOutput
    BY <1>3 DEF Sum, NoOutput, Starts
<1> QED
    BY <1>1, <1>2, <1>3 DEF Next, vars, Index, Grow, StartRouting, Pair,
        HalveDistance, StartFilling, Fill, Finish, Ended

(* Slot by slot, a row starts no further right than its block. *)
LEMMA GapsStep ==
    ASSUME IInv, pc = "index", i < total
    PROVE  Gaps(i + 1)
<1> USE DEF IInv
<1>0. /\ Len(work) = Len(mult) /\ home \in [Rows -> 0..(Len(mult) - 1)] /\ Sorted(home)
      /\ Rows = 1..Len(mult) /\ DOMAIN work = Rows /\ Len(mult) \in Nat /\ i \in Nat
      /\ Gaps(i) /\ CopyRows \subseteq Rows
    BY DEF Blocks, Starts, Indexed, TypeOK, Rows, CopyRows
<1>1. /\ \A r, q \in Rows : home[r] = home[q] => r = q
      /\ \A r, q \in CopyRows : r < q => home[r] < home[q]
      /\ \A r \in CopyRows, q \in Rows : ~HasCopies(q) => home[r] < home[q]
    BY <1>0, SortedOrder
<1>2. \A r \in Rows : dst(r) \in Nat /\ mult[r] \in Nat /\ home[r] \in 0..(Len(mult) - 1)
    BY <1>0 DEF Blocks, TypeOK
<1>3. \A r \in CopyRows : mult[r] >= 1
    BY <1>0, <1>2 DEF CopyRows, HasCopies
<1> SUFFICES ASSUME NEW q \in CopyRows, home[q] = i
             PROVE  /\ home[q] <= dst(q)
                    /\ \A r \in CopyRows : r < q => dst(q) - dst(r) >= home[q] - home[r]
    BY <1>0, <1>2 DEF Gaps
<1>4. CASE i = 0
    BY <1>0, <1>1, <1>2, <1>4
<1>5. CASE i > 0
    <2>1. PICK p \in Rows : home[p] = i - 1
        <3>1. i - 1 \in 0..(Len(mult) - 1)
            BY <1>0, <1>2, <1>5
        <3> QED
            BY <3>1, <1>0 DEF Sorted
    <2>2. p \in CopyRows
        BY <2>1, <1>0, <1>1 DEF CopyRows
    <2>3. p < q
        BY <2>1, <2>2, <1>0, <1>1
    <2>4. dst(p) + mult[p] <= dst(q)
        BY <2>1, <2>3, <1>0 DEF Blocks
    <2>5. home[p] <= dst(p) /\ \A r \in CopyRows : r < p => dst(p) - dst(r) >= home[p] - home[r]
        BY <2>1, <2>2, <1>0, <1>2 DEF Gaps
    <2>6. home[q] <= dst(q)
        BY <2>1, <2>2, <2>4, <2>5, <1>2, <1>3, <1>0
    <2>7. ASSUME NEW r \in CopyRows, r < q PROVE dst(q) - dst(r) >= home[q] - home[r]
        <3>1. CASE r = p
            BY <3>1, <2>1, <2>2, <2>4, <1>2, <1>3, <1>0
        <3>2. CASE r < p
            <4>1. dst(p) - dst(r) >= home[p] - home[r]
                BY <3>2, <2>5
            <4>2. dst(q) - dst(p) >= 1
                BY <2>1, <2>2, <2>4, <1>0, <1>2, <1>3
            <4> QED
                <5>1. \A x \in {p, q, r} : dst(x) \in Int /\ home[x] \in Int
                    BY <1>0, <1>2
                <5> QED
                    BY <4>1, <4>2, <5>1, <2>1, <1>0
        <3>3. CASE r > p
            <4>1. home[p] < home[r] /\ home[r] < home[q]
                BY <3>3, <2>2, <2>7, <1>1
            <4> QED
                BY <4>1, <2>1, <1>0, <1>2
        <3> QED
            BY <3>1, <3>2, <3>3, <1>0, <2>1
    <2> QED
        BY <2>6, <2>7
<1> QED
    BY <1>4, <1>5, <1>0

(* The index pass leaves every row that it has passed a slot of its own.   *)
LEMMA IndexedStep == IInv /\ [Next]_vars => Indexed'
<1> SUFFICES ASSUME IInv, [Next]_vars PROVE Indexed'
    OBVIOUS
<1> USE DEF IInv
<1>1. CASE SortAndResize
    <2>1. PICK pos \in [Rows -> 0..(Len(mult) - 1)] :
              /\ Sorted(pos) /\ home' = pos
              /\ arr' = [s \in Slots |->
                           IF s < Len(mult) THEN work[CHOOSE r \in Rows : pos[r] = s]
                           ELSE make_dist_padding]
        BY <1>1 DEF SortAndResize
    <2>2. /\ Len(work) = Len(mult) /\ UNCHANGED <<mult, total, work, distance>>
          /\ pc' = "index" /\ i' = 0 /\ total \in Nat /\ Rows' = Rows /\ Slots' = Slots
          /\ distance = 1 /\ Len(mult) \in Nat
        BY <1>1 DEF SortAndResize, Blocks, TypeOK, Rows, Slots, Halves
    <2>3. \A r, q \in Rows : pos[r] = pos[q] => r = q
        BY <2>1, <2>2, SortedOrder
    <2>4. ASSUME NEW s \in Slots
          PROVE  \/ \E r \in Rows : pos[r] = s /\ arr'[s] = work[r]
                 \/ s >= Len(mult) /\ arr'[s] = make_dist_padding
        <3>1. CASE s < Len(mult)
            <4>1. \E r \in Rows : pos[r] = s
                BY <2>1, <2>2, <3>1 DEF Sorted, Slots
            <4>2. LET r == CHOOSE r \in Rows : pos[r] = s
                  IN  r \in Rows /\ pos[r] = s /\ arr'[s] = work[r]
                BY <4>1, <2>1, <3>1
            <4> QED
                BY <4>2
        <3>2. CASE ~(s < Len(mult))
            BY <2>1, <2>2, <3>2 DEF Slots
        <3> QED
            BY <3>1, <3>2
    <2>5. ASSUME NEW r \in Rows, pos[r] \in Slots PROVE arr'[pos[r]] = work[r]
        <3>1. pos[r] < Len(mult)
            BY <2>1, <2>2
        <3>2. (CHOOSE q \in Rows : pos[q] = pos[r]) = r
            BY <2>3
        <3> QED
            BY <3>1, <3>2, <2>1, <2>5
    <2>6. Gaps(i)'
        BY <2>1, <2>2 DEF Gaps, CopyRows
    <2> QED
        BY <2>1, <2>2, <2>4, <2>5, <2>6 DEF Indexed, Holds
<1>2. CASE Index
    <2>1. Gaps(i + 1)
        BY <1>2, GapsStep DEF Index
    <2>2. Gaps(i)'
        BY <1>2, <2>1 DEF Index, Gaps, CopyRows, Rows, HasCopies, dst
    <2> QED
        <3>1. Rows' = Rows /\ Slots' = Slots /\ UNCHANGED <<arr, work, home, total, distance, mult>>
            BY <1>2 DEF Index, Rows, Slots
        <3>2. i' <= total'
            BY <1>2 DEF Index, TypeOK
        <3> QED
            BY <1>2, <2>2, <3>1, <3>2 DEF Index, Indexed, Holds
<1>3. CASE Grow
    <2>1. Gaps(i)'
        BY <1>3 DEF Grow, Indexed, Gaps, CopyRows, Rows, HasCopies, dst
    <2> QED
        BY <1>3, <2>1 DEF Grow, Indexed, CanDouble, Rows, Slots, Holds
<1>4. CASE UNCHANGED vars
    <2>1. Gaps(i) => Gaps(i)'
        BY <1>4 DEF vars, Gaps, CopyRows, Rows, HasCopies, dst
    <2> QED
        BY <1>4, <2>1 DEF vars, Indexed, Rows, Slots, Holds
<1>5. CASE pc' # "index"
    BY <1>5 DEF Indexed
<1> QED
    BY <1>1, <1>2, <1>3, <1>4, <1>5 DEF Next, Sum, NoOutput, StartRouting, Pair,
        HalveDistance, StartFilling, Fill, Finish, Ended

(* A positive multiple of a distance is at least the distance.             *)
LEMMA PositiveMultiple ==
    ASSUME NEW d \in Nat \ {0}, NEW z \in Int, z * d > 0
    PROVE  z * d >= d
<1>1. z >= 1
    <2>1. ASSUME z <= 0 PROVE z * d <= 0
        BY <2>1
    <2>2. z * d \in Int
        OBVIOUS
    <2> QED
        BY <2>1, <2>2
<1> QED
    BY <1>1

(* What Blocks and Gaps say of any two rows with copies. *)
LEMMA RowFacts ==
    ASSUME IInv, pc = "route"
    PROVE  /\ CopyRows \subseteq Rows /\ Rows = DOMAIN work /\ Rows \subseteq Nat
           /\ \A r \in CopyRows :
                 /\ dst(r) \in Nat /\ home[r] \in Nat /\ mult[r] \in Nat \ {0}
                 /\ home[r] <= dst(r) /\ dst(r) + mult[r] <= total
                 /\ work[r].pad = FALSE /\ work[r].row = r
           /\ \A r, q \in CopyRows : r < q =>
                 home[r] < home[q] /\ dst(q) - dst(r) >= home[q] - home[r]
<1> USE DEF IInv
<1>1. CopyRows \subseteq Rows /\ Rows = DOMAIN work /\ Rows \subseteq Nat /\ Rows = 1..Len(mult)
      /\ Len(work) = Len(mult)
    BY DEF CopyRows, Rows, Blocks, TypeOK
<1>2. home \in [Rows -> 0..(Len(mult) - 1)] /\ Sorted(home) /\ Gaps(total)
      /\ \A r \in CopyRows : home[r] < total
    BY DEF Starts, Routed
<1>3. ASSUME NEW r \in CopyRows
      PROVE  /\ dst(r) \in Nat /\ home[r] \in Nat /\ mult[r] \in Nat \ {0}
             /\ home[r] <= dst(r) /\ dst(r) + mult[r] <= total
             /\ work[r].pad = FALSE /\ work[r].row = r
    <2>1. mult[r] \in Nat \ {0}
        BY <1>1 DEF TypeOK, CopyRows, HasCopies
    <2>2. work[r].pad = (mult[r] = 0) /\ work[r].row = r
          /\ dst(r) \in Nat /\ dst(r) + mult[r] <= total
        <3>1. /\ work[r] = [pad |-> mult[r] = 0, dst_idx |-> dst(r), row |-> r]
              /\ dst(r) \in Nat /\ dst(r) + mult[r] <= total
            BY <1>1 DEF Blocks
        <3> QED
            BY <3>1
    <2>3. (mult[r] = 0) = FALSE
        BY <2>1
    <2>4. home[r] \in Nat /\ home[r] <= dst(r)
        BY <1>1, <1>2 DEF Gaps
    <2> QED
        BY <2>1, <2>2, <2>3, <2>4
<1>4. ASSUME NEW r \in CopyRows, NEW q \in CopyRows, r < q
      PROVE  home[r] < home[q] /\ dst(q) - dst(r) >= home[q] - home[r]
    <2>1. home[r] < home[q]
        BY <1>1, <1>2, <1>4, SortedOrder
    <2> QED
        BY <1>2, <1>4, <2>1 DEF Gaps
<1> QED
    BY <1>1, <1>3, <1>4

(* The heart of the network: a row that wants to move finds padding.       *)
LEMMA SwapsIntoPadding ==
    ASSUME IInv, pc = "route", j > 0, should_swap(arr[j - 1], j - 1 + distance)
    PROVE  arr[j - 1 + distance].pad
<1> DEFINE a == j - 1
           b == j - 1 + distance
<1> USE DEF IInv
<1>1. /\ j \in Nat /\ distance \in Nat \ {0} /\ total \in Nat
      /\ a \in Slots /\ b \in Slots /\ b >= j /\ arr \in [Slots -> SlotType]
    BY DEF TypeOK, Routed, Slots
<1> SUFFICES ASSUME ~arr[b].pad PROVE FALSE
    BY <1>1 DEF SlotType
<1>2. PICK r \in CopyRows : arr[a] = work[r]
    BY <1>1 DEF Routed, Placed, Occupied, Holds, should_swap
<1>3. PICK q \in CopyRows : arr[b] = work[q]
    BY <1>1 DEF Routed, Placed, Occupied, Holds
<1>4. r # q
    <2>1. a # b
        BY <1>1
    <2> QED
        BY <2>1, <1>1, <1>2, <1>3 DEF Routed, Placed, Occupied
<1>5. PICK m1 \in Nat : a = home[r] + m1 * distance
    BY <1>1, <1>2 DEF Routed, Holds
<1>6. PICK m2 \in Nat : b = home[q] + m2 * distance
    BY <1>1, <1>3 DEF Routed, Holds
<1>7. dst(r) >= b
    BY <1>2 DEF should_swap, dst
<1>8. dst(r) - a < 2 * distance /\ dst(q) - b < distance
    BY <1>1, <1>2, <1>3 DEF Routed, Holds
<1>9. /\ dst(r) \in Nat /\ dst(q) \in Nat /\ home[r] \in Nat /\ home[q] \in Nat
      /\ r \in Nat /\ q \in Nat
    BY RowFacts
<1>10. CASE r < q
    <2>1. home[q] > home[r] /\ dst(q) - dst(r) >= home[q] - home[r]
        BY <1>10, RowFacts
    <2> DEFINE z == 1 + m1 - m2
    <2>2. home[q] - home[r] = z * distance /\ z \in Int
        <3>1. z * distance = distance + m1 * distance - m2 * distance
            BY <1>1
        <3>2. m1 * distance \in Int /\ m2 * distance \in Int
            BY <1>1
        <3>3. b = a + distance /\ a \in Int /\ b \in Int
            BY <1>1
        <3> HIDE DEF a, b, z
        <3>4. home[q] - home[r] = z * distance
            BY <1>1, <1>5, <1>6, <1>9, <3>1, <3>2, <3>3
        <3> QED
            BY <3>4 DEF z
    <2> HIDE DEF z
    <2>3. home[q] - home[r] >= distance
        BY <1>1, <1>9, <2>1, <2>2, PositiveMultiple
    <2> QED
        BY <1>1, <1>7, <1>8, <1>9, <2>1, <2>3
<1>11. CASE q < r
    <2>1. home[r] > home[q] /\ dst(r) - dst(q) >= home[r] - home[q]
        BY <1>11, RowFacts
    <2> DEFINE z == m2 - m1 - 1
    <2>2. home[r] - home[q] = z * distance /\ z \in Int
        <3>1. z * distance = m2 * distance - m1 * distance - distance
            BY <1>1
        <3> QED
            BY <1>1, <1>5, <1>6, <1>9, <3>1
    <2> HIDE DEF z
    <2>3. home[r] - home[q] >= distance
        BY <1>1, <1>9, <2>1, <2>2, PositiveMultiple
    <2>4. b <= dst(q)
        BY <1>1, <1>3 DEF Routed, Holds
    <2> QED
        BY <1>1, <1>8, <1>9, <2>1, <2>3, <2>4
<1> QED
    BY <1>4, <1>9, <1>10, <1>11

(* The network's invariant is preserved by every step. *)
LEMMA RoutedStep == IInv /\ [Next]_vars => Routed'
<1> SUFFICES ASSUME IInv, [Next]_vars PROVE Routed'
    OBVIOUS
<1> USE DEF IInv
<1>1. CASE StartRouting
    <2>1. /\ UNCHANGED <<mult, total, work, arr, distance, home>> /\ j' = total - distance
          /\ pc = "index" /\ i >= total /\ i = total /\ Gaps(total) /\ 2 * distance > total
          /\ distance <= total /\ distance \in Nat \ {0} /\ total \in Nat \ {0}
        BY <1>1 DEF StartRouting, CanDouble, Indexed, TypeOK
    <2>2. /\ Rows' = Rows /\ CopyRows' = CopyRows /\ Slots' = Slots /\ Gaps(total)'
        BY <2>1 DEF Rows, CopyRows, HasCopies, Slots, Gaps, dst
    <2>3. /\ Len(work) = Len(mult) /\ home \in [Rows -> 0..(Len(mult) - 1)] /\ Sorted(home)
          /\ Rows = 1..Len(mult) /\ DOMAIN work = Rows /\ Len(mult) \in Nat
          /\ CopyRows \subseteq Rows
        BY <2>1 DEF Blocks, Starts, TypeOK, Rows, CopyRows
    <2>4. /\ \A r, q \in Rows : home[r] = home[q] => r = q
          /\ \A r, q \in CopyRows : r < q => home[r] < home[q]
          /\ \A r \in CopyRows, q \in Rows : ~HasCopies(q) => home[r] < home[q]
        BY <2>3, SortedOrder
    <2>5. \A r \in Rows : dst(r) \in Nat /\ mult[r] \in Nat /\ home[r] \in 0..(Len(mult) - 1)
                          /\ dst(r) + mult[r] <= total
        BY <2>3 DEF Blocks, TypeOK
    <2>6. ASSUME NEW r \in CopyRows PROVE home[r] < total /\ mult[r] >= 1
        <3>1. mult[r] >= 1
            BY <2>3, <2>5 DEF CopyRows, HasCopies
        <3>2. ASSUME home[r] >= total PROVE FALSE
            <4>1. total - 1 \in 0..(Len(mult) - 1)
                BY <3>2, <2>1, <2>3, <2>5
            <4>2. PICK q \in Rows : home[q] = total - 1
                BY <4>1, <2>3 DEF Sorted
            <4>3. home[q] < home[r]
                BY <3>2, <4>2, <2>1, <2>3, <2>5
            <4>4. q \in CopyRows
                BY <4>3, <2>3, <2>4, <2>5 DEF CopyRows
            <4>5. q < r
                BY <4>3, <4>4, <2>3, <2>4, <2>5
            <4>6. dst(q) >= total - 1
                BY <4>2, <4>4, <2>1 DEF Gaps
            <4>7. mult[q] >= 1 /\ dst(q) + mult[q] <= dst(r)
                <5>1. mult[q] >= 1
                    BY <4>2, <4>4, <2>5 DEF CopyRows, HasCopies
                <5> QED
                    BY <4>2, <4>5, <5>1, <2>3 DEF Blocks
            <4>8. dst(q) \in Nat /\ dst(r) \in Nat /\ mult[q] \in Nat /\ dst(r) + mult[r] <= total
                BY <4>2, <2>3, <2>5
            <4> QED
                BY <3>1, <4>6, <4>7, <4>8, <2>1, <2>5, <2>3
        <3> QED
            BY <3>1, <3>2, <2>1, <2>3, <2>5
    <2>7. ASSUME NEW s \in Slots, NEW r \in CopyRows, arr[s] = work[r] PROVE s = home[r]
        <3>1. work[r].pad = FALSE /\ work[r].row = r
            <4>1. mult[r] # 0
                BY <2>6, <2>3, <2>5
            <4>2. (mult[r] = 0) = FALSE
                BY <4>1
            <4>3. work[r].pad = (mult[r] = 0) /\ work[r].row = r
                BY <2>3 DEF Blocks
            <4> QED
                BY <4>2, <4>3
        <3>2. PICK q \in Rows : home[q] = s /\ arr[s] = work[q]
            BY <3>1, <2>1, <2>7 DEF Indexed, Holds, make_dist_padding
        <3>3. work[q].row = q
            BY <2>3 DEF Blocks
        <3> QED
            BY <2>7, <3>1, <3>2, <3>3
    <2>8. ASSUME NEW s \in Slots, Occupied(s) PROVE \E r \in CopyRows : Holds(s, r) /\ s = home[r]
        <3>1. PICK q \in Rows : home[q] = s /\ Holds(s, q)
            BY <2>1, <2>8 DEF Indexed, Occupied, make_dist_padding
        <3>2. work[q].pad = (mult[q] = 0)
            BY <2>3 DEF Blocks
        <3>3. mult[q] # 0
            BY <2>8, <3>1, <3>2 DEF Occupied, Holds
        <3> QED
            BY <3>1, <3>3, <2>5 DEF CopyRows, HasCopies
    <2>9. ASSUME NEW r \in CopyRows PROVE home[r] \in Slots /\ Holds(home[r], r)
        <3>1. home[r] \in Slots
            BY <2>6, <2>3, <2>5, <2>1 DEF Slots
        <3> QED
            BY <3>1, <2>1, <2>3 DEF Indexed
    <2>10. Placed'
        <3>1. ASSUME NEW s \in Slots, NEW t \in Slots, Occupied(s), arr[s] = arr[t] PROVE s = t
            BY <2>7, <2>8, <3>1 DEF Holds
        <3> QED
            BY <3>1, <2>8, <2>9, <2>1, <2>2 DEF Placed, Occupied, Holds
    <2>11. ASSUME NEW s \in Slots, NEW r \in CopyRows, arr[s] = work[r]
           PROVE  /\ \E m \in Nat : s = home[r] + m * distance
                  /\ s <= dst(r)
                  /\ dst(r) - s < 2 * distance
                  /\ s >= total - distance => dst(r) - s < distance
        <3>1. s = home[r] /\ home[r] <= dst(r) /\ dst(r) \in Nat /\ home[r] \in Nat /\ dst(r) < total
            <4>1. mult[r] >= 1 /\ home[r] < total
                BY <2>6
            <4> QED
                BY <4>1, <2>1, <2>3, <2>5, <2>7, <2>11 DEF Gaps
        <3>2. s = home[r] + 0 * distance
            BY <3>1, <2>1
        <3> QED
            BY <3>1, <3>2, <2>1
    <2> QED
        BY <2>1, <2>2, <2>6, <2>10, <2>11 DEF Routed, Holds, dst
<1>2. CASE HalveDistance
    <2>1. /\ UNCHANGED <<mult, total, work, arr, home, pc>> /\ pc = "route" /\ j = 0
          /\ distance > 1 /\ distance' = distance \div 2 /\ j' = total - distance \div 2
          /\ total \in Nat /\ distance <= total
        BY <1>2 DEF HalveDistance, Routed, TypeOK
    <2>2. /\ Rows' = Rows /\ CopyRows' = CopyRows /\ Slots' = Slots
          /\ Gaps(total)' /\ Placed'
        BY <2>1 DEF Routed, Rows, CopyRows, HasCopies, Slots, Gaps, dst, Placed, Occupied, Holds
    <2>3. PICK y \in Nat \ {0} : distance = 2 * y /\ distance' = y
        BY <2>1 DEF Halves
    <2>4. ASSUME NEW s \in Slots, NEW r \in CopyRows, arr[s] = work[r]
          PROVE  /\ \E m \in Nat : s = home[r] + m * y
                 /\ s <= dst(r)
                 /\ dst(r) - s < 2 * y
                 /\ s >= total - y => dst(r) - s < y
        <3>1. /\ s <= dst(r) /\ dst(r) - s < distance
              /\ s \in Nat /\ dst(r) \in Nat /\ dst(r) < total /\ home[r] \in Nat
            <4>1. s <= dst(r) /\ dst(r) - s < 2 * distance /\ (s >= 0 => dst(r) - s < distance)
                BY <2>1, <2>4 DEF Routed, Holds
            <4>2. dst(r) \in Nat /\ home[r] \in Nat /\ mult[r] \in Nat \ {0} /\ dst(r) + mult[r] <= total
                BY <2>1, RowFacts
            <4>3. s \in Nat
                BY <2>1 DEF Slots
            <4> QED
                BY <4>1, <4>2, <4>3, <2>1
        <3>2. PICK m \in Nat : s = home[r] + m * distance
            BY <2>1, <2>4 DEF Routed, Holds
        <3>3. m * distance = (2 * m) * y
            BY <2>3
        <3> DEFINE n == 2 * m
        <3>4. s = home[r] + n * y /\ n \in Nat
            BY <3>2, <3>3
        <3> HIDE DEF n
        <3>5. \E k \in Nat : s = home[r] + k * y
            BY <3>4
        <3>6. dst(r) - s < 2 * y /\ (s >= total - y => dst(r) - s < y)
            BY <3>1, <2>3, <2>1
        <3> QED
            BY <3>1, <3>5, <3>6
    <2>5. /\ distance' <= total' /\ j' <= total' - distance'
          /\ \A r \in CopyRows' : home'[r] < total'
        BY <2>1, <2>2, <2>3 DEF Routed
    <2>6. ASSUME NEW s \in Slots', NEW r \in CopyRows', arr'[s] = work'[r]
          PROVE  /\ \E m \in Nat : s = home'[r] + m * distance'
                 /\ s <= dst(r)'
                 /\ dst(r)' - s < 2 * distance'
                 /\ s >= j' => dst(r)' - s < distance'
        <3>1. dst(r)' = dst(r) /\ j' = total - y
            BY <2>1, <2>3 DEF dst
        <3> QED
            BY <2>1, <2>2, <2>3, <2>4, <2>6, <3>1
    <2> QED
        BY <2>1, <2>2, <2>5, <2>6 DEF Routed, Holds
<1>3. CASE Pair
    <2> DEFINE a == j - 1
               b == j - 1 + distance
    <2>1. /\ UNCHANGED <<mult, total, work, home, pc, distance>> /\ pc = "route" /\ j > 0
          /\ arr' = dist_pair(arr, a, distance) /\ j' = a
          /\ total \in Nat /\ distance \in Nat \ {0} /\ distance <= total /\ j <= total - distance
          /\ j \in Nat /\ a \in Slots /\ b \in Slots /\ arr \in [Slots -> SlotType]
        BY <1>3 DEF Pair, Routed, TypeOK, Slots
    <2>2. /\ Rows' = Rows /\ CopyRows' = CopyRows /\ Slots' = Slots /\ Gaps(total)'
        BY <2>1 DEF Routed, Rows, CopyRows, HasCopies, Slots, Gaps, dst
    <2>3. \A s \in Slots : s \in Nat
        BY <2>1 DEF Slots
    <2>4. \A r \in CopyRows : dst(r) \in Nat /\ home[r] \in Nat /\ work[r].pad = FALSE
        BY <2>1, RowFacts
    <2>5. CASE ~should_swap(arr[a], b)
        <3>1. arr' = arr
            BY <2>1, <2>5 DEF dist_pair
        <3>2. Placed'
            BY <2>1, <2>2, <3>1 DEF Routed, Placed, Occupied, Holds
        <3>3. ASSUME NEW r \in CopyRows, arr[a] = work[r] PROVE dst(r) - a < distance
            BY <2>1, <2>4, <2>5, <3>3 DEF should_swap, dst
        <3>4. ASSUME NEW s \in Slots, NEW r \in CopyRows, arr[s] = work[r], s >= a
              PROVE  dst(r) - s < distance
            BY <2>1, <2>3, <3>3, <3>4 DEF Routed, Holds
        <3>5. ASSUME NEW s \in Slots', NEW r \in CopyRows', arr'[s] = work'[r]
              PROVE  /\ \E m \in Nat : s = home'[r] + m * distance'
                     /\ s <= dst(r)'
                     /\ dst(r)' - s < 2 * distance'
                     /\ s >= j' => dst(r)' - s < distance'
            <4>1. dst(r)' = dst(r)
                BY <2>1 DEF dst
            <4> QED
                BY <2>1, <2>2, <3>1, <3>4, <3>5, <4>1 DEF Routed, Holds
        <3> QED
            BY <2>1, <2>2, <3>2, <3>5 DEF Routed, Holds
    <2>6. CASE should_swap(arr[a], b)
        <3>1. arr[b].pad /\ a # b /\ ~arr[a].pad
            BY <2>1, <2>6, SwapsIntoPadding DEF should_swap
        <3>2. /\ arr'[a] = arr[b] /\ arr'[b] = arr[a]
              /\ \A s \in Slots : s # a /\ s # b => arr'[s] = arr[s]
            BY <2>1, <2>6, <3>1 DEF dist_pair
        <3>3. Placed'
            <4>1. ASSUME NEW s \in Slots, ~arr'[s].pad PROVE \E r \in CopyRows : arr'[s] = work[r]
                BY <2>1, <3>1, <3>2, <4>1 DEF Routed, Placed, Occupied, Holds
            <4>2. ASSUME NEW r \in CopyRows PROVE \E s \in Slots : arr'[s] = work[r]
                <5>1. PICK s \in Slots : arr[s] = work[r]
                    BY <2>1 DEF Routed, Placed, Holds
                <5>2. s # b
                    BY <5>1, <3>1, <2>4
                <5> QED
                    BY <5>1, <5>2, <3>2, <2>1
            <4>3. ASSUME NEW s \in Slots, NEW t \in Slots, ~arr'[s].pad, arr'[s] = arr'[t]
                  PROVE  s = t
                BY <2>1, <3>1, <3>2, <4>3 DEF Routed, Placed, Occupied
            <4> QED
                BY <2>1, <2>2, <4>1, <4>2, <4>3 DEF Placed, Occupied, Holds
        <3>4. ASSUME NEW s \in Slots, NEW r \in CopyRows, arr'[s] = work[r]
              PROVE  /\ \E m \in Nat : s = home[r] + m * distance
                     /\ s <= dst(r)
                     /\ dst(r) - s < 2 * distance
                     /\ s >= a => dst(r) - s < distance
            <4>1. s # a
                BY <3>1, <3>2, <3>4, <2>4
            <4>2. CASE s = b
                <5>1. arr[a] = work[r] /\ dst(r) >= b
                    BY <2>6, <3>2, <3>4, <4>2 DEF should_swap, dst
                <5>2. dst(r) - a < 2 * distance
                    BY <5>1, <2>1 DEF Routed, Holds
                <5>3. PICK m \in Nat : a = home[r] + m * distance
                    BY <5>1, <2>1 DEF Routed, Holds
                <5>4. (m + 1) * distance = m * distance + distance /\ m * distance \in Int
                    BY <2>1
                <5> DEFINE n == m + 1
                <5>5. b = home[r] + n * distance /\ n \in Nat
                    BY <5>3, <5>4, <2>1, <2>4
                <5> HIDE DEF n
                <5>6. \E x \in Nat : s = home[r] + x * distance
                    BY <4>2, <5>5
                <5>7. s <= dst(r) /\ dst(r) - s < distance
                    BY <4>2, <5>1, <5>2, <2>1, <2>4
                <5> QED
                    BY <5>6, <5>7, <2>1, <2>3, <2>4
            <4>3. CASE s # b
                BY <4>1, <4>3, <3>2, <3>4, <2>1, <2>3 DEF Routed, Holds
            <4> QED
                BY <4>2, <4>3
        <3> QED
            BY <2>1, <2>2, <3>3, <3>4 DEF Routed, Holds, dst
    <2> QED
        BY <2>5, <2>6
<1>4. CASE UNCHANGED vars
    <2>1. Gaps(total) /\ Placed => Gaps(total)' /\ Placed'
        BY <1>4 DEF vars, Gaps, Placed, Occupied, Holds, CopyRows, Rows, HasCopies, Slots, dst
    <2> QED
        BY <1>4, <2>1 DEF vars, Routed, Holds, CopyRows, Rows, HasCopies, Slots, dst
<1>5. CASE pc' # "route"
    BY <1>5 DEF Routed
<1> QED
    BY <1>1, <1>2, <1>3, <1>4, <1>5 DEF Next, Sum, NoOutput, SortAndResize, Index, Grow,
        StartFilling, Fill, Finish, Ended

(* The last pass leaves every block covered by its row. *)
LEMMA FilledStep == IInv /\ [Next]_vars => Filled'
<1> SUFFICES ASSUME IInv, [Next]_vars PROVE Filled'
    OBVIOUS
<1> USE DEF IInv
<1>1. CASE NoOutput
    <2>1. /\ UNCHANGED <<mult, total, work, arr>> /\ total = 0 /\ pc' = "done"
          /\ DOMAIN work = Rows /\ Slots = {}
        BY <1>1 DEF NoOutput, Blocks, TypeOK, Rows, Slots
    <2>2. CopyRows = {}
        <3> SUFFICES ASSUME NEW r \in CopyRows PROVE FALSE
            OBVIOUS
        <3>1. mult[r] > 0 /\ mult[r] \in Nat /\ dst(r) \in Nat /\ dst(r) + mult[r] <= total
            BY <2>1 DEF CopyRows, HasCopies, Blocks, TypeOK, Rows
        <3> QED
            BY <2>1, <3>1
    <2>3. CopyRows' = {} /\ Slots' = {}
        BY <2>1, <2>2 DEF CopyRows, Rows, HasCopies, Slots
    <2> QED
        BY <2>1, <2>3 DEF Filled
<1>2. CASE StartFilling
    <2>1. /\ UNCHANGED <<mult, total, work, arr, home>> /\ pc = "route" /\ j = 0 /\ distance = 1
          /\ pc' = "fill" /\ i' = 1 /\ total \in Nat \ {0}
        BY <1>2 DEF StartFilling, TypeOK
    <2>2. /\ CopyRows' = CopyRows /\ Slots' = Slots
          /\ \A r : dst(r)' = dst(r)
        BY <2>1 DEF CopyRows, Rows, HasCopies, Slots, dst
    <2>3. ASSUME NEW s \in Slots, NEW r \in CopyRows, arr[s] = work[r] PROVE s = dst(r)
        <3>1. s <= dst(r) /\ (s >= 0 => dst(r) - s < 1)
            BY <2>1, <2>3 DEF Routed, Holds
        <3>2. dst(r) \in Nat
            BY <2>1, RowFacts
        <3> QED
            BY <3>1, <3>2, <2>1 DEF Slots
    <2>4. ASSUME NEW r \in CopyRows PROVE dst(r) \in Slots /\ arr[dst(r)] = work[r]
        BY <2>1, <2>3 DEF Routed, Placed, Holds
    <2>5. \E r \in CopyRows : arr[0] = work[r] /\ dst(r) = 0 /\ mult[r] > 0
        <3>1. PICK r \in DOMAIN work : HasCopies(r) /\ dst(r) = 0
            BY <2>1 DEF NoGap
        <3>2. r \in CopyRows
            BY <2>1, <3>1, RowFacts DEF CopyRows
        <3> QED
            BY <3>1, <3>2, <2>4 DEF HasCopies
    <2>6. ASSUME NEW s \in Slots, ~arr[s].pad PROVE \E r \in CopyRows : arr[s] = work[r] /\ s = dst(r)
        BY <2>1, <2>3, <2>6 DEF Routed, Placed, Occupied, Holds
    <2>7. \A s \in Slots : s < 1 => s = 0
        BY DEF Slots
    <2>8. \A s \in Slots : s < 1 =>
            \E r \in CopyRows : arr[s] = work[r] /\ dst(r) <= s /\ s < dst(r) + mult[r]
        <3> SUFFICES ASSUME NEW s \in Slots, s < 1
                     PROVE  \E r \in CopyRows : arr[s] = work[r] /\ dst(r) <= s /\ s < dst(r) + mult[r]
            OBVIOUS
        <3>1. s = 0
            BY <2>7
        <3>2. PICK r \in CopyRows : arr[0] = work[r] /\ dst(r) = 0 /\ mult[r] > 0
            BY <2>5
        <3>3. mult[r] \in Nat
            BY <2>1 DEF CopyRows, Rows, Blocks, TypeOK
        <3>4. dst(r) <= 0 /\ 0 < dst(r) + mult[r]
            BY <3>2, <3>3
        <3> QED
            BY <3>1, <3>2, <3>4
    <2>9. 1 \in 1..total
        BY <2>1
    <2> QED
        BY <2>1, <2>2, <2>4, <2>6, <2>8, <2>9 DEF Filled, Occupied, Holds
<1>3. CASE Fill
    <2>1. /\ UNCHANGED <<mult, total, work, pc>> /\ pc = "fill" /\ i < total /\ i' = i + 1
          /\ arr' = fill_from_predecessor(arr, i) /\ total \in Nat \ {0}
          /\ i \in Slots /\ i - 1 \in Slots /\ arr \in [Slots -> SlotType] /\ i \in Nat
        BY <1>3 DEF Fill, TypeOK, Filled, Slots
    <2>2. /\ CopyRows' = CopyRows /\ Slots' = Slots
          /\ \A r : dst(r)' = dst(r)
        BY <2>1 DEF CopyRows, Rows, HasCopies, Slots, dst
    <2>3. \A s \in Slots : s \in Nat
        BY DEF Slots
    <2>4. /\ \A r \in CopyRows : dst(r) \in Slots /\ arr[dst(r)] = work[r]
          /\ \A s \in Slots : s < i =>
                \E r \in CopyRows : arr[s] = work[r] /\ dst(r) <= s /\ s < dst(r) + mult[r]
          /\ \A s \in Slots : ~arr[s].pad /\ s >= i =>
                \E r \in CopyRows : arr[s] = work[r] /\ s = dst(r)
        BY <2>1 DEF Filled, Occupied, Holds
    <2>5. \A s \in Slots : s # i => arr'[s] = arr[s]
        BY <2>1 DEF fill_from_predecessor
    <2>6. \A r \in CopyRows : work[r].pad = FALSE /\ mult[r] > 0 /\ mult[r] \in Nat /\ r \in DOMAIN work
        <3> SUFFICES ASSUME NEW r \in CopyRows
                     PROVE  work[r].pad = FALSE /\ mult[r] > 0 /\ mult[r] \in Nat /\ r \in DOMAIN work
            OBVIOUS
        <3>1. r \in DOMAIN work /\ mult[r] > 0 /\ mult[r] \in Nat
            BY <2>1 DEF CopyRows, Rows, HasCopies, Blocks, TypeOK
        <3>2. work[r].pad = (mult[r] = 0)
            BY <3>1 DEF Blocks
        <3>3. (mult[r] = 0) = FALSE
            BY <3>1
        <3> QED
            BY <3>1, <3>2, <3>3
    <2>7. CASE ~arr[i].pad
        <3>1. arr' = arr
            BY <2>1, <2>7 DEF fill_from_predecessor
        <3>2. PICK r \in CopyRows : arr[i] = work[r] /\ i = dst(r)
            BY <2>1, <2>4, <2>7
        <3>3. dst(r) <= i /\ i < dst(r) + mult[r]
            BY <3>2, <2>1, <2>6
        <3>4. ASSUME NEW s \in Slots, s < i + 1
              PROVE  \E x \in CopyRows : arr[s] = work[x] /\ dst(x) <= s /\ s < dst(x) + mult[x]
            BY <2>1, <2>3, <2>4, <3>2, <3>3, <3>4
        <3>5. i + 1 \in 1..total
            BY <2>1
        <3>6. ASSUME NEW s \in Slots, ~arr[s].pad, s >= i + 1
              PROVE  \E x \in CopyRows : arr[s] = work[x] /\ s = dst(x)
            <4>1. s >= i
                BY <2>1, <2>3, <3>6
            <4> QED
                BY <4>1, <2>4, <3>6
        <3> QED
            BY <2>1, <2>2, <2>4, <3>1, <3>4, <3>5, <3>6 DEF Filled, Occupied, Holds
    <2>8. CASE arr[i].pad
        <3>1. arr'[i] = arr[i - 1]
            BY <2>1, <2>8 DEF fill_from_predecessor
        <3>2. i - 1 < i /\ i >= 1
            BY <2>1, <2>3
        <3>3. PICK r \in CopyRows : arr[i - 1] = work[r] /\ dst(r) <= i - 1 /\ i - 1 < dst(r) + mult[r]
            BY <2>1, <2>4, <3>2
        <3>4. dst(r) \in Nat /\ mult[r] \in Nat /\ r \in DOMAIN work
            BY <2>3, <2>4, <2>6
        <3>5. i # dst(r) + mult[r]
            <4> SUFFICES ASSUME i = dst(r) + mult[r] PROVE FALSE
                OBVIOUS
            <4>1. PICK q \in DOMAIN work : HasCopies(q) /\ dst(q) = i
                BY <2>1, <3>4, <2>6 DEF NoGap, HasCopies
            <4>2. q \in CopyRows
                BY <2>1, <4>1 DEF CopyRows, Rows, Blocks, TypeOK
            <4> QED
                BY <2>4, <2>6, <2>8, <4>1, <4>2
        <3>6. dst(r) <= i /\ i < dst(r) + mult[r]
            BY <3>3, <3>4, <3>5, <2>1
        <3>7. ASSUME NEW s \in Slots, s < i + 1
              PROVE  \E x \in CopyRows : arr'[s] = work[x] /\ dst(x) <= s /\ s < dst(x) + mult[x]
            <4>1. CASE s = i
                BY <4>1, <3>1, <3>3, <3>6
            <4>2. CASE s < i
                BY <4>2, <2>4, <2>5, <2>1, <2>3
            <4> QED
                BY <3>7, <4>1, <4>2, <2>1, <2>3
        <3>8. ASSUME NEW x \in CopyRows PROVE arr'[dst(x)] = work[x]
            <4>1. dst(x) # i
                BY <2>4, <2>6, <2>8
            <4> QED
                BY <4>1, <2>4, <2>5
        <3>9. ASSUME NEW s \in Slots, ~arr'[s].pad, s >= i + 1
              PROVE  \E x \in CopyRows : arr'[s] = work[x] /\ s = dst(x)
            BY <2>1, <2>3, <2>4, <2>5, <3>9
        <3>10. i + 1 \in 1..total
            BY <2>1
        <3> QED
            BY <2>1, <2>2, <2>4, <3>7, <3>8, <3>9, <3>10 DEF Filled, Occupied, Holds
    <2> QED
        BY <2>7, <2>8
<1>4. CASE Finish
    <2>1. /\ UNCHANGED <<mult, total, work, arr>> /\ pc = "fill" /\ i >= total /\ pc' = "done"
        BY <1>4 DEF Finish
    <2>2. /\ CopyRows' = CopyRows /\ Slots' = Slots
          /\ \A r : dst(r)' = dst(r)
        BY <2>1 DEF CopyRows, Rows, HasCopies, Slots, dst
    <2>3. \A s \in Slots : s < i
        BY <2>1 DEF Slots, TypeOK
    <2> QED
        BY <2>1, <2>2, <2>3 DEF Filled, Holds
<1>5. CASE UNCHANGED vars
    <2>1. /\ CopyRows' = CopyRows /\ Slots' = Slots
          /\ \A r : dst(r)' = dst(r)
        BY <1>5 DEF vars, CopyRows, Rows, HasCopies, Slots, dst
    <2> QED
        BY <1>5, <2>1 DEF vars, Filled, Occupied, Holds
<1>6. CASE pc' \notin {"fill", "done"}
    BY <1>6 DEF Filled
<1> QED
    BY <1>1, <1>2, <1>3, <1>4, <1>5, <1>6 DEF Next, Sum, SortAndResize, Index, Grow,
        StartRouting, Pair, HalveDistance, Ended, TypeOK

-----------------------------------------------------------------------------
(* The inductive invariant holds in every reachable state. *)
THEOREM Invariance == Spec => []IInv
<1>1. IInv /\ [Next]_vars => IInv'
    BY TypeStep, BlocksStep, HalvesStep, StartsStep, IndexedStep, RoutedStep, FilledStep DEF IInv
<1> QED
    BY InitIInv, <1>1, PTL DEF Spec

(* Every variable of expand_single_table keeps its type. *)
THEOREM TypeCorrect == Spec => []TypeOK
<1>1. IInv => TypeOK
    BY DEF IInv
<1> QED
    BY Invariance, <1>1, PTL

(* When the network is through, every row with copies is at the start of   *)
(* its block.                                                              *)
THEOREM Delivery == Spec => []RowsReachDestinations
<1>1. IInv => RowsReachDestinations
    BY DEF IInv, Filled, RowsReachDestinations, CopyRows, Holds
<1> QED
    BY Invariance, <1>1, PTL

(* The result holds each row final_mult times, in blocks.                  *)
THEOREM Expansion == Spec => []EveryRowFillsItsBlock
<1>1. IInv => EveryRowFillsItsBlock
    <2> SUFFICES ASSUME IInv, pc = "done", NEW s \in Slots
                 PROVE  LET r == arr[s].row
                        IN  r \in Rows /\ dst(r) <= s /\ s < dst(r) + mult[r]
        BY DEF EveryRowFillsItsBlock
    <2>1. PICK r \in CopyRows : arr[s] = work[r] /\ dst(r) <= s /\ s < dst(r) + mult[r]
        BY DEF IInv, Filled, Holds
    <2>2. r \in Rows /\ work[r].row = r
        BY DEF IInv, CopyRows, Rows, Blocks, TypeOK
    <2> QED
        BY <2>1, <2>2
<1> QED
    BY Invariance, <1>1, PTL

(* A swap of the network only ever moves a row into padding.               *)
THEOREM NoDisplacement == Spec => NeverDisplacesARow
<1>1. IInv /\ [Next]_vars =>
        [\A s \in Slots : pc = "route" /\ Occupied(s) =>
             \E t \in Slots : t >= s /\ arr'[t] = arr[s]]_vars
    <2> SUFFICES ASSUME IInv, Next, NEW s \in Slots, pc = "route", Occupied(s)
                 PROVE  \E t \in Slots : t >= s /\ arr'[t] = arr[s]
        OBVIOUS
    <2>1. CASE Pair
        <3> DEFINE a == j - 1
                   b == j - 1 + distance
        <3>1. /\ arr' = dist_pair(arr, a, distance) /\ a \in Slots /\ b \in Slots
              /\ arr \in [Slots -> SlotType] /\ b >= a /\ j > 0
            BY <2>1 DEF Pair, IInv, TypeOK, Routed, Slots
        <3>2. should_swap(arr[a], b) => arr[b].pad
            BY <3>1, SwapsIntoPadding
        <3>3. s >= s /\ s \in Int
            BY DEF Slots
        <3>4. CASE should_swap(arr[a], b)
            <4>1. s # b
                BY <3>2, <3>4 DEF Occupied
            <4>2. arr'[b] = arr[a] /\ (s # a => arr'[s] = arr[s])
                BY <3>1, <3>4, <4>1 DEF dist_pair
            <4> QED
                BY <3>1, <3>3, <4>2
        <3>5. CASE ~should_swap(arr[a], b)
            BY <3>1, <3>3, <3>5 DEF dist_pair
        <3> QED
            BY <3>4, <3>5
    <2>2. CASE arr' = arr
        BY <2>2 DEF Slots
    <2> QED
        BY <2>1, <2>2 DEF Next, Sum, NoOutput, SortAndResize, Index, Grow, StartRouting,
            HalveDistance, StartFilling, Fill, Finish, Ended, vars
<1> QED
    BY Invariance, <1>1, PTL DEF Spec, NeverDisplacesARow

=============================================================================
