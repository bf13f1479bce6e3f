------------------------------ MODULE MinHeap -------------------------------
(***************************************************************************)
(* The enclave's binary heap of the k-way merge and its heap sort          *)
(* (min_heap.c).  A heap is a sequence of records [entry, run_idx]; the    *)
(* children of position i are 2i and 2i + 1.                               *)
(***************************************************************************)
EXTENDS BatchComparators

Swapped(h, i, j) == [h EXCEPT ![i] = h[j], ![j] = h[i]]

(* a belongs above b: in a heap with the smallest on top, or the largest.  *)
Above(op, max, a, b) ==
    IF max THEN compare(op, b.entry, a.entry) ELSE compare(op, a.entry, b.entry)

(* One turn of the loop: the record at s.i is exchanged with its parent if *)
(* it belongs above it.                                                    *)
Climb(op, s) ==
    LET p == s.i \div 2
    IN  IF p >= 1 /\ compare(op, s.h[s.i].entry, s.h[p].entry)
        THEN [h |-> Swapped(s.h, s.i, p), i |-> p] ELSE s

(* The last record climbs to its place: as many turns as suffice.          *)
heapify_up(op, h) ==
    LET climbed[n \in 0..Len(h)] ==
            IF n = 0 THEN [h |-> h, i |-> Len(h)] ELSE Climb(op, climbed[n - 1])
    IN  climbed[Len(h)].h

(* Of i and its children, the one that belongs on top. *)
Uppermost(op, max, h, size, i) ==
    LET pick(w, c) == IF c <= size /\ Above(op, max, h[c], h[w]) THEN c ELSE w
    IN  pick(pick(i, 2 * i), 2 * i + 1)

(* One turn: the record at s.i is exchanged with the uppermost of the two. *)
Sink(op, max, size, s) ==
    LET w == Uppermost(op, max, s.h, size, s.i)
    IN  IF w = s.i THEN s ELSE [h |-> Swapped(s.h, s.i, w), i |-> w]

(* The record at i sinks to its place among the first size records.        *)
heapify_down(op, max, h, size, i) ==
    LET sunk[n \in 0..size] ==
            IF n = 0 THEN [h |-> h, i |-> i] ELSE Sink(op, max, size, sunk[n - 1])
    IN  sunk[size].h

heap_push(op, h, capacity, entry, run_idx) ==
    IF Len(h) >= capacity THEN h
    ELSE heapify_up(op, Append(h, [entry |-> entry, run_idx |-> run_idx]))

(* What heap_pop leaves; what it returns is the first record. *)
heap_pop(op, h) ==
    IF Len(h) = 1 THEN <<>>
    ELSE LET rest == [SubSeq(h, 1, Len(h) - 1) EXCEPT ![1] = h[Len(h)]]
         IN  heapify_down(op, FALSE, rest, Len(rest), 1)

(* Build a heap with the largest on top, then move the top behind the      *)
(* shrinking heap again and again.                                         *)
heap_sort(op, array) ==
    LET n == Len(array)
        built[j \in 0..(n \div 2)] ==
            IF j = 0 THEN [i \in 1..n |-> [entry |-> array[i], run_idx |-> 0]]
            ELSE heapify_down(op, TRUE, built[j - 1], n, n \div 2 + 1 - j)
        sorted[j \in 0..(n - 1)] ==
            IF j = 0 THEN built[n \div 2]
            ELSE LET end == n + 1 - j
                 IN  heapify_down(op, TRUE, Swapped(sorted[j - 1], 1, end), end - 1, 1)
    IN  [i \in 1..n |-> sorted[n - 1][i].entry]

=============================================================================
