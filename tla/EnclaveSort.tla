---------------------------- MODULE EnclaveSort -----------------------------
(***************************************************************************)
(* The enclave's sort (oblivious_sort.c): the array, padded to a power of  *)
(* two, goes through a Waksman network whose switches are set by secret    *)
(* bits, then through qsort with a comparator that puts padding last, and  *)
(* the padding is cut off.  Arrays of n elements are sequences of their    *)
(* indices 1..n; padding has the indices above n.                          *)
(***************************************************************************)
EXTENDS WaksmanNetwork, FiniteSetsExt

(* Comparators decide by a few keys in turn: key[i] is the tuple of keys   *)
(* of element i.                                                           *)
KeyLess(a, b) ==
    \E i \in DOMAIN a : a[i] < b[i] /\ \A j \in 1..(i - 1) : a[j] = b[j]

(* The sort as the phases use it: elements with equal keys come out in an  *)
(* order that the shuffle decides, sh[n] for arrays of n elements.         *)
ej_osort_g(s, key, sh) ==
    LET order == SortSeq([i \in DOMAIN s |-> sh[Len(s)][i]],
                         LAMBDA i, j : KeyLess(key[i], key[j]))
    IN  [i \in DOMAIN s |-> s[order[i]]]

-----------------------------------------------------------------------------

swap_words(a, pair, bit) ==
    LET other(p) == IF p = pair[1] THEN pair[2] ELSE IF p = pair[2] THEN pair[1] ELSE p
    IN  IF bit = 0 THEN a ELSE [p \in DOMAIN a |-> a[other(p - 1) + 1]]

waksman(a, bits) ==
    LET net == Switches(Len(a))
    IN  FoldLeft(LAMBDA x, s : swap_words(x, net[s], bits[s]), a, [s \in DOMAIN net |-> s])

(* The bits that bitstream_init draws: a column of groups per turn.        *)
num_switches(n) ==
    MapThenSumSet(LAMBDA turn : 2^turn * (n \div 2^turn - 1),
                  {turn \in 0..n : n \div 2^turn >= 2})

Bitstreams(n) == [1..num_switches(n) -> {0, 1}]

PaddedSize(n) == CHOOSE m \in {2^e : e \in 0..n} : n <= m /\ m < 2 * n

(* What pad_adjust makes of a comparator: i goes before j.                *)
pad_adjust_tied(key, i, j) ==       \* mutant: padding ties with everything
    {i, j} \subseteq DOMAIN key /\ KeyLess(key[i], key[j])

pad_adjust(key, i, j) ==
    IF {i, j} \subseteq DOMAIN key THEN KeyLess(key[i], key[j])
    ELSE i \in DOMAIN key /\ j \notin DOMAIN key

(* The orders in which an array can come out. *)
Outcomes(key) ==
    LET n == Len(key)
        m == PaddedSize(n)
        sorted(bits) == SortSeq(waksman([i \in 1..m |-> i], bits),
                                LAMBDA i, j : pad_adjust(key, i, j))
    IN  {SubSeq(sorted(bits), 1, n) : bits \in Bitstreams(m)}

(* What the phases take the sort to do, over all shuffles. *)
Promised(key) ==
    LET n == Len(key)
    IN  {ej_osort_g([i \in 1..n |-> i], key, [l \in {n} |-> p]) : p \in Permutations(1..n)}

=============================================================================
