--------------------------- MODULE WaksmanNetwork ---------------------------
(***************************************************************************)
(* The Waksman network of both engines (oblivious_sort.c and               *)
(* oblivious_waksman.c, which it mirrors).                                 *)
(***************************************************************************)
EXTENDS Integers, Sequences, SequencesExt

(* The network on n elements: its switches in the order in which they take *)
(* their bits, as pairs of positions from 0.  The pairs of the first       *)
(* column return in the last, but for the first; in between, the elements  *)
(* at even and those at odd positions have a network each.                 *)
OutputSwitches(pairs) == Tail(pairs)

Switches(n) ==
    LET network[m \in 0..n] ==
            IF m <= 1 THEN <<>>
            ELSE IF m = 2 THEN << <<0, 1>> >>
            ELSE LET pairs  == [i \in 1..(m \div 2) |-> <<2 * i - 2, 2 * i - 1>>]
                     inner  == network[m \div 2]
                     sub(c) == [j \in DOMAIN inner |-> <<2 * inner[j][1] + c, 2 * inner[j][2] + c>>]
                 IN  pairs \o sub(0) \o sub(1) \o OutputSwitches(pairs)
    IN  network[n]

=============================================================================
