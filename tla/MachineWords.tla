---------------------------- MODULE MachineWords ----------------------------
(***************************************************************************)
(* The counters of both engines: int32_t, as IntBits-bit words in two's    *)
(* complement, and C's division.                                           *)
(***************************************************************************)
EXTENDS Integers

CONSTANT IntBits        \* width of the code's int32_t

ASSUME IntBitsAssumption == IntBits \in Nat \ {0}

Int32_unbounded(x) == x     \* mutant: counts never wrap

Int32(x) == ((x + 2^(IntBits - 1)) % 2^IntBits) - 2^(IntBits - 1)

(* C's division truncates towards zero. *)
CDiv(a, b) ==
    LET abs(x) == IF x < 0 THEN -x ELSE x
        q == abs(a) \div abs(b)
    IN  IF (a < 0) = (b < 0) THEN q ELSE -q

=============================================================================
