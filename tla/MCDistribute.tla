---------------------------- MODULE MCDistribute ----------------------------
(* Distribute for every table of up to MaxRows rows with up to MaxMult     *)
(* copies each.                                                            *)
EXTENDS Distribute

Sort == INSTANCE EnclaveSort

CONSTANTS MaxRows, MaxMult

MCMults == UNION {[1..n -> 0..MaxMult] : n \in 0..MaxRows}

(* The sort that the expansion begins with, like every sort of the enclave,*)
(* here by the rows' multiplicities: with its padding, its network and its *)
(* bits it may leave rows with equal keys in any order whatever, loses     *)
(* none of them to the padding, and the bits drawn for the switches are as *)
(* many as the network takes (ej_osort_g, num_switches).                   *)
SortLeavesTiesInAnyOrder ==
    pc = "sum" /\ i = 1 /\ mult # <<>> =>
        LET key == [r \in Rows |-> <<mult[r]>>]
            m   == Sort!PaddedSize(Len(key))
        IN  /\ Sort!num_switches(m) = Len(Sort!Switches(m))
            /\ Sort!Outcomes(key) = Sort!Promised(key)

=============================================================================
