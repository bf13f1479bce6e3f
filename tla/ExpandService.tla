--------------------------- MODULE ExpandService ----------------------------
(***************************************************************************)
(* What expanding one table promises: after one atomic answer, slot by     *)
(* slot the row that fills it, every row final_mult times, copies together *)
(* and rows in their order; or a reported failure.  When the enclave has   *)
(* been lost the answer may also be a table of no row, of one of the rows  *)
(* or of one row of padding, which is as much as the call returns without  *)
(* a last call into the enclave.                                           *)
(***************************************************************************)
EXTENDS Integers, Sequences, SequencesExt

CONSTANT Counts         \* the final_mult sequences tables may have

VARIABLES counts,       \* final_mult of the rows
          status,       \* "running", "answered" or "failed"
          answer,       \* the row number of every slot, 0 for padding
          lost          \* the enclave is gone

vars == <<counts, status, answer, lost>>

Expansion(c) == FlattenSeq([r \in DOMAIN c |-> [j \in 1..c[r] |-> r]])

Init ==
    /\ counts \in Counts
    /\ status = "running" /\ answer = <<>> /\ lost = FALSE

Answer ==
    /\ status = "running"
    /\ answer' \in {Expansion(counts)} \cup
            (IF lost THEN {<<>>} \cup {<<r>> : r \in {0} \cup DOMAIN counts} ELSE {})
    /\ status' = "answered"
    /\ UNCHANGED <<counts, lost>>

Fail ==
    /\ status = "running" /\ lost
    /\ status' = "failed"
    /\ UNCHANGED <<counts, answer, lost>>

Lose ==
    /\ status = "running" /\ ~lost
    /\ lost' = TRUE
    /\ UNCHANGED <<counts, status, answer>>

Next == Answer \/ Fail \/ Lose

(* The call ends. *)
Spec == Init /\ [][Next]_vars /\ WF_vars(Answer \/ Fail)

=============================================================================
