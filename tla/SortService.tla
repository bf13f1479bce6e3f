---------------------------- MODULE SortService -----------------------------
(***************************************************************************)
(* What sorting a table promises: its rows in the order of the comparator, *)
(* ties in any order.  Once something in the enclave has failed the call   *)
(* may report it, or answer with fewer rows, in another order or with      *)
(* padding among them, but with no row twice and no row made up.           *)
(***************************************************************************)
EXTENDS BatchComparators

VARIABLES rows,         \* the table, each row with its id
          comparator,
          status,       \* "running", "answered" or "failed"
          answer,
          faulty        \* something in the enclave has failed

vars == <<rows, comparator, status, answer, faulty>>

SameRows(s) ==
    Len(s) = Len(rows) /\ ToSet(s) = ToSet(rows)

IsOwn(e) == e.field_type # SORT_PADDING

SomeRows(s) ==
    /\ Len(s) <= Len(rows)
    /\ \A i \in DOMAIN s : IsOwn(s[i]) => s[i] \in ToSet(rows) /\ \A j \in DOMAIN s : s[i] = s[j] => i = j

Init == status = "running" /\ answer = <<>> /\ faulty = FALSE

Answer ==
    /\ status = "running" /\ status' = "answered"
    /\ IF faulty THEN SomeRows(answer')
       ELSE SameRows(answer') /\ IsOrdered(comparator, answer')
    /\ UNCHANGED <<rows, comparator, faulty>>

Fail ==
    /\ status = "running" /\ faulty
    /\ status' = "failed"
    /\ UNCHANGED <<rows, comparator, answer, faulty>>

Falter ==
    /\ status = "running" /\ ~faulty
    /\ faulty' = TRUE
    /\ UNCHANGED <<rows, comparator, status, answer>>

Next == Answer \/ Fail \/ Falter

Spec == Init /\ [][Next]_vars

=============================================================================
