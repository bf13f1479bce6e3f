---------------------------- MODULE QueryService ----------------------------
(***************************************************************************)
(* What running a query on a directory of tables promises: in one step the *)
(* answer that its text defines, or a reported failure, which needs a      *)
(* reason: the enclave was lost, a table is empty, or the query's first    *)
(* table is missing.  A query of one table may be answered empty when the  *)
(* enclave is lost.                                                        *)
(***************************************************************************)
EXTENDS QueryText

VARIABLES query,
          data,         \* the tables of the directory
          status,       \* "running", "answered" or "failed"
          answer,
          lost          \* the enclave at work is gone

vars == <<query, data, status, answer, lost>>

NoRows == [v \in {} |-> 0]

Init == status = "running" /\ answer = NoRows /\ lost = FALSE

Answer ==
    /\ status = "running" /\ status' = "answered"
    /\ \/ answer' = AnswerTo(query, data)
       \/ lost /\ Len(query.tables) = 1 /\ answer' = NoRows
    /\ UNCHANGED <<query, data, lost>>

Fail ==
    /\ status = "running" /\ status' = "failed"
    /\ \/ lost
       \/ query.tables[1] \notin DOMAIN data
       \/ \E t \in DOMAIN data : data[t].rows = <<>>
    /\ UNCHANGED <<query, data, answer, lost>>

(* The enclave is lost, or another is created for the next program. *)
Lose ==
    /\ status = "running"
    /\ lost' = ~lost
    /\ UNCHANGED <<query, data, status, answer>>

Next == Answer \/ Fail \/ Lose

Spec == Init /\ [][Next]_vars

=============================================================================
