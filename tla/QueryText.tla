----------------------------- MODULE QueryText ------------------------------
(***************************************************************************)
(* A query as its author reads it: the tables of the FROM clause, and the  *)
(* comparisons                                                             *)
(*     left_table.left_column op right_table.right_column + deviation      *)
(* of the WHERE clause.  The tables' contents are a function from names to *)
(* records [columns, rows].  The answer is a bag of rows, each a function  *)
(* from column names to values.                                            *)
(***************************************************************************)
EXTENDS BandConstraint, Sequences, SequencesExt, FiniteSets

(* get_column_index: the first column of that name. *)
ColumnIndex(columns, column) ==
    CHOOSE i \in DOMAIN columns :
        columns[i] = column /\ \A j \in 1..(i - 1) : columns[j] # column

(* One row of each of the tables ts. *)
RowChoices(data, ts) ==
    LET most == CHOOSE m \in {Len(data[t].rows) : t \in ts} :
                    \A t \in ts : Len(data[t].rows) <= m
    IN  {a \in [ts -> 1..most] : \A t \in ts : a[t] <= Len(data[t].rows)}

ValueOf(data, a, table, column) ==
    data[table].rows[a[table]][ColumnIndex(data[table].columns, column)]

Holds(data, a, c) ==
    Compare(ValueOf(data, a, c.left_table, c.left_column), c.op,
            ValueOf(data, a, c.right_table, c.right_column) + c.deviation)

(* The choices of rows that satisfy the comparisons among the tables ts. *)
Matches(query, data, ts) ==
    {a \in RowChoices(data, ts) :
        \A c \in ToSet(query.conditions) :
            {c.left_table, c.right_table} \subseteq ts => Holds(data, a, c)}

(* A bag from a set of identifiers and the value that each stands for.     *)
BagOf(ids, value(_)) ==
    [v \in {value(i) : i \in ids} |-> Cardinality({i \in ids : value(i) = v})]

ColumnsOf(data, ts) == UNION {ToSet(data[t].columns) : t \in ts}

OwnerOf(data, ts, column) == CHOOSE t \in ts : column \in ToSet(data[t].columns)

RowOf(data, ts, a) ==
    [c \in ColumnsOf(data, ts) |-> ValueOf(data, a, OwnerOf(data, ts, c), c)]

(* What the matches of the whole query show of the tables ts. *)
Projected(query, data, ts) ==
    BagOf(Matches(query, data, ToSet(query.tables)), LAMBDA a : RowOf(data, ts, a))

AnswerTo(query, data) == Projected(query, data, ToSet(query.tables))

=============================================================================
