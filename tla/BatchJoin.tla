----------------------------- MODULE BatchJoin ------------------------------
(***************************************************************************)
(* One run of the batching engine, from the directory of tables to the     *)
(* file with the answer: the tool that encrypts the tables (optional), the *)
(* program that loads them, builds the join tree of the query and drives   *)
(* the four phases of oblivious_join.cpp edge by edge and table by table,  *)
(* and the saving of the result.  Every pass over rows is a series of      *)
(* calls into the enclave, which may be lost at any moment (BatchExpand    *)
(* and BatchSort look inside the expansion and the sort).                  *)
(***************************************************************************)
EXTENDS TableFiles, TreeBuilder

CONSTANTS
    Inputs,     \* the runs: records [query, data, encrypt]
    Shuffles    \* orders in which a sort may leave rows with equal keys:
                \* functions that map a length n to a permutation of 1..n

VARIABLES
    query, data,    \* the text, and the tables of the input directory
    attempted,      \* the files that the tool has been through
    dir,            \* the directory that the join reads: table name -> file
    phase,          \* "encrypt", "load", "build", "initialize", "bottom_up",
                    \* "top_down", "expand", "align", "save" or "ended"
    pos,            \* the phase's next edge or node
    tree,           \* the join tree
    tables,         \* of each node: its rows
    result,         \* the accumulator: its schema and rows
    status,         \* "running", "answered" or "failed"
    output,         \* the file with the answer
    lost            \* the enclave at work is gone

vars == <<query, data, attempted, dir, phase, pos, tree, tables, result, status, output, lost>>

PlainFile(t) == [columns |-> t.columns, nonce |-> FALSE, lines |-> t.rows]

NoTable == [schema |-> <<>>, rows |-> <<>>]

Init ==
    /\ \E in \in Inputs :
        /\ query = in.query /\ data = in.data
        /\ dir = IF in.encrypt THEN <<>> ELSE [t \in DOMAIN in.data |-> PlainFile(in.data[t])]
        /\ phase = IF in.encrypt THEN "encrypt" ELSE "load"
    /\ attempted = {}
    /\ pos = 1 /\ tree = <<>> /\ tables = <<>> /\ result = NoTable
    /\ status = "running" /\ output = EmptyFile /\ lost = FALSE

Throw ==
    /\ status' = "failed" /\ phase' = "ended"
    /\ UNCHANGED <<query, data, attempted, dir, pos, tree, tables, result, output, lost>>

Advance(p, n) ==
    /\ phase' = p /\ pos' = n
    /\ UNCHANGED <<query, data, attempted, dir, status, output, lost>>

(* The rest of a loop's turn: to its next round, or to the next phase. *)
NextRound(n, next) == IF pos < n THEN Advance(phase, pos + 1) ELSE Advance(next, 1)

-----------------------------------------------------------------------------
(* encrypt_tables: the files in any order.  One that fails is counted, and *)
(* the tool goes on; its exit code then keeps the join from being run.     *)

EncryptFile(f) ==
    LET table == load_csv(PlainFile(data[f]))
    IN  /\ phase = "encrypt" /\ f \in DOMAIN data \ attempted
        /\ attempted' = attempted \cup {f}
        /\ dir' = IF SaveThrows(table, lost) THEN dir
                  ELSE dir @@ (f :> save_encrypted_csv(table))
        /\ UNCHANGED <<query, data, phase, pos, tree, tables, result, status, output, lost>>

EncryptTablesEnd ==
    /\ phase = "encrypt" /\ attempted = DOMAIN data
    /\ IF DOMAIN dir = DOMAIN data
       THEN phase' = "load" /\ lost' = FALSE /\ UNCHANGED status    \* the join's own enclave
       ELSE phase' = "ended" /\ status' = "failed" /\ UNCHANGED lost
    /\ UNCHANGED <<query, data, attempted, dir, pos, tree, tables, result, output>>

-----------------------------------------------------------------------------
(* main: every file of the directory is loaded, needed or not. *)

LoadTables ==
    /\ phase = "load"
    /\ IF \E t \in DOMAIN dir : ~IsReadable(dir[t]) THEN Throw
       ELSE Advance("build", 1) /\ UNCHANGED <<tree, tables, result>>

BuildTree ==
    /\ phase = "build"
    /\ IF query.tables[1] \notin DOMAIN dir THEN Throw
       ELSE /\ \E constraints \in merge_join_conditions(query.conditions) :
                 tree' = build_from_query(query.tables, constraints, DOMAIN dir)
            /\ tables' = [n \in DOMAIN tree' |-> load_csv(dir[tree'[n].table]).rows]
            /\ Advance("initialize", 1) /\ UNCHANGED result

Schema(n) == dir[tree[n].table].columns

-----------------------------------------------------------------------------
(* ObliviousJoin::Execute; the phases, each of calls into the enclave. *)

InitializedTable(t) ==
    LET fresh == batched_map(LAMBDA e : set_local_mult_one(init_metadata_null(e)), t)
    IN  batched_linear_pass(set_original_index, [fresh EXCEPT ![1] = set_index(@, 0)])

IsValidTree == \A n \in DOMAIN tables : tables[n] # <<>>

InitializeAllTables ==
    /\ phase = "initialize"
    /\ IF ~IsValidTree \/ lost THEN Throw
       ELSE /\ tables' = [n \in DOMAIN tables |-> InitializedTable(tables[n])]
            /\ Advance(IF Len(tree) > 1 THEN "bottom_up" ELSE "top_down", 1)
            /\ UNCHANGED <<tree, result>>

SetJoinAttributesForTable(t, schema, column) ==
    batched_map(LAMBDA e : set_join_attr(e, ColumnIndex(schema, column)), t)

(* One SOURCE for each row of source, and the two ends of an interval for  *)
(* each row of target.                                                     *)
CombineTable(target, source, band) ==
    batched_map(to_source, source)
    \o batched_map(LAMBDA e : to_start(e, band.deviation1, band.equality1), target)
    \o batched_map(LAMBDA e : to_end(e, band.deviation2, band.equality2), target)

(* The END records, one for each row of target in order, after the passes  *)
(* over running sums and intervals.                                        *)
Intervals(combined, sum(_, _), interval(_, _), target, sh) ==
    LET sums   == batched_linear_pass(sum, shuffle_merge_sort("JOIN_ATTR", combined, sh))
        paired == batched_linear_pass(interval, shuffle_merge_sort("PAIRWISE", sums, sh))
    IN  SubSeq(shuffle_merge_sort("END_FIRST", paired, sh), 1, Len(target))

ComputeLocalMultiplicities(parent, child, band, sh) ==
    LET combined == batched_map(init_local_temps, CombineTable(parent, child, band))
        truncated == Intervals(combined, compute_local_sum, compute_local_interval, parent, sh)
    IN  batched_parallel_pass(update_target_multiplicity, truncated, parent)

ComputeForeignMultiplicities(parent, child, band, sh) ==
    LET combined == batched_map(init_foreign_temps, CombineTable(child, parent, reverse(band)))
        truncated == Intervals(combined, compute_foreign_sum, compute_foreign_interval, child, sh)
    IN  batched_parallel_pass(update_target_final_multiplicity, truncated, child)

(* The tables of edge c, their join_attr set to the columns of the edge.   *)
ParentSide(c) ==
    LET v == tree[c].parent_idx
    IN  SetJoinAttributesForTable(tables[v], Schema(v), tree[c].constraint.target_column)

ChildSide(c) == SetJoinAttributesForTable(tables[c], Schema(c), tree[c].constraint.source_column)

BottomUpEdge ==
    LET order == BottomUpOrder(tree)
        c     == order[pos]
    IN  /\ phase = "bottom_up"
        /\ IF lost THEN Throw
           ELSE /\ \E sh \in Shuffles :
                     tables' = [tables EXCEPT
                         ![tree[c].parent_idx] = ComputeLocalMultiplicities(
                             ParentSide(c), ChildSide(c), tree[c].constraint.band, sh),
                         ![c] = ChildSide(c)]
                /\ NextRound(Len(order), "top_down")
                /\ UNCHANGED <<tree, result>>

(* The root first, then every other node in pre-order. *)
TopDownNode ==
    /\ phase = "top_down"
    /\ IF lost THEN Throw
       ELSE /\ \E sh \in Shuffles :
                 tables' =
                    IF pos = 1 THEN [tables EXCEPT ![1] = batched_map(init_final_mult, @)]
                    ELSE [tables EXCEPT
                            ![tree[pos].parent_idx] = ParentSide(pos),
                            ![pos] = ComputeForeignMultiplicities(ParentSide(pos), ChildSide(pos),
                                                       tree[pos].constraint.band, sh)]
            /\ NextRound(Len(tree), "expand")
            /\ UNCHANGED <<tree, result>>

Copies(t) == FlattenSeq([i \in DOMAIN t |-> [k \in 1..t[i].final_mult |-> t[i]]])

(* The sort encrypts every row, the distribution every slot, whatever they *)
(* were in the file; one row alone passes through either as it is.         *)
Expanded_first(t) ==        \* mutant: the slot that is filled first is left as it is
    LET copies == Copies(t)
    IN  [i \in DOMAIN copies |->
            [copies[i] EXCEPT !.is_encrypted = @ \/ (Len(copies) > 1 /\ i > 1)]]

Expanded(t) ==
    LET copies == Copies(t)
    IN  [i \in DOMAIN copies |->
            [copies[i] EXCEPT !.is_encrypted = @ \/ Len(t) > 1 \/ Len(copies) > 1]]

ExpandTable(t) ==
    /\ tables' = [tables EXCEPT ![pos] = t]
    /\ result' = [schema |-> Schema(1), rows |-> tables'[1]]
    /\ IF pos < Len(tree) \/ Len(tree) = 1 THEN NextRound(Len(tree), "save")
       ELSE Advance("align", 1)
    /\ UNCHANGED tree

ExpandSingleTable ==
    /\ phase = "expand"
    /\ IF lost THEN Throw ELSE ExpandTable(Expanded(tables[pos]))

SortPadding(e) ==
    [to_entry([j \in DOMAIN e.attributes |-> 0], e.is_encrypted) EXCEPT
        !.field_type = SORT_PADDING, !.join_attr = NULL_VALUE, !.original_index = NULL_VALUE]

(* The enclave is lost while a table is expanded: the call throws, or, if  *)
(* no call into the enclave follows, it returns a table of no row, or of   *)
(* one row where there should be one: any, or one that pads the sort,      *)
(* encrypted by the sort or not yet.                                       *)
ExpandInterrupted ==
    LET t        == tables[pos]
        sorts    == Len(t) > 1
        pads     == IF sorts THEN {SortPadding(e) : e \in ToSet(t)} ELSE {}
        single   == IF Len(Copies(t)) = 1 THEN ToSet(t) \cup pads ELSE {}
        left     == {<<>>} \cup {<<e>> : e \in single}
                           \cup {<<[e EXCEPT !.is_encrypted = @ \/ sorts]>> : e \in single}
    IN  /\ phase = "expand" /\ ~lost /\ lost' = TRUE
        /\ \E u \in left : tables' = [tables EXCEPT ![pos] = u]
        /\ result' = [schema |-> Schema(1), rows |-> tables'[1]]
        /\ IF pos < Len(tree) THEN pos' = pos + 1 /\ UNCHANGED phase
           ELSE pos' = 1 /\ phase' = IF Len(tree) = 1 THEN "save" ELSE "align"
        /\ UNCHANGED <<query, data, attempted, dir, tree, status, output>>

-----------------------------------------------------------------------------
(* AlignConcat: one child after the other joins the accumulator. *)

KeyedChild(t) ==
    batched_map(compute_alignment_key,
                batched_linear_pass(update_copy_index, batched_map(init_copy_index, t)))

ConcatenatedSchema_left(left, right) == left     \* mutant: the schema is not extended

ConcatenatedSchema(left, right) == left \o right

AlignAndConcatenate(accumulator, child, schema, sh) ==
    LET left  == shuffle_merge_sort("JOIN_THEN_OTHER", accumulator.rows, sh)
        right == shuffle_merge_sort("ALIGNMENT_KEY", KeyedChild(child), sh)
    IN  [schema |-> ConcatenatedSchema(accumulator.schema, schema),
         rows   |-> batched_parallel_pass(concat_attributes, left, right)]

AttachChild ==
    LET order == AttachOrder(tree)
        c     == order[pos]
        accumulator == [result EXCEPT !.rows =
            SetJoinAttributesForTable(@, result.schema, tree[c].constraint.target_column)]
    IN  /\ phase = "align"
        /\ IF \/ lost /\ (result.rows # <<>> \/ tables[c] # <<>>)
              \/ Len(result.rows) # Len(tables[c])
           THEN Throw
           ELSE /\ \E sh \in Shuffles :
                     result' = AlignAndConcatenate(accumulator, ChildSide(c), Schema(c), sh)
                /\ NextRound(Len(order), "save")
                /\ UNCHANGED <<tree, tables>>

SaveResult ==
    /\ phase = "save"
    /\ IF SaveThrows(result, lost) THEN Throw
       ELSE /\ output' = save_encrypted_csv(result)
            /\ status' = "answered" /\ phase' = "ended"
            /\ UNCHANGED <<query, data, attempted, dir, pos, tree, tables, result, lost>>

EnclaveLost ==
    /\ status = "running" /\ ~lost
    /\ lost' = TRUE
    /\ UNCHANGED <<query, data, attempted, dir, phase, pos, tree, tables, result, status, output>>

Ended == phase = "ended" /\ UNCHANGED vars

Next ==
    \/ \E f \in DOMAIN data : EncryptFile(f)
    \/ EncryptTablesEnd \/ LoadTables \/ BuildTree \/ InitializeAllTables
    \/ BottomUpEdge \/ TopDownNode \/ ExpandSingleTable \/ ExpandInterrupted
    \/ AttachChild \/ SaveResult \/ EnclaveLost \/ Ended

Spec == Init /\ [][Next]_vars

-----------------------------------------------------------------------------
(* Properties. *)

IsRowOf(e, columns) ==
    /\ e.attributes \in [1..Len(columns) -> Int]
    /\ {e.join_attr, e.original_index, e.local_mult, e.final_mult, e.foreign_sum, e.copy_index}
            \subseteq -2^(IntBits - 1)..2^(IntBits - 1) - 1

(* Every variable has its type; in particular the rows of a node's table   *)
(* are as wide as its file and those of the accumulator as wide as its     *)
(* schema, in which JoinAttributeSetter looks columns up.                  *)
TypeOK ==
    /\ phase \in {"encrypt", "load", "build", "initialize", "bottom_up", "top_down", "expand",
                  "align", "save", "ended"}
    /\ status \in {"running", "answered", "failed"} /\ lost \in BOOLEAN
    /\ (phase = "ended") = (status # "running")
    /\ attempted \subseteq DOMAIN data /\ DOMAIN dir \subseteq DOMAIN data
    /\ DOMAIN tables = DOMAIN tree
    /\ \A n \in DOMAIN tables : \A i \in DOMAIN tables[n] : IsRowOf(tables[n][i], Schema(n))
    /\ \A i \in DOMAIN result.rows : IsRowOf(result.rows[i], result.schema)

TablesOf(ns) == {tree[n].table : n \in ns}

(* The join tree decides the query: it has every table of the query once,  *)
(* parents before their children, and a choice of rows satisfies the text  *)
(* exactly when it satisfies the constraints of all its edges, whichever   *)
(* side each condition was written from (join_tree_builder.cpp).           *)
EdgeAdmits(a, c) ==
    LET con == tree[c].constraint
    IN  InBand(ValueOf(data, a, con.source_table, con.source_column),
               ValueOf(data, a, con.target_table, con.target_column), con.band)

TreeDecidesTheQuery ==
    phase = "initialize" =>
        /\ TablesOf(Nodes(tree)) = ToSet(query.tables) /\ Len(tree) = Len(query.tables)
        /\ \A n \in Nodes(tree) : tree[n].parent_idx \in 0..(n - 1)
        /\ IsValidTree =>
            Matches(query, data, ToSet(query.tables)) =
                {a \in RowChoices(data, ToSet(query.tables)) :
                    \A c \in NonRoot(tree) : EdgeAdmits(a, c)}

(* The nodes whose rows are already counted in local_mult of node v. *)
Covered(v) ==
    LET order == BottomUpOrder(tree)
        done  == IF phase = "bottom_up" THEN {order[i] : i \in 1..(pos - 1)} ELSE NonRoot(tree)
    IN  {v} \cup UNION {Subtree(tree, c) : c \in Children(tree, v) \cap done}

UsesOf(matches, table, i) == Cardinality({a \in matches : a[table] = i})

(* After every turn of the bottom-up phase, local_mult of a row is the     *)
(* number of matches it has in the subtrees that its node has taken in     *)
(* (BottomUpPhase, Table::batched_linear_pass, the window functions).      *)
LocalMultIsSubtreeCount ==
    phase \in {"bottom_up", "top_down"} =>
        \A v \in Nodes(tree) :
            LET matches == Matches(query, data, TablesOf(Covered(v)))
            IN  \A i \in DOMAIN tables[v] :
                    tables[v][i].local_mult = UsesOf(matches, tree[v].table, i)

(* After a node's turn of the top-down phase, final_mult of its rows is    *)
(* the number of matches of the whole query in which the row takes part.   *)
FinalMultIsUseCount ==
    phase \in {"top_down", "expand"} =>
        LET matches == Matches(query, data, ToSet(query.tables))
            counted == IF phase = "top_down" THEN 1..(pos - 1) ELSE pos..Len(tree)
        IN  \A v \in counted : \A i \in DOMAIN tables[v] :
                tables[v][i].final_mult = UsesOf(matches, tree[v].table, i)

(* While the enclave is there, the accumulator is the result of the query  *)
(* seen through the columns of the tables attached so far: every row of    *)
(* it stands next to a copy of each child row that it matches, although    *)
(* the two sides are sorted apart (AlignConcat).                           *)
AccumulatorHoldsMatches ==
    phase \in {"align", "save"} /\ ~lost =>
        LET order    == AttachOrder(tree)
            attached == IF phase = "align" THEN {1} \cup {order[i] : i \in 1..(pos - 1)}
                        ELSE Nodes(tree)
            shown(i) == [c \in ToSet(result.schema) |->
                            result.rows[i].attributes[ColumnIndex(result.schema, c)]]
        IN  BagOf(DOMAIN result.rows, shown) = Projected(query, data, TablesOf(attached))

(* What a reader of the file sees. *)
AnswerInFile ==
    LET lines == Revealed(output)
        row(i) == [c \in ToSet(output.columns) |-> lines[i][ColumnIndex(output.columns, c)]]
    IN  BagOf(DOMAIN lines, row)

Service == INSTANCE QueryService WITH answer <- AnswerInFile

(* Every run is one of the abstract service: the file holds the query's    *)
(* answer over the directory's tables, or the run reports a failure that   *)
(* has a reason, whenever the enclave is lost.                             *)
ImplementsQueryService == Service!Spec

=============================================================================
