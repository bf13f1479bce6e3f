---------------------------- MODULE EnclaveJoin -----------------------------
(***************************************************************************)
(* ecall_run_join: the whole join inside the enclave.  The call copies and *)
(* decrypts the rows of every table, then runs four phases:                *)
(*                                                                         *)
(*   bottom_up          every non-root node in array (post-) order         *)
(*   top_down           the same edges in reverse array order              *)
(*   distribute_expand  every node's table, in array order                 *)
(*   align_concat       parents in pre-order, their children in array order*)
(*                                                                         *)
(* One action is one iteration of a phase's loop.  Any allocation of a     *)
(* phase may fail, and the call then returns an error with nothing         *)
(* streamed (which buffers are freed on the way is module EnclaveHeap).    *)
(* The result rows leave through stream_result_rows (module ResultStream). *)
(***************************************************************************)
EXTENDS JoinPhases, Bags

(* A row on the wire is [is_encrypted, attributes]; XorKey(v) is the value *)
(* under the AES-CTR key stream, an involution.                            *)
CONSTANTS
    Trees,          \* the join trees the host may pass
    TableData(_),   \* the tables it may pass with a tree: per node a sequence of rows
    XorKey(_)

VARIABLES
    tree,           \* join_tree, fixed for the call
    table_data,     \* the caller's rows, fixed for the call
    out_cols,       \* the host's map from (node, column) to result column, fixed too
    pc,             \* the phase in progress
    k,              \* loop position: a node, or a step of the attach order
    rows,           \* the writable copy: per node its rows with their scratch fields
    expanded,       \* per node its expanded table
    res,            \* the accumulated result rows of align_concat
    width,          \* columns of the accumulated result
    col_off,        \* where a node's columns start in the accumulated result
    seq,            \* align_concat's attach order
    plain,          \* history: the tables as the query sees them
    expected        \* history: the matches of the query, by the reference definition

vars == <<tree, table_data, out_cols, pc, k, rows, expanded, res, width, col_off, seq,
          plain, expected>>
input == <<tree, table_data, out_cols, plain, expected>>

N == Len(tree)

-----------------------------------------------------------------------------
(* result_layout and build_out_cols (sgx_join.cpp): the position at which  *)
(* the host expects column c of node n in a result row.                    *)
LayoutOf(tr, order) ==
    FlattenSeq([i \in DOMAIN order |-> [c \in 1..tr[order[i]].num_cols |-> <<order[i], c>>]])

result_layout_array(tr) == LayoutOf(tr, [i \in DOMAIN tr |-> i])   \* mutant: nodes as they stand

result_layout(tr) == LayoutOf(tr, <<RootOf(tr)>> \o AttachOrder(tr))

build_out_cols(tr) ==
    LET layout == result_layout(tr)
    IN  [nc \in {layout[i] : i \in DOMAIN layout} |->
            CHOOSE i \in DOMAIN layout : layout[i] = nc]

-----------------------------------------------------------------------------
(* The tables as the query sees them. *)
PlainTables(td) ==
    [n \in DOMAIN td |-> [r \in DOMAIN td[n] |->
        IF td[n][r].is_encrypted
        THEN [c \in DOMAIN td[n][r].attributes |-> XorKey(td[n][r].attributes[c])]
        ELSE td[n][r].attributes]]

Init ==
    /\ tree \in Trees
    /\ table_data \in TableData(tree)
    /\ out_cols = build_out_cols(tree)
    /\ pc = "decrypt"
    /\ k = 1
    /\ rows = <<>> /\ expanded = <<>> /\ res = <<>> /\ width = 0 /\ col_off = <<>> /\ seq = <<>>
    /\ plain = PlainTables(table_data)
    /\ expected = JoinMatches(tree, plain)

(* aes_decrypt_entry refuses a row that is not encrypted, so plaintext     *)
(* tables pass through unchanged.                                          *)
Decrypted(e) ==
    IF e.is_encrypted THEN [c \in DOMAIN e.attributes |-> XorKey(e.attributes[c])]
    ELSE e.attributes

(* Copy, decrypt and the initialisation loop at the head of bottom_up. *)
Decrypt ==
    /\ pc = "decrypt"
    /\ rows' = [n \in Nodes(tree) |->
                  [r \in DOMAIN table_data[n] |->
                      [attributes |-> Decrypted(table_data[n][r]), original_index |-> r - 1,
                       local_mult |-> 1, final_mult |-> 0, foreign_sum |-> 0]]]
    /\ pc' = "bottom_up" /\ k' = 1
    /\ UNCHANGED <<input, expanded, res, width, col_off, seq>>

(* One iteration of bottom_up's loop; the root is skipped. *)
BottomUp ==
    /\ pc = "bottom_up" /\ k <= N
    /\ \/ IsRoot(tree, k) /\ UNCHANGED rows
       \/ /\ ~IsRoot(tree, k)
          /\ LET v == tree[k].parent_idx
             IN  \E sh \in Shuffles :
                    rows' = [rows EXCEPT ![v] = compute_local_mult(@, rows[k], tree[k], sh)]
    /\ k' = k + 1
    /\ UNCHANGED <<input, pc, expanded, res, width, col_off, seq>>

(* top_down starts by giving every root row its local_mult. *)
TopDownRoot ==
    /\ pc = "bottom_up" /\ k > N
    /\ rows' = [n \in Nodes(tree) |->
                  IF IsRoot(tree, n)
                  THEN [r \in DOMAIN rows[n] |->
                          [rows[n][r] EXCEPT !.final_mult = rows[n][r].local_mult,
                                             !.foreign_sum = 0]]
                  ELSE rows[n]]
    /\ pc' = "top_down" /\ k' = N
    /\ UNCHANGED <<input, expanded, res, width, col_off, seq>>

TopDown ==
    /\ pc = "top_down" /\ k >= 1
    /\ \/ IsRoot(tree, k) /\ UNCHANGED rows
       \/ /\ ~IsRoot(tree, k)
          /\ \E sh \in Shuffles :
                rows' = [rows EXCEPT
                    ![k] = compute_final_mult(rows[tree[k].parent_idx], @, tree[k], sh)]
    /\ k' = k - 1
    /\ UNCHANGED <<input, pc, expanded, res, width, col_off, seq>>

ExpandStart ==
    /\ pc = "top_down" /\ k < 1
    /\ pc' = "expand" /\ k' = 1
    /\ UNCHANGED <<input, rows, expanded, res, width, col_off, seq>>

(* expand_single_table for node k.  A negative total, cast to size_t, asks *)
(* for more memory than there is, and only OutOfMemory remains.            *)
Expand ==
    /\ pc = "expand" /\ k <= N
    /\ OutputSize(rows[k]) >= 0
    /\ \E sh \in Shuffles : expanded' = Append(expanded, expand_single_table(rows[k], sh))
    /\ k' = k + 1
    /\ UNCHANGED <<input, pc, rows, res, width, col_off, seq>>

(* The columns of the result once node c is attached. *)
WidthWith(c) == width + tree[c].num_cols

(* The result starts as the root's table, in the narrow layout. *)
AlignStart ==
    /\ pc = "expand" /\ k > N
    /\ res' = LET root == expanded[RootOf(tree)]
              IN  [i \in DOMAIN root |-> root[i].attributes]
    /\ width' = tree[RootOf(tree)].num_cols
    /\ col_off' = [n \in Nodes(tree) |-> 0]
    /\ expanded' = [expanded EXCEPT ![RootOf(tree)] = <<>>]
    /\ seq' = AttachOrder(tree)
    /\ rows' = <<>>
    /\ pc' = "align" /\ k' = 1
    /\ UNCHANGED input

Attach ==
    /\ pc = "align" /\ k <= Len(seq)
    /\ LET c == seq[k]
       IN  /\ \E sh \in Shuffles :
                res' = attach_child(res, expanded[c],
                                    col_off[tree[c].parent_idx] + tree[c].parent_join_col, sh)
           /\ col_off' = [col_off EXCEPT ![c] = width]
           /\ width' = WidthWith(c)
           /\ expanded' = [expanded EXCEPT ![c] = <<>>]
    /\ k' = k + 1
    /\ UNCHANGED <<input, pc, rows, seq>>

Finish ==
    /\ pc = "align" /\ k > Len(seq)
    /\ pc' = "stream"
    /\ UNCHANGED <<input, k, rows, expanded, res, width, col_off, seq>>

(* An allocation of the current phase fails: everything is released and    *)
(* the call returns SGX_ERROR_OUT_OF_MEMORY.                               *)
OutOfMemory ==
    /\ pc \in {"decrypt", "bottom_up", "top_down", "expand", "align"}
    /\ pc' = "failed"
    /\ rows' = <<>> /\ expanded' = <<>> /\ res' = <<>>
    /\ UNCHANGED <<input, k, width, col_off, seq>>

Ended == pc \in {"stream", "failed"} /\ UNCHANGED vars

Next ==
    \/ Decrypt \/ BottomUp \/ TopDownRoot \/ TopDown \/ ExpandStart \/ Expand
    \/ AlignStart \/ Attach \/ Finish \/ OutOfMemory \/ Ended

Spec == Init /\ [][Next]_vars

-----------------------------------------------------------------------------
(* Properties *)

Fits == Cardinality(expected) < 2^(IntBits - 1)

(* Type invariant. *)
TypeOK ==
    /\ pc \in {"decrypt", "bottom_up", "top_down", "expand", "align", "stream", "failed"}
    /\ k \in 0..(N + 1)
    /\ \A n \in DOMAIN rows : \A r \in DOMAIN rows[n] :
          /\ rows[n][r].original_index = r - 1
          /\ \A f \in {"local_mult", "final_mult", "foreign_sum"} :
                rows[n][r][f] \in (-(2^(IntBits - 1)))..(2^(IntBits - 1) - 1)
    /\ \A i \in DOMAIN res : Len(res[i]) = width
    /\ width \in Nat

(* While bottom_up has attached the children below k to a row, its         *)
(* local_mult is the number of ways to match it with those subtrees (the   *)
(* contract of compute_local_mult).  Counts are compared modulo the word.  *)
LocalMultCountsSubtrees ==
    pc \in {"bottom_up", "top_down", "expand"} =>
        \A n \in Nodes(tree) : \A r \in DOMAIN rows[n] :
            LET done  == {c \in Children(tree, n) : pc # "bottom_up" \/ c < k}
                below == {n} \cup UNION {Subtree(tree, c) : c \in done}
                ways  == {a \in Matches(tree, plain, below) : a[n] = r}
            IN  rows[n][r].local_mult = Int32(Cardinality(ways))

(* After its top-down step a row's final_mult is the number of output      *)
(* tuples that use it (top_down.h), whatever order the sorts left ties in  *)
(* and however the shares were divided.                                    *)
FinalMultCountsUses ==
    (pc \in {"top_down", "expand"} /\ Fits) =>
        \A n \in Nodes(tree) :
            (pc = "expand" \/ n > k \/ IsRoot(tree, n)) =>
                \A r \in DOMAIN rows[n] :
                    rows[n][r].final_mult =
                        Cardinality({a \in expected : a[n] = r})

(* The nodes whose columns are in the accumulated result. *)
Attached == {RootOf(tree)} \cup {seq[i] : i \in 1..(k - 1)}

(* What the host reads of a result row, through result_layout, for the     *)
(* attached nodes; and the same tuple for an assignment of rows.           *)
RowByNode(row) == [n \in Attached |-> [c \in 1..tree[n].num_cols |-> row[out_cols[<<n, c>>]]]]
TupleByNode(a) == [n \in Attached |-> plain[n][a[n]]]

(* Throughout align_concat the accumulated rows are the join restricted to *)
(* the attached nodes: each partial tuple occurs as often as the query has *)
(* matches that extend it, so later children find exactly the copies they  *)
(* must pair with; and the columns are where the host looks for them.      *)
AccumulatorIsPartialJoin ==
    (pc \in {"align", "stream"} /\ Fits) =>
        LET tuples == {TupleByNode(a) : a \in expected}
        IN  /\ Len(res) = Cardinality(expected)
            /\ \A t \in tuples :
                  Cardinality({i \in DOMAIN res : RowByNode(res[i]) = t})
                    = Cardinality({a \in expected : TupleByNode(a) = t})

(* An infinite side of a condition leaves it unbounded for every attribute *)
(* of the valid range: bottom_up counts each child row that the condition  *)
(* admits (two-node trees).                                                *)
InfiniteSideIsUnbounded ==
    (pc = "bottom_up" /\ k > 1 /\ N = 2) =>
        \A r \in DOMAIN rows[2] :
            rows[2][r].local_mult =
                Cardinality({c \in DOMAIN rows[1] : EdgeHolds(tree, plain, <<c, r>>, 1)})

-----------------------------------------------------------------------------
(* The service the call provides, without its phases: one atomic answer.   *)
Answer ==
    LET tuple(i) == [n \in Nodes(tree) |-> [c \in 1..tree[n].num_cols |-> res[i][out_cols[<<n, c>>]]]]
    IN  IF pc = "stream"
        THEN [t \in {tuple(i) : i \in DOMAIN res} |->
                Cardinality({i \in DOMAIN res : tuple(i) = t})]
        ELSE EmptyBag

Service == INSTANCE JoinService WITH
    tables <- plain,
    status <- CASE pc = "stream" -> "answered" [] pc = "failed" -> "failed" [] OTHER -> "running",
    answer <- Answer

(* The enclave call implements the one-step join service.                  *)
ImplementsJoinService == Service!Spec

=============================================================================
