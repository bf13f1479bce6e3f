---------------------------- MODULE EnclaveHeap -----------------------------
(***************************************************************************)
(* The buffers of ecall_run_join: every mt_alloc and mt_free of the call,  *)
(* of the phases under it and of the oblivious sort under those, on the    *)
(* way to success and on every way out of a failure.  What the buffers     *)
(* hold is module EnclaveJoin; here a table, an array to be sorted or a    *)
(* result may be empty, of one row, a power of two or of any other length, *)
(* whatever the others are.                                                *)
(*                                                                         *)
(* The allocator hands out the lowest free block, so that a pointer left   *)
(* dangling soon points to a block that someone else owns.                 *)
(***************************************************************************)
EXTENDS JoinTree

CONSTANT Trees          \* the join trees the host may pass

(* A tree has a node, one of them the root, and every child that is to be  *)
(* attached is a node.                                                     *)
ASSUME TreesAssumption ==
    \A tr \in Trees :
        /\ Len(tr) \in Nat \ {0}
        /\ RootOf(tr) \in Nodes(tr)
        /\ \A j \in 1..(Len(tr) - 1) : AttachOrder(tr)[j] \in Nodes(tr)

VARIABLES
    tree,       \* fixed for the call
    pc,         \* where the call is
    phase,      \* the phase an edge is worked on in: "bottom_up" or "top_down"
    k,          \* loop position of the phase
    sorts,      \* sorts done in the current edge, or child
    ret, ok,    \* ej_osort_g: where it returns to, and what it returned
    h,          \* the heap
    status,     \* what the call returns
    faults      \* history: what has failed, of the kinds below

vars == <<tree, pc, phase, k, sorts, ret, ok, h, status, faults>>

N == Len(tree)

-----------------------------------------------------------------------------
(* mem_track.c.  A heap is the set of live blocks, the pointer variables,  *)
(* the count of mt_live_bytes (each block counts once), and whether free   *)
(* was ever given something that is not a live block.                      *)

NULL == 0
WILD == -1              \* a pointer nobody has set

Ptr(name) == <<name, 0>>
Rows(n) == <<"expanded", n>>        \* expanded[n].rows

Pointers ==
    {Ptr(name) : name \in {"rows", "comb", "buf", "bits", "expanded", "work", "seq", "col_off",
                           "res", "chunk"}}
    \cup {Rows(n) : n \in Nodes(tree)}

Fresh(heap) == CHOOSE b \in 1..(Cardinality(heap.live) + 1) :
                 b \notin heap.live /\ \A c \in 1..(b - 1) : c \in heap.live

Assign(heap, p, b) ==
    [live |-> heap.live, ptr |-> [heap.ptr EXCEPT ![p] = b], g_live |-> heap.g_live, bad |-> heap.bad]

mt_alloc(heap, p) ==
    [live   |-> heap.live \cup {Fresh(heap)},
     ptr    |-> [heap.ptr EXCEPT ![p] = Fresh(heap)],
     g_live |-> heap.g_live + 1,
     bad    |-> heap.bad]

(* The buffers of pointers ps are given to free, one after the other; the  *)
(* pointers keep what they hold.                                           *)
FreeAll(heap, ps) ==
    LET blocks == {heap.ptr[p] : p \in ps} \ {NULL}
        twice  == \E p, q \in ps : p # q /\ heap.ptr[p] = heap.ptr[q] /\ heap.ptr[p] # NULL
    IN  [live   |-> heap.live \ blocks,
         ptr    |-> heap.ptr,
         g_live |-> heap.g_live - Cardinality(blocks \cap heap.live),
         bad    |-> heap.bad \/ twice \/ ~(blocks \subseteq heap.live)]

mt_free(heap, p) == FreeAll(heap, {p})

Tables(n) == {Rows(m) : m \in 1..n}

(* free_expanded of the first n tables: their pointers are cleared. *)
free_expanded(heap, n) ==
    LET freed == FreeAll(heap, Tables(n))
    IN  [live   |-> freed.live,
         ptr    |-> [p \in Pointers |-> IF p \in Tables(n) THEN NULL ELSE heap.ptr[p]],
         g_live |-> freed.g_live,
         bad    |-> freed.bad]

-----------------------------------------------------------------------------
Init ==
    /\ tree \in Trees
    /\ pc = "start" /\ phase = "bottom_up" /\ k = 1 /\ sorts = 0 /\ ret = "start" /\ ok = TRUE
    /\ h = [live |-> {}, ptr |-> [p \in Pointers |-> WILD], g_live |-> 0, bad |-> FALSE]
    /\ status = "running"
    /\ faults = {}

Return(code, heap) == pc' = "returned" /\ status' = code /\ h' = heap

(* What can fail: an allocation ("memory"), the random key or a key stream *)
(* ("cipher"), the decryption of a row of the caller ("decryption").       *)
Fault(kind) == faults' = faults \cup {kind}

(* The copy of the caller's rows, which are decrypted in place.  The       *)
(* status of a decryption is not looked at: a row that it fails on stays   *)
(* as it is, and the call goes on with its ciphertext.                     *)
Start ==
    /\ pc = "start"
    /\ \/ /\ pc' = "node" /\ h' = mt_alloc(h, Ptr("rows"))
          /\ UNCHANGED faults \/ Fault("decryption")
          /\ UNCHANGED status
       \/ Return("SGX_ERROR_OUT_OF_MEMORY", h) /\ Fault("memory")
    /\ UNCHANGED <<tree, phase, k, sorts, ret, ok>>

-----------------------------------------------------------------------------
(* ej_osort_g: the padded copy if the length is no power of two, and the   *)
(* bit stream of the shuffle.                                              *)

CallSort(from) == pc' = "sort" /\ ret' = from

SortNothing ==          \* at most one element
    /\ pc = "sort"
    /\ pc' = ret /\ ok' = TRUE
    /\ UNCHANGED <<tree, phase, k, sorts, ret, h, status, faults>>

SortInPlace ==
    /\ pc = "sort"
    /\ pc' = "bits" /\ h' = Assign(h, Ptr("buf"), NULL)
    /\ UNCHANGED <<tree, phase, k, sorts, ret, ok, status, faults>>

SortPadded ==
    /\ pc = "sort"
    /\ \/ pc' = "bits" /\ h' = mt_alloc(h, Ptr("buf")) /\ UNCHANGED <<ok, faults>>
       \/ pc' = ret /\ ok' = FALSE /\ UNCHANGED h /\ Fault("memory")
    /\ UNCHANGED <<tree, phase, k, sorts, ret, status>>

(* What is left of the sort when its bit stream could not be made. *)
SortUnwind_leak(heap) == heap               \* mutant: the padded copy is kept

SortUnwind(heap) == mt_free(heap, Ptr("buf"))

Bits ==
    /\ pc = "bits"
    /\ pc' = ret
    /\ LET withBits == mt_alloc(h, Ptr("bits"))
       IN  \/ /\ ok' = TRUE             \* shuffle, release the bits, sort
              /\ h' = FreeAll(withBits, {Ptr("bits"), Ptr("buf")})
              /\ UNCHANGED faults
           \/ /\ ok' = FALSE            \* no random key, or no key stream
              /\ h' = SortUnwind(mt_free(withBits, Ptr("bits")))
              /\ Fault("cipher")
           \/ /\ ok' = FALSE            \* no memory
              /\ h' = SortUnwind(h)
              /\ Fault("memory")
    /\ UNCHANGED <<tree, phase, k, sorts, ret, status>>

-----------------------------------------------------------------------------
(* bottom_up and top_down: one array of records per edge, sorted thrice.   *)

NextNode == k' = k + 1 /\ pc' = "node"

(* top_down takes the nodes in reverse. *)
NodeAt == IF phase = "top_down" THEN N + 1 - k ELSE k

Node ==
    /\ pc = "node" /\ k <= N
    /\ \/ /\ NextNode                   \* the root, or an empty table
          /\ UNCHANGED <<sorts, ret, h, status, faults>>
       \/ /\ ~IsRoot(tree, NodeAt)
          /\ h' = mt_alloc(h, Ptr("comb"))
          /\ CallSort("edge") /\ sorts' = 1
          /\ UNCHANGED <<k, status, faults>>
       \/ /\ ~IsRoot(tree, NodeAt)
          /\ Return("SGX_ERROR_OUT_OF_MEMORY", mt_free(h, Ptr("rows"))) /\ Fault("memory")
          /\ UNCHANGED <<k, sorts, ret>>
    /\ UNCHANGED <<tree, phase, ok>>

SortFailed_ignored == FALSE             \* mutant: the sort's result is not looked at

SortFailed == ~ok

Edge ==
    /\ pc = "edge"
    /\ \/ /\ ~SortFailed /\ sorts < 3
          /\ CallSort("edge") /\ sorts' = sorts + 1
          /\ UNCHANGED <<k, h, status>>
       \/ /\ ~SortFailed /\ sorts = 3
          /\ h' = mt_free(h, Ptr("comb"))
          /\ NextNode
          /\ UNCHANGED <<sorts, ret, status>>
       \/ /\ SortFailed
          /\ Return("SGX_ERROR_OUT_OF_MEMORY", FreeAll(h, {Ptr("comb"), Ptr("rows")}))
          /\ UNCHANGED <<k, sorts, ret>>
    /\ UNCHANGED <<tree, phase, ok, faults>>

BottomUpDone ==
    /\ pc = "node" /\ k > N /\ phase = "bottom_up"
    /\ phase' = "top_down" /\ k' = 1
    /\ UNCHANGED <<tree, pc, sorts, ret, ok, h, status, faults>>

(* Then the array of expanded tables, whose elements nobody has set. *)
TopDownDone ==
    /\ pc = "node" /\ k > N /\ phase = "top_down"
    /\ \/ /\ h' = mt_alloc(h, Ptr("expanded"))
          /\ pc' = "expand" /\ k' = 1
          /\ UNCHANGED <<status, faults>>
       \/ /\ Return("SGX_ERROR_OUT_OF_MEMORY", mt_free(h, Ptr("rows"))) /\ Fault("memory")
          /\ UNCHANGED k
    /\ UNCHANGED <<tree, phase, sorts, ret, ok>>

-----------------------------------------------------------------------------
(* distribute_expand. *)

NextTable == k' = k + 1 /\ pc' = "expand"

(* distribute_expand gives up at table k: those before it are released,    *)
(* then the caller's two buffers.                                          *)
ExpandedSoFar == k - 1

ExpandFails(heap) ==
    Return("SGX_ERROR_OUT_OF_MEMORY",
           FreeAll(free_expanded(heap, ExpandedSoFar), {Ptr("expanded"), Ptr("rows")}))

Expand ==
    /\ pc = "expand" /\ k <= N
    /\ LET cleared == Assign(h, Rows(k), NULL)
           withWork == mt_alloc(cleared, Ptr("work"))
       IN  \/ /\ h' = cleared                               \* an empty table
              /\ NextTable /\ UNCHANGED <<ret, status, faults>>
           \/ /\ h' = mt_free(withWork, Ptr("work"))        \* no row survives
              /\ NextTable /\ UNCHANGED <<ret, status, faults>>
           \/ /\ h' = withWork
              /\ CallSort("distribute")
              /\ UNCHANGED <<k, status, faults>>
           \/ /\ ExpandFails(cleared) /\ Fault("memory")
              /\ UNCHANGED <<k, ret>>
    /\ UNCHANGED <<tree, phase, sorts, ok>>

Distribute ==
    /\ pc = "distribute"
    /\ \/ /\ ~SortFailed
          /\ h' = mt_free(mt_alloc(h, Rows(k)), Ptr("work"))
          /\ NextTable /\ UNCHANGED <<status, faults>>
       \/ /\ ~SortFailed                                    \* no memory for the slots
          /\ ExpandFails(mt_free(h, Ptr("work"))) /\ Fault("memory")
          /\ UNCHANGED k
       \/ /\ SortFailed
          /\ ExpandFails(mt_free(h, Ptr("work")))
          /\ UNCHANGED <<k, faults>>
    /\ UNCHANGED <<tree, phase, sorts, ret, ok>>

ExpandDone ==
    /\ pc = "expand" /\ k > N
    /\ h' = mt_free(h, Ptr("rows"))
    /\ pc' = "align" /\ k' = 1
    /\ UNCHANGED <<tree, phase, sorts, ret, ok, status, faults>>

-----------------------------------------------------------------------------
(* align_concat. *)

AlignFails(heap) ==
    Return("SGX_ERROR_OUT_OF_MEMORY", mt_free(free_expanded(heap, N), Ptr("expanded")))

(* Both allocations are made before either is looked at. *)
AlignStart ==
    /\ pc = "align"
    /\ \E seqOk, colOk \in BOOLEAN :
          LET h1 == IF seqOk THEN mt_alloc(h, Ptr("seq")) ELSE Assign(h, Ptr("seq"), NULL)
              h2 == IF colOk THEN mt_alloc(h1, Ptr("col_off")) ELSE Assign(h1, Ptr("col_off"), NULL)
          IN  \/ /\ seqOk /\ colOk
                 /\ h' = h2 /\ pc' = "root"
                 /\ UNCHANGED <<status, faults>>
              \/ /\ ~(seqOk /\ colOk)
                 /\ AlignFails(FreeAll(h2, {Ptr("seq"), Ptr("col_off")})) /\ Fault("memory")
    /\ UNCHANGED <<tree, phase, k, sorts, ret, ok>>

(* What align_concat has of its own when it gives up. *)
AlignUnwind(heap) == AlignFails(FreeAll(heap, {Ptr("res"), Ptr("seq"), Ptr("col_off")}))

(* The root's table becomes the result, and is copied to the narrow layout *)
(* (trow_table_to_rrow).                                                   *)
AlignRoot ==
    /\ pc = "root"
    /\ LET root  == Rows(RootOf(tree))
           taken == Assign(Assign(h, Ptr("res"), h.ptr[root]), root, NULL)
           copy  == Fresh(taken)
       IN  \/ /\ h' = Assign(mt_free(mt_alloc(taken, Ptr("buf")), Ptr("res")), Ptr("res"), copy)
              /\ pc' = "child" /\ k' = 1
              /\ UNCHANGED <<status, faults>>
           \/ /\ AlignUnwind(taken) /\ Fault("memory")
              /\ UNCHANGED k
    /\ UNCHANGED <<tree, phase, sorts, ret, ok>>

ChildAt == AttachOrder(tree)[k]

AttachStart ==
    /\ pc = "child" /\ k < N
    /\ CallSort("attach") /\ sorts' = 1
    /\ UNCHANGED <<tree, phase, k, ok, h, status, faults>>

(* The child's table now belongs to nobody. *)
Disowned_kept(heap, c) == heap          \* mutant: the pointer stays

Disowned(heap, c) == Assign(heap, Rows(c), NULL)

(* The result is sorted, then the child's table, then both are merged. *)
Attach ==
    /\ pc = "attach"
    /\ \/ /\ ~SortFailed /\ sorts = 1
          /\ CallSort("attach") /\ sorts' = 2
          /\ UNCHANGED <<k, h, status, faults>>
       \/ /\ ~SortFailed /\ sorts = 2
          /\ LET merged == Fresh(h)
                 freed  == FreeAll(mt_alloc(h, Ptr("buf")), {Ptr("res"), Rows(ChildAt)})
             IN  h' = Assign(Disowned(freed, ChildAt), Ptr("res"), merged)
          /\ pc' = "child" /\ k' = k + 1
          /\ UNCHANGED <<sorts, ret, status, faults>>
       \/ /\ ~SortFailed /\ sorts = 2                       \* no memory to merge
          /\ AlignUnwind(h) /\ Fault("memory")
          /\ UNCHANGED <<k, sorts, ret>>
       \/ /\ SortFailed
          /\ AlignUnwind(h)
          /\ UNCHANGED <<k, sorts, ret, faults>>
    /\ UNCHANGED <<tree, phase, ok>>

AlignDone ==
    /\ pc = "child" /\ k = N
    /\ h' = mt_free(free_expanded(FreeAll(h, {Ptr("seq"), Ptr("col_off")}), N), Ptr("expanded"))
    /\ pc' = "stream"
    /\ UNCHANGED <<tree, phase, k, sorts, ret, ok, status, faults>>

-----------------------------------------------------------------------------
(* stream_result_rows and the end of the call. *)

StreamStart ==
    /\ pc = "stream"
    /\ \/ /\ h' = mt_alloc(h, Ptr("chunk")) /\ pc' = "rows"
          /\ UNCHANGED <<status, faults>>
       \/ /\ Return("SGX_ERROR_OUT_OF_MEMORY", mt_free(h, Ptr("res"))) /\ Fault("memory")
    /\ UNCHANGED <<tree, phase, k, sorts, ret, ok>>

StreamRows ==
    /\ pc = "rows"
    /\ \/ Return("SGX_SUCCESS", FreeAll(h, {Ptr("chunk"), Ptr("res")})) /\ UNCHANGED faults
       \/ Return("SGX_ERROR_UNEXPECTED", FreeAll(h, {Ptr("chunk"), Ptr("res")})) /\ Fault("cipher")
    /\ UNCHANGED <<tree, phase, k, sorts, ret, ok>>

Ended == pc = "returned" /\ UNCHANGED vars

Next ==
    \/ Start \/ SortNothing \/ SortInPlace \/ SortPadded \/ Bits
    \/ Node \/ Edge \/ BottomUpDone \/ TopDownDone
    \/ Expand \/ Distribute \/ ExpandDone
    \/ AlignStart \/ AlignRoot \/ AttachStart \/ Attach \/ AlignDone
    \/ StreamStart \/ StreamRows \/ Ended

Spec == Init /\ [][Next]_vars

-----------------------------------------------------------------------------
(* Properties *)

(* Type invariant. *)
TypeOK ==
    /\ pc \in {"start", "node", "edge", "sort", "bits", "expand", "distribute", "align", "root",
               "child", "attach", "stream", "rows", "returned"}
    /\ k \in 1..(N + 1)
    /\ h.live \subseteq Nat \ {0}
    /\ \A p \in Pointers : h.ptr[p] \in Nat \cup {WILD}
    /\ faults \subseteq {"memory", "cipher", "decryption"}

(* mem_track.h:41: no tracked byte is live when the call has returned,     *)
(* with success or after a failure anywhere.                               *)
NothingLeaks == pc = "returned" => h.live = {} /\ h.g_live = 0

(* The code that owns the buffers: a sort works for its caller. *)
Place == IF pc \in {"sort", "bits"} THEN ret ELSE pc

(* The buffers that the code at a place reads or writes. *)
InUse(at) ==
    CASE at = "node" -> {Ptr("rows")}
      [] at = "edge" -> {Ptr("rows"), Ptr("comb")}
      [] at = "expand" -> {Ptr("rows"), Ptr("expanded")}
      [] at = "distribute" -> {Ptr("rows"), Ptr("expanded"), Ptr("work")}
      [] at = "align" -> {Ptr("expanded")}
      [] at = "root" -> {Ptr("expanded"), Ptr("seq"), Ptr("col_off")}
      [] at \in {"child", "attach"} -> {Ptr("expanded"), Ptr("seq"), Ptr("col_off"), Ptr("res")}
      [] at = "stream" -> {Ptr("res")}
      [] at = "rows" -> {Ptr("res"), Ptr("chunk")}
      [] OTHER -> {}

(* Those that may hold a buffer there: a table without rows has none, nor  *)
(* has a sort in place.                                                    *)
Held(at) ==
    CASE at \in {"expand", "distribute"} -> Tables(k - 1)
      [] at \in {"align", "root", "child", "attach"} -> Tables(N)
      [] OTHER -> {}

Padded == IF pc = "bits" THEN {Ptr("buf")} ELSE {}

Owners == InUse(Place) \cup Held(Place) \cup Padded

(* Every buffer in use is live, and every live buffer has one owner.       *)
OneOwnerEach ==
    /\ \A p \in InUse(Place) : h.ptr[p] \in h.live
    /\ \A p \in Owners : h.ptr[p] \in h.live \cup {NULL}
    /\ \A p, q \in Owners : h.ptr[p] = h.ptr[q] => p = q \/ h.ptr[p] = NULL
    /\ \A b \in h.live : \E p \in Owners : h.ptr[p] = b

(* No buffer is released twice and no pointer that was never set is        *)
(* released, however the call ends.                                        *)
NoBadFree == ~h.bad

(* At every point of the call, and on every way out of a failure, a live   *)
(* buffer belongs to exactly one of the pointers that the code will still  *)
(* release, and nothing was released wrongly: what moving a buffer from    *)
(* one owner to another (attach_child, align_concat) must keep.            *)
HeapInvariant == TypeOK /\ NoBadFree /\ OneOwnerEach

(* What the call has been told of and acts on. *)
Noticed == faults \ {"decryption"}

(* The call reports success exactly when no allocation, key or key stream  *)
(* failed on the way, in whatever phase and however deep under it, and     *)
(* blames the cipher only when it was the cipher.  The decryption of the   *)
(* caller's rows is the one failure that is never reported: a call in      *)
(* which nothing else fails succeeds over the rows it could not read.      *)
FailureIsReported ==
    pc = "returned" =>
        /\ status = "SGX_SUCCESS" <=> Noticed = {}
        /\ status = "SGX_ERROR_UNEXPECTED" => Noticed = {"cipher"}

=============================================================================
