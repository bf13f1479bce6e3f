------------------------- MODULE EnclaveHeapProofs --------------------------
(***************************************************************************)
(* The buffers of a call, for every join tree: each live block has exactly *)
(* one owner among the pointers that the code at the current place still   *)
(* releases, so that the call returns, with or without success, when       *)
(* nothing is live.                                                        *)
(*                                                                         *)
(* The argument is about ownership.  Sound(heap, U, S) says that the       *)
(* pointers of S own the live blocks, one each, and that those of U have   *)
(* one; every operation of the code on the heap takes a sound heap to a    *)
(* sound heap with an owner more or less (Allocation, Release, ...), and   *)
(* the invariant says which pointers are the owners at each place.         *)
(***************************************************************************)
EXTENDS EnclaveHeap, FiniteSetTheorems, TLAPS

-----------------------------------------------------------------------------
(* The inductive invariant. *)

Places == {"start", "node", "edge", "expand", "distribute", "align", "root",
           "child", "attach", "stream", "rows", "returned"}

(* The pointers of S own the live blocks, those of U have one, and the     *)
(* heap is well formed.                                                    *)
Sound(heap, U, S) ==
    /\ heap.live \subseteq Nat \ {0}
    /\ IsFiniteSet(heap.live)
    /\ heap.g_live = Cardinality(heap.live)
    /\ heap.ptr \in [Pointers -> Nat \cup {WILD}]
    /\ ~heap.bad
    /\ S \subseteq Pointers
    /\ U \subseteq S
    /\ \A p \in U : heap.ptr[p] \in heap.live
    /\ \A p \in S : heap.ptr[p] \in heap.live \cup {NULL}
    /\ \A p, q \in S : heap.ptr[p] = heap.ptr[q] => p = q \/ heap.ptr[p] = NULL
    /\ \A b \in heap.live : \E p \in S : heap.ptr[p] = b

(* Where the call is. *)
Control ==
    /\ tree \in Trees
    /\ pc \in Places \cup {"sort", "bits"}
    /\ pc \in {"sort", "bits"} => ret \in {"edge", "distribute", "attach"}
    /\ k \in 1..(N + 1)
    /\ Place \in {"edge", "distribute", "child"} => k <= N
    /\ Place = "attach" => k < N

(* What has failed so far, and who knows. *)
Failure ==
    /\ ok \in BOOLEAN
    /\ faults \subseteq {"memory", "cipher", "decryption"}
    /\ pc \notin {"edge", "distribute", "attach", "returned"} => Noticed = {}
    /\ pc \in {"edge", "distribute", "attach"} => (ok <=> Noticed = {})
    /\ FailureIsReported

Ownership == Sound(h, InUse(Place), Owners)

IInv == Control /\ Failure /\ Ownership

-----------------------------------------------------------------------------
(* Pointers. *)

(* A set of numbers that is not empty has a smallest one. *)
LEMMA Smallest ==
    ASSUME NEW T, T \subseteq Nat, T # {}
    PROVE  \E x \in T : \A y \in T : x <= y
<1>1. \E x \in T : \A y \in T : ~ (<<y, x>> \in OpToRel(<, Nat))
    BY NatLessThanWellFounded, WFMin
<1>2. \A x, y \in T : ~ (<<y, x>> \in OpToRel(<, Nat)) => x <= y
    <2> SUFFICES ASSUME NEW x \in T, NEW y \in T, ~ (x <= y)
                 PROVE  <<y, x>> \in OpToRel(<, Nat)
        OBVIOUS
    <2>1. y < x /\ <<y, x>> \in Nat \X Nat
        OBVIOUS
    <2> QED
        BY <2>1 DEF OpToRel
<1> QED
    BY <1>1, <1>2

(* The allocator finds a free block. *)
LEMMA FreshIsFree ==
    ASSUME NEW heap, heap.live \subseteq Nat \ {0}, IsFiniteSet(heap.live)
    PROVE  Fresh(heap) \in Nat \ {0} /\ Fresh(heap) \notin heap.live
<1> DEFINE top == Cardinality(heap.live) + 1
           free == {b \in 1..top : b \notin heap.live}
<1>1. Cardinality(heap.live) \in Nat
    BY FS_CardinalityType
<1>2. free # {}
    <2> SUFFICES ASSUME 1..top \subseteq heap.live PROVE FALSE
        OBVIOUS
    <2>1. Cardinality(1..top) <= Cardinality(heap.live)
        BY FS_Subset
    <2>2. Cardinality(1..top) = top
        BY <1>1, FS_Interval
    <2> QED
        BY <1>1, <2>1, <2>2
<1>3. PICK x \in free : \A y \in free : x <= y
    <2>1. free \subseteq Nat
        BY <1>1
    <2> HIDE DEF free
    <2> QED
        BY <1>2, <2>1, Smallest
<1>4. x \in 1..top /\ x \notin heap.live /\ \A c \in 1..(x - 1) : c \in heap.live
    <2>1. ASSUME NEW c \in 1..(x - 1), c \notin heap.live
          PROVE  FALSE
        BY <1>1, <1>3, <2>1
    <2> QED
        BY <1>3, <2>1
<1>5. Fresh(heap) \in 1..top /\ Fresh(heap) \notin heap.live
    BY <1>4 DEF Fresh
<1> QED
    BY <1>1, <1>5

(* Different names and different tables are different pointers. *)
LEMMA Distinct ==
    /\ \A x, y : Ptr(x) = Ptr(y) => x = y
    /\ \A m, n : Rows(m) = Rows(n) => m = n
    /\ \A x : \A n \in Nat \ {0} : Ptr(x) # Rows(n)
BY DEF Ptr, Rows

(* The pointers of the first n tables. *)
LEMMA TablePointers ==
    ASSUME NEW n \in Nat
    PROVE  /\ \A x : Ptr(x) \notin Tables(n)
           /\ Rows(n + 1) \notin Tables(n)
           /\ Tables(n + 1) = Tables(n) \cup {Rows(n + 1)}
           /\ Tables(0) = {}
           /\ N \in Nat /\ n <= N => Tables(n) \subseteq Pointers /\ Tables(n) \subseteq Tables(N)
<1>1. \A x : Ptr(x) \notin Tables(n)
    BY Distinct DEF Tables
<1>2. Rows(n + 1) \notin Tables(n)
    BY Distinct DEF Tables
<1>3. Tables(n + 1) = Tables(n) \cup {Rows(n + 1)}
    <2>1. 1..(n + 1) = 1..n \cup {n + 1}
        OBVIOUS
    <2> QED
        BY <2>1 DEF Tables
<1>4. Tables(0) = {}
    BY DEF Tables
<1>5. N \in Nat /\ n <= N => Tables(n) \subseteq Pointers /\ Tables(n) \subseteq Tables(N)
    BY DEF Tables, Pointers, Nodes, N
<1> QED
    BY <1>1, <1>2, <1>3, <1>4, <1>5

(* The pointers that the code has by name. *)
LEMMA NamedPointers ==
    /\ Ptr("rows") \in Pointers /\ Ptr("comb") \in Pointers /\ Ptr("buf") \in Pointers
    /\ Ptr("bits") \in Pointers /\ Ptr("expanded") \in Pointers /\ Ptr("work") \in Pointers
    /\ Ptr("seq") \in Pointers /\ Ptr("col_off") \in Pointers /\ Ptr("res") \in Pointers
    /\ Ptr("chunk") \in Pointers
    /\ \A n \in Nodes(tree) : Rows(n) \in Pointers
BY DEF Pointers

-----------------------------------------------------------------------------
(* What the operations on the heap do to ownership. *)

(* mt_alloc: the pointer owns the block it gets. *)
LEMMA Allocation ==
    ASSUME NEW heap, NEW U, NEW S, Sound(heap, U, S), NEW p \in Pointers, p \notin S
    PROVE  Sound(mt_alloc(heap, p), U \cup {p}, S \cup {p})
<1> DEFINE b == Fresh(heap)
           new == mt_alloc(heap, p)
<1>1. b \in Nat \ {0} /\ b \notin heap.live
    BY FreshIsFree DEF Sound
<1>2. new.live = heap.live \cup {b} /\ new.ptr = [heap.ptr EXCEPT ![p] = b]
      /\ new.g_live = heap.g_live + 1 /\ new.bad = heap.bad
    BY DEF mt_alloc
<1>3. IsFiniteSet(heap.live \cup {b}) /\ Cardinality(heap.live \cup {b}) = Cardinality(heap.live) + 1
    <2>1. IsFiniteSet(heap.live)
        BY DEF Sound
    <2> HIDE DEF b
    <2> QED
        BY <1>1, <2>1, FS_AddElement
<1>4. \A q \in Pointers : new.ptr[q] = IF q = p THEN b ELSE heap.ptr[q]
    BY <1>2 DEF Sound
<1>5. new.ptr \in [Pointers -> Nat \cup {WILD}]
    BY <1>1, <1>2 DEF Sound
<1> HIDE DEF b, new
<1>6. \A q \in U \cup {p} : new.ptr[q] \in new.live
    BY <1>2, <1>4 DEF Sound
<1>7. \A q \in S \cup {p} : new.ptr[q] \in new.live \cup {NULL}
    BY <1>2, <1>4 DEF Sound
<1>8. \A q, r \in S \cup {p} : new.ptr[q] = new.ptr[r] => q = r \/ new.ptr[q] = NULL
    BY <1>1, <1>4 DEF Sound, NULL
<1>9. \A c \in new.live : \E q \in S \cup {p} : new.ptr[q] = c
    <2> SUFFICES ASSUME NEW c \in heap.live PROVE \E q \in S : new.ptr[q] = c
        BY <1>2, <1>4
    <2> QED
        BY <1>4 DEF Sound
<1>10. Sound(new, U \cup {p}, S \cup {p})
    BY <1>1, <1>2, <1>3, <1>5, <1>6, <1>7, <1>8, <1>9 DEF Sound
<1> QED
    BY <1>10 DEF new

(* mt_free of owners: each was given to free once. *)
LEMMA Release ==
    ASSUME NEW heap, NEW U, NEW S, Sound(heap, U, S), NEW ps, ps \subseteq S
    PROVE  Sound(FreeAll(heap, ps), U \ ps, S \ ps) /\ FreeAll(heap, ps).ptr = heap.ptr
<1> DEFINE blocks == {heap.ptr[p] : p \in ps} \ {NULL}
           twice  == \E p, q \in ps : p # q /\ heap.ptr[p] = heap.ptr[q] /\ heap.ptr[p] # NULL
           new    == FreeAll(heap, ps)
<1>1. new.live = heap.live \ blocks /\ new.ptr = heap.ptr
      /\ new.g_live = heap.g_live - Cardinality(blocks \cap heap.live)
      /\ new.bad = (heap.bad \/ twice \/ ~(blocks \subseteq heap.live))
    BY DEF FreeAll
<1>2. ~twice
    BY DEF Sound
<1>3. blocks \subseteq heap.live
    BY DEF Sound
<1>4. blocks \cap heap.live = heap.live \cap blocks
    OBVIOUS
<1>5. IsFiniteSet(new.live) /\ new.g_live = Cardinality(new.live)
    <2>1. IsFiniteSet(heap.live) /\ heap.g_live = Cardinality(heap.live)
        BY DEF Sound
    <2> HIDE DEF blocks, new
    <2>2. /\ IsFiniteSet(heap.live \ blocks)
          /\ Cardinality(heap.live \ blocks) = Cardinality(heap.live) - Cardinality(heap.live \cap blocks)
        BY <2>1, FS_Difference
    <2> QED
        BY <1>1, <1>4, <2>1, <2>2
<1>6. ~new.bad
    BY <1>1, <1>2, <1>3 DEF Sound
<1> HIDE DEF new
<1>7. \A q \in S \ ps : heap.ptr[q] \in new.live \cup {NULL}
    <2> SUFFICES ASSUME NEW q \in S \ ps, heap.ptr[q] # NULL, heap.ptr[q] \in blocks PROVE FALSE
        BY <1>1 DEF Sound
    <2> PICK p \in ps : heap.ptr[p] = heap.ptr[q]
        OBVIOUS
    <2> QED
        BY DEF Sound
<1>8. \A q \in U \ ps : heap.ptr[q] \in new.live
    <2> SUFFICES ASSUME NEW q \in U \ ps PROVE heap.ptr[q] # NULL
        BY <1>7 DEF Sound
    <2> QED
        BY DEF Sound, NULL
<1>9. \A c \in new.live : \E q \in S \ ps : heap.ptr[q] = c
    <2> SUFFICES ASSUME NEW c \in heap.live, c \notin blocks PROVE \E q \in S \ ps : heap.ptr[q] = c
        BY <1>1
    <2> PICK q \in S : heap.ptr[q] = c
        BY DEF Sound
    <2>1. c # NULL
        BY DEF Sound, NULL
    <2> QED
        BY <2>1
<1>10. Sound(new, U \ ps, S \ ps)
    <2> HIDE DEF blocks, twice
    <2> QED
        BY <1>1, <1>5, <1>6, <1>7, <1>8, <1>9 DEF Sound
<1> QED
    BY <1>1, <1>10 DEF new

(* A pointer that owns nothing is cleared; it may, but need not, be        *)
(* released from now on.                                                   *)
LEMMA Clearing ==
    ASSUME NEW heap, NEW U, NEW S, Sound(heap, U, S), NEW p \in Pointers, p \notin S
    PROVE  Sound(Assign(heap, p, NULL), U, S \cup {p}) /\ Sound(Assign(heap, p, NULL), U, S)
<1> DEFINE new == Assign(heap, p, NULL)
<1>1. new.live = heap.live /\ new.ptr = [heap.ptr EXCEPT ![p] = NULL]
      /\ new.g_live = heap.g_live /\ new.bad = heap.bad
    BY DEF Assign
<1>2. \A q \in Pointers : new.ptr[q] = IF q = p THEN NULL ELSE heap.ptr[q]
    BY <1>1 DEF Sound
<1>3. new.ptr \in [Pointers -> Nat \cup {WILD}]
    BY <1>1 DEF Sound, NULL
<1> HIDE DEF new
<1>4. \A q \in S : q \in Pointers /\ q # p
    BY DEF Sound
<1>5. \A c \in new.live : \E q \in S \cup {p} : new.ptr[q] = c
    <2> SUFFICES ASSUME NEW c \in heap.live PROVE \E q \in S : new.ptr[q] = c
        BY <1>1
    <2> QED
        BY <1>2, <1>4 DEF Sound
<1>6. \A q, r \in S \cup {p} : new.ptr[q] = new.ptr[r] => q = r \/ new.ptr[q] = NULL
    BY <1>2, <1>4 DEF Sound
<1>7. \A q \in U : new.ptr[q] \in new.live
    BY <1>1, <1>2, <1>4 DEF Sound
<1>8. \A q \in S \cup {p} : new.ptr[q] \in new.live \cup {NULL}
    BY <1>1, <1>2, <1>4 DEF Sound
<1>9. Sound(new, U, S \cup {p})
    BY <1>1, <1>3, <1>5, <1>6, <1>7, <1>8 DEF Sound
<1>10. Sound(new, U, S)
    BY <1>1, <1>2, <1>4, <1>5, <1>9 DEF Sound, NULL
<1> QED
    BY <1>9, <1>10 DEF new

(* A block moves from its owner p to pointer q. *)
LEMMA Move ==
    ASSUME NEW heap, NEW U, NEW S, NEW p \in S, Sound(heap, U, S), NEW q \in Pointers, q \notin S
    PROVE  /\ Sound(Assign(heap, q, heap.ptr[p]), U \ {p}, (S \ {p}) \cup {q})
           /\ p \in U => Sound(Assign(heap, q, heap.ptr[p]), (U \ {p}) \cup {q}, (S \ {p}) \cup {q})
<1> DEFINE new == Assign(heap, q, heap.ptr[p])
           T   == (S \ {p}) \cup {q}
<1>1. new.live = heap.live /\ new.ptr = [heap.ptr EXCEPT ![q] = heap.ptr[p]]
      /\ new.g_live = heap.g_live /\ new.bad = heap.bad
    BY DEF Assign
<1>2. \A r \in Pointers : new.ptr[r] = IF r = q THEN heap.ptr[p] ELSE heap.ptr[r]
    BY <1>1 DEF Sound
<1>3. new.ptr \in [Pointers -> Nat \cup {WILD}]
    BY <1>1 DEF Sound
<1> HIDE DEF new
<1>4. p \in Pointers /\ \A r \in S : r \in Pointers /\ r # q
    BY DEF Sound
<1>5. \A c \in new.live : \E r \in T : new.ptr[r] = c
    <2> SUFFICES ASSUME NEW c \in heap.live PROVE \E r \in T : new.ptr[r] = c
        BY <1>1
    <2> PICK r \in S : heap.ptr[r] = c
        BY DEF Sound
    <2> QED
        BY <1>2, <1>4
<1>6. \A r, s \in T : new.ptr[r] = new.ptr[s] => r = s \/ new.ptr[r] = NULL
    BY <1>2, <1>4 DEF Sound
<1>7. \A r \in U \ {p} : new.ptr[r] \in new.live
    BY <1>1, <1>2, <1>4 DEF Sound
<1>8. \A r \in T : new.ptr[r] \in new.live \cup {NULL}
    BY <1>1, <1>2, <1>4 DEF Sound
<1>9. p \in U => new.ptr[q] \in new.live
    BY <1>1, <1>2, <1>4 DEF Sound
<1>10. Sound(new, U \ {p}, T)
    BY <1>1, <1>3, <1>4, <1>5, <1>6, <1>7, <1>8 DEF Sound
<1>11. p \in U => Sound(new, (U \ {p}) \cup {q}, T)
    BY <1>9, <1>10 DEF Sound
<1> QED
    BY <1>10, <1>11 DEF new

(* free_expanded: the tables are nobody's, and their pointers are cleared. *)
LEMMA TablesReleased ==
    ASSUME NEW heap, NEW U, NEW S, Sound(heap, U, S), NEW n \in Nat, Tables(n) \subseteq S
    PROVE  Sound(free_expanded(heap, n), U \ Tables(n), S \ Tables(n))
<1> DEFINE freed == FreeAll(heap, Tables(n))
           new   == free_expanded(heap, n)
<1>1. Sound(freed, U \ Tables(n), S \ Tables(n)) /\ freed.ptr = heap.ptr
    BY Release
<1>2. /\ new.live = freed.live /\ new.g_live = freed.g_live /\ new.bad = freed.bad
      /\ new.ptr = [p \in Pointers |-> IF p \in Tables(n) THEN NULL ELSE heap.ptr[p]]
    BY DEF free_expanded
<1> HIDE DEF freed, new
<1>3. new.ptr \in [Pointers -> Nat \cup {WILD}]
    BY <1>1, <1>2 DEF Sound, NULL
<1>4. \A p \in S \ Tables(n) : new.ptr[p] = freed.ptr[p]
    BY <1>1, <1>2 DEF Sound
<1>5. Sound(new, U \ Tables(n), S \ Tables(n))
    BY <1>1, <1>2, <1>3, <1>4 DEF Sound
<1> QED
    BY <1>5 DEF new

(* Fewer of the owners are known to have a block. *)
LEMMA Forgetting ==
    ASSUME NEW heap, NEW U, NEW S, Sound(heap, U, S), NEW V, V \subseteq U
    PROVE  Sound(heap, V, S)
BY DEF Sound

(* Without owners nothing is live. *)
LEMMA NothingOwned ==
    ASSUME NEW heap, Sound(heap, {}, {})
    PROVE  heap.live = {} /\ heap.g_live = 0
BY FS_EmptySet DEF Sound

-----------------------------------------------------------------------------
(* Who the owners are. *)

OwnerTable ==
    /\ pc \in {"start", "returned"} => InUse(Place) = {} /\ Owners = {}
    /\ pc = "node" => InUse(Place) = {Ptr("rows")} /\ Owners = {Ptr("rows")}
    /\ pc = "edge" => /\ InUse(Place) = {Ptr("rows"), Ptr("comb")}
                      /\ Owners = {Ptr("rows"), Ptr("comb")}
    /\ pc = "expand" => /\ InUse(Place) = {Ptr("rows"), Ptr("expanded")}
                        /\ Owners = {Ptr("rows"), Ptr("expanded")} \cup Tables(k - 1)
    /\ pc = "distribute" => /\ InUse(Place) = {Ptr("rows"), Ptr("expanded"), Ptr("work")}
                            /\ Owners = {Ptr("rows"), Ptr("expanded"), Ptr("work")} \cup Tables(k - 1)
    /\ pc = "align" => InUse(Place) = {Ptr("expanded")} /\ Owners = {Ptr("expanded")} \cup Tables(N)
    /\ pc = "root" => /\ InUse(Place) = {Ptr("expanded"), Ptr("seq"), Ptr("col_off")}
                      /\ Owners = {Ptr("expanded"), Ptr("seq"), Ptr("col_off")} \cup Tables(N)
    /\ pc \in {"child", "attach"} =>
           /\ InUse(Place) = {Ptr("expanded"), Ptr("seq"), Ptr("col_off"), Ptr("res")}
           /\ Owners = {Ptr("expanded"), Ptr("seq"), Ptr("col_off"), Ptr("res")} \cup Tables(N)
    /\ pc = "stream" => InUse(Place) = {Ptr("res")} /\ Owners = {Ptr("res")}
    /\ pc = "rows" => InUse(Place) = {Ptr("res"), Ptr("chunk")} /\ Owners = {Ptr("res"), Ptr("chunk")}
    /\ pc = "sort" => InUse(Place) = InUse(ret) /\ Owners = InUse(ret) \cup Held(ret)
    /\ pc = "bits" => InUse(Place) = InUse(ret) /\ Owners = InUse(ret) \cup Held(ret) \cup {Ptr("buf")}

(* The owners at each place of the code. *)
LEMMA OwnersAtEachPlace == OwnerTable
BY DEF OwnerTable, Owners, Place, InUse, Held, Padded

(* The sort's own buffers are not its caller's. *)
LEMMA SortersOwn ==
    ASSUME NEW at \in {"edge", "distribute", "attach"}, k \in 1..(N + 1), N \in Nat
    PROVE  Ptr("buf") \notin InUse(at) \cup Held(at) /\ Ptr("bits") \notin InUse(at) \cup Held(at)
<1>1. Ptr("buf") \notin InUse(at) /\ Ptr("bits") \notin InUse(at)
    BY Distinct DEF InUse
<1>2. \A n \in Nat : Ptr("buf") \notin Tables(n) /\ Ptr("bits") \notin Tables(n)
    BY TablePointers
<1>3. Held(at) \in {Tables(k - 1), Tables(N), {}}
    BY DEF Held
<1> QED
    BY <1>1, <1>2, <1>3

(* Ownership at the next place. *)
LEMMA Reached ==
    ASSUME NEW U, NEW S, tree' = tree, Sound(h', U, S), InUse(Place)' = U, Owners' = S
    PROVE  Ownership'
BY DEF Ownership, Sound, Pointers, Nodes

(* The number of nodes. *)
LEMMA Count == ASSUME Control PROVE N \in Nat \ {0} /\ k \in Nat
BY TreesAssumption DEF Control, N
-----------------------------------------------------------------------------
(* The ways out. *)

(* ecall_run_join gives up under align_concat: the tables and their array. *)
LEMMA AlignFailure ==
    ASSUME NEW heap, N \in Nat, Sound(heap, {Ptr("expanded")}, {Ptr("expanded")} \cup Tables(N))
    PROVE  Sound(mt_free(free_expanded(heap, N), Ptr("expanded")), {}, {})
<1> DEFINE freed == free_expanded(heap, N)
           E == {Ptr("expanded")}
<1>1. Ptr("expanded") \notin Tables(N)
    BY TablePointers
<1>2. Sound(freed, E \ Tables(N), (E \cup Tables(N)) \ Tables(N))
    BY TablesReleased
<1>3. E \ Tables(N) = E /\ (E \cup Tables(N)) \ Tables(N) = E
    BY <1>1
<1>4. Sound(freed, E, E)
    BY <1>2, <1>3
<1> HIDE DEF freed
<1>5. Sound(FreeAll(freed, E), E \ E, E \ E)
    BY <1>4, Release
<1>6. E \ E = {}
    OBVIOUS
<1> QED
    BY <1>5, <1>6 DEF mt_free, freed

(* align_concat gives up: its result and its two arrays first. *)
LEMMA AlignUnwinding ==
    ASSUME NEW heap, NEW U, N \in Nat, Ptr("expanded") \in U,
           Sound(heap, U, {Ptr("expanded"), Ptr("seq"), Ptr("col_off"), Ptr("res")} \cup Tables(N))
    PROVE  LET freed == FreeAll(heap, {Ptr("res"), Ptr("seq"), Ptr("col_off")})
           IN  Sound(mt_free(free_expanded(freed, N), Ptr("expanded")), {}, {})
<1> DEFINE own   == {Ptr("res"), Ptr("seq"), Ptr("col_off")}
           S     == {Ptr("expanded"), Ptr("seq"), Ptr("col_off"), Ptr("res")} \cup Tables(N)
           freed == FreeAll(heap, own)
<1>1. Sound(freed, U \ own, S \ own)
    BY Release
<1>2. S \ own = {Ptr("expanded")} \cup Tables(N)
    <2>1. \A p \in own : p \notin Tables(N)
        BY TablePointers
    <2>2. Ptr("expanded") \notin own
        BY Distinct
    <2> QED
        BY <2>1, <2>2
<1>3. {Ptr("expanded")} \subseteq U \ own
    BY Distinct
<1> HIDE DEF own, S, freed
<1>4. Sound(freed, {Ptr("expanded")}, {Ptr("expanded")} \cup Tables(N))
    BY <1>1, <1>2, <1>3, Forgetting
<1>5. Sound(mt_free(free_expanded(freed, N), Ptr("expanded")), {}, {})
    BY <1>4, AlignFailure
<1> QED
    BY <1>5 DEF freed, own

(* distribute_expand gives up after n tables. *)
LEMMA ExpandFailure ==
    ASSUME NEW heap, NEW n \in Nat, NEW U,
           Sound(heap, U, {Ptr("rows"), Ptr("expanded")} \cup Tables(n))
    PROVE  Sound(FreeAll(free_expanded(heap, n), {Ptr("expanded"), Ptr("rows")}), {}, {})
<1> DEFINE freed == free_expanded(heap, n)
           own   == {Ptr("expanded"), Ptr("rows")}
<1>1. Ptr("expanded") \notin Tables(n) /\ Ptr("rows") \notin Tables(n)
    BY TablePointers
<1>2. Sound(freed, U \ Tables(n), ({Ptr("rows"), Ptr("expanded")} \cup Tables(n)) \ Tables(n))
    BY TablesReleased
<1>3. ({Ptr("rows"), Ptr("expanded")} \cup Tables(n)) \ Tables(n) = own
    BY <1>1
<1> HIDE DEF freed, own
<1>4. Sound(freed, {}, own)
    BY <1>2, <1>3, Forgetting
<1>5. Sound(FreeAll(freed, own), {} \ own, own \ own)
    BY <1>4, Release
<1>6. {} \ own = {} /\ own \ own = {}
    OBVIOUS
<1> QED
    BY <1>5, <1>6 DEF freed, own

-----------------------------------------------------------------------------
(* Every step keeps the ownership of the buffers. *)

(* The sort, whoever calls it. *)
LEMMA SortKeepsOwnership ==
    ASSUME IInv, SortNothing \/ SortInPlace \/ SortPadded \/ Bits
    PROVE  Ownership'
<1> DEFINE U == InUse(ret)
           S == InUse(ret) \cup Held(ret)
<1>1. OwnerTable /\ OwnerTable'
    BY OwnersAtEachPlace, PTL
<1>2. /\ ret \in {"edge", "distribute", "attach"} /\ k \in 1..(N + 1) /\ N \in Nat
      /\ tree' = tree /\ k' = k /\ ret' = ret
    BY Count DEF IInv, Control, SortNothing, SortInPlace, SortPadded, Bits
<1>3. Ptr("buf") \notin S /\ Ptr("bits") \notin S
    BY <1>2, SortersOwn
<1>4. Held(ret)' = Held(ret) /\ InUse(ret)' = InUse(ret)
    BY <1>2 DEF Held, InUse, N
<1>5. pc' = ret => InUse(Place)' = U /\ Owners' = S
    BY <1>2, <1>4 DEF Place, Owners, Padded
<1>6. pc' = "bits" => InUse(Place)' = U /\ Owners' = S \cup {Ptr("buf")}
    BY <1>1, <1>2, <1>4 DEF OwnerTable
<1>7. pc = "sort" => Sound(h, U, S)
    BY <1>1 DEF IInv, Ownership, OwnerTable
<1>8. pc = "bits" => Sound(h, U, S \cup {Ptr("buf")})
    BY <1>1 DEF IInv, Ownership, OwnerTable
<1>9. U \subseteq S
    OBVIOUS
<1> HIDE DEF U, S
<1>10. CASE SortNothing
    BY <1>2, <1>5, <1>7, <1>10, Reached DEF SortNothing
<1>11. CASE SortInPlace
    <2>1. Sound(Assign(h, Ptr("buf"), NULL), U, S \cup {Ptr("buf")})
        BY <1>3, <1>7, <1>11, Clearing, NamedPointers DEF SortInPlace
    <2> QED
        BY <1>2, <1>6, <1>11, <2>1, Reached DEF SortInPlace
<1>12. CASE SortPadded
    <2>1. Sound(mt_alloc(h, Ptr("buf")), U \cup {Ptr("buf")}, S \cup {Ptr("buf")})
        BY <1>3, <1>7, <1>12, Allocation, NamedPointers DEF SortPadded
    <2>2. Sound(mt_alloc(h, Ptr("buf")), U, S \cup {Ptr("buf")})
        BY <2>1, Forgetting
    <2>3. CASE pc' = "bits" /\ h' = mt_alloc(h, Ptr("buf"))
        BY <1>2, <1>6, <2>2, <2>3, Reached
    <2>4. CASE pc' = ret /\ h' = h
        BY <1>2, <1>5, <1>7, <1>12, <2>4, Reached DEF SortPadded
    <2> QED
        BY <1>12, <2>3, <2>4 DEF SortPadded
<1>13. CASE Bits
    <2> DEFINE B == S \cup {Ptr("buf")}
               withBits == mt_alloc(h, Ptr("bits"))
               two == {Ptr("bits"), Ptr("buf")}
    <2>1. Sound(h, U, B) /\ pc' = ret
        BY <1>8, <1>13 DEF Bits
    <2>2. Ptr("bits") \notin B /\ Ptr("bits") # Ptr("buf")
        BY <1>3, Distinct
    <2>3. Sound(withBits, U \cup {Ptr("bits")}, B \cup {Ptr("bits")})
        BY <2>1, <2>2, Allocation, NamedPointers
    <2>4. Sound(withBits, U, B \cup {Ptr("bits")})
        BY <2>3, Forgetting
    <2>5. /\ (B \cup {Ptr("bits")}) \ two = S
          /\ (B \cup {Ptr("bits")}) \ {Ptr("bits")} = B
          /\ B \ {Ptr("buf")} = S
          /\ U \ two = U /\ U \ {Ptr("bits")} = U /\ U \ {Ptr("buf")} = U
        BY <1>3, <1>9, <2>2
    <2> HIDE DEF B, withBits
    <2>6. Sound(FreeAll(withBits, two), U, S)
        <3>1. two \subseteq B \cup {Ptr("bits")}
            BY DEF B
        <3> HIDE DEF two
        <3> QED
            BY <2>4, <2>5, <3>1, Release
    <2>7. \A heap : Sound(heap, U, B) => Sound(FreeAll(heap, {Ptr("buf")}), U, S)
        <3>1. {Ptr("buf")} \subseteq B
            BY DEF B
        <3> QED
            BY <2>5, <3>1, Release
    <2>8. Sound(FreeAll(withBits, {Ptr("bits")}), U, B)
        BY <2>4, <2>5, Release
    <2>9. h' \in {FreeAll(withBits, two),
                   FreeAll(FreeAll(withBits, {Ptr("bits")}), {Ptr("buf")}),
                   FreeAll(h, {Ptr("buf")})}
        BY <1>13 DEF Bits, SortUnwind, mt_free, withBits
    <2>10. Sound(h', U, S)
        BY <2>1, <2>6, <2>7, <2>8, <2>9
    <2> QED
        BY <1>2, <1>5, <2>1, <2>10, Reached
<1> QED
    BY <1>10, <1>11, <1>12, <1>13
(* bottom_up and top_down. *)
LEMMA PhasesKeepOwnership ==
    ASSUME IInv, Start \/ Node \/ Edge \/ BottomUpDone \/ TopDownDone
    PROVE  Ownership'
<1> DEFINE R == {Ptr("rows")}
           RC == {Ptr("rows"), Ptr("comb")}
<1>1. OwnerTable /\ OwnerTable'
    BY OwnersAtEachPlace, PTL
<1>2. N \in Nat \ {0} /\ k \in Nat /\ tree' = tree
    BY Count DEF IInv, Start, Node, Edge, BottomUpDone, TopDownDone
<1>3. Ptr("rows") # Ptr("comb") /\ Ptr("rows") # Ptr("expanded")
    BY Distinct
<1>4. pc \in {"node", "edge"} => Sound(h, InUse(Place), Owners)
    BY DEF IInv, Ownership
<1>5. pc = "node" => Sound(h, R, R)
    BY <1>1, <1>4 DEF OwnerTable
<1>6. pc = "edge" => Sound(h, RC, RC)
    BY <1>1, <1>4 DEF OwnerTable
<1>7. pc' = "node" => InUse(Place)' = R /\ Owners' = R
    BY <1>1 DEF OwnerTable
<1>8. pc' = "returned" => InUse(Place)' = {} /\ Owners' = {}
    BY <1>1 DEF OwnerTable
<1>9. pc' = "sort" /\ ret' = "edge" => InUse(Place)' = RC /\ Owners' = RC
    BY DEF Place, Owners, Padded, InUse, Held
<1>10. pc' = "expand" /\ k' = 1 => /\ InUse(Place)' = {Ptr("rows"), Ptr("expanded")}
                                  /\ Owners' = {Ptr("rows"), Ptr("expanded")}
    <2>1. Tables(0) = {}
        BY TablePointers
    <2> QED
        BY <1>1, <2>1 DEF OwnerTable, Tables, Rows
<1>11. pc = "node" => Sound(mt_free(h, Ptr("rows")), {}, {})
    <2>1. R \ R = {}
        OBVIOUS
    <2>2. pc = "node" => Sound(FreeAll(h, R), R \ R, R \ R)
        BY <1>5, Release
    <2> QED
        BY <2>1, <2>2 DEF mt_free
<1>12. CASE Start
    <2>1. OwnerTable /\ pc = "start"
        BY <1>1, <1>12 DEF Start
    <2>2. Sound(h, {}, {})
        BY <2>1 DEF IInv, Ownership, OwnerTable
    <2>3. Sound(mt_alloc(h, Ptr("rows")), {} \cup R, {} \cup R)
        BY <2>2, Allocation, NamedPointers
    <2>4. {} \cup R = R
        OBVIOUS
    <2> HIDE DEF R
    <2>5. CASE pc' = "node" /\ h' = mt_alloc(h, Ptr("rows"))
        BY <1>2, <1>7, <2>3, <2>4, <2>5, Reached
    <2>6. CASE pc' = "returned" /\ h' = h
        BY <1>2, <1>8, <2>2, <2>6, Reached
    <2> QED
        BY <1>12, <2>5, <2>6 DEF Start, Return
<1>13. CASE Node
    <2>1. pc = "node"
        BY <1>13 DEF Node
    <2>2. Sound(mt_alloc(h, Ptr("comb")), R \cup {Ptr("comb")}, R \cup {Ptr("comb")})
        BY <1>3, <1>5, <2>1, Allocation, NamedPointers
    <2>3. R \cup {Ptr("comb")} = RC
        OBVIOUS
    <2> HIDE DEF R, RC
    <2>4. CASE pc' = "node" /\ h' = h
        BY <1>2, <1>5, <1>7, <2>1, <2>4, Reached
    <2>5. CASE h' = mt_alloc(h, Ptr("comb")) /\ CallSort("edge")
        BY <1>2, <1>9, <2>2, <2>3, <2>5, Reached DEF CallSort
    <2>6. CASE pc' = "returned" /\ h' = mt_free(h, Ptr("rows"))
        BY <1>2, <1>8, <1>11, <2>1, <2>6, Reached
    <2> QED
        BY <1>13, <2>4, <2>5, <2>6 DEF Node, NextNode, Return
<1>14. CASE Edge
    <2>1. pc = "edge"
        BY <1>14 DEF Edge
    <2>2. Sound(FreeAll(h, {Ptr("comb")}), RC \ {Ptr("comb")}, RC \ {Ptr("comb")})
        BY <1>6, <2>1, Release
    <2>3. Sound(FreeAll(h, {Ptr("comb"), Ptr("rows")}), RC \ RC, RC \ RC)
        <3>1. {Ptr("comb"), Ptr("rows")} = RC
            OBVIOUS
        <3> QED
            BY <1>6, <2>1, <3>1, Release
    <2>4. RC \ {Ptr("comb")} = R /\ RC \ RC = {}
        BY <1>3
    <2> HIDE DEF R, RC
    <2>5. CASE h' = h /\ CallSort("edge")
        BY <1>2, <1>6, <1>9, <2>1, <2>5, Reached DEF CallSort
    <2>6. CASE pc' = "node" /\ h' = mt_free(h, Ptr("comb"))
        BY <1>2, <1>7, <2>2, <2>4, <2>6, Reached DEF mt_free
    <2>7. CASE pc' = "returned" /\ h' = FreeAll(h, {Ptr("comb"), Ptr("rows")})
        BY <1>2, <1>8, <2>3, <2>4, <2>7, Reached
    <2> QED
        BY <1>14, <2>5, <2>6, <2>7 DEF Edge, NextNode, Return
<1>15. CASE BottomUpDone
    BY <1>2, <1>5, <1>7, <1>15, Reached DEF BottomUpDone
<1>16. CASE TopDownDone
    <2>1. pc = "node"
        BY <1>16 DEF TopDownDone
    <2>2. Sound(mt_alloc(h, Ptr("expanded")), R \cup {Ptr("expanded")}, R \cup {Ptr("expanded")})
        BY <1>3, <1>5, <2>1, Allocation, NamedPointers
    <2>3. R \cup {Ptr("expanded")} = {Ptr("rows"), Ptr("expanded")}
        OBVIOUS
    <2>4. CASE pc' = "expand" /\ k' = 1 /\ h' = mt_alloc(h, Ptr("expanded"))
        BY <1>2, <1>10, <2>2, <2>3, <2>4, Reached
    <2>5. CASE pc' = "returned" /\ h' = mt_free(h, Ptr("rows"))
        BY <1>2, <1>8, <1>11, <2>1, <2>5, Reached
    <2> QED
        BY <1>16, <2>4, <2>5 DEF TopDownDone, Return
<1> QED
    BY <1>12, <1>13, <1>14, <1>15, <1>16
(* distribute_expand: the tables already expanded are owned, no other.     *)
LEMMA ExpansionKeepsOwnership ==
    ASSUME IInv, Expand \/ Distribute \/ ExpandDone
    PROVE  Ownership'
<1> DEFINE RE  == {Ptr("rows"), Ptr("expanded")}
           REW == {Ptr("rows"), Ptr("expanded"), Ptr("work")}
           done == Tables(k - 1)
<1>1. OwnerTable /\ OwnerTable'
    BY OwnersAtEachPlace, PTL
<1>2. N \in Nat \ {0} /\ k \in Nat \ {0} /\ tree' = tree
    BY Count DEF IInv, Control, Expand, Distribute, ExpandDone
<1>3. Sound(h, InUse(Place), Owners)
    BY DEF IInv, Ownership
<1>4. /\ \A x : Ptr(x) \notin done
      /\ Rows(k) \notin done
      /\ Tables(k) = done \cup {Rows(k)}
      /\ \A x : Ptr(x) # Rows(k)
      /\ Ptr("work") \notin RE
    <2>1. k - 1 \in Nat /\ (k - 1) + 1 = k
        BY <1>2
    <2> QED
        BY <1>2, <2>1, TablePointers, Distinct
<1>5. pc' = "returned" => InUse(Place)' = {} /\ Owners' = {}
    BY <1>1 DEF OwnerTable
<1>6. pc' = "expand" /\ k' = k + 1 => InUse(Place)' = RE /\ Owners' = RE \cup Tables(k)
    <2>1. (k + 1) - 1 = k
        BY <1>2
    <2> QED
        BY <1>1, <2>1 DEF OwnerTable, Tables, Rows
<1>7. k - 1 \in Nat
    BY <1>2
<1> HIDE DEF done
<1>8. CASE Expand
    <2> DEFINE cleared  == Assign(h, Rows(k), NULL)
               withWork == mt_alloc(cleared, Ptr("work"))
               S == RE \cup done
    <2>1. Sound(h, RE, S) /\ k \in Nodes(tree)
        <3>1. pc = "expand" /\ k <= N
            BY <1>8 DEF Expand
        <3>2. InUse(Place) = RE /\ Owners = S
            BY <1>1, <3>1 DEF OwnerTable, done
        <3>3. k \in Nodes(tree)
            BY <1>2, <3>1 DEF Nodes, N
        <3> QED
            BY <1>3, <3>2, <3>3
    <2>2. Rows(k) \notin S /\ Ptr("work") \notin S /\ Rows(k) # Ptr("work")
        BY <1>4
    <2> HIDE DEF S
    <2>3. Sound(cleared, RE, S \cup {Rows(k)}) /\ Sound(cleared, RE, S)
        BY <2>1, <2>2, Clearing, NamedPointers
    <2> HIDE DEF cleared
    <2>4. /\ Sound(withWork, RE \cup {Ptr("work")}, S \cup {Ptr("work")})
          /\ Sound(withWork, RE \cup {Ptr("work")}, S \cup {Rows(k)} \cup {Ptr("work")})
        BY <2>2, <2>3, Allocation, NamedPointers
    <2> HIDE DEF withWork
    <2>5. Sound(FreeAll(withWork, {Ptr("work")}), RE, S \cup {Rows(k)})
        <3>1. /\ (RE \cup {Ptr("work")}) \ {Ptr("work")} = RE
              /\ (S \cup {Rows(k)} \cup {Ptr("work")}) \ {Ptr("work")} = S \cup {Rows(k)}
            BY <1>4, <2>2
        <3>2. {Ptr("work")} \subseteq S \cup {Rows(k)} \cup {Ptr("work")}
            OBVIOUS
        <3> QED
            BY <2>4, <3>1, <3>2, Release
    <2>6. /\ S \cup {Rows(k)} = RE \cup Tables(k)
          /\ RE \cup {Ptr("work")} = REW
          /\ S \cup {Ptr("work")} = REW \cup done
        BY <1>4 DEF S
    <2>7. CASE pc' = "expand" /\ k' = k + 1 /\ h' \in {cleared, mt_free(withWork, Ptr("work"))}
        <3>1. Sound(h', RE, RE \cup Tables(k))
            BY <2>3, <2>5, <2>6, <2>7 DEF mt_free
        <3> QED
            BY <1>2, <1>6, <2>7, <3>1, Reached
    <2>8. CASE h' = withWork /\ CallSort("distribute") /\ k' = k
        <3>1. Place' = "distribute" /\ Padded' = {}
            BY <2>8 DEF CallSort, Place, Padded
        <3>2. InUse(Place)' = REW /\ Owners' = REW \cup done
            BY <2>8, <3>1 DEF InUse, Held, Owners, done, Tables
        <3> QED
            BY <1>2, <2>4, <2>6, <2>8, <3>2, Reached
    <2>9. CASE ExpandFails(cleared)
        <3>1. Sound(cleared, RE, RE \cup done)
            BY <2>3 DEF S
        <3>2. Sound(FreeAll(free_expanded(cleared, k - 1), {Ptr("expanded"), Ptr("rows")}), {}, {})
            BY <1>7, <3>1, ExpandFailure DEF done
        <3> QED
            BY <1>2, <1>5, <2>9, <3>2, Reached DEF ExpandFails, ExpandedSoFar, Return
    <2> QED
        BY <1>8, <2>7, <2>8, <2>9 DEF Expand, NextTable, withWork, cleared
<1>9. CASE Distribute
    <2> DEFINE S == REW \cup done
               grown == mt_alloc(h, Rows(k))
    <2>1. Sound(h, REW, S) /\ k \in Nodes(tree)
        <3>1. pc = "distribute" /\ k <= N
            BY <1>9 DEF Distribute, IInv, Control, Place
        <3>2. InUse(Place) = REW /\ Owners = S
            BY <1>1, <3>1 DEF OwnerTable, done
        <3>3. k \in Nodes(tree)
            BY <1>2, <3>1 DEF Nodes, N
        <3> QED
            BY <1>3, <3>2, <3>3
    <2>2. Rows(k) \notin S /\ Ptr("work") \in S
        BY <1>4
    <2>3. /\ (S \cup {Rows(k)}) \ {Ptr("work")} = RE \cup Tables(k)
          /\ S \ {Ptr("work")} = RE \cup done
          /\ RE \subseteq (REW \cup {Rows(k)}) \ {Ptr("work")}
        BY <1>4
    <2> HIDE DEF S
    <2>4. Sound(grown, REW \cup {Rows(k)}, S \cup {Rows(k)})
        BY <2>1, <2>2, Allocation, NamedPointers
    <2> HIDE DEF grown
    <2>5. Sound(FreeAll(grown, {Ptr("work")}), (REW \cup {Rows(k)}) \ {Ptr("work")}, RE \cup Tables(k))
        BY <2>2, <2>3, <2>4, Release
    <2>6. Sound(FreeAll(grown, {Ptr("work")}), RE, RE \cup Tables(k))
        BY <2>3, <2>5, Forgetting
    <2>7. Sound(FreeAll(h, {Ptr("work")}), REW \ {Ptr("work")}, RE \cup done)
        BY <2>1, <2>2, <2>3, Release
    <2>8. CASE pc' = "expand" /\ k' = k + 1 /\ h' = mt_free(grown, Ptr("work"))
        BY <1>2, <1>6, <2>6, <2>8, Reached DEF mt_free
    <2>9. CASE ExpandFails(mt_free(h, Ptr("work")))
        <3>1. Sound(FreeAll(free_expanded(FreeAll(h, {Ptr("work")}), k - 1),
                            {Ptr("expanded"), Ptr("rows")}), {}, {})
            BY <1>7, <2>7, ExpandFailure DEF done
        <3> QED
            BY <1>2, <1>5, <2>9, <3>1, Reached DEF ExpandFails, ExpandedSoFar, Return, mt_free
    <2> QED
        BY <1>9, <2>8, <2>9 DEF Distribute, NextTable, grown
<1>10. CASE ExpandDone
    <2>1. k - 1 = N /\ pc = "expand" /\ pc' = "align"
        BY <1>2, <1>10 DEF ExpandDone, IInv, Control
    <2>2. Sound(h, RE, RE \cup Tables(N))
        BY <1>1, <1>3, <2>1 DEF OwnerTable
    <2>3. /\ (RE \cup Tables(N)) \ {Ptr("rows")} = {Ptr("expanded")} \cup Tables(N)
          /\ RE \ {Ptr("rows")} = {Ptr("expanded")}
        <3>1. Ptr("rows") \notin Tables(N) /\ Ptr("rows") # Ptr("expanded")
            BY <1>2, TablePointers, Distinct
        <3> QED
            BY <3>1
    <2>4. Sound(FreeAll(h, {Ptr("rows")}), {Ptr("expanded")}, {Ptr("expanded")} \cup Tables(N))
        BY <2>2, <2>3, Release
    <2>5. InUse(Place)' = {Ptr("expanded")} /\ Owners' = {Ptr("expanded")} \cup Tables(N)
        BY <1>1, <1>2, <2>1 DEF OwnerTable, N, Tables, Rows
    <2> QED
        BY <1>2, <1>10, <2>4, <2>5, Reached DEF ExpandDone, mt_free
<1> QED
    BY <1>8, <1>9, <1>10
(* align_concat and attach_child: buffers move between the tables, the     *)
(* result and the merged copy.                                             *)
LEMMA AlignmentStartKeepsOwnership ==
    ASSUME IInv, AlignStart
    PROVE  Ownership'
<1> DEFINE E == {Ptr("expanded")}
           S == {Ptr("expanded")} \cup Tables(N)
           two == {Ptr("seq"), Ptr("col_off")}
<1>1. OwnerTable /\ OwnerTable'
    BY OwnersAtEachPlace, PTL
<1>2. N \in Nat \ {0} /\ tree' = tree /\ N' = N
    BY Count DEF IInv, AlignStart, N
<1>3. Sound(h, E, S)
    BY <1>1 DEF IInv, Ownership, AlignStart, OwnerTable
<1>4. Ptr("seq") \notin S /\ Ptr("col_off") \notin S /\ Ptr("seq") # Ptr("col_off")
    BY <1>2, TablePointers, Distinct
<1>5. PICK seqOk \in BOOLEAN, colOk \in BOOLEAN :
          LET h1 == IF seqOk THEN mt_alloc(h, Ptr("seq")) ELSE Assign(h, Ptr("seq"), NULL)
              h2 == IF colOk THEN mt_alloc(h1, Ptr("col_off")) ELSE Assign(h1, Ptr("col_off"), NULL)
          IN  \/ seqOk /\ colOk /\ h' = h2 /\ pc' = "root"
              \/ AlignFails(FreeAll(h2, two))
    BY DEF AlignStart
<1> DEFINE h1 == IF seqOk THEN mt_alloc(h, Ptr("seq")) ELSE Assign(h, Ptr("seq"), NULL)
           h2 == IF colOk THEN mt_alloc(h1, Ptr("col_off")) ELSE Assign(h1, Ptr("col_off"), NULL)
           S1 == S \cup {Ptr("seq")}
           S2 == S1 \cup {Ptr("col_off")}
<1>6. (seqOk /\ colOk /\ h' = h2 /\ pc' = "root") \/ AlignFails(FreeAll(h2, two))
    BY <1>5
<1> HIDE DEF S
<1>7. (seqOk => Sound(h1, E \cup {Ptr("seq")}, S1)) /\ Sound(h1, E, S1)
    <2>1. Sound(mt_alloc(h, Ptr("seq")), E \cup {Ptr("seq")}, S1)
        BY <1>3, <1>4, Allocation, NamedPointers
    <2>2. Sound(mt_alloc(h, Ptr("seq")), E, S1)
        BY <2>1, Forgetting
    <2>3. Sound(Assign(h, Ptr("seq"), NULL), E, S1)
        BY <1>3, <1>4, Clearing, NamedPointers
    <2> QED
        BY <2>1, <2>2, <2>3
<1>8. Ptr("col_off") \notin S1
    BY <1>4
<1> HIDE DEF h1, S1
<1>9. (seqOk /\ colOk => Sound(h2, E \cup two, S2)) /\ Sound(h2, E, S2)
    <2>1. Sound(mt_alloc(h1, Ptr("col_off")), E \cup {Ptr("col_off")}, S2)
        BY <1>7, <1>8, Allocation, NamedPointers
    <2>2. Sound(mt_alloc(h1, Ptr("col_off")), E, S2)
        BY <2>1, Forgetting
    <2>3. Sound(Assign(h1, Ptr("col_off"), NULL), E, S2)
        BY <1>7, <1>8, Clearing, NamedPointers
    <2>4. seqOk => Sound(mt_alloc(h1, Ptr("col_off")), E \cup {Ptr("seq")} \cup {Ptr("col_off")}, S2)
        BY <1>7, <1>8, Allocation, NamedPointers
    <2>5. E \cup {Ptr("seq")} \cup {Ptr("col_off")} = E \cup two
        OBVIOUS
    <2> HIDE DEF two, E, S2
    <2> QED
        BY <2>2, <2>3, <2>4, <2>5
<1>10. S2 \ two = S /\ E \ two = E /\ two \subseteq S2
    <2>1. Ptr("seq") \notin E /\ Ptr("col_off") \notin E
        BY Distinct
    <2> QED
        BY <1>4, <2>1 DEF S1
<1> HIDE DEF h2
<1>11. CASE seqOk /\ colOk /\ h' = h2 /\ pc' = "root"
    <2>1. E \cup two = {Ptr("expanded"), Ptr("seq"), Ptr("col_off")}
        OBVIOUS
    <2>2. S2 = {Ptr("expanded"), Ptr("seq"), Ptr("col_off")} \cup Tables(N)
        BY DEF S, S1
    <2>3. InUse(Place)' = E \cup two /\ Owners' = S2
        BY <1>1, <1>2, <1>11, <2>1, <2>2 DEF OwnerTable, Tables, Rows
    <2> HIDE DEF S2, E, two
    <2> QED
        BY <1>2, <1>9, <1>11, <2>3, Reached
<1>12. CASE AlignFails(FreeAll(h2, two))
    <2> HIDE DEF two
    <2>1. Sound(FreeAll(h2, two), E, S)
        BY <1>9, <1>10, Release
    <2>2. Sound(mt_free(free_expanded(FreeAll(h2, two), N), Ptr("expanded")), {}, {})
        BY <1>2, <2>1, AlignFailure DEF S
    <2>3. pc' = "returned" => InUse(Place)' = {} /\ Owners' = {}
        BY <1>1 DEF OwnerTable
    <2> QED
        BY <1>2, <1>12, <2>2, <2>3, Reached DEF AlignFails, Return
<1> QED
    BY <1>6, <1>11, <1>12
(* The root's table becomes the result: taken from the array of tables,    *)
(* copied, and the first copy released.                                    *)
LEMMA AlignmentRootKeepsOwnership ==
    ASSUME IInv, AlignRoot
    PROVE  Ownership'
<1> DEFINE U    == {Ptr("expanded"), Ptr("seq"), Ptr("col_off")}
           S    == U \cup Tables(N)
           root == Rows(RootOf(tree))
           res  == Ptr("res")
           buf  == Ptr("buf")
           moved == Assign(h, res, h.ptr[root])
           taken == Assign(moved, root, NULL)
           withCopy == mt_alloc(taken, buf)
           freed    == FreeAll(withCopy, {res})
           T == S \cup {res}
<1>1. OwnerTable /\ OwnerTable'
    BY OwnersAtEachPlace, PTL
<1>2. N \in Nat \ {0} /\ tree' = tree /\ N' = N
    BY Count DEF IInv, AlignRoot, N
<1>3. Sound(h, U, S)
    BY <1>1 DEF IInv, Ownership, AlignRoot, OwnerTable
<1>4. RootOf(tree) \in Nodes(tree)
    BY TreesAssumption DEF IInv, Control
<1>5. root \in Tables(N) /\ root \in Pointers
    BY <1>4, NamedPointers DEF Tables, Nodes, N
<1>6. /\ res \notin S /\ buf \notin T /\ root \notin U /\ root # res /\ res \in Pointers /\ buf \in Pointers
      /\ res # buf
    <2>1. \A x : Ptr(x) \notin Tables(N)
        BY <1>2, TablePointers
    <2>2. res \notin U /\ buf \notin U
        BY Distinct
    <2>3. res # buf
        BY Distinct
    <2> QED
        BY <1>5, <2>1, <2>2, <2>3, NamedPointers
<1>7. root \in S
    BY <1>5
<1> HIDE DEF root, res, buf
<1>8. Sound(moved, U, (S \ {root}) \cup {res})
    <2>1. U \ {root} = U
        BY <1>6
    <2> HIDE DEF U, S
    <2> QED
        <3>1. Sound(Assign(h, res, h.ptr[root]), U \ {root}, (S \ {root}) \cup {res})
            BY <1>3, <1>6, <1>7, Move
        <3> QED
            BY <2>1, <3>1
<1> HIDE DEF moved
<1>9. Sound(taken, U, T)
    <2>1. root \notin (S \ {root}) \cup {res}
        BY <1>6
    <2>2. ((S \ {root}) \cup {res}) \cup {root} = T
        BY <1>7
    <2> HIDE DEF U, S, T
    <2> QED
        BY <1>5, <1>8, <2>1, <2>2, Clearing
<1> HIDE DEF taken
<1>10. Sound(withCopy, U \cup {buf}, T \cup {buf}) /\ withCopy.ptr[buf] = Fresh(taken)
    <2>1. Sound(withCopy, U \cup {buf}, T \cup {buf})
        BY <1>6, <1>9, Allocation
    <2>2. withCopy.ptr = [taken.ptr EXCEPT ![buf] = Fresh(taken)]
        BY DEF mt_alloc
    <2>3. taken.ptr \in [Pointers -> Nat \cup {WILD}]
        BY <1>9 DEF Sound
    <2> HIDE DEF withCopy
    <2> QED
        BY <1>6, <2>1, <2>2, <2>3
<1> HIDE DEF withCopy
<1>11. Sound(freed, U \cup {buf}, S \cup {buf}) /\ freed.ptr = withCopy.ptr
    <2>1. /\ (U \cup {buf}) \ {res} = U \cup {buf}
          /\ (T \cup {buf}) \ {res} = S \cup {buf}
          /\ {res} \subseteq T \cup {buf}
        BY <1>6
    <2> HIDE DEF T, U, S
    <2> QED
        BY <1>10, <2>1, Release
<1> HIDE DEF freed
<1>12. Sound(Assign(freed, res, Fresh(taken)), U \cup {res}, T)
    <2>1. /\ ((U \cup {buf}) \ {buf}) \cup {res} = U \cup {res}
          /\ ((S \cup {buf}) \ {buf}) \cup {res} = T
          /\ res \notin S \cup {buf}
        BY <1>6
    <2> HIDE DEF T, U, S
    <2> QED
        BY <1>6, <1>10, <1>11, <2>1, Move
<1>13. U \cup {res} = {Ptr("expanded"), Ptr("seq"), Ptr("col_off"), Ptr("res")}
       /\ T = {Ptr("expanded"), Ptr("seq"), Ptr("col_off"), Ptr("res")} \cup Tables(N)
    BY DEF res
<1>14. \/ h' = Assign(freed, res, Fresh(taken)) /\ pc' = "child"
       \/ AlignUnwind(taken)
    BY DEF AlignRoot, mt_free, freed, withCopy, taken, moved, root, res, buf
<1>15. CASE h' = Assign(freed, res, Fresh(taken)) /\ pc' = "child"
    <2>1. InUse(Place)' = U \cup {res} /\ Owners' = T
        BY <1>1, <1>2, <1>13, <1>15 DEF OwnerTable, Tables, Rows
    <2> HIDE DEF T, U
    <2> QED
        BY <1>2, <1>12, <1>15, <2>1, Reached
<1>16. CASE AlignUnwind(taken)
    <2>1. Sound(mt_free(free_expanded(FreeAll(taken, {Ptr("res"), Ptr("seq"), Ptr("col_off")}), N),
                        Ptr("expanded")), {}, {})
        BY <1>2, <1>9, <1>13, AlignUnwinding
    <2>2. pc' = "returned" => InUse(Place)' = {} /\ Owners' = {}
        BY <1>1 DEF OwnerTable
    <2> QED
        BY <1>2, <1>16, <2>1, <2>2, Reached DEF AlignUnwind, AlignFails, Return
<1> QED
    BY <1>14, <1>15, <1>16

(* A child's table is merged into the result; its pointer in the array is  *)
(* cleared because nobody owns a block through it any more.                *)
LEMMA AttachingKeepsOwnership ==
    ASSUME IInv, AttachStart \/ Attach
    PROVE  Ownership'
<1> DEFINE U     == {Ptr("expanded"), Ptr("seq"), Ptr("col_off"), Ptr("res")}
           V     == {Ptr("expanded"), Ptr("seq"), Ptr("col_off")}
           S     == U \cup Tables(N)
           child == Rows(ChildAt)
           res   == Ptr("res")
           buf   == Ptr("buf")
           grown == mt_alloc(h, buf)
           freed == FreeAll(grown, {res, child})
           disowned == Assign(freed, child, NULL)
<1>1. OwnerTable /\ OwnerTable'
    BY OwnersAtEachPlace, PTL
<1>2. N \in Nat \ {0} /\ k \in Nat /\ tree' = tree /\ N' = N /\ pc \in {"child", "attach"}
    BY Count DEF IInv, AttachStart, Attach, N
<1>3. Sound(h, U, S)
    BY <1>1, <1>2 DEF IInv, Ownership, OwnerTable
<1>4. pc' \in {"child", "attach"} => InUse(Place)' = U /\ Owners' = S
    BY <1>1, <1>2 DEF OwnerTable, Tables, Rows
<1>5. pc' = "sort" /\ ret' = "attach" => InUse(Place)' = U /\ Owners' = S
    BY <1>1, <1>2 DEF OwnerTable, InUse, Held, Tables, Rows
<1>6. CASE h' = h /\ CallSort("attach")
    <2> HIDE DEF U, S
    <2> QED
        BY <1>2, <1>3, <1>5, <1>6, Reached DEF CallSort
<1>7. CASE AlignUnwind(h)
    <2>1. Sound(mt_free(free_expanded(FreeAll(h, {Ptr("res"), Ptr("seq"), Ptr("col_off")}), N),
                        Ptr("expanded")), {}, {})
        BY <1>2, <1>3, AlignUnwinding
    <2>2. pc' = "returned" => InUse(Place)' = {} /\ Owners' = {}
        BY <1>1 DEF OwnerTable
    <2> QED
        BY <1>2, <1>7, <2>1, <2>2, Reached DEF AlignUnwind, AlignFails, Return
<1>8. CASE pc = "attach" /\ pc' = "child" /\ h' = Assign(disowned, res, Fresh(h))
    <2>1. ChildAt \in Nodes(tree)
        BY <1>2, <1>8, TreesAssumption DEF IInv, Control, ChildAt, Place, N
    <2>2. child \in Tables(N) /\ child \in Pointers
        BY <2>1, NamedPointers DEF Tables, Nodes, N
    <2>3. /\ res \in U /\ res \notin V /\ buf \notin S /\ child \notin U /\ res \notin Tables(N)
          /\ res \in Pointers /\ buf \in Pointers /\ U = V \cup {res} /\ V \cup {res} = U
        <3>1. \A x : Ptr(x) \notin Tables(N)
            BY <1>2, TablePointers
        <3>2. res \notin V /\ buf \notin U
            BY Distinct
        <3> QED
            BY <2>2, <3>1, <3>2, NamedPointers
    <2>4. /\ (U \cup {buf}) \ {res, child} = V \cup {buf}
          /\ {res, child} \subseteq S \cup {buf}
        BY <2>2, <2>3
    <2>5. child \notin (S \cup {buf}) \ {res, child}
        OBVIOUS
    <2>6. ((S \cup {buf}) \ {res, child}) \cup {child} = V \cup Tables(N) \cup {buf}
        BY <2>2, <2>3
    <2>7. /\ ((V \cup {buf}) \ {buf}) \cup {res} = U
          /\ ((V \cup Tables(N) \cup {buf}) \ {buf}) \cup {res} = S
          /\ res \notin V \cup Tables(N) \cup {buf}
          /\ buf # child
        BY <2>2, <2>3
    <2> HIDE DEF child, res, buf, U, V, S
    <2>8. Sound(grown, U \cup {buf}, S \cup {buf}) /\ grown.ptr[buf] = Fresh(h)
        <3>1. Sound(grown, U \cup {buf}, S \cup {buf})
            BY <1>3, <2>3, Allocation
        <3>2. grown.ptr = [h.ptr EXCEPT ![buf] = Fresh(h)]
            BY DEF mt_alloc
        <3>3. h.ptr \in [Pointers -> Nat \cup {WILD}]
            BY <1>3 DEF Sound
        <3> HIDE DEF grown
        <3> QED
            BY <2>3, <3>1, <3>2, <3>3
    <2> HIDE DEF grown
    <2>9. Sound(freed, V \cup {buf}, (S \cup {buf}) \ {res, child}) /\ freed.ptr = grown.ptr
        BY <2>4, <2>8, Release
    <2> HIDE DEF freed
    <2>10. Sound(disowned, V \cup {buf}, V \cup Tables(N) \cup {buf})
        BY <2>2, <2>5, <2>6, <2>9, Clearing
    <2>11. disowned.ptr[buf] = Fresh(h)
        <3>1. disowned.ptr = [freed.ptr EXCEPT ![child] = NULL]
            BY DEF Assign
        <3>2. freed.ptr \in [Pointers -> Nat \cup {WILD}]
            BY <2>9 DEF Sound
        <3> HIDE DEF disowned
        <3> QED
            BY <2>3, <2>7, <2>8, <2>9, <3>1, <3>2
    <2> HIDE DEF disowned
    <2>12. Sound(Assign(disowned, res, Fresh(h)), U, S)
        <3> DEFINE W == V \cup Tables(N) \cup {buf}
        <3>1. buf \in W /\ buf \in V \cup {buf}
            OBVIOUS
        <3>2. res \notin W /\ (W \ {buf}) \cup {res} = S
            BY <2>7
        <3>3. Sound(disowned, V \cup {buf}, W)
            BY <2>10
        <3> HIDE DEF W
        <3>4. Sound(Assign(disowned, res, disowned.ptr[buf]), ((V \cup {buf}) \ {buf}) \cup {res},
                    (W \ {buf}) \cup {res})
            BY <2>3, <3>1, <3>2, <3>3, Move
        <3> QED
            BY <2>7, <2>11, <3>2, <3>4
    <2> QED
        BY <1>2, <1>4, <1>8, <2>12, Reached
<1>9. \/ h' = h /\ CallSort("attach")
      \/ AlignUnwind(h)
      \/ pc = "attach" /\ pc' = "child" /\ h' = Assign(disowned, res, Fresh(h))
    BY DEF AttachStart, Attach, Disowned, grown, freed, disowned, child, res, buf
<1> QED
    BY <1>6, <1>7, <1>8, <1>9
(* The end of align_concat, and stream_result_rows. *)
LEMMA EndingKeepsOwnership ==
    ASSUME IInv, AlignDone \/ StreamStart \/ StreamRows
    PROVE  Ownership'
<1> DEFINE R  == {Ptr("res")}
           RC == {Ptr("res"), Ptr("chunk")}
<1>1. OwnerTable /\ OwnerTable'
    BY OwnersAtEachPlace, PTL
<1>2. N \in Nat \ {0} /\ tree' = tree
    BY Count DEF IInv, AlignDone, StreamStart, StreamRows
<1>3. Sound(h, InUse(Place), Owners)
    BY DEF IInv, Ownership
<1>4. pc' = "returned" => InUse(Place)' = {} /\ Owners' = {}
    BY <1>1 DEF OwnerTable
<1>5. CASE AlignDone
    <2> DEFINE two  == {Ptr("seq"), Ptr("col_off")}
               E    == {Ptr("expanded")}
               U    == {Ptr("expanded"), Ptr("seq"), Ptr("col_off"), Ptr("res")}
               S    == U \cup Tables(N)
               freed  == FreeAll(h, two)
               tables == free_expanded(freed, N)
    <2>1. pc = "child" /\ pc' = "stream" /\ h' = FreeAll(tables, E)
        BY <1>5 DEF AlignDone, mt_free
    <2>2. Sound(h, U, S)
        BY <1>1, <1>3, <2>1 DEF OwnerTable
    <2>3. /\ \A x : Ptr(x) \notin Tables(N)
          /\ Ptr("expanded") \notin two /\ Ptr("res") \notin two /\ Ptr("res") # Ptr("expanded")
        BY <1>2, TablePointers, Distinct
    <2>4. /\ S \ two = E \cup R \cup Tables(N) /\ U \ two = E \cup R /\ two \subseteq S
          /\ (E \cup R \cup Tables(N)) \ Tables(N) = E \cup R
          /\ Tables(N) \subseteq E \cup R \cup Tables(N)
          /\ (E \cup R) \ Tables(N) = E \cup R
          /\ (E \cup R) \ E = R /\ E \subseteq E \cup R
        BY <2>3
    <2>5. InUse(Place)' = R /\ Owners' = R
        BY <1>1, <2>1 DEF OwnerTable
    <2> HIDE DEF R, two, E, U, S
    <2>6. Sound(freed, E \cup R, E \cup R \cup Tables(N))
        BY <2>2, <2>4, Release
    <2> HIDE DEF freed
    <2>7. Sound(tables, E \cup R, E \cup R)
        BY <1>2, <2>4, <2>6, TablesReleased
    <2> HIDE DEF tables
    <2>8. Sound(FreeAll(tables, E), R, R)
        BY <2>4, <2>7, Release
    <2> QED
        BY <1>2, <2>1, <2>5, <2>8, Reached
<1>6. CASE StreamStart
    <2>1. Sound(h, R, R)
        BY <1>1, <1>3, <1>6 DEF StreamStart, OwnerTable
    <2>2. Ptr("chunk") \notin R
        BY Distinct
    <2>3. R \cup {Ptr("chunk")} = RC /\ R \ R = {}
        OBVIOUS
    <2>4. pc' = "rows" => InUse(Place)' = RC /\ Owners' = RC
        BY <1>1 DEF OwnerTable
    <2>5. Sound(FreeAll(h, R), {}, {})
        BY <2>1, <2>3, Release
    <2>6. CASE pc' = "rows" /\ h' = mt_alloc(h, Ptr("chunk"))
        <3> HIDE DEF R, RC
        <3>1. Sound(mt_alloc(h, Ptr("chunk")), RC, RC)
            BY <2>1, <2>2, <2>3, Allocation, NamedPointers
        <3> QED
            BY <1>2, <2>4, <2>6, <3>1, Reached
    <2>7. CASE pc' = "returned" /\ h' = mt_free(h, Ptr("res"))
        BY <1>2, <1>4, <2>5, <2>7, Reached DEF mt_free
    <2> QED
        BY <1>6, <2>6, <2>7 DEF StreamStart, Return
<1>7. CASE StreamRows
    <2>1. Sound(h, RC, RC)
        BY <1>1, <1>3, <1>7 DEF StreamRows, OwnerTable
    <2>2. RC \ RC = {} /\ {Ptr("chunk"), Ptr("res")} = RC
        OBVIOUS
    <2>3. Sound(FreeAll(h, RC), {}, {})
        BY <2>1, <2>2, Release
    <2>4. pc' = "returned" /\ h' = FreeAll(h, RC)
        BY <1>7, <2>2 DEF StreamRows, Return
    <2> QED
        BY <1>2, <1>4, <2>3, <2>4, Reached
<1> QED
    BY <1>5, <1>6, <1>7

-----------------------------------------------------------------------------
(* Every step keeps the rest of the invariant. *)

(* Where the call is. *)
LEMMA ControlStep ==
    ASSUME IInv, Next
    PROVE  Control'
<1>1. N \in Nat \ {0} /\ k \in 1..(N + 1)
    BY Count DEF IInv, Control
<1>2. tree' = tree /\ N' = N
    BY DEF Next, Start, SortNothing, SortInPlace, SortPadded, Bits, Node, Edge, BottomUpDone, TopDownDone,
           Expand, Distribute, ExpandDone, AlignStart, AlignRoot, AttachStart, Attach, AlignDone,
           StreamStart, StreamRows, Ended, vars, N
<1>3. Control
    BY DEF IInv
<1>4. CASE Start \/ SortNothing \/ SortInPlace \/ SortPadded \/ Bits \/ Ended
    BY <1>1, <1>2, <1>3, <1>4
       DEF Start, SortNothing, SortInPlace, SortPadded, Bits, Ended, vars, Return, Control, Place, Places
<1>5. CASE Node \/ Edge \/ BottomUpDone \/ TopDownDone
    BY <1>1, <1>2, <1>3, <1>5
       DEF Node, Edge, BottomUpDone, TopDownDone, NextNode, CallSort, Return, Control, Place, Places
<1>6. CASE Expand \/ Distribute \/ ExpandDone
    BY <1>1, <1>2, <1>3, <1>6
       DEF Expand, Distribute, ExpandDone, ExpandFails, NextTable, CallSort, Return, Control, Place, Places
<1>7. CASE AlignStart \/ AlignRoot \/ AttachStart \/ Attach \/ AlignDone
    BY <1>1, <1>2, <1>3, <1>7
       DEF AlignStart, AlignRoot, AttachStart, Attach, AlignDone, AlignUnwind, AlignFails, CallSort, Return,
           Control, Place, Places
<1>8. CASE StreamStart \/ StreamRows
    BY <1>1, <1>2, <1>3, <1>8 DEF StreamStart, StreamRows, Return, Control, Place, Places
<1> QED
    BY <1>4, <1>5, <1>6, <1>7, <1>8 DEF Next

(* A step's faults are those before it, with one more at most. *)
LEMMA FaultsOfAStep ==
    ASSUME Next
    PROVE  \/ faults' = faults
           \/ Start /\ faults' = faults \cup {"decryption"}
           \/ faults' = faults \cup {"memory"}
           \/ (Bits \/ StreamRows) /\ faults' = faults \cup {"cipher"}
<1>1. CASE Start \/ SortNothing \/ SortInPlace \/ SortPadded \/ Bits \/ Ended
    BY <1>1 DEF Start, SortNothing, SortInPlace, SortPadded, Bits, Ended, vars, Fault
<1>2. CASE Node \/ Edge \/ BottomUpDone \/ TopDownDone
    BY <1>2 DEF Node, Edge, BottomUpDone, TopDownDone, Fault
<1>3. CASE Expand \/ Distribute \/ ExpandDone
    BY <1>3 DEF Expand, Distribute, ExpandDone, Fault
<1>4. CASE AlignStart \/ AlignRoot \/ AttachStart \/ Attach \/ AlignDone
    BY <1>4 DEF AlignStart, AlignRoot, AttachStart, Attach, AlignDone, Fault
<1>5. CASE StreamStart \/ StreamRows
    BY <1>5 DEF StreamStart, StreamRows, Fault
<1> QED
    BY <1>1, <1>2, <1>3, <1>4, <1>5 DEF Next

(* What the call notices of a fault. *)
LEMMA WhatIsNoticed ==
    /\ faults' = faults => Noticed' = Noticed
    /\ faults' = faults \cup {"decryption"} => Noticed' = Noticed
    /\ faults' = faults \cup {"memory"} => Noticed' = Noticed \cup {"memory"}
    /\ faults' = faults \cup {"cipher"} => Noticed' = Noticed \cup {"cipher"}
BY DEF Noticed

(* What has failed, and who knows. *)
LEMMA FailureStep ==
    ASSUME IInv, Next
    PROVE  Failure'
<1>1. Failure /\ pc \in Places \cup {"sort", "bits"}
      /\ (pc \in {"sort", "bits"} => ret \in {"edge", "distribute", "attach"})
    BY DEF IInv, Control
<1>2. faults' \subseteq {"memory", "cipher", "decryption"}
    BY <1>1, FaultsOfAStep DEF Failure
<1>3. CASE Start \/ SortNothing \/ SortInPlace \/ SortPadded \/ Bits \/ Ended
    <2>1. CASE Start
        BY <1>1, <1>2, <2>1, WhatIsNoticed DEF Start, Return, Fault, Failure, FailureIsReported
    <2>2. CASE SortNothing \/ SortInPlace
        BY <1>1, <1>2, <2>2, WhatIsNoticed DEF SortNothing, SortInPlace, Failure, FailureIsReported
    <2>3. CASE SortPadded
        <3>1. Noticed = {} /\ ok \in BOOLEAN /\ pc = "sort"
            BY <1>1, <2>3 DEF SortPadded, Failure
        <3>2. CASE pc' = "bits" /\ UNCHANGED <<ok, faults>>
            BY <1>2, <3>1, <3>2, WhatIsNoticed DEF Failure, FailureIsReported
        <3>3. CASE pc' = ret /\ ok' = FALSE /\ Fault("memory")
            <4>1. Noticed' # {}
                BY <3>1, <3>3, WhatIsNoticed DEF Fault
            <4>2. pc' \in {"edge", "distribute", "attach"}
                BY <1>1, <3>1, <3>3
            <4> QED
                BY <1>2, <3>3, <4>1, <4>2 DEF Failure, FailureIsReported
        <3> QED
            BY <2>3, <3>2, <3>3 DEF SortPadded
    <2>4. CASE Bits
        <3>1. Noticed = {} /\ pc' \in {"edge", "distribute", "attach"}
            BY <1>1, <2>4 DEF Bits, Failure
        <3>2. \/ ok' = TRUE /\ faults' = faults
              \/ ok' = FALSE /\ faults' = faults \cup {"memory"}
              \/ ok' = FALSE /\ faults' = faults \cup {"cipher"}
            BY <2>4 DEF Bits, Fault
        <3>3. ok' \in BOOLEAN /\ (ok' <=> Noticed' = {})
            BY <3>1, <3>2, WhatIsNoticed
        <3> QED
            BY <1>2, <3>1, <3>3 DEF Failure, FailureIsReported
    <2>5. CASE Ended
        BY <1>1, <2>5, WhatIsNoticed DEF Ended, vars, Failure, FailureIsReported
    <2> QED
        BY <1>3, <2>1, <2>2, <2>3, <2>4, <2>5
<1>4. CASE Node \/ Edge \/ BottomUpDone \/ TopDownDone
    BY <1>1, <1>2, <1>4, WhatIsNoticed
       DEF Node, Edge, BottomUpDone, TopDownDone, NextNode, CallSort, Return, Fault, Failure, SortFailed,
           FailureIsReported
<1>5. CASE Expand \/ Distribute \/ ExpandDone
    BY <1>1, <1>2, <1>5, WhatIsNoticed
       DEF Expand, Distribute, ExpandDone, ExpandFails, NextTable, CallSort, Return, Fault, Failure,
           SortFailed, FailureIsReported
<1>6. CASE AlignStart \/ AlignRoot \/ AttachStart \/ Attach \/ AlignDone
    BY <1>1, <1>2, <1>6, WhatIsNoticed
       DEF AlignStart, AlignRoot, AttachStart, Attach, AlignDone, AlignUnwind, AlignFails, CallSort, Return,
           Fault, Failure, SortFailed, FailureIsReported
<1>7. CASE StreamStart \/ StreamRows
    BY <1>1, <1>2, <1>7, WhatIsNoticed
       DEF StreamStart, StreamRows, Return, Fault, Failure, FailureIsReported
<1> QED
    BY <1>3, <1>4, <1>5, <1>6, <1>7 DEF Next

(* Who owns what. *)
LEMMA OwnershipStep ==
    ASSUME IInv, Next
    PROVE  Ownership'
<1>1. CASE Ended
    BY <1>1 DEF IInv, Ownership, Ended, vars, Sound, Pointers, Nodes, InUse, Place, Owners, Held, Tables, Rows,
                Ptr, Padded, N
<1> QED
    BY <1>1, SortKeepsOwnership, PhasesKeepOwnership, ExpansionKeepsOwnership, AlignmentStartKeepsOwnership,
       AlignmentRootKeepsOwnership, AttachingKeepsOwnership, EndingKeepsOwnership
       DEF Next

(* The invariant holds at the start of the call. *)
LEMMA InitIInv == Init => IInv
<1> SUFFICES ASSUME Init PROVE IInv
    OBVIOUS
<1>1. Len(tree) \in Nat \ {0}
    BY TreesAssumption DEF Init
<1>2. Control
    BY <1>1 DEF Init, Control, Place, Places, N
<1>3. Failure
    BY DEF Init, Failure, FailureIsReported, Noticed
<1>4. InUse(Place) = {} /\ Owners = {}
    BY OwnersAtEachPlace DEF Init, OwnerTable
<1>5. /\ h.live = {} /\ h.g_live = 0 /\ ~h.bad
      /\ h.ptr = [p \in Pointers |-> WILD]
    BY DEF Init
<1>6. h.ptr \in [Pointers -> Nat \cup {WILD}]
    BY <1>5
<1>7. Sound(h, {}, {})
    BY <1>5, <1>6, FS_EmptySet DEF Sound
<1> QED
    BY <1>2, <1>3, <1>4, <1>7 DEF IInv, Ownership

(* One owner for each live buffer at every point of every call. *)
THEOREM Invariance == Spec => []IInv
<1>1. IInv /\ [Next]_vars => IInv'
    <2> SUFFICES ASSUME IInv, [Next]_vars PROVE IInv'
        OBVIOUS
    <2>1. CASE Next
        BY <2>1, ControlStep, FailureStep, OwnershipStep DEF IInv
    <2>2. CASE UNCHANGED vars
        <3>1. Control'
            BY <2>2 DEF IInv, Control, vars, Place, Places, N
        <3>2. Failure'
            BY <2>2 DEF IInv, Failure, FailureIsReported, Noticed, vars
        <3>3. Ownership'
            BY <2>2 DEF IInv, Ownership, vars, Sound, Pointers, Nodes, InUse, Place, Owners, Held, Tables,
                        Rows, Ptr, Padded, N
        <3> QED
            BY <3>1, <3>2, <3>3 DEF IInv
    <2> QED
        BY <2>1, <2>2
<1> QED
    BY InitIInv, <1>1, PTL DEF Spec

-----------------------------------------------------------------------------
(* The properties. *)

(* At every point of the call, and on every way out of a failure, a live   *)
(* buffer belongs to exactly one of the pointers that the code will still  *)
(* release, and nothing was released wrongly.                              *)
THEOREM Owned == Spec => []HeapInvariant
<1>1. IInv => HeapInvariant
    <2> SUFFICES ASSUME IInv PROVE HeapInvariant
        OBVIOUS
    <2>1. faults \subseteq {"memory", "cipher", "decryption"}
        BY DEF IInv, Failure
    <2>2. TypeOK
        BY <2>1 DEF IInv, Control, Places, Ownership, Sound, TypeOK
    <2>3. NoBadFree /\ OneOwnerEach
        BY DEF IInv, Ownership, Sound, NoBadFree, OneOwnerEach
    <2> QED
        BY <2>2, <2>3 DEF HeapInvariant
<1> QED
    BY Invariance, <1>1, PTL

(* No tracked byte is live when the call has returned, with success or     *)
(* after a failure anywhere.                                               *)
THEOREM NoLeak == Spec => []NothingLeaks
<1>1. IInv => NothingLeaks
    <2> SUFFICES ASSUME IInv, pc = "returned" PROVE h.live = {} /\ h.g_live = 0
        BY DEF NothingLeaks
    <2>1. Sound(h, {}, {})
        BY OwnersAtEachPlace DEF IInv, Ownership, OwnerTable
    <2> QED
        BY <2>1, NothingOwned
<1> QED
    BY Invariance, <1>1, PTL

(* The call reports success exactly when no allocation, key or key stream  *)
(* failed on the way, in whatever phase, and blames the cipher only when   *)
(* it was the cipher.  The decryption of the caller's rows, whose status   *)
(* the call ignores, is never reported.                                    *)
THEOREM Reported == Spec => []FailureIsReported
<1>1. IInv => FailureIsReported
    BY DEF IInv, Failure
<1> QED
    BY Invariance, <1>1, PTL

=============================================================================
