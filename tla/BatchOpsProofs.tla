--------------------------- MODULE BatchOpsProofs ---------------------------
(***************************************************************************)
(* What the batching engine's passes are made of, for every batch, table   *)
(* and order: what a batch does to its table when it is flushed (the       *)
(* collector, the dispatcher and the write-back of BatchOps), how often a  *)
(* row is in a sequence, what heap_push and heap_pop keep, and that        *)
(* heap_sort sorts.                                                        *)
(***************************************************************************)
EXTENDS BatchOps, MinHeap, FiniteSetTheorems, WellFoundedInduction, SequenceTheorems, TLAPS

Transforms == {"TRANSFORM_INIT_DST_IDX", "TRANSFORM_MARK_ZERO_MULT_PADDING",
               "TRANSFORM_CREATE_DIST_PADDING"}
Windows    == {"WINDOW_COMPUTE_DST_IDX", "WINDOW_EXPAND_COPY"}

Size(b) == Len(b.entry_pointers)

(* A batch collected from table t: each row once, as it is in the table,   *)
(* and operations that name rows of the batch.                             *)
WellFormed(b, t) ==
    /\ b = [entry_pointers |-> b.entry_pointers, batch_data |-> b.batch_data,
            operations |-> b.operations]
    /\ b.entry_pointers \in Seq(DOMAIN t)
    /\ \A j, l \in 1..Size(b) : b.entry_pointers[j] = b.entry_pointers[l] => j = l
    /\ b.batch_data = [j \in 1..Size(b) |-> t[b.entry_pointers[j]]]
    /\ b.operations \in Seq((1..Size(b)) \X (0..Size(b)))

(* The operation is one of those that the op code is for. *)
Fits(op, o) == IF o[2] = BATCH_NO_PARAM THEN op \in Transforms ELSE op \in Windows

AllFit(op, b) == \A n \in 1..Len(b.operations) : Fits(op, b.operations[n])

(* The table as flushing the batch would leave it, clear of the flags.     *)
Effect(op, t, b) == [r \in DOMAIN t |-> Decrypted(Flushed(op, t, b)[r])]

-----------------------------------------------------------------------------
(* Numbers and sequences. *)

(* A set of numbers that is not empty has a smallest one. *)
LEMMA Smallest ==
    ASSUME NEW T, T \subseteq Nat, T # {}
    PROVE  \E x \in T : \A y \in T : x <= y
<1>1. \E x \in T : \A y \in T : ~ (<<y, x>> \in OpToRel(<, Nat))
    BY NatLessThanWellFounded, WFMin
<1>2. \A x, y \in T : ~ (<<y, x>> \in OpToRel(<, Nat)) => x <= y
    <2> SUFFICES ASSUME NEW x \in T, NEW y \in T, ~ (x <= y)
                 PROVE  <<y, x>> \in OpToRel(<, Nat)
        OBVIOUS
    <2>1. y < x /\ <<y, x>> \in Nat \X Nat
        OBVIOUS
    <2> QED
        BY <2>1 DEF OpToRel
<1> QED
    BY <1>1, <1>2

(* What holds at 0, and at a number if at the one before, holds up to m:   *)
(* here T is the set of the numbers at which it does not.                  *)
LEMMA UpTo ==
    ASSUME NEW m \in Nat, NEW T, 0 \notin T,
           \A n \in 1..m : n - 1 \notin T => n \notin T
    PROVE  \A n \in 0..m : n \notin T
<1> SUFFICES ASSUME {n \in 0..m : n \in T} # {} PROVE FALSE
    OBVIOUS
<1> DEFINE bad == {n \in 0..m : n \in T}
<1>1. PICK x \in bad : \A y \in bad : x <= y
    <2>1. bad \subseteq Nat /\ bad # {}
        OBVIOUS
    <2> HIDE DEF bad
    <2> QED
        BY <2>1, Smallest
<1>2. x \in 1..m /\ x - 1 \in 0..m
    OBVIOUS
<1>3. x - 1 \notin T
    BY <1>1, <1>2
<1> QED
    BY <1>2, <1>3

(* A sequence, of whatever elements. *)
IsSeq(t) == Len(t) \in Nat /\ t = [j \in 1..Len(t) |-> t[j]]

-----------------------------------------------------------------------------
(* Rows. *)

(* The row operations and the flag do not see each other. *)
LEMMA FlagApart ==
    /\ \A e : Decrypted(Decrypted(e)) = Decrypted(e)
    /\ \A e, enc : Decrypted(WithFlag(e, enc)) = Decrypted(e)
    /\ \A op \in Transforms : \A e :
          Decrypted(transform(op, Decrypted(e))) = transform(op, Decrypted(e))
    /\ \A op \in Windows : \A e, f :
          Decrypted(window(op, Decrypted(e), Decrypted(f))) = window(op, Decrypted(e), Decrypted(f))
<1>1. \A e, enc : Decrypted(WithFlag(e, enc)) = Decrypted(e)
    BY DEF Decrypted, WithFlag, Row
<1>2. ASSUME NEW op \in Transforms, NEW e
      PROVE  Decrypted(transform(op, Decrypted(e))) = transform(op, Decrypted(e))
    BY DEF Transforms, transform, Decrypted, WithFlag, WithDestination, WithType, Row
<1>3. ASSUME NEW op \in Windows, NEW e, NEW f
      PROVE  Decrypted(window(op, Decrypted(e), Decrypted(f))) = window(op, Decrypted(e), Decrypted(f))
    BY DEF Windows, window, Decrypted, WithFlag, WithDestination, Row
<1> QED
    BY <1>1, <1>2, <1>3 DEF Decrypted

(* The same, for rows that carry flags. *)
LEMMA FlagIgnored ==
    /\ \A op \in Transforms : \A e : Decrypted(transform(op, e)) = transform(op, Decrypted(e))
    /\ \A op \in Windows : \A e, f :
          Decrypted(window(op, e, f)) = window(op, Decrypted(e), Decrypted(f))
<1>1. ASSUME NEW op \in Transforms, NEW e
      PROVE  Decrypted(transform(op, e)) = transform(op, Decrypted(e))
    BY DEF Transforms, transform, Decrypted, WithFlag, WithDestination, WithType, Row
<1>2. ASSUME NEW op \in Windows, NEW e, NEW f
      PROVE  Decrypted(window(op, e, f)) = window(op, Decrypted(e), Decrypted(f))
    BY DEF Windows, window, Decrypted, WithFlag, WithDestination, Row
<1> QED
    BY <1>1, <1>2

-----------------------------------------------------------------------------
(* The dispatcher. *)

(* The rows after each of the first m operations. *)
IsRun(run, op, data, ops, m) ==
    run = [n \in 0..m |-> IF n = 0 THEN [j \in DOMAIN data |-> Decrypted(data[j])]
                          ELSE Step(op, run[n - 1], ops[n])]

(* The recursion that defines a run has a solution. *)
LEMMA RunExists ==
    ASSUME NEW op, NEW data, NEW ops, NEW m \in Nat
    PROVE  \E run : IsRun(run, op, data, ops, m)
<1> DEFINE first == [j \in DOMAIN data |-> Decrypted(data[j])]
           Solves(run, x) == run = [n \in 0..x |-> IF n = 0 THEN first ELSE Step(op, run[n - 1], ops[n])]
           T == {x \in Nat : ~ \E run : Solves(run, x)}
<1> HIDE DEF first
<1>1. 0 \notin T
    <2>1. Solves([n \in 0..0 |-> first], 0)
        OBVIOUS
    <2> QED
        BY <2>1
<1>2. ASSUME NEW x \in 1..m, x - 1 \notin T PROVE x \notin T
    <2>1. PICK run : Solves(run, x - 1)
        BY <1>2
    <2> DEFINE new == [n \in 0..x |-> IF n = x THEN Step(op, run[x - 1], ops[x]) ELSE run[n]]
    <2>2. \A n \in 0..x : n # x => new[n] = run[n]
        OBVIOUS
    <2>3. ASSUME NEW n \in 0..x
          PROVE  new[n] = IF n = 0 THEN first ELSE Step(op, new[n - 1], ops[n])
        <3>1. CASE n = x
            BY <3>1, <2>2
        <3>2. CASE n # x
            <4>1. n \in 0..(x - 1) /\ (n # 0 => n - 1 \in 0..x /\ n - 1 # x)
                BY <3>2
            <4>2. run[n] = IF n = 0 THEN first ELSE Step(op, run[n - 1], ops[n])
                BY <2>1, <4>1
            <4> HIDE DEF new
            <4> QED
                BY <2>2, <3>2, <4>1, <4>2
        <3> QED
            BY <3>1, <3>2
    <2>4. new = [n \in 0..x |-> new[n]]
        OBVIOUS
    <2>5. Solves(new, x)
        <3> HIDE DEF new
        <3> QED
            BY <2>3, <2>4
    <2> QED
        BY <2>5
<1>3. m \notin T
    <2> HIDE DEF T
    <2>1. \A n \in 0..m : n \notin T
        BY <1>1, <1>2, UpTo
    <2> QED
        BY <2>1
<1>4. PICK run : Solves(run, m)
    BY <1>3
<1>5. IsRun(run, op, data, ops, m)
    BY <1>4 DEF first, IsRun
<1> QED
    BY <1>5

RunSteps(run, op, data, ops) ==
    /\ run[0] = [j \in DOMAIN data |-> Decrypted(data[j])]
    /\ \A n \in 1..Len(ops) : run[n] = Step(op, run[n - 1], ops[n])

(* The run begins with the rows decrypted and goes on operation by operation. *)
LEMMA RunEquation ==
    ASSUME NEW op, NEW data, NEW ops, Len(ops) \in Nat
    PROVE  RunSteps(Run(op, data, ops), op, data, ops)
<1>1. \E run : IsRun(run, op, data, ops, Len(ops))
    BY RunExists
<1>2. Run(op, data, ops) = CHOOSE run : IsRun(run, op, data, ops, Len(ops))
    BY DEF Run, IsRun
<1>3. IsRun(Run(op, data, ops), op, data, ops, Len(ops))
    BY <1>1, <1>2
<1> HIDE DEF Run
<1> QED
    BY <1>3 DEF IsRun, RunSteps

(* An operation writes one row. *)
Written(op, data, o, j) ==
    IF o[2] = BATCH_NO_PARAM
    THEN IF j = o[1] THEN transform(op, data[j]) ELSE data[j]
    ELSE IF j = o[2] THEN window(op, data[o[1]], data[j]) ELSE data[j]

(* An operation writes the row it is for, and no other. *)
LEMMA StepWrites ==
    ASSUME NEW op, NEW data, NEW o
    PROVE  /\ DOMAIN Step(op, data, o) = DOMAIN data
           /\ \A j \in DOMAIN data : Step(op, data, o)[j] = Written(op, data, o, j)
BY DEF Step, Written

(* Rows stay decrypted while the operations run. *)
LEMMA RunIsPlain ==
    ASSUME NEW op, NEW data, NEW ops, Len(ops) \in Nat,
           \A n \in 1..Len(ops) :
               /\ ops[n][1] \in DOMAIN data /\ ops[n][2] \in DOMAIN data \cup {BATCH_NO_PARAM}
               /\ Fits(op, ops[n])
    PROVE  \A n \in 0..Len(ops) :
               /\ DOMAIN Run(op, data, ops)[n] = DOMAIN data
               /\ \A j \in DOMAIN data : Decrypted(Run(op, data, ops)[n][j]) = Run(op, data, ops)[n][j]
<1> DEFINE run == Run(op, data, ops)
           Plain(d) == DOMAIN d = DOMAIN data /\ \A j \in DOMAIN data : Decrypted(d[j]) = d[j]
           T == {n \in Nat : ~Plain(run[n])}
<1>1. /\ run[0] = [j \in DOMAIN data |-> Decrypted(data[j])]
      /\ \A n \in 1..Len(ops) : run[n] = Step(op, run[n - 1], ops[n])
    BY RunEquation DEF RunSteps
<1>2. 0 \notin T
    <2> HIDE DEF run
    <2> QED
        BY <1>1, FlagApart
<1>3. ASSUME NEW n \in 1..Len(ops), n - 1 \notin T PROVE n \notin T
    <2> DEFINE d == run[n - 1]
               o == ops[n]
    <2>1. Plain(d)
        BY <1>3
    <2>2. run[n] = Step(op, d, o)
        BY <1>1
    <2>3. /\ o[1] \in DOMAIN data /\ o[2] \in DOMAIN data \cup {BATCH_NO_PARAM}
          /\ Fits(op, o)
        OBVIOUS
    <2> HIDE DEF run, d, o
    <2>4. DOMAIN run[n] = DOMAIN data /\ \A j \in DOMAIN data : run[n][j] = Written(op, d, o, j)
        BY <2>1, <2>2, StepWrites
    <2>5. ASSUME NEW j \in DOMAIN data PROVE Decrypted(Written(op, d, o, j)) = Written(op, d, o, j)
        <3>1. CASE o[2] = BATCH_NO_PARAM
            <4>1. op \in Transforms
                BY <2>3, <3>1 DEF Fits
            <4>2. Decrypted(transform(op, d[j])) = transform(op, d[j])
                BY <2>1, <4>1, FlagApart
            <4> QED
                BY <2>1, <3>1, <4>2 DEF Written
        <3>2. CASE o[2] # BATCH_NO_PARAM
            <4>1. op \in Windows
                BY <2>3, <3>2 DEF Fits
            <4>2. Decrypted(window(op, d[o[1]], d[j])) = window(op, d[o[1]], d[j])
                BY <2>1, <2>3, <4>1, FlagApart
            <4> QED
                BY <2>1, <3>2, <4>2 DEF Written
        <3> QED
            BY <3>1, <3>2
    <2> QED
        BY <2>4, <2>5
<1>4. \A n \in 0..Len(ops) : n \notin T
    <2> HIDE DEF T
    <2> QED
        BY <1>2, <1>3, UpTo
<1> QED
    BY <1>4

(* More rows and more operations at the end. *)
ExtendedTo(moreData, moreOps, data, ops) ==
    /\ Len(ops) \in Nat /\ Len(moreOps) \in Nat /\ Len(ops) <= Len(moreOps)
    /\ BATCH_NO_PARAM \notin DOMAIN moreData /\ DOMAIN data \subseteq DOMAIN moreData
    /\ \A j \in DOMAIN data : moreData[j] = data[j]
    /\ \A n \in 1..Len(ops) :
          /\ moreOps[n] = ops[n]
          /\ ops[n][1] \in DOMAIN data /\ ops[n][2] \in DOMAIN data \cup {BATCH_NO_PARAM}

(* They change nothing so far: the rows that were there run as before, the *)
(* others stay what they were.                                             *)
LEMMA RunExtends ==
    ASSUME NEW op, NEW data, NEW ops, NEW moreData, NEW moreOps, ExtendedTo(moreData, moreOps, data, ops)
    PROVE  \A n \in 0..Len(ops) :
               /\ DOMAIN Run(op, data, ops)[n] = DOMAIN data
               /\ DOMAIN Run(op, moreData, moreOps)[n] = DOMAIN moreData
               /\ \A j \in DOMAIN data : Run(op, moreData, moreOps)[n][j] = Run(op, data, ops)[n][j]
               /\ \A j \in DOMAIN moreData : j \notin DOMAIN data =>
                     Run(op, moreData, moreOps)[n][j] = Decrypted(moreData[j])
<1> USE DEF ExtendedTo
<1> DEFINE run  == Run(op, data, ops)
           more == Run(op, moreData, moreOps)
           Agree(d, e) == /\ DOMAIN d = DOMAIN data /\ DOMAIN e = DOMAIN moreData
                          /\ \A j \in DOMAIN data : e[j] = d[j]
                          /\ \A j \in DOMAIN moreData : j \notin DOMAIN data =>
                                e[j] = Decrypted(moreData[j])
           T == {n \in Nat : ~Agree(run[n], more[n])}
<1>1. /\ run[0] = [j \in DOMAIN data |-> Decrypted(data[j])]
      /\ \A n \in 1..Len(ops) : run[n] = Step(op, run[n - 1], ops[n])
    BY RunEquation DEF RunSteps
<1>0. /\ more[0] = [j \in DOMAIN moreData |-> Decrypted(moreData[j])]
      /\ \A n \in 1..Len(moreOps) : more[n] = Step(op, more[n - 1], moreOps[n])
    BY RunEquation DEF RunSteps
<1>2. 0 \notin T
    <2> HIDE DEF run, more
    <2>1. Agree(run[0], more[0])
        BY <1>0, <1>1
    <2> QED
        BY <2>1
<1>3. ASSUME NEW n \in 1..Len(ops), n - 1 \notin T PROVE n \notin T
    <2> DEFINE d == run[n - 1]
               e == more[n - 1]
               o == ops[n]
    <2>1. Agree(d, e)
        BY <1>3
    <2>2. run[n] = Step(op, d, o)
        BY <1>1
    <2>3. more[n] = Step(op, e, o)
        <3>1. n \in 1..Len(moreOps) /\ moreOps[n] = o
            OBVIOUS
        <3> HIDE DEF more, o
        <3> QED
            BY <1>0, <3>1
    <2>4. /\ o[1] \in DOMAIN data /\ o[2] \in DOMAIN data \cup {BATCH_NO_PARAM}
        OBVIOUS
    <2> HIDE DEF run, more, d, e, o
    <2>5. DOMAIN run[n] = DOMAIN data /\ \A j \in DOMAIN data : run[n][j] = Written(op, d, o, j)
        BY <2>1, <2>2, StepWrites
    <2>6. DOMAIN more[n] = DOMAIN moreData /\ \A j \in DOMAIN moreData : more[n][j] = Written(op, e, o, j)
        BY <2>1, <2>3, StepWrites
    <2>7. ASSUME NEW j \in DOMAIN data PROVE Written(op, e, o, j) = Written(op, d, o, j)
        <3>1. e[j] = d[j] /\ e[o[1]] = d[o[1]]
            BY <2>1, <2>4
        <3> QED
            BY <3>1 DEF Written
    <2>8. ASSUME NEW j \in DOMAIN moreData, j \notin DOMAIN data
          PROVE  Written(op, e, o, j) = Decrypted(moreData[j])
        <3>1. e[j] = Decrypted(moreData[j])
            BY <2>1, <2>8
        <3>2. j # o[1] /\ (o[2] # BATCH_NO_PARAM => j # o[2])
            BY <2>4, <2>8
        <3> QED
            BY <3>1, <3>2 DEF Written
    <2>9. Agree(run[n], more[n])
        BY <2>5, <2>6, <2>7, <2>8
    <2> QED
        BY <2>9
<1>4. \A n \in 0..Len(ops) : n \notin T
    <2> HIDE DEF T
    <2> QED
        BY <1>2, <1>3, UpTo
<1> QED
    BY <1>4

-----------------------------------------------------------------------------
(* The collector. *)

(* The sizes and types in a well-formed batch. *)
LEMMA BatchTypes ==
    ASSUME NEW t, NEW b, WellFormed(b, t)
    PROVE  /\ Size(b) \in Nat /\ Len(b.operations) \in Nat
           /\ DOMAIN b.entry_pointers = 1..Size(b) /\ DOMAIN b.operations = 1..Len(b.operations)
           /\ DOMAIN b.batch_data = 1..Size(b) /\ Len(b.batch_data) = Size(b)
           /\ \A j \in 1..Size(b) : b.entry_pointers[j] \in DOMAIN t
                                   /\ b.batch_data[j] = t[b.entry_pointers[j]]
           /\ \A n \in 1..Len(b.operations) :
                 b.operations[n][1] \in 1..Size(b) /\ b.operations[n][2] \in 0..Size(b)
<1>1. Size(b) \in Nat /\ DOMAIN b.entry_pointers = 1..Size(b)
      /\ b.entry_pointers \in [1..Size(b) -> DOMAIN t]
    BY LenProperties DEF WellFormed, Size
<1>2. Len(b.operations) \in Nat /\ DOMAIN b.operations = 1..Len(b.operations)
      /\ b.operations \in [1..Len(b.operations) -> (1..Size(b)) \X (0..Size(b))]
    BY LenProperties DEF WellFormed
<1>3. \A n \in 1..Len(b.operations) :
          b.operations[n][1] \in 1..Size(b) /\ b.operations[n][2] \in 0..Size(b)
    BY <1>2
<1>4. DOMAIN b.batch_data = 1..Size(b)
      /\ \A j \in 1..Size(b) : b.batch_data[j] = t[b.entry_pointers[j]]
    BY DEF WellFormed
<1>5. Len(b.batch_data) = Size(b)
    BY <1>1, <1>4
<1> QED
    BY <1>1, <1>2, <1>3, <1>4, <1>5

(* Flushing writes back what the run has made of the rows collected.       *)
LEMMA EffectOfFlush ==
    ASSUME NEW op, NEW t, NEW b, WellFormed(b, t), AllFit(op, b), NEW r \in DOMAIN t
    PROVE  /\ \A j \in 1..Size(b) :
                 b.entry_pointers[j] = r =>
                     Effect(op, t, b)[r] = Run(op, b.batch_data, b.operations)[Len(b.operations)][j]
           /\ (\A j \in 1..Size(b) : b.entry_pointers[j] # r) =>
                     Effect(op, t, b)[r] = Decrypted(t[r])
<1> DEFINE ptr  == b.entry_pointers
           done == Run(op, b.batch_data, b.operations)[Len(b.operations)]
           data == batch_dispatcher(op, b.batch_data, b.operations)
           copies(q) == {j \in DOMAIN data : ptr[j] = q}
           row == IF copies(r) = {} THEN t[r]
                  ELSE data[CHOOSE j \in copies(r) : \A l \in copies(r) : l <= j]
<1>1. /\ Size(b) \in Nat /\ Len(b.operations) \in Nat /\ DOMAIN b.batch_data = 1..Size(b)
      /\ \A n \in 1..Len(b.operations) :
            /\ b.operations[n][1] \in DOMAIN b.batch_data
            /\ b.operations[n][2] \in DOMAIN b.batch_data \cup {BATCH_NO_PARAM}
            /\ Fits(op, b.operations[n])
    BY BatchTypes DEF AllFit, BATCH_NO_PARAM
<1>2. \A j \in 1..Size(b) : Decrypted(done[j]) = done[j]
    <2>1. Len(b.operations) \in 0..Len(b.operations)
        BY <1>1
    <2> QED
        BY <1>1, <2>1, RunIsPlain
<1>3. DOMAIN data = 1..Size(b)
      /\ \A j \in 1..Size(b) : data[j] = WithFlag(done[j], b.batch_data[j].is_encrypted)
    BY <1>1 DEF batch_dispatcher
<1>4. Effect(op, t, b)[r] = Decrypted(row)
    BY DEF Effect, Flushed, write_back
<1> HIDE DEF data, done
<1>5. ASSUME NEW j \in 1..Size(b), ptr[j] = r PROVE Effect(op, t, b)[r] = done[j]
    <2>1. copies(r) = {j}
        BY <1>3, <1>5 DEF WellFormed
    <2>2. (CHOOSE x \in copies(r) : \A l \in copies(r) : l <= x) = j
        <3>1. j <= j
            BY <1>1
        <3> HIDE DEF copies
        <3> QED
            BY <2>1, <3>1
    <2>3. row = data[j]
        <3> HIDE DEF copies
        <3> QED
            BY <2>1, <2>2
    <2> HIDE DEF row
    <2>4. Decrypted(data[j]) = done[j]
        BY <1>2, <1>3, FlagApart
    <2> QED
        BY <1>4, <2>3, <2>4
<1>6. ASSUME \A j \in 1..Size(b) : ptr[j] # r PROVE Effect(op, t, b)[r] = Decrypted(t[r])
    <2>1. copies(r) = {}
        BY <1>3, <1>6
    <2> QED
        BY <1>4, <2>1
<1> QED
    BY <1>5, <1>6 DEF done

(* A row that is added to the batch is there once, as it is in the table.  *)
LEMMA Collecting ==
    ASSUME NEW t, NEW b, WellFormed(b, t), NEW p \in DOMAIN t
    PROVE  LET c == Collect(b, t, p)
           IN  /\ WellFormed(c, t)
               /\ c.operations = b.operations
               /\ Size(b) <= Size(c)
               /\ \A j \in 1..Size(b) : c.entry_pointers[j] = b.entry_pointers[j]
               /\ \A j \in 1..Size(c) : j > Size(b) => c.entry_pointers[j] = p
               /\ \E j \in 1..Size(c) : c.entry_pointers[j] = p
<1> DEFINE m == Size(b)
           c == Collect(b, t, p)
<1>1. /\ m \in Nat /\ DOMAIN b.entry_pointers = 1..m /\ DOMAIN b.batch_data = 1..m
      /\ \A j \in 1..m : b.entry_pointers[j] \in DOMAIN t
                        /\ b.batch_data[j] = t[b.entry_pointers[j]]
    BY BatchTypes
<1>2. CASE \E j \in DOMAIN b.entry_pointers : b.entry_pointers[j] = p
    <2>1. c = b
        BY <1>2 DEF Collect
    <2> QED
        BY <1>1, <1>2, <2>1
<1>3. CASE \A j \in DOMAIN b.entry_pointers : b.entry_pointers[j] # p
    <2>1. c = Copied(b, t, p)
        BY <1>3 DEF Collect
    <2>2. /\ c.entry_pointers = Append(b.entry_pointers, p)
          /\ c.batch_data = Append(b.batch_data, t[p])
          /\ c.operations = b.operations
          /\ c = [entry_pointers |-> c.entry_pointers, batch_data |-> c.batch_data,
                  operations |-> c.operations]
        BY <2>1 DEF Copied
    <2> HIDE DEF c
    <2>3. /\ c.entry_pointers \in Seq(DOMAIN t) /\ Size(c) = m + 1
          /\ \A j \in 1..m : c.entry_pointers[j] = b.entry_pointers[j]
          /\ c.entry_pointers[m + 1] = p
        <3>1. b.entry_pointers \in Seq(DOMAIN t)
            BY DEF WellFormed
        <3> QED
            BY <2>2, <3>1, AppendProperties DEF Size
    <2>4. \A j \in 1..(m + 1) : j \in 1..m \/ j = m + 1
        BY <1>1
    <2>5. \A j, l \in 1..(m + 1) : c.entry_pointers[j] = c.entry_pointers[l] => j = l
        BY <1>1, <1>3, <2>3, <2>4 DEF WellFormed
    <2>6. c.batch_data = [j \in 1..(m + 1) |-> t[c.entry_pointers[j]]]
        <3> DEFINE S == {t[q] : q \in DOMAIN t}
        <3>1. b.batch_data \in [1..m -> S]
            BY <1>1 DEF WellFormed
        <3>2. b.batch_data \in Seq(S) /\ Len(b.batch_data) = m
            <4>1. b.batch_data \in Seq(S)
                BY <1>1, <3>1
            <4> QED
                BY <1>1, <4>1, LenProperties
        <3>3. t[p] \in S
            OBVIOUS
        <3> HIDE DEF S
        <3>4. /\ c.batch_data \in Seq(S) /\ Len(c.batch_data) = m + 1
              /\ \A j \in 1..m : c.batch_data[j] = b.batch_data[j]
              /\ c.batch_data[m + 1] = t[p]
            BY <2>2, <3>2, <3>3, AppendProperties
        <3>5. c.batch_data = [j \in 1..(m + 1) |-> c.batch_data[j]]
            BY <3>4, LenProperties
        <3>6. \A j \in 1..(m + 1) : c.batch_data[j] = t[c.entry_pointers[j]]
            BY <1>1, <2>3, <2>4, <3>4
        <3> QED
            BY <3>5, <3>6
    <2>7. c.operations \in Seq((1..Size(c)) \X (0..Size(c)))
        <3>1. (1..m) \X (0..m) \subseteq (1..(m + 1)) \X (0..(m + 1))
            BY <1>1
        <3>2. b.operations \in Seq((1..m) \X (0..m))
            BY DEF WellFormed
        <3> QED
            BY <2>2, <2>3, <3>1, <3>2, SeqMonotonic
    <2>8. WellFormed(c, t)
        BY <2>2, <2>3, <2>5, <2>6, <2>7 DEF WellFormed
    <2>9. /\ \A j \in 1..Size(c) : j > m => c.entry_pointers[j] = p
          /\ m <= Size(c) /\ m + 1 \in 1..Size(c)
        BY <1>1, <2>3, <2>4
    <2> QED
        BY <2>2, <2>3, <2>8, <2>9 DEF c
<1> QED
    BY <1>2, <1>3

(* Collecting a row changes nothing of what the flush will do.             *)
LEMMA CollectingHasNoEffect ==
    ASSUME NEW op, NEW t, NEW b, WellFormed(b, t), AllFit(op, b), NEW p \in DOMAIN t
    PROVE  Effect(op, t, Collect(b, t, p)) = Effect(op, t, b) /\ AllFit(op, Collect(b, t, p))
<1> DEFINE c == Collect(b, t, p)
           L == Len(b.operations)
<1>1. /\ WellFormed(c, t) /\ c.operations = b.operations /\ Size(b) <= Size(c)
      /\ \A j \in 1..Size(b) : c.entry_pointers[j] = b.entry_pointers[j]
      /\ \A j \in 1..Size(c) : j > Size(b) => c.entry_pointers[j] = p
    BY Collecting
<1> HIDE DEF c
<1>2. AllFit(op, c)
    BY <1>1 DEF AllFit
<1>3. /\ Size(b) \in Nat /\ L \in Nat /\ DOMAIN b.batch_data = 1..Size(b)
      /\ \A j \in 1..Size(b) : b.batch_data[j] = t[b.entry_pointers[j]]
      /\ \A n \in 1..L : b.operations[n][1] \in 1..Size(b) /\ b.operations[n][2] \in 0..Size(b)
    BY BatchTypes
<1>4. /\ Size(c) \in Nat /\ DOMAIN c.batch_data = 1..Size(c)
      /\ \A j \in 1..Size(c) : c.batch_data[j] = t[c.entry_pointers[j]]
    BY <1>1, BatchTypes
<1>5. /\ \A j \in 1..Size(b) : Run(op, c.batch_data, c.operations)[L][j]
                                  = Run(op, b.batch_data, b.operations)[L][j]
      /\ \A j \in 1..Size(c) : j \notin 1..Size(b) =>
            Run(op, c.batch_data, c.operations)[L][j] = Decrypted(c.batch_data[j])
    <2>1. /\ BATCH_NO_PARAM \notin DOMAIN c.batch_data
          /\ DOMAIN b.batch_data \subseteq DOMAIN c.batch_data
          /\ \A j \in DOMAIN b.batch_data : c.batch_data[j] = b.batch_data[j]
        <3>1. BATCH_NO_PARAM \notin DOMAIN c.batch_data
            BY <1>4 DEF BATCH_NO_PARAM
        <3>2. DOMAIN b.batch_data \subseteq DOMAIN c.batch_data
            BY <1>1, <1>3, <1>4
        <3>3. ASSUME NEW j \in DOMAIN b.batch_data PROVE c.batch_data[j] = b.batch_data[j]
            <4>1. j \in 1..Size(b) /\ j \in 1..Size(c)
                BY <1>3, <1>4, <3>2
            <4>2. c.batch_data[j] = t[c.entry_pointers[j]] /\ b.batch_data[j] = t[b.entry_pointers[j]]
                BY <1>3, <1>4, <4>1
            <4> QED
                BY <1>1, <4>1, <4>2
        <3> QED
            BY <3>1, <3>2, <3>3
    <2>2. \A n \in 1..L : /\ c.operations[n] = b.operations[n]
                          /\ b.operations[n][1] \in DOMAIN b.batch_data
                          /\ b.operations[n][2] \in DOMAIN b.batch_data \cup {BATCH_NO_PARAM}
        BY <1>1, <1>3 DEF BATCH_NO_PARAM
    <2>3. Len(b.operations) \in Nat /\ Len(c.operations) \in Nat
          /\ Len(b.operations) <= Len(c.operations) /\ L \in 0..Len(b.operations)
        BY <1>1, <1>3
    <2>4. ExtendedTo(c.batch_data, c.operations, b.batch_data, b.operations)
        BY <2>1, <2>2, <2>3 DEF ExtendedTo
    <2>5. \A n \in 0..Len(b.operations) :
              /\ \A j \in DOMAIN b.batch_data : Run(op, c.batch_data, c.operations)[n][j]
                                               = Run(op, b.batch_data, b.operations)[n][j]
              /\ \A j \in DOMAIN c.batch_data : j \notin DOMAIN b.batch_data =>
                    Run(op, c.batch_data, c.operations)[n][j] = Decrypted(c.batch_data[j])
        BY <2>4, RunExtends
    <2> QED
        BY <1>3, <1>4, <2>3, <2>5
<1>6. ASSUME NEW r \in DOMAIN t PROVE Effect(op, t, c)[r] = Effect(op, t, b)[r]
    <2>1. CASE \E j \in 1..Size(b) : b.entry_pointers[j] = r
        <3>1. PICK j \in 1..Size(b) : b.entry_pointers[j] = r
            BY <2>1
        <3>2. j \in 1..Size(c) /\ c.entry_pointers[j] = r
            BY <1>1, <1>3, <1>4, <3>1
        <3>3. Effect(op, t, b)[r] = Run(op, b.batch_data, b.operations)[L][j]
            BY <3>1, EffectOfFlush
        <3>4. Effect(op, t, c)[r] = Run(op, c.batch_data, c.operations)[L][j]
            BY <1>1, <1>2, <3>2, EffectOfFlush
        <3> QED
            BY <1>5, <3>1, <3>2, <3>3, <3>4
    <2>2. CASE \A j \in 1..Size(b) : b.entry_pointers[j] # r
        <3>1. Effect(op, t, b)[r] = Decrypted(t[r])
            BY <2>2, EffectOfFlush
        <3>2. CASE \E j \in 1..Size(c) : c.entry_pointers[j] = r
            <4>1. PICK j \in 1..Size(c) : c.entry_pointers[j] = r
                BY <3>2
            <4>2. j \notin 1..Size(b)
                BY <1>1, <2>2, <4>1
            <4>3. Effect(op, t, c)[r] = Run(op, c.batch_data, c.operations)[L][j]
                BY <1>1, <1>2, <4>1, EffectOfFlush
            <4> QED
                BY <1>4, <1>5, <3>1, <4>1, <4>2, <4>3
        <3>3. CASE \A j \in 1..Size(c) : c.entry_pointers[j] # r
            BY <1>1, <1>2, <3>1, <3>3, EffectOfFlush
        <3> QED
            BY <3>2, <3>3
    <2> QED
        BY <2>1, <2>2
<1>7. Effect(op, t, c) = Effect(op, t, b)
    BY <1>6 DEF Effect
<1> QED
    BY <1>2, <1>7 DEF c

(* One operation more at the end, o. *)
Appended(data, moreOps, ops, o) ==
    /\ Len(ops) \in Nat /\ Len(moreOps) = Len(ops) + 1 /\ moreOps[Len(ops) + 1] = o
    /\ BATCH_NO_PARAM \notin DOMAIN data
    /\ \A n \in 1..Len(ops) :
          /\ moreOps[n] = ops[n]
          /\ ops[n][1] \in DOMAIN data /\ ops[n][2] \in DOMAIN data \cup {BATCH_NO_PARAM}

(* One more operation adds one step to the run, and changes none before    *)
(* it.                                                                     *)
LEMMA RunAppended ==
    ASSUME NEW op, NEW data, NEW ops, NEW moreOps, NEW o, Appended(data, moreOps, ops, o)
    PROVE  /\ DOMAIN Run(op, data, moreOps)[Len(ops)] = DOMAIN data
           /\ \A j \in DOMAIN data :
                 Run(op, data, moreOps)[Len(ops)][j] = Run(op, data, ops)[Len(ops)][j]
           /\ \A j \in DOMAIN data :
                 Run(op, data, moreOps)[Len(moreOps)][j]
                    = Written(op, Run(op, data, moreOps)[Len(ops)], o, j)
<1>1. ExtendedTo(data, moreOps, data, ops) /\ Len(ops) \in 0..Len(ops)
    BY DEF ExtendedTo, Appended
<1>2. /\ DOMAIN Run(op, data, moreOps)[Len(ops)] = DOMAIN data
      /\ \A j \in DOMAIN data :
            Run(op, data, moreOps)[Len(ops)][j] = Run(op, data, ops)[Len(ops)][j]
    BY <1>1, RunExtends
<1>3. Len(moreOps) \in 1..Len(moreOps) /\ Len(moreOps) \in Nat /\ Len(moreOps) - 1 = Len(ops)
      /\ moreOps[Len(moreOps)] = o
    BY DEF Appended
<1>4. Run(op, data, moreOps)[Len(moreOps)] = Step(op, Run(op, data, moreOps)[Len(ops)], o)
    <2>1. /\ Run(op, data, moreOps)[0] = [j \in DOMAIN data |-> Decrypted(data[j])]
          /\ \A n \in 1..Len(moreOps) :
                Run(op, data, moreOps)[n] = Step(op, Run(op, data, moreOps)[n - 1], moreOps[n])
        BY <1>3, RunEquation DEF RunSteps
    <2>2. Run(op, data, moreOps)[Len(moreOps)]
             = Step(op, Run(op, data, moreOps)[Len(moreOps) - 1], moreOps[Len(moreOps)])
        BY <1>3, <2>1
    <2> QED
        BY <1>3, <2>2
<1> QED
    BY <1>2, <1>4, StepWrites

(* d is the batch c with the operation <<j1, j2>> more, and the effect it has. *)
OrderedIn(op, t, c, j1, j2, d) ==
    /\ WellFormed(d, t) /\ AllFit(op, d)
    /\ Len(d.operations) = Len(c.operations) + 1
    /\ j2 = BATCH_NO_PARAM =>
          /\ Effect(op, t, d)[c.entry_pointers[j1]] = transform(op, Effect(op, t, c)[c.entry_pointers[j1]])
          /\ \A r \in DOMAIN t : r # c.entry_pointers[j1] => Effect(op, t, d)[r] = Effect(op, t, c)[r]
    /\ j2 # BATCH_NO_PARAM =>
          /\ Effect(op, t, d)[c.entry_pointers[j2]]
                = window(op, Effect(op, t, c)[c.entry_pointers[j1]], Effect(op, t, c)[c.entry_pointers[j2]])
          /\ \A r \in DOMAIN t : r # c.entry_pointers[j2] => Effect(op, t, d)[r] = Effect(op, t, c)[r]

(* A further operation acts on what the flush would have left so far.      *)
LEMMA OrderingExtends ==
    ASSUME NEW op, NEW t, NEW c, WellFormed(c, t), AllFit(op, c),
           NEW j1 \in 1..Size(c), NEW j2 \in 0..Size(c), Fits(op, <<j1, j2>>)
    PROVE  OrderedIn(op, t, c, j1, j2, Ordered(c, <<j1, j2>>))
<1> DEFINE o  == <<j1, j2>>
           d  == Ordered(c, o)
           L  == Len(c.operations)
           ptr == c.entry_pointers
           data == c.batch_data
           run == Run(op, data, c.operations)
           more == Run(op, data, d.operations)
<1>1. /\ d.entry_pointers = ptr /\ d.batch_data = data
      /\ d.operations = Append(c.operations, o)
      /\ d = [entry_pointers |-> d.entry_pointers, batch_data |-> d.batch_data,
              operations |-> d.operations]
    BY DEF Ordered
<1>2. o[1] = j1 /\ o[2] = j2 /\ o \in (1..Size(c)) \X (0..Size(c)) /\ Fits(op, o)
    OBVIOUS
<1>3. /\ Size(c) \in Nat /\ L \in Nat /\ DOMAIN data = 1..Size(c)
      /\ \A j \in 1..Size(c) : ptr[j] \in DOMAIN t
      /\ \A n \in 1..L : c.operations[n][1] \in 1..Size(c) /\ c.operations[n][2] \in 0..Size(c)
    BY BatchTypes
<1> HIDE DEF d, o
<1>4. /\ d.operations \in Seq((1..Size(c)) \X (0..Size(c))) /\ Len(d.operations) = L + 1
      /\ \A n \in 1..L : d.operations[n] = c.operations[n]
      /\ d.operations[L + 1] = o
    <2>1. c.operations \in Seq((1..Size(c)) \X (0..Size(c)))
        BY DEF WellFormed
    <2> QED
        BY <1>1, <1>2, <2>1, AppendProperties
<1>5. WellFormed(d, t) /\ Size(d) = Size(c)
    BY <1>1, <1>4 DEF WellFormed, Size
<1>6. AllFit(op, d)
    <2>1. \A n \in 1..(L + 1) : n \in 1..L \/ n = L + 1
        BY <1>3
    <2> QED
        BY <1>2, <1>4, <2>1 DEF AllFit
<1>7. /\ DOMAIN more[L] = DOMAIN data
      /\ \A j \in DOMAIN data : more[L][j] = run[L][j]
      /\ \A j \in DOMAIN data : more[Len(d.operations)][j] = Written(op, more[L], o, j)
    <2>1. BATCH_NO_PARAM \notin DOMAIN data
        BY <1>3 DEF BATCH_NO_PARAM
    <2>2. ASSUME NEW n \in 1..L
          PROVE  /\ d.operations[n] = c.operations[n]
                 /\ c.operations[n][1] \in DOMAIN data
                 /\ c.operations[n][2] \in DOMAIN data \cup {BATCH_NO_PARAM}
        <3>1. c.operations[n][1] \in 1..Size(c) /\ c.operations[n][2] \in 0..Size(c)
            BY <1>3
        <3>2. 0..Size(c) = 1..Size(c) \cup {BATCH_NO_PARAM}
            BY <1>3 DEF BATCH_NO_PARAM
        <3> QED
            BY <1>3, <1>4, <3>1, <3>2
    <2>3. L \in Nat /\ Len(d.operations) = L + 1 /\ d.operations[L + 1] = o
        BY <1>3, <1>4
    <2> DEFINE old == c.operations
               new == d.operations
    <2>4. Appended(data, new, old, o)
        <3> HIDE DEF data
        <3> QED
            BY <2>1, <2>2, <2>3 DEF Appended
    <2> HIDE DEF data, old, new
    <2>5. /\ DOMAIN Run(op, data, new)[Len(old)] = DOMAIN data
          /\ \A j \in DOMAIN data : Run(op, data, new)[Len(old)][j] = Run(op, data, old)[Len(old)][j]
          /\ \A j \in DOMAIN data :
                Run(op, data, new)[Len(new)][j] = Written(op, Run(op, data, new)[Len(old)], o, j)
        BY <2>4, RunAppended
    <2> QED
        BY <2>5 DEF old, new
<1>8. /\ DOMAIN more[L] = DOMAIN data
      /\ \A j \in 1..Size(c) : more[L][j] = run[L][j]
      /\ \A j \in 1..Size(c) : more[L + 1][j] = Written(op, more[L], o, j)
    <2> HIDE DEF run, more, data, L
    <2> QED
        BY <1>3, <1>4, <1>7
<1>9. \A j \in 1..Size(c) : Effect(op, t, c)[ptr[j]] = run[L][j]
    BY <1>3, EffectOfFlush
<1>10. \A j \in 1..Size(c) : Effect(op, t, d)[ptr[j]] = more[L + 1][j]
    <2>1. \A j \in 1..Size(d) : Effect(op, t, d)[d.entry_pointers[j]]
                                   = Run(op, d.batch_data, d.operations)[Len(d.operations)][j]
        <3>1. \A j \in 1..Size(d) : d.entry_pointers[j] \in DOMAIN t
            BY <1>5, BatchTypes
        <3> QED
            BY <1>5, <1>6, <3>1, EffectOfFlush
    <2>2. Run(op, d.batch_data, d.operations) = more
        BY <1>1
    <2> HIDE DEF more
    <2> QED
        BY <1>1, <1>4, <1>5, <2>1, <2>2
<1>11. ASSUME NEW r \in DOMAIN t, \A j \in 1..Size(c) : ptr[j] # r
       PROVE  Effect(op, t, d)[r] = Effect(op, t, c)[r]
    <2>1. Effect(op, t, c)[r] = Decrypted(t[r])
        BY <1>11, EffectOfFlush
    <2>2. Effect(op, t, d)[r] = Decrypted(t[r])
        BY <1>1, <1>5, <1>6, <1>11, EffectOfFlush
    <2> QED
        BY <2>1, <2>2
<1> HIDE DEF run, more
<1>12. ASSUME NEW j \in 1..Size(c), j # (IF j2 = BATCH_NO_PARAM THEN j1 ELSE j2)
       PROVE  Effect(op, t, d)[ptr[j]] = Effect(op, t, c)[ptr[j]]
    <2>1. Written(op, more[L], o, j) = more[L][j]
        BY <1>2, <1>12 DEF Written
    <2> QED
        BY <1>7, <1>8, <1>9, <1>10, <2>1
<1>13. ASSUME NEW x \in 1..Size(c), x = (IF j2 = BATCH_NO_PARAM THEN j1 ELSE j2),
              NEW r \in DOMAIN t, r # ptr[x]
       PROVE  Effect(op, t, d)[r] = Effect(op, t, c)[r]
    <2>1. CASE \E j \in 1..Size(c) : ptr[j] = r
        <3>1. PICK j \in 1..Size(c) : ptr[j] = r
            BY <2>1
        <3>2. j # x
            BY <1>13, <3>1
        <3> QED
            BY <1>12, <1>13, <3>1, <3>2
    <2>2. CASE \A j \in 1..Size(c) : ptr[j] # r
        BY <1>11, <2>2
    <2> QED
        BY <2>1, <2>2
<1>14. ASSUME j2 = BATCH_NO_PARAM
       PROVE  /\ Effect(op, t, d)[ptr[j1]] = transform(op, Effect(op, t, c)[ptr[j1]])
              /\ \A r \in DOMAIN t : r # ptr[j1] => Effect(op, t, d)[r] = Effect(op, t, c)[r]
    <2>1. Written(op, more[L], o, j1) = transform(op, more[L][j1])
        BY <1>2, <1>14 DEF Written
    <2>2. Effect(op, t, d)[ptr[j1]] = transform(op, Effect(op, t, c)[ptr[j1]])
        BY <1>7, <1>8, <1>9, <1>10, <2>1
    <2> QED
        BY <1>13, <1>14, <2>2
<1>15. ASSUME j2 # BATCH_NO_PARAM
       PROVE  /\ Effect(op, t, d)[ptr[j2]] = window(op, Effect(op, t, c)[ptr[j1]], Effect(op, t, c)[ptr[j2]])
              /\ \A r \in DOMAIN t : r # ptr[j2] => Effect(op, t, d)[r] = Effect(op, t, c)[r]
    <2>0. j2 \in 1..Size(c)
        BY <1>3, <1>15 DEF BATCH_NO_PARAM
    <2>1. Written(op, more[L], o, j2) = window(op, more[L][j1], more[L][j2])
        BY <1>2, <1>15 DEF Written
    <2>2. Effect(op, t, d)[ptr[j2]] = window(op, Effect(op, t, c)[ptr[j1]], Effect(op, t, c)[ptr[j2]])
        BY <1>7, <1>8, <1>9, <1>10, <2>0, <2>1
    <2> QED
        BY <1>13, <1>15, <2>0, <2>2
<1>16. OrderedIn(op, t, c, j1, j2, d)
    BY <1>4, <1>5, <1>6, <1>14, <1>15 DEF OrderedIn
<1> QED
    BY <1>16 DEF d, o

(* d is b with one operation more, which makes row q of the effect.        *)
Adds(op, t, b, d, q, row) ==
    /\ WellFormed(d, t) /\ AllFit(op, d)
    /\ Len(d.operations) = Len(b.operations) + 1
    /\ Effect(op, t, d)[q] = row
    /\ \A r \in DOMAIN t : r # q => Effect(op, t, d)[r] = Effect(op, t, b)[r]

(* What a turn of a map adds: its row, transformed.                        *)
LEMMA MapTurn ==
    ASSUME NEW op \in Transforms, NEW t, NEW b, WellFormed(b, t), AllFit(op, b), NEW p \in DOMAIN t
    PROVE  Adds(op, t, b, add_operation1(b, t, p), p, transform(op, Effect(op, t, b)[p]))
<1> DEFINE c == Collect(b, t, p)
           j == IndexIn(c, p)
           d == Ordered(c, <<j, 0>>)
<1>1. /\ WellFormed(c, t) /\ c.operations = b.operations
      /\ \E x \in 1..Size(c) : c.entry_pointers[x] = p
    BY Collecting
<1>2. AllFit(op, c) /\ Effect(op, t, c) = Effect(op, t, b)
    BY CollectingHasNoEffect
<1>3. j \in 1..Size(c) /\ c.entry_pointers[j] = p
    <2> HIDE DEF c
    <2> QED
        BY <1>1, BatchTypes DEF IndexIn
<1>4. add_operation1(b, t, p) = d
    BY DEF add_operation1, BATCH_NO_PARAM
<1> HIDE DEF c, j
<1>5. Fits(op, <<j, 0>>) /\ 0 \in 0..Size(c)
    <2>1. Size(c) \in Nat
        BY <1>1, BatchTypes
    <2> QED
        BY <2>1 DEF Fits, BATCH_NO_PARAM
<1>6. /\ WellFormed(d, t) /\ AllFit(op, d) /\ Len(d.operations) = Len(c.operations) + 1
      /\ Effect(op, t, d)[p] = transform(op, Effect(op, t, c)[p])
      /\ \A r \in DOMAIN t : r # p => Effect(op, t, d)[r] = Effect(op, t, c)[r]
    <2>1. OrderedIn(op, t, c, j, 0, d)
        BY <1>1, <1>2, <1>3, <1>5, OrderingExtends
    <2> HIDE DEF d
    <2> QED
        BY <1>3, <2>1 DEF OrderedIn, BATCH_NO_PARAM
<1> QED
    BY <1>1, <1>2, <1>4, <1>6 DEF Adds

(* What a turn of a linear pass adds: its second row, by the window.       *)
LEMMA WindowTurn ==
    ASSUME NEW op \in Windows, NEW t, NEW b, WellFormed(b, t), AllFit(op, b),
           NEW p \in DOMAIN t, NEW q \in DOMAIN t
    PROVE  Adds(op, t, b, add_operation2(b, t, p, q), q,
                window(op, Effect(op, t, b)[p], Effect(op, t, b)[q]))
<1> DEFINE a == Collect(b, t, p)
           c == Collect(a, t, q)
           j == IndexIn(c, p)
           l == IndexIn(c, q)
           d == Ordered(c, <<j, l>>)
<1>0. add_operation2(b, t, p, q) = d
    BY DEF add_operation2
<1>1. /\ WellFormed(a, t) /\ a.operations = b.operations
      /\ \E x \in 1..Size(a) : a.entry_pointers[x] = p
    BY Collecting
<1>2. AllFit(op, a) /\ Effect(op, t, a) = Effect(op, t, b)
    BY CollectingHasNoEffect
<1> HIDE DEF a
<1>3. /\ WellFormed(c, t) /\ c.operations = a.operations
      /\ Size(a) <= Size(c)
      /\ \A x \in 1..Size(a) : c.entry_pointers[x] = a.entry_pointers[x]
      /\ \E x \in 1..Size(c) : c.entry_pointers[x] = q
    BY <1>1, Collecting
<1>4. AllFit(op, c) /\ Effect(op, t, c) = Effect(op, t, a)
    BY <1>1, <1>2, CollectingHasNoEffect
<1> HIDE DEF c
<1>5. Size(a) \in Nat /\ Size(c) \in Nat /\ DOMAIN c.entry_pointers = 1..Size(c)
    BY <1>1, <1>3, BatchTypes
<1>6. j \in 1..Size(c) /\ c.entry_pointers[j] = p
    <2>1. \E x \in 1..Size(c) : c.entry_pointers[x] = p
        BY <1>1, <1>3, <1>5
    <2> QED
        BY <1>5, <2>1 DEF IndexIn
<1>7. l \in 1..Size(c) /\ c.entry_pointers[l] = q
    BY <1>3, <1>5 DEF IndexIn
<1> HIDE DEF j, l
<1>8. Fits(op, <<j, l>>) /\ l \in 0..Size(c) /\ l # BATCH_NO_PARAM
    BY <1>5, <1>7 DEF Fits, BATCH_NO_PARAM
<1>9. /\ WellFormed(d, t) /\ AllFit(op, d) /\ Len(d.operations) = Len(c.operations) + 1
      /\ Effect(op, t, d)[c.entry_pointers[l]]
            = window(op, Effect(op, t, c)[c.entry_pointers[j]], Effect(op, t, c)[c.entry_pointers[l]])
      /\ \A r \in DOMAIN t : r # c.entry_pointers[l] => Effect(op, t, d)[r] = Effect(op, t, c)[r]
    <2>1. OrderedIn(op, t, c, j, l, d)
        <3>1. WellFormed(c, t) /\ AllFit(op, c) /\ j \in 1..Size(c) /\ l \in 0..Size(c)
              /\ Fits(op, <<j, l>>)
            BY <1>3, <1>4, <1>6, <1>8
        <3>2. OrderedIn(op, t, c, j, l, Ordered(c, <<j, l>>))
            BY ONLY <3>1, OrderingExtends
        <3> QED
            BY <3>2
    <2> HIDE DEF d
    <2> QED
        BY <1>8, <2>1 DEF OrderedIn
<1>10. /\ Effect(op, t, d)[q] = window(op, Effect(op, t, c)[p], Effect(op, t, c)[q])
       /\ \A r \in DOMAIN t : r # q => Effect(op, t, d)[r] = Effect(op, t, c)[r]
    <2> HIDE DEF d
    <2> QED
        BY <1>6, <1>7, <1>9
<1> QED
    BY <1>0, <1>1, <1>2, <1>3, <1>4, <1>9, <1>10 DEF Adds

-----------------------------------------------------------------------------
(* Numbers. *)

LEMMA Division ==
    ASSUME NEW n \in Nat, NEW k \in Nat \ {0}
    PROVE  /\ n \div k \in Nat /\ n % k \in 0..(k - 1)
           /\ n = k * (n \div k) + (n % k)
OBVIOUS

LEMMA TimesGrow ==
    ASSUME NEW a \in Nat, NEW b \in Nat, NEW k \in Nat, a <= b
    PROVE  k * a \in Nat /\ k * b \in Nat /\ k * a <= k * b
<1>1. k * (b - a) >= 0 /\ k * b = k * a + k * (b - a)
    OBVIOUS
<1> QED
    BY <1>1

-----------------------------------------------------------------------------
(* Counting the rows of a sequence. *)

(* How many rows of s are in the set A. *)
Times(s, A) == Cardinality({i \in DOMAIN s : s[i] \in A})

(* Each row is in both as often, and so they are equally long. *)
SameRows(s, t) == \A A : Times(s, A) = Times(t, A)

LEMMA TimesIsNat ==
    ASSUME NEW R, NEW s \in Seq(R), NEW A
    PROVE  Times(s, A) \in Nat /\ IsFiniteSet({i \in DOMAIN s : s[i] \in A})
<1>1. IsFiniteSet(1..Len(s)) /\ {i \in DOMAIN s : s[i] \in A} \subseteq 1..Len(s)
    BY FS_Interval
<1>2. IsFiniteSet({i \in DOMAIN s : s[i] \in A})
    BY <1>1, FS_Subset
<1> QED
    BY <1>2, FS_CardinalityType DEF Times

LEMMA TimesEmpty == \A A : Times(<<>>, A) = 0
<1>1. \A A : {i \in DOMAIN <<>> : <<>>[i] \in A} = {}
    OBVIOUS
<1> QED
    BY <1>1, FS_EmptySet DEF Times

(* Of one sequence after another: the rows of both. *)
LEMMA TimesConcat ==
    ASSUME NEW R, NEW s \in Seq(R), NEW t \in Seq(R), NEW A
    PROVE  Times(s \o t, A) = Times(s, A) + Times(t, A)
<1> DEFINE S == {i \in DOMAIN s : s[i] \in A}
           T == {i \in DOMAIN t : t[i] \in A}
           n == Len(s)
           shift(i) == i + n
           U == {shift(i) : i \in T}
           W == {i \in DOMAIN (s \o t) : (s \o t)[i] \in A}
<1>1. IsFiniteSet(S) /\ IsFiniteSet(T)
    BY TimesIsNat
<1>2. W = S \cup U
    <2>1. /\ DOMAIN (s \o t) = 1..(Len(s) + Len(t)) /\ DOMAIN s = 1..Len(s) /\ DOMAIN t = 1..Len(t)
          /\ \A i \in 1..Len(s) : (s \o t)[i] = s[i]
          /\ \A i \in (Len(s) + 1)..(Len(s) + Len(t)) : (s \o t)[i] = t[i - Len(s)]
        OBVIOUS
    <2>2. ASSUME NEW i \in W PROVE i \in S \cup U
        <3>1. CASE i <= n
            BY <2>1, <3>1
        <3>2. CASE i > n
            <4>1. i - n \in T /\ i = shift(i - n)
                BY <2>1, <3>2
            <4> QED
                BY <4>1
        <3> QED
            BY <2>1, <3>1, <3>2
    <2>3. S \subseteq W
        BY <2>1
    <2>4. ASSUME NEW i \in T PROVE shift(i) \in W
        <3>1. i \in 1..Len(t) /\ t[i] \in A /\ Len(s) \in Nat /\ Len(t) \in Nat
            BY <2>1
        <3>2. shift(i) \in (Len(s) + 1)..(Len(s) + Len(t)) /\ shift(i) - Len(s) = i
            BY <3>1
        <3>3. (s \o t)[shift(i)] = t[i] /\ shift(i) \in DOMAIN (s \o t)
            BY <2>1, <3>1, <3>2
        <3> QED
            BY <3>1, <3>3
    <2> QED
        BY <2>2, <2>3, <2>4
<1>3. S \cap U = {}
    OBVIOUS
<1>4. IsFiniteSet(U) /\ Cardinality(U) = Cardinality(T)
    <2> DEFINE f == [i \in T |-> shift(i)]
    <2>1. f \in Bijection(T, U)
        BY DEF Bijection, Injection, Surjection, IsInjective
    <2> HIDE DEF f, U, T
    <2>2. ExistsBijection(T, U)
        BY <2>1 DEF ExistsBijection
    <2> QED
        BY ONLY <1>1, <2>2, FS_Bijection
<1>5. Cardinality(S \cup U) = Cardinality(S) + Cardinality(U) - Cardinality(S \cap U)
    <2> HIDE DEF S, U
    <2> QED
        BY <1>1, <1>4, FS_Union
<1>6. Cardinality({}) = 0 /\ Cardinality(S) \in Nat /\ Cardinality(T) \in Nat
    BY <1>1, FS_EmptySet, FS_CardinalityType
<1>7. Times(s, A) = Cardinality(S) /\ Times(t, A) = Cardinality(T) /\ Times(s \o t, A) = Cardinality(W)
    BY DEF Times
<1>8. Cardinality(W) = Cardinality(S) + Cardinality(T) - 0
    <2> HIDE DEF S, T, U, W
    <2>1. Cardinality(W) = Cardinality(S \cup U)
        BY <1>2
    <2>2. Cardinality(S \cap U) = 0
        BY <1>3, <1>6
    <2> QED
        BY <2>1, <2>2, <1>4, <1>5
<1> QED
    <2> HIDE DEF S, T, W
    <2> QED
        BY <1>6, <1>7, <1>8

(* Two arrays of as many rows, and of the same ones. *)
Rearranged(R, s, t) == t \in Seq(R) /\ Len(t) = Len(s) /\ SameRows(s, t)

Exchanged(s, i, j) == [s EXCEPT ![i] = s[j], ![j] = s[i]]

(* A sequence with two rows exchanged has the same rows. *)
LEMMA ExchangeRearranges ==
    ASSUME NEW R, NEW s \in Seq(R), NEW i \in DOMAIN s, NEW j \in DOMAIN s
    PROVE  Rearranged(R, s, Exchanged(s, i, j))
<1> DEFINE t == Exchanged(s, i, j)
<1> USE DEF Exchanged
<1>1. t \in Seq(R) /\ Len(t) = Len(s) /\ DOMAIN t = DOMAIN s
    OBVIOUS
<1> SUFFICES ASSUME NEW A PROVE Times(s, A) = Times(t, A)
    BY <1>1 DEF SameRows, Rearranged
<1> DEFINE other(x) == IF x = i THEN j ELSE IF x = j THEN i ELSE x
           S == {x \in DOMAIN s : s[x] \in A}
           T == {x \in DOMAIN t : t[x] \in A}
<1>2. \A x \in DOMAIN s : other(x) \in DOMAIN s /\ other(other(x)) = x /\ t[other(x)] = s[x]
    OBVIOUS
<1>3. ExistsBijection(S, T)
    <2> DEFINE f == [x \in S |-> other(x)]
    <2>1. \A x \in S : f[x] \in T
        BY <1>1, <1>2
    <2>2. \A y \in T : other(y) \in S /\ other(other(y)) = y
        BY <1>1, <1>2
    <2>3. \A x, y \in S : f[x] = f[y] => x = y
        BY <1>2
    <2>4. \A y \in T : \E x \in S : f[x] = y
        BY <2>2
    <2>5. f \in [S -> T]
        BY <2>1
    <2> HIDE DEF f, S, T
    <2> QED
        BY <2>3, <2>4, <2>5 DEF ExistsBijection, Bijection, Injection, Surjection, IsInjective
<1>4. IsFiniteSet(S)
    BY TimesIsNat
<1>5. Cardinality(S) = Cardinality(T)
    <2> HIDE DEF S, T
    <2> QED
        BY ONLY <1>3, <1>4, FS_Bijection
<1> QED
    BY <1>5 DEF Times

(* Counting every row gives the length. *)
LEMMA TimesOfAll ==
    ASSUME NEW R, NEW s \in Seq(R)
    PROVE  Times(s, R) = Len(s)
<1>1. {i \in DOMAIN s : s[i] \in R} = 1..Len(s) /\ Len(s) \in Nat
    OBVIOUS
<1>2. Cardinality(1..Len(s)) = Len(s)
    <2>1. \A n \in Nat : Cardinality(1..n) = n
        <3> SUFFICES ASSUME NEW n \in Nat PROVE Cardinality(1..n) = n
            OBVIOUS
        <3>1. 1 \in Int /\ n \in Int
            OBVIOUS
        <3>2. Cardinality(1..n) = IF 1 > n THEN 0 ELSE n - 1 + 1
            BY ONLY <3>1, FS_Interval
        <3> QED
            BY <3>2
    <2> QED
        BY <1>1, <2>1
<1> QED
    BY <1>1, <1>2 DEF Times

LEMMA SameLength ==
    ASSUME NEW R, NEW s \in Seq(R), NEW t \in Seq(R), SameRows(s, t)
    PROVE  Len(s) = Len(t)
BY TimesOfAll DEF SameRows

-----------------------------------------------------------------------------
(* Recursion over 0..m. *)

(* A sequence of values stays inside sets if every step does.              *)
LEMMA StaysIn ==
    ASSUME NEW m \in Nat, NEW SS, NEW f, f[0] \in SS[0],
           \A i \in 1..m : f[i - 1] \in SS[i - 1] => f[i] \in SS[i]
    PROVE  \A i \in 0..m : f[i] \in SS[i]
<1> DEFINE T == {i \in Nat : f[i] \notin SS[i]}
<1>1. 0 \notin T /\ \A n \in 1..m : n - 1 \notin T => n \notin T
    OBVIOUS
<1>2. \A n \in 0..m : n \notin T
    <2> HIDE DEF T
    <2> QED
        BY <1>1, UpTo
<1> QED
    BY <1>2

(* f goes from a on by the steps that g gives. *)
Recurs(f, m, a, g) == f = [i \in 0..m |-> IF i = 0 THEN a ELSE g[i][f[i - 1]]]

(* The same step by step, inside the set S. *)
Follows(f, m, a, g, S) ==
    /\ Recurs(f, m, a, g) /\ f[0] = a
    /\ \A i \in 0..m : f[i] \in S
    /\ \A i \in 1..m : f[i - 1] \in S /\ f[i] = g[i][f[i - 1]]

(* A recursion whose steps stay inside a set has a solution.               *)
LEMMA Recursion ==
    ASSUME NEW m \in Nat, NEW S, NEW a \in S, NEW g,
           \A i \in 1..m : \A x \in S : g[i][x] \in S
    PROVE  \E f : Follows(f, m, a, g, S)
<1> DEFINE Solves(f, x) == Recurs(f, x, a, g) /\ \A i \in 0..x : f[i] \in S
           T == {x \in Nat : ~ \E f : Solves(f, x)}
<1>1. 0 \notin T
    <2>1. Solves([i \in 0..0 |-> a], 0)
        BY DEF Recurs
    <2> QED
        BY <2>1
<1>2. ASSUME NEW x \in 1..m, x - 1 \notin T PROVE x \notin T
    <2>1. PICK old : Solves(old, x - 1)
        BY <1>2
    <2> DEFINE new == [i \in 0..x |-> IF i = x THEN g[x][old[x - 1]] ELSE old[i]]
    <2>2. /\ \A i \in 0..x : i # x => new[i] = old[i] /\ i \in 0..(x - 1)
          /\ new[x] = g[x][old[x - 1]]
          /\ x - 1 \in 0..x /\ x - 1 # x
        OBVIOUS
    <2>3. ASSUME NEW i \in 0..x
          PROVE  /\ new[i] = IF i = 0 THEN a ELSE g[i][new[i - 1]]
                 /\ new[i] \in S
        <3>1. CASE i = x
            <4>1. old[x - 1] \in S /\ x # 0
                BY <2>1
            <4> HIDE DEF new
            <4> QED
                BY <1>2, <2>2, <3>1, <4>1
        <3>2. CASE i # x
            <4>1. i \in 0..(x - 1) /\ (i # 0 => i - 1 \in 0..x /\ i - 1 # x)
                BY <3>2
            <4>2. old[i] = (IF i = 0 THEN a ELSE g[i][old[i - 1]]) /\ old[i] \in S
                BY <2>1, <4>1 DEF Recurs
            <4> HIDE DEF new
            <4> QED
                BY <2>2, <3>2, <4>1, <4>2
        <3> QED
            BY <3>1, <3>2
    <2>4. new = [i \in 0..x |-> new[i]]
        OBVIOUS
    <2>5. Solves(new, x)
        <3> HIDE DEF new
        <3> QED
            BY <2>3, <2>4 DEF Recurs
    <2> QED
        BY <2>5
<1>3. m \notin T
    <2> HIDE DEF T
    <2> QED
        BY <1>1, <1>2, UpTo
<1>4. PICK f : Solves(f, m)
    BY <1>3
<1>5. Follows(f, m, a, g, S)
    BY <1>4 DEF Recurs, Follows
<1> QED
    BY <1>5

-----------------------------------------------------------------------------
(* The order of the rows. *)

(* A strict order of the rows of R, in which being tied is transitive. *)
Orders(op, R) ==
    \A a, b, c \in R :
        /\ compare(op, a, b) => ~compare(op, b, a)
        /\ ~compare(op, a, b) /\ ~compare(op, b, c) => ~compare(op, a, c)

(* Keys are compared as in a dictionary. *)
LEMMA KeysOrder ==
    ASSUME NEW m \in Nat, NEW a \in [1..m -> Int], NEW b \in [1..m -> Int], NEW c \in [1..m -> Int]
    PROVE  /\ KeyLess(a, b) => ~KeyLess(b, a)
           /\ ~KeyLess(a, b) /\ ~KeyLess(b, c) => ~KeyLess(a, c)
<1>1. ASSUME NEW x \in [1..m -> Int], NEW y \in [1..m -> Int], KeyLess(x, y), KeyLess(y, x)
      PROVE  FALSE
    <2>1. PICK i \in 1..m : x[i] < y[i] /\ \A l \in 1..(i - 1) : x[l] = y[l]
        BY <1>1 DEF KeyLess
    <2>2. PICK j \in 1..m : y[j] < x[j] /\ \A l \in 1..(j - 1) : y[l] = x[l]
        BY <1>1 DEF KeyLess
    <2>3. x[i] \in Int /\ y[i] \in Int /\ x[j] \in Int /\ y[j] \in Int
        OBVIOUS
    <2>4. CASE i < j
        BY <2>1, <2>2, <2>3, <2>4
    <2>5. CASE j < i
        BY <2>1, <2>2, <2>3, <2>5
    <2>6. CASE i = j
        BY <2>1, <2>2, <2>3, <2>6
    <2> QED
        BY <2>4, <2>5, <2>6
<1>2. ASSUME NEW x \in [1..m -> Int], NEW y \in [1..m -> Int], NEW z \in [1..m -> Int],
             KeyLess(x, y), KeyLess(y, z)
      PROVE  KeyLess(x, z)
    <2>1. PICK i \in 1..m : x[i] < y[i] /\ \A l \in 1..(i - 1) : x[l] = y[l]
        BY <1>2 DEF KeyLess
    <2>2. PICK j \in 1..m : y[j] < z[j] /\ \A l \in 1..(j - 1) : y[l] = z[l]
        BY <1>2 DEF KeyLess
    <2>3. x[i] \in Int /\ y[i] \in Int /\ x[j] \in Int /\ y[j] \in Int /\ z[i] \in Int /\ z[j] \in Int
        OBVIOUS
    <2>4. CASE i < j
        <3>1. y[i] = z[i]
            BY <2>2, <2>4
        <3>2. \A l \in 1..(i - 1) : l \in 1..(j - 1)
            BY <2>4
        <3>3. \A l \in 1..(i - 1) : x[l] = z[l]
            BY <2>1, <2>2, <3>2
        <3>4. x[i] < z[i]
            BY <2>1, <3>1
        <3> QED
            BY <3>3, <3>4 DEF KeyLess
    <2>5. CASE j < i
        <3>1. x[j] = y[j]
            BY <2>1, <2>5
        <3>2. \A l \in 1..(j - 1) : l \in 1..(i - 1)
            BY <2>5
        <3>3. \A l \in 1..(j - 1) : x[l] = z[l]
            BY <2>1, <2>2, <3>2
        <3>4. x[j] < z[j]
            BY <2>2, <3>1
        <3> QED
            BY <3>3, <3>4 DEF KeyLess
    <2>6. CASE i = j
        <3>1. \A l \in 1..(i - 1) : x[l] = z[l]
            BY <2>1, <2>2, <2>6
        <3>2. x[i] < z[i]
            BY <2>1, <2>2, <2>3, <2>6
        <3> QED
            BY <3>1, <3>2 DEF KeyLess
    <2> QED
        BY <2>4, <2>5, <2>6
<1>3. ASSUME NEW x \in [1..m -> Int], NEW y \in [1..m -> Int], ~KeyLess(x, y)
      PROVE  x = y \/ KeyLess(y, x)
    <2> SUFFICES ASSUME x # y PROVE KeyLess(y, x)
        OBVIOUS
    <2> DEFINE D == {i \in 1..m : x[i] # y[i]}
    <2>1. D \subseteq Nat /\ D # {}
        <3>1. x = [i \in 1..m |-> x[i]] /\ y = [i \in 1..m |-> y[i]]
            OBVIOUS
        <3>2. ASSUME \A i \in 1..m : x[i] = y[i] PROVE FALSE
            BY <3>1, <3>2
        <3>3. PICK i \in 1..m : x[i] # y[i]
            BY <3>2
        <3>4. i \in D
            BY <3>3
        <3>5. D \subseteq Nat
            OBVIOUS
        <3> HIDE DEF D
        <3> QED
            BY <3>4, <3>5
    <2>2. PICK i \in D : \A j \in D : i <= j
        <3> HIDE DEF D
        <3> QED
            BY <2>1, Smallest
    <2>3. i \in 1..m /\ x[i] \in Int /\ y[i] \in Int /\ x[i] # y[i]
        OBVIOUS
    <2>4. \A l \in 1..(i - 1) : x[l] = y[l]
        BY <2>2
    <2>5. ~(x[i] < y[i])
        BY <1>3, <2>3, <2>4 DEF KeyLess
    <2>6. y[i] < x[i]
        BY <2>3, <2>5
    <2> QED
        BY <2>3, <2>4, <2>6 DEF KeyLess
<1>4. KeyLess(a, b) => ~KeyLess(b, a)
    BY <1>1
<1>5. ASSUME ~KeyLess(a, b), ~KeyLess(b, c), KeyLess(a, c) PROVE FALSE
    <2>1. (a = b \/ KeyLess(b, a)) /\ (b = c \/ KeyLess(c, b))
        BY <1>3, <1>5
    <2>2. c = a \/ KeyLess(c, a)
        <3>1. CASE KeyLess(c, b) /\ KeyLess(b, a)
            BY <1>2, <3>1
        <3>2. CASE b = c \/ a = b
            BY <2>1, <3>2
        <3> QED
            BY <2>1, <3>1, <3>2
    <2> QED
        BY <1>1, <1>5, <2>2
<1> QED
    BY <1>4, <1>5

(* Rows with as many keys each, and padding that is all alike, are ordered. *)
LEMMA RowsOrder ==
    ASSUME NEW op, NEW R, NEW m \in Nat, NEW padding,
           \A e \in R : e.field_type # SORT_PADDING => SortKey(op, e) \in [1..m -> Int],
           \A e \in R : e.field_type = SORT_PADDING => e = padding,
           ~KeyLess(SortKey(op, padding), SortKey(op, padding))
    PROVE  Orders(op, R)
<1> SUFFICES ASSUME NEW a \in R, NEW b \in R, NEW c \in R
             PROVE  /\ compare(op, a, b) => ~compare(op, b, a)
                    /\ ~compare(op, a, b) /\ ~compare(op, b, c) => ~compare(op, a, c)
    BY DEF Orders
<1> DEFINE own(e) == e.field_type # SORT_PADDING
           key(e) == SortKey(op, e)
<1>1. ASSUME NEW e \in R, NEW f \in R
      PROVE  compare(op, e, f) <=> own(e) /\ (own(f) => KeyLess(key(e), key(f)))
    <2>1. CASE own(e) = own(f) /\ own(e)
        BY <2>1 DEF compare
    <2>2. CASE own(e) = own(f) /\ ~own(e)
        BY <2>2 DEF compare
    <2>3. CASE own(e) # own(f)
        BY <2>3 DEF compare
    <2> QED
        BY <2>1, <2>2, <2>3
<1>2. \A e \in R : own(e) => key(e) \in [1..m -> Int]
    OBVIOUS
<1> HIDE DEF own, key
<1>3. ASSUME compare(op, a, b), compare(op, b, a) PROVE FALSE
    <2>1. own(a) /\ own(b) /\ KeyLess(key(a), key(b)) /\ KeyLess(key(b), key(a))
        BY <1>1, <1>3
    <2> QED
        BY <1>2, <2>1, KeysOrder
<1>4. ASSUME ~compare(op, a, b), ~compare(op, b, c), compare(op, a, c) PROVE FALSE
    <2>1. own(a) /\ own(b) /\ ~KeyLess(key(a), key(b))
        BY <1>1, <1>4
    <2>2. own(c) /\ ~KeyLess(key(b), key(c))
        BY <1>1, <1>4, <2>1
    <2>3. KeyLess(key(a), key(c))
        BY <1>1, <1>4, <2>2
    <2> QED
        BY <1>2, <2>1, <2>2, <2>3, KeysOrder
<1> QED
    BY <1>3, <1>4

-----------------------------------------------------------------------------
(* The heap *)

(* Which record belongs above which is an order too. *)
Ranks(op, max, Q) ==
    \A a, b, c \in Q :
        /\ Above(op, max, a, b) => ~Above(op, max, b, a)
        /\ ~Above(op, max, a, b) /\ ~Above(op, max, b, c) => ~Above(op, max, a, c)

LEMMA OrderRanks ==
    ASSUME NEW op, NEW R, NEW I, NEW max \in BOOLEAN, Orders(op, R)
    PROVE  Ranks(op, max, [entry : R, run_idx : I])
<1> DEFINE Q == [entry : R, run_idx : I]
<1> SUFFICES ASSUME NEW a \in Q, NEW b \in Q, NEW c \in Q
             PROVE  /\ Above(op, max, a, b) => ~Above(op, max, b, a)
                    /\ ~Above(op, max, a, b) /\ ~Above(op, max, b, c) => ~Above(op, max, a, c)
    BY DEF Ranks
<1>1. a.entry \in R /\ b.entry \in R /\ c.entry \in R
    OBVIOUS
<1>2. \A x, y, z \in R :
        /\ compare(op, x, y) => ~compare(op, y, x)
        /\ ~compare(op, x, y) /\ ~compare(op, y, z) => ~compare(op, x, z)
    BY DEF Orders
<1>3. CASE max
    BY <1>1, <1>2, <1>3 DEF Above
<1>4. CASE ~max
    BY <1>1, <1>2, <1>4 DEF Above
<1> QED
    BY <1>3, <1>4

(* Among the first size records of h, none whose parent is at lo or behind *)
(* it belongs above its parent.                                            *)
HeapFrom(op, max, h, size, lo) ==
    \A x \in 2..size : x \div 2 >= lo => ~Above(op, max, h[x], h[x \div 2])

LEMMA SwapExchanges ==
    ASSUME NEW Q, NEW h \in Seq(Q), NEW i \in DOMAIN h, NEW j \in DOMAIN h
    PROVE  LET t == Swapped(h, i, j)
           IN  /\ Rearranged(Q, h, t) /\ DOMAIN t = DOMAIN h
               /\ t[i] = h[j] /\ t[j] = h[i]
               /\ \A x \in DOMAIN h : x # i /\ x # j => t[x] = h[x]
<1>1. Swapped(h, i, j) = Exchanged(h, i, j)
    BY DEF Swapped, Exchanged
<1>2. Rearranged(Q, h, Exchanged(h, i, j))
    BY ExchangeRearranges
<1> QED
    BY <1>1, <1>2 DEF Swapped

LEMMA RearrangedAgain ==
    ASSUME NEW Q, NEW s, NEW t, NEW u, Rearranged(Q, s, t), Rearranged(Q, t, u)
    PROVE  Rearranged(Q, s, u)
BY DEF Rearranged, SameRows

(* It is one of the three, and neither of the others belongs above it.     *)
LEMMA UppermostIsAbove ==
    ASSUME NEW op, NEW max, NEW Q, Ranks(op, max, Q), NEW h \in Seq(Q),
           NEW size \in 0..Len(h), NEW i \in 1..size
    PROVE  LET w == Uppermost(op, max, h, size, i)
           IN  /\ w \in {i, 2 * i, 2 * i + 1} /\ w \in 1..size
               /\ \A c \in {i, 2 * i, 2 * i + 1} : c <= size => ~Above(op, max, h[c], h[w])
<1> DEFINE pick(w, c) == IF c <= size /\ Above(op, max, h[c], h[w]) THEN c ELSE w
           u == pick(i, 2 * i)
           w == pick(u, 2 * i + 1)
<1>1. Uppermost(op, max, h, size, i) = w
    BY DEF Uppermost
<1>2. \A c \in 1..size : h[c] \in Q
    OBVIOUS
<1>3. \A a, b, c \in Q :
        /\ Above(op, max, a, b) => ~Above(op, max, b, a)
        /\ ~Above(op, max, a, b) /\ ~Above(op, max, b, c) => ~Above(op, max, a, c)
    BY DEF Ranks
<1>4. \A a \in Q : ~Above(op, max, a, a)
    BY <1>3
<1>5. u \in {i, 2 * i} /\ u \in 1..size
    OBVIOUS
<1>6. \A c \in {i, 2 * i} : c <= size => ~Above(op, max, h[c], h[u])
    <2>1. 2 * i <= size => 2 * i \in 1..size
        OBVIOUS
    <2>2. CASE 2 * i <= size /\ Above(op, max, h[2 * i], h[i])
        BY <1>2, <1>3, <1>4, <2>1, <2>2
    <2>3. CASE ~(2 * i <= size /\ Above(op, max, h[2 * i], h[i]))
        BY <1>2, <1>4, <2>3
    <2> QED
        BY <2>2, <2>3
<1> HIDE DEF u
<1>7. w \in {u, 2 * i + 1} /\ w \in 1..size
    BY <1>5
<1>8. \A c \in {i, 2 * i, 2 * i + 1} : c <= size => ~Above(op, max, h[c], h[w])
    <2>1. \A c \in {i, 2 * i, 2 * i + 1} : c <= size => c \in 1..size
        OBVIOUS
    <2>2. CASE 2 * i + 1 <= size /\ Above(op, max, h[2 * i + 1], h[u])
        <3>1. w = 2 * i + 1 /\ h[w] \in Q /\ h[u] \in Q /\ ~Above(op, max, h[u], h[w])
            BY <1>2, <1>3, <1>5, <1>7, <2>2
        <3>2. ASSUME NEW c \in {i, 2 * i}, c <= size PROVE ~Above(op, max, h[c], h[w])
            <4>1. h[c] \in Q /\ ~Above(op, max, h[c], h[u])
                BY <1>2, <1>6, <2>1, <3>2
            <4> QED
                BY <1>3, <3>1, <4>1
        <3> QED
            BY <1>4, <3>1, <3>2
    <2>3. CASE ~(2 * i + 1 <= size /\ Above(op, max, h[2 * i + 1], h[u]))
        <3>1. w = u
            BY <2>3
        <3> HIDE DEF w
        <3> QED
            BY <1>6, <2>3, <3>1
    <2> QED
        BY <2>2, <2>3
<1> HIDE DEF w
<1> QED
    BY <1>1, <1>5, <1>7, <1>8

(* While a record sinks from lo: only the record at s.i may be out of its  *)
(* place, and its children belong below the record above it.  After n      *)
(* turns it has come to its place, or n places down.                       *)
Sinking(op, max, Q, h, size, lo, s, n) ==
    /\ s \in [h : Seq(Q), i : Nat] /\ Rearranged(Q, h, s.h)
    /\ \A x \in (size + 1)..Len(h) : s.h[x] = h[x]
    /\ \A x \in 1..size : \E y \in 1..size : s.h[x] = h[y]
    /\ s.i \in lo..size /\ (s.i # lo => s.i \div 2 >= lo)
    /\ \A x \in 2..size : (x \div 2 >= lo /\ x \div 2 # s.i) => ~Above(op, max, s.h[x], s.h[x \div 2])
    /\ \A x \in 2..size : (x \div 2 = s.i /\ s.i # lo) => ~Above(op, max, s.h[x], s.h[s.i \div 2])
    /\ s.i >= lo + n \/ HeapFrom(op, max, s.h, size, lo)

LEMMA SinkKeeps ==
    ASSUME NEW op, NEW max, NEW Q, Ranks(op, max, Q), NEW h \in Seq(Q),
           NEW size \in 0..Len(h), NEW lo \in 1..size, NEW s, NEW n \in Nat,
           Sinking(op, max, Q, h, size, lo, s, n)
    PROVE  Sinking(op, max, Q, h, size, lo, Sink(op, max, size, s), n + 1)
<1> DEFINE A(a, b) == Above(op, max, a, b)
           g == s.h
           i == s.i
           w == Uppermost(op, max, g, size, i)
           t == Swapped(g, i, w)
<1> HIDE DEF A
<1>1. /\ g \in Seq(Q) /\ Len(g) = Len(h) /\ Rearranged(Q, h, g) /\ i \in lo..size /\ i \in 1..size
      /\ i # lo => i \div 2 >= lo
      /\ s = [h |-> g, i |-> i]
    BY DEF Sinking, Rearranged
<1>2. /\ \A x \in 2..size : (x \div 2 >= lo /\ x \div 2 # i) => ~A(g[x], g[x \div 2])
      /\ \A x \in 2..size : (x \div 2 = i /\ i # lo) => ~A(g[x], g[i \div 2])
      /\ i >= lo + n \/ HeapFrom(op, max, g, size, lo)
    BY DEF Sinking, A
<1>3. /\ w \in {i, 2 * i, 2 * i + 1} /\ w \in 1..size
      /\ \A c \in {i, 2 * i, 2 * i + 1} : c <= size => ~A(g[c], g[w])
    <2> HIDE DEF g, i
    <2>1. size \in 0..Len(g)
        BY <1>1
    <2> QED
        BY <1>1, <2>1, UppermostIsAbove DEF A
<1>4. \A x \in 2..size : x \div 2 \in 1..size /\ x \div 2 < x /\ (x = 2 * (x \div 2) \/ x = 2 * (x \div 2) + 1)
    OBVIOUS
<1> HIDE DEF g, i, w
<1>5. CASE w = i
    <2>1. Sink(op, max, size, s) = s
        BY <1>5 DEF Sink, w, g, i
    <2>2. HeapFrom(op, max, g, size, lo)
        <3> SUFFICES ASSUME NEW x \in 2..size, x \div 2 >= lo PROVE ~A(g[x], g[x \div 2])
            BY DEF HeapFrom, A
        <3>1. CASE x \div 2 # i
            BY <1>2, <3>1
        <3>2. CASE x \div 2 = i
            <4>1. x \in {i, 2 * i, 2 * i + 1} /\ x <= size
                BY <1>4, <3>2
            <4> QED
                BY <1>3, <1>5, <3>2, <4>1
        <3> QED
            BY <3>1, <3>2
    <2> QED
        BY <2>1, <2>2 DEF Sinking, g
<1>6. CASE w # i
    <2>1. Sink(op, max, size, s) = [h |-> t, i |-> w]
        BY <1>6 DEF Sink, w, g, i, t
    <2>2. /\ Rearranged(Q, g, t) /\ t[i] = g[w] /\ t[w] = g[i]
          /\ \A x \in DOMAIN g : x # i /\ x # w => t[x] = g[x]
        <3>1. i \in DOMAIN g /\ w \in DOMAIN g
            BY <1>1, <1>3
        <3> QED
            BY <1>1, <3>1, SwapExchanges
    <2> HIDE DEF t
    <2>3. Rearranged(Q, h, t) /\ t \in Seq(Q) /\ Len(t) = Len(h)
        BY <1>1, <2>2, RearrangedAgain DEF Rearranged
    <2>4. \A x \in 1..Len(h) : x # i /\ x # w => t[x] = g[x]
        BY <1>1, <2>2
    <2>5. \A x \in (size + 1)..Len(h) : t[x] = h[x]
        <3>1. \A x \in (size + 1)..Len(h) : x \in 1..Len(h) /\ x # i /\ x # w
            BY <1>1, <1>3
        <3>2. \A x \in (size + 1)..Len(h) : g[x] = h[x]
            BY DEF Sinking, g
        <3> QED
            BY <2>4, <3>1, <3>2
    <2>6. \A x \in 1..size : \E y \in 1..size : t[x] = h[y]
        <3>1. \A x \in 1..size : \E y \in 1..size : g[x] = h[y]
            BY DEF Sinking, g
        <3>2. \A x \in 1..size : \E y \in 1..size : t[x] = g[y]
            <4>1. \A x \in 1..size : x \in 1..Len(h)
                BY <1>1
            <4> QED
                BY <1>1, <1>3, <2>2, <2>4, <4>1
        <3> QED
            BY <3>1, <3>2
    <2>7. w \div 2 = i /\ w \in lo..size /\ w # lo /\ w \in 2..size /\ w > i /\ w >= i + 1
        BY <1>1, <1>3, <1>6
    <2>8. ASSUME NEW x \in 2..size, x \div 2 >= lo, x \div 2 # w PROVE ~A(t[x], t[x \div 2])
        <3>1. x \in 1..Len(h) /\ x \div 2 \in 1..Len(h)
            BY <1>1, <1>4
        <3>2. CASE x = w
            <4>1. t[x] = g[i] /\ t[x \div 2] = g[w]
                BY <2>2, <2>7, <3>2
            <4> QED
                BY <1>3, <4>1, <1>1
        <3>3. CASE x # w /\ x \div 2 = i
            <4>1. x \in {i, 2 * i, 2 * i + 1} /\ x <= size /\ x # i
                BY <1>4, <3>3
            <4>2. t[x] = g[x] /\ t[x \div 2] = g[w]
                BY <2>2, <2>4, <3>1, <3>3, <4>1
            <4> QED
                BY <1>3, <4>1, <4>2
        <3>4. CASE x = i
            <4>1. x \div 2 # i /\ i # lo
                BY <1>4, <2>8, <3>4
            <4>2. t[x] = g[w] /\ t[x \div 2] = g[i \div 2]
                BY <2>2, <2>4, <2>8, <3>1, <3>4, <4>1
            <4> QED
                BY <1>2, <2>7, <4>1, <4>2
        <3>5. CASE x # w /\ x # i /\ x \div 2 # i
            <4>1. t[x] = g[x] /\ t[x \div 2] = g[x \div 2]
                BY <2>4, <2>8, <3>1, <3>5
            <4> QED
                BY <1>2, <2>8, <3>5, <4>1
        <3> QED
            BY <3>2, <3>3, <3>4, <3>5
    <2>9. ASSUME NEW x \in 2..size, x \div 2 = w PROVE ~A(t[x], t[w \div 2])
        <3>1. x # w /\ x # i /\ x \in 1..Len(h) /\ x \div 2 # i /\ x \div 2 >= lo
            BY <1>1, <1>4, <2>7, <2>9
        <3>2. t[x] = g[x] /\ t[w \div 2] = g[w]
            BY <2>2, <2>4, <2>7, <3>1
        <3> QED
            BY <1>2, <2>9, <3>1, <3>2
    <2>10. w >= lo + (n + 1) \/ HeapFrom(op, max, t, size, lo)
        <3>1. CASE i >= lo + n
            BY <2>7, <3>1, <1>1
        <3>2. CASE HeapFrom(op, max, g, size, lo)
            <4>1. ASSUME NEW c \in {2 * i, 2 * i + 1}, c <= size PROVE ~A(g[c], g[i])
                <5>1. c \in 2..size /\ c \div 2 = i /\ i >= lo
                    BY <1>1, <4>1
                <5> QED
                    BY <3>2, <5>1 DEF HeapFrom, A
            <4>2. w = i
                BY <4>1 DEF w, A, Uppermost
            <4> QED
                BY <1>6, <4>2
        <3> QED
            BY <1>2, <3>1, <3>2
    <2>11. Sinking(op, max, Q, h, size, lo, [h |-> t, i |-> w], n + 1)
        <3> DEFINE r == [h |-> t, i |-> w]
        <3>1. r.h = t /\ r.i = w
            OBVIOUS
        <3>2. r \in [h : Seq(Q), i : Nat]
            BY <2>3, <2>7
        <3>3. w # lo => w \div 2 >= lo
            BY <2>7, <1>1
        <3> HIDE DEF r
        <3>4. Sinking(op, max, Q, h, size, lo, r, n + 1)
            BY <2>3, <2>5, <2>6, <2>7, <2>8, <2>9, <2>10, <3>1, <3>2, <3>3 DEF Sinking, A
        <3> QED
            BY <3>4 DEF r
    <2> QED
        BY <2>1, <2>11
<1> QED
    BY <1>5, <1>6

(* Only the first size records have moved. *)
MovesAmong(h, t, size) ==
    /\ \A x \in (size + 1)..Len(h) : t[x] = h[x]
    /\ \A x \in 1..size : \E y \in 1..size : t[x] = h[y]

(* What sinking makes of a heap whose record at lo may be out of its place *)
LEMMA Heapified ==
    ASSUME NEW op, NEW max, NEW Q, Ranks(op, max, Q), NEW h \in Seq(Q),
           NEW size \in 0..Len(h), NEW lo \in 1..size,
           HeapFrom(op, max, h, size, lo + 1)
    PROVE  LET t == heapify_down(op, max, h, size, lo)
           IN  Rearranged(Q, h, t) /\ HeapFrom(op, max, t, size, lo) /\ MovesAmong(h, t, size)
<1> DEFINE first == [h |-> h, i |-> lo]
           turn(s) == Sink(op, max, size, s)
           Good(s, n) == Sinking(op, max, Q, h, size, lo, s, n)
           S == {s \in [h : Seq(Q), i : Nat] : Good(s, 0)}
           g == [n \in 1..size |-> [s \in S |-> turn(s)]]
           IsSunk(f) == f = [n \in 0..size |-> IF n = 0 THEN first ELSE turn(f[n - 1])]
           sunk == CHOOSE f : IsSunk(f)
<1>1. size \in Nat /\ size <= Len(h) /\ Len(h) \in Nat
    OBVIOUS
<1>2. heapify_down(op, max, h, size, lo) = sunk[size].h
    BY DEF heapify_down
<1>3. Good(first, 0)
    <2>1. first.h = h /\ first.i = lo /\ first \in [h : Seq(Q), i : Nat]
        OBVIOUS
    <2>2. \A x \in 2..size : (x \div 2 >= lo /\ x \div 2 # lo) => ~Above(op, max, h[x], h[x \div 2])
        <3>1. \A x \in 2..size : (x \div 2 >= lo /\ x \div 2 # lo) => x \div 2 >= lo + 1
            OBVIOUS
        <3> QED
            BY <3>1 DEF HeapFrom
    <2>3. Rearranged(Q, h, h)
        BY DEF Rearranged, SameRows
    <2> HIDE DEF first
    <2> QED
        BY <1>1, <2>1, <2>2, <2>3 DEF Sinking
<1>4. ASSUME NEW s, NEW n \in Nat, Good(s, n) PROVE Good(turn(s), n + 1)
    BY <1>4, SinkKeeps
<1>5. ASSUME NEW s, NEW n \in Nat, Good(s, n) PROVE s \in S
    BY <1>5 DEF Sinking
<1> HIDE DEF first, turn, Good, S
<1>6. \E f : IsSunk(f)
    <2>1. \A n \in 1..size : \A s \in S : g[n][s] = turn(s) /\ g[n][s] \in S
        <3>1. \A s \in S : Good(s, 0)
            BY DEF S
        <3>2. \A s \in S : Good(turn(s), 0 + 1)
            BY <1>4, <3>1
        <3> QED
            BY <1>5, <3>2
    <2>2. first \in S
        BY <1>3, <1>5
    <2>3. PICK f : Follows(f, size, first, g, S)
        <3> HIDE DEF g
        <3> QED
            BY <1>1, <2>1, <2>2, Recursion
    <2>4. /\ f = [n \in 0..size |-> IF n = 0 THEN first ELSE g[n][f[n - 1]]]
          /\ \A n \in 1..size : f[n - 1] \in S
        BY <2>3 DEF Follows, Recurs
    <2> HIDE DEF g
    <2>5. \A n \in 0..size : n # 0 => n \in 1..size /\ g[n][f[n - 1]] = turn(f[n - 1])
        <3>1. \A n \in 0..size : n # 0 => n \in 1..size
            BY <1>1
        <3> QED
            BY <2>1, <2>4, <3>1
    <2>6. IsSunk(f)
        BY <2>4, <2>5
    <2> QED
        BY <2>6
<1>7. IsSunk(sunk)
    BY <1>6
<1> HIDE DEF sunk
<1>8. \A n \in 0..size : Good(sunk[n], n)
    <2> DEFINE SS == [n \in 0..size |-> {s \in S : Good(s, n)}]
    <2>1. sunk[0] = first /\ \A n \in 1..size : sunk[n] = turn(sunk[n - 1]) /\ n - 1 \in Nat
        <3>1. 0 \in 0..size /\ \A n \in 1..size : n \in 0..size /\ n # 0 /\ n - 1 \in Nat
            OBVIOUS
        <3> QED
            BY <1>7, <3>1
    <2>2. \A n \in 1..size : n - 1 \in 0..size /\ n \in 0..size /\ n = (n - 1) + 1
        OBVIOUS
    <2>3. sunk[0] \in SS[0]
        BY <1>1, <1>3, <1>5, <2>1
    <2>4. \A n \in 1..size : sunk[n - 1] \in SS[n - 1] => sunk[n] \in SS[n]
        <3> SUFFICES ASSUME NEW n \in 1..size, sunk[n - 1] \in SS[n - 1] PROVE sunk[n] \in SS[n]
            OBVIOUS
        <3>1. n - 1 \in 0..size /\ n \in 0..size /\ n = (n - 1) + 1 /\ n - 1 \in Nat /\ n \in Nat
            OBVIOUS
        <3>2. Good(sunk[n - 1], n - 1)
            BY <3>1
        <3>3. Good(sunk[n], (n - 1) + 1)
            BY <1>4, <2>1, <3>1, <3>2
        <3> QED
            BY <1>5, <3>1, <3>3
    <2> HIDE DEF SS
    <2>5. \A n \in 0..size : sunk[n] \in SS[n]
        BY <1>1, <2>3, <2>4, StaysIn
    <2> QED
        BY <2>5 DEF SS
<1>9. Good(sunk[size], size)
    BY <1>1, <1>8
<1>10. sunk[size].i \in lo..size
    BY <1>9 DEF Good, Sinking
<1>11. ~(sunk[size].i >= lo + size)
    BY <1>1, <1>10
<1> QED
    BY <1>2, <1>9, <1>11 DEF Good, Sinking, MovesAmong

(* The same while a record climbs: only the record at s.i may be out of    *)
(* its place, above the one over it.                                       *)
Climbing(op, Q, h, s, n) ==
    LET A(a, b) == Above(op, FALSE, a, b)
        size    == Len(h)
    IN  /\ s \in [h : Seq(Q), i : Nat] /\ Rearranged(Q, h, s.h)
        /\ s.i \in 1..size
        /\ \A x \in 2..size : x # s.i => ~A(s.h[x], s.h[x \div 2])
        /\ \A x \in 2..size : (x \div 2 = s.i /\ s.i >= 2) => ~A(s.h[x], s.h[s.i \div 2])
        /\ s.i + n <= size \/ HeapFrom(op, FALSE, s.h, size, 1)

LEMMA ClimbKeeps ==
    ASSUME NEW op, NEW Q, Ranks(op, FALSE, Q), NEW h \in Seq(Q), NEW s, NEW n \in Nat,
           Climbing(op, Q, h, s, n)
    PROVE  Climbing(op, Q, h, Climb(op, s), n + 1)
<1> DEFINE A(a, b) == Above(op, FALSE, a, b)
           g == s.h
           i == s.i
           p == i \div 2
           t == Swapped(g, i, p)
           size == Len(h)
<1> HIDE DEF A
<1>1. /\ g \in Seq(Q) /\ Len(g) = size /\ Rearranged(Q, h, g) /\ i \in 1..size /\ size \in Nat
      /\ s = [h |-> g, i |-> i]
    BY DEF Climbing, Rearranged
<1>2. /\ \A x \in 2..size : x # i => ~A(g[x], g[x \div 2])
      /\ \A x \in 2..size : (x \div 2 = i /\ i >= 2) => ~A(g[x], g[i \div 2])
      /\ i + n <= size \/ HeapFrom(op, FALSE, g, size, 1)
    BY DEF Climbing, A
<1>3. \A a, b, c \in Q : /\ A(a, b) => ~A(b, a)
                         /\ ~A(a, b) /\ ~A(b, c) => ~A(a, c)
    BY DEF Ranks, A
<1>4. \A x \in 2..size : x \div 2 \in 1..size /\ x \div 2 < x
    OBVIOUS
<1>5. \A a, b : A(a, b) <=> compare(op, a.entry, b.entry)
    BY DEF A, Above
<1>6. \A x \in 1..size : g[x] \in Q
    BY <1>1
<1> HIDE DEF g, i, size
<1>7. CASE ~(p >= 1 /\ A(g[i], g[p]))
    <2>1. Climb(op, s) = s
        BY <1>5, <1>7 DEF Climb, g, i
    <2>2. HeapFrom(op, FALSE, g, size, 1)
        <3> SUFFICES ASSUME NEW x \in 2..size PROVE ~A(g[x], g[x \div 2])
            BY DEF HeapFrom, A
        <3>1. CASE x # i
            BY <1>2, <3>1
        <3>2. CASE x = i
            BY <1>4, <1>7, <3>2
        <3> QED
            BY <3>1, <3>2
    <2> QED
        BY <2>1, <2>2 DEF Climbing, g, size
<1>8. CASE p >= 1 /\ A(g[i], g[p])
    <2>1. Climb(op, s) = [h |-> t, i |-> p]
        BY <1>5, <1>8 DEF Climb, g, i
    <2>2. i \in 2..size /\ p \in 1..size /\ p < i /\ p # i /\ p + 1 <= i
        BY <1>1, <1>8
    <2>3. /\ Rearranged(Q, g, t) /\ t[i] = g[p] /\ t[p] = g[i]
          /\ \A x \in DOMAIN g : x # i /\ x # p => t[x] = g[x]
        <3>1. i \in DOMAIN g /\ p \in DOMAIN g
            BY <1>1, <2>2
        <3> HIDE DEF p
        <3> QED
            BY <1>1, <3>1, SwapExchanges
    <2> HIDE DEF t
    <2>4. Rearranged(Q, h, t) /\ t \in Seq(Q)
        BY <1>1, <2>3, RearrangedAgain DEF Rearranged
    <2>5. \A x \in 1..size : x # i /\ x # p => t[x] = g[x]
        BY <1>1, <2>3
    <2>6. ~A(g[p], g[i])
        BY <1>3, <1>6, <1>8, <2>2
    <2>7. ASSUME NEW x \in 2..size, x # p PROVE ~A(t[x], t[x \div 2])
        <3>1. x \in 1..size /\ x \div 2 \in 1..size
            BY <1>4
        <3>2. CASE x = i
            BY <2>3, <2>6, <3>2
        <3>3. CASE x # i /\ x \div 2 = p
            <4>1. t[x] = g[x] /\ t[x \div 2] = g[i]
                BY <2>3, <2>5, <2>7, <3>1, <3>3
            <4>2. ~A(g[x], g[p])
                BY <1>2, <3>3
            <4> QED
                BY <1>3, <1>6, <2>2, <2>6, <3>1, <4>1, <4>2
        <3>4. CASE x \div 2 = i
            <4>1. x # i /\ t[x] = g[x] /\ t[x \div 2] = g[p]
                BY <1>4, <2>3, <2>5, <2>7, <3>1, <3>4
            <4>2. ~A(g[x], g[p])
                BY <1>2, <2>2, <3>4
            <4> QED
                BY <4>1, <4>2
        <3>5. CASE x # i /\ x \div 2 # p /\ x \div 2 # i
            <4>1. t[x] = g[x] /\ t[x \div 2] = g[x \div 2]
                BY <2>5, <2>7, <3>1, <3>5
            <4> QED
                BY <1>2, <3>5, <4>1
        <3> QED
            BY <3>2, <3>3, <3>4, <3>5
    <2>8. ASSUME NEW x \in 2..size, x \div 2 = p, p >= 2 PROVE ~A(t[x], t[p \div 2])
        <3>1. p \in 2..size /\ p \div 2 \in 1..size /\ p \div 2 < p /\ p \div 2 # i /\ x # p
            BY <1>4, <2>2, <2>8
        <3>2. t[p \div 2] = g[p \div 2] /\ ~A(g[p], g[p \div 2])
            BY <1>2, <2>2, <2>5, <3>1
        <3>3. CASE x = i
            BY <2>3, <3>2, <3>3
        <3>4. CASE x # i
            <4>1. t[x] = g[x] /\ ~A(g[x], g[p])
                BY <1>2, <2>5, <2>8, <3>1, <3>4
            <4>2. g[x] \in Q /\ g[p] \in Q /\ g[p \div 2] \in Q
                BY <1>6, <2>2, <3>1
            <4> QED
                BY <1>3, <3>2, <4>1, <4>2
        <3> QED
            BY <3>3, <3>4
    <2>9. p + (n + 1) <= size \/ HeapFrom(op, FALSE, t, size, 1)
        <3>1. CASE i + n <= size
            <4> HIDE DEF p
            <4>1. p \in Int /\ i \in Int /\ size \in Int /\ n \in Int /\ p + 1 <= i
                BY <1>1, <2>2
            <4>2. p + (n + 1) <= size
                BY ONLY <3>1, <4>1
            <4> QED
                BY <4>2
        <3>2. CASE HeapFrom(op, FALSE, g, size, 1)
            <4>1. ~A(g[i], g[p])
                <5>1. i \div 2 >= 1 /\ p = i \div 2
                    BY <1>8
                <5> HIDE DEF p
                <5> QED
                    BY <2>2, <3>2, <5>1 DEF HeapFrom, A
            <4> QED
                BY <1>8, <4>1
        <3> QED
            BY <1>2, <3>1, <3>2
    <2>10. Climbing(op, Q, h, [h |-> t, i |-> p], n + 1)
        <3> DEFINE r == [h |-> t, i |-> p]
        <3>1. r.h = t /\ r.i = p
            OBVIOUS
        <3>2. r \in [h : Seq(Q), i : Nat]
            BY <2>2, <2>4
        <3> HIDE DEF r, p
        <3>3. Climbing(op, Q, h, r, n + 1)
            BY <2>2, <2>4, <2>7, <2>8, <2>9, <3>1, <3>2 DEF Climbing, A, size
        <3> QED
            BY <3>3 DEF r
    <2> QED
        BY <2>1, <2>10
<1> QED
    BY <1>7, <1>8

(* A record appended to a heap climbs to its place. *)
LEMMA Climbed ==
    ASSUME NEW op, NEW Q, Ranks(op, FALSE, Q), NEW h \in Seq(Q), h # <<>>,
           HeapFrom(op, FALSE, h, Len(h) - 1, 1)
    PROVE  Rearranged(Q, h, heapify_up(op, h)) /\ HeapFrom(op, FALSE, heapify_up(op, h), Len(h), 1)
<1> DEFINE size == Len(h)
           first == [h |-> h, i |-> size]
           turn(s) == Climb(op, s)
           Good(s, n) == Climbing(op, Q, h, s, n)
           S == {s \in [h : Seq(Q), i : Nat] : \E n \in Nat : Good(s, n)}
           g == [n \in 1..size |-> [s \in S |-> turn(s)]]
           IsClimbed(f) == f = [n \in 0..size |-> IF n = 0 THEN first ELSE turn(f[n - 1])]
           climbed == CHOOSE f : IsClimbed(f)
<1>1. size \in Nat /\ size >= 1
    OBVIOUS
<1>2. heapify_up(op, h) = climbed[size].h
    BY DEF heapify_up
<1>3. Good(first, 0)
    <2>1. first.h = h /\ first.i = size /\ first \in [h : Seq(Q), i : Nat]
        OBVIOUS
    <2>2. \A x \in 2..size : x # size => ~Above(op, FALSE, h[x], h[x \div 2])
        <3>1. \A x \in 2..size : x # size => x \in 2..(Len(h) - 1) /\ x \div 2 >= 1
            OBVIOUS
        <3> QED
            BY <3>1 DEF HeapFrom
    <2>3. Rearranged(Q, h, h)
        BY DEF Rearranged, SameRows
    <2>4. \A x \in 2..size : x \div 2 # size
        OBVIOUS
    <2> HIDE DEF first
    <2>5. size \in 1..size /\ size + 0 <= size
        BY <1>1
    <2> QED
        BY <2>1, <2>2, <2>3, <2>4, <2>5 DEF Climbing
<1>4. ASSUME NEW s, NEW n \in Nat, Good(s, n) PROVE Good(turn(s), n + 1)
    BY <1>4, ClimbKeeps
<1>5. ASSUME NEW s, NEW n \in Nat, Good(s, n) PROVE s \in S
    <2>1. s \in [h : Seq(Q), i : Nat]
        BY <1>5 DEF Climbing
    <2> HIDE DEF Good
    <2> QED
        BY <1>5, <2>1
<1> HIDE DEF first, turn, Good, S, size
<1>6. \E f : IsClimbed(f)
    <2>1. \A n \in 1..size : \A s \in S : g[n][s] = turn(s) /\ g[n][s] \in S
        <3> SUFFICES ASSUME NEW n \in 1..size, NEW s \in S PROVE turn(s) \in S
            OBVIOUS
        <3>1. PICK k \in Nat : Good(s, k)
            BY DEF S
        <3>2. Good(turn(s), k + 1) /\ k + 1 \in Nat
            BY <1>4, <3>1
        <3> QED
            BY <1>5, <3>2
    <2>2. first \in S
        BY <1>3, <1>5
    <2>3. PICK f : Follows(f, size, first, g, S)
        <3> HIDE DEF g
        <3> QED
            BY <1>1, <2>1, <2>2, Recursion
    <2>4. /\ f = [n \in 0..size |-> IF n = 0 THEN first ELSE g[n][f[n - 1]]]
          /\ \A n \in 1..size : f[n - 1] \in S
        BY <2>3 DEF Follows, Recurs
    <2> HIDE DEF g
    <2>5. \A n \in 0..size : n # 0 => n \in 1..size /\ g[n][f[n - 1]] = turn(f[n - 1])
        <3>1. \A n \in 0..size : n # 0 => n \in 1..size
            BY <1>1
        <3> QED
            BY <2>1, <2>4, <3>1
    <2>6. IsClimbed(f)
        BY <2>4, <2>5
    <2> QED
        BY <2>6
<1>7. IsClimbed(climbed)
    BY <1>6
<1> HIDE DEF climbed
<1>8. \A n \in 0..size : Good(climbed[n], n)
    <2> DEFINE SS == [n \in 0..size |-> {s \in S : Good(s, n)}]
    <2>1. climbed[0] = first /\ \A n \in 1..size : climbed[n] = turn(climbed[n - 1]) /\ n - 1 \in Nat
        <3>1. 0 \in 0..size /\ \A n \in 1..size : n \in 0..size /\ n # 0 /\ n - 1 \in Nat
            BY <1>1
        <3> QED
            BY <1>7, <3>1
    <2>2. climbed[0] \in SS[0]
        BY <1>1, <1>3, <1>5, <2>1
    <2>3. \A n \in 1..size : climbed[n - 1] \in SS[n - 1] => climbed[n] \in SS[n]
        <3> SUFFICES ASSUME NEW n \in 1..size, climbed[n - 1] \in SS[n - 1] PROVE climbed[n] \in SS[n]
            OBVIOUS
        <3>1. n - 1 \in 0..size /\ n \in 0..size /\ n = (n - 1) + 1 /\ n - 1 \in Nat /\ n \in Nat
            BY <1>1
        <3>2. Good(climbed[n - 1], n - 1)
            BY <3>1
        <3>3. Good(climbed[n], (n - 1) + 1)
            BY <1>4, <2>1, <3>1, <3>2
        <3> QED
            BY <1>5, <3>1, <3>3
    <2> HIDE DEF SS
    <2>4. \A n \in 0..size : climbed[n] \in SS[n]
        BY <1>1, <2>2, <2>3, StaysIn
    <2> QED
        BY <2>4 DEF SS
<1>9. Good(climbed[size], size)
    BY <1>1, <1>8
<1>10. climbed[size].i \in 1..size
    BY <1>9 DEF Good, Climbing, size
<1>11. ~(climbed[size].i + size <= size)
    BY <1>1, <1>10
<1> QED
    BY <1>2, <1>9, <1>11 DEF Good, Climbing, size

(* No record of a heap belongs above the one on top. *)
LEMMA TopIsAbove ==
    ASSUME NEW op, NEW max, NEW Q, Ranks(op, max, Q), NEW h \in Seq(Q), NEW size \in 0..Len(h),
           HeapFrom(op, max, h, size, 1)
    PROVE  \A x \in 1..size : ~Above(op, max, h[x], h[1])
<1> DEFINE A(a, b) == Above(op, max, a, b)
           T == {m \in Nat : \E x \in 1..m : x <= size /\ A(h[x], h[1])}
<1> HIDE DEF A
<1>1. \A a, b, c \in Q : /\ A(a, b) => ~A(b, a)
                         /\ ~A(a, b) /\ ~A(b, c) => ~A(a, c)
    BY DEF Ranks, A
<1>2. 0 \notin T
    OBVIOUS
<1>3. ASSUME NEW m \in 1..size, m - 1 \notin T PROVE m \notin T
    <2> SUFFICES ASSUME A(h[m], h[1]) PROVE FALSE
        <3>1. m - 1 \in Nat /\ \A x \in 1..m : x # m => x \in 1..(m - 1)
            OBVIOUS
        <3> QED
            BY <1>3, <3>1
    <2>1. h[m] \in Q /\ h[1] \in Q
        OBVIOUS
    <2>2. m # 1
        BY <1>1, <2>1
    <2>3. m \in 2..size /\ m \div 2 \in 1..(m - 1) /\ m \div 2 <= size /\ m \div 2 >= 1 /\ m - 1 \in Nat
        BY <2>2
    <2>4. ~A(h[m], h[m \div 2])
        BY <2>3 DEF HeapFrom, A
    <2>5. ~A(h[m \div 2], h[1]) /\ h[m \div 2] \in Q
        BY <1>3, <2>3
    <2> QED
        BY <1>1, <2>1, <2>4, <2>5
<1>4. \A m \in 0..size : m \notin T
    <2> HIDE DEF T
    <2> QED
        BY <1>2, <1>3, UpTo
<1> SUFFICES ASSUME NEW x \in 1..size PROVE ~A(h[x], h[1])
    BY DEF A
<1>5. x \in 0..size /\ x \in Nat /\ x \in 1..x /\ x <= size
    OBVIOUS
<1>6. x \notin T
    BY <1>4, <1>5
<1> QED
    BY <1>5, <1>6

(* A heap, with the smallest on top.                                       *)
IsHeap(op, Q, h) == h \in Seq(Q) /\ HeapFrom(op, FALSE, h, Len(h), 1)

LEMMA HeapPushed ==
    ASSUME NEW op, NEW Q, Ranks(op, FALSE, Q), NEW h, IsHeap(op, Q, h), NEW capacity \in Nat,
           Len(h) < capacity, NEW e, NEW r, [entry |-> e, run_idx |-> r] \in Q
    PROVE  LET t == heap_push(op, h, capacity, e, r)
           IN  IsHeap(op, Q, t) /\ Rearranged(Q, Append(h, [entry |-> e, run_idx |-> r]), t)
<1> DEFINE rec == [entry |-> e, run_idx |-> r]
           g == Append(h, rec)
           t == heapify_up(op, g)
<1>1. h \in Seq(Q) /\ HeapFrom(op, FALSE, h, Len(h), 1) /\ rec \in Q /\ Len(h) \in Nat
    <2>1. h \in Seq(Q) /\ HeapFrom(op, FALSE, h, Len(h), 1)
        BY DEF IsHeap
    <2>2. rec \in Q
        BY DEF rec
    <2>3. h \in Seq(Q)
        BY <2>1
    <2>4. Len(h) \in Nat
        BY ONLY <2>3
    <2> QED
        BY <2>1, <2>2, <2>4
<1> HIDE DEF rec
<1>2. heap_push(op, h, capacity, e, r) = t
    BY <1>1 DEF heap_push, rec
<1>3. g \in Seq(Q) /\ Len(g) = Len(h) + 1 /\ g # <<>> /\ \A x \in 1..Len(h) : g[x] = h[x]
    BY <1>1
<1>4. HeapFrom(op, FALSE, g, Len(g) - 1, 1)
    <2>1. Len(g) - 1 = Len(h) /\ \A x \in 2..Len(h) : x \in 1..Len(h) /\ x \div 2 \in 1..Len(h)
        BY <1>1, <1>3
    <2>2. \A x \in 2..Len(h) : g[x] = h[x] /\ g[x \div 2] = h[x \div 2]
        BY <1>3, <2>1
    <2> HIDE DEF g
    <2> QED
        BY <1>1, <2>1, <2>2 DEF HeapFrom
<1> HIDE DEF g
<1>5. Rearranged(Q, g, t) /\ HeapFrom(op, FALSE, t, Len(g), 1)
    BY <1>3, <1>4, Climbed
<1> HIDE DEF t
<1> QED
    BY <1>2, <1>5 DEF IsHeap, Rearranged, g, rec

(* Without the last, which takes the place of the first. *)
LEMMA TopReplaced ==
    ASSUME NEW op, NEW Q, NEW h \in Seq(Q), Len(h) >= 2, HeapFrom(op, FALSE, h, Len(h), 1)
    PROVE  LET rest == [SubSeq(h, 1, Len(h) - 1) EXCEPT ![1] = h[Len(h)]]
           IN  /\ rest \in Seq(Q) /\ Len(rest) = Len(h) - 1
               /\ HeapFrom(op, FALSE, rest, Len(h) - 1, 2)
               /\ SameRows(h, rest \o <<h[1]>>)
<1>1. PICK n : n = Len(h)
    OBVIOUS
<1>2. PICK rest : rest = [SubSeq(h, 1, n - 1) EXCEPT ![1] = h[n]]
    OBVIOUS
<1>3. n \in Nat /\ n >= 2
    BY <1>1
<1>4. HeapFrom(op, FALSE, h, n, 1)
    BY <1>1
<1> DEFINE x == Swapped(h, 1, n)
           front == SubSeq(h, 1, n - 1)
<1>5. n - 1 \in Nat /\ h[1] \in Q /\ h[n] \in Q /\ DOMAIN h = 1..n /\ 1 \in 1..n /\ n \in 1..n
    BY ONLY <1>3, h \in Seq(Q), <1>1
<1>6. /\ Rearranged(Q, h, x) /\ x[1] = h[n] /\ x[n] = h[1]
      /\ \A i \in 1..n : i # 1 /\ i # n => x[i] = h[i]
    BY <1>5, SwapExchanges
<1>7. x \in Seq(Q) /\ Len(x) = n
    BY <1>1, <1>6 DEF Rearranged
<1> HIDE DEF x
<1>8. front \in Seq(Q) /\ Len(front) = n - 1 /\ \A i \in 1..(n - 1) : front[i] = h[i]
    BY <1>1, <1>5, <1>3
<1> HIDE DEF front
<1>9. rest = [front EXCEPT ![1] = h[n]]
    BY <1>2 DEF front
<1>10. rest \in Seq(Q) /\ Len(rest) = n - 1
    BY <1>5, <1>8, <1>9
<1>11. \A i \in 1..(n - 1) : rest[i] = IF i = 1 THEN h[n] ELSE h[i]
    <2>1. DOMAIN front = 1..(n - 1)
        BY <1>5, <1>8
    <2> QED
        BY <1>8, <1>9, <2>1
<1>12. \A i \in 1..(n - 1) : i \in 1..n /\ i # n
    BY <1>5, <1>3
<1>13. \A i \in 1..(n - 1) : rest[i] = x[i]
    BY <1>6, <1>11, <1>12
<1>14. x = rest \o <<h[1]>>
    <2>1. <<h[1]>> \in Seq(Q) /\ Len(<<h[1]>>) = 1 /\ <<h[1]>>[1] = h[1]
        BY <1>5
    <2>2. Len(rest \o <<h[1]>>) = n /\ rest \o <<h[1]>> \in Seq(Q)
        BY <1>5, <1>10, <2>1
    <2>3. ASSUME NEW i \in 1..n PROVE (rest \o <<h[1]>>)[i] = x[i]
        <3>1. CASE i = n
            <4>1. (rest \o <<h[1]>>)[i] = h[1]
                BY <1>5, <1>10, <2>1, <3>1
            <4> QED
                BY <1>6, <3>1, <4>1
        <3>2. CASE i # n
            <4>1. i \in 1..(n - 1)
                BY <1>3, <3>2
            <4>2. (rest \o <<h[1]>>)[i] = rest[i]
                BY <1>5, <1>10, <2>1, <4>1
            <4> QED
                BY <1>13, <4>1, <4>2
        <3> QED
            BY <3>1, <3>2
    <2>4. ASSUME NEW z \in Seq(Q), Len(z) = n PROVE z \in [1..n -> Q]
        BY <2>4
    <2>5. x \in [1..n -> Q] /\ rest \o <<h[1]>> \in [1..n -> Q]
        BY <1>7, <2>2, <2>4
    <2>6. ASSUME NEW u \in [1..n -> Q], NEW v \in [1..n -> Q], \A i \in 1..n : u[i] = v[i] PROVE u = v
        <3>1. u = [i \in 1..n |-> u[i]] /\ v = [i \in 1..n |-> v[i]]
            OBVIOUS
        <3> QED
            BY <2>6, <3>1
    <2> QED
        BY <2>3, <2>5, <2>6
<1>15. HeapFrom(op, FALSE, rest, n - 1, 2)
    <2> SUFFICES ASSUME NEW i \in 2..(n - 1), i \div 2 >= 2
                 PROVE  ~Above(op, FALSE, rest[i], rest[i \div 2])
        BY DEF HeapFrom
    <2>1. /\ i # 1 /\ i \in 1..(n - 1) /\ i \in 2..n
          /\ i \div 2 # 1 /\ i \div 2 \in 1..(n - 1) /\ i \div 2 >= 1
        BY <1>3
    <2>2. rest[i] = h[i] /\ rest[i \div 2] = h[i \div 2]
        BY <1>11, <2>1
    <2> QED
        BY <1>4, <2>1, <2>2 DEF HeapFrom
<1>16. SameRows(h, rest \o <<h[1]>>)
    BY <1>6, <1>14 DEF Rearranged
<1> QED
    BY <1>1, <1>2, <1>10, <1>15, <1>16

LEMMA HeapPopped ==
    ASSUME NEW op, NEW Q, Ranks(op, FALSE, Q), NEW h, IsHeap(op, Q, h), h # <<>>
    PROVE  LET t == heap_pop(op, h)
           IN  /\ IsHeap(op, Q, t) /\ Len(t) = Len(h) - 1
               /\ h[1] \in Q /\ SameRows(h, t \o <<h[1]>>)
               /\ \A x \in 1..Len(h) : ~Above(op, FALSE, h[x], h[1])
<1>1. h \in Seq(Q) /\ HeapFrom(op, FALSE, h, Len(h), 1) /\ Len(h) \in Nat /\ Len(h) >= 1
      /\ h[1] \in Q
    <2>1. h \in Seq(Q) /\ HeapFrom(op, FALSE, h, Len(h), 1)
        BY DEF IsHeap
    <2>2. h \in Seq(Q)
        BY <2>1
    <2>3. Len(h) \in Nat /\ Len(h) >= 1 /\ h[1] \in Q
        BY ONLY <2>2, h # <<>>
    <2> QED
        BY <2>1, <2>3
<1>2. \A x \in 1..Len(h) : ~Above(op, FALSE, h[x], h[1])
    <2>1. Len(h) \in 0..Len(h)
        BY <1>1
    <2> QED
        BY <1>1, <2>1, TopIsAbove
<1>3. CASE Len(h) = 1
    <2>1. heap_pop(op, h) = <<>>
        BY <1>3 DEF heap_pop
    <2>2. h = <<>> \o <<h[1]>>
        BY <1>1, <1>3
    <2>3. IsHeap(op, Q, <<>>) /\ Len(<<>>) = Len(h) - 1
        BY <1>3 DEF IsHeap, HeapFrom
    <2>4. SameRows(h, <<>> \o <<h[1]>>)
        BY <2>2 DEF SameRows
    <2> QED
        BY <1>1, <1>2, <2>1, <2>3, <2>4
<1>4. CASE Len(h) # 1
    <2> DEFINE rest == [SubSeq(h, 1, Len(h) - 1) EXCEPT ![1] = h[Len(h)]]
    <2>1. Len(h) >= 2 /\ Len(h) - 1 \in Nat
        <3>1. Len(h) \in Nat /\ Len(h) >= 1
            BY <1>1
        <3>2. ASSUME NEW k \in Nat, k >= 1, k # 1 PROVE k >= 2 /\ k - 1 \in Nat
            BY <3>2
        <3> QED
            BY <1>4, <3>1, <3>2
    <2>2. /\ rest \in Seq(Q) /\ Len(rest) = Len(h) - 1 /\ HeapFrom(op, FALSE, rest, Len(h) - 1, 2)
          /\ SameRows(h, rest \o <<h[1]>>)
        BY <1>1, <2>1, TopReplaced
    <2>3. heap_pop(op, h) = heapify_down(op, FALSE, rest, Len(rest), 1)
        BY <1>4 DEF heap_pop
    <2> HIDE DEF rest
    <2>4. PICK n : n = Len(h) - 1
        OBVIOUS
    <2>5. n \in 0..Len(rest) /\ 1 \in 1..n /\ Len(rest) = n
        BY <2>1, <2>2, <2>4
    <2>6. HeapFrom(op, FALSE, rest, n, 1 + 1)
        <3>1. 1 + 1 = 2
            OBVIOUS
        <3> QED
            BY <2>2, <2>4, <3>1
    <2>7. PICK t : t = heapify_down(op, FALSE, rest, n, 1)
        OBVIOUS
    <2>8. heap_pop(op, h) = t
        BY <2>3, <2>5, <2>7
    <2>9. Rearranged(Q, rest, t) /\ HeapFrom(op, FALSE, t, n, 1)
        BY <2>2, <2>5, <2>6, <2>7, Heapified
    <2>10. t \in Seq(Q) /\ Len(t) = n
        BY <2>5, <2>9 DEF Rearranged
    <2>11. IsHeap(op, Q, t) /\ Len(t) = Len(h) - 1
        BY <2>4, <2>9, <2>10 DEF IsHeap
    <2>12. SameRows(h, t \o <<h[1]>>)
        <3> SUFFICES ASSUME NEW A PROVE Times(h, A) = Times(t \o <<h[1]>>, A)
            BY DEF SameRows
        <3>1. t \in Seq(Q) /\ rest \in Seq(Q) /\ <<h[1]>> \in Seq(Q)
            <4>1. h[1] \in Q
                BY <1>1
            <4> QED
                BY <2>2, <2>10, <4>1
        <3>2. Times(t, A) = Times(rest, A)
            BY <2>9 DEF Rearranged, SameRows
        <3>3. Times(h, A) = Times(rest \o <<h[1]>>, A)
            BY <2>2 DEF SameRows
        <3>4. Times(rest \o <<h[1]>>, A) = Times(rest, A) + Times(<<h[1]>>, A)
            BY <3>1, TimesConcat
        <3>5. Times(t \o <<h[1]>>, A) = Times(t, A) + Times(<<h[1]>>, A)
            BY <3>1, TimesConcat
        <3> QED
            BY <3>2, <3>3, <3>4, <3>5
    <2> QED
        BY <1>1, <1>2, <2>8, <2>11, <2>12
<1> QED
    BY <1>3, <1>4

(* A recursion whose steps lead from set to set has a solution.            *)
LEMMA RecursionIn ==
    ASSUME NEW m \in Nat, NEW SS, NEW a \in SS[0], NEW g,
           \A i \in 1..m : \A x \in SS[i - 1] : g[i][x] \in SS[i]
    PROVE  \E f : Recurs(f, m, a, g) /\ \A i \in 0..m : f[i] \in SS[i]
<1> DEFINE Solves(f, x) == Recurs(f, x, a, g) /\ \A i \in 0..x : f[i] \in SS[i]
           T == {x \in Nat : ~ \E f : Solves(f, x)}
<1>1. 0 \notin T
    <2>1. Solves([i \in 0..0 |-> a], 0)
        BY DEF Recurs
    <2> QED
        BY <2>1
<1>2. ASSUME NEW x \in 1..m, x - 1 \notin T PROVE x \notin T
    <2>1. PICK old : Solves(old, x - 1)
        BY <1>2
    <2> DEFINE new == [i \in 0..x |-> IF i = x THEN g[x][old[x - 1]] ELSE old[i]]
    <2>2. /\ \A i \in 0..x : i # x => new[i] = old[i] /\ i \in 0..(x - 1)
          /\ new[x] = g[x][old[x - 1]]
          /\ x - 1 \in 0..x /\ x - 1 # x
        OBVIOUS
    <2>3. ASSUME NEW i \in 0..x
          PROVE  /\ new[i] = IF i = 0 THEN a ELSE g[i][new[i - 1]]
                 /\ new[i] \in SS[i]
        <3>1. CASE i = x
            <4>1. old[x - 1] \in SS[x - 1] /\ x # 0
                BY <2>1
            <4> HIDE DEF new
            <4> QED
                BY <1>2, <2>2, <3>1, <4>1
        <3>2. CASE i # x
            <4>1. i \in 0..(x - 1) /\ (i # 0 => i - 1 \in 0..x /\ i - 1 # x)
                BY <3>2
            <4>2. old[i] = (IF i = 0 THEN a ELSE g[i][old[i - 1]]) /\ old[i] \in SS[i]
                BY <2>1, <4>1 DEF Recurs
            <4> HIDE DEF new
            <4> QED
                BY <2>2, <3>2, <4>1, <4>2
        <3> QED
            BY <3>1, <3>2
    <2>4. new = [i \in 0..x |-> new[i]]
        OBVIOUS
    <2>5. Solves(new, x)
        <3> HIDE DEF new
        <3> QED
            BY <2>3, <2>4 DEF Recurs
    <2> QED
        BY <2>5
<1>3. m \notin T
    <2> HIDE DEF T
    <2> QED
        BY <1>1, <1>2, UpTo
<1> QED
    BY <1>3

(* The arrays that heap_sort goes through while it builds its heap. *)
BuildsHeap(op, h, n, f) ==
    f = [j \in 0..(n \div 2) |->
            IF j = 0 THEN h ELSE heapify_down(op, TRUE, f[j - 1], n, n \div 2 + 1 - j)]

LEMMA HeapBuilt ==
    ASSUME NEW op, NEW Q, Ranks(op, TRUE, Q), NEW h \in Seq(Q), NEW n \in Nat, n = Len(h)
    PROVE  /\ \E f : BuildsHeap(op, h, n, f)
           /\ \A f : BuildsHeap(op, h, n, f) =>
                 /\ Rearranged(Q, h, f[n \div 2])
                 /\ HeapFrom(op, TRUE, f[n \div 2], n, 1)
<1> DEFINE m == n \div 2
           turn(x, j) == heapify_down(op, TRUE, x, n, m + 1 - j)
           SS == [j \in 0..m |-> {x \in Seq(Q) : Rearranged(Q, h, x) /\ HeapFrom(op, TRUE, x, n, m + 1 - j)}]
           g == [j \in 1..m |-> [x \in SS[j - 1] |-> turn(x, j)]]
<1>1. m \in Nat /\ m <= n
    OBVIOUS
<1>2. h \in SS[0]
    <2>1. Rearranged(Q, h, h)
        BY DEF Rearranged, SameRows
    <2>2. HeapFrom(op, TRUE, h, n, m + 1 - 0)
        BY DEF HeapFrom
    <2> HIDE DEF m
    <2>3. 0 \in 0..m
        BY <1>1
    <2> QED
        BY <2>1, <2>2, <2>3
<1> HIDE DEF m
<1>3. ASSUME NEW j \in 1..m, NEW x \in SS[j - 1] PROVE turn(x, j) \in SS[j]
    <2>1. /\ j - 1 \in 0..m /\ j \in 0..m /\ m + 1 - (j - 1) = (m + 1 - j) + 1
          /\ m + 1 - j \in 1..n
        BY <1>1
    <2>2. x \in Seq(Q) /\ Rearranged(Q, h, x) /\ HeapFrom(op, TRUE, x, n, (m + 1 - j) + 1)
        BY <2>1
    <2>3. Len(x) = n /\ n \in 0..Len(x)
        BY <2>2 DEF Rearranged
    <2>4. Rearranged(Q, x, turn(x, j)) /\ HeapFrom(op, TRUE, turn(x, j), n, m + 1 - j)
        BY <2>1, <2>2, <2>3, Heapified
    <2> HIDE DEF turn
    <2>5. Rearranged(Q, h, turn(x, j))
        BY <2>2, <2>4, RearrangedAgain
    <2>6. turn(x, j) \in Seq(Q)
        BY <2>5 DEF Rearranged
    <2> QED
        BY <2>1, <2>4, <2>5, <2>6
<1>4. \E f : BuildsHeap(op, h, n, f)
    <2>1. \A j \in 1..m : \A x \in SS[j - 1] : g[j][x] = turn(x, j)
        OBVIOUS
    <2>2. \A j \in 1..m : \A x \in SS[j - 1] : g[j][x] \in SS[j]
        <3> HIDE DEF turn, SS, g
        <3> QED
            BY <1>3, <2>1
    <2>3. PICK f : Recurs(f, m, h, g) /\ \A j \in 0..m : f[j] \in SS[j]
        <3> HIDE DEF turn, SS, g
        <3> QED
            BY <1>1, <1>2, <2>2, RecursionIn
    <2> HIDE DEF turn, SS, g
    <2>4. \A j \in 0..m : j # 0 => j \in 1..m /\ j - 1 \in 0..m
        BY <1>1
    <2>5. \A j \in 0..m : j # 0 => g[j][f[j - 1]] = turn(f[j - 1], j)
        BY <2>1, <2>3, <2>4
    <2>6. f = [j \in 0..m |-> IF j = 0 THEN h ELSE turn(f[j - 1], j)]
        BY <2>3, <2>5 DEF Recurs
    <2> QED
        BY <2>6 DEF BuildsHeap, turn, m
<1>5. ASSUME NEW f, BuildsHeap(op, h, n, f) PROVE f[m] \in SS[m]
    <2>1. f = [j \in 0..m |-> IF j = 0 THEN h ELSE turn(f[j - 1], j)]
        BY <1>5 DEF BuildsHeap, m
    <2>2. f[0] = h /\ \A j \in 1..m : f[j] = turn(f[j - 1], j)
        <3> HIDE DEF turn
        <3>1. 0 \in 0..m /\ \A j \in 1..m : j \in 0..m /\ j # 0
            BY <1>1
        <3> QED
            BY <2>1, <3>1
    <2> HIDE DEF SS, turn
    <2>3. \A j \in 1..m : f[j - 1] \in SS[j - 1] => f[j] \in SS[j]
        BY <1>3, <2>2
    <2>4. f[0] \in SS[0]
        BY <1>2, <2>2
    <2>5. \A j \in 0..m : f[j] \in SS[j]
        BY <1>1, <2>3, <2>4, StaysIn
    <2> QED
        BY <1>1, <2>5
<1>6. ASSUME NEW f, BuildsHeap(op, h, n, f)
      PROVE  Rearranged(Q, h, f[n \div 2]) /\ HeapFrom(op, TRUE, f[n \div 2], n, 1)
    <2>1. m \in 0..m /\ m + 1 - m = 1
        BY <1>1
    <2>2. Rearranged(Q, h, f[m]) /\ HeapFrom(op, TRUE, f[m], n, 1)
        BY <1>5, <1>6, <2>1
    <2> QED
        BY <2>2 DEF m
<1> QED
    BY <1>4, <1>6

(* Behind the k-th place every record has its place.                       *)
Placed(op, h, n, k) ==
    \A b \in (k + 1)..n : \A a \in 1..(b - 1) : ~Above(op, TRUE, h[a], h[b])

(* The top of the heap moves to the last place of the heap. *)
LEMMA TopMoved ==
    ASSUME NEW op, NEW Q, Ranks(op, TRUE, Q), NEW h \in Seq(Q), NEW n \in Nat, n = Len(h),
           NEW end \in 2..n, HeapFrom(op, TRUE, h, end, 1), Placed(op, h, n, end)
    PROVE  LET t == heapify_down(op, TRUE, Swapped(h, 1, end), end - 1, 1)
           IN  /\ Rearranged(Q, h, t) /\ HeapFrom(op, TRUE, t, end - 1, 1)
               /\ Placed(op, t, n, end - 1)
<1> DEFINE A(a, b) == Above(op, TRUE, a, b)
           y == Swapped(h, 1, end)
           t == heapify_down(op, TRUE, y, end - 1, 1)
<1> HIDE DEF A
<1>1. /\ Rearranged(Q, h, y) /\ y[1] = h[end] /\ y[end] = h[1]
      /\ \A x \in 1..n : x # 1 /\ x # end => y[x] = h[x]
    <2>1. 1 \in DOMAIN h /\ end \in DOMAIN h /\ DOMAIN h = 1..n
        OBVIOUS
    <2> HIDE DEF y
    <2> QED
        BY <2>1, SwapExchanges DEF y
<1>2. y \in Seq(Q) /\ Len(y) = n
    BY <1>1 DEF Rearranged
<1> HIDE DEF y
<1>3. \A a \in 1..end : ~A(h[a], h[1])
    <2>1. end \in 0..Len(h)
        OBVIOUS
    <2> QED
        BY <2>1, TopIsAbove DEF A
<1>4. Placed(op, y, n, end - 1)
    <2> SUFFICES ASSUME NEW b \in end..n, NEW a \in 1..(b - 1) PROVE ~A(y[a], y[b])
        <3>1. \A b : b \in ((end - 1) + 1)..n => b \in end..n
            OBVIOUS
        <3> QED
            BY <3>1 DEF Placed, A
    <2>1. a \in 1..n /\ b \in 1..n /\ b # 1 /\ a # b
        OBVIOUS
    <2>2. CASE b = end
        <3>1. a \in 1..end /\ a # end /\ end \in 1..end
            BY <2>1, <2>2
        <3>2. y[a] = h[a] \/ y[a] = h[end]
            BY <1>1, <2>1, <3>1
        <3> QED
            BY <1>1, <1>3, <2>2, <3>1, <3>2
    <2>3. CASE b # end
        <3>1. b \in (end + 1)..n /\ a \in 1..(b - 1) /\ end \in 1..(b - 1) /\ 1 \in 1..(b - 1) /\ y[b] = h[b]
            BY <1>1, <2>1, <2>3
        <3>2. y[a] = h[a] \/ y[a] = h[end] \/ y[a] = h[1]
            BY <1>1, <2>1
        <3>3. \A c \in 1..(b - 1) : ~A(h[c], h[b])
            BY <3>1 DEF Placed, A
        <3> QED
            BY <3>1, <3>2, <3>3
    <2> QED
        BY <2>2, <2>3
<1>5. HeapFrom(op, TRUE, y, end - 1, 2)
    <2> SUFFICES ASSUME NEW x \in 2..(end - 1), x \div 2 >= 2 PROVE ~A(y[x], y[x \div 2])
        BY DEF HeapFrom, A
    <2>1. /\ x \in 1..n /\ x # 1 /\ x # end /\ x \in 2..end
          /\ x \div 2 \in 1..n /\ x \div 2 # 1 /\ x \div 2 # end /\ x \div 2 >= 1
        OBVIOUS
    <2>2. y[x] = h[x] /\ y[x \div 2] = h[x \div 2]
        BY <1>1, <2>1
    <2> QED
        BY <2>1, <2>2 DEF HeapFrom, A
<1>6. /\ Rearranged(Q, y, t) /\ HeapFrom(op, TRUE, t, end - 1, 1)
      /\ \A x \in end..n : t[x] = y[x]
      /\ \A x \in 1..(end - 1) : \E z \in 1..(end - 1) : t[x] = y[z]
    <2>1. PICK size : size = end - 1
        OBVIOUS
    <2>2. size \in 0..Len(y) /\ 1 \in 1..size /\ 1 + 1 = 2 /\ size + 1 = end
        BY <1>2, <2>1
    <2>3. HeapFrom(op, TRUE, y, size, 1 + 1)
        BY <1>5, <2>1, <2>2
    <2> DEFINE u == heapify_down(op, TRUE, y, size, 1)
    <2>4. Rearranged(Q, y, u) /\ HeapFrom(op, TRUE, u, size, 1) /\ MovesAmong(y, u, size)
        BY <1>2, <2>2, <2>3, Heapified
    <2>5. u = t
        BY <2>1
    <2> HIDE DEF t, u
    <2> QED
        BY <1>2, <2>1, <2>2, <2>4, <2>5 DEF MovesAmong
<1> HIDE DEF t
<1>7. Placed(op, t, n, end - 1)
    <2> SUFFICES ASSUME NEW b \in end..n, NEW a \in 1..(b - 1) PROVE ~A(t[a], t[b])
        <3>1. \A b : b \in ((end - 1) + 1)..n => b \in end..n
            OBVIOUS
        <3> QED
            BY <3>1 DEF Placed, A
    <2>1. \A c \in 1..(b - 1) : ~A(y[c], y[b])
        <3>1. b \in ((end - 1) + 1)..n
            OBVIOUS
        <3> QED
            BY <1>4, <3>1 DEF Placed, A
    <2>2. t[b] = y[b]
        BY <1>6
    <2>3. CASE a >= end
        <3>1. t[a] = y[a]
            BY <1>6, <2>3
        <3> QED
            BY <2>1, <2>2, <3>1
    <2>4. CASE a < end
        <3>1. a \in 1..(end - 1)
            BY <2>4
        <3>2. PICK z \in 1..(end - 1) : t[a] = y[z]
            BY <1>6, <3>1
        <3>3. z \in 1..(b - 1)
            OBVIOUS
        <3> QED
            BY <2>1, <2>2, <3>2, <3>3
    <2> QED
        BY <2>3, <2>4
<1>8. Rearranged(Q, h, t)
    BY <1>1, <1>6, RearrangedAgain
<1> QED
    BY <1>6, <1>7, <1>8 DEF t, y

(* The arrays that it goes through afterwards. *)
EmptiesHeap(op, h, n, f) ==
    f = [j \in 0..(n - 1) |->
            IF j = 0 THEN h
            ELSE LET end == n + 1 - j
                 IN  heapify_down(op, TRUE, Swapped(f[j - 1], 1, end), end - 1, 1)]

LEMMA HeapPlaced ==
    ASSUME NEW op, NEW Q, Ranks(op, TRUE, Q), NEW h \in Seq(Q), NEW n \in Nat, n = Len(h), n >= 1,
           HeapFrom(op, TRUE, h, n, 1)
    PROVE  /\ \E f : EmptiesHeap(op, h, n, f)
           /\ \A f : EmptiesHeap(op, h, n, f) =>
                 /\ Rearranged(Q, h, f[n - 1])
                 /\ Placed(op, f[n - 1], n, 1)
<1> DEFINE m == n - 1
           turn(x, j) == heapify_down(op, TRUE, Swapped(x, 1, n + 1 - j), (n + 1 - j) - 1, 1)
           SS == [j \in 0..m |-> {x \in Seq(Q) : /\ Rearranged(Q, h, x)
                                                  /\ HeapFrom(op, TRUE, x, n - j, 1)
                                                  /\ Placed(op, x, n, n - j)}]
           g == [j \in 1..m |-> [x \in SS[j - 1] |-> turn(x, j)]]
<1>1. m \in Nat /\ m = n - 1
    OBVIOUS
<1> HIDE DEF m
<1>2. h \in SS[0]
    <2>1. Rearranged(Q, h, h)
        BY DEF Rearranged, SameRows
    <2>2. Placed(op, h, n, n)
        BY DEF Placed
    <2>3. 0 \in 0..m /\ n - 0 = n
        BY <1>1
    <2> QED
        BY <2>1, <2>2, <2>3
<1>3. ASSUME NEW j \in 1..m, NEW x \in SS[j - 1] PROVE turn(x, j) \in SS[j]
    <2> DEFINE end == n + 1 - j
    <2>1. j - 1 \in 0..m /\ j \in 0..m /\ n - (j - 1) = end /\ end \in 2..n /\ end - 1 = n - j
        BY <1>1
    <2> HIDE DEF end
    <2>2. x \in Seq(Q) /\ Rearranged(Q, h, x) /\ HeapFrom(op, TRUE, x, end, 1) /\ Placed(op, x, n, end)
        BY <2>1
    <2>3. n = Len(x)
        BY <2>2 DEF Rearranged
    <2>4. turn(x, j) = heapify_down(op, TRUE, Swapped(x, 1, end), end - 1, 1)
        BY DEF end
    <2> HIDE DEF turn
    <2>5. /\ Rearranged(Q, x, turn(x, j)) /\ HeapFrom(op, TRUE, turn(x, j), end - 1, 1)
          /\ Placed(op, turn(x, j), n, end - 1)
        BY <2>1, <2>2, <2>3, <2>4, TopMoved
    <2>6. Rearranged(Q, h, turn(x, j))
        BY <2>2, <2>5, RearrangedAgain
    <2>7. turn(x, j) \in Seq(Q)
        BY <2>6 DEF Rearranged
    <2> QED
        BY <2>1, <2>5, <2>6, <2>7
<1>4. \E f : EmptiesHeap(op, h, n, f)
    <2>1. \A j \in 1..m : \A x \in SS[j - 1] : g[j][x] = turn(x, j)
        OBVIOUS
    <2>2. \A j \in 1..m : \A x \in SS[j - 1] : g[j][x] \in SS[j]
        <3> HIDE DEF turn, SS, g
        <3> QED
            BY <1>3, <2>1
    <2>3. PICK f : Recurs(f, m, h, g) /\ \A j \in 0..m : f[j] \in SS[j]
        <3> HIDE DEF turn, SS, g
        <3> QED
            BY <1>1, <1>2, <2>2, RecursionIn
    <2> HIDE DEF turn, SS, g
    <2>4. \A j \in 0..m : j # 0 => j \in 1..m /\ j - 1 \in 0..m
        BY <1>1
    <2>5. \A j \in 0..m : j # 0 => g[j][f[j - 1]] = turn(f[j - 1], j)
        BY <2>1, <2>3, <2>4
    <2>6. f = [j \in 0..m |-> IF j = 0 THEN h ELSE turn(f[j - 1], j)]
        BY <2>3, <2>5 DEF Recurs
    <2> QED
        BY <2>6 DEF EmptiesHeap, turn, m
<1>5. ASSUME NEW f, EmptiesHeap(op, h, n, f) PROVE f[m] \in SS[m]
    <2>1. f = [j \in 0..m |-> IF j = 0 THEN h ELSE turn(f[j - 1], j)]
        BY <1>5 DEF EmptiesHeap, m
    <2>2. f[0] = h /\ \A j \in 1..m : f[j] = turn(f[j - 1], j)
        <3> HIDE DEF turn
        <3>1. 0 \in 0..m /\ \A j \in 1..m : j \in 0..m /\ j # 0
            BY <1>1
        <3> QED
            BY <2>1, <3>1
    <2> HIDE DEF SS, turn
    <2>3. \A j \in 1..m : f[j - 1] \in SS[j - 1] => f[j] \in SS[j]
        BY <1>3, <2>2
    <2>4. f[0] \in SS[0]
        BY <1>2, <2>2
    <2>5. \A j \in 0..m : f[j] \in SS[j]
        BY <1>1, <2>3, <2>4, StaysIn
    <2> QED
        BY <1>1, <2>5
<1>6. ASSUME NEW f, EmptiesHeap(op, h, n, f)
      PROVE  Rearranged(Q, h, f[n - 1]) /\ Placed(op, f[n - 1], n, 1)
    <2>1. m \in 0..m /\ n - m = 1
        BY <1>1
    <2>2. Rearranged(Q, h, f[m]) /\ Placed(op, f[m], n, 1)
        BY <1>5, <1>6, <2>1
    <2> QED
        BY <2>2 DEF m
<1> QED
    BY <1>4, <1>6

(* The rows of an array of records. *)
Entries(h) == [i \in 1..Len(h) |-> h[i].entry]

Holding(Q, A) == {q \in Q : q.entry \in A}

LEMMA TimesOfEntries ==
    ASSUME NEW R, NEW Q, \A q \in Q : q.entry \in R, NEW h \in Seq(Q), NEW A
    PROVE  /\ Entries(h) \in Seq(R) /\ Len(Entries(h)) = Len(h)
           /\ Times(Entries(h), A) = Times(h, Holding(Q, A))
<1> DEFINE B == Holding(Q, A)
           e == Entries(h)
<1>1. \A i \in 1..Len(h) : h[i] \in Q /\ h[i].entry \in R
    OBVIOUS
<1>2. e \in Seq(R) /\ Len(e) = Len(h) /\ \A i \in 1..Len(h) : e[i] = h[i].entry
    BY <1>1 DEF Entries
<1>3. DOMAIN e = 1..Len(h) /\ DOMAIN h = 1..Len(h)
    BY <1>2
<1> HIDE DEF e
<1>4. {i \in DOMAIN e : e[i] \in A} = {i \in DOMAIN h : h[i] \in B}
    BY <1>1, <1>2, <1>3 DEF Holding
<1> QED
    BY <1>2, <1>4 DEF Times, e

(* heap_sort gives the rows of its argument, in order. *)
THEOREM HeapSortSorts ==
    ASSUME NEW op, NEW R, Orders(op, R), NEW array \in Seq(R)
    PROVE  Rearranged(R, array, heap_sort(op, array)) /\ IsOrdered(op, heap_sort(op, array))
<1> DEFINE Q == [entry : R, run_idx : {0}]
           n == Len(array)
           h == [i \in 1..n |-> [entry |-> array[i], run_idx |-> 0]]
           IsBuilt(f) ==
               f = [j \in 0..(n \div 2) |->
                       IF j = 0 THEN h ELSE heapify_down(op, TRUE, f[j - 1], n, n \div 2 + 1 - j)]
           built == CHOOSE f : IsBuilt(f)
           g == built[n \div 2]
           IsPlaced(f) ==
               f = [j \in 0..(n - 1) |->
                       IF j = 0 THEN g
                       ELSE LET end == n + 1 - j
                            IN  heapify_down(op, TRUE, Swapped(f[j - 1], 1, end), end - 1, 1)]
           placed == CHOOSE f : IsPlaced(f)
           t == placed[n - 1]
           s == heap_sort(op, array)
<1>1. s = [i \in 1..n |-> t[i].entry]
    BY DEF heap_sort
<1>2. n \in Nat
    OBVIOUS
<1>3. \A f : IsBuilt(f) <=> BuildsHeap(op, h, n, f)
    BY DEF BuildsHeap
<1>4. \A f : IsPlaced(f) <=> EmptiesHeap(op, g, n, f)
    BY DEF EmptiesHeap
<1>5. h \in Seq(Q) /\ Len(h) = n /\ \A i \in 1..n : h[i].entry = array[i]
    OBVIOUS
<1>6. Ranks(op, TRUE, Q)
    BY OrderRanks
<1>7. \A k \in Nat : n = k => Entries(h) = array
    BY <1>5 DEF Entries
<1>a. \A q \in Q : q.entry \in R
    OBVIOUS
<1> HIDE DEF n, h, IsBuilt, IsPlaced, Q
<1>8. \E f : BuildsHeap(op, h, n, f)
    BY <1>2, <1>5, <1>6, HeapBuilt
<1>9. BuildsHeap(op, h, n, built)
    BY <1>3, <1>8
<1> HIDE DEF built
<1>10. Rearranged(Q, h, g) /\ HeapFrom(op, TRUE, g, n, 1)
    BY <1>2, <1>5, <1>6, <1>9, HeapBuilt
<1> HIDE DEF g
<1>11. g \in Seq(Q) /\ Len(g) = n
    BY <1>5, <1>10 DEF Rearranged
<1>12. CASE n = 0
    <2>1. s = <<>> /\ array = <<>>
        BY <1>1, <1>12 DEF n
    <2> HIDE DEF s
    <2> QED
        BY <2>1 DEF Rearranged, SameRows, IsOrdered, s
<1>13. CASE n # 0
    <2>1. n >= 1
        BY <1>2, <1>13
    <2>2. \E f : EmptiesHeap(op, g, n, f)
        BY <1>2, <1>6, <1>10, <1>11, <2>1, HeapPlaced
    <2>3. EmptiesHeap(op, g, n, placed)
        BY <1>4, <2>2
    <2> HIDE DEF placed
    <2>4. Rearranged(Q, g, t) /\ Placed(op, t, n, 1)
        BY <1>2, <1>6, <1>10, <1>11, <2>1, <2>3, HeapPlaced
    <2> HIDE DEF t
    <2>5. Rearranged(Q, h, t) /\ t \in Seq(Q) /\ Len(t) = n
        BY <1>10, <1>11, <2>4, RearrangedAgain DEF Rearranged
    <2>6. s = Entries(t)
        BY <1>1, <2>5 DEF Entries
    <2> HIDE DEF s
    <2>7. array = Entries(h)
        BY <1>2, <1>7
    <2>8. s \in Seq(R) /\ Len(s) = n /\ Len(array) = n
        BY <1>a, <2>5, <2>6, TimesOfEntries DEF n
    <2>9. SameRows(array, s)
        <3> SUFFICES ASSUME NEW A PROVE Times(array, A) = Times(s, A)
            BY DEF SameRows
        <3> DEFINE B == Holding(Q, A)
        <3>1. Times(array, A) = Times(h, B)
            BY <1>5, <1>a, <2>7, TimesOfEntries
        <3>2. Times(s, A) = Times(t, B)
            BY <1>a, <2>5, <2>6, TimesOfEntries
        <3>3. Times(h, B) = Times(t, B)
            BY <2>5 DEF Rearranged, SameRows
        <3> QED
            BY <3>1, <3>2, <3>3
    <2>10. IsOrdered(op, s)
        <3> SUFFICES ASSUME NEW i \in 1..n, NEW j \in 1..n, i < j PROVE ~compare(op, s[j], s[i])
            <4>1. DOMAIN s = 1..n
                BY <2>8
            <4> QED
                BY <4>1 DEF IsOrdered
        <3>1. j \in (1 + 1)..n /\ i \in 1..(j - 1)
            OBVIOUS
        <3>2. ~Above(op, TRUE, t[i], t[j])
            BY <2>4, <3>1 DEF Placed
        <3>3. s[i] = t[i].entry /\ s[j] = t[j].entry
            BY <1>1
        <3> QED
            BY <3>2, <3>3 DEF Above
    <2> QED
        BY <2>8, <2>9, <2>10 DEF Rearranged, s, n
<1> QED
    BY <1>12, <1>13

-----------------------------------------------------------------------------
(* The rows of several runs. *)

(* h[i] is the rows of the first i runs. *)
Joins(h, f, n, R) ==
    /\ \A i \in 0..n : h[i] \in Seq(R)
    /\ h[0] = <<>> /\ \A i \in 1..n : h[i] = h[i - 1] \o f[i]
    /\ FlattenSeq(f) = h[n]

LEMMA FlatJoins ==
    ASSUME NEW R, NEW f \in Seq(Seq(R)), NEW n \in Nat, n = Len(f)
    PROVE  \E h : Joins(h, f, n, R)
<1> DEFINE IsFlat(h) == h = [i \in 1..n |-> IF i = 1 THEN f[i] ELSE h[i - 1] \o f[i]]
           flat == CHOOSE h : IsFlat(h)
           S == Seq(R)
           none == <<>>
           g == [i \in 1..n |-> [x \in S |-> x \o f[i]]]
<1>1. none \in S /\ (\A x \in S : none \o x = x) /\ \A i \in 1..n : f[i] \in S
    OBVIOUS
<1>2. \A x, y \in S : x \o y \in S
    OBVIOUS
<1>3. \A i \in 1..n : \A x \in S : g[i][x] = x \o f[i] /\ g[i][x] \in S
    <2> HIDE DEF S
    <2> QED
        BY <1>1, <1>2
<1>4. PICK r : Follows(r, n, none, g, S)
    <2> HIDE DEF S, g, none
    <2> QED
        BY <1>1, <1>3, Recursion
<1>5. /\ r[0] = none /\ (\A i \in 0..n : r[i] \in S)
      /\ \A i \in 1..n : r[i - 1] \in S /\ r[i] = r[i - 1] \o f[i]
    <2> HIDE DEF S, g, none
    <2> QED
        BY <1>3, <1>4 DEF Follows
<1>6. CASE n = 0
    <2>1. Len(f) = 0
        BY <1>6
    <2>2. FlattenSeq(f) = f
        BY <2>1 DEF FlattenSeq
    <2>3. f = <<>>
        BY <2>1
    <2> QED
        BY <1>5, <1>6, <2>2, <2>3 DEF Joins
<1>7. CASE n # 0
    <2>1. n \in 1..n /\ 1 \in 1..n /\ 1 - 1 = 0 /\ \A i \in 1..n : i # 1 => i - 1 \in 1..n
        BY <1>7
    <2>2. FlattenSeq(f) = flat[n]
        BY <1>7 DEF FlattenSeq
    <2>3. r[1] = f[1]
        <3>1. r[1] = r[0] \o f[1]
            BY <1>5, <2>1
        <3> HIDE DEF S, none
        <3> QED
            BY <1>1, <1>5, <2>1, <3>1
    <2>4. \E h : IsFlat(h)
        <3> DEFINE h == [i \in 1..n |-> r[i]]
        <3>1. \A i \in 1..n : h[i] = IF i = 1 THEN f[i] ELSE h[i - 1] \o f[i]
            BY <1>5, <2>1, <2>3
        <3>2. h = [i \in 1..n |-> h[i]]
            OBVIOUS
        <3>3. IsFlat(h)
            <4> HIDE DEF h
            <4> QED
                BY <3>1, <3>2
        <3> QED
            BY <3>3
    <2>5. IsFlat(flat)
        BY <2>4
    <2> HIDE DEF flat
    <2>6. flat[1] = f[1] /\ \A i \in 1..n : i # 1 => flat[i] = flat[i - 1] \o f[i]
        BY <2>1, <2>5
    <2> DEFINE SS == [i \in 0..n |-> {x \in {r[i]} : i # 0 => flat[i] = x}]
    <2>7. \A i \in 0..n : r[i] \in SS[i]
        <3>1. r[0] \in SS[0]
            OBVIOUS
        <3>2. ASSUME NEW i \in 1..n, r[i - 1] \in SS[i - 1] PROVE r[i] \in SS[i]
            <4>1. i - 1 \in 0..n /\ i \in 0..n
                OBVIOUS
            <4>2. i # 1 => flat[i - 1] = r[i - 1]
                BY <3>2, <4>1
            <4>3. flat[i] = r[i]
                <5> HIDE DEF SS
                <5>1. CASE i = 1
                    BY <2>3, <2>6, <5>1
                <5>2. CASE i # 1
                    BY <1>5, <2>6, <4>2, <5>2
                <5> QED
                    BY <5>1, <5>2
            <4> QED
                BY <4>1, <4>3
        <3> HIDE DEF SS
        <3> QED
            BY <3>1, <3>2, StaysIn
    <2>8. flat[n] = r[n]
        <3>1. n \in 0..n
            OBVIOUS
        <3> QED
            BY <1>7, <2>7, <3>1
    <2> QED
        BY <1>5, <2>2, <2>8 DEF Joins
<1> QED
    BY <1>6, <1>7

LEMMA FlatIsSeq ==
    ASSUME NEW R, NEW f \in Seq(Seq(R))
    PROVE  FlattenSeq(f) \in Seq(R) /\ \A A : Times(FlattenSeq(f), A) \in Nat
<1>1. PICK n \in Nat : n = Len(f)
    OBVIOUS
<1>2. PICK h : Joins(h, f, n, R)
    BY <1>1, FlatJoins
<1>3. FlattenSeq(f) \in Seq(R)
    <2>1. n \in 0..n
        OBVIOUS
    <2> QED
        BY <1>2, <2>1 DEF Joins
<1> QED
    BY <1>3, TimesIsNat

(* Sequences that begin alike are joined alike. *)
LEMMA JoinsAlike ==
    ASSUME NEW R, NEW f, NEW g, NEW k \in Nat, NEW n \in Nat, k <= n,
           NEW a, NEW b, Joins(a, f, k, R), Joins(b, g, n, R), \A i \in 1..k : f[i] = g[i]
    PROVE  a[k] = b[k]
<1> DEFINE SS == [i \in 0..k |-> {x \in {a[i]} : x = b[i]}]
<1>1. a[0] \in SS[0]
    BY DEF Joins
<1>2. ASSUME NEW i \in 1..k, a[i - 1] \in SS[i - 1] PROVE a[i] \in SS[i]
    <2>1. i - 1 \in 0..k /\ i \in 0..k /\ i \in 1..n
        OBVIOUS
    <2>2. a[i - 1] = b[i - 1] /\ f[i] = g[i]
        BY <1>2, <2>1
    <2>3. a[i] = b[i]
        BY <2>1, <2>2 DEF Joins
    <2> QED
        BY <2>1, <2>3
<1>3. \A i \in 0..k : a[i] \in SS[i]
    <2> HIDE DEF SS
    <2> QED
        BY <1>1, <1>2, StaysIn
<1>4. k \in 0..k
    OBVIOUS
<1> QED
    BY <1>3, <1>4

LEMMA FlatAppend ==
    ASSUME NEW R, NEW f \in Seq(Seq(R)), NEW s \in Seq(R)
    PROVE  FlattenSeq(Append(f, s)) = FlattenSeq(f) \o s
<1>1. PICK n \in Nat : n = Len(f)
    OBVIOUS
<1>2. PICK g : g = Append(f, s)
    OBVIOUS
<1>3. /\ g \in Seq(Seq(R)) /\ n + 1 \in Nat /\ n + 1 = Len(g)
      /\ g[n + 1] = s /\ \A i \in 1..n : f[i] = g[i]
    BY <1>1, <1>2
<1>4. PICK a : Joins(a, f, n, R)
    BY <1>1, FlatJoins
<1>5. PICK b : Joins(b, g, n + 1, R)
    BY <1>3, FlatJoins
<1>6. n \in 0..n /\ n <= n + 1 /\ n + 1 \in 1..(n + 1) /\ (n + 1) - 1 = n
    OBVIOUS
<1>7. a[n] = b[n]
    BY <1>3, <1>4, <1>5, <1>6, JoinsAlike
<1>8. b[n + 1] = b[n] \o s
    BY <1>3, <1>5, <1>6 DEF Joins
<1> QED
    BY <1>2, <1>4, <1>5, <1>7, <1>8 DEF Joins

LEMMA FlatConcat ==
    ASSUME NEW R, NEW f \in Seq(Seq(R)), NEW g \in Seq(Seq(R)), NEW A
    PROVE  Times(FlattenSeq(f \o g), A) = Times(FlattenSeq(f), A) + Times(FlattenSeq(g), A)
<1>1. PICK m \in Nat : m = Len(f)
    OBVIOUS
<1>2. PICK n \in Nat : n = Len(g)
    OBVIOUS
<1>3. PICK e : e = f \o g
    OBVIOUS
<1>4. /\ e \in Seq(Seq(R)) /\ m + n \in Nat /\ m + n = Len(e)
      /\ \A i \in 1..m : f[i] = e[i]
      /\ \A i \in 1..n : e[m + i] = g[i] /\ g[i] \in Seq(R)
    BY <1>1, <1>2, <1>3
<1>5. PICK a : Joins(a, f, m, R)
    BY <1>1, FlatJoins
<1>6. PICK b : Joins(b, g, n, R)
    BY <1>2, FlatJoins
<1>7. PICK c : Joins(c, e, m + n, R)
    BY <1>4, FlatJoins
<1> DEFINE SS == [i \in 0..n |-> {x \in {c[m + i]} : Times(x, A) = Times(a[m], A) + Times(b[i], A)}]
<1>8. c[m + 0] \in SS[0]
    <2>1. m \in 0..m /\ m <= m + n /\ m + 0 = m /\ 0 \in 0..n
        OBVIOUS
    <2>2. a[m] = c[m]
        BY <1>4, <1>5, <1>7, <2>1, JoinsAlike
    <2>3. b[0] = <<>> /\ a[m] \in Seq(R)
        BY <1>5, <1>6, <2>1 DEF Joins
    <2>4. Times(b[0], A) = 0 /\ Times(a[m], A) \in Nat
        BY <2>3, TimesEmpty, TimesIsNat
    <2> QED
        BY <2>1, <2>2, <2>4
<1>9. ASSUME NEW i \in 1..n, c[m + (i - 1)] \in SS[i - 1] PROVE c[m + i] \in SS[i]
    <2>1. /\ i - 1 \in 0..n /\ i \in 0..n /\ m + i \in 1..(m + n) /\ (m + i) - 1 = m + (i - 1)
          /\ m + (i - 1) \in 0..(m + n) /\ m \in 0..m
        OBVIOUS
    <2>2. Times(c[m + (i - 1)], A) = Times(a[m], A) + Times(b[i - 1], A)
        BY <1>9, <2>1
    <2> HIDE DEF SS
    <2>3. c[m + i] = c[m + (i - 1)] \o g[i] /\ b[i] = b[i - 1] \o g[i]
        BY <1>4, <1>6, <1>7, <2>1 DEF Joins
    <2>4. c[m + (i - 1)] \in Seq(R) /\ b[i - 1] \in Seq(R) /\ g[i] \in Seq(R) /\ a[m] \in Seq(R)
        BY <1>4, <1>5, <1>6, <1>7, <2>1 DEF Joins
    <2>5. /\ Times(c[m + (i - 1)] \o g[i], A) = Times(c[m + (i - 1)], A) + Times(g[i], A)
          /\ Times(b[i - 1] \o g[i], A) = Times(b[i - 1], A) + Times(g[i], A)
        BY <2>4, TimesConcat
    <2>6. Times(a[m], A) \in Nat /\ Times(b[i - 1], A) \in Nat /\ Times(g[i], A) \in Nat
        BY <2>4, TimesIsNat
    <2>7. Times(c[m + i], A) = Times(a[m], A) + Times(b[i], A)
        BY <2>2, <2>3, <2>5, <2>6
    <2> QED
        BY <2>1, <2>7 DEF SS
<1>10. \A i \in 0..n : c[m + i] \in SS[i]
    <2> DEFINE d == [i \in 0..n |-> c[m + i]]
    <2>1. d[0] \in SS[0]
        <3>1. d[0] = c[m + 0]
            OBVIOUS
        <3> QED
            BY <1>8, <3>1
    <2>2. \A i \in 1..n : d[i - 1] \in SS[i - 1] => d[i] \in SS[i]
        <3>1. \A i \in 1..n : d[i - 1] = c[m + (i - 1)] /\ d[i] = c[m + i]
            OBVIOUS
        <3> HIDE DEF SS, d
        <3> QED
            BY <1>9, <3>1
    <2> HIDE DEF SS, d
    <2>3. \A i \in 0..n : d[i] \in SS[i]
        BY <2>1, <2>2, StaysIn
    <2> QED
        BY <2>3 DEF d
<1>11. n \in 0..n /\ m \in 0..m
    OBVIOUS
<1>12. Times(c[m + n], A) = Times(a[m], A) + Times(b[n], A)
    BY <1>10, <1>11
<1> QED
    BY <1>3, <1>5, <1>6, <1>7, <1>12 DEF Joins

(* Two sequences of runs that differ at one. *)
LEMMA FlatDiffers ==
    ASSUME NEW R, NEW n \in Nat, NEW f \in Seq(Seq(R)), NEW g \in Seq(Seq(R)), n = Len(f), n = Len(g),
           NEW A, NEW r \in 1..n, \A i \in 1..n : i # r => Times(f[i], A) = Times(g[i], A)
    PROVE  Times(FlattenSeq(f), A) + Times(g[r], A) = Times(FlattenSeq(g), A) + Times(f[r], A)
<1>1. PICK a : Joins(a, f, n, R)
    BY FlatJoins
<1>2. PICK b : Joins(b, g, n, R)
    BY FlatJoins
<1>3. \A i \in 1..n : f[i] \in Seq(R) /\ g[i] \in Seq(R)
    <2>1. \A s \in Seq(Seq(R)) : \A i \in 1..Len(s) : s[i] \in Seq(R)
        OBVIOUS
    <2> QED
        BY <2>1
<1>4. \A i \in 1..n : Times(f[i], A) \in Nat /\ Times(g[i], A) \in Nat
    BY <1>3, TimesIsNat
<1>5. \A i \in 0..n : Times(a[i], A) \in Nat /\ Times(b[i], A) \in Nat
    BY <1>1, <1>2, TimesIsNat DEF Joins
<1>6. \A i \in 1..n : /\ Times(a[i], A) = Times(a[i - 1], A) + Times(f[i], A)
                      /\ Times(b[i], A) = Times(b[i - 1], A) + Times(g[i], A)
    <2> SUFFICES ASSUME NEW i \in 1..n
                 PROVE  /\ Times(a[i], A) = Times(a[i - 1], A) + Times(f[i], A)
                        /\ Times(b[i], A) = Times(b[i - 1], A) + Times(g[i], A)
        OBVIOUS
    <2>1. i - 1 \in 0..n
        OBVIOUS
    <2>2. a[i - 1] \in Seq(R) /\ b[i - 1] \in Seq(R)
        BY <1>1, <1>2, <2>1 DEF Joins
    <2>3. /\ Times(a[i - 1] \o f[i], A) = Times(a[i - 1], A) + Times(f[i], A)
          /\ Times(b[i - 1] \o g[i], A) = Times(b[i - 1], A) + Times(g[i], A)
        BY <1>3, <2>2, TimesConcat
    <2> QED
        BY <1>1, <1>2, <2>3 DEF Joins
<1> DEFINE Agree(i) == IF i >= r THEN Times(a[i], A) + Times(g[r], A) = Times(b[i], A) + Times(f[r], A)
                       ELSE Times(a[i], A) = Times(b[i], A)
           T == {i \in 0..n : ~Agree(i)}
<1>7. 0 \notin T
    BY <1>1, <1>2 DEF Joins
<1>8. ASSUME NEW i \in 1..n, i - 1 \notin T PROVE i \notin T
    <2>1. i - 1 \in 0..n /\ i \in 0..n
        OBVIOUS
    <2>2. Agree(i - 1)
        BY <1>8, <2>1
    <2>3. /\ Times(a[i], A) = Times(a[i - 1], A) + Times(f[i], A)
          /\ Times(b[i], A) = Times(b[i - 1], A) + Times(g[i], A)
        BY <1>6
    <2>4. /\ Times(a[i - 1], A) \in Nat /\ Times(b[i - 1], A) \in Nat
          /\ Times(f[i], A) \in Nat /\ Times(g[i], A) \in Nat
          /\ Times(f[r], A) \in Nat /\ Times(g[r], A) \in Nat
        BY <1>4, <1>5, <2>1
    <2>5. CASE i = r
        BY <2>2, <2>3, <2>4, <2>5
    <2>6. CASE i # r
        <3>1. Times(f[i], A) = Times(g[i], A)
            BY <2>6
        <3>2. CASE i >= r
            <4>1. i - 1 >= r
                BY <2>6, <3>2
            <4>2. Times(a[i - 1], A) + Times(g[r], A) = Times(b[i - 1], A) + Times(f[r], A)
                BY <2>2, <4>1
            <4>3. Times(a[i], A) + Times(g[r], A) = Times(b[i], A) + Times(f[r], A)
                <5>1. PICK p \in Nat, q \in Nat, x \in Nat, u \in Nat, v \in Nat :
                            /\ p = Times(a[i - 1], A) /\ q = Times(b[i - 1], A)
                            /\ x = Times(f[i], A) /\ u = Times(g[r], A) /\ v = Times(f[r], A)
                    BY <2>4
                <5>2. p + u = q + v
                    BY <4>2, <5>1
                <5>3. (p + x) + u = (q + x) + v
                    BY ONLY <5>2
                <5>4. Times(a[i], A) = p + x /\ Times(b[i], A) = q + x
                    BY <2>3, <3>1, <5>1
                <5> QED
                    BY <5>1, <5>3, <5>4
            <4> QED
                BY <3>2, <4>3
        <3>3. CASE ~(i >= r)
            <4>1. ~(i - 1 >= r)
                BY <3>3
            <4> QED
                BY <2>2, <2>3, <2>4, <3>1, <3>3, <4>1
        <3> QED
            BY <3>2, <3>3
    <2> QED
        BY <2>5, <2>6
<1>9. \A i \in 0..n : i \notin T
    <2> HIDE DEF T
    <2> QED
        BY <1>7, <1>8, UpTo
<1>10. n \in 0..n /\ n >= r
    OBVIOUS
<1>11. Times(a[n], A) + Times(g[r], A) = Times(b[n], A) + Times(f[r], A)
    BY <1>9, <1>10
<1> QED
    BY <1>1, <1>2, <1>11 DEF Joins

=============================================================================
