------------------------- MODULE BatchExpandProofs --------------------------
(***************************************************************************)
(* Proofs about BatchExpand, for every size of the batch, of the enclave's *)
(* buffer and of the table: batches continue the pass they cut up, no      *)
(* table of encrypted and plain rows is handed on, the distribution routes *)
(* every row, and the call answers as ExpandService promises, though the   *)
(* enclave may be lost at any moment.                                      *)
(***************************************************************************)
EXTENDS BatchExpand, AksDistributeProofs

(* A row whose destination and count are numbers the output size adds up.  *)
NatRow(e) == e.dst_idx \in Nat /\ e.final_mult \in Nat

(* In a pass: the batch is part of the table as it is, and what it would   *)
(* leave is what the turns so far make of the rows.                        *)
InPass ==
    /\ Len(table) = Len(before) + (IF pc = "pad" THEN i - 1 ELSE 0)
    /\ pc = "pad" => Len(before) <= output_size
    /\ i \in 1..(Turns + 1)
    /\ WellFormed(batch, table) /\ AllFit(Op(pc), batch) /\ Len(batch.operations) < MaxBatch
    /\ Effect(Op(pc), table, batch) = Contents(Unbatched(pc, before, i - 1))

(* A pass that has thrown leaves its batch where it was. *)
Stopped ==
    /\ i \in 1..(Len(table) + 1)
    /\ WellFormed(batch, table) /\ Len(batch.operations) < MaxBatch

Between == {"size", "sort", "distribute", "aks", "done"}

(* The inductive invariant.  The sizes say that no linear pass meets an    *)
(* empty table and that the table never outgrows the output.               *)
IInv ==
    /\ pc \in Passes \cup Between \cup {"thrown"}
    /\ output_size \in Nat
    /\ IsSeq(table) /\ IsSeq(before)
    /\ pc = "aks" => IsSeq(entries) /\ Len(entries) = output_size
    /\ pc \in {"init_dst_idx", "cumsum", "size"} =>
          Len(before) >= 1 /\ \A r \in 1..Len(before) : NatRow(before[r])
    /\ pc \in {"size", "distribute"} => before = table
    /\ pc \in {"mark", "sort", "pad", "distribute", "aks", "expand_copy"} => output_size >= 1
    /\ pc \in {"distribute", "expand_copy"} => Len(table) = output_size
    /\ pc \in Between => i = 1 /\ batch = EmptyBatch
    /\ pc \in Passes => InPass
    /\ pc = "thrown" => Stopped

-----------------------------------------------------------------------------
(* An empty batch is a batch of any table, and flushing it does nothing.   *)
LEMMA EmptyIsABatch ==
    ASSUME NEW op, NEW t
    PROVE  /\ WellFormed(EmptyBatch, t) /\ AllFit(op, EmptyBatch)
           /\ Len(EmptyBatch.operations) = 0
           /\ Effect(op, t, EmptyBatch) = Contents(t)
<1>1. /\ EmptyBatch.entry_pointers = <<>> /\ EmptyBatch.batch_data = <<>>
      /\ EmptyBatch.operations = <<>> /\ Size(EmptyBatch) = 0
    BY DEF EmptyBatch, Size
<1>2. <<>> = [j \in 1..0 |-> t[EmptyBatch.entry_pointers[j]]]
    OBVIOUS
<1>3. <<>> \in Seq(DOMAIN t) /\ <<>> \in Seq((1..0) \X (0..0))
    OBVIOUS
<1>4. WellFormed(EmptyBatch, t)
    BY <1>1, <1>2, <1>3 DEF WellFormed, EmptyBatch
<1>5. AllFit(op, EmptyBatch)
    BY <1>1 DEF AllFit
<1>6. \A r \in DOMAIN t : Effect(op, t, EmptyBatch)[r] = Decrypted(t[r])
    BY <1>1, <1>4, <1>5, EffectOfFlush
<1>7. Effect(op, t, EmptyBatch) = Contents(t)
    BY <1>6 DEF Effect, Contents
<1> QED
    BY <1>1, <1>4, <1>5, <1>7

(* A flush leaves a table of the same size, the batch's effect on it.      *)
LEMMA FlushLeavesEffect ==
    ASSUME NEW op, NEW t, NEW b, IsSeq(t)
    PROVE  /\ IsSeq(Flushed(op, t, b)) /\ Len(Flushed(op, t, b)) = Len(t)
           /\ Contents(Flushed(op, t, b)) = Effect(op, t, b)
<1> DEFINE f == Flushed(op, t, b)
<1>1. DOMAIN f = 1..Len(t) /\ f = [j \in 1..Len(t) |-> f[j]]
    BY DEF Flushed, write_back, IsSeq
<1> HIDE DEF f
<1>2. Len(f) = Len(t)
    BY <1>1 DEF IsSeq
<1>3. DOMAIN t = DOMAIN f
    BY <1>1 DEF IsSeq
<1>4. Contents(f) = [r \in DOMAIN t |-> Decrypted(f[r])]
    BY <1>3 DEF Contents
<1> QED
    BY <1>1, <1>2, <1>4 DEF IsSeq, Effect, f

-----------------------------------------------------------------------------
(* The rows a pass makes. *)

(* The recursion of a linear pass, over rows 1 to m. *)
IsLinear(new, op, first, m) ==
    new = [r \in 1..m |-> IF r = 1 THEN first[r] ELSE window(op, new[r - 1], first[r])]

(* The recursion of a linear pass has a solution. *)
LEMMA LinearExists ==
    ASSUME NEW op, NEW first, NEW m \in Nat
    PROVE  \E new : IsLinear(new, op, first, m)
<1> DEFINE T == {x \in Nat : ~ \E new : IsLinear(new, op, first, x)}
<1>1. 0 \notin T
    <2>1. IsLinear([r \in 1..0 |-> first[r]], op, first, 0)
        BY DEF IsLinear
    <2> QED
        BY <2>1
<1>2. ASSUME NEW x \in 1..m, x - 1 \notin T PROVE x \notin T
    <2>1. PICK old : IsLinear(old, op, first, x - 1)
        BY <1>2
    <2> DEFINE new == [r \in 1..x |-> IF r = x THEN IF r = 1 THEN first[r]
                                                    ELSE window(op, old[r - 1], first[r])
                                      ELSE old[r]]
    <2>2. \A r \in 1..x : r # x => new[r] = old[r]
        OBVIOUS
    <2>3. ASSUME NEW r \in 1..x
          PROVE  new[r] = IF r = 1 THEN first[r] ELSE window(op, new[r - 1], first[r])
        <3>1. CASE r = x
            <4>1. r # 1 => r - 1 \in 1..x /\ r - 1 # x
                BY <3>1
            <4>2. new[r] = IF r = 1 THEN first[r] ELSE window(op, old[r - 1], first[r])
                BY <3>1
            <4> HIDE DEF new
            <4> QED
                BY <2>2, <4>1, <4>2
        <3>2. CASE r # x
            <4>1. r \in 1..(x - 1) /\ (r # 1 => r - 1 \in 1..x /\ r - 1 # x)
                BY <3>2
            <4>2. old[r] = IF r = 1 THEN first[r] ELSE window(op, old[r - 1], first[r])
                BY <2>1, <4>1 DEF IsLinear
            <4> HIDE DEF new
            <4> QED
                BY <2>2, <3>2, <4>1, <4>2
        <3> QED
            BY <3>1, <3>2
    <2>4. new = [r \in 1..x |-> new[r]]
        OBVIOUS
    <2>5. IsLinear(new, op, first, x)
        <3> HIDE DEF new
        <3> QED
            BY <2>3, <2>4 DEF IsLinear
    <2> QED
        BY <2>5
<1>3. \A n \in 0..m : n \notin T
    <2> HIDE DEF T
    <2> QED
        BY <1>1, <1>2, UpTo
<1> QED
    BY <1>3

(* A map makes each row by itself, a linear pass from the new row before.  *)
LEMMA NewRowsEquation ==
    ASSUME NEW step, NEW first, IsSeq(first)
    PROVE  /\ step \notin LinearPasses =>
                 \A r \in 1..Len(first) : NewRows(step, first)[r] = transform(Op(step), first[r])
           /\ step \in LinearPasses =>
                 \A r \in 1..Len(first) :
                    /\ r = 1 => NewRows(step, first)[r] = first[r]
                    /\ r # 1 => NewRows(step, first)[r]
                                   = window(Op(step), NewRows(step, first)[r - 1], first[r])
<1>1. DOMAIN first = 1..Len(first) /\ Len(first) \in Nat
    BY DEF IsSeq
<1>2. ASSUME step \notin LinearPasses
      PROVE  \A r \in 1..Len(first) : NewRows(step, first)[r] = transform(Op(step), first[r])
    <2>1. NewRows(step, first) = [r \in DOMAIN first |-> transform(Op(step), first[r])]
        BY <1>2 DEF NewRows
    <2> QED
        BY <1>1, <2>1
<1>3. ASSUME step \in LinearPasses
      PROVE  IsLinear(NewRows(step, first), Op(step), first, Len(first))
    <2>1. NewRows(step, first) = CHOOSE new : IsLinear(new, Op(step), first, Len(first))
        BY <1>1, <1>3 DEF NewRows, IsLinear
    <2>2. \E new : IsLinear(new, Op(step), first, Len(first))
        BY <1>1, LinearExists
    <2> QED
        BY <2>1, <2>2
<1> QED
    BY <1>2, <1>3 DEF IsLinear

(* A pass starts from the rows it is given. *)
LEMMA UnbatchedStart ==
    ASSUME NEW step, NEW t, IsSeq(t)
    PROVE  Unbatched(step, t, 0) = t
<1>1. DOMAIN t = 1..Len(t) /\ Len(t) \in Nat /\ t = [r \in 1..Len(t) |-> t[r]]
    BY DEF IsSeq
<1>2. CASE step = "pad"
    <2>1. Unbatched(step, t, 0) = [r \in 1..Len(t) |-> t[r]]
        BY <1>1, <1>2 DEF Unbatched
    <2> QED
        BY <1>1, <2>1
<1>3. CASE step # "pad"
    <2>1. ASSUME NEW r \in 1..Len(t) PROVE Unbatched(step, t, 0)[r] = t[r]
        <3>1. CASE step \in LinearPasses
            <4>1. r = 1 => NewRows(step, t)[r] = t[r]
                BY <3>1, NewRowsEquation
            <4> QED
                BY <1>1, <1>3, <3>1, <4>1 DEF Unbatched
        <3>2. CASE step \notin LinearPasses
            BY <1>1, <1>3, <3>2 DEF Unbatched
        <3> QED
            BY <3>1, <3>2
    <2>2. Unbatched(step, t, 0) = [r \in 1..Len(t) |-> Unbatched(step, t, 0)[r]]
        BY <1>1, <1>3 DEF Unbatched
    <2> HIDE DEF Unbatched
    <2> QED
        BY <1>1, <2>1, <2>2
<1> QED
    BY <1>2, <1>3

(* The first two passes make rows that the output size can add up.         *)
LEMMA NewRowsAddUp ==
    ASSUME NEW step \in {"init_dst_idx", "cumsum"}, NEW first, IsSeq(first),
           \A r \in 1..Len(first) : NatRow(first[r])
    PROVE  \A r \in 1..Len(first) : NatRow(NewRows(step, first)[r])
<1>1. Len(first) \in Nat
    BY DEF IsSeq
<1>2. CASE step = "init_dst_idx"
    <2>1. \A r \in 1..Len(first) : NewRows(step, first)[r] = WithDestination(first[r], 0)
        BY <1>2, NewRowsEquation DEF LinearPasses, Op, transform
    <2>2. \A e : NatRow(e) => NatRow(WithDestination(e, 0))
        BY DEF NatRow, WithDestination, Row
    <2> QED
        BY <2>1, <2>2
<1>3. CASE step = "cumsum"
    <2> DEFINE new == NewRows(step, first)
               T == {r \in Nat : r \in 1..Len(first) /\ ~NatRow(new[r])}
    <2>1. \A r \in 1..Len(first) :
             /\ r = 1 => new[r] = first[r]
             /\ r # 1 => new[r] = window(Op(step), new[r - 1], first[r])
        BY <1>3, NewRowsEquation DEF LinearPasses
    <2> HIDE DEF new
    <2>2. 0 \notin T
        OBVIOUS
    <2>3. ASSUME NEW r \in 1..Len(first), r - 1 \notin T PROVE r \notin T
        <3>1. CASE r = 1
            BY <2>1, <3>1
        <3>2. CASE r # 1
            <4>1. NatRow(new[r - 1]) /\ NatRow(first[r])
                BY <2>3, <3>2
            <4>2. new[r] = WithDestination(first[r], new[r - 1].dst_idx + new[r - 1].final_mult)
                BY <1>3, <2>1, <3>2 DEF Op, window
            <4>3. NatRow(new[r])
                BY <4>1, <4>2 DEF NatRow, WithDestination, Row
            <4> QED
                BY <4>3
        <3> QED
            BY <3>1, <3>2
    <2>4. \A r \in 0..Len(first) : r \notin T
        <3> HIDE DEF T
        <3> QED
            BY <1>1, <2>2, <2>3, UpTo
    <2> QED
        BY <2>4 DEF new
<1> QED
    BY <1>2, <1>3

-----------------------------------------------------------------------------
(* One turn of a pass, on the batch and on the rows. *)

(* The linear passes send windows, the others transforms. *)
LEMMA OpsOfPasses ==
    ASSUME NEW step \in Passes
    PROVE  /\ step \in LinearPasses => Op(step) \in Windows
           /\ step \notin LinearPasses => Op(step) \in Transforms
BY DEF Passes, LinearPasses, Op, Windows, Transforms

(* A turn of a map: the batch with its operation leaves what the unbatched *)
(* pass has made after one turn more.                                      *)
LEMMA MapProgress ==
    ASSUME NEW step \in Passes, step \notin LinearPasses, step # "pad",
           NEW first, IsSeq(first), NEW t, IsSeq(t), Len(t) = Len(first),
           NEW k \in 1..Len(first), NEW b, WellFormed(b, t), AllFit(Op(step), b),
           Effect(Op(step), t, b) = Contents(Unbatched(step, first, k - 1)),
           NEW d, d = add_operation1(b, t, k)
    PROVE  /\ WellFormed(d, t) /\ AllFit(Op(step), d)
           /\ Len(d.operations) = Len(b.operations) + 1
           /\ Effect(Op(step), t, d) = Contents(Unbatched(step, first, k))
<1> DEFINE op  == Op(step)
           old == Unbatched(step, first, k - 1)
           new == Unbatched(step, first, k)
<1>1. op \in Transforms /\ k \in DOMAIN t /\ DOMAIN t = 1..Len(first) /\ Len(first) \in Nat
      /\ DOMAIN first = 1..Len(first)
    BY OpsOfPasses DEF IsSeq
<1>2. /\ WellFormed(d, t) /\ AllFit(op, d) /\ Len(d.operations) = Len(b.operations) + 1
      /\ Effect(op, t, d)[k] = transform(op, Effect(op, t, b)[k])
      /\ \A r \in DOMAIN t : r # k => Effect(op, t, d)[r] = Effect(op, t, b)[r]
    BY <1>1, MapTurn DEF Adds
<1>3. /\ DOMAIN old = 1..Len(first) /\ DOMAIN new = 1..Len(first)
      /\ old[k] = first[k] /\ new[k] = transform(op, first[k])
      /\ \A r \in 1..Len(first) : r # k => new[r] = old[r]
    <2>1. /\ old = [r \in 1..Len(first) |-> IF r <= k - 1 THEN NewRows(step, first)[r] ELSE first[r]]
          /\ new = [r \in 1..Len(first) |-> IF r <= k THEN NewRows(step, first)[r] ELSE first[r]]
        BY <1>1 DEF Unbatched
    <2>2. NewRows(step, first)[k] = transform(op, first[k])
        BY NewRowsEquation
    <2> HIDE DEF old, new, op
    <2> QED
        BY <1>1, <2>1, <2>2
<1> HIDE DEF old, new, op
<1>4. Effect(op, t, d) = [r \in 1..Len(first) |-> Effect(op, t, d)[r]]
    BY <1>1 DEF Effect
<1>5. ASSUME NEW r \in 1..Len(first) PROVE Effect(op, t, d)[r] = Decrypted(new[r])
    <2>1. Effect(op, t, b)[r] = Decrypted(old[r])
        BY <1>3 DEF Contents, old, op
    <2>2. CASE r = k
        BY <1>1, <1>2, <1>3, <2>1, <2>2, FlagIgnored
    <2>3. CASE r # k
        BY <1>1, <1>2, <1>3, <2>1, <2>3
    <2> QED
        BY <2>2, <2>3
<1>6. Effect(op, t, d) = Contents(new)
    BY <1>3, <1>4, <1>5 DEF Contents
<1> QED
    BY <1>2, <1>6 DEF op, new

(* A turn of a linear pass: its window reads the row that the turn before  *)
(* it wrote, whether that was collected in this batch or flushed with an   *)
(* earlier one.                                                            *)
LEMMA LinearProgress ==
    ASSUME NEW step \in Passes, step \in LinearPasses,
           NEW first, IsSeq(first), NEW t, IsSeq(t), Len(t) = Len(first),
           NEW k \in 1..(Len(first) - 1), NEW b, WellFormed(b, t), AllFit(Op(step), b),
           Effect(Op(step), t, b) = Contents(Unbatched(step, first, k - 1)),
           NEW d, d = add_operation2(b, t, k, k + 1)
    PROVE  /\ WellFormed(d, t) /\ AllFit(Op(step), d)
           /\ Len(d.operations) = Len(b.operations) + 1
           /\ Effect(Op(step), t, d) = Contents(Unbatched(step, first, k))
<1> DEFINE op  == Op(step)
           old == Unbatched(step, first, k - 1)
           new == Unbatched(step, first, k)
<1>1. op \in Windows /\ k \in DOMAIN t /\ k + 1 \in DOMAIN t /\ DOMAIN t = 1..Len(first)
      /\ Len(first) \in Nat /\ DOMAIN first = 1..Len(first)
    BY OpsOfPasses DEF IsSeq
<1>2. /\ WellFormed(d, t) /\ AllFit(op, d) /\ Len(d.operations) = Len(b.operations) + 1
      /\ Effect(op, t, d)[k + 1] = window(op, Effect(op, t, b)[k], Effect(op, t, b)[k + 1])
      /\ \A r \in DOMAIN t : r # k + 1 => Effect(op, t, d)[r] = Effect(op, t, b)[r]
    <2> DEFINE q == k + 1
    <2>1. d = add_operation2(b, t, k, q) /\ q \in DOMAIN t
        BY <1>1
    <2> HIDE DEF q
    <2> DEFINE c == add_operation2(b, t, k, q)
    <2>2. Adds(op, t, b, c, q, window(op, Effect(op, t, b)[k], Effect(op, t, b)[q]))
        <3>1. op \in Windows /\ WellFormed(b, t) /\ AllFit(op, b) /\ k \in DOMAIN t /\ q \in DOMAIN t
            BY <1>1, <2>1
        <3> HIDE DEF op
        <3> QED
            BY ONLY <3>1, WindowTurn
    <2>3. d = c
        BY <2>1
    <2> HIDE DEF c
    <2> QED
        BY <2>2, <2>3 DEF Adds, q
<1>3. /\ DOMAIN old = 1..Len(first) /\ DOMAIN new = 1..Len(first)
      /\ old[k + 1] = first[k + 1] /\ new[k + 1] = window(op, old[k], first[k + 1])
      /\ \A r \in 1..Len(first) : r # k + 1 => new[r] = old[r]
    <2>1. /\ old = [r \in 1..Len(first) |-> IF r <= k THEN NewRows(step, first)[r] ELSE first[r]]
          /\ new = [r \in 1..Len(first) |-> IF r <= k + 1 THEN NewRows(step, first)[r] ELSE first[r]]
        <3>1. step # "pad"
            BY DEF LinearPasses
        <3> QED
            BY <1>1, <3>1 DEF Unbatched
    <2>2. NewRows(step, first)[k + 1] = window(op, NewRows(step, first)[k], first[k + 1])
        <3>1. k + 1 \in 1..Len(first) /\ k + 1 # 1 /\ (k + 1) - 1 = k
            BY <1>1
        <3>2. \A r \in 1..Len(first) :
                 r # 1 => NewRows(step, first)[r] = window(op, NewRows(step, first)[r - 1], first[r])
            BY NewRowsEquation
        <3> HIDE DEF op
        <3> QED
            BY <3>1, <3>2
    <2> HIDE DEF old, new, op
    <2> QED
        BY <1>1, <2>1, <2>2
<1> HIDE DEF old, new, op
<1>4. Effect(op, t, d) = [r \in 1..Len(first) |-> Effect(op, t, d)[r]]
    BY <1>1 DEF Effect
<1>5. ASSUME NEW r \in 1..Len(first) PROVE Effect(op, t, d)[r] = Decrypted(new[r])
    <2>1. \A q \in 1..Len(first) : Effect(op, t, b)[q] = Decrypted(old[q])
        BY <1>3 DEF Contents, old, op
    <2>2. CASE r = k + 1
        BY <1>1, <1>2, <1>3, <2>1, <2>2, FlagIgnored
    <2>3. CASE r # k + 1
        BY <1>1, <1>2, <1>3, <2>1, <2>3
    <2> QED
        BY <2>2, <2>3
<1>6. Effect(op, t, d) = Contents(new)
    BY <1>3, <1>4, <1>5 DEF Contents
<1> QED
    BY <1>2, <1>6 DEF op, new

(* A row e more at the end of the table t, which batch b does not know. *)
Grows(op, t, b, e, u) ==
    /\ IsSeq(u) /\ Len(u) = Len(t) + 1
    /\ WellFormed(b, u)
    /\ \A r \in 1..Len(t) : Effect(op, u, b)[r] = Effect(op, t, b)[r]
    /\ Effect(op, u, b)[Len(t) + 1] = Decrypted(e)

(* A row appended to a table. *)
LEMMA AppendedIs ==
    ASSUME NEW t, IsSeq(t), NEW e
    PROVE  /\ Append(t, e) = [j \in 1..(Len(t) + 1) |-> IF j <= Len(t) THEN t[j] ELSE e]
           /\ DOMAIN Append(t, e) = 1..(Len(t) + 1) /\ Len(Append(t, e)) = Len(t) + 1
<1> DEFINE u == Append(t, e)
<1>1. DOMAIN t = 1..Len(t) /\ Len(t) \in Nat
    BY DEF IsSeq
<1> DEFINE S == {t[j] : j \in 1..Len(t)} \cup {e}
<1>2. t \in Seq(S)
    <2>1. t \in [1..Len(t) -> S]
        BY DEF IsSeq
    <2> HIDE DEF S
    <2> QED
        BY <1>1, <2>1
<1>3. e \in S
    OBVIOUS
<1> HIDE DEF S
<1>4. /\ u \in Seq(S) /\ Len(u) = Len(t) + 1
      /\ \A j \in 1..Len(t) : u[j] = t[j]
      /\ u[Len(t) + 1] = e
    BY <1>2, <1>3, AppendProperties
<1>5. u \in [1..(Len(t) + 1) -> S]
    BY <1>4, LenProperties
<1>6. \A j \in 1..(Len(t) + 1) : u[j] = IF j <= Len(t) THEN t[j] ELSE e
    BY <1>1, <1>4
<1> QED
    BY <1>4, <1>5, <1>6

(* A row appended to the table changes nothing of what the batch does. *)
LEMMA Growing ==
    ASSUME NEW op, NEW t, IsSeq(t), NEW b, WellFormed(b, t), AllFit(op, b),
           NEW e, NEW u, u = Append(t, e)
    PROVE  Grows(op, t, b, e, u)
<1>1. DOMAIN t = 1..Len(t) /\ Len(t) \in Nat
    BY DEF IsSeq
<1>2. /\ u = [j \in 1..(Len(t) + 1) |-> IF j <= Len(t) THEN t[j] ELSE e]
      /\ DOMAIN u = 1..(Len(t) + 1) /\ Len(u) = Len(t) + 1
    BY AppendedIs
<1>3. /\ \A r \in 1..Len(t) : u[r] = t[r] /\ r \in DOMAIN u
      /\ u[Len(t) + 1] = e /\ Len(t) + 1 \in DOMAIN u
    BY <1>1, <1>2
<1>4. IsSeq(u)
    BY <1>1, <1>2 DEF IsSeq
<1>5. WellFormed(b, u)
    <2>1. /\ Size(b) \in Nat
          /\ \A j \in 1..Size(b) : b.entry_pointers[j] \in 1..Len(t)
                                  /\ b.batch_data[j] = t[b.entry_pointers[j]]
        BY <1>1, BatchTypes
    <2>2. b.entry_pointers \in Seq(DOMAIN u)
        <3>1. b.entry_pointers \in Seq(DOMAIN t) /\ DOMAIN t \subseteq DOMAIN u
            BY <1>1, <1>3 DEF WellFormed
        <3> QED
            BY <3>1
    <2>3. b.batch_data = [j \in 1..Size(b) |-> u[b.entry_pointers[j]]]
        <3>1. b.batch_data = [j \in 1..Size(b) |-> t[b.entry_pointers[j]]]
            BY DEF WellFormed
        <3> QED
            BY <1>3, <2>1, <3>1
    <2> QED
        BY <2>2, <2>3 DEF WellFormed
<1>6. \A j \in 1..Size(b) : b.entry_pointers[j] \in 1..Len(t)
    BY <1>1, BatchTypes
<1>7. ASSUME NEW r \in 1..Len(t) PROVE Effect(op, u, b)[r] = Effect(op, t, b)[r]
    <2>1. r \in DOMAIN t /\ r \in DOMAIN u /\ u[r] = t[r]
        BY <1>1, <1>3
    <2>2. CASE \E j \in 1..Size(b) : b.entry_pointers[j] = r
        <3>1. PICK j \in 1..Size(b) : b.entry_pointers[j] = r
            BY <2>2
        <3>2. Effect(op, t, b)[r] = Run(op, b.batch_data, b.operations)[Len(b.operations)][j]
            BY <2>1, <3>1, EffectOfFlush
        <3>3. Effect(op, u, b)[r] = Run(op, b.batch_data, b.operations)[Len(b.operations)][j]
            <4>1. WellFormed(b, u) /\ AllFit(op, b) /\ r \in DOMAIN u
                BY <1>5, <2>1
            <4> QED
                BY ONLY <4>1, <3>1, EffectOfFlush
        <3> QED
            BY <3>2, <3>3
    <2>3. CASE \A j \in 1..Size(b) : b.entry_pointers[j] # r
        <3>1. Effect(op, t, b)[r] = Decrypted(t[r])
            BY <2>1, <2>3, EffectOfFlush
        <3>2. Effect(op, u, b)[r] = Decrypted(u[r])
            <4>1. WellFormed(b, u) /\ AllFit(op, b) /\ r \in DOMAIN u
                BY <1>5, <2>1
            <4> QED
                BY ONLY <4>1, <2>3, EffectOfFlush
        <3> QED
            BY <2>1, <3>1, <3>2
    <2> QED
        BY <2>2, <2>3
<1>8. Effect(op, u, b)[Len(t) + 1] = Decrypted(e)
    <2> DEFINE r == Len(t) + 1
    <2>1. r \in DOMAIN u /\ u[r] = e /\ \A j \in 1..Size(b) : b.entry_pointers[j] # r
        BY <1>1, <1>3, <1>6
    <2> HIDE DEF r
    <2>2. Effect(op, u, b)[r] = Decrypted(u[r])
        <3>1. WellFormed(b, u) /\ AllFit(op, b) /\ r \in DOMAIN u
                 /\ \A j \in 1..Size(b) : b.entry_pointers[j] # r
            BY <1>5, <2>1
        <3> QED
            BY ONLY <3>1, EffectOfFlush
    <2> QED
        BY <2>1, <2>2 DEF r
<1> QED
    BY <1>2, <1>4, <1>5, <1>7, <1>8 DEF Grows

(* Batch d is the batch b after turn k of the padding of first, to table u. *)
Pads(first, k, b, u, d) ==
    /\ IsSeq(u) /\ Len(u) = Len(first) + k
    /\ WellFormed(d, u) /\ AllFit(Op("pad"), d)
    /\ Len(d.operations) = Len(b.operations) + 1
    /\ Effect(Op("pad"), u, d) = Contents(Unbatched("pad", first, k))

(* A turn of the padding: the new row is appended, collected and filled. *)
LEMMA PadProgress ==
    ASSUME NEW first, IsSeq(first), NEW k \in Nat \ {0},
           NEW t, IsSeq(t), Len(t) = Len(first) + (k - 1),
           NEW b, WellFormed(b, t), AllFit(Op("pad"), b),
           Effect(Op("pad"), t, b) = Contents(Unbatched("pad", first, k - 1)),
           NEW u, u = Append(t, Blank(AssertConsistentEncryption(first))),
           NEW d, d = add_operation1(b, u, Len(u))
    PROVE  Pads(first, k, b, u, d)
<1> DEFINE op  == Op("pad")
           e   == Blank(AssertConsistentEncryption(first))
           old == Unbatched("pad", first, k - 1)
           new == Unbatched("pad", first, k)
           n   == Len(first) + k
<1>1. op \in Transforms
    BY OpsOfPasses DEF Passes, LinearPasses
<1>2. Len(first) \in Nat /\ Len(t) = n - 1 /\ n \in Nat \ {0}
    BY DEF IsSeq
<1>3. /\ IsSeq(u) /\ Len(u) = n
      /\ WellFormed(b, u)
      /\ \A r \in 1..(n - 1) : Effect(op, u, b)[r] = Effect(op, t, b)[r]
      /\ Effect(op, u, b)[n] = Decrypted(e)
    <2> HIDE DEF op, e, n
    <2>1. /\ IsSeq(u) /\ Len(u) = Len(t) + 1
          /\ WellFormed(b, u)
          /\ \A r \in 1..Len(t) : Effect(op, u, b)[r] = Effect(op, t, b)[r]
          /\ Effect(op, u, b)[Len(t) + 1] = Decrypted(e)
        <3>1. IsSeq(t) /\ WellFormed(b, t) /\ AllFit(op, b) /\ u = Append(t, e)
            BY DEF op, e
        <3>2. Grows(op, t, b, e, u)
            BY ONLY <3>1, Growing
        <3> QED
            BY <3>2 DEF Grows
    <2> QED
        BY <1>2, <2>1
<1>4. n \in DOMAIN u /\ DOMAIN u = 1..n
    <2> HIDE DEF n
    <2> QED
        BY <1>2, <1>3 DEF IsSeq
<1>5. /\ WellFormed(d, u) /\ AllFit(op, d) /\ Len(d.operations) = Len(b.operations) + 1
      /\ Effect(op, u, d)[n] = transform(op, Effect(op, u, b)[n])
      /\ \A r \in DOMAIN u : r # n => Effect(op, u, d)[r] = Effect(op, u, b)[r]
    <2> HIDE DEF op, e, n
    <2> DEFINE c == add_operation1(b, u, n)
    <2>1. d = c
        BY <1>3
    <2>2. Adds(op, u, b, c, n, transform(op, Effect(op, u, b)[n]))
        <3>1. op \in Transforms /\ WellFormed(b, u) /\ AllFit(op, b) /\ n \in DOMAIN u
            BY <1>1, <1>3, <1>4 DEF op
        <3> QED
            BY ONLY <3>1, MapTurn
    <2> HIDE DEF c
    <2> QED
        BY <2>1, <2>2 DEF Adds
<1>6. /\ DOMAIN old = 1..(n - 1) /\ DOMAIN new = 1..n
      /\ new[n] = transform(op, e)
      /\ \A r \in 1..(n - 1) : new[r] = old[r]
    <2>1. /\ old = [r \in 1..(n - 1) |-> IF r <= Len(first) THEN first[r] ELSE transform(op, e)]
          /\ new = [r \in 1..n |-> IF r <= Len(first) THEN first[r] ELSE transform(op, e)]
        <3>1. Len(first) + (k - 1) = n - 1
            BY <1>2
        <3> QED
            BY <3>1 DEF Unbatched
    <2>2. n > Len(first) /\ n \in 1..n /\ \A r \in 1..(n - 1) : r \in 1..n
        BY <1>2
    <2> HIDE DEF old, new, op, e, n
    <2> QED
        BY <2>1, <2>2
<1> HIDE DEF old, new, op, e, n
<1>7. Effect(op, u, d) = [r \in 1..n |-> Effect(op, u, d)[r]]
    BY <1>4 DEF Effect
<1>8. ASSUME NEW r \in 1..n PROVE Effect(op, u, d)[r] = Decrypted(new[r])
    <2>1. CASE r = n
        BY <1>1, <1>3, <1>4, <1>5, <1>6, <2>1, FlagApart, FlagIgnored
    <2>2. CASE r # n
        <3>1. r \in 1..(n - 1)
            BY <1>2, <2>2
        <3>2. Effect(op, t, b)[r] = Decrypted(old[r])
            BY <1>6, <3>1 DEF Contents, old, op
        <3> QED
            BY <1>3, <1>4, <1>5, <1>6, <2>2, <3>1, <3>2
    <2> QED
        BY <2>1, <2>2
<1>9. Effect(op, u, d) = Contents(new)
    BY <1>6, <1>7, <1>8 DEF Contents
<1> QED
    BY <1>3, <1>5, <1>9 DEF Pads, op, new, n

-----------------------------------------------------------------------------
(* The invariant holds and is kept. *)

(* A table as it comes satisfies the invariant. *)
LEMMA InitIInv == Init => IInv
<1> SUFFICES ASSUME Init PROVE IInv
    OBVIOUS
<1>1. counts \in Counts /\ Len(counts) \in Nat \ {0} /\ counts \in [1..Len(counts) -> Nat]
    BY CountsAssumption DEF Init
<1>2. PICK enc \in BOOLEAN :
          table = [r \in DOMAIN counts |-> Row(r - 1, counts[r], 7, SOURCE, enc)]
    BY DEF Init
<1>3. pc = "init_dst_idx" /\ i = 1 /\ batch = EmptyBatch /\ output_size = 0 /\ before = table
    BY DEF Init
<1>4. table = [r \in 1..Len(counts) |-> Row(r - 1, counts[r], 7, SOURCE, enc)]
      /\ DOMAIN table = 1..Len(counts)
    BY <1>1, <1>2
<1>5. Len(table) = Len(counts)
    BY <1>1, <1>4
<1>6. IsSeq(table)
    BY <1>1, <1>4, <1>5 DEF IsSeq
<1>7. \A r \in 1..Len(before) : NatRow(before[r])
    <2>1. \A r \in 1..Len(counts) : counts[r] \in Nat
        BY <1>1
    <2> QED
        BY <1>3, <1>4, <1>5, <2>1 DEF NatRow, Row
<1>8. InPass
    <2>1. Unbatched(pc, before, 0) = table
        BY <1>3, <1>6, UnbatchedStart
    <2>2. /\ WellFormed(batch, table) /\ AllFit(Op(pc), batch) /\ Len(batch.operations) = 0
          /\ Effect(Op(pc), table, batch) = Contents(table)
        BY <1>3, EmptyIsABatch
    <2>3. Turns = Len(table) /\ i \in 1..(Turns + 1)
        BY <1>1, <1>3, <1>5 DEF Turns, LinearPass, LinearPasses
    <2>4. Len(table) = Len(before) + (IF pc = "pad" THEN i - 1 ELSE 0)
        BY <1>1, <1>3, <1>5
    <2>5. i - 1 = 0 /\ 0 < MaxBatch
        BY <1>3, MaxBatchAssumption
    <2> QED
        BY <1>3, <2>1, <2>2, <2>3, <2>4, <2>5 DEF InPass
<1> QED
    BY <1>1, <1>3, <1>5, <1>6, <1>7, <1>8 DEF IInv, Passes, Between

(* What a turn has collected, on the table as it extends it. *)
LEMMA TurnCollects ==
    ASSUME IInv, pc \in Passes, i <= Turns
    PROVE  /\ IsSeq(Extended)
           /\ Len(Extended) = Len(before) + (IF pc = "pad" THEN i ELSE 0)
           /\ WellFormed(Collected, Extended) /\ AllFit(Op(pc), Collected)
           /\ Len(Collected.operations) = Len(batch.operations) + 1
           /\ Effect(Op(pc), Extended, Collected) = Contents(Unbatched(pc, before, i))
<1>1. /\ IsSeq(table) /\ IsSeq(before) /\ InPass
      /\ Len(table) \in Nat /\ Len(before) \in Nat /\ output_size \in Nat
    BY DEF IInv, IsSeq
<1>2. /\ WellFormed(batch, table) /\ AllFit(Op(pc), batch)
      /\ Effect(Op(pc), table, batch) = Contents(Unbatched(pc, before, i - 1))
    BY <1>1 DEF InPass
<1>3. CASE pc \notin LinearPasses /\ pc # "pad"
    <2>1. Extended = table /\ Collected = add_operation1(batch, table, i)
        BY <1>3 DEF Extended, Collected, LinearPass
    <2>2. Len(table) = Len(before) /\ i \in 1..Len(before)
        BY <1>1, <1>3 DEF InPass, Turns, LinearPass
    <2>3. /\ WellFormed(Collected, table) /\ AllFit(Op(pc), Collected)
          /\ Len(Collected.operations) = Len(batch.operations) + 1
          /\ Effect(Op(pc), table, Collected) = Contents(Unbatched(pc, before, i))
        BY <1>1, <1>2, <1>3, <2>1, <2>2, MapProgress
    <2> QED
        BY <1>1, <1>3, <2>1, <2>2, <2>3
<1>4. CASE pc \in LinearPasses
    <2>0. pc # "pad"
        BY <1>4 DEF LinearPasses
    <2>1. Extended = table /\ Collected = add_operation2(batch, table, i, i + 1)
        BY <1>4, <2>0 DEF Extended, Collected, LinearPass
    <2>2. Len(table) = Len(before) /\ i \in 1..(Len(before) - 1)
        BY <1>1, <1>4, <2>0 DEF InPass, Turns, LinearPass
    <2>3. /\ WellFormed(Collected, table) /\ AllFit(Op(pc), Collected)
          /\ Len(Collected.operations) = Len(batch.operations) + 1
          /\ Effect(Op(pc), table, Collected) = Contents(Unbatched(pc, before, i))
        BY <1>1, <1>2, <1>4, <2>1, <2>2, LinearProgress
    <2> QED
        BY <1>1, <2>0, <2>1, <2>2, <2>3
<1>5. CASE pc = "pad"
    <2>1. /\ Extended = Append(table, Blank(AssertConsistentEncryption(before)))
          /\ Collected = add_operation1(batch, Extended, Len(Extended))
        BY <1>5 DEF Extended, Collected, LinearPass, LinearPasses
    <2>2. Len(table) = Len(before) + (i - 1) /\ i \in Nat \ {0}
        BY <1>1, <1>5 DEF InPass
    <2>3. Pads(before, i, batch, Extended, Collected)
        <3>1. /\ IsSeq(before) /\ i \in Nat \ {0}
              /\ IsSeq(table) /\ Len(table) = Len(before) + (i - 1)
              /\ WellFormed(batch, table) /\ AllFit(Op("pad"), batch)
              /\ Effect(Op("pad"), table, batch) = Contents(Unbatched("pad", before, i - 1))
            BY <1>1, <1>2, <1>5, <2>2
        <3> QED
            BY ONLY <2>1, <3>1, PadProgress
    <2> QED
        BY <1>5, <2>3 DEF Pads
<1> QED
    BY <1>3, <1>4, <1>5

(* A batch without operations does nothing, whatever rows it has. *)
LEMMA NothingToDo ==
    ASSUME NEW op, NEW t, IsSeq(t), NEW b, WellFormed(b, t), b.operations = <<>>
    PROVE  Effect(op, t, b) = Contents(t)
<1>1. AllFit(op, b) /\ Len(b.operations) = 0
    BY DEF AllFit
<1>2. /\ DOMAIN b.batch_data = 1..Size(b)
      /\ \A j \in 1..Size(b) : b.batch_data[j] = t[b.entry_pointers[j]]
    BY BatchTypes
<1>3. \A j \in 1..Size(b) : Run(op, b.batch_data, b.operations)[0][j] = Decrypted(b.batch_data[j])
    <2> DEFINE data == b.batch_data
               ops  == b.operations
    <2>1. Len(ops) \in Nat /\ DOMAIN data = 1..Size(b)
        BY <1>1, <1>2
    <2> HIDE DEF data, ops
    <2>2. RunSteps(Run(op, data, ops), op, data, ops)
        BY <2>1, RunEquation
    <2>3. \A j \in 1..Size(b) : Run(op, data, ops)[0][j] = Decrypted(data[j])
        BY <2>1, <2>2 DEF RunSteps
    <2> QED
        BY <2>3 DEF data, ops
<1>4. ASSUME NEW r \in DOMAIN t PROVE Effect(op, t, b)[r] = Decrypted(t[r])
    <2>1. CASE \E j \in 1..Size(b) : b.entry_pointers[j] = r
        <3>1. PICK j \in 1..Size(b) : b.entry_pointers[j] = r
            BY <2>1
        <3>2. Effect(op, t, b)[r] = Run(op, b.batch_data, b.operations)[Len(b.operations)][j]
            BY <1>1, <3>1, EffectOfFlush
        <3>3. Effect(op, t, b)[r] = Decrypted(b.batch_data[j])
            BY <1>1, <1>3, <3>2
        <3>4. b.batch_data[j] = t[r]
            BY <1>2, <3>1
        <3> QED
            BY <3>3, <3>4
    <2>2. CASE \A j \in 1..Size(b) : b.entry_pointers[j] # r
        BY <1>1, <2>2, EffectOfFlush
    <2> QED
        BY <2>1, <2>2
<1> QED
    BY <1>4 DEF Effect, Contents

(* The table at the end of a pass is the one the unbatched pass makes.     *)
LEMMA PassMakesRows ==
    ASSUME IInv, pc \in Passes, i > Turns,
           NEW t, (t = table /\ batch.operations = <<>>) \/ t = Flushed(Op(pc), table, batch)
    PROVE  /\ IsSeq(t) /\ Len(t) = Len(table)
           /\ Contents(t) = Contents(Unbatched(pc, before, Turns))
<1>1. IsSeq(table) /\ InPass /\ IsSeq(before) /\ output_size \in Nat
    BY DEF IInv
<1>2. /\ WellFormed(batch, table)
      /\ Effect(Op(pc), table, batch) = Contents(Unbatched(pc, before, i - 1))
    BY <1>1 DEF InPass
<1>3. i - 1 = Turns
    <2>1. Len(table) \in Nat /\ Len(before) \in Nat
        BY <1>1 DEF IsSeq
    <2>2. Turns \in Int
        BY <1>1, <2>1 DEF Turns
    <2> QED
        BY <1>1, <2>2 DEF InPass
<1>4. CASE t = table /\ batch.operations = <<>>
    BY <1>1, <1>2, <1>3, <1>4, NothingToDo
<1>5. CASE t = Flushed(Op(pc), table, batch)
    BY <1>1, <1>2, <1>3, <1>5, FlushLeavesEffect
<1> QED
    BY <1>4, <1>5

(* Rows that differ in their flags at most. *)
Like(e, f) == Decrypted(e) = Decrypted(f)

(* They are alike in everything else. *)
LEMMA LikeFields ==
    ASSUME NEW e, NEW f, Like(e, f)
    PROVE  /\ e.original_index = f.original_index /\ e.final_mult = f.final_mult
           /\ e.dst_idx = f.dst_idx /\ e.field_type = f.field_type
BY DecryptedFields DEF Like

(* Tables of the same contents hold such rows. *)
LEMMA ContentsLike ==
    ASSUME NEW t, NEW u, IsSeq(t), IsSeq(u), Contents(t) = Contents(u)
    PROVE  Len(t) = Len(u) /\ \A r \in 1..Len(t) : Like(t[r], u[r])
<1>1. DOMAIN t = 1..Len(t) /\ DOMAIN u = 1..Len(u) /\ Len(t) \in Nat /\ Len(u) \in Nat
    BY DEF IsSeq
<1>2. DOMAIN t = DOMAIN u /\ \A r \in DOMAIN t : Decrypted(t[r]) = Decrypted(u[r])
    BY DEF Contents
<1>3. Len(t) = Len(u)
    <2>1. Len(t) < Len(u) => Len(u) \in 1..Len(u) /\ Len(u) \notin 1..Len(t)
        BY <1>1
    <2>2. Len(u) < Len(t) => Len(t) \in 1..Len(t) /\ Len(t) \notin 1..Len(u)
        BY <1>1
    <2>3. ~(Len(t) < Len(u)) /\ ~(Len(u) < Len(t))
        BY <1>1, <1>2, <2>1, <2>2
    <2>4. Len(t) \in Int /\ Len(u) \in Int
        BY <1>1
    <2> QED
        BY ONLY <2>3, <2>4
<1> QED
    BY <1>1, <1>2, <1>3 DEF Like

(* The flags are no part of what adds up. *)
LEMMA ContentsAddUp ==
    ASSUME NEW t, NEW u, IsSeq(t), IsSeq(u), Contents(t) = Contents(u),
           \A r \in 1..Len(u) : NatRow(u[r])
    PROVE  Len(t) = Len(u) /\ \A r \in 1..Len(t) : NatRow(t[r])
<1>1. Len(t) = Len(u) /\ \A r \in 1..Len(t) : Like(t[r], u[r])
    BY ContentsLike
<1>2. \A e, f : Like(e, f) /\ NatRow(f) => NatRow(e)
    BY LikeFields DEF NatRow
<1> QED
    BY <1>1, <1>2

(* A pass starts with an empty batch on the table it is given. *)
PassStart ==
    /\ pc \in Passes /\ IsSeq(table) /\ before = table /\ i = 1 /\ batch = EmptyBatch
    /\ pc = "pad" => output_size \in Nat /\ Len(table) <= output_size
    /\ pc \in LinearPasses => Len(table) >= 1

(* Before its first turn a pass has made nothing of the table. *)
LEMMA PassStarts == PassStart => InPass
<1> SUFFICES ASSUME PassStart PROVE InPass
    OBVIOUS
<1> USE DEF PassStart
<1>1. Unbatched(pc, before, 0) = table
    BY UnbatchedStart
<1>2. /\ WellFormed(batch, table) /\ AllFit(Op(pc), batch) /\ Len(batch.operations) = 0
      /\ Effect(Op(pc), table, batch) = Contents(table)
    BY EmptyIsABatch
<1>3. Len(table) \in Nat
    BY DEF IsSeq
<1>4. i \in 1..(Turns + 1)
    BY <1>3 DEF Turns, LinearPass
<1>5. i - 1 = 0 /\ 0 < MaxBatch
    BY MaxBatchAssumption
<1> QED
    BY <1>1, <1>2, <1>3, <1>4, <1>5 DEF InPass

(* A turn, with its flush or its exception, keeps the invariant. *)
LEMMA PassTurnKeepsIInv == IInv /\ PassTurn => IInv'
<1> SUFFICES ASSUME IInv, PassTurn PROVE IInv'
    OBVIOUS
<1>1. /\ pc \in Passes /\ i <= Turns
      /\ UNCHANGED <<entries, output_size, before>>
    BY DEF PassTurn
<1>2. /\ IsSeq(Extended) /\ Len(Extended) = Len(before) + (IF pc = "pad" THEN i ELSE 0)
      /\ WellFormed(Collected, Extended) /\ AllFit(Op(pc), Collected)
      /\ Len(Collected.operations) = Len(batch.operations) + 1
      /\ Effect(Op(pc), Extended, Collected) = Contents(Unbatched(pc, before, i))
    BY <1>1, TurnCollects
<1>3. /\ IsSeq(table) /\ IsSeq(before) /\ InPass /\ output_size \in Nat
      /\ Len(before) \in Nat /\ Len(table) \in Nat
    BY <1>1 DEF IInv, IsSeq
<1>0. pc # "pad" => Len(Extended) = Len(table)
    BY <1>1, <1>2, <1>3 DEF InPass
<1>4. CASE ~NeedsFlush(Collected)
    <2>1. table' = Extended /\ batch' = Collected /\ i' = i + 1 /\ pc' = pc
        BY <1>4 DEF PassTurn
    <2>2. Len(Collected.operations) < MaxBatch
        BY <1>2, <1>3, <1>4, MaxBatchAssumption, BatchTypes DEF NeedsFlush, InPass
    <2>3. InPass'
        <3>1. i' \in 1..(Turns' + 1)
            BY <1>1, <1>2, <1>3, <2>1 DEF InPass, Turns, LinearPass
        <3>2. i' - 1 = i
            BY <1>3, <2>1 DEF InPass
        <3> QED
            BY <1>1, <1>2, <1>3, <2>1, <2>2, <3>1, <3>2 DEF InPass
    <2> QED
        BY <1>0, <1>1, <1>2, <1>3, <2>1, <2>3 DEF IInv, Passes, Between
<1>5. CASE NeedsFlush(Collected) /\ lost
    <2>1. pc' = "thrown" /\ UNCHANGED <<table, batch, i>>
        BY <1>5 DEF PassTurn
    <2>2. Stopped'
        BY <1>1, <1>3, <2>1 DEF Stopped, InPass, Turns, LinearPass
    <2> QED
        BY <1>1, <1>3, <2>1, <2>2 DEF IInv, Passes, Between
<1>6. CASE NeedsFlush(Collected) /\ ~lost
    <2>1. /\ table' = Flushed(Op(pc), Extended, Collected) /\ batch' = EmptyBatch
          /\ i' = i + 1 /\ pc' = pc
        BY <1>6 DEF PassTurn
    <2>2. /\ IsSeq(table') /\ Len(table') = Len(Extended)
          /\ Contents(table') = Contents(Unbatched(pc, before, i))
        BY <1>2, <2>1, FlushLeavesEffect
    <2>3. /\ WellFormed(batch', table') /\ AllFit(Op(pc), batch') /\ Len(batch'.operations) = 0
          /\ Effect(Op(pc), table', batch') = Contents(table')
        BY <2>1, EmptyIsABatch
    <2>4. InPass'
        <3>1. i' \in 1..(Turns' + 1)
            BY <1>1, <1>2, <1>3, <2>1, <2>2 DEF InPass, Turns, LinearPass
        <3>2. i' - 1 = i /\ 0 < MaxBatch
            BY <1>3, <2>1, MaxBatchAssumption DEF InPass
        <3> QED
            BY <1>1, <1>2, <1>3, <2>1, <2>2, <2>3, <3>1, <3>2 DEF InPass
    <2> QED
        BY <1>0, <1>1, <1>2, <1>3, <2>1, <2>2, <2>4 DEF IInv, Passes, Between
<1> QED
    BY <1>4, <1>5, <1>6

(* So does the end of a pass: the next step finds the unbatched result. *)
LEMMA PassEndKeepsIInv == IInv /\ PassEnd => IInv'
<1> SUFFICES ASSUME IInv, PassEnd PROVE IInv'
    OBVIOUS
<1>1. /\ pc \in Passes /\ i > Turns
      /\ batch' = EmptyBatch /\ i' = 1 /\ before' = table'
      /\ UNCHANGED <<entries, output_size>>
    BY DEF PassEnd
<1>2. /\ IsSeq(table) /\ IsSeq(before) /\ InPass /\ output_size \in Nat
      /\ Len(before) \in Nat /\ Len(table) \in Nat
    BY <1>1 DEF IInv, IsSeq
<1>3. (PassStart => InPass)'
    BY PassStarts, PTL
<1>4. CASE pc' = "thrown" /\ table' = table
    <2>1. WellFormed(batch', table') /\ Len(batch'.operations) = 0
        BY <1>1, EmptyIsABatch
    <2>2. Stopped'
        BY <1>1, <1>2, <1>4, <2>1, MaxBatchAssumption DEF Stopped
    <2> QED
        BY <1>1, <1>2, <1>4, <2>2 DEF IInv, Passes, Between
<1>5. CASE /\ pc' = After[pc]
           /\ (table' = table /\ batch.operations = <<>>) \/ table' = Flushed(Op(pc), table, batch)
    <2>1. /\ IsSeq(table') /\ Len(table') = Len(table)
          /\ Contents(table') = Contents(Unbatched(pc, before, Turns))
        BY <1>1, <1>5, PassMakesRows
    <2>2. ASSUME pc \in {"init_dst_idx", "cumsum"}
          PROVE  Len(table') >= 1 /\ \A r \in 1..Len(table') : NatRow(table'[r])
        <3>1. Len(before) >= 1 /\ \A r \in 1..Len(before) : NatRow(before[r])
            BY <2>2 DEF IInv
        <3>2. \A r \in 1..Len(before) : NatRow(NewRows(pc, before)[r])
            BY <1>2, <2>2, <3>1, NewRowsAddUp
        <3> DEFINE u == Unbatched(pc, before, Turns)
        <3>3. /\ u = [r \in 1..Len(before) |-> u[r]]
              /\ \A r \in 1..Len(before) : u[r] = NewRows(pc, before)[r]
            <4>1. Len(table) = Len(before)
                BY <1>2, <2>2 DEF InPass
            <4>2. u = [r \in 1..Len(before) |-> NewRows(pc, before)[r]]
                <5>1. DOMAIN before = 1..Len(before)
                    BY <1>2 DEF IsSeq
                <5>2. \A r \in 1..Len(before) :
                         r <= (IF pc \in LinearPasses THEN Turns + 1 ELSE Turns)
                    BY <1>2, <2>2, <4>1 DEF Turns, LinearPass, LinearPasses
                <5> QED
                    BY <2>2, <5>1, <5>2 DEF Unbatched
            <4> HIDE DEF u
            <4> QED
                BY <4>2
        <3> HIDE DEF u
        <3>4. Len(u) = Len(before)
            BY <1>2, <3>3
        <3>5. IsSeq(u) /\ \A r \in 1..Len(u) : NatRow(u[r])
            BY <1>2, <3>2, <3>3, <3>4 DEF IsSeq
        <3>6. Contents(table') = Contents(u)
            BY <2>1 DEF u
        <3> QED
            BY <2>1, <3>1, <3>4, <3>5, <3>6, ContentsAddUp
    <2>3. CASE pc = "init_dst_idx"
        <3>1. pc' = "cumsum"
            BY <1>5, <2>3 DEF After
        <3>2. InPass'
            BY <1>1, <1>3, <2>1, <2>2, <2>3, <3>1 DEF PassStart, Passes
        <3> QED
            BY <1>1, <1>2, <2>1, <2>2, <2>3, <3>1, <3>2 DEF IInv, Passes, Between
    <2>4. CASE pc = "cumsum"
        <3>1. pc' = "size"
            BY <1>5, <2>4 DEF After
        <3> QED
            BY <1>1, <1>2, <2>1, <2>2, <2>4, <3>1 DEF IInv, Passes, Between
    <2>5. CASE pc = "mark"
        <3>1. pc' = "sort" /\ output_size >= 1
            BY <1>5, <2>5 DEF After, IInv
        <3> QED
            BY <1>1, <1>2, <2>1, <3>1 DEF IInv, Passes, Between
    <2>6. CASE pc = "pad"
        <3>1. pc' = "distribute" /\ output_size >= 1
            BY <1>5, <2>6 DEF After, IInv
        <3>2. Len(table) = output_size
            BY <1>1, <1>2, <2>6 DEF InPass, Turns
        <3> QED
            BY <1>1, <1>2, <2>1, <3>1, <3>2 DEF IInv, Passes, Between
    <2>7. CASE pc = "expand_copy"
        <3>1. pc' = "done"
            BY <1>5, <2>7 DEF After
        <3> QED
            BY <1>1, <1>2, <2>1, <3>1 DEF IInv, Passes, Between
    <2> QED
        BY <1>1, <2>3, <2>4, <2>5, <2>6, <2>7 DEF Passes
<1> QED
    BY <1>4, <1>5 DEF PassEnd

(* The output size is the last row's destination and its copies. *)
LEMMA ObtainOutputSizeKeepsIInv == IInv /\ ObtainOutputSize => IInv'
<1> SUFFICES ASSUME IInv, ObtainOutputSize PROVE IInv'
    OBVIOUS
<1>1. /\ pc = "size" /\ before' = table'
      /\ UNCHANGED <<entries, i, batch>>
      /\ output_size' = IF lost THEN 0
                        ELSE table[Len(table)].dst_idx + table[Len(table)].final_mult
    BY DEF ObtainOutputSize
<1>2. /\ IsSeq(table) /\ before = table /\ Len(before) >= 1 /\ i = 1 /\ batch = EmptyBatch
      /\ \A r \in 1..Len(before) : NatRow(before[r])
    BY <1>1 DEF IInv, Between
<1>3. output_size' \in Nat
    <2>1. NatRow(table[Len(table)])
        BY <1>2 DEF IsSeq
    <2> QED
        BY <1>1, <2>1 DEF NatRow
<1>4. CASE output_size' = 0
    <2>1. table' = <<>> /\ pc' = "done"
        BY <1>4 DEF ObtainOutputSize
    <2>2. IsSeq(<<>>)
        BY DEF IsSeq
    <2> QED
        BY <1>1, <1>2, <1>3, <2>1, <2>2 DEF IInv, Passes, Between
<1>5. CASE output_size' # 0
    <2>1. table' = table /\ pc' = "mark"
        BY <1>5 DEF ObtainOutputSize
    <2>2. (PassStart => InPass)'
        BY PassStarts, PTL
    <2>3. InPass'
        BY <1>1, <1>2, <2>1, <2>2 DEF PassStart, Passes, LinearPasses
    <2> QED
        BY <1>1, <1>2, <1>3, <1>5, <2>1, <2>3 DEF IInv, Passes, Between
<1> QED
    BY <1>4, <1>5

(* The first rows of a table, as many as the output has. *)
LEMMA TruncatedIs ==
    ASSUME NEW t, IsSeq(t), output_size \in Nat
    PROVE  /\ IsSeq(Truncated(t)) /\ Len(Truncated(t)) \in Nat
           /\ Len(Truncated(t)) = Least(Len(t), output_size)
           /\ Len(Truncated(t)) <= output_size /\ Len(Truncated(t)) <= Len(t)
           /\ \A j \in 1..Len(Truncated(t)) : j \in 1..Len(t) /\ Truncated(t)[j] = t[j]
<1> DEFINE n == Least(Len(t), output_size)
<1>1. n \in Nat /\ n <= output_size /\ n <= Len(t) /\ Len(t) \in Nat
    BY DEF Least, IsSeq
<1>2. Truncated(t) = [j \in 1..n |-> t[j]]
    BY DEF Truncated
<1> HIDE DEF n
<1>3. IsSeq(Truncated(t)) /\ Len(Truncated(t)) = n
    BY <1>1, <1>2 DEF IsSeq
<1>4. \A j \in 1..n : j \in 1..Len(t) /\ Truncated(t)[j] = t[j]
    BY <1>1, <1>2
<1> QED
    BY <1>1, <1>3, <1>4 DEF n

(* The n rows of s have one flag, and each is one of the table's first N   *)
(* or padding.                                                             *)
SomeRows(s, n, N, kept, enc) ==
    /\ IsSeq(s) /\ Len(s) = n
    /\ \A j \in 1..n :
          /\ s[j].is_encrypted = enc
          /\ \/ s[j].original_index = -1
             \/ kept[j] \in 1..N /\ s[j].original_index = table[kept[j]].original_index

(* Such are those that a failed sort leaves.                               *)
LEMMA RemainsIs ==
    ASSUME NEW n \in Nat, NEW N \in Nat, NEW enc, NEW kept \in [1..n -> 0..N]
    PROVE  SomeRows(Remains(kept, enc), n, N, kept, enc)
<1> DEFINE R == Remains(kept, enc)
<1>1. R = [j \in 1..n |-> IF kept[j] = 0 THEN SortPadding(enc) ELSE WithFlag(table[kept[j]], enc)]
    BY DEF Remains
<1> HIDE DEF R
<1>2. IsSeq(R) /\ Len(R) = n
    BY <1>1 DEF IsSeq
<1>3. ASSUME NEW j \in 1..n
      PROVE  /\ R[j].is_encrypted = enc
             /\ \/ R[j].original_index = -1
                \/ kept[j] \in 1..N /\ R[j].original_index = table[kept[j]].original_index
    <2>1. SortPadding(enc).is_encrypted = enc /\ SortPadding(enc).original_index = -1
        BY DEF SortPadding, Row, NULL_VALUE
    <2>2. ASSUME NEW e
          PROVE  WithFlag(e, enc).is_encrypted = enc /\ WithFlag(e, enc).original_index = e.original_index
        BY DEF WithFlag, Row
    <2>3. CASE kept[j] = 0
        <3>1. R[j] = SortPadding(enc)
            BY <1>1, <2>3
        <3> QED
            BY <2>1, <3>1
    <2>4. CASE kept[j] # 0
        <3>1. R[j] = WithFlag(table[kept[j]], enc)
            BY <1>1, <2>4
        <3>2. kept[j] \in 1..N
            BY <2>4
        <3> QED
            BY <2>2, <3>1, <3>2
    <2> QED
        BY <2>3, <2>4
<1>4. SomeRows(R, n, N, kept, enc)
    BY <1>2, <1>3 DEF SomeRows
<1> QED
    BY <1>4 DEF R

(* The rows in their new order, of one flag. *)
Reordered(p) == [j \in DOMAIN table |-> WithFlag(table[p[j]], FlagSorted(table))]

LEMMA ReorderedIs ==
    ASSUME IsSeq(table), NEW p
    PROVE  /\ IsSeq(Reordered(p)) /\ Len(Reordered(p)) = Len(table)
           /\ \A j \in 1..Len(table) :
                 /\ Reordered(p)[j].is_encrypted = FlagSorted(table)
                 /\ Like(Reordered(p)[j], table[p[j]])
<1>1. Reordered(p) = [j \in 1..Len(table) |-> WithFlag(table[p[j]], FlagSorted(table))]
    BY DEF Reordered, IsSeq
<1>2. IsSeq(Reordered(p)) /\ Len(Reordered(p)) = Len(table)
    BY <1>1 DEF IsSeq
<1>3. ASSUME NEW e, NEW f PROVE WithFlag(e, f).is_encrypted = f /\ Like(WithFlag(e, f), e)
    BY DEF WithFlag, Row, Like, Decrypted
<1>4. \A j \in 1..Len(table) : Reordered(p)[j] = WithFlag(table[p[j]], FlagSorted(table))
    BY <1>1
<1> QED
    BY <1>2, <1>3, <1>4

(* The sort and its truncation leave no more rows than the output has. *)
LEMMA SortKeepsIInv == IInv /\ (Sort \/ SortFails) => IInv'
<1> SUFFICES ASSUME IInv, Sort \/ SortFails PROVE IInv'
    OBVIOUS
<1>1. /\ pc = "sort" /\ before' = table'
      /\ UNCHANGED <<entries, i, batch, output_size>>
    BY DEF Sort, SortFails
<1>2. /\ IsSeq(table) /\ Len(table) \in Nat /\ i = 1 /\ batch = EmptyBatch
      /\ output_size \in Nat /\ output_size >= 1
    BY <1>1 DEF IInv, Between, IsSeq
<1>3. CASE pc' = "thrown" /\ table' = table
    <2>1. WellFormed(batch', table') /\ Len(batch'.operations) = 0
        BY <1>1, <1>2, EmptyIsABatch
    <2>2. Stopped'
        BY <1>1, <1>2, <1>3, <2>1, MaxBatchAssumption DEF Stopped
    <2> QED
        BY <1>1, <1>2, <1>3, <2>2 DEF IInv, Passes, Between
<1>4. ASSUME NEW t, IsSeq(t), pc' = "pad", table' = Truncated(t)
      PROVE  IInv'
    <2>1. IsSeq(table') /\ Len(table') \in Nat /\ Len(table') <= output_size
        BY <1>2, <1>4, TruncatedIs
    <2>2. (PassStart => InPass)'
        BY PassStarts, PTL
    <2>3. InPass'
        BY <1>1, <1>2, <1>4, <2>1, <2>2 DEF PassStart, Passes, LinearPasses
    <2> QED
        BY <1>1, <1>2, <1>4, <2>1, <2>3 DEF IInv, Passes, Between
<1>5. CASE Sort
    <2>1. PICK p : pc' = "pad" /\ table' = Truncated(Reordered(p))
        BY <1>5 DEF Sort, Reordered
    <2> QED
        BY <1>2, <1>4, <2>1, ReorderedIs
<1>6. CASE SortFails /\ ~(pc' = "thrown" /\ table' = table)
    <2>0. PICK n \in 0..Len(table) :
              \E enc : \E kept \in [1..n -> 0..Len(table)] :
                  pc' = "pad" /\ table' = Truncated(Remains(kept, enc))
        BY <1>6 DEF SortFails
    <2>1. PICK enc : \E kept \in [1..n -> 0..Len(table)] :
              pc' = "pad" /\ table' = Truncated(Remains(kept, enc))
        BY <2>0
    <2>2. PICK kept \in [1..n -> 0..Len(table)] :
              pc' = "pad" /\ table' = Truncated(Remains(kept, enc))
        BY <2>1
    <2>3. n \in Nat
        BY <1>2
    <2>4. SomeRows(Remains(kept, enc), n, Len(table), kept, enc)
        BY <1>2, <2>3, RemainsIs
    <2>5. IsSeq(Remains(kept, enc))
        BY <2>4 DEF SomeRows
    <2> QED
        BY <1>4, <2>2, <2>5
<1> QED
    BY <1>3, <1>5, <1>6

(* The distribution leaves as many rows as it was given. *)
LEMMA DistributeKeepsIInv == IInv /\ (DistributeStart \/ DistributeStep \/ DistributeEnd) => IInv'
<1> SUFFICES ASSUME IInv, DistributeStart \/ DistributeStep \/ DistributeEnd PROVE IInv'
    OBVIOUS
<1>1. (PassStart => InPass)'
    BY PassStarts, PTL
<1>2. CASE DistributeStart /\ output_size <= 1
    <2>1. /\ pc = "distribute" /\ pc' = "expand_copy"
          /\ UNCHANGED <<table, i, batch, output_size, before>>
        BY <1>2 DEF DistributeStart
    <2>2. /\ IsSeq(table) /\ before = table /\ i = 1 /\ batch = EmptyBatch
          /\ Len(table) = output_size /\ output_size \in Nat /\ output_size >= 1
        BY <2>1 DEF IInv, Between
    <2>3. InPass'
        BY <1>1, <2>1, <2>2 DEF PassStart, Passes
    <2> QED
        BY <2>1, <2>2, <2>3 DEF IInv, Passes, Between
<1>3. CASE DistributeStart /\ ~(output_size <= 1)
    <2>1. /\ pc = "distribute" /\ pc' = "aks" /\ entries' = table
          /\ UNCHANGED <<table, i, batch, output_size, before>>
        BY <1>3 DEF DistributeStart
    <2> QED
        BY <2>1 DEF IInv, Passes, Between
<1>4. CASE DistributeStep
    <2>1. pc = "aks" /\ AksNext /\ UNCHANGED <<table, pc, i, batch, output_size, before>>
        BY <1>4 DEF DistributeStep
    <2>2. IsSeq(entries) /\ Len(entries) = output_size /\ output_size \in Nat
        BY <2>1 DEF IInv
    <2>3. entries' = entries \/ \E f : entries' = [j \in DOMAIN entries |-> f[j]]
        <3>1. AksReturn \/ AksScan => entries' = entries
            BY DEF AksReturn, AksScan
        <3>2. ASSUME AksBaseCase \/ AksSwap
              PROVE  entries' = [j \in DOMAIN entries |-> entries'[j]]
            BY <3>2 DEF AksBaseCase, AksSwap
        <3> QED
            BY <2>1, <3>1, <3>2 DEF AksNext
    <2>4. IsSeq(entries') /\ Len(entries') = output_size
        BY <2>2, <2>3 DEF IsSeq
    <2> QED
        BY <2>1, <2>4 DEF IInv, Passes, Between
<1>5. CASE DistributeEnd
    <2>1. /\ pc = "aks" /\ pc' = "expand_copy" /\ table' = entries /\ before' = table'
          /\ UNCHANGED <<i, batch, output_size>>
        BY <1>5 DEF DistributeEnd
    <2>2. /\ IsSeq(entries) /\ i = 1 /\ batch = EmptyBatch
          /\ Len(entries) = output_size /\ output_size \in Nat /\ output_size >= 1
        BY <2>1 DEF IInv, Between
    <2>3. InPass'
        BY <1>1, <2>1, <2>2 DEF PassStart, Passes
    <2> QED
        BY <2>1, <2>2, <2>3 DEF IInv, Passes, Between
<1> QED
    BY <1>2, <1>3, <1>4, <1>5

(* Every step keeps the invariant. *)
LEMMA NextKeepsIInv == IInv /\ [Next]_vars => IInv'
<1> SUFFICES ASSUME IInv, [Next]_vars PROVE IInv'
    OBVIOUS
<1>1. CASE Advance
    BY <1>1, PassTurnKeepsIInv, PassEndKeepsIInv, ObtainOutputSizeKeepsIInv, SortKeepsIInv,
       DistributeKeepsIInv DEF Advance
<1>2. ASSUME UNCHANGED <<entries, table, pc, i, batch, output_size, before>> PROVE IInv'
    BY <1>2 DEF IInv, InPass, Stopped, Turns, LinearPass
<1>3. CASE EnclaveLost
    <2>1. UNCHANGED <<table, pc, i, batch, output_size, before>>
        BY <1>3 DEF EnclaveLost
    <2>2. CASE entries' = entries
        BY <1>2, <2>1, <2>2
    <2>3. CASE pc = "aks" /\ AksSwapTorn
        <3>1. IsSeq(entries) /\ Len(entries) = output_size
            BY <2>3 DEF IInv
        <3>2. entries' = [j \in DOMAIN entries |-> entries'[j]]
            BY <2>3 DEF AksSwapTorn
        <3>3. IsSeq(entries') /\ Len(entries') = output_size
            BY <3>1, <3>2 DEF IsSeq
        <3> QED
            BY <2>1, <2>3, <3>3 DEF IInv, Passes, Between
    <2> QED
        BY <1>3, <2>2, <2>3 DEF EnclaveLost
<1>4. CASE Ended \/ UNCHANGED vars
    BY <1>2, <1>4 DEF Ended, vars
<1> QED
    BY <1>1, <1>3, <1>4 DEF Next

(* The invariant is strong enough. *)
LEMMA IInvImpliesBatchInvariant == IInv => BatchInvariant
<1> SUFFICES ASSUME IInv PROVE BatchInvariant
    OBVIOUS
<1>1. IsSeq(table) /\ Len(table) \in Nat
    BY DEF IInv, IsSeq
<1>2. WellFormed(batch, table) /\ Len(batch.operations) < MaxBatch
    <2>1. CASE pc \in Passes
        BY <2>1 DEF IInv, InPass
    <2>2. CASE pc \in Between
        <3>1. batch = EmptyBatch
            BY <2>2 DEF IInv
        <3>2. WellFormed(EmptyBatch, table) /\ Len(EmptyBatch.operations) = 0
            BY EmptyIsABatch
        <3> QED
            BY <3>1, <3>2, MaxBatchAssumption
    <2>3. CASE pc = "thrown"
        BY <2>3 DEF IInv, Stopped
    <2> QED
        BY <2>1, <2>2, <2>3 DEF IInv
<1>3. i \in 1..(Turns + 1)
    <2>1. CASE pc \in Passes
        BY <2>1 DEF IInv, InPass
    <2>2. CASE pc \notin Passes
        <3>1. Turns = Len(table)
            BY <2>2 DEF Turns, LinearPass, Passes, LinearPasses
        <3>2. i \in 1..(Len(table) + 1)
            BY <1>1, <2>2 DEF IInv, Stopped, Between
        <3> QED
            BY <3>1, <3>2
    <2> QED
        BY <2>1, <2>2
<1>4. /\ DOMAIN batch.entry_pointers = 1..Size(batch)
      /\ DOMAIN batch.operations = 1..Len(batch.operations)
      /\ DOMAIN batch.batch_data = 1..Size(batch)
      /\ \A j \in 1..Size(batch) : batch.entry_pointers[j] \in DOMAIN table
      /\ \A n \in 1..Len(batch.operations) : batch.operations[n][1] \in 1..Size(batch)
    BY <1>2, BatchTypes
<1>5. TypeOK
    BY <1>2, <1>3, <1>4 DEF TypeOK, IInv, Between
<1>6. BatchesContinueThePass
    <2>1. pc \in Passes => Effect(Op(pc), table, batch) = Contents(Unbatched(pc, before, i - 1))
        BY DEF IInv, InPass
    <2>2. Contents(Flushed(Op(pc), table, batch)) = Effect(Op(pc), table, batch)
        BY <1>1, FlushLeavesEffect
    <2> QED
        BY <2>1, <2>2 DEF BatchesContinueThePass
<1> QED
    BY <1>5, <1>6 DEF BatchInvariant

(* In every table, however large the batch: what has been collected and    *)
(* what has been written back together continue the pass, in every turn    *)
(* and wherever the enclave is lost.                                       *)
THEOREM BatchesAreSafe == Spec => []BatchInvariant
<1>1. Spec => []IInv
    BY InitIInv, NextKeepsIInv, PTL DEF Spec
<1> QED
    BY <1>1, IInvImpliesBatchInvariant, PTL

-----------------------------------------------------------------------------
(* The flags. *)

Uniform(t) == \A j, k \in DOMAIN t : t[j].is_encrypted = t[k].is_encrypted

(* What the flags are in between: the rows that are appended take the flag *)
(* of the first, and the distribution leaves every row encrypted.  Only an *)
(* enclave that is lost meanwhile leaves a table of both kinds, of two     *)
(* rows at least, and the pass over it cannot end but by throwing.         *)
FlagInv ==
    /\ pc \in {"init_dst_idx", "cumsum", "size", "mark", "sort", "distribute", "done"} =>
          Uniform(table)
    /\ pc = "pad" =>
          \A j \in DOMAIN table : table[j].is_encrypted = AssertConsistentEncryption(before)
    /\ pc = "aks" => output_size >= 2 /\ (~lost => NoSlotForgotten)
    /\ pc = "expand_copy" =>
          Uniform(table) \/ (lost /\ Len(table) >= 2 /\ (i = 1 \/ batch.operations # <<>>))

(* A flush leaves every row the flag that it had. *)
LEMMA FlushKeepsFlags ==
    ASSUME NEW op, NEW t, NEW b, WellFormed(b, t)
    PROVE  /\ DOMAIN Flushed(op, t, b) = DOMAIN t
           /\ \A r \in DOMAIN t : Flushed(op, t, b)[r].is_encrypted = t[r].is_encrypted
<1> DEFINE data == batch_dispatcher(op, b.batch_data, b.operations)
           copies(r) == {j \in DOMAIN data : b.entry_pointers[j] = r}
           done == Run(op, b.batch_data, b.operations)[Len(b.operations)]
<1>1. /\ Size(b) \in Nat /\ DOMAIN b.batch_data = 1..Size(b)
      /\ \A j \in 1..Size(b) : b.batch_data[j] = t[b.entry_pointers[j]]
      /\ \A j, l \in 1..Size(b) : b.entry_pointers[j] = b.entry_pointers[l] => j = l
    BY BatchTypes DEF WellFormed
<1>2. data = [j \in 1..Size(b) |-> WithFlag(done[j], b.batch_data[j].is_encrypted)]
    BY <1>1 DEF batch_dispatcher
<1> HIDE DEF done
<1>3. Flushed(op, t, b) = [r \in DOMAIN t |->
            IF copies(r) = {} THEN t[r]
            ELSE data[CHOOSE j \in copies(r) : \A l \in copies(r) : l <= j]]
    BY DEF Flushed, write_back
<1> HIDE DEF data
<1>4. ASSUME NEW r \in DOMAIN t, copies(r) # {}
      PROVE  data[CHOOSE j \in copies(r) : \A l \in copies(r) : l <= j].is_encrypted
                 = t[r].is_encrypted
    <2> DEFINE last == CHOOSE j \in copies(r) : \A l \in copies(r) : l <= j
    <2>1. \E j \in copies(r) : \A l \in copies(r) : l <= j
        <3>1. DOMAIN data = 1..Size(b)
            BY <1>2
        <3>2. PICK j \in copies(r) : TRUE
            BY <1>4
        <3>3. \A l \in copies(r) : l = j
            BY <1>1, <3>1, <3>2
        <3> QED
            BY <1>1, <3>1, <3>2, <3>3
    <2>2. last \in copies(r)
        BY <2>1
    <2> HIDE DEF last
    <2>3. last \in 1..Size(b) /\ b.entry_pointers[last] = r
        BY <1>2, <2>2
    <2>4. data[last] = WithFlag(done[last], t[r].is_encrypted)
        BY <1>1, <1>2, <2>3
    <2>5. data[last].is_encrypted = t[r].is_encrypted
        BY <2>4 DEF WithFlag, Row
    <2> QED
        BY <2>5 DEF last
<1> HIDE DEF copies
<1> QED
    BY <1>3, <1>4

(* So does a pass, but for the rows that it appends. *)
LEMMA TurnKeepsFlags ==
    ASSUME IInv, pc \in Passes, PassTurn
    PROVE  \/ pc' = "thrown"
           \/ /\ pc' = pc /\ DOMAIN table' = DOMAIN Extended
              /\ \A r \in DOMAIN Extended : table'[r].is_encrypted = Extended[r].is_encrypted
<1>1. pc \in Passes /\ i <= Turns
    BY DEF PassTurn
<1>2. WellFormed(Collected, Extended)
    BY <1>1, TurnCollects
<1> DEFINE t == Extended
           b == Collected
<1>3. \/ pc' = "thrown"
      \/ pc' = pc /\ table' = t
      \/ pc' = pc /\ table' = Flushed(Op(pc), t, b)
    BY DEF PassTurn
<1>4. WellFormed(b, t)
    BY <1>2
<1> HIDE DEF t, b
<1>5. /\ DOMAIN Flushed(Op(pc), t, b) = DOMAIN t
      /\ \A r \in DOMAIN t : Flushed(Op(pc), t, b)[r].is_encrypted = t[r].is_encrypted
    BY <1>4, FlushKeepsFlags
<1>6. \/ pc' = "thrown"
      \/ /\ pc' = pc /\ DOMAIN table' = DOMAIN t
         /\ \A r \in DOMAIN t : table'[r].is_encrypted = t[r].is_encrypted
    BY <1>3, <1>5
<1> QED
    BY <1>6 DEF t

(* A turn gives the row that it appends the flag of the first, and in a    *)
(* lost enclave leaves its operation in the batch.                         *)
LEMMA TurnKeepsFlagInv == IInv /\ FlagInv /\ PassTurn => FlagInv'
<1> SUFFICES ASSUME IInv, FlagInv, PassTurn PROVE FlagInv'
    OBVIOUS
<1>1. /\ pc \in Passes /\ i <= Turns /\ IsSeq(table) /\ Len(table) \in Nat
      /\ UNCHANGED <<before, lost>>
    BY DEF PassTurn, IInv, IsSeq
<1>2. CASE pc' = "thrown"
    BY <1>2 DEF FlagInv
<1>3. CASE pc' # "thrown"
    <2>1. /\ pc' = pc /\ DOMAIN table' = DOMAIN Extended
          /\ \A r \in DOMAIN Extended : table'[r].is_encrypted = Extended[r].is_encrypted
        BY <1>1, <1>3, TurnKeepsFlags
    <2>2. CASE pc = "pad"
        <3>1. /\ DOMAIN Extended = 1..(Len(table) + 1)
              /\ \A r \in 1..Len(table) : Extended[r] = table[r]
              /\ Extended[Len(table) + 1] = Blank(AssertConsistentEncryption(before))
            <4> DEFINE e == Blank(AssertConsistentEncryption(before))
            <4>1. Extended = Append(table, e)
                BY <2>2 DEF Extended
            <4> HIDE DEF e
            <4>2. /\ Append(table, e) = [r \in 1..(Len(table) + 1) |-> IF r <= Len(table) THEN table[r] ELSE e]
                  /\ DOMAIN Append(table, e) = 1..(Len(table) + 1)
                BY <1>1, AppendedIs
            <4>3. /\ DOMAIN Extended = 1..(Len(table) + 1)
                  /\ \A r \in 1..Len(table) : Extended[r] = table[r]
                  /\ Extended[Len(table) + 1] = e
                BY <1>1, <4>1, <4>2
            <4> QED
                BY <4>3 DEF e
        <3>2. \A r \in 1..Len(table) : table[r].is_encrypted = AssertConsistentEncryption(before)
            BY <1>1, <2>2 DEF FlagInv, IsSeq
        <3>3. Blank(AssertConsistentEncryption(before)).is_encrypted = AssertConsistentEncryption(before)
            BY DEF Blank, Row
        <3>4. ASSUME NEW r \in DOMAIN table'
              PROVE  table'[r].is_encrypted = AssertConsistentEncryption(before)
            BY <1>1, <2>1, <3>1, <3>2, <3>3
        <3> QED
            BY <1>1, <2>1, <2>2, <3>4 DEF FlagInv, AssertConsistentEncryption
    <2>3. CASE pc # "pad"
        <3>1. /\ DOMAIN table' = DOMAIN table
              /\ \A r \in DOMAIN table : table'[r].is_encrypted = table[r].is_encrypted
            BY <2>1, <2>3 DEF Extended
        <3>2. Uniform(table) => Uniform(table')
            BY <3>1 DEF Uniform
        <3>3. ASSUME pc = "expand_copy", lost PROVE batch'.operations # <<>> /\ Len(table') = Len(table)
            <4>1. batch' = Collected
                BY <1>3, <3>3 DEF PassTurn, Passes
            <4>2. Len(Collected.operations) = Len(batch.operations) + 1 /\ Len(batch.operations) \in Nat
                BY <1>1, TurnCollects, BatchTypes DEF IInv, InPass
            <4>3. Collected.operations # <<>>
                BY <4>2
            <4>4. table' = table
                BY <1>3, <2>3, <3>3 DEF PassTurn, Extended, Passes
            <4> QED
                BY <4>1, <4>3, <4>4
        <3> QED
            BY <1>1, <2>1, <2>3, <3>2, <3>3 DEF FlagInv, Passes
    <2> QED
        BY <2>2, <2>3
<1> QED
    BY <1>2, <1>3

(* In a lost enclave no pass ends whose batch holds an operation. *)
LEMMA PassEndKeepsFlagInv == IInv /\ FlagInv /\ PassEnd => FlagInv'
<1> SUFFICES ASSUME IInv, FlagInv, PassEnd PROVE FlagInv'
    OBVIOUS
<1>1. /\ pc \in Passes /\ i > Turns /\ IsSeq(table) /\ Len(table) \in Nat
      /\ WellFormed(batch, table) /\ before' = table' /\ UNCHANGED lost
    BY DEF PassEnd, IInv, InPass, IsSeq
<1>2. CASE pc' = "thrown"
    BY <1>2 DEF FlagInv
<1>3. CASE pc' # "thrown"
    <2>1. /\ pc' = After[pc] /\ DOMAIN table' = DOMAIN table
          /\ \A r \in DOMAIN table : table'[r].is_encrypted = table[r].is_encrypted
        BY <1>1, <1>3, FlushKeepsFlags DEF PassEnd
    <2>2. Uniform(table) => Uniform(table')
        BY <2>1 DEF Uniform
    <2>3. CASE pc = "expand_copy"
        <3>1. Uniform(table)
            <4>1. ASSUME lost, Len(table) >= 2, i = 1 \/ batch.operations # <<>> PROVE FALSE
                <5>1. Turns = Len(table) - 1
                    BY <2>3 DEF Turns, LinearPass, LinearPasses
                <5>2. batch.operations # <<>>
                    BY <1>1, <4>1, <5>1
                <5> QED
                    BY <1>3, <4>1, <5>2 DEF PassEnd
            <4> QED
                BY <2>3, <4>1 DEF FlagInv
        <3> QED
            BY <2>1, <2>2, <2>3, <3>1 DEF FlagInv, After
    <2>4. CASE pc = "pad"
        <3>1. Uniform(table)
            BY <2>4 DEF FlagInv, Uniform
        <3> QED
            BY <2>1, <2>2, <2>4, <3>1 DEF FlagInv, After
    <2>5. CASE pc \in {"init_dst_idx", "cumsum", "mark"}
        <3>1. Uniform(table) /\ pc' \in {"cumsum", "size", "sort"}
            BY <2>1, <2>5 DEF FlagInv, After
        <3> QED
            BY <2>2, <3>1 DEF FlagInv
    <2> QED
        BY <1>1, <2>3, <2>4, <2>5 DEF Passes
<1> QED
    BY <1>2, <1>3

(* A table of one flag, cut off. *)
LEMMA TruncatedFlags ==
    ASSUME NEW t, IsSeq(t), output_size \in Nat, NEW flag,
           \A j \in 1..Len(t) : t[j].is_encrypted = flag
    PROVE  \A j \in DOMAIN Truncated(t) :
              Truncated(t)[j].is_encrypted = AssertConsistentEncryption(Truncated(t))
<1> DEFINE u == Truncated(t)
<1>1. IsSeq(u) /\ Len(u) \in Nat /\ \A j \in 1..Len(u) : u[j].is_encrypted = flag
    BY TruncatedIs
<1> HIDE DEF u
<1>2. ASSUME NEW j \in DOMAIN u PROVE u[j].is_encrypted = AssertConsistentEncryption(u)
    <2>1. j \in 1..Len(u) /\ 1 \in 1..Len(u)
        BY <1>1 DEF IsSeq
    <2>2. u # <<>>
        BY <2>1
    <2> QED
        BY <1>1, <2>1, <2>2 DEF AssertConsistentEncryption
<1> QED
    BY <1>2 DEF u

(* The sort leaves one flag, whether it works or fails. *)
LEMMA SortKeepsFlagInv == IInv /\ FlagInv /\ (Sort \/ SortFails) => FlagInv'
<1> SUFFICES ASSUME IInv, FlagInv, Sort \/ SortFails PROVE FlagInv'
    OBVIOUS
<1>1. /\ pc = "sort" /\ before' = table' /\ IsSeq(table) /\ Len(table) \in Nat
      /\ output_size \in Nat
    BY DEF Sort, SortFails, IInv, IsSeq
<1>2. CASE pc' = "thrown"
    BY <1>2 DEF FlagInv
<1>3. ASSUME NEW t, IsSeq(t), NEW flag, \A j \in 1..Len(t) : t[j].is_encrypted = flag,
             pc' = "pad", table' = Truncated(t)
      PROVE  FlagInv'
    <2>1. \A j \in DOMAIN table' : table'[j].is_encrypted = AssertConsistentEncryption(table')
        BY <1>1, <1>3, TruncatedFlags
    <2>2. \A j \in DOMAIN table' : table'[j].is_encrypted = AssertConsistentEncryption(before)'
        BY <1>1, <2>1 DEF AssertConsistentEncryption
    <2> QED
        BY <1>3, <2>2 DEF FlagInv
<1>4. CASE Sort
    <2>1. PICK p : pc' = "pad" /\ table' = Truncated(Reordered(p))
        BY <1>4 DEF Sort, Reordered
    <2> QED
        BY <1>1, <1>3, <2>1, ReorderedIs
<1>5. CASE SortFails /\ pc' # "thrown"
    <2>0. PICK n \in 0..Len(table) :
              \E enc : \E kept \in [1..n -> 0..Len(table)] :
                  pc' = "pad" /\ table' = Truncated(Remains(kept, enc))
        BY <1>5 DEF SortFails
    <2>1. PICK enc : \E kept \in [1..n -> 0..Len(table)] :
              pc' = "pad" /\ table' = Truncated(Remains(kept, enc))
        BY <2>0
    <2>2. PICK kept \in [1..n -> 0..Len(table)] :
              pc' = "pad" /\ table' = Truncated(Remains(kept, enc))
        BY <2>1
    <2>3. n \in Nat
        BY <1>1
    <2>4. SomeRows(Remains(kept, enc), n, Len(table), kept, enc)
        BY <1>1, <2>3, RemainsIs
    <2>5. /\ IsSeq(Remains(kept, enc))
          /\ \A j \in 1..Len(Remains(kept, enc)) : Remains(kept, enc)[j].is_encrypted = enc
        BY <2>4 DEF SomeRows
    <2> QED
        BY <1>3, <2>2, <2>5
<1> QED
    BY <1>2, <1>4, <1>5

(* The distribution starts with one call that handles every slot, forgets  *)
(* none on its way, and is over when no call is left.                      *)
LEMMA DistributeKeepsFlagInv ==
    IInv /\ FlagInv /\ (DistributeStart \/ DistributeStep \/ DistributeEnd) => FlagInv'
<1> SUFFICES ASSUME IInv, FlagInv, DistributeStart \/ DistributeStep \/ DistributeEnd
             PROVE  FlagInv'
    OBVIOUS
<1>1. CASE DistributeStart /\ output_size <= 1
    <2>1. pc = "distribute" /\ pc' = "expand_copy" /\ table' = table
        BY <1>1 DEF DistributeStart
    <2> QED
        BY <2>1 DEF FlagInv, Uniform
<1>2. CASE DistributeStart /\ ~(output_size <= 1)
    <2>1. /\ pc = "distribute" /\ pc' = "aks" /\ entries' = table
          /\ stack' = IF lost THEN <<>> ELSE <<Call("inner", 0, 0, 0, output_size)>>
          /\ UNCHANGED <<output_size, lost>>
        BY <1>2 DEF DistributeStart
    <2>2. output_size \in Nat /\ output_size >= 2 /\ IsSeq(table) /\ Len(table) = output_size
        BY <1>2, <2>1 DEF IInv
    <2>3. ASSUME ~lost PROVE NoSlotForgotten'
        <3> DEFINE c == Call("inner", 0, 0, 0, output_size)
        <3>1. CallOn(c, 0, output_size)
            BY <2>2, NewCall
        <3>2. stack' = <<c>>
            BY <2>1, <2>3
        <3> HIDE DEF c
        <3>3. IsSeq(stack') /\ Len(stack') = 1 /\ stack'[1] = c
            BY <3>2 DEF IsSeq
        <3>4. \A j \in 1..Len(entries') : Handles(c, j)
            BY <2>1, <2>2, <3>1 DEF Handles, CallOn
        <3> QED
            BY <2>1, <2>2, <3>1, <3>3, <3>4 DEF NoSlotForgotten, Guarded, CallOn
    <2> QED
        BY <2>1, <2>2, <2>3 DEF FlagInv
<1>3. CASE DistributeStep
    <2>1. pc = "aks" /\ AksNext /\ UNCHANGED <<pc, output_size, lost>>
        BY <1>3 DEF DistributeStep
    <2> QED
        BY <2>1, NoneForgotten DEF FlagInv
<1>4. CASE DistributeEnd
    <2>1. /\ pc = "aks" /\ pc' = "expand_copy" /\ stack = <<>> /\ table' = entries
          /\ UNCHANGED <<i, lost>>
        BY <1>4 DEF DistributeEnd
    <2>2. /\ IsSeq(entries) /\ Len(entries) = output_size /\ output_size \in Nat /\ i = 1
          /\ output_size >= 2 /\ (~lost => NoSlotForgotten)
        BY <2>1 DEF IInv, FlagInv, Between
    <2>3. ASSUME ~lost PROVE Uniform(table')
        <3>1. \A j \in 1..Len(entries) : entries[j].is_encrypted = TRUE
            BY <2>1, <2>2, <2>3 DEF NoSlotForgotten, Guarded
        <3> QED
            BY <2>1, <2>2, <3>1 DEF Uniform, IsSeq
    <2> QED
        BY <2>1, <2>2, <2>3 DEF FlagInv
<1> QED
    BY <1>1, <1>2, <1>3, <1>4

(* Every step keeps what is known of the flags. *)
LEMMA NextKeepsFlagInv == IInv /\ FlagInv /\ [Next]_vars => FlagInv'
<1> SUFFICES ASSUME IInv, FlagInv, [Next]_vars PROVE FlagInv'
    OBVIOUS
<1>1. CASE ObtainOutputSize
    <2>1. /\ pc = "size" /\ Uniform(table)
          /\ (table' = <<>> /\ pc' = "done") \/ (table' = table /\ pc' = "mark")
        BY <1>1 DEF ObtainOutputSize, FlagInv
    <2> QED
        BY <2>1 DEF FlagInv, Uniform
<1>2. CASE EnclaveLost
    BY <1>2 DEF EnclaveLost, FlagInv, Uniform
<1>3. CASE Ended \/ UNCHANGED vars
    <2>1. UNCHANGED <<entries, stack, table, pc, i, batch, output_size, lost, before>>
        BY <1>3 DEF Ended, vars
    <2> QED
        BY <2>1 DEF FlagInv, Uniform, NoSlotForgotten, Guarded
<1> QED
    BY <1>1, <1>2, <1>3, TurnKeepsFlagInv, PassEndKeepsFlagInv, SortKeepsFlagInv,
       DistributeKeepsFlagInv DEF Next, Advance

(* Wherever the batches fall, however the distribution divides its array   *)
(* and wherever the enclave is lost: no table that is handed on has rows   *)
(* of both kinds.                                                          *)
THEOREM EncryptionStaysUniform == Spec => []EncryptionIsUniform
<1>1. Init => FlagInv
    <2> SUFFICES ASSUME Init PROVE FlagInv
        OBVIOUS
    <2>1. PICK enc \in BOOLEAN :
              table = [r \in DOMAIN counts |-> Row(r - 1, counts[r], 7, SOURCE, enc)]
        BY DEF Init
    <2>2. Uniform(table)
        BY <2>1 DEF Uniform, Row
    <2> QED
        BY <2>2 DEF Init, FlagInv
<1>2. FlagInv => EncryptionIsUniform
    BY DEF FlagInv, EncryptionIsUniform, Uniform
<1> QED
    BY <1>1, <1>2, InitIInv, NextKeepsIInv, NextKeepsFlagInv, PTL DEF Spec

-----------------------------------------------------------------------------
(* The rows on their way to the distribution. *)

(* Rows in the order in which they came, with the copies they came with.   *)
Indexed(t, c) ==
    /\ Len(t) = Len(c)
    /\ \A r \in 1..Len(t) : t[r].original_index = r - 1 /\ t[r].final_mult = c[r] /\ NatRow(t[r])

(* None of them padding yet. *)
Fresh(t, c) == Indexed(t, c) /\ \A r \in 1..Len(t) : t[r].field_type = SOURCE

(* Each row's copies begin where those of the row before it end. *)
Summed(t) ==
    /\ t[1].dst_idx = 0
    /\ \A r \in 1..(Len(t) - 1) : t[r + 1].dst_idx = t[r].dst_idx + t[r].final_mult

(* Where the copies end. *)
Total(t) == t[Len(t)].dst_idx + t[Len(t)].final_mult

(* The rows without copies are padding. *)
PaddingMarked(t) ==
    \A r \in 1..Len(t) : t[r].field_type = IF t[r].final_mult = 0 THEN DIST_PADDING ELSE SOURCE

(* The table that the sort is given. *)
Source(t, c) == IsSeq(t) /\ Indexed(t, c) /\ Summed(t) /\ PaddingMarked(t)

(* A table with its rows, top copies in all, none lost. *)
HasRows(t, c, top) == \E T : Source(T, c) /\ top = Total(T) /\ SameReal(t, T)

AllHome(t) == \A j \in 1..Len(t) : Home(t[j], j)

(* A table of some rows of the table there was, or of a sort's padding.    *)
Known(t, c) == \A j \in 1..Len(t) : t[j].original_index + 1 \in 0..Len(c)

(* A pass that has not begun, or has something left to flush. *)
Unflushed == i = 1 \/ batch.operations # <<>>

(* What the steps make of the rows.  Until the sort it does not matter     *)
(* whether the enclave is still there, as the passes end only if it was.   *)
(* An enclave lost at the sort or later may leave rows unsorted or not     *)
(* where they belong, but then the next pass has something to flush and    *)
(* throws, unless it has no turn to make.                                  *)
RowInv ==
    /\ counts \in Counts
    /\ pc = "init_dst_idx" => Fresh(before, counts)
    /\ pc = "cumsum" => Fresh(before, counts) /\ before[1].dst_idx = 0
    /\ pc = "size" => Fresh(table, counts) /\ Summed(table)
    /\ pc = "mark" => Fresh(before, counts) /\ Summed(before) /\ output_size = Total(before)
    /\ pc = "sort" => Source(table, counts) /\ output_size = Total(table)
    /\ pc = "pad" => \/ Fronted(before, output_size) /\ HasRows(before, counts, output_size)
                     \/ lost /\ Known(before, counts) /\ (Len(before) = output_size \/ Unflushed)
    /\ pc = "distribute" => \/ Fronted(table, output_size) /\ HasRows(table, counts, output_size)
                            \/ lost /\ Known(table, counts)
    /\ pc = "aks" => output_size >= 2 /\ (lost \/ (Parted /\ HasRows(entries, counts, output_size)))
    /\ pc = "expand_copy" => \/ AllHome(before) /\ HasRows(before, counts, output_size)
                             \/ lost /\ Len(before) = 1 /\ Known(before, counts)
                             \/ lost /\ Len(before) >= 2 /\ Unflushed

(* What a pass hands on, if it does, are the unbatched rows. *)
LEMMA PassHandsOn ==
    ASSUME IInv, PassEnd, pc' # "thrown"
    PROVE  /\ pc \in Passes /\ pc' = After[pc] /\ before' = table' /\ IsSeq(table')
           /\ i' = 1 /\ UNCHANGED <<lost, output_size, counts>>
           /\ lost => batch.operations = <<>>
           /\ pc # "pad" => /\ Len(table') = Len(before)
                            /\ \A r \in 1..Len(before) : Like(table'[r], NewRows(pc, before)[r])
           /\ pc = "pad" => /\ Len(table') = output_size /\ Len(before) <= output_size
                            /\ \A r \in 1..output_size :
                                  IF r <= Len(before) THEN Like(table'[r], before[r])
                                  ELSE Decrypted(table'[r]) = Row(-1, 0, -1, DIST_PADDING, FALSE)
<1>1. /\ pc \in Passes /\ i > Turns /\ pc' = After[pc] /\ before' = table'
      /\ i' = 1 /\ UNCHANGED <<lost, output_size, counts>>
      /\ lost => batch.operations = <<>>
      /\ (table' = table /\ batch.operations = <<>>) \/ table' = Flushed(Op(pc), table, batch)
    BY DEF PassEnd
<1>2. /\ IsSeq(table) /\ IsSeq(before) /\ InPass /\ output_size \in Nat
      /\ Len(before) \in Nat /\ Len(table) \in Nat /\ DOMAIN before = 1..Len(before)
    BY <1>1 DEF IInv, IsSeq
<1> DEFINE u == Unbatched(pc, before, Turns)
<1>3. /\ IsSeq(table') /\ Len(table') = Len(table) /\ Contents(table') = Contents(u)
    BY <1>1, PassMakesRows
<1>4. CASE pc # "pad"
    <2>1. Len(table) = Len(before)
        BY <1>2, <1>4 DEF InPass
    <2>2. u = [r \in 1..Len(before) |-> NewRows(pc, before)[r]]
        <3>1. \A r \in 1..Len(before) : r <= (IF pc \in LinearPasses THEN Turns + 1 ELSE Turns)
            BY <1>2, <1>4, <2>1 DEF Turns, LinearPass
        <3> QED
            BY <1>2, <1>4, <3>1 DEF Unbatched
    <2> HIDE DEF u
    <2>3. Len(u) = Len(before) /\ IsSeq(u) /\ \A r \in 1..Len(before) : u[r] = NewRows(pc, before)[r]
        <3>1. Len(u) = Len(before)
            BY <1>2, <2>2
        <3> QED
            BY <1>2, <2>2, <3>1 DEF IsSeq
    <2>4. \A r \in 1..Len(table') : Like(table'[r], u[r])
        BY <1>3, <2>3, ContentsLike
    <2> QED
        BY <1>1, <1>3, <1>4, <2>1, <2>3, <2>4
<1>5. CASE pc = "pad"
    <2>1. /\ Len(before) <= output_size /\ Turns = output_size - Len(before)
          /\ Len(table) = Len(before) + (i - 1) /\ i \in 1..(Turns + 1)
        BY <1>2, <1>5 DEF InPass, Turns
    <2>2. Len(table) = output_size
        BY <1>1, <1>2, <2>1
    <2> DEFINE pad == transform(Op(pc), Blank(AssertConsistentEncryption(before)))
    <2>3. u = [r \in 1..output_size |-> IF r <= Len(before) THEN before[r] ELSE pad]
        <3>1. Len(before) + Turns = output_size
            BY <1>2, <2>1
        <3> QED
            BY <1>5, <3>1 DEF Unbatched
    <2>4. Decrypted(pad) = Row(-1, 0, -1, DIST_PADDING, FALSE)
        BY <1>5 DEF Op, transform, Decrypted, WithFlag, Row
    <2> HIDE DEF u, pad
    <2>5. Len(u) = output_size /\ IsSeq(u)
          /\ \A r \in 1..output_size : u[r] = IF r <= Len(before) THEN before[r] ELSE pad
        <3>1. Len(u) = output_size
            BY <1>2, <2>3
        <3> QED
            BY <1>2, <2>3, <3>1 DEF IsSeq
    <2>6. \A r \in 1..Len(table') : Like(table'[r], u[r])
        BY <1>3, <2>5, ContentsLike
    <2>7. ASSUME NEW r \in 1..output_size
          PROVE  IF r <= Len(before) THEN Like(table'[r], before[r])
                 ELSE Decrypted(table'[r]) = Row(-1, 0, -1, DIST_PADDING, FALSE)
        <3>1. Like(table'[r], u[r])
            BY <1>3, <2>2, <2>6
        <3> QED
            BY <2>4, <2>5, <3>1 DEF Like
    <2> QED
        BY <1>1, <1>3, <1>5, <2>1, <2>2, <2>7
<1> QED
    BY <1>4, <1>5

(* The rows of a table add up: copies of an earlier row end before those   *)
(* of a later one begin, and none end behind the last.                     *)
LEMMA SumsGrow ==
    ASSUME NEW t, IsSeq(t), Len(t) >= 1, Summed(t), \A r \in 1..Len(t) : NatRow(t[r])
    PROVE  /\ \A r, s \in 1..Len(t) : r < s => t[r].dst_idx + t[r].final_mult <= t[s].dst_idx
           /\ \A r \in 1..Len(t) : t[r].dst_idx + t[r].final_mult <= Total(t)
           /\ Total(t) \in Nat
<1>1. /\ Len(t) \in Nat /\ \A r \in 1..Len(t) : t[r].dst_idx \in Nat /\ t[r].final_mult \in Nat
      /\ \A r \in 1..(Len(t) - 1) : t[r + 1].dst_idx = t[r].dst_idx + t[r].final_mult
    BY DEF IsSeq, NatRow, Summed
<1> DEFINE n    == Len(t)
           d(r) == t[r].dst_idx
           m(r) == t[r].final_mult
<1>2. /\ n \in Nat /\ \A r \in 1..n : d(r) \in Nat /\ m(r) \in Nat
      /\ \A r \in 1..(n - 1) : d(r + 1) = d(r) + m(r)
    BY <1>1
<1> HIDE DEF d, m, n
<1>3. ASSUME NEW r \in 1..n
      PROVE  \A s \in 1..n : r < s => d(r) + m(r) <= d(s)
    <2> DEFINE T == {s \in Nat : s \in 1..n /\ r < s /\ ~(d(r) + m(r) <= d(s))}
    <2>1. 0 \notin T
        OBVIOUS
    <2>2. ASSUME NEW s \in 1..n, s - 1 \notin T PROVE s \notin T
        <3> SUFFICES ASSUME r < s PROVE d(r) + m(r) <= d(s)
            OBVIOUS
        <3>1. s - 1 \in 1..(n - 1) /\ s - 1 \in 1..n /\ (s - 1) + 1 = s /\ (r = s - 1 \/ r < s - 1)
            BY <1>2
        <3>2. d(s) = d(s - 1) + m(s - 1)
            BY <1>2, <3>1
        <3>3. CASE r = s - 1
            BY <1>2, <3>2, <3>3
        <3>4. CASE r < s - 1
            <4>1. d(r) + m(r) <= d(s - 1)
                BY <2>2, <3>1, <3>4
            <4> QED
                BY <1>2, <3>1, <3>2, <4>1
        <3> QED
            BY <3>1, <3>3, <3>4
    <2>3. \A s \in 0..n : s \notin T
        <3> HIDE DEF T
        <3> QED
            BY <1>2, <2>1, <2>2, UpTo
    <2> QED
        BY <1>2, <2>3
<1>4. n \in 1..n
    BY <1>2 DEF n
<1>5. Total(t) = d(n) + m(n)
    BY DEF Total, d, m, n
<1>6. Total(t) \in Nat
    BY <1>2, <1>4, <1>5
<1>7. ASSUME NEW r \in 1..n PROVE d(r) + m(r) <= Total(t)
    <2>1. r = n \/ r < n
        BY <1>2
    <2>2. r < n => d(r) + m(r) <= d(n)
        BY <1>3, <1>4
    <2> QED
        BY <1>2, <1>4, <1>5, <2>1, <2>2
<1> QED
    BY <1>3, <1>6, <1>7 DEF d, m, n

(* Padding behind the rows of a table leaves them in front. *)
LEMMA PaddingBehind ==
    ASSUME NEW t, NEW top \in Nat, Fronted(t, top), Len(t) <= top, NEW u, IsSeq(u), Len(u) = top,
           \A r \in 1..top : IF r <= Len(t) THEN Like(u[r], t[r])
                              ELSE Decrypted(u[r]) = Row(-1, 0, -1, DIST_PADDING, FALSE)
    PROVE  Fronted(u, top) /\ SameReal(u, t)
<1>1. Len(t) \in Nat
    BY DEF Fronted, IsSeq
<1>2. ASSUME NEW r \in 1..top
      PROVE  /\ GoodRow(u[r], top)
             /\ Real(u[r]) => r \in 1..Len(t) /\ Real(t[r])
             /\ r \in 1..Len(t) => /\ Real(u[r]) <=> Real(t[r])
                                   /\ u[r].dst_idx = t[r].dst_idx
                                   /\ Decrypted(u[r]) = Decrypted(t[r])
    <2> DEFINE e == u[r]
               f == t[r]
    <2>1. CASE r <= Len(t)
        <3>0. r \in 1..Len(t)
            BY <1>1, <2>1
        <3>1. Like(e, f) /\ GoodRow(f, top)
            BY <2>1, <3>0 DEF Fronted
        <3> HIDE DEF e, f
        <3>2. (Real(e) <=> Real(f)) /\ e.dst_idx = f.dst_idx /\ GoodRow(e, top)
            BY <3>1, LikeFields DEF Real, GoodRow, Like
        <3> QED
            BY <3>0, <3>1, <3>2 DEF e, f, Like
    <2>2. CASE ~(r <= Len(t))
        <3>1. Decrypted(e) = Row(-1, 0, -1, DIST_PADDING, FALSE)
            BY <2>2
        <3> HIDE DEF e
        <3>2. Decrypted(e).field_type = DIST_PADDING /\ Decrypted(e) \in EntryRows
            BY <3>1 DEF Row, EntryRows
        <3>3. ~Real(e)
            BY <3>2 DEF Real, Decrypted, WithFlag, Row
        <3> QED
            BY <2>2, <3>2, <3>3 DEF GoodRow, e
    <2> QED
        BY <2>1, <2>2
<1>3. ASSUME NEW j \in 1..top, NEW k \in 1..top, j < k, Real(u[k])
      PROVE  Real(u[j]) /\ u[j].dst_idx < u[k].dst_idx
    <2>1. k \in 1..Len(t) /\ Real(t[k]) /\ u[k].dst_idx = t[k].dst_idx
        BY <1>2, <1>3
    <2>2. j \in 1..Len(t)
        BY <1>1, <1>3, <2>1
    <2>3. Real(t[j]) /\ t[j].dst_idx < t[k].dst_idx
        BY <1>3, <2>1, <2>2 DEF Fronted
    <2> QED
        BY <1>2, <2>1, <2>2, <2>3
<1>4. Fronted(u, top)
    BY <1>2, <1>3 DEF Fronted
<1>5. \A j \in 1..Len(t) : j \in 1..Len(u)
    BY <1>1
<1>6. ComeFrom(u, t) /\ ComeFrom(t, u)
    BY <1>2, <1>5 DEF ComeFrom
<1> QED
    BY <1>4, <1>6 DEF SameReal

(* A pass hands on rows that are what the next step takes them for.        *)
LEMMA PassEndKeepsRows == IInv /\ RowInv /\ PassEnd => RowInv'
<1> SUFFICES ASSUME IInv, RowInv, PassEnd, pc' # "thrown" PROVE RowInv'
    <2>1. PassEnd => counts' = counts
        BY DEF PassEnd
    <2>2. counts' \in Counts /\ pc' = "thrown" => RowInv'
        BY DEF RowInv
    <2> QED
        BY <2>1, <2>2 DEF RowInv
<1>0. counts' \in Counts
    BY DEF RowInv, PassEnd
<1>1. /\ pc \in Passes /\ pc' = After[pc] /\ before' = table' /\ IsSeq(table')
      /\ i' = 1 /\ UNCHANGED <<lost, output_size, counts>>
      /\ lost => batch.operations = <<>>
      /\ pc # "pad" => /\ Len(table') = Len(before)
                       /\ \A r \in 1..Len(before) : Like(table'[r], NewRows(pc, before)[r])
      /\ pc = "pad" => /\ Len(table') = output_size /\ Len(before) <= output_size
                       /\ \A r \in 1..output_size :
                             IF r <= Len(before) THEN Like(table'[r], before[r])
                             ELSE Decrypted(table'[r]) = Row(-1, 0, -1, DIST_PADDING, FALSE)
    BY PassHandsOn
<1>2. IsSeq(before) /\ Len(before) \in Nat /\ output_size \in Nat
    BY DEF IInv, IsSeq
<1>3. CASE pc = "init_dst_idx"
    <2>1. Fresh(before, counts) /\ Len(before) >= 1
        BY <1>3 DEF RowInv, IInv
    <2>2. \A r \in 1..Len(before) : Like(table'[r], WithDestination(before[r], 0))
        BY <1>1, <1>2, <1>3, NewRowsEquation DEF LinearPasses, Op, transform
    <2>3. ASSUME NEW r \in 1..Len(before)
          PROVE  /\ table'[r].original_index = r - 1 /\ table'[r].final_mult = counts[r]
                 /\ NatRow(table'[r]) /\ table'[r].field_type = SOURCE /\ table'[r].dst_idx = 0
        <3> DEFINE e == table'[r]
                   f == before[r]
        <3>1. /\ Like(e, WithDestination(f, 0)) /\ f.original_index = r - 1 /\ f.final_mult = counts[r]
              /\ NatRow(f) /\ f.field_type = SOURCE
            BY <2>1, <2>2 DEF Fresh, Indexed
        <3> HIDE DEF e, f
        <3>2. e.original_index = r - 1 /\ e.final_mult = f.final_mult /\ e.dst_idx = 0 /\ e.field_type = SOURCE
            BY <3>1, LikeFields DEF WithDestination, Row
        <3>3. NatRow(e)
            BY <3>1, <3>2 DEF NatRow
        <3> QED
            BY <3>1, <3>2, <3>3 DEF e
    <2>4. Fresh(before', counts') /\ before'[1].dst_idx = 0
        BY <1>1, <1>2, <1>3, <2>1, <2>3 DEF Fresh, Indexed
    <2>5. pc' = "cumsum"
        BY <1>1, <1>3 DEF After
    <2> QED
        BY <1>0, <2>4, <2>5 DEF RowInv
<1>4. CASE pc = "cumsum"
    <2> DEFINE new == NewRows(pc, before)
    <2>1. Fresh(before, counts) /\ Len(before) >= 1 /\ before[1].dst_idx = 0
        BY <1>4 DEF RowInv, IInv
    <2>2. \A r \in 1..Len(before) :
             /\ r = 1 => new[r] = before[r]
             /\ r # 1 => new[r] = WithDestination(before[r], new[r - 1].dst_idx + new[r - 1].final_mult)
        BY <1>2, <1>4, NewRowsEquation DEF LinearPasses, Op, window
    <2>3. \A r \in 1..Len(before) : NatRow(new[r])
        BY <1>2, <1>4, <2>1, NewRowsAddUp DEF Fresh, Indexed
    <2>4. \A r \in 1..Len(before) : Like(table'[r], new[r])
        BY <1>1, <1>4
    <2> HIDE DEF new
    <2>5. ASSUME NEW r \in 1..Len(before)
          PROVE  /\ table'[r].original_index = r - 1 /\ table'[r].final_mult = counts[r]
                 /\ NatRow(table'[r]) /\ table'[r].field_type = SOURCE
                 /\ table'[r].dst_idx = new[r].dst_idx /\ table'[r].final_mult = new[r].final_mult
        <3> DEFINE e == table'[r]
                   f == before[r]
        <3>1. /\ Like(e, new[r]) /\ f.original_index = r - 1 /\ f.final_mult = counts[r]
              /\ f.field_type = SOURCE
            BY <2>1, <2>4 DEF Fresh, Indexed
        <3>2. new[r] = f \/ \E x : new[r] = WithDestination(f, x)
            BY <2>2
        <3>3. NatRow(new[r])
            BY <2>3
        <3> HIDE DEF e, f
        <3>4. /\ new[r].original_index = r - 1 /\ new[r].final_mult = counts[r]
              /\ new[r].field_type = SOURCE
            <4>1. \A x : /\ WithDestination(f, x).original_index = f.original_index
                         /\ WithDestination(f, x).final_mult = f.final_mult
                         /\ WithDestination(f, x).field_type = f.field_type
                BY DEF WithDestination, Row
            <4> QED
                BY <3>1, <3>2, <4>1
        <3>5. /\ e.original_index = r - 1 /\ e.final_mult = counts[r] /\ e.field_type = SOURCE
              /\ e.dst_idx = new[r].dst_idx /\ e.final_mult = new[r].final_mult
            BY <3>1, <3>4, LikeFields
        <3>6. NatRow(e)
            BY <3>3, <3>5 DEF NatRow
        <3> QED
            BY <3>5, <3>6 DEF e
    <2>6. Fresh(table', counts')
        BY <1>1, <1>4, <2>1, <2>5 DEF Fresh, Indexed
    <2>7. table'[1].dst_idx = 0
        <3>1. 1 \in 1..Len(before)
            BY <1>2, <2>1
        <3> QED
            BY <2>1, <2>2, <2>5, <3>1
    <2>8. ASSUME NEW r \in 1..(Len(before) - 1)
          PROVE  table'[r + 1].dst_idx = table'[r].dst_idx + table'[r].final_mult
        <3>1. r \in 1..Len(before) /\ r + 1 \in 1..Len(before) /\ r + 1 # 1 /\ (r + 1) - 1 = r
            BY <1>2
        <3>2. new[r + 1] = WithDestination(before[r + 1], new[r].dst_idx + new[r].final_mult)
            BY <2>2, <3>1
        <3>3. new[r + 1].dst_idx = new[r].dst_idx + new[r].final_mult
            BY <3>2 DEF WithDestination, Row
        <3> QED
            BY <2>5, <3>1, <3>3
    <2>9. pc' = "size"
        BY <1>1, <1>4 DEF After
    <2> QED
        BY <1>0, <1>1, <1>4, <2>6, <2>7, <2>8, <2>9 DEF RowInv, Summed
<1>5. CASE pc = "mark"
    <2>0. Len(counts) \in Nat \ {0}
        BY CountsAssumption DEF RowInv
    <2>1. Fresh(before, counts) /\ Summed(before) /\ Len(before) >= 1 /\ output_size = Total(before)
        BY <1>5, <2>0 DEF RowInv, Fresh, Indexed
    <2>2. \A r \in 1..Len(before) :
             Like(table'[r], WithType(before[r], IF before[r].final_mult = 0 THEN DIST_PADDING
                                                 ELSE before[r].field_type))
        BY <1>1, <1>2, <1>5, NewRowsEquation DEF LinearPasses, Op, transform
    <2>3. ASSUME NEW r \in 1..Len(before)
          PROVE  /\ table'[r].original_index = r - 1 /\ table'[r].final_mult = counts[r] /\ NatRow(table'[r])
                 /\ table'[r].dst_idx = before[r].dst_idx /\ table'[r].final_mult = before[r].final_mult
                 /\ table'[r].field_type = IF table'[r].final_mult = 0 THEN DIST_PADDING ELSE SOURCE
        <3> DEFINE e == table'[r]
                   f == before[r]
        <3>1. /\ Like(e, WithType(f, IF f.final_mult = 0 THEN DIST_PADDING ELSE f.field_type))
              /\ f.original_index = r - 1 /\ f.final_mult = counts[r] /\ NatRow(f) /\ f.field_type = SOURCE
            BY <2>1, <2>2 DEF Fresh, Indexed
        <3> HIDE DEF e, f
        <3>2. /\ e.original_index = r - 1 /\ e.final_mult = f.final_mult /\ e.dst_idx = f.dst_idx
              /\ e.field_type = IF f.final_mult = 0 THEN DIST_PADDING ELSE SOURCE
            BY <3>1, LikeFields DEF WithType, Row
        <3>3. NatRow(e)
            BY <3>1, <3>2 DEF NatRow
        <3> QED
            BY <3>1, <3>2, <3>3 DEF e, f
    <2>4. Indexed(table', counts') /\ PaddingMarked(table') /\ Len(table') >= 1 /\ Len(table') = Len(before)
        BY <1>1, <1>5, <2>1, <2>3 DEF Indexed, Fresh, PaddingMarked
    <2>5. Summed(table')
        <3>1. \A r \in 1..(Len(before) - 1) : r \in 1..Len(before) /\ r + 1 \in 1..Len(before)
            BY <1>2
        <3>2. 1 \in 1..Len(before)
            BY <1>2, <2>1
        <3> QED
            BY <2>1, <2>3, <2>4, <3>1, <3>2 DEF Summed
    <2>6. output_size' = Total(table')
        <3>1. Len(before) \in 1..Len(before)
            BY <1>2, <2>1
        <3> QED
            BY <1>1, <2>1, <2>3, <2>4, <3>1 DEF Total
    <2>7. pc' = "sort"
        BY <1>1, <1>5 DEF After
    <2> QED
        BY <1>0, <1>1, <2>4, <2>5, <2>6, <2>7 DEF RowInv, Source
<1>6. CASE pc = "pad"
    <2>0. pc' = "distribute"
        BY <1>1, <1>6 DEF After
    <2>1. CASE Fronted(before, output_size) /\ HasRows(before, counts, output_size)
        <3>1. Fronted(before, output_size)
            BY <2>1
        <3>2. \A r \in 1..output_size : IF r <= Len(before) THEN Like(table'[r], before[r])
                                         ELSE Decrypted(table'[r]) = Row(-1, 0, -1, DIST_PADDING, FALSE)
            BY <1>1, <1>6
        <3>3. Fronted(table', output_size) /\ SameReal(table', before)
            BY <1>1, <1>2, <1>6, <3>1, <3>2, PaddingBehind
        <3>4. HasRows(table', counts, output_size)
            BY <2>1, <3>3, SameRealAs DEF HasRows
        <3> QED
            BY <1>0, <1>1, <2>0, <3>3, <3>4 DEF RowInv
    <2>2. CASE lost /\ Known(before, counts) /\ (Len(before) = output_size \/ Unflushed)
        <3>1. Len(before) = output_size
            <4>1. i > Turns /\ Turns = output_size - Len(before) /\ Len(before) <= output_size
                BY <1>6 DEF PassEnd, Turns, IInv, InPass
            <4>2. Unflushed => i = 1
                BY <1>1, <2>2 DEF Unflushed
            <4> QED
                BY <1>2, <2>2, <4>1, <4>2
        <3>2. \A r \in 1..Len(table') : Like(table'[r], before[r]) /\ r \in 1..Len(before)
            BY <1>1, <1>2, <1>6, <3>1
        <3>3. Known(table', counts)
            BY <2>2, <3>2, LikeFields DEF Known
        <3> QED
            BY <1>0, <1>1, <2>0, <2>2, <3>3 DEF RowInv
    <2> QED
        BY <1>6, <2>1, <2>2 DEF RowInv
<1>7. CASE pc = "expand_copy"
    <2>1. pc' = "done"
        BY <1>1, <1>7 DEF After
    <2> QED
        BY <1>0, <2>1 DEF RowInv
<1> QED
    BY <1>1, <1>3, <1>4, <1>5, <1>6, <1>7 DEF Passes

(* The rows that the sort is given are rows. *)
LEMMA SourceRows ==
    ASSUME NEW t, NEW c, Source(t, c)
    PROVE  \A r \in 1..Len(t) : Decrypted(t[r]) \in EntryRows
<1> SUFFICES ASSUME NEW r \in 1..Len(t) PROVE Decrypted(t[r]) \in EntryRows
    OBVIOUS
<1> DEFINE e == t[r]
<1>1. /\ e.original_index = r - 1 /\ NatRow(e)
      /\ e.field_type = IF e.final_mult = 0 THEN DIST_PADDING ELSE SOURCE
    BY DEF Source, Indexed, PaddingMarked
<1> HIDE DEF e
<1>2. e.original_index \in Int /\ e.final_mult \in Int /\ e.dst_idx \in Int
      /\ e.field_type \in {SOURCE, DIST_PADDING}
    BY <1>1 DEF NatRow
<1>3. Decrypted(e) \in EntryRows
    BY <1>2 DEF Decrypted, WithFlag, Row, EntryRows
<1> QED
    BY <1>3 DEF e

(* The sort puts the rows that have copies in front, as they came. *)
LEMMA SortedIsFronted ==
    ASSUME NEW t, NEW c, Source(t, c), Len(t) >= 1,
           NEW p \in Bijection(1..Len(t), 1..Len(t)),
           \A j, k \in 1..Len(t) : j < k => ~compare_padding_last(t[p[k]], t[p[j]]),
           NEW n \in Nat, n <= Len(t)
    PROVE  Fronted([j \in 1..n |-> t[p[j]]], Total(t))
<1> DEFINE u == [j \in 1..n |-> t[p[j]]]
           N == Len(t)
<1>0. /\ IsSeq(t) /\ Indexed(t, c) /\ Summed(t) /\ PaddingMarked(t)
      /\ \A r \in 1..N : NatRow(t[r])
      /\ \A r \in 1..N : Decrypted(t[r]) \in EntryRows
    BY SourceRows DEF Source, Indexed
<1>1. N \in Nat /\ \A j \in 1..n : j \in 1..N
    BY <1>0 DEF IsSeq
<1>2. /\ \A j \in 1..N : p[j] \in 1..N
      /\ \A j, k \in 1..N : p[j] = p[k] => j = k
    BY DEF Bijection, Injection, IsInjective
<1>3. IsSeq(u) /\ Len(u) = n /\ \A j \in 1..n : u[j] = t[p[j]]
    BY DEF IsSeq
<1>4. /\ \A r, s \in 1..N : r < s => t[r].dst_idx + t[r].final_mult <= t[s].dst_idx
      /\ \A r \in 1..N : t[r].dst_idx + t[r].final_mult <= Total(t)
      /\ Total(t) \in Nat
    BY <1>0, SumsGrow
<1>5. \A r \in 1..N : /\ t[r].original_index = r - 1 /\ t[r].dst_idx \in Nat /\ t[r].final_mult \in Nat
                      /\ Real(t[r]) <=> t[r].final_mult # 0
    BY <1>0 DEF Indexed, PaddingMarked, NatRow, Real, SOURCE, DIST_PADDING
<1> HIDE DEF u
<1>6. ASSUME NEW j \in 1..n PROVE GoodRow(u[j], Total(t))
    <2> DEFINE r == p[j]
    <2>1. r \in 1..N /\ u[j] = t[r]
        BY <1>1, <1>2, <1>3
    <2> HIDE DEF r
    <2>2. Real(t[r]) => t[r].dst_idx \in 0..(Total(t) - 1)
        BY <1>4, <1>5, <2>1
    <2> QED
        BY <1>0, <2>1, <2>2 DEF GoodRow
<1>7. ASSUME NEW j \in 1..n, NEW k \in 1..n, j < k, Real(u[k])
      PROVE  Real(u[j]) /\ u[j].dst_idx < u[k].dst_idx
    <2> DEFINE r == p[j]
               s == p[k]
    <2>1. r \in 1..N /\ s \in 1..N /\ r # s /\ u[j] = t[r] /\ u[k] = t[s]
        BY <1>1, <1>2, <1>3, <1>7
    <2>2. ~compare_padding_last(t[s], t[r])
        BY <1>1, <1>7
    <2> HIDE DEF r, s
    <2>3. Real(t[r]) /\ ~(t[s].original_index < t[r].original_index)
        BY <1>7, <2>1, <2>2 DEF compare_padding_last, Real
    <2>4. r < s
        BY <1>1, <1>5, <2>1, <2>3
    <2>5. t[r].dst_idx + t[r].final_mult <= t[s].dst_idx /\ t[r].final_mult \in Nat /\ t[r].final_mult # 0
        BY <1>4, <1>5, <2>1, <2>3, <2>4
    <2>6. t[r].dst_idx < t[s].dst_idx
        <3> DEFINE a == t[r].dst_idx
                   b == t[r].final_mult
                   x == t[s].dst_idx
        <3>1. a \in Nat /\ b \in Nat /\ b # 0 /\ x \in Nat /\ a + b <= x
            BY <1>5, <2>1, <2>5
        <3> HIDE DEF a, b, x
        <3>2. a < x
            BY ONLY <3>1
        <3> QED
            BY <3>2 DEF a, x
    <2> QED
        BY <2>1, <2>3, <2>6
<1> QED
    BY <1>3, <1>6, <1>7 DEF Fronted, u

(* In front of a row with a destination are as many destinations.          *)
LEMMA FrontSpreads ==
    ASSUME NEW t, NEW top \in Nat, Fronted(t, top)
    PROVE  \A j \in 1..Len(t) : Real(t[j]) => j - 1 <= t[j].dst_idx /\ j <= top
<1>1. /\ Len(t) \in Nat
      /\ \A j \in 1..Len(t) : Real(t[j]) => t[j].dst_idx \in 0..(top - 1)
      /\ \A j, k \in 1..Len(t) : j < k /\ Real(t[k]) => Real(t[j]) /\ t[j].dst_idx < t[k].dst_idx
    BY DEF Fronted, IsSeq, GoodRow
<1> DEFINE n == Len(t)
           R(j) == Real(t[j])
           d(j) == t[j].dst_idx
           T == {j \in 1..n : R(j) /\ ~(j - 1 <= d(j))}
<1>2. /\ n \in Nat /\ \A j \in 1..n : R(j) => d(j) \in 0..(top - 1)
      /\ \A j, k \in 1..n : j < k /\ R(k) => R(j) /\ d(j) < d(k)
    BY <1>1
<1> HIDE DEF n, R, d
<1>3. ASSUME NEW j \in 1..n, j - 1 \notin T PROVE j \notin T
    <2> SUFFICES ASSUME R(j) PROVE j - 1 <= d(j)
        OBVIOUS
    <2>1. CASE j = 1
        BY <1>2, <2>1
    <2>2. CASE j # 1
        <3>1. j - 1 \in 1..n /\ j - 1 < j
            BY <1>2, <2>2
        <3>2. R(j - 1) /\ d(j - 1) < d(j)
            BY <1>2, <3>1
        <3>3. (j - 1) - 1 <= d(j - 1)
            BY <1>3, <3>1, <3>2
        <3> QED
            BY <1>2, <3>1, <3>2, <3>3
    <2> QED
        BY <2>1, <2>2
<1>4. 0 \notin T
    OBVIOUS
<1>5. \A j \in 0..n : j \notin T
    <2> HIDE DEF T
    <2> QED
        BY <1>2, <1>3, <1>4, UpTo
<1>6. ASSUME NEW j \in 1..n, R(j) PROVE j - 1 <= d(j) /\ j <= top
    <2>1. j - 1 <= d(j)
        BY <1>2, <1>5, <1>6
    <2>2. d(j) \in 0..(top - 1)
        BY <1>2, <1>6
    <2> QED
        BY <1>2, <2>1, <2>2
<1> QED
    BY <1>6 DEF n, R, d

(* So the truncation to the size of the output cuts off padding only.      *)
LEMMA SortedHasRows ==
    ASSUME NEW t, NEW c, Source(t, c), Len(t) >= 1,
           NEW p \in Bijection(1..Len(t), 1..Len(t)),
           \A j, k \in 1..Len(t) : j < k => ~compare_padding_last(t[p[k]], t[p[j]]),
           NEW n \in Nat, n <= Len(t), n = Len(t) \/ n = Total(t)
    PROVE  SameReal([j \in 1..n |-> t[p[j]]], t)
<1> DEFINE N == Len(t)
           full == [j \in 1..N |-> t[p[j]]]
           u == [j \in 1..n |-> t[p[j]]]
<1>0. Total(t) \in Nat
    BY SumsGrow DEF Source, Indexed
<1>1. N \in Nat /\ \A j \in 1..n : j \in 1..N
    BY DEF Source, IsSeq
<1>2. Fronted(full, Total(t))
    <2>1. N \in Nat /\ N <= Len(t)
        BY <1>1
    <2> QED
        BY <2>1, SortedIsFronted
<1>3. Len(u) = n /\ \A j \in 1..n : u[j] = t[p[j]]
    OBVIOUS
<1>4. Len(full) = N /\ \A j \in 1..N : full[j] = t[p[j]]
    BY <1>1
<1>5. /\ \A j \in 1..N : p[j] \in 1..N
      /\ \A r \in 1..N : \E j \in 1..N : p[j] = r
    BY DEF Bijection, Injection, Surjection
<1> HIDE DEF u, full, N
<1>6. ComeFrom(u, t)
    BY <1>1, <1>3, <1>5 DEF ComeFrom, N
<1>7. ASSUME NEW r \in 1..N, Real(t[r])
      PROVE  \E j \in 1..n : Decrypted(u[j]) = Decrypted(t[r])
    <2>1. PICK j \in 1..N : p[j] = r
        BY <1>5
    <2>2. Real(full[j]) /\ j \in 1..Len(full)
        BY <1>4, <1>7, <2>1
    <2>3. j <= Total(t)
        BY <1>0, <1>2, <2>2, FrontSpreads
    <2>4. j \in 1..n
        BY <1>1, <2>1, <2>3 DEF N
    <2> QED
        BY <1>3, <2>1, <2>4
<1>8. ComeFrom(t, u)
    BY <1>3, <1>7 DEF ComeFrom, N
<1> QED
    BY <1>6, <1>8 DEF SameReal, u

(* What lies in front, and which rows there are, is no matter of flags.    *)
LEMMA FlagsApart ==
    ASSUME NEW t, NEW u, IsSeq(u), Len(u) = Len(t), NEW top, NEW v,
           \A j \in 1..Len(t) : Like(u[j], t[j]), Fronted(t, top), SameReal(t, v)
    PROVE  Fronted(u, top) /\ SameReal(u, v)
<1>1. \A e, f : Like(e, f) =>
         /\ (Real(e) <=> Real(f)) /\ e.dst_idx = f.dst_idx /\ Decrypted(e) = Decrypted(f)
         /\ GoodRow(f, top) => GoodRow(e, top)
    BY LikeFields DEF Real, GoodRow, Like
<1>2. Fronted(u, top)
    BY <1>1 DEF Fronted
<1>3. SameReal(u, t)
    BY <1>1 DEF SameReal, ComeFrom
<1>4. SameReal(u, v)
    BY <1>3, SameRealAs
<1> QED
    BY <1>2, <1>4

(* So does the step of the sort. *)
LEMMA SortKeepsRows == IInv /\ RowInv /\ Sort => RowInv'
<1> SUFFICES ASSUME IInv, RowInv, Sort PROVE RowInv'
    OBVIOUS
<1>1. /\ pc = "sort" /\ pc' = "pad" /\ before' = table'
      /\ UNCHANGED <<i, output_size, lost, counts, batch>> /\ counts \in Counts
    BY DEF Sort, RowInv
<1>2. Source(table, counts) /\ output_size = Total(table)
    BY <1>1 DEF RowInv
<1>3. /\ IsSeq(table) /\ DOMAIN table = 1..Len(table) /\ Len(table) \in Nat /\ output_size \in Nat
    BY <1>1 DEF IInv, IsSeq, Between
<1>4. Len(table) = Len(counts) /\ Len(table) >= 1
    <2>1. Len(counts) \in Nat \ {0}
        BY <1>1, CountsAssumption
    <2>2. Len(table) = Len(counts)
        BY <1>2 DEF Source, Indexed
    <2> QED
        BY <2>1, <2>2
<1> DEFINE n == Least(Len(table), output_size)
<1>5. /\ n \in Nat /\ n <= Len(table) /\ (n = Len(table) \/ n = Total(table))
      /\ \A j \in 1..n : j \in 1..Len(table)
    BY <1>2, <1>3 DEF Least
<1>6. PICK p \in Bijection(DOMAIN table, DOMAIN table) :
         /\ \A j, k \in DOMAIN table : j < k => ~compare_padding_last(table[p[k]], table[p[j]])
         /\ table' = Truncated(Reordered(p))
    BY DEF Sort, Reordered
<1> DEFINE u == [j \in 1..n |-> table[p[j]]]
<1>7. p \in Bijection(1..Len(table), 1..Len(table))
    BY <1>3
<1>8. \A j, k \in 1..Len(table) : j < k => ~compare_padding_last(table[p[k]], table[p[j]])
    BY <1>3, <1>6
<1>9. IsSeq(table') /\ Len(table') = n
    BY <1>3, <1>6, TruncatedIs, ReorderedIs
<1>10. ASSUME NEW j \in 1..n PROVE Like(table'[j], table[p[j]])
    <2>1. table'[j] = Reordered(p)[j]
        BY <1>3, <1>6, <1>9, TruncatedIs, ReorderedIs
    <2> QED
        BY <1>3, <1>5, <2>1, ReorderedIs
<1> HIDE DEF n
<1>11. Fronted(u, Total(table)) /\ SameReal(u, table)
    BY <1>2, <1>4, <1>5, <1>7, <1>8, SortedIsFronted, SortedHasRows
<1>12. Len(u) = n /\ \A j \in 1..n : u[j] = table[p[j]]
    BY <1>5
<1> HIDE DEF u
<1>13. Fronted(table', Total(table)) /\ SameReal(table', table)
    BY <1>9, <1>10, <1>11, <1>12, FlagsApart
<1>14. Fronted(table', output_size) /\ HasRows(table', counts, output_size)
    BY <1>2, <1>13 DEF HasRows
<1> QED
    BY <1>1, <1>14 DEF RowInv

(* A failed sort makes up no row, and the next pass, if it has a turn to   *)
(* make, throws.                                                           *)
LEMMA SortFailsKeepsRows == IInv /\ RowInv /\ SortFails => RowInv'
<1> SUFFICES ASSUME IInv, RowInv, SortFails PROVE RowInv'
    OBVIOUS
<1>1. /\ pc = "sort" /\ before' = table' /\ lost' = TRUE
      /\ UNCHANGED <<i, output_size, counts, batch>> /\ counts \in Counts
    BY DEF SortFails, RowInv
<1>2. /\ IsSeq(table) /\ Len(table) \in Nat /\ output_size \in Nat /\ i = 1
    BY <1>1 DEF IInv, IsSeq, Between
<1>3. Len(table) = Len(counts) /\ \A j \in 1..Len(table) : table[j].original_index = j - 1
    BY <1>1 DEF RowInv, Source, Indexed
<1>4. CASE pc' = "thrown"
    BY <1>1, <1>4 DEF RowInv
<1>5. CASE pc' # "thrown"
    <2>0. PICK n \in 0..Len(table) :
              \E enc : \E kept \in [1..n -> 0..Len(table)] :
                  pc' = "pad" /\ table' = Truncated(Remains(kept, enc))
        BY <1>5 DEF SortFails
    <2>1. PICK enc : \E kept \in [1..n -> 0..Len(table)] :
              pc' = "pad" /\ table' = Truncated(Remains(kept, enc))
        BY <2>0
    <2>2. PICK kept \in [1..n -> 0..Len(table)] :
              pc' = "pad" /\ table' = Truncated(Remains(kept, enc))
        BY <2>1
    <2>3. n \in Nat
        BY <1>2
    <2> DEFINE R == Remains(kept, enc)
    <2>4. SomeRows(R, n, Len(table), kept, enc)
        BY <1>2, <2>3, RemainsIs
    <2> HIDE DEF R
    <2>5. ASSUME NEW j \in 1..n PROVE R[j].original_index + 1 \in 0..Len(counts)
        <3>1. CASE R[j].original_index = -1
            BY <1>2, <1>3, <3>1
        <3>2. CASE R[j].original_index # -1
            <4>1. kept[j] \in 1..Len(table) /\ R[j].original_index = kept[j] - 1
                BY <1>3, <2>4, <3>2 DEF SomeRows
            <4> DEFINE k == kept[j]
            <4> HIDE DEF k
            <4>2. k \in 1..Len(table) /\ R[j].original_index = k - 1
                BY <4>1 DEF k
            <4> QED
                BY <1>2, <1>3, <4>2
        <3> QED
            BY <3>1, <3>2
    <2>6. Known(table', counts)
        <3>1. \A j \in 1..Len(table') : j \in 1..n /\ table'[j] = R[j]
            <4>1. IsSeq(R) /\ Len(R) = n
                BY <2>4 DEF SomeRows
            <4>2. table' = Truncated(R)
                BY <2>2 DEF R
            <4> QED
                BY <1>2, <4>1, <4>2, TruncatedIs
        <3> QED
            BY <2>5, <3>1 DEF Known
    <2>7. Unflushed'
        BY <1>1, <1>2 DEF Unflushed
    <2> QED
        BY <1>1, <2>2, <2>6, <2>7 DEF RowInv
<1> QED
    BY <1>4, <1>5

(* What the distribution is given, with the enclave and without. *)
LEMMA DistributeStartKeepsRows == IInv /\ RowInv /\ DistributeStart => RowInv'
<1> SUFFICES ASSUME IInv, RowInv, DistributeStart PROVE RowInv'
    OBVIOUS
<1>1. /\ pc = "distribute" /\ UNCHANGED <<table, i, batch, output_size, lost, before, counts>>
      /\ before = table /\ IsSeq(table) /\ Len(table) = output_size
      /\ output_size \in Nat /\ output_size >= 1 /\ counts \in Counts
    BY DEF DistributeStart, IInv, RowInv
<1>2. \/ Fronted(table, output_size) /\ HasRows(table, counts, output_size)
      \/ lost /\ Known(table, counts)
    BY <1>1 DEF RowInv
<1>3. CASE output_size <= 1
    <2>1. output_size = 1 /\ pc' = "expand_copy"
        BY <1>1, <1>3 DEF DistributeStart
    <2>2. CASE Fronted(table, output_size) /\ HasRows(table, counts, output_size)
        <3>1. AllHome(table)
            BY <1>1, <2>1, <2>2 DEF Fronted, GoodRow, AllHome, Home
        <3> QED
            BY <1>1, <2>1, <2>2, <3>1 DEF RowInv
    <2>3. CASE lost /\ Known(table, counts)
        BY <1>1, <2>1, <2>3 DEF RowInv
    <2> QED
        BY <1>2, <2>2, <2>3
<1>4. CASE ~(output_size <= 1)
    <2>1. pc' = "aks" /\ entries' = table /\ output_size >= 2
        BY <1>1, <1>4 DEF DistributeStart
    <2>2. CASE lost
        BY <1>1, <2>1, <2>2 DEF RowInv
    <2>3. CASE ~lost
        <3>1. stack' = <<Call("inner", 0, 0, 0, output_size)>>
            BY <1>4, <2>3 DEF DistributeStart
        <3>2. Fronted(table, output_size) /\ HasRows(table, counts, output_size)
            BY <1>2, <2>3
        <3>3. Parted'
            BY <1>1, <2>1, <3>1, <3>2, StartIsParted
        <3> QED
            BY <1>1, <2>1, <3>2, <3>3 DEF RowInv
    <2> QED
        BY <2>2, <2>3
<1> QED
    BY <1>3, <1>4

(* Its steps lose no row, and leave each at home in the end. *)
LEMMA DistributeKeepsRows ==
    IInv /\ RowInv /\ (DistributeStep \/ DistributeEnd) => RowInv'
<1> SUFFICES ASSUME IInv, RowInv, DistributeStep \/ DistributeEnd PROVE RowInv'
    OBVIOUS
<1>1. /\ pc = "aks" /\ UNCHANGED <<i, batch, output_size, lost, counts>>
      /\ output_size >= 2 /\ counts \in Counts /\ i = 1 /\ Len(entries) = output_size
      /\ lost \/ (Parted /\ HasRows(entries, counts, output_size))
    BY DEF DistributeStep, DistributeEnd, IInv, RowInv, Between
<1>2. CASE DistributeStep
    <2>1. pc' = "aks" /\ AksNext
        BY <1>1, <1>2 DEF DistributeStep
    <2>2. CASE lost
        BY <1>1, <2>1, <2>2 DEF RowInv
    <2>3. CASE ~lost
        <3>1. Parted' /\ SameReal(entries', entries)
            BY <1>1, <2>1, <2>3, StepsKeepParted, StepsKeepRows
        <3>2. HasRows(entries', counts, output_size)
            BY <1>1, <2>3, <3>1, SameRealAs DEF HasRows
        <3> QED
            BY <1>1, <2>1, <3>1, <3>2 DEF RowInv
    <2> QED
        BY <2>2, <2>3
<1>3. CASE DistributeEnd
    <2>1. pc' = "expand_copy" /\ before' = entries /\ stack = <<>>
        BY <1>3 DEF DistributeEnd
    <2>2. CASE lost
        BY <1>1, <2>1, <2>2 DEF RowInv, Unflushed
    <2>3. CASE ~lost
        <3>1. AllHome(entries)
            BY <1>1, <2>1, <2>3 DEF Parted, AllHome
        <3> QED
            BY <1>1, <2>1, <2>3, <3>1 DEF RowInv
    <2> QED
        BY <2>2, <2>3
<1> QED
    BY <1>2, <1>3

(* A turn of a pass leaves something to flush, unless it has flushed.      *)
LEMMA TurnKeepsRows == IInv /\ RowInv /\ PassTurn => RowInv'
<1> SUFFICES ASSUME IInv, RowInv, PassTurn PROVE RowInv'
    OBVIOUS
<1>1. /\ pc \in Passes /\ pc' \in {pc, "thrown"} /\ i <= Turns
      /\ UNCHANGED <<output_size, lost, before, counts>>
      /\ lost /\ pc' # "thrown" => batch' = Collected
    BY DEF PassTurn, Passes
<1>2. lost /\ pc' # "thrown" => Unflushed'
    <2>1. Len(Collected.operations) = Len(batch.operations) + 1
        BY <1>1, TurnCollects
    <2>2. Len(batch.operations) \in Nat
        <3>1. WellFormed(batch, table)
            BY <1>1 DEF IInv, InPass
        <3> QED
            BY <3>1 DEF WellFormed
    <2>3. Collected.operations # <<>>
        BY <2>1, <2>2
    <2> QED
        BY <1>1, <2>3 DEF Unflushed
<1> QED
    BY <1>1, <1>2 DEF RowInv, Passes

(* Every step keeps what is known of the rows. *)
LEMMA NextKeepsRows == IInv /\ RowInv /\ [Next]_vars => RowInv'
<1> SUFFICES ASSUME IInv, RowInv, [Next]_vars PROVE RowInv'
    OBVIOUS
<1>1. CASE ObtainOutputSize
    <2>1. /\ pc = "size" /\ before' = table' /\ UNCHANGED <<lost, counts>> /\ counts \in Counts
          /\ ~lost => output_size' = Total(table)
          /\ pc' = "done" \/ (~lost /\ table' = table /\ pc' = "mark")
        BY <1>1 DEF ObtainOutputSize, Total, RowInv
    <2>2. CASE pc' = "done"
        BY <2>1, <2>2 DEF RowInv
    <2>3. CASE pc' = "mark" /\ table' = table /\ ~lost
        <3>1. Fresh(table, counts) /\ Summed(table)
            BY <2>1 DEF RowInv
        <3> QED
            BY <2>1, <2>3, <3>1 DEF RowInv
    <2> QED
        BY <2>1, <2>2, <2>3
<1>2. CASE EnclaveLost
    <2>1. /\ lost' = TRUE /\ UNCHANGED <<table, pc, i, batch, output_size, before, counts>>
        BY <1>2 DEF EnclaveLost
    <2> QED
        BY <2>1 DEF RowInv, Unflushed
<1>3. CASE Ended \/ UNCHANGED vars
    <2>1. UNCHANGED <<entries, stack, table, pc, i, batch, output_size, lost, before, counts>>
        BY <1>3 DEF Ended, vars
    <2>2. Parted => Parted'
        <3>1. UNCHANGED <<entries, stack>>
            BY <2>1
        <3> QED
            BY <3>1 DEF Parted
    <2> QED
        BY <2>1, <2>2 DEF RowInv, Unflushed
<1> QED
    BY <1>1, <1>2, <1>3, TurnKeepsRows, PassEndKeepsRows, SortKeepsRows, SortFailsKeepsRows,
       DistributeStartKeepsRows,       DistributeKeepsRows DEF Next, Advance

(* The rows a table starts with. *)
LEMMA InitRows == Init => RowInv
<1> SUFFICES ASSUME Init PROVE RowInv
    OBVIOUS
<1>1. PICK enc \in BOOLEAN :
          table = [r \in DOMAIN counts |-> Row(r - 1, counts[r], 7, SOURCE, enc)]
    BY DEF Init
<1>2. IInv /\ pc = "init_dst_idx" /\ before = table /\ counts \in Counts
    BY InitIInv DEF Init
<1>3. Len(counts) \in Nat /\ DOMAIN counts = 1..Len(counts)
    BY <1>2, CountsAssumption
<1>4. Len(table) = Len(counts) /\ \A r \in 1..Len(table) : table[r] = Row(r - 1, counts[r], 7, SOURCE, enc)
    BY <1>1, <1>3
<1>5. \A r \in 1..Len(table) : NatRow(table[r])
    BY <1>2 DEF IInv
<1>6. ASSUME NEW r \in 1..Len(table)
      PROVE  /\ table[r].original_index = r - 1 /\ table[r].final_mult = counts[r]
             /\ table[r].field_type = SOURCE
    <2>1. table[r] = Row(r - 1, counts[r], 7, SOURCE, enc)
        BY <1>4
    <2> QED
        BY <2>1 DEF Row
<1>7. Fresh(table, counts)
    BY <1>4, <1>5, <1>6 DEF Fresh, Indexed
<1> QED
    BY <1>2, <1>7 DEF RowInv

(* Whatever the counts of the rows, the size of the buffer and the batches: *)
(* while the enclave is there, every pending call of the distribution has   *)
(* in its part of the array exactly the rows that belong there, and what no *)
(* call covers any more is where it belongs.                                *)
THEOREM DistributionRoutes == Spec => []DistributionInvariant
<1>1. RowInv => DistributionInvariant
    BY PartedDecides DEF RowInv, DistributionInvariant
<1> QED
    BY <1>1, InitRows, InitIInv, NextKeepsIInv, NextKeepsRows, PTL DEF Spec

-----------------------------------------------------------------------------
(* The answer. *)

(* What flattens the first n of the sequences. *)
IsFlat(f, seqs, n) == f = [k \in 1..n |-> IF k = 1 THEN seqs[k] ELSE f[k - 1] \o seqs[k]]

LEMMA FlatOf ==
    ASSUME NEW seqs, NEW n \in Nat \ {0}, Len(seqs) = n, NEW w, IsFlat(w, seqs, n)
    PROVE  Service!FlattenSeq(seqs) = w[n]
<1> DEFINE g == CHOOSE f : IsFlat(f, seqs, n)
           T == {k \in 1..n : g[k] # w[k]}
<1>1. Service!FlattenSeq(seqs) = g[n]
    BY DEF Service!FlattenSeq, IsFlat
<1>2. IsFlat(g, seqs, n)
    OBVIOUS
<1> HIDE DEF g
<1>3. \A k \in 1..n : /\ g[k] = IF k = 1 THEN seqs[k] ELSE g[k - 1] \o seqs[k]
                      /\ w[k] = IF k = 1 THEN seqs[k] ELSE w[k - 1] \o seqs[k]
    BY <1>2 DEF IsFlat
<1>4. ASSUME NEW k \in 1..n, k - 1 \notin T PROVE k \notin T
    <2>1. k = 1 \/ k - 1 \in 1..n
        OBVIOUS
    <2>2. k # 1 => g[k - 1] = w[k - 1]
        BY <1>4, <2>1
    <2> QED
        BY <1>3, <2>2
<1>5. \A k \in 0..n : k \notin T
    <2>1. 0 \notin T
        OBVIOUS
    <2> HIDE DEF T
    <2> QED
        BY <1>4, <2>1, UpTo
<1>6. n \in 0..n /\ n \in 1..n
    OBVIOUS
<1> QED
    BY <1>1, <1>5, <1>6

(* A function on the first numbers is a sequence. *)
LEMMA SeqOfFunction ==
    ASSUME NEW k \in Nat, NEW S, NEW x \in [1..k -> S]
    PROVE  x \in Seq(S) /\ Len(x) = k
OBVIOUS

(* A sequence that has copy after copy of row after row is the expansion.  *)
LEMMA BlocksAreExpansion ==
    ASSUME NEW T, NEW c, IsSeq(T), Indexed(T, c), Summed(T),
           Len(c) \in Nat \ {0}, c \in [1..Len(c) -> Nat],
           NEW A, IsSeq(A), Len(A) = Total(T),
           \A r \in 1..Len(T) : \A j \in 1..T[r].final_mult : A[T[r].dst_idx + j] = r
    PROVE  A = Service!Expansion(c)
<1> DEFINE n    == Len(T)
           d(r) == T[r].dst_idx
           m(r) == T[r].final_mult
           seqs == [r \in 1..n |-> [j \in 1..m(r) |-> r]]
           w    == [r \in 1..n |-> [s \in 1..(d(r) + m(r)) |-> A[s]]]
<1>1. IsSeq(T) /\ n = Len(c) /\ n >= 1 /\ \A r \in 1..n : m(r) = c[r] /\ NatRow(T[r])
    BY DEF Indexed
<1>2. /\ n \in Nat \ {0} /\ n = Len(c)
      /\ \A r \in 1..n : d(r) \in Nat /\ m(r) \in Nat /\ d(r) + m(r) <= Total(T) /\ m(r) = c[r]
      /\ Total(T) \in Nat
    BY <1>1, SumsGrow DEF IsSeq, NatRow
<1>3. d(1) = 0 /\ \A r \in 1..(n - 1) : d(r + 1) = d(r) + m(r)
    BY DEF Summed
<1>4. \A r \in 1..n : \A j \in 1..m(r) : A[d(r) + j] = r
    OBVIOUS
<1>5. Len(A) = d(n) + m(n) /\ A = [s \in 1..Len(A) |-> A[s]]
    BY DEF Total, IsSeq
<1>6. Service!Expansion(c) = Service!FlattenSeq(seqs)
    <2>1. DOMAIN c = 1..n
        BY <1>2
    <2>2. [r \in DOMAIN c |-> [j \in 1..c[r] |-> r]] = seqs
        BY <1>2, <2>1
    <2> QED
        BY <2>2 DEF Service!Expansion
<1> HIDE DEF n, d, m
<1>7. ASSUME NEW r \in 1..n, r # 1 PROVE w[r] = w[r - 1] \o seqs[r]
    <2> DEFINE x == [s \in 1..d(r) |-> A[s]]
               y == [j \in 1..m(r) |-> r]
               S == {A[s] : s \in 1..d(r)} \cup {r}
    <2>1. r - 1 \in 1..(n - 1) /\ r - 1 \in 1..n /\ (r - 1) + 1 = r
        BY <1>2, <1>7
    <2>2. d(r) = d(r - 1) + m(r - 1)
        BY <1>3, <2>1
    <2>3. w[r - 1] = x /\ seqs[r] = y
        BY <2>1, <2>2
    <2>4. d(r) \in Nat /\ m(r) \in Nat
        BY <1>2
    <2>5. x \in Seq(S) /\ Len(x) = d(r) /\ y \in Seq(S) /\ Len(y) = m(r)
        <3>1. r \in S /\ \A s \in 1..d(r) : A[s] \in S
            OBVIOUS
        <3> HIDE DEF S
        <3>2. x \in [1..d(r) -> S] /\ y \in [1..m(r) -> S]
            BY <3>1
        <3> HIDE DEF x, y
        <3> QED
            BY ONLY <2>4, <3>2, SeqOfFunction
    <2>6. /\ \A s \in 1..d(r) : x[s] = A[s]
          /\ \A s \in 1..m(r) : y[s] = r
        OBVIOUS
    <2> HIDE DEF x, y, S
    <2>7. /\ x \o y \in Seq(S) /\ Len(x \o y) = Len(x) + Len(y)
          /\ \A s \in 1..(Len(x) + Len(y)) : (x \o y)[s] = IF s <= Len(x) THEN x[s] ELSE y[s - Len(x)]
        BY ONLY <2>5, ConcatProperties
    <2> DEFINE z == x \o y
               len == d(r) + m(r)
    <2> HIDE DEF z
    <2>8. /\ z = [s \in 1..len |-> z[s]]
          /\ \A s \in 1..len : z[s] = IF s <= d(r) THEN x[s] ELSE y[s - d(r)]
        <3>1. z \in Seq(S) /\ Len(z) = len
            BY <2>5, <2>7 DEF z
        <3>2. \A s \in 1..len : z[s] = IF s <= d(r) THEN x[s] ELSE y[s - d(r)]
            BY <2>5, <2>7 DEF z
        <3> HIDE DEF len
        <3> QED
            BY <3>1, <3>2
    <2>9. ASSUME NEW s \in 1..(d(r) + m(r)) PROVE z[s] = A[s]
        <3>1. CASE s <= d(r)
            BY <2>4, <2>6, <2>8, <3>1
        <3>2. CASE ~(s <= d(r))
            <4>1. s - d(r) \in 1..m(r) /\ d(r) + (s - d(r)) = s
                BY <2>4, <3>2
            <4>2. A[d(r) + (s - d(r))] = r
                BY <1>4, <4>1
            <4> QED
                BY <2>6, <2>8, <3>2, <4>1, <4>2
        <3> QED
            BY <3>1, <3>2
    <2>10. z = [s \in 1..(d(r) + m(r)) |-> A[s]]
        BY <2>8, <2>9
    <2> QED
        BY <2>3, <2>10 DEF z
<1>8. w[1] = seqs[1]
    <2>1. 1 \in 1..n /\ d(1) + m(1) = m(1)
        BY <1>2, <1>3
    <2>2. \A s \in 1..m(1) : A[s] = 1
        <3>1. ASSUME NEW s \in 1..m(1) PROVE A[s] = 1
            <4>1. m(1) \in Nat /\ d(1) + s = s
                BY <1>2, <1>3, <2>1
            <4>2. A[d(1) + s] = 1
                BY <1>4, <2>1
            <4> QED
                BY <4>1, <4>2
        <3> QED
            BY <3>1
    <2>3. [s \in 1..m(1) |-> A[s]] = [s \in 1..m(1) |-> 1]
        BY <2>2
    <2>4. w[1] = [s \in 1..m(1) |-> A[s]] /\ seqs[1] = [s \in 1..m(1) |-> 1]
        BY <2>1
    <2> QED
        BY <2>3, <2>4
<1>9. Len(seqs) = n
    BY <1>2
<1>10. w[n] = A
    BY <1>2, <1>5
<1>11. w = [k \in 1..n |-> w[k]]
    OBVIOUS
<1> HIDE DEF w, seqs
<1>12. IsFlat(w, seqs, n)
    BY <1>7, <1>8, <1>11 DEF IsFlat
<1> QED
    BY <1>2, <1>6, <1>9, <1>10, <1>12, FlatOf

(* A row is a copy of the new row before it, or a row of its own.          *)
LEMMA CopyRows ==
    ASSUME NEW t, IsSeq(t)
    PROVE  \A k \in 1..Len(t) :
              /\ k = 1 => NewRows("expand_copy", t)[k] = t[k]
              /\ k # 1 => NewRows("expand_copy", t)[k]
                             = IF Real(t[k]) THEN t[k] ELSE NewRows("expand_copy", t)[k - 1]
<1> DEFINE step == "expand_copy"
<1>1. step \in LinearPasses
    BY DEF LinearPasses
<1>2. \A e, f : window(Op(step), e, f) = IF Real(f) THEN f ELSE e
    BY DEF Op, window, Real
<1> HIDE DEF step
<1>3. \A k \in 1..Len(t) :
         /\ k = 1 => NewRows(step, t)[k] = t[k]
         /\ k # 1 => NewRows(step, t)[k] = window(Op(step), NewRows(step, t)[k - 1], t[k])
    BY <1>1, NewRowsEquation
<1> QED
    BY <1>2, <1>3 DEF step

(* Where every row is at home, the last pass fills the slots behind a row  *)
(* with its copies.                                                        *)
LEMMA CopiesFill ==
    ASSUME NEW t, IsSeq(t), NEW T, NEW c, Source(T, c), Len(T) >= 1, Len(t) = Total(T),
           AllHome(t), SameReal(t, T), NEW r \in 1..Len(T)
    PROVE  \A j \in 1..T[r].final_mult :
              /\ T[r].dst_idx + j \in 1..Len(t)
              /\ NewRows("expand_copy", t)[T[r].dst_idx + j].original_index = r - 1
<1> DEFINE new  == NewRows("expand_copy", t)
           top  == Len(t)
           d(s) == T[s].dst_idx
           m(s) == T[s].final_mult
           R(s) == Real(T[s])
<1>1. /\ IsSeq(T) /\ Summed(T) /\ \A s \in 1..Len(T) : NatRow(T[s]) /\ T[s].original_index = s - 1
      /\ \A s \in 1..Len(T) : R(s) <=> m(s) # 0
    BY DEF Source, Indexed, PaddingMarked, Real, SOURCE, DIST_PADDING
<1>2. /\ \A s \in 1..Len(T) : d(s) \in Nat /\ m(s) \in Nat /\ d(s) + m(s) <= top
      /\ \A q, s \in 1..Len(T) : q < s => d(q) + m(q) <= d(s)
      /\ top \in Nat /\ Len(T) \in Nat
    BY <1>1, SumsGrow DEF NatRow, IsSeq
<1>3. \A k \in 1..top : Real(t[k]) => t[k].dst_idx = k - 1
    BY DEF AllHome, Home
<1>4. \A k \in 1..top : /\ k = 1 => new[k] = t[k]
                        /\ k # 1 => new[k] = IF Real(t[k]) THEN t[k] ELSE new[k - 1]
    BY CopyRows
<1>5. \A s \in 1..Len(T) : R(s) => \E k \in 1..top : Decrypted(t[k]) = Decrypted(T[s])
    BY DEF SameReal, ComeFrom
<1>6. \A k \in 1..top : Real(t[k]) => \E s \in 1..Len(T) : R(s) /\ d(s) = k - 1
    <2> SUFFICES ASSUME NEW k \in 1..top, Real(t[k])
                 PROVE  \E s \in 1..Len(T) : R(s) /\ d(s) = k - 1
        OBVIOUS
    <2>1. PICK s \in 1..Len(T) : Decrypted(T[s]) = Decrypted(t[k])
        BY DEF SameReal, ComeFrom
    <2>2. R(s) /\ d(s) = t[k].dst_idx
        BY <2>1, DecryptedFields
    <2> QED
        BY <1>3, <2>2
<1> HIDE DEF new, top, d, m, R
<1>7. CASE m(r) = 0
    BY <1>7 DEF m
<1>8. CASE m(r) # 0
    <2> DEFINE N == {j \in 1..m(r) : new[d(r) + j].original_index # r - 1}
    <2>0. /\ d(r) \in Nat /\ m(r) \in Nat \ {0} /\ R(r)
          /\ \A j \in 1..m(r) : d(r) + j \in 1..top
        BY <1>1, <1>2, <1>8
    <2>1. PICK k \in 1..top : Decrypted(t[k]) = Decrypted(T[r])
        BY <1>5, <2>0
    <2>2. Real(t[k]) /\ t[k].dst_idx = d(r) /\ t[k].original_index = r - 1
        BY <1>1, <2>0, <2>1, DecryptedFields DEF R, d
    <2>3. k = d(r) + 1
        BY <1>2, <1>3, <2>0, <2>2
    <2>4. new[d(r) + 1].original_index = r - 1
        BY <1>4, <2>2, <2>3
    <2>5. ASSUME NEW j \in 1..m(r), j # 1 PROVE new[d(r) + j] = new[d(r) + (j - 1)]
        <3>1. d(r) + j \in 1..top /\ d(r) + j # 1 /\ (d(r) + j) - 1 = d(r) + (j - 1)
            BY <2>0, <2>5
        <3>2. ~Real(t[d(r) + j])
            <4> SUFFICES ASSUME Real(t[d(r) + j]) PROVE FALSE
                OBVIOUS
            <4>1. PICK s \in 1..Len(T) : R(s) /\ d(s) = d(r) + (j - 1)
                BY <1>6, <3>1
            <4>2. m(s) \in Nat \ {0} /\ s \in Nat /\ r \in Nat
                BY <1>1, <1>2, <4>1
            <4>3. CASE s = r
                BY <2>0, <2>5, <4>1, <4>3
            <4>4. CASE s < r
                <5>1. d(s) + m(s) <= d(r)
                    BY <1>2, <4>4
                <5> QED
                    BY <2>0, <2>5, <4>1, <4>2, <5>1
            <4>5. CASE r < s
                <5>1. d(r) + m(r) <= d(s)
                    BY <1>2, <4>5
                <5> QED
                    BY <2>0, <2>5, <4>1, <5>1
            <4> QED
                BY <4>2, <4>3, <4>4, <4>5
        <3> QED
            BY <1>4, <3>1, <3>2
    <2>6. ASSUME NEW j \in 1..m(r), j - 1 \notin N PROVE j \notin N
        <3>1. CASE j = 1
            BY <2>4, <3>1
        <3>2. CASE j # 1
            <4>1. j - 1 \in 1..m(r)
                BY <2>0, <3>2
            <4> QED
                BY <2>5, <2>6, <3>2, <4>1
        <3> QED
            BY <3>1, <3>2
    <2>7. \A j \in 0..m(r) : j \notin N
        <3>1. 0 \notin N /\ m(r) \in Nat
            BY <2>0
        <3> HIDE DEF N
        <3> QED
            BY <2>6, <3>1, UpTo
    <2>8. \A j \in 1..m(r) : d(r) + j \in 1..top /\ new[d(r) + j].original_index = r - 1
        BY <2>0, <2>7
    <2> QED
        BY <2>8 DEF d, m, top, new
<1> QED
    BY <1>7, <1>8

(* What the call answers. *)
Answered(t) == [j \in DOMAIN t |-> t[j].original_index + 1]

MayAnswer(a) ==
    \/ a = Service!Expansion(counts)
    \/ lost /\ (a = <<>> \/ \E r \in {0} \cup DOMAIN counts : a = <<r>>)

(* The last pass answers, with every row in all its copies; without the    *)
(* enclave it does so only if it has no turn to make.                      *)
LEMMA LastPassAnswers ==
    ASSUME IInv, RowInv, PassEnd, pc = "expand_copy", pc' # "thrown"
    PROVE  MayAnswer(Answered(table'))
<1>1. /\ before' = table' /\ IsSeq(table') /\ (lost => batch.operations = <<>>)
      /\ Len(table') = Len(before)
      /\ \A r \in 1..Len(before) : Like(table'[r], NewRows("expand_copy", before)[r])
    BY PassHandsOn
<1>2. /\ IsSeq(before) /\ Len(before) \in Nat /\ Len(table) = Len(before) /\ Len(table) = output_size
      /\ i > Turns /\ Turns = Len(table) - 1
    BY DEF IInv, IsSeq, InPass, PassEnd, Passes, Turns, LinearPass, LinearPasses
<1>3. counts \in Counts /\ Len(counts) \in Nat \ {0} /\ counts \in [1..Len(counts) -> Nat]
    BY CountsAssumption DEF RowInv
<1> DEFINE A == Answered(table')
<1>4. /\ DOMAIN table' = 1..Len(before)
      /\ A = [j \in 1..Len(before) |-> table'[j].original_index + 1]
    BY <1>1 DEF IsSeq, Answered
<1>5. Len(A) = Len(before) /\ IsSeq(A)
    BY <1>2, <1>4 DEF IsSeq
<1>6. \A j \in 1..Len(before) :
         A[j] = NewRows("expand_copy", before)[j].original_index + 1
    <2> SUFFICES ASSUME NEW j \in 1..Len(before)
                 PROVE  A[j] = NewRows("expand_copy", before)[j].original_index + 1
        OBVIOUS
    <2>1. table'[j].original_index = NewRows("expand_copy", before)[j].original_index
        BY <1>1, LikeFields
    <2> QED
        BY <1>4, <2>1
<1> HIDE DEF A
<1>7. CASE AllHome(before) /\ HasRows(before, counts, output_size)
    <2>1. PICK T : Source(T, counts) /\ output_size = Total(T) /\ SameReal(before, T)
        BY <1>7 DEF HasRows
    <2>2. IsSeq(T) /\ Indexed(T, counts) /\ Summed(T) /\ Len(T) >= 1
        BY <1>3, <2>1 DEF Source, Indexed
    <2>0. Len(before) = Total(T)
        BY <1>2, <2>1
    <2>3. ASSUME NEW r \in 1..Len(T), NEW j \in 1..T[r].final_mult
          PROVE  A[T[r].dst_idx + j] = r
        <3> DEFINE k == T[r].dst_idx + j
        <3>1. k \in 1..Len(before) /\ NewRows("expand_copy", before)[k].original_index = r - 1
            BY <1>2, <1>7, <2>0, <2>1, <2>2, CopiesFill
        <3>2. r \in Int
            OBVIOUS
        <3> HIDE DEF k
        <3>3. A[k] = (r - 1) + 1
            BY <1>6, <3>1
        <3> QED
            BY <3>2, <3>3 DEF k
    <2>4. A = Service!Expansion(counts)
        BY <1>2, <1>3, <1>5, <2>1, <2>2, <2>3, BlocksAreExpansion
    <2> QED
        BY <2>4 DEF MayAnswer, A
<1>8. CASE lost /\ Len(before) = 1 /\ Known(before, counts)
    <2> DEFINE r == before[1].original_index + 1
    <2>1. 1 \in 1..Len(before) /\ NewRows("expand_copy", before)[1] = before[1]
        <3>1. 1 \in 1..Len(before)
            BY <1>8
        <3>2. IsSeq(before)
            BY <1>2
        <3> QED
            BY ONLY <3>1, <3>2, CopyRows
    <2>2. A[1] = r /\ r \in {0} \cup DOMAIN counts
        BY <1>3, <1>6, <1>8, <2>1 DEF Known
    <2> HIDE DEF r
    <2>3. A = <<r>>
        BY <1>5, <1>8, <2>2 DEF IsSeq
    <2> QED
        BY <1>8, <2>2, <2>3 DEF MayAnswer, A
<1>9. CASE lost /\ Len(before) >= 2 /\ Unflushed
    <2>1. i = 1
        BY <1>1, <1>9 DEF Unflushed
    <2> QED
        BY <1>2, <1>9, <2>1
<1> QED
    BY <1>7, <1>8, <1>9 DEF RowInv

(* An output of no rows is what rows without copies expand to. *)
LEMMA NoRowsAnswer ==
    ASSUME IInv, RowInv, ObtainOutputSize, pc' = "done"
    PROVE  MayAnswer(Answered(table'))
<1>1. pc = "size" /\ table' = <<>> /\ (~lost => Total(table) = 0)
    BY DEF ObtainOutputSize, Total
<1>2. Answered(table') = <<>>
    BY <1>1 DEF Answered
<1>3. CASE lost
    BY <1>2, <1>3 DEF MayAnswer
<1>4. CASE ~lost
    <2>1. /\ IsSeq(table) /\ Indexed(table, counts) /\ Summed(table)
          /\ \A r \in 1..Len(table) : NatRow(table[r])
        BY <1>1 DEF IInv, RowInv, Fresh, Indexed
    <2>2. Len(counts) \in Nat \ {0} /\ counts \in [1..Len(counts) -> Nat]
        BY CountsAssumption DEF RowInv
    <2>3. Len(table) >= 1
        BY <2>1, <2>2 DEF Indexed
    <2>4. ASSUME NEW r \in 1..Len(table) PROVE table[r].final_mult = 0
        <3> DEFINE d == table[r].dst_idx
                   m == table[r].final_mult
        <3>1. d \in Nat /\ m \in Nat /\ d + m <= 0
            BY <1>1, <1>4, <2>1, <2>3, SumsGrow DEF NatRow
        <3> HIDE DEF d, m
        <3>2. m = 0
            BY ONLY <3>1
        <3> QED
            BY <3>2 DEF m
    <2> DEFINE A == <<>>
    <2>5. IsSeq(A) /\ Len(A) = Total(table)
        BY <1>1, <1>4 DEF IsSeq
    <2>6. \A r \in 1..Len(table) : \A j \in 1..table[r].final_mult : A[table[r].dst_idx + j] = r
        BY <2>4
    <2> HIDE DEF A
    <2>7. A = Service!Expansion(counts)
        BY <2>1, <2>2, <2>5, <2>6, BlocksAreExpansion
    <2> QED
        BY <1>2, <2>7 DEF MayAnswer, A
<1> QED
    BY <1>3, <1>4

(* A step of the call, as the service sees it. *)
LEMMA StepsServe ==
    ASSUME pc \notin {"done", "thrown"}, UNCHANGED counts
    PROVE  /\ pc' \notin {"done", "thrown"} /\ UNCHANGED lost => UNCHANGED Service!vars
           /\ pc' = "done" /\ UNCHANGED lost /\ MayAnswer(Answered(table')) => Service!Answer
           /\ pc' = "thrown" /\ UNCHANGED lost /\ lost => Service!Fail
           /\ pc' \notin {"done", "thrown"} /\ ~lost /\ lost' = TRUE => Service!Lose
<1>1. pc' \notin {"done", "thrown"} /\ UNCHANGED lost => UNCHANGED Service!vars
    BY DEF Service!vars
<1>2. pc' = "done" /\ UNCHANGED lost /\ MayAnswer(Answered(table')) => Service!Answer
    BY DEF Service!Answer, MayAnswer, Answered
<1>3. pc' = "thrown" /\ UNCHANGED lost /\ lost => Service!Fail
    BY DEF Service!Fail
<1>4. pc' \notin {"done", "thrown"} /\ ~lost /\ lost' = TRUE => Service!Lose
    BY DEF Service!Lose
<1> QED
    BY <1>1, <1>2, <1>3, <1>4

LEMMA NextServes == IInv /\ RowInv /\ [Next]_vars => [Service!Next]_(Service!vars)
<1> SUFFICES ASSUME IInv, RowInv, [Next]_vars PROVE [Service!Next]_(Service!vars)
    OBVIOUS
<1>1. CASE PassTurn
    <2>1. /\ pc \notin {"done", "thrown"} /\ UNCHANGED <<counts, lost>>
          /\ pc' = pc \/ (pc' = "thrown" /\ lost)
        BY <1>1 DEF PassTurn, Passes
    <2> QED
        BY <2>1, StepsServe DEF Service!Next
<1>2. CASE PassEnd
    <2>1. /\ pc \notin {"done", "thrown"} /\ UNCHANGED <<counts, lost>>
          /\ pc' # "thrown" \/ lost
        BY <1>2 DEF PassEnd, Passes, After
    <2>2. pc' # "thrown" /\ pc = "expand_copy" => pc' = "done" /\ MayAnswer(Answered(table'))
        BY <1>2, LastPassAnswers DEF PassEnd, After
    <2>3. pc' # "thrown" /\ pc # "expand_copy" => pc' \notin {"done", "thrown"}
        BY <1>2 DEF PassEnd, Passes, After
    <2> QED
        BY <2>1, <2>2, <2>3, StepsServe DEF Service!Next
<1>3. CASE ObtainOutputSize
    <2>1. pc \notin {"done", "thrown"} /\ UNCHANGED <<counts, lost>> /\ pc' \in {"done", "mark"}
        BY <1>3 DEF ObtainOutputSize
    <2>2. pc' = "done" => MayAnswer(Answered(table'))
        BY <1>3, NoRowsAnswer
    <2> QED
        BY <2>1, <2>2, StepsServe DEF Service!Next
<1>4. CASE Sort \/ SortFails
    <2>1. /\ pc \notin {"done", "thrown"} /\ UNCHANGED counts
          /\ \/ pc' \notin {"done", "thrown"} /\ (UNCHANGED lost \/ (~lost /\ lost' = TRUE))
             \/ pc' = "thrown" /\ lost /\ UNCHANGED lost
        BY <1>4 DEF Sort, SortFails
    <2> QED
        BY <2>1, StepsServe DEF Service!Next
<1>5. CASE DistributeStart \/ DistributeStep \/ DistributeEnd
    <2>1. /\ pc \notin {"done", "thrown"} /\ UNCHANGED <<counts, lost>>
          /\ pc' \in {"expand_copy", "aks"}
        BY <1>5 DEF DistributeStart, DistributeStep, DistributeEnd
    <2> QED
        BY <2>1, StepsServe DEF Service!Next
<1>6. CASE EnclaveLost
    <2>1. pc \notin {"done", "thrown"} /\ UNCHANGED <<counts, pc>> /\ ~lost /\ lost' = TRUE
        BY <1>6 DEF EnclaveLost
    <2> QED
        BY <2>1, StepsServe DEF Service!Next
<1>7. CASE Ended \/ UNCHANGED vars
    <2>1. UNCHANGED <<table, pc, lost, counts>>
        BY <1>7 DEF Ended, vars
    <2>2. UNCHANGED Service!vars
        BY <2>1 DEF Service!vars
    <2> QED
        BY <2>2
<1> QED
    BY <1>1, <1>2, <1>3, <1>4, <1>5, <1>6, <1>7 DEF Next, Advance

(* For every table, size of batch and of buffer: the expansion answers     *)
(* with every row final_mult times in order, or throws, and the loss of    *)
(* the enclave shows in nothing but that it throws or answers with a row   *)
(* or none.  (That it ends is left to the runs.)                           *)
THEOREM ExpansionIsCorrect == Spec => Service!Init /\ [][Service!Next]_(Service!vars)
<1>1. Init => Service!Init
    BY DEF Init, Service!Init
<1> QED
    BY <1>1, InitIInv, InitRows, NextKeepsIInv, NextKeepsRows, NextServes, PTL DEF Spec

=============================================================================
