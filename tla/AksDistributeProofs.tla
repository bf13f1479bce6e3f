------------------------ MODULE AksDistributeProofs -------------------------
(***************************************************************************)
(* Proofs about AksDistribute, for every size of the array and of the      *)
(* enclave's buffer: how the calls divide the array among themselves, that *)
(* no row comes out as it went in, unencrypted, and that every row reaches *)
(* the slot that its destination names.                                    *)
(***************************************************************************)
EXTENDS AksDistribute, BatchOpsProofs, FiniteSetTheorems

-----------------------------------------------------------------------------
(* Powers of two, as the loop of aks_pow2_lt makes them. *)

IsDoubling(p, m) == p = [e \in 0..m |-> IF e = 0 THEN 1 ELSE 2 * p[e - 1]]

(* The recursion of Doublings has a solution. *)
LEMMA DoublingExists ==
    ASSUME NEW m \in Nat
    PROVE  \E p : IsDoubling(p, m)
<1> DEFINE T == {x \in Nat : ~ \E p : IsDoubling(p, x)}
<1>1. 0 \notin T
    <2>1. IsDoubling([e \in 0..0 |-> 1], 0)
        BY DEF IsDoubling
    <2> QED
        BY <2>1
<1>2. ASSUME NEW x \in 1..m, x - 1 \notin T PROVE x \notin T
    <2>1. PICK old : IsDoubling(old, x - 1)
        BY <1>2
    <2> DEFINE new == [e \in 0..x |-> IF e = x THEN 2 * old[x - 1] ELSE old[e]]
    <2>2. \A e \in 0..x : e # x => new[e] = old[e]
        OBVIOUS
    <2>3. ASSUME NEW e \in 0..x PROVE new[e] = IF e = 0 THEN 1 ELSE 2 * new[e - 1]
        <3>1. CASE e = x
            BY <3>1, <2>2
        <3>2. CASE e # x
            <4>1. e \in 0..(x - 1) /\ (e # 0 => e - 1 \in 0..x /\ e - 1 # x)
                BY <3>2
            <4>2. old[e] = IF e = 0 THEN 1 ELSE 2 * old[e - 1]
                BY <2>1, <4>1 DEF IsDoubling
            <4> HIDE DEF new
            <4> QED
                BY <2>2, <3>2, <4>1, <4>2
        <3> QED
            BY <3>1, <3>2
    <2>4. new = [e \in 0..x |-> new[e]]
        OBVIOUS
    <2>5. IsDoubling(new, x)
        <3> HIDE DEF new
        <3> QED
            BY <2>3, <2>4 DEF IsDoubling
    <2> QED
        BY <2>5
<1>3. \A n \in 0..m : n \notin T
    <2> HIDE DEF T
    <2> QED
        BY <1>1, <1>2, UpTo
<1> QED
    BY <1>3

(* The loop doubles, and so outgrows the number of its turns.              *)
LEMMA DoublingsGrow ==
    ASSUME NEW m \in Nat
    PROVE  /\ Doublings(m)[0] = 1
           /\ \A e \in 1..m : Doublings(m)[e] = 2 * Doublings(m)[e - 1]
           /\ \A e \in 0..m : Doublings(m)[e] \in Nat /\ Doublings(m)[e] > e
<1> DEFINE p == Doublings(m)
           T == {e \in Nat : ~(p[e] \in Nat /\ p[e] > e)}
<1>1. IsDoubling(p, m)
    <2>1. p = CHOOSE q : IsDoubling(q, m)
        BY DEF Doublings, IsDoubling
    <2> QED
        BY <2>1, DoublingExists
<1> HIDE DEF p
<1>2. p[0] = 1 /\ \A e \in 1..m : p[e] = 2 * p[e - 1]
    BY <1>1 DEF IsDoubling
<1>3. 0 \notin T
    BY <1>2
<1>4. ASSUME NEW e \in 1..m, e - 1 \notin T PROVE e \notin T
    <2>1. p[e - 1] \in Nat /\ p[e - 1] > e - 1 /\ p[e] = 2 * p[e - 1]
        BY <1>2, <1>4
    <2> QED
        BY <2>1
<1>5. \A e \in 0..m : e \notin T
    <2> HIDE DEF T
    <2> QED
        BY <1>3, <1>4, UpTo
<1> QED
    BY <1>2, <1>5 DEF p

Power(x) == \E m \in Nat : \E e \in 0..m : x = Doublings(m)[e]

(* A power above one is twice another. *)
LEMMA HalfOfPower ==
    ASSUME NEW x, Power(x)
    PROVE  /\ x \in Nat \ {0}
           /\ x # 1 => /\ x \div 2 \in Nat /\ x = 2 * (x \div 2) /\ Power(x \div 2)
<1>0. PICK m \in Nat : \E e \in 0..m : x = Doublings(m)[e]
    BY DEF Power
<1>1. PICK e \in 0..m : x = Doublings(m)[e]
    BY <1>0
<1> DEFINE p == Doublings(m)
<1>2. /\ p[0] = 1 /\ \A d \in 1..m : p[d] = 2 * p[d - 1]
      /\ \A d \in 0..m : p[d] \in Nat /\ p[d] > d
    BY DoublingsGrow
<1> HIDE DEF p
<1>3. x = p[e] /\ x \in Nat \ {0}
    BY <1>1, <1>2 DEF p
<1>4. ASSUME x # 1 PROVE x \div 2 \in Nat /\ x = 2 * (x \div 2) /\ Power(x \div 2)
    <2>1. e \in 1..m /\ e - 1 \in 0..m
        BY <1>2, <1>3, <1>4
    <2>2. p[e - 1] \in Nat /\ x = 2 * p[e - 1]
        BY <1>2, <1>3, <2>1
    <2>3. x \div 2 = p[e - 1]
        BY <2>2
    <2> QED
        BY <2>1, <2>2, <2>3 DEF Power, p
<1> QED
    BY <1>3, <1>4

(* aks_pow2_lt finds the largest power of two below n. *)
LEMMA LargestPower ==
    ASSUME NEW n \in Nat, n >= 2
    PROVE  /\ aks_pow2_lt(n) \in Nat \ {0} /\ Power(aks_pow2_lt(n))
           /\ aks_pow2_lt(n) < n /\ n <= 2 * aks_pow2_lt(n)
<1> DEFINE p == Doublings(n)
           T == {e \in 0..n : p[e] >= n}
           last == CHOOSE e \in 0..n : p[e] >= n /\ \A d \in 0..(e - 1) : p[d] < n
<1>1. /\ p[0] = 1 /\ \A d \in 1..n : p[d] = 2 * p[d - 1]
      /\ \A d \in 0..n : p[d] \in Nat /\ p[d] > d
    BY DoublingsGrow
<1>2. aks_pow2_lt(n) = p[last] \div 2
    BY DEF aks_pow2_lt
<1>0. \A e \in 0..n : Power(p[e])
    BY DEF Power
<1> HIDE DEF p
<1>3. \E e \in 0..n : p[e] >= n /\ \A d \in 0..(e - 1) : p[d] < n
    <2>1. T \subseteq Nat /\ T # {}
        <3>1. n \in T
            BY <1>1
        <3> QED
            BY <3>1
    <2>2. PICK e \in T : \A d \in T : e <= d
        <3> HIDE DEF T
        <3> QED
            BY <2>1, Smallest
    <2>3. ASSUME NEW d \in 0..(e - 1) PROVE p[d] < n
        <3>1. d \in 0..n /\ d \notin T
            BY <2>2
        <3> QED
            BY <1>1, <3>1
    <2> QED
        BY <2>2, <2>3
<1>4. last \in 0..n /\ p[last] >= n /\ \A d \in 0..(last - 1) : p[d] < n
    BY <1>3
<1> HIDE DEF last
<1>5. last \in 1..n /\ last - 1 \in 0..(last - 1) /\ last - 1 \in 0..n
    BY <1>1, <1>4
<1>6. p[last] = 2 * p[last - 1] /\ p[last - 1] \in Nat /\ p[last - 1] > last - 1 /\ p[last - 1] < n
    BY <1>1, <1>4, <1>5
<1>7. aks_pow2_lt(n) = p[last - 1]
    BY <1>2, <1>6
<1> QED
    BY <1>0, <1>4, <1>5, <1>6, <1>7

-----------------------------------------------------------------------------
(* The stack of calls. *)

(* A sequence whose elements lie in a set is a sequence over that set. *)
LEMMA SeqOfElements ==
    ASSUME NEW s, IsSeq(s), NEW S, \A j \in 1..Len(s) : s[j] \in S
    PROVE  s \in Seq(S)
<1>1. s \in [1..Len(s) -> S] /\ Len(s) \in Nat
    BY DEF IsSeq
<1> QED
    BY <1>1

(* The calls that are left when the first has returned. *)
LEMMA TailOfSeq ==
    ASSUME NEW s, IsSeq(s), s # <<>>
    PROVE  /\ Len(s) >= 1 /\ Head(s) = s[1]
           /\ IsSeq(Tail(s)) /\ Len(Tail(s)) = Len(s) - 1
           /\ \A j \in 1..(Len(s) - 1) : Tail(s)[j] = s[j + 1]
<1> DEFINE S == {s[j] : j \in 1..Len(s)}
<1>1. s \in Seq(S)
    <2>1. \A j \in 1..Len(s) : s[j] \in S
        OBVIOUS
    <2> HIDE DEF S
    <2> QED
        BY <2>1, SeqOfElements
<1> HIDE DEF S
<1>2. /\ Tail(s) \in Seq(S) /\ Len(Tail(s)) = Len(s) - 1 /\ Len(s) \in Nat \ {0}
      /\ \A j \in 1..(Len(s) - 1) : Tail(s)[j] = s[j + 1]
    BY <1>1, HeadTailProperties, EmptySeq, LenProperties
<1>3. Tail(s) = [j \in 1..(Len(s) - 1) |-> Tail(s)[j]]
    BY <1>2, LenProperties
<1>4. Head(s) = s[1]
    OBVIOUS
<1> QED
    BY <1>2, <1>3, <1>4 DEF IsSeq

(* u is s with a and b in front. *)
InFront(a, b, s, u) ==
    /\ IsSeq(u) /\ Len(u) = Len(s) + 2 /\ u[1] = a /\ u[2] = b
    /\ \A j \in 1..Len(s) : u[j + 2] = s[j]

(* Two calls in front of the others. *)
LEMMA TwoInFront ==
    ASSUME NEW s, IsSeq(s), NEW a, NEW b, NEW u, u = <<a, b>> \o s
    PROVE  InFront(a, b, s, u)
<1> DEFINE S == {s[j] : j \in 1..Len(s)} \cup {a, b}
<1>1. s \in Seq(S) /\ <<a, b>> \in Seq(S)
    <2>1. \A j \in 1..Len(s) : s[j] \in S
        OBVIOUS
    <2>2. a \in S /\ b \in S
        OBVIOUS
    <2> HIDE DEF S
    <2> QED
        BY <2>1, <2>2, SeqOfElements
<1> HIDE DEF S
<1>2. /\ u \in Seq(S) /\ Len(u) = 2 + Len(s) /\ Len(s) \in Nat
      /\ \A j \in 1..(2 + Len(s)) : u[j] = IF j <= 2 THEN <<a, b>>[j] ELSE s[j - 2]
    BY <1>1, ConcatProperties, LenProperties
<1>3. u[1] = a /\ u[2] = b /\ \A j \in 1..Len(s) : u[j + 2] = s[j]
    BY <1>2
<1>4. u = [j \in 1..Len(u) |-> u[j]]
    BY <1>2, LenProperties
<1> QED
    BY <1>2, <1>3, <1>4 DEF IsSeq, InFront

-----------------------------------------------------------------------------
(* How a call divides its part. *)

(* What every pending call satisfies: a part that rotates is a power of    *)
(* two wide, and the swap of a single pair has not begun before it ends.   *)
CallOK(c) ==
    /\ c.kind \in {"inner", "2power"} /\ c.phase \in {"scan", "swap"}
    /\ c.offset \in Nat /\ c.n \in Nat
    /\ c.kind = "2power" => Power(c.n)
    /\ c.phase = "swap" /\ Pairs(c) = 1 => c.chunk = 0

(* The call has still to handle slot j. *)
Handles(c, j) == c.n >= 2 /\ j - c.offset \in 1..c.n

(* The two parts of a divided call meet and fill it. *)
LEMMA PartsFill ==
    ASSUME NEW c, CallOK(c), c.n > 2
    PROVE  /\ Gap(c) \in Nat /\ Gap(c) >= 2 /\ Power(Gap(c))
           /\ Pairs(c) \in Nat /\ Pairs(c) >= 1 /\ Pairs(c) <= Gap(c) /\ Pairs(c) + Gap(c) = c.n
           /\ c.kind = "2power" => Pairs(c) = Gap(c)
<1>0. c.n \in Nat /\ c.kind \in {"inner", "2power"}
    BY DEF CallOK
<1>1. CASE c.kind = "inner"
    <2>1. /\ aks_pow2_lt(c.n) \in Nat \ {0} /\ Power(aks_pow2_lt(c.n))
          /\ aks_pow2_lt(c.n) < c.n /\ c.n <= 2 * aks_pow2_lt(c.n)
        <3>1. c.n >= 2
            BY <1>0
        <3> QED
            BY <1>0, <3>1, LargestPower
    <2>2. Gap(c) = aks_pow2_lt(c.n) /\ Pairs(c) = c.n - Gap(c)
        BY <1>1 DEF Gap, Pairs
    <2> QED
        BY <1>0, <1>1, <2>1, <2>2
<1>2. CASE c.kind = "2power"
    <2>1. Power(c.n) /\ c.n # 1
        BY <1>0, <1>2 DEF CallOK
    <2>2. c.n \div 2 \in Nat /\ c.n = 2 * (c.n \div 2) /\ Power(c.n \div 2)
        BY <2>1, HalfOfPower
    <2> DEFINE half == c.n \div 2
    <2>3. Gap(c) = half /\ Pairs(c) = c.n - half
        BY <1>2 DEF Gap, Pairs
    <2>4. half \in Nat /\ c.n = 2 * half /\ Power(half)
        BY <2>2
    <2> HIDE DEF half
    <2>5. half >= 2 /\ c.n - half = half
        BY <1>0, <2>4
    <2> QED
        BY <1>0, <2>3, <2>4, <2>5
<1> QED
    BY <1>0, <1>1, <1>2

CallOn(c, offset, n) == CallOK(c) /\ c.offset = offset /\ c.n = n

(* A call as it is made is a call as it must be. *)
LEMMA NewCall ==
    ASSUME NEW kind \in {"inner", "2power"}, NEW offset \in Nat, NEW first, NEW ofs, NEW n \in Nat,
           kind = "2power" => Power(n)
    PROVE  CallOn(Call(kind, offset, first, ofs, n), offset, n)
BY DEF CallOn, CallOK, Call

(* The calls that a call makes are calls like it, and each slot of its     *)
(* part is handled by one of them, but for the one slot of a part too      *)
(* small to be handled any more.                                           *)
LEMMA SubcallsDivide ==
    ASSUME NEW c, CallOK(c), c.n > 2
    PROVE  \E a, b : /\ Subcalls(c) = <<a, b>> /\ CallOK(a) /\ CallOK(b)
                     /\ \A j \in Int : Handles(c, j) =>
                           \/ Handles(a, j) \/ Handles(b, j)
                           \/ Pairs(c) = 1 /\ j = c.offset + 1
<1>1. /\ Gap(c) \in Nat /\ Gap(c) >= 2 /\ Power(Gap(c))
      /\ Pairs(c) \in Nat /\ Pairs(c) >= 1 /\ Pairs(c) <= Gap(c) /\ Pairs(c) + Gap(c) = c.n
      /\ c.kind = "2power" => Pairs(c) = Gap(c)
    BY PartsFill
<1>2. c.offset \in Nat /\ c.n \in Nat /\ c.kind \in {"inner", "2power"}
    BY DEF CallOK
<1>4. ASSUME NEW a, NEW b, CallOK(a), CallOK(b), Subcalls(c) = <<a, b>>,
             \/ /\ a.offset = c.offset /\ a.n = Pairs(c)
                /\ b.offset = c.offset + Pairs(c) /\ b.n = Gap(c)
             \/ /\ b.offset = c.offset /\ b.n = Pairs(c)
                /\ a.offset = c.offset + Pairs(c) /\ a.n = Gap(c)
      PROVE  \A j \in Int : Handles(c, j) =>
                \/ Handles(a, j) \/ Handles(b, j)
                \/ Pairs(c) = 1 /\ j = c.offset + 1
    BY <1>1, <1>2, <1>4 DEF Handles
<1>5. CASE c.kind = "inner"
    <2> DEFINE a == Call("inner", c.offset, c.index_start, 0, Pairs(c))
               b == Call("2power", c.offset + Pairs(c), c.index_start + Pairs(c),
                         (Gap(c) - Pairs(c) + c.m2) % Gap(c), Gap(c))
    <2>1. Subcalls(c) = <<a, b>>
        BY <1>5 DEF Subcalls
    <2>0. c.offset + Pairs(c) \in Nat
        BY <1>1, <1>2
    <2>2. CallOn(a, c.offset, Pairs(c))
        BY <1>1, <1>2, NewCall
    <2>3. CallOn(b, c.offset + Pairs(c), Gap(c))
        BY <1>1, <2>0, NewCall
    <2> HIDE DEF a, b
    <2> QED
        BY <1>4, <2>1, <2>2, <2>3 DEF CallOn
<1>6. CASE c.kind = "2power"
    <2> DEFINE a == Call("2power", c.offset + Gap(c), c.index_start + Gap(c),
                         (c.ofs + c.m2) % Gap(c), Gap(c))
               b == Call("2power", c.offset, c.index_start, c.ofs % Gap(c), Gap(c))
    <2>1. Subcalls(c) = <<a, b>>
        BY <1>6 DEF Subcalls
    <2>0. c.offset + Gap(c) \in Nat /\ Pairs(c) = Gap(c)
        BY <1>1, <1>2, <1>6
    <2>2. CallOn(a, c.offset + Gap(c), Gap(c))
        BY <1>1, <2>0, NewCall
    <2>3. CallOn(b, c.offset, Gap(c))
        BY <1>1, <1>2, NewCall
    <2> HIDE DEF a, b
    <2> QED
        BY <1>4, <2>0, <2>1, <2>2, <2>3 DEF CallOn
<1> QED
    BY <1>2, <1>5, <1>6

-----------------------------------------------------------------------------
(* No row is left as it came. *)

(* Each slot has been encrypted or is still to be handled. *)
Guarded(j) ==
    entries[j].is_encrypted = TRUE \/ \E s \in 1..Len(stack) : Handles(stack[s], j)

NoSlotForgotten ==
    /\ IsSeq(stack) /\ \A s \in 1..Len(stack) : CallOK(stack[s])
    /\ IsSeq(entries) /\ \A j \in 1..Len(entries) : Guarded(j)

(* What the enclave writes back is encrypted. *)
LEMMA EncryptedIs == \A e : Encrypted(e).is_encrypted = TRUE
BY DEF Encrypted, WithFlag, Row

(* The first call returns: what it had to handle must be done. *)
LEMMA CallReturns ==
    ASSUME NoSlotForgotten, stack # <<>>, stack' = Tail(stack),
           IsSeq(entries'), Len(entries') = Len(entries),
           \A j \in 1..Len(entries) :
               /\ entries[j].is_encrypted = TRUE => entries'[j].is_encrypted = TRUE
               /\ Handles(stack[1], j) => entries'[j].is_encrypted = TRUE
    PROVE  NoSlotForgotten'
<1>1. /\ IsSeq(stack) /\ Len(stack) \in Nat /\ \A s \in 1..Len(stack) : CallOK(stack[s])
      /\ \A j \in 1..Len(entries) : Guarded(j)
    BY DEF NoSlotForgotten, IsSeq
<1>2. /\ Len(stack) >= 1 /\ IsSeq(stack') /\ Len(stack') = Len(stack) - 1
      /\ \A s \in 1..(Len(stack) - 1) : stack'[s] = stack[s + 1]
    BY <1>1, TailOfSeq
<1>3. \A s \in 1..Len(stack') : CallOK(stack'[s])
    <2>1. \A s \in 1..(Len(stack) - 1) : s + 1 \in 1..Len(stack)
        BY <1>1
    <2> QED
        BY <1>1, <1>2, <2>1
<1>4. ASSUME NEW j \in 1..Len(entries)
      PROVE  entries'[j].is_encrypted = TRUE \/ \E s \in 1..Len(stack') : Handles(stack'[s], j)
    <2>1. CASE entries[j].is_encrypted = TRUE
        BY <2>1
    <2>2. CASE \E s \in 1..Len(stack) : Handles(stack[s], j)
        <3>1. PICK s \in 1..Len(stack) : Handles(stack[s], j)
            BY <2>2
        <3>2. CASE s = 1
            BY <3>1, <3>2
        <3>3. CASE s # 1
            <4>1. s - 1 \in 1..(Len(stack) - 1) /\ (s - 1) + 1 = s
                BY <1>1, <3>3
            <4>2. stack'[s - 1] = stack[s]
                BY <1>2, <4>1
            <4> QED
                BY <1>2, <3>1, <4>1, <4>2
        <3> QED
            BY <3>2, <3>3
    <2> QED
        BY <1>1, <2>1, <2>2 DEF Guarded
<1> QED
    BY <1>2, <1>3, <1>4 DEF NoSlotForgotten, Guarded

(* The first call goes on: it is still the call that it was. *)
LEMMA CallAdvances ==
    ASSUME NoSlotForgotten, stack # <<>>, NEW c, stack' = [stack EXCEPT ![1] = c], CallOK(c),
           c.offset = stack[1].offset, c.n = stack[1].n,
           IsSeq(entries'), Len(entries') = Len(entries),
           \A j \in 1..Len(entries) :
               entries[j].is_encrypted = TRUE => entries'[j].is_encrypted = TRUE
    PROVE  NoSlotForgotten'
<1>1. /\ IsSeq(stack) /\ Len(stack) \in Nat /\ \A s \in 1..Len(stack) : CallOK(stack[s])
      /\ \A j \in 1..Len(entries) : Guarded(j)
    BY DEF NoSlotForgotten, IsSeq
<1>2. stack = [s \in 1..Len(stack) |-> stack[s]] /\ Len(stack) >= 1
    BY <1>1, TailOfSeq DEF IsSeq
<1>3. stack' = [s \in 1..Len(stack) |-> IF s = 1 THEN c ELSE stack[s]]
    BY <1>2
<1>4. Len(stack') = Len(stack)
    BY <1>1, <1>3
<1>5. IsSeq(stack')
    BY <1>1, <1>3, <1>4 DEF IsSeq
<1>6. \A s \in 1..Len(stack) : stack'[s] = IF s = 1 THEN c ELSE stack[s]
    BY <1>3
<1>7. \A s \in 1..Len(stack') : CallOK(stack'[s])
    BY <1>1, <1>4, <1>6
<1>8. \A s \in 1..Len(stack) : \A j : Handles(stack[s], j) => Handles(stack'[s], j)
    BY <1>6 DEF Handles
<1>9. ASSUME NEW j \in 1..Len(entries)
      PROVE  entries'[j].is_encrypted = TRUE \/ \E s \in 1..Len(stack') : Handles(stack'[s], j)
    BY <1>1, <1>4, <1>8 DEF Guarded
<1> QED
    BY <1>5, <1>7, <1>9 DEF NoSlotForgotten, Guarded

(* The first call makes its own calls: they handle what it had to handle,  *)
(* and what they do not is done.                                           *)
LEMMA CallDivides ==
    ASSUME NoSlotForgotten, stack # <<>>, NEW a, NEW b, stack' = <<a, b>> \o Tail(stack),
           CallOK(a), CallOK(b),
           IsSeq(entries'), Len(entries') = Len(entries),
           \A j \in 1..Len(entries) :
               /\ entries[j].is_encrypted = TRUE => entries'[j].is_encrypted = TRUE
               /\ Handles(stack[1], j) =>
                      Handles(a, j) \/ Handles(b, j) \/ entries'[j].is_encrypted = TRUE
    PROVE  NoSlotForgotten'
<1>1. /\ IsSeq(stack) /\ Len(stack) \in Nat /\ \A s \in 1..Len(stack) : CallOK(stack[s])
      /\ \A j \in 1..Len(entries) : Guarded(j)
    BY DEF NoSlotForgotten, IsSeq
<1> DEFINE rest == Tail(stack)
<1>2. /\ Len(stack) >= 1 /\ IsSeq(rest) /\ Len(rest) = Len(stack) - 1
      /\ \A s \in 1..(Len(stack) - 1) : rest[s] = stack[s + 1]
    BY <1>1, TailOfSeq
<1>0. stack' = <<a, b>> \o rest
    OBVIOUS
<1> HIDE DEF rest
<1>3. /\ IsSeq(stack') /\ Len(stack') = Len(rest) + 2 /\ stack'[1] = a /\ stack'[2] = b
      /\ \A s \in 1..Len(rest) : stack'[s + 2] = rest[s]
    <2>1. IsSeq(rest)
        BY <1>2
    <2>2. InFront(a, b, rest, stack')
        BY ONLY <1>0, <2>1, TwoInFront
    <2> QED
        BY <2>2 DEF InFront
<1>4. \A s \in 2..Len(stack) : s + 1 \in 1..Len(stack') /\ stack'[s + 1] = stack[s]
    <2> SUFFICES ASSUME NEW s \in 2..Len(stack)
                 PROVE  s + 1 \in 1..Len(stack') /\ stack'[s + 1] = stack[s]
        OBVIOUS
    <2>1. s - 1 \in 1..Len(rest) /\ (s - 1) + 1 = s /\ (s - 1) + 2 = s + 1
        BY <1>1, <1>2
    <2>2. rest[s - 1] = stack[s]
        BY <1>2, <2>1
    <2>3. stack'[(s - 1) + 2] = rest[s - 1]
        BY <1>3, <2>1
    <2> QED
        BY <1>1, <1>2, <1>3, <2>1, <2>2, <2>3
<1>5. ASSUME NEW s \in 1..Len(stack') PROVE CallOK(stack'[s])
    <2>1. CASE s \in {1, 2}
        BY <1>3, <2>1
    <2>2. CASE s \notin {1, 2}
        <3>1. s - 1 \in 2..Len(stack) /\ (s - 1) + 1 = s /\ s - 1 \in 1..Len(stack)
            BY <1>1, <1>2, <1>3, <2>2
        <3>2. stack'[(s - 1) + 1] = stack[s - 1]
            BY <1>4, <3>1
        <3> QED
            BY <1>1, <3>1, <3>2
    <2> QED
        BY <2>1, <2>2
<1>6. ASSUME NEW j \in 1..Len(entries)
      PROVE  entries'[j].is_encrypted = TRUE \/ \E s \in 1..Len(stack') : Handles(stack'[s], j)
    <2>0. 1 \in 1..Len(stack') /\ 2 \in 1..Len(stack')
        BY <1>1, <1>2, <1>3
    <2>1. CASE entries[j].is_encrypted = TRUE
        BY <2>1
    <2>2. CASE \E s \in 1..Len(stack) : Handles(stack[s], j)
        <3>1. PICK s \in 1..Len(stack) : Handles(stack[s], j)
            BY <2>2
        <3>2. CASE s = 1
            BY <1>3, <2>0, <3>1, <3>2
        <3>3. CASE s # 1
            <4>1. s \in 2..Len(stack)
                BY <1>1, <3>3
            <4>2. s + 1 \in 1..Len(stack') /\ stack'[s + 1] = stack[s]
                BY <1>4, <4>1
            <4> QED
                BY <3>1, <4>2
        <3> QED
            BY <3>2, <3>3
    <2> QED
        BY <1>1, <2>1, <2>2 DEF Guarded
<1> QED
    BY <1>3, <1>5, <1>6 DEF NoSlotForgotten, Guarded

(* A part that fits the buffer is written back whole, encrypted. *)
LEMMA BaseCaseForgetsNone == NoSlotForgotten /\ AksBaseCase => NoSlotForgotten'
<1> SUFFICES ASSUME NoSlotForgotten, AksBaseCase PROVE NoSlotForgotten'
    OBVIOUS
<1> DEFINE c == stack[1]
<1>1. /\ IsSeq(entries) /\ Len(entries) \in Nat /\ DOMAIN entries = 1..Len(entries)
      /\ IsSeq(stack) /\ stack # <<>> /\ stack' = Tail(stack)
    BY DEF NoSlotForgotten, IsSeq, AksBaseCase
<1>2. Head(stack) = c
    BY <1>1, TailOfSeq
<1>3. PICK done : entries' = [j \in DOMAIN entries |->
                                 IF j - c.offset \in 1..c.n THEN Encrypted(done[j - c.offset])
                                 ELSE entries[j]]
    <2> HIDE DEF c
    <2> QED
        BY <1>2 DEF AksBaseCase
<1> HIDE DEF c
<1>4. IsSeq(entries') /\ Len(entries') = Len(entries)
    BY <1>1, <1>3 DEF IsSeq
<1>5. ASSUME NEW j \in 1..Len(entries)
      PROVE  /\ entries[j].is_encrypted = TRUE => entries'[j].is_encrypted = TRUE
             /\ Handles(c, j) => entries'[j].is_encrypted = TRUE
    BY <1>1, <1>3, EncryptedIs DEF Handles
<1> QED
    BY <1>1, <1>4, <1>5, CallReturns DEF c

(* A call on one slot or none has nothing to handle. *)
LEMMA ReturnForgetsNone == NoSlotForgotten /\ AksReturn => NoSlotForgotten'
<1> SUFFICES ASSUME NoSlotForgotten, AksReturn PROVE NoSlotForgotten'
    OBVIOUS
<1>1. /\ IsSeq(stack) /\ stack # <<>> /\ stack' = Tail(stack) /\ Head(stack).n <= 1
      /\ entries' = entries /\ IsSeq(entries)
      /\ \A s \in 1..Len(stack) : CallOK(stack[s])
    BY DEF NoSlotForgotten, AksReturn
<1>2. Head(stack) = stack[1] /\ 1 \in 1..Len(stack)
    BY <1>1, TailOfSeq DEF IsSeq
<1>3. \A j : ~Handles(stack[1], j)
    BY <1>1, <1>2 DEF Handles, CallOK
<1> QED
    BY <1>1, <1>3, CallReturns

(* A scan only moves its call on. *)
LEMMA ScanForgetsNone == NoSlotForgotten /\ AksScan => NoSlotForgotten'
<1> SUFFICES ASSUME NoSlotForgotten, AksScan PROVE NoSlotForgotten'
    OBVIOUS
<1> DEFINE c == stack[1]
<1>1. /\ IsSeq(stack) /\ stack # <<>> /\ entries' = entries /\ IsSeq(entries)
      /\ \A s \in 1..Len(stack) : CallOK(stack[s])
    BY DEF NoSlotForgotten, AksScan
<1>2. Head(stack) = c /\ CallOK(c)
    BY <1>1, TailOfSeq DEF IsSeq
<1>3. PICK m2, next : \/ stack' = [stack EXCEPT ![1] = Advanced(c, "swap", 0, m2)]
                      \/ stack' = [stack EXCEPT ![1] = Advanced(c, "scan", next, m2)]
    <2> HIDE DEF c
    <2> QED
        BY <1>2 DEF AksScan
<1> HIDE DEF c
<1>4. \A m : CallOn(Advanced(c, "swap", 0, m), c.offset, c.n)
    BY <1>2 DEF CallOn, CallOK, Advanced, Pairs, Gap
<1>5. \A k, m : CallOn(Advanced(c, "scan", k, m), c.offset, c.n)
    BY <1>2 DEF CallOn, CallOK, Advanced, Pairs, Gap
<1>6. PICK d : stack' = [stack EXCEPT ![1] = d] /\ CallOn(d, c.offset, c.n)
    BY <1>3, <1>4, <1>5
<1> QED
    BY <1>1, <1>6, CallAdvances DEF CallOn, c

(* A chunk of the swap encrypts what it swaps; the only pair of a part     *)
(* that is swapped at once is encrypted with it.                           *)
LEMMA SwapForgetsNone == NoSlotForgotten /\ AksSwap => NoSlotForgotten'
<1> SUFFICES ASSUME NoSlotForgotten, AksSwap PROVE NoSlotForgotten'
    OBVIOUS
<1> DEFINE c    == stack[1]
           csz  == Least(AKS_BUFFER \div 2, Pairs(c) - c.chunk)
           from == c.offset + c.chunk
           both == {from + i : i \in 1..csz} \cup {from + Gap(c) + i : i \in 1..csz}
           done == SwapPairs(entries, from, Gap(c),
                             {i \in 0..(csz - 1) : PairSwaps(c, c.chunk + i)})
<1>1. /\ IsSeq(stack) /\ stack # <<>> /\ IsSeq(entries) /\ Len(entries) \in Nat
      /\ DOMAIN entries = 1..Len(entries)
      /\ \A s \in 1..Len(stack) : CallOK(stack[s])
    BY DEF NoSlotForgotten, AksSwap, IsSeq
<1>2. Head(stack) = c /\ CallOK(c)
    BY <1>1, TailOfSeq DEF IsSeq
<1>3. c.n > 2 /\ c.phase = "swap" /\ c.n \in Nat /\ c.offset \in Nat
    BY <1>2, AksBufferAssumption DEF AksSwap, CallOK
<1>4. /\ entries' = [j \in DOMAIN entries |-> IF j \in both THEN Encrypted(done[j]) ELSE entries[j]]
      /\ stack' = IF c.chunk + csz = Pairs(c) THEN Subcalls(c) \o Tail(stack)
                  ELSE [stack EXCEPT ![1] = Advanced(c, "swap", c.chunk + csz, c.m2)]
    <2>1. stack[1] = Head(stack)
        BY <1>2
    <2> QED
        BY <2>1 DEF AksSwap
<1> HIDE DEF done
<1>5. /\ IsSeq(entries') /\ Len(entries') = Len(entries)
      /\ \A j \in 1..Len(entries) :
            /\ entries[j].is_encrypted = TRUE => entries'[j].is_encrypted = TRUE
            /\ j \in both => entries'[j].is_encrypted = TRUE
    <2> HIDE DEF both
    <2>1. \A j \in 1..Len(entries) : entries'[j] = IF j \in both THEN Encrypted(done[j]) ELSE entries[j]
        BY <1>1, <1>4
    <2>2. DOMAIN entries' = 1..Len(entries) /\ entries' = [j \in 1..Len(entries) |-> entries'[j]]
        BY <1>1, <1>4
    <2>3. Len(entries') = Len(entries)
        BY <1>1, <2>2
    <2> QED
        BY <1>1, <2>1, <2>2, <2>3, EncryptedIs DEF IsSeq
<1>6. ASSUME Pairs(c) = 1 PROVE c.chunk + csz = Pairs(c) /\ c.offset + 1 \in both
    <2>1. c.chunk = 0
        BY <1>2, <1>3, <1>6 DEF CallOK
    <2>2. AKS_BUFFER \div 2 >= 1 /\ AKS_BUFFER \div 2 \in Nat
        BY AksBufferAssumption
    <2>3. csz = 1
        BY <1>6, <2>1, <2>2 DEF Least
    <2> HIDE DEF csz
    <2> QED
        BY <1>3, <1>6, <2>1, <2>3
<1> HIDE DEF both, csz
<1>7. CASE c.chunk + csz = Pairs(c)
    <2>1. PICK a, b : /\ Subcalls(c) = <<a, b>> /\ CallOK(a) /\ CallOK(b)
                      /\ \A j \in Int : Handles(c, j) =>
                            \/ Handles(a, j) \/ Handles(b, j)
                            \/ Pairs(c) = 1 /\ j = c.offset + 1
        <3> HIDE DEF c
        <3> QED
            BY <1>2, <1>3, SubcallsDivide
    <2>2. stack' = <<a, b>> \o Tail(stack)
        BY <1>4, <1>7, <2>1
    <2>3. \A j \in 1..Len(entries) :
             Handles(c, j) => Handles(a, j) \/ Handles(b, j) \/ entries'[j].is_encrypted = TRUE
        BY <1>5, <1>6, <2>1
    <2> QED
        BY <1>1, <1>5, <2>1, <2>2, <2>3, CallDivides
<1>8. CASE c.chunk + csz # Pairs(c)
    <2> DEFINE d == Advanced(c, "swap", c.chunk + csz, c.m2)
    <2>1. CallOn(d, c.offset, c.n)
        <3>1. Pairs(d) = Pairs(c) /\ Pairs(d) # 1
            BY <1>6, <1>8 DEF Advanced, Pairs, Gap
        <3> QED
            BY <1>2, <3>1 DEF CallOn, CallOK, Advanced
    <2>2. stack' = [stack EXCEPT ![1] = d]
        BY <1>4, <1>8
    <2> HIDE DEF d
    <2> QED
        BY <1>1, <1>5, <2>1, <2>2, CallAdvances DEF CallOn
<1> QED
    BY <1>7, <1>8

(* No step of the distribution forgets a slot: each is encrypted, or in    *)
(* the part of a call that is still to run.                                *)
LEMMA NoneForgotten == NoSlotForgotten /\ AksNext => NoSlotForgotten'
BY ReturnForgetsNone, BaseCaseForgetsNone, ScanForgetsNone, SwapForgetsNone DEF AksNext

-----------------------------------------------------------------------------
(* How a part is arranged before it is routed.  D gives the destination    *)
(* that each of the part's n slots holds, a number from top on, behind the *)
(* part, where the slot holds padding; first is the part's first slot.     *)

(* The place of slot p when slot ofs is counted as the first. *)
Rank(n, ofs, p) == IF p >= ofs THEN p - ofs ELSE p - ofs + n

(* The slot at a place. *)
At(n, ofs, r) == IF ofs + r < n THEN ofs + r ELSE ofs + r - n

(* The first m places from slot ofs on hold the rows, all of this part, in *)
(* the order of their destinations.                                        *)
Arranged(D, n, first, ofs, m, top) ==
    /\ ofs \in 0..(n - 1) /\ m \in 0..n /\ top \in Int /\ first + n <= top
    /\ \A p \in 0..(n - 1) :
          /\ D[p] \in Int
          /\ Rank(n, ofs, p) < m => first <= D[p] /\ D[p] < first + n
          /\ Rank(n, ofs, p) >= m => D[p] >= top
    /\ \A p, q \in 0..(n - 1) :
          Rank(n, ofs, p) < Rank(n, ofs, q) /\ Rank(n, ofs, q) < m => D[p] < D[q]

(* Places and slots are each other's inverse. *)
LEMMA RankAt ==
    ASSUME NEW n \in Nat, NEW ofs \in 0..(n - 1)
    PROVE  /\ \A r \in 0..(n - 1) : At(n, ofs, r) \in 0..(n - 1) /\ Rank(n, ofs, At(n, ofs, r)) = r
           /\ \A p \in 0..(n - 1) : Rank(n, ofs, p) \in 0..(n - 1) /\ At(n, ofs, Rank(n, ofs, p)) = p
BY DEF Rank, At

(* The numbers from a on and below b. *)
LEMMA RunOfNumbers ==
    ASSUME NEW a \in Int, NEW b \in Int, a <= b
    PROVE  IsFiniteSet(a..(b - 1)) /\ Cardinality(a..(b - 1)) = b - a
<1> DEFINE c == b - 1
<1>1. c \in Int
    OBVIOUS
<1>2. IsFiniteSet(a..c) /\ Cardinality(a..c) = IF a > c THEN 0 ELSE c - a + 1
    <2> HIDE DEF c
    <2> QED
        BY ONLY <1>1, a \in Int, FS_Interval
<1> QED
    BY <1>2

(* The rows that go below b are as many as the count says, they come       *)
(* first, and each side of b has room for its rows.                        *)
LEMMA CountIsRank ==
    ASSUME NEW n \in Nat, NEW first \in Int, NEW ofs, NEW m, NEW D, NEW top,
           Arranged(D, n, first, ofs, m, top), NEW b \in first..(first + n)
    PROVE  LET S == {p \in 0..(n - 1) : D[p] < b}
           IN  /\ IsFiniteSet(S) /\ Cardinality(S) \in 0..m
               /\ Cardinality(S) <= b - first /\ m - Cardinality(S) <= first + n - b
               /\ \A p \in 0..(n - 1) : D[p] < b <=> Rank(n, ofs, p) < Cardinality(S)
<1> DEFINE S == {p \in 0..(n - 1) : D[p] < b}
           T == {r \in 0..m : r = m \/ D[At(n, ofs, r)] >= b}
<1>1. ofs \in 0..(n - 1) /\ m \in 0..n /\ m \in Nat /\ top \in Int /\ first + n <= top
    BY DEF Arranged
<1>2. /\ \A r \in 0..(n - 1) : At(n, ofs, r) \in 0..(n - 1) /\ Rank(n, ofs, At(n, ofs, r)) = r
      /\ \A p \in 0..(n - 1) : Rank(n, ofs, p) \in 0..(n - 1) /\ At(n, ofs, Rank(n, ofs, p)) = p
    BY <1>1, RankAt
<1>3. PICK t \in T : \A r \in T : t <= r
    <2>1. T \subseteq Nat /\ m \in T
        BY <1>1
    <2> HIDE DEF T
    <2> QED
        BY <2>1, Smallest
<1>4. t \in 0..m
    OBVIOUS
<1>5. /\ \A p \in 0..(n - 1) : D[p] \in Int
      /\ \A p \in 0..(n - 1) : Rank(n, ofs, p) < m => first <= D[p] /\ D[p] < first + n
      /\ \A p \in 0..(n - 1) : Rank(n, ofs, p) >= m => D[p] >= top
      /\ \A p, q \in 0..(n - 1) :
            Rank(n, ofs, p) < Rank(n, ofs, q) /\ Rank(n, ofs, q) < m => D[p] < D[q]
    BY DEF Arranged
<1>6. ASSUME NEW p \in 0..(n - 1) PROVE D[p] < b <=> Rank(n, ofs, p) < t
    <2> DEFINE r == Rank(n, ofs, p)
    <2>0. r \in 0..(n - 1) /\ At(n, ofs, r) = p
        BY <1>2
    <2>1. ASSUME r < t PROVE D[p] < b
        <3>1. r \in 0..m /\ r \notin T
            BY <1>1, <1>3, <1>4, <2>0, <2>1
        <3> QED
            BY <1>5, <2>0, <3>1
    <2>2. ASSUME r >= t PROVE D[p] >= b
        <3>1. CASE r >= m
            BY <1>1, <1>5, <3>1
        <3>2. CASE r < m
            <4> DEFINE q == At(n, ofs, t)
            <4>1. t \in 0..(n - 1) /\ t < m /\ q \in 0..(n - 1) /\ Rank(n, ofs, q) = t
                BY <1>1, <1>2, <1>4, <2>0, <2>2, <3>2
            <4>2. D[q] >= b
                BY <4>1
            <4>3. CASE r = t
                BY <2>0, <4>2, <4>3
            <4>4. CASE r # t
                <5> HIDE DEF q
                <5>1. D[q] < D[p]
                    BY <1>1, <1>4, <1>5, <2>0, <2>2, <3>2, <4>1, <4>4
                <5> QED
                    BY <1>5, <4>1, <4>2, <5>1
            <4> QED
                BY <4>3, <4>4
        <3> QED
            BY <1>1, <2>0, <3>1, <3>2
    <2> QED
        BY <1>1, <1>4, <1>5, <2>0, <2>1, <2>2
<1>7. IsFiniteSet(S) /\ Cardinality(S) = t
    <2> DEFINE f == [r \in 0..(t - 1) |-> At(n, ofs, r)]
    <2>1. \A r \in 0..(t - 1) : r \in 0..(n - 1) /\ f[r] \in S
        BY <1>1, <1>2, <1>4, <1>6
    <2>2. \A r, s \in 0..(t - 1) : f[r] = f[s] => r = s
        BY <1>2, <2>1
    <2>3. \A p \in S : \E r \in 0..(t - 1) : f[r] = p
        <3> SUFFICES ASSUME NEW p \in S PROVE Rank(n, ofs, p) \in 0..(t - 1) /\ f[Rank(n, ofs, p)] = p
            OBVIOUS
        <3>1. p \in 0..(n - 1) /\ D[p] < b
            OBVIOUS
        <3>2. Rank(n, ofs, p) \in 0..(t - 1)
            BY <1>1, <1>2, <1>4, <1>6, <3>1
        <3> QED
            BY <1>2, <3>1, <3>2
    <2>4. f \in [0..(t - 1) -> S]
        BY <2>1
    <2> HIDE DEF f, S
    <2>5. f \in Bijection(0..(t - 1), S)
        BY <2>2, <2>3, <2>4 DEF Bijection, Injection, Surjection, IsInjective
    <2>6. IsFiniteSet(0..(t - 1)) /\ Cardinality(0..(t - 1)) = t
        <3>1. 0 \in Int /\ t \in Int /\ 0 <= t
            BY <1>1, <1>4
        <3> QED
            BY ONLY <3>1, RunOfNumbers
    <2> QED
        BY <2>5, <2>6, FS_Bijection DEF ExistsBijection
<1>8. \A r \in 0..(m - 1) : /\ At(n, ofs, r) \in 0..(n - 1) /\ D[At(n, ofs, r)] \in Int
                            /\ first <= D[At(n, ofs, r)] /\ D[At(n, ofs, r)] < first + n
                            /\ D[At(n, ofs, r)] < b <=> r < t
    <2> SUFFICES ASSUME NEW r \in 0..(m - 1)
                 PROVE  /\ At(n, ofs, r) \in 0..(n - 1) /\ D[At(n, ofs, r)] \in Int
                        /\ first <= D[At(n, ofs, r)] /\ D[At(n, ofs, r)] < first + n
                        /\ D[At(n, ofs, r)] < b <=> r < t
        OBVIOUS
    <2>1. r \in 0..(n - 1) /\ r < m
        BY <1>1
    <2> QED
        BY <1>2, <1>5, <1>6, <2>1
<1>9. \A r, s \in 0..(m - 1) : D[At(n, ofs, r)] = D[At(n, ofs, s)] => r = s
    <2> SUFFICES ASSUME NEW r \in 0..(m - 1), NEW s \in 0..(m - 1), r < s
                 PROVE  D[At(n, ofs, r)] < D[At(n, ofs, s)]
        BY <1>1, <1>8
    <2>1. r \in 0..(n - 1) /\ s \in 0..(n - 1) /\ s < m
        BY <1>1
    <2> QED
        BY <1>2, <1>5, <2>1
<1>10. t <= b - first
    <2> DEFINE g == [r \in 0..(t - 1) |-> D[At(n, ofs, r)]]
    <2>1. \A r \in 0..(t - 1) : r \in 0..(m - 1) /\ g[r] \in first..(b - 1)
        BY <1>1, <1>4, <1>8
    <2>2. \A r, s \in 0..(t - 1) : g[r] = g[s] => r = s
        BY <1>9, <2>1
    <2>3. g \in [0..(t - 1) -> first..(b - 1)]
        BY <2>1
    <2> HIDE DEF g
    <2>4. g \in Injection(0..(t - 1), first..(b - 1))
        BY <2>2, <2>3 DEF Injection, IsInjective
    <2>5. /\ IsFiniteSet(first..(b - 1)) /\ Cardinality(first..(b - 1)) = b - first
          /\ Cardinality(0..(t - 1)) = t
        <3>1. 0 \in Int /\ t \in Int /\ 0 <= t /\ b \in Int /\ first \in Int /\ first <= b
            BY <1>1, <1>4
        <3> QED
            BY ONLY <3>1, RunOfNumbers
    <2> QED
        BY <2>4, <2>5, FS_Injection
<1>11. m - t <= first + n - b
    <2> DEFINE g == [r \in t..(m - 1) |-> D[At(n, ofs, r)]]
    <2>1. \A r \in t..(m - 1) : r \in 0..(m - 1) /\ g[r] \in b..(first + n - 1)
        BY <1>1, <1>4, <1>8
    <2>2. \A r, s \in t..(m - 1) : g[r] = g[s] => r = s
        BY <1>9, <2>1
    <2>3. g \in [t..(m - 1) -> b..(first + n - 1)]
        BY <2>1
    <2> HIDE DEF g
    <2>4. g \in Injection(t..(m - 1), b..(first + n - 1))
        BY <2>2, <2>3 DEF Injection, IsInjective
    <2>5. /\ IsFiniteSet(b..(first + n - 1)) /\ Cardinality(b..(first + n - 1)) = first + n - b
          /\ Cardinality(t..(m - 1)) = m - t
        <3>1. /\ m \in Int /\ t \in Int /\ t <= m
              /\ b \in Int /\ first + n \in Int /\ b <= first + n
            BY <1>1, <1>4
        <3>2. IsFiniteSet(b..(first + n - 1)) /\ Cardinality(b..(first + n - 1)) = first + n - b
            <4> DEFINE end == first + n
            <4> HIDE DEF end
            <4>1. IsFiniteSet(b..(end - 1)) /\ Cardinality(b..(end - 1)) = end - b
                BY ONLY <3>1, RunOfNumbers DEF end
            <4> QED
                BY <4>1 DEF end
        <3>3. Cardinality(t..(m - 1)) = m - t
            BY ONLY <3>1, RunOfNumbers
        <3> QED
            BY <3>2, <3>3
    <2> QED
        BY <2>4, <2>5, FS_Injection
<1> HIDE DEF S, T
<1> QED
    BY <1>4, <1>6, <1>7, <1>10, <1>11 DEF S

-----------------------------------------------------------------------------
(* Where a swap sends the places. *)

(* What is left of a number below three times h. *)
LEMMA Remainder ==
    ASSUME NEW h \in Nat \ {0}, NEW x \in 0..(3 * h - 1)
    PROVE  x % h = IF x < h THEN x ELSE IF x < 2 * h THEN x - h ELSE x - 2 * h
<1> DEFINE q == x \div h
           r == x % h
<1>1. q \in Nat /\ r \in 0..(h - 1) /\ x = h * q + r
    OBVIOUS
<1> HIDE DEF q, r
<1>2. q < 3
    <2> SUFFICES ASSUME q >= 3 PROVE FALSE
        BY <1>1
    <2>1. h * (q - 3) >= 0 /\ h * q = 3 * h + h * (q - 3)
        BY <1>1
    <2> QED
        BY <1>1, <2>1
<1>3. q = 0 \/ q = 1 \/ q = 2
    BY <1>1, <1>2
<1>4. r = IF x < h THEN x ELSE IF x < 2 * h THEN x - h ELSE x - 2 * h
    <2>1. CASE q = 0
        <3>1. x = r
            BY <1>1, <2>1
        <3> QED
            BY <1>1, <3>1
    <2>2. CASE q = 1
        <3>1. x = h + r
            BY <1>1, <2>2
        <3> QED
            BY <1>1, <3>1
    <2>3. CASE q = 2
        <3>1. x = 2 * h + r
            BY <1>1, <2>3
        <3> QED
            BY <1>1, <3>1
    <2> QED
        BY <1>3, <2>1, <2>2, <2>3
<1> QED
    BY <1>4 DEF r

(* Slots below m2 of a cycle of h come from the same place, the others     *)
(* from the place a cycle further, whatever the rotation: the decision     *)
(* that each pair of halves makes, in distribute_2power.                   *)
LEMMA HalvesByRank ==
    ASSUME NEW h \in Nat \ {0}, NEW ofs \in 0..(2 * h - 1), NEW m2 \in 0..h, NEW p \in 0..(h - 1)
    PROVE  LET r    == Rank(h, ofs % h, p)
               left == IF r < m2 THEN r ELSE r + h
               rght == IF r < m2 THEN r + h ELSE r
           IN  /\ ofs % h \in 0..(h - 1) /\ (ofs + m2) % h \in 0..(h - 1)
               /\ Rank(2 * h, ofs, IF SwapsPair(ofs, m2, h, p) THEN p + h ELSE p) = left
               /\ Rank(2 * h, ofs, IF SwapsPair(ofs, m2, h, p) THEN p ELSE p + h) = rght
               /\ Rank(h, (ofs + m2) % h, p) = rght - m2
<1> DEFINE o == ofs % h
           e == (ofs + m2) % h
<1>1. o = IF ofs < h THEN ofs ELSE ofs - h
    <2>1. ofs \in 0..(3 * h - 1) /\ ofs < 2 * h
        OBVIOUS
    <2>2. ofs % h = IF ofs < h THEN ofs ELSE IF ofs < 2 * h THEN ofs - h ELSE ofs - 2 * h
        BY ONLY <2>1, h \in Nat \ {0}, Remainder
    <2> QED
        BY <2>1, <2>2
<1>2. e = IF ofs + m2 < h THEN ofs + m2
          ELSE IF ofs + m2 < 2 * h THEN ofs + m2 - h ELSE ofs + m2 - 2 * h
    <2> DEFINE x == ofs + m2
    <2>1. x \in 0..(3 * h - 1)
        OBVIOUS
    <2> HIDE DEF x
    <2>2. x % h = IF x < h THEN x ELSE IF x < 2 * h THEN x - h ELSE x - 2 * h
        BY ONLY <2>1, h \in Nat \ {0}, Remainder
    <2> QED
        BY <2>2 DEF x
<1> HIDE DEF o, e
<1>3. SwapsPair(ofs, m2, h, p) = (((ofs < h) # (o + m2 < h)) # (e <= p))
    BY DEF SwapsPair, Xor, o, e
<1> DEFINE swap == SwapsPair(ofs, m2, h, p)
           r == Rank(h, o, p)
<1>4. swap \in BOOLEAN
    BY <1>3
<1> HIDE DEF swap
<1>5. o \in 0..(h - 1) /\ e \in 0..(h - 1) /\ r = IF p >= o THEN p - o ELSE p - o + h
    BY <1>1, <1>2 DEF Rank
<1> HIDE DEF r
<1>6. swap = (((ofs < h) = (p >= o)) # (r < m2))
    BY <1>1, <1>2, <1>3, <1>5 DEF swap
<1>7. /\ Rank(2 * h, ofs, p) = IF (ofs < h) = (p >= o) THEN r ELSE r + h
      /\ Rank(2 * h, ofs, p + h) = IF (ofs < h) = (p >= o) THEN r + h ELSE r
    BY <1>1, <1>5 DEF Rank
<1>8. /\ Rank(2 * h, ofs, IF swap THEN p + h ELSE p) = IF r < m2 THEN r ELSE r + h
      /\ Rank(2 * h, ofs, IF swap THEN p ELSE p + h) = IF r < m2 THEN r + h ELSE r
    <2>1. CASE swap
        <3>1. ((ofs < h) = (p >= o)) # (r < m2)
            BY <1>6, <2>1
        <3>2. (IF swap THEN p + h ELSE p) = p + h /\ (IF swap THEN p ELSE p + h) = p
            BY <2>1
        <3> QED
            BY <1>7, <3>1, <3>2
    <2>2. CASE ~swap
        <3>1. ~(((ofs < h) = (p >= o)) # (r < m2))
            BY <1>6, <2>2
        <3>2. (IF swap THEN p + h ELSE p) = p /\ (IF swap THEN p ELSE p + h) = p + h
            BY <2>2
        <3> QED
            BY <1>7, <3>1, <3>2
    <2> QED
        BY <2>1, <2>2
<1>9. Rank(h, e, p) = (IF r < m2 THEN r + h ELSE r) - m2
    BY <1>1, <1>2, <1>5 DEF Rank
<1> QED
    BY <1>5, <1>8, <1>9 DEF swap, r, o, e

(* D with the slots of each chosen pair, g slots apart, exchanged. *)
Crossed(D, n, g, chosen) ==
    [p \in 0..(n - 1) |-> IF p \in chosen THEN D[p + g]
                          ELSE IF p - g \in chosen THEN D[p - g] ELSE D[p]]

(* The k entries of D from off on. *)
Window(D, off, k) == [p \in 0..(k - 1) |-> D[off + p]]

(* A part of n rows as distribute_inner divides it. *)
TwoParts(n, k, g) == k \in Nat \ {0} /\ g \in Nat /\ k <= g /\ n = k + g

(* A part is arranged that has the rows below its end in the places they   *)
(* had.                                                                    *)
LEMMA LeftArranged ==
    ASSUME NEW n \in Nat, NEW first \in Int, NEW ofs, NEW m, NEW D, NEW top,
           Arranged(D, n, first, ofs, m, top),
           NEW k \in 1..n, NEW m2 \in 0..m, m2 <= k, NEW o \in 0..(k - 1), NEW E,
           \A q \in 0..(n - 1) : D[q] < first + k <=> Rank(n, ofs, q) < m2,
           \A p \in 0..(k - 1) : \E q \in 0..(n - 1) :
               /\ E[p] = D[q]
               /\ IF Rank(k, o, p) < m2 THEN Rank(n, ofs, q) = Rank(k, o, p)
                  ELSE Rank(n, ofs, q) >= m
    PROVE  Arranged(E, k, first, o, m2, top)
<1>1. /\ ofs \in 0..(n - 1) /\ m \in 0..n /\ top \in Int /\ first + n <= top
      /\ \A p \in 0..(n - 1) : D[p] \in Int
      /\ \A p \in 0..(n - 1) : Rank(n, ofs, p) < m => first <= D[p]
      /\ \A p \in 0..(n - 1) : Rank(n, ofs, p) >= m => D[p] >= top
      /\ \A p, q \in 0..(n - 1) :
            Rank(n, ofs, p) < Rank(n, ofs, q) /\ Rank(n, ofs, q) < m => D[p] < D[q]
    BY DEF Arranged
<1>2. ASSUME NEW p \in 0..(k - 1)
      PROVE  /\ E[p] \in Int
             /\ Rank(k, o, p) < m2 => first <= E[p] /\ E[p] < first + k
             /\ Rank(k, o, p) >= m2 => E[p] >= top
    <2>1. PICK q \in 0..(n - 1) :
              /\ E[p] = D[q]
              /\ IF Rank(k, o, p) < m2 THEN Rank(n, ofs, q) = Rank(k, o, p)
                 ELSE Rank(n, ofs, q) >= m
        OBVIOUS
    <2>2. D[q] \in Int /\ (D[q] < first + k <=> Rank(n, ofs, q) < m2)
          /\ (Rank(n, ofs, q) < m => first <= D[q])
          /\ (Rank(n, ofs, q) >= m => D[q] >= top)
        BY <1>1
    <2>3. Rank(k, o, p) \in 0..(k - 1) /\ Rank(n, ofs, q) \in 0..(n - 1)
        BY <1>1 DEF Rank
    <2> QED
        BY <1>1, <2>1, <2>2, <2>3
<1>3. ASSUME NEW p \in 0..(k - 1), NEW s \in 0..(k - 1),
             Rank(k, o, p) < Rank(k, o, s), Rank(k, o, s) < m2
      PROVE  E[p] < E[s]
    <2>0. Rank(k, o, p) \in 0..(k - 1) /\ Rank(k, o, s) \in 0..(k - 1)
        BY DEF Rank
    <2>1. PICK q \in 0..(n - 1) : E[p] = D[q] /\ Rank(n, ofs, q) = Rank(k, o, p)
        <3>1. Rank(k, o, p) < m2
            BY <1>3, <2>0
        <3> QED
            BY <3>1
    <2>2. PICK r \in 0..(n - 1) : E[s] = D[r] /\ Rank(n, ofs, r) = Rank(k, o, s)
        BY <1>3
    <2>3. Rank(n, ofs, r) < m
        BY <1>1, <1>3, <2>0, <2>2
    <2> QED
        BY <1>1, <1>3, <2>1, <2>2, <2>3
<1> QED
    BY <1>1, <1>2, <1>3 DEF Arranged

(* And a part that has the others, as many places further to the front as  *)
(* there were rows below it.                                               *)
LEMMA RightArranged ==
    ASSUME NEW n \in Nat, NEW first \in Int, NEW ofs, NEW m, NEW D, NEW top,
           Arranged(D, n, first, ofs, m, top),
           NEW k \in 0..n, NEW m2 \in 0..m, NEW g \in Nat, g = n - k, m - m2 <= g,
           NEW o \in 0..(g - 1), NEW E,
           \A q \in 0..(n - 1) : D[q] < first + k <=> Rank(n, ofs, q) < m2,
           \A p \in 0..(g - 1) : \E q \in 0..(n - 1) :
               E[p] = D[q] /\ Rank(n, ofs, q) = Rank(g, o, p) + m2
    PROVE  Arranged(E, g, first + k, o, m - m2, top)
<1>1. /\ ofs \in 0..(n - 1) /\ m \in 0..n /\ top \in Int /\ first + n <= top
      /\ \A p \in 0..(n - 1) : D[p] \in Int
      /\ \A p \in 0..(n - 1) : Rank(n, ofs, p) < m => D[p] < first + n
      /\ \A p \in 0..(n - 1) : Rank(n, ofs, p) >= m => D[p] >= top
      /\ \A p, q \in 0..(n - 1) :
            Rank(n, ofs, p) < Rank(n, ofs, q) /\ Rank(n, ofs, q) < m => D[p] < D[q]
    BY DEF Arranged
<1>2. ASSUME NEW p \in 0..(g - 1)
      PROVE  /\ E[p] \in Int
             /\ Rank(g, o, p) < m - m2 => first + k <= E[p] /\ E[p] < (first + k) + g
             /\ Rank(g, o, p) >= m - m2 => E[p] >= top
    <2>1. PICK q \in 0..(n - 1) : E[p] = D[q] /\ Rank(n, ofs, q) = Rank(g, o, p) + m2
        OBVIOUS
    <2>2. D[q] \in Int /\ (D[q] < first + k <=> Rank(n, ofs, q) < m2)
          /\ (Rank(n, ofs, q) < m => D[q] < first + n)
          /\ (Rank(n, ofs, q) >= m => D[q] >= top)
        BY <1>1
    <2>3. Rank(g, o, p) \in 0..(g - 1) /\ Rank(n, ofs, q) \in 0..(n - 1)
        BY <1>1, RankAt
    <2> QED
        BY <1>1, <2>1, <2>2, <2>3
<1>3. ASSUME NEW p \in 0..(g - 1), NEW s \in 0..(g - 1),
             Rank(g, o, p) < Rank(g, o, s), Rank(g, o, s) < m - m2
      PROVE  E[p] < E[s]
    <2>0. Rank(g, o, p) \in 0..(g - 1) /\ Rank(g, o, s) \in 0..(g - 1)
        BY RankAt
    <2>1. PICK q \in 0..(n - 1) : E[p] = D[q] /\ Rank(n, ofs, q) = Rank(g, o, p) + m2
        OBVIOUS
    <2>2. PICK r \in 0..(n - 1) : E[s] = D[r] /\ Rank(n, ofs, r) = Rank(g, o, s) + m2
        OBVIOUS
    <2>3. Rank(n, ofs, q) < Rank(n, ofs, r) /\ Rank(n, ofs, r) < m
        BY <1>1, <1>3, <2>0, <2>1, <2>2
    <2> QED
        BY <1>1, <2>1, <2>2, <2>3
<1>4. o \in 0..(g - 1) /\ m - m2 \in 0..g
    BY <1>1
<1> QED
    BY <1>2, <1>3, <1>4 DEF Arranged

(* The halves of a rotated part, its pairs swapped as they decide. *)
LEMMA HalvesArranged ==
    ASSUME NEW h \in Nat \ {0}, NEW first \in Int, NEW ofs, NEW m, NEW D, NEW top,
           Arranged(D, 2 * h, first, ofs, m, top),
           NEW m2, m2 = Cardinality({p \in 0..(2 * h - 1) : D[p] < first + h}),
           NEW E, E = Crossed(D, 2 * h, h, {i \in 0..(h - 1) : SwapsPair(ofs, m2, h, i)})
    PROVE  /\ m2 \in 0..h
           /\ Arranged(Window(E, 0, h), h, first, ofs % h, m2, top)
           /\ Arranged(Window(E, h, h), h, first + h, (ofs + m2) % h, m - m2, top)
<1> DEFINE n == 2 * h
           chosen == {i \in 0..(h - 1) : SwapsPair(ofs, m2, h, i)}
           L == [p \in 0..(h - 1) |-> E[p]]
           R == [p \in 0..(h - 1) |-> E[h + p]]
<1>0. n \in Nat /\ first + h \in first..(first + n) /\ first + n - (first + h) = h
      /\ first + h - first = h /\ h \in 1..n /\ h \in 0..n /\ h = n - h
    OBVIOUS
<1>1. ofs \in 0..(n - 1) /\ m \in 0..n
    BY DEF Arranged
<1>2. /\ m2 \in 0..m /\ m2 <= h /\ m - m2 <= h
      /\ \A q \in 0..(n - 1) : D[q] < first + h <=> Rank(n, ofs, q) < m2
    <2> HIDE DEF n
    <2>1. Arranged(D, n, first, ofs, m, top) /\ m2 = Cardinality({p \in 0..(n - 1) : D[p] < first + h})
        BY DEF n
    <2> DEFINE b == first + h
    <2>2. b \in first..(first + n) /\ b - first = h /\ first + n - b = h
        BY <1>0
    <2> HIDE DEF b
    <2>3. LET S == {p \in 0..(n - 1) : D[p] < b}
          IN  /\ IsFiniteSet(S) /\ Cardinality(S) \in 0..m
              /\ Cardinality(S) <= b - first /\ m - Cardinality(S) <= first + n - b
              /\ \A p \in 0..(n - 1) : D[p] < b <=> Rank(n, ofs, p) < Cardinality(S)
        BY ONLY <1>0, <2>1, <2>2, first \in Int, CountIsRank
    <2>4. m2 = Cardinality({p \in 0..(n - 1) : D[p] < b})
        BY <2>1 DEF b
    <2>5. /\ m2 \in 0..m /\ m2 <= b - first /\ m - m2 <= first + n - b
          /\ \A p \in 0..(n - 1) : D[p] < b <=> Rank(n, ofs, p) < m2
        BY <2>3, <2>4
    <2> QED
        BY <2>2, <2>5 DEF b
<1>3. m2 \in 0..h
    BY <1>1, <1>2
<1>4. ASSUME NEW p \in 0..(h - 1)
      PROVE  LET r    == Rank(h, ofs % h, p)
                 left == IF r < m2 THEN r ELSE r + h
                 rght == IF r < m2 THEN r + h ELSE r
             IN  /\ ofs % h \in 0..(h - 1) /\ (ofs + m2) % h \in 0..(h - 1)
                 /\ Rank(n, ofs, IF SwapsPair(ofs, m2, h, p) THEN p + h ELSE p) = left
                 /\ Rank(n, ofs, IF SwapsPair(ofs, m2, h, p) THEN p ELSE p + h) = rght
                 /\ Rank(h, (ofs + m2) % h, p) = rght - m2
    BY ONLY <1>1, <1>3, h \in Nat \ {0}, p \in 0..(h - 1), HalvesByRank DEF n
<1>5. ASSUME NEW p \in 0..(h - 1)
      PROVE  /\ L[p] = D[IF SwapsPair(ofs, m2, h, p) THEN p + h ELSE p]
             /\ R[p] = D[IF SwapsPair(ofs, m2, h, p) THEN p ELSE p + h]
    <2>1. p \in 0..(n - 1) /\ h + p \in 0..(n - 1) /\ (h + p) - h = p /\ h + p = p + h
          /\ h + p \notin chosen /\ p - h \notin chosen
        OBVIOUS
    <2>2. p \in chosen <=> SwapsPair(ofs, m2, h, p)
        OBVIOUS
    <2>3. /\ E[p] = IF p \in chosen THEN D[p + h] ELSE IF p - h \in chosen THEN D[p - h] ELSE D[p]
          /\ E[h + p] = IF h + p \in chosen THEN D[h + p + h]
                        ELSE IF (h + p) - h \in chosen THEN D[(h + p) - h] ELSE D[h + p]
        BY <2>1 DEF Crossed
    <2>4. L[p] = E[p] /\ R[p] = E[h + p]
        OBVIOUS
    <2> HIDE DEF chosen, L, R
    <2>5. CASE SwapsPair(ofs, m2, h, p)
        BY <2>1, <2>2, <2>3, <2>4, <2>5
    <2>6. CASE ~SwapsPair(ofs, m2, h, p)
        BY <2>1, <2>2, <2>3, <2>4, <2>6
    <2> QED
        BY <2>5, <2>6
<1>6. ofs % h \in 0..(h - 1) /\ (ofs + m2) % h \in 0..(h - 1)
    <2>1. 0 \in 0..(h - 1)
        OBVIOUS
    <2> QED
        BY <1>4, <2>1
<1> DEFINE o == ofs % h
           e == (ofs + m2) % h
<1> HIDE DEF chosen, L, R, n, o, e
<1>7. ASSUME NEW p \in 0..(h - 1)
      PROVE  \E q \in 0..(n - 1) :
                 /\ L[p] = D[q]
                 /\ IF Rank(h, o, p) < m2 THEN Rank(n, ofs, q) = Rank(h, o, p)
                    ELSE Rank(n, ofs, q) >= m
    <2> DEFINE q == IF SwapsPair(ofs, m2, h, p) THEN p + h ELSE p
    <2>1. q \in 0..(n - 1) /\ L[p] = D[q]
        BY <1>5 DEF n
    <2>2. Rank(h, o, p) \in 0..(h - 1)
        BY <1>6, RankAt DEF o
    <2>3. Rank(n, ofs, q) = IF Rank(h, o, p) < m2 THEN Rank(h, o, p) ELSE Rank(h, o, p) + h
        BY <1>4 DEF o
    <2> HIDE DEF q
    <2>4. IF Rank(h, o, p) < m2 THEN Rank(n, ofs, q) = Rank(h, o, p) ELSE Rank(n, ofs, q) >= m
        BY <1>1, <1>2, <1>3, <2>2, <2>3
    <2> QED
        BY <2>1, <2>4
<1>8. ASSUME NEW p \in 0..(h - 1)
      PROVE  \E q \in 0..(n - 1) : R[p] = D[q] /\ Rank(n, ofs, q) = Rank(h, e, p) + m2
    <2> DEFINE q == IF SwapsPair(ofs, m2, h, p) THEN p ELSE p + h
               r == Rank(h, o, p)
    <2>1. q \in 0..(n - 1) /\ R[p] = D[q]
        BY <1>5 DEF n
    <2>2. r \in 0..(h - 1)
        BY <1>6, RankAt DEF o
    <2>3. Rank(n, ofs, q) = IF r < m2 THEN r + h ELSE r
        BY <1>4 DEF o
    <2>4. Rank(h, e, p) = (IF r < m2 THEN r + h ELSE r) - m2
        BY <1>4 DEF o, e
    <2> HIDE DEF q, r
    <2>5. Rank(n, ofs, q) = Rank(h, e, p) + m2
        BY <1>3, <2>2, <2>3, <2>4
    <2> QED
        BY <2>1, <2>5
<1>9. Arranged(D, n, first, ofs, m, top)
    BY DEF n
<1>10. Arranged(L, h, first, o, m2, top)
    <2>1. o \in 0..(h - 1)
        BY <1>6 DEF o
    <2> QED
        BY <1>0, <1>2, <1>7, <1>9, <2>1, LeftArranged
<1>11. Arranged(R, h, first + h, e, m - m2, top)
    <2>1. e \in 0..(h - 1)
        BY <1>6 DEF e
    <2> QED
        BY <1>0, <1>2, <1>8, <1>9, <2>1, RightArranged
<1>12. L = Window(E, 0, h) /\ R = Window(E, h, h)
    BY DEF L, R, Window
<1> QED
    BY <1>3, <1>10, <1>11, <1>12 DEF o, e

(* The parts of a part that does not rotate: the pairs from m2 on swapped. *)
LEMMA InnerArranged ==
    ASSUME NEW n, NEW k, NEW g, TwoParts(n, k, g), NEW first \in Int, NEW m, NEW D, NEW top,
           Arranged(D, n, first, 0, m, top),
           NEW m2, m2 = Cardinality({p \in 0..(k - 1) : D[p] < first + k}),
           NEW E, E = Crossed(D, n, g, m2..(k - 1))
    PROVE  /\ m2 \in 0..k /\ (g - k + m2) % g \in 0..(g - 1)
           /\ Arranged(Window(E, 0, k), k, first, 0, m2, top)
           /\ Arranged(Window(E, k, g), g, first + k, (g - k + m2) % g, m - m2, top)
<1> DEFINE chosen == m2..(k - 1)
           L == [p \in 0..(k - 1) |-> E[p]]
           R == [p \in 0..(g - 1) |-> E[k + p]]
<1>0. /\ n \in Nat /\ first + k \in first..(first + n) /\ first + n - (first + k) = g
      /\ first + k - first = k /\ k \in 1..n /\ k \in 0..n /\ g = n - k
      /\ k \in Nat \ {0} /\ k <= g /\ g \in Nat /\ n = k + g
    BY DEF TwoParts
<1>1. m \in 0..n /\ Arranged(D, n, first, 0, m, top)
    BY DEF Arranged
<1>2. /\ m2 \in 0..m /\ m2 <= k /\ m - m2 <= g
      /\ \A q \in 0..(n - 1) : D[q] < first + k <=> Rank(n, 0, q) < m2
    <2> DEFINE b == first + k
               S == {p \in 0..(n - 1) : D[p] < b}
    <2>1. b \in first..(first + n) /\ b - first = k /\ first + n - b = g
        BY <1>0
    <2> HIDE DEF b
    <2>2. /\ IsFiniteSet(S) /\ Cardinality(S) \in 0..m
          /\ Cardinality(S) <= b - first /\ m - Cardinality(S) <= first + n - b
          /\ \A p \in 0..(n - 1) : D[p] < b <=> Rank(n, 0, p) < Cardinality(S)
        BY ONLY <1>0, <1>1, <2>1, first \in Int, CountIsRank
    <2>3. S = {p \in 0..(k - 1) : D[p] < b}
        <3>1. ASSUME NEW p \in 0..(n - 1), D[p] < b PROVE p \in 0..(k - 1)
            <4>1. Rank(n, 0, p) = p
                BY <1>0 DEF Rank
            <4>2. p < Cardinality(S)
                BY <2>2, <3>1, <4>1
            <4> HIDE DEF S
            <4> QED
                BY <1>0, <1>1, <2>1, <2>2, <4>2
        <3>2. \A p \in 0..(k - 1) : p \in 0..(n - 1)
            BY <1>0
        <3> QED
            BY <3>1, <3>2
    <2>4. m2 = Cardinality(S)
        BY <2>3 DEF b
    <2> HIDE DEF S
    <2> QED
        BY <2>1, <2>2, <2>4 DEF b
<1>3. m2 \in 0..k
    BY <1>0, <1>1, <1>2
<1> DEFINE o == (g - k + m2) % g
<1>4. o = IF m2 = k THEN 0 ELSE g - k + m2
    <2> DEFINE x == g - k + m2
    <2>1. x \in 0..(3 * g - 1) /\ x <= g /\ g \in Nat \ {0}
        BY <1>0, <1>3
    <2>2. o = x % g
        OBVIOUS
    <2> HIDE DEF x, o
    <2>3. x % g = IF x < g THEN x ELSE IF x < 2 * g THEN x - g ELSE x - 2 * g
        BY ONLY <2>1, Remainder
    <2>4. o = IF x < g THEN x ELSE 0
        BY <2>1, <2>2, <2>3
    <2> QED
        BY <1>0, <1>3, <2>4 DEF x
<1> HIDE DEF o
<1>5. o \in 0..(g - 1)
    BY <1>0, <1>3, <1>4
<1>6. ASSUME NEW p \in 0..(k - 1) PROVE L[p] = D[IF p < m2 THEN p ELSE p + g]
    <2>1. p \in 0..(n - 1) /\ p - g \notin chosen /\ (p \in chosen <=> ~(p < m2))
        BY <1>0, <1>3
    <2>2. E[p] = IF p \in chosen THEN D[p + g] ELSE IF p - g \in chosen THEN D[p - g] ELSE D[p]
        BY <2>1 DEF Crossed
    <2>3. L[p] = E[p]
        OBVIOUS
    <2> HIDE DEF chosen, L
    <2> QED
        BY <2>1, <2>2, <2>3
<1>7. ASSUME NEW p \in 0..(g - 1) PROVE R[p] = D[IF k + p >= g + m2 THEN k + p - g ELSE k + p]
    <2>1. k + p \in 0..(n - 1) /\ k + p \notin chosen /\ (k + p - g \in chosen <=> k + p >= g + m2)
        BY <1>0, <1>3
    <2>2. E[k + p] = IF k + p \in chosen THEN D[k + p + g]
                     ELSE IF k + p - g \in chosen THEN D[k + p - g] ELSE D[k + p]
        BY <1>0, <2>1 DEF Crossed
    <2>3. R[p] = E[k + p]
        OBVIOUS
    <2> HIDE DEF chosen, R
    <2> QED
        BY <2>1, <2>2, <2>3
<1> HIDE DEF chosen, L, R
<1>8. Arranged(L, k, first, 0, m2, top)
    <2>1. ASSUME NEW p \in 0..(k - 1)
          PROVE  \E q \in 0..(n - 1) :
                     /\ L[p] = D[q]
                     /\ IF Rank(k, 0, p) < m2 THEN Rank(n, 0, q) = Rank(k, 0, p)
                        ELSE Rank(n, 0, q) >= m
        <3> DEFINE q == IF p < m2 THEN p ELSE p + g
        <3>1. q \in 0..(n - 1) /\ L[p] = D[q]
            BY <1>0, <1>6
        <3>2. IF Rank(k, 0, p) < m2 THEN Rank(n, 0, q) = Rank(k, 0, p) ELSE Rank(n, 0, q) >= m
            BY <1>0, <1>1, <1>2, <1>3 DEF Rank
        <3> QED
            BY <3>1, <3>2
    <2>2. 0 \in 0..(k - 1)
        BY <1>0
    <2> QED
        BY <1>0, <1>1, <1>2, <2>1, <2>2, LeftArranged
<1>9. Arranged(R, g, first + k, o, m - m2, top)
    <2>1. ASSUME NEW p \in 0..(g - 1)
          PROVE  \E q \in 0..(n - 1) : R[p] = D[q] /\ Rank(n, 0, q) = Rank(g, o, p) + m2
        <3> DEFINE q == IF k + p >= g + m2 THEN k + p - g ELSE k + p
        <3>1. q \in 0..(n - 1) /\ R[p] = D[q]
            BY <1>3, <1>0, <1>7
        <3>2. Rank(n, 0, q) = Rank(g, o, p) + m2
            BY <1>0, <1>3, <1>4 DEF Rank
        <3> QED
            BY <3>1, <3>2
    <2>2. n \in Nat /\ k \in 0..n /\ g \in Nat /\ g = n - k
        BY <1>0
    <2> QED
        BY ONLY <1>1, <1>2, <1>5, <2>1, <2>2, first \in Int, RightArranged
<1>10. L = Window(E, 0, k) /\ R = Window(E, k, g)
    BY <1>0 DEF L, R, Window
<1> QED
    BY <1>3, <1>5, <1>8, <1>9, <1>10 DEF o

-----------------------------------------------------------------------------
(* Routing in the buffer. *)

Real(e) == e.field_type # DIST_PADDING

Dests(buf, n) == [p \in 0..(n - 1) |-> buf[p + 1].dst_idx]

(* A buffer of n rows, arranged. *)
Laid(buf, n, first, ofs, m, top) ==
    /\ buf \in Seq(EntryRows) /\ Len(buf) = n
    /\ Arranged(Dests(buf, n), n, first, ofs, m, top)
    /\ \A i \in 1..n : Real(buf[i]) <=> buf[i].dst_idx < top

(* The rows of the buffer, each in its slot. *)
InSlots(buf, res, n, first) ==
    /\ res \in Seq(EntryRows) /\ Len(res) = n
    /\ \A i \in 1..n : Real(buf[i]) => \E j \in 1..n : res[j] = buf[i]
    /\ \A j \in 1..n : Real(res[j]) => /\ res[j].dst_idx = first + j - 1
                                       /\ \E i \in 1..n : res[j] = buf[i]

(* Counting by index, from 1, or by slot, from 0. *)
LEMMA CountOfSlots ==
    ASSUME NEW n \in Nat, NEW k \in 0..n, NEW buf, NEW b
    PROVE  Count(buf, k, b) = Cardinality({p \in 0..(k - 1) : Dests(buf, n)[p] < b})
<1> DEFINE S == {i \in 1..k : buf[i].dst_idx < b}
           T == {p \in 0..(k - 1) : Dests(buf, n)[p] < b}
           f == [i \in S |-> i - 1]
<1>1. \A p \in 0..(k - 1) : p \in 0..(n - 1) /\ Dests(buf, n)[p] = buf[p + 1].dst_idx
    BY DEF Dests
<1>2. \A i \in S : f[i] \in T
    <2> SUFFICES ASSUME NEW i \in S PROVE f[i] \in T
        OBVIOUS
    <2>1. f[i] = i - 1 /\ i - 1 \in 0..(k - 1) /\ (i - 1) + 1 = i /\ buf[i].dst_idx < b
        OBVIOUS
    <2>2. Dests(buf, n)[i - 1] = buf[i].dst_idx
        BY <1>1, <2>1
    <2> QED
        BY <2>1, <2>2
<1>3. \A p \in T : p + 1 \in S /\ f[p + 1] = p
    <2> SUFFICES ASSUME NEW p \in T PROVE p + 1 \in S /\ f[p + 1] = p
        OBVIOUS
    <2>1. p \in 0..(k - 1) /\ p + 1 \in 1..k /\ (p + 1) - 1 = p /\ Dests(buf, n)[p] < b
        OBVIOUS
    <2>2. buf[p + 1].dst_idx < b
        BY <1>1, <2>1
    <2> QED
        BY <2>1, <2>2
<1>4. \A i, j \in S : f[i] = f[j] => i = j
    OBVIOUS
<1>5. f \in [S -> T]
    BY <1>2
<1>6. IsFiniteSet(S)
    <2>1. IsFiniteSet(1..k) /\ S \in SUBSET (1..k)
        <3>1. 1 \in Int /\ k \in Int
            OBVIOUS
        <3> QED
            BY <3>1, FS_Interval
    <2> HIDE DEF S
    <2> QED
        BY <2>1, FS_Subset
<1>7. Count(buf, k, b) = Cardinality(S)
    BY DEF Count
<1> HIDE DEF S, T, f
<1>8. f \in Bijection(S, T)
    BY <1>3, <1>4, <1>5 DEF Bijection, Injection, Surjection, IsInjective
<1>9. Cardinality(T) = Cardinality(S)
    BY <1>6, <1>8, FS_Bijection DEF ExistsBijection
<1> QED
    BY <1>7, <1>9 DEF T

(* The rows of one sequence are those of the other. *)
SameElements(s, t, n) ==
    /\ \A j \in 1..n : \E i \in 1..n : s[j] = t[i]
    /\ \A i \in 1..n : \E j \in 1..n : s[j] = t[i]

(* The destinations of a buffer are those of E. *)
Holds(buf, n, E) == \A p \in 0..(n - 1) : buf[p + 1].dst_idx = E[p]

(* The k rows of a buffer from row off on. *)
PartOf(part, buf, off, k) ==
    /\ part \in Seq(EntryRows) /\ Len(part) = k
    /\ \A i \in 1..k : part[i] = buf[off + i]

(* A row's destination tells whether it is padding. *)
Marked(buf, n, top) == \A i \in 1..n : Real(buf[i]) <=> buf[i].dst_idx < top

(* Swapping pairs of the buffer swaps destinations, and no row is lost.    *)
LEMMA SwapInBuffer ==
    ASSUME NEW n, NEW k, NEW g, TwoParts(n, k, g),
           NEW chosen \in SUBSET (0..(k - 1)), NEW buf \in Seq(EntryRows), Len(buf) = n,
           NEW split, split = SwapPairs(buf, 0, g, chosen)
    PROVE  /\ split \in Seq(EntryRows) /\ Len(split) = n
           /\ Holds(split, n, Crossed(Dests(buf, n), n, g, chosen)) /\ SameElements(split, buf, n)
<1>0. k \in Nat \ {0} /\ g \in Nat /\ k <= g /\ n = k + g /\ n \in Nat
    BY DEF TwoParts<1> DEFINE moved(j) == IF j - 1 - 0 \in chosen THEN j + g
                       ELSE IF j - 1 - 0 - g \in chosen THEN j - g ELSE j
<1>1. split = [j \in 1..n |-> buf[moved(j)]]
    BY <1>0 DEF SwapPairs
<1>2. \A j \in 1..n : moved(j) \in 1..n
    BY <1>0
<1>3. \A i \in 1..n : buf[i] \in EntryRows
    BY <1>0
<1>4. split \in [1..n -> EntryRows]
    BY <1>1, <1>2, <1>3
<1>5. split \in Seq(EntryRows) /\ Len(split) = n
    BY <1>0, <1>4
<1>6. \A j \in 1..n : split[j] = buf[moved(j)]
    BY <1>1
<1>7. ASSUME NEW i \in 1..n PROVE \E j \in 1..n : split[j] = buf[i]
    <2>1. moved(moved(i)) = i
        <3>1. \A c \in chosen : c \in 0..(k - 1)
            BY <1>0
        <3>2. CASE i - 1 \in chosen
            BY <1>0, <3>1, <3>2
        <3>3. CASE i - 1 \notin chosen /\ i - 1 - g \in chosen
            BY <1>0, <3>1, <3>3
        <3>4. CASE i - 1 \notin chosen /\ i - 1 - g \notin chosen
            BY <1>0, <3>4
        <3> QED
            BY <3>2, <3>3, <3>4
    <2> HIDE DEF moved
    <2> QED
        BY <1>2, <1>6, <2>1
<1>8. ASSUME NEW p \in 0..(n - 1)
      PROVE  split[p + 1].dst_idx = Crossed(Dests(buf, n), n, g, chosen)[p]
    <2>1. \A q \in 0..(n - 1) : Dests(buf, n)[q] = buf[q + 1].dst_idx
        BY <1>0 DEF Dests
    <2>2. Crossed(Dests(buf, n), n, g, chosen)[p] =
              IF p \in chosen THEN Dests(buf, n)[p + g]
              ELSE IF p - g \in chosen THEN Dests(buf, n)[p - g] ELSE Dests(buf, n)[p]
        BY <1>0 DEF Crossed
    <2>3. p + 1 \in 1..n /\ (p + 1) - 1 - 0 = p /\ (p + 1) - 1 - 0 - g = p - g
        BY <1>0
    <2>4. split[p + 1] = buf[IF p \in chosen THEN p + 1 + g
                             ELSE IF p - g \in chosen THEN p + 1 - g ELSE p + 1]
        <3>1. moved(p + 1) = IF p \in chosen THEN p + 1 + g
                             ELSE IF p - g \in chosen THEN p + 1 - g ELSE p + 1
            BY <1>0, <2>3
        <3> HIDE DEF moved
        <3> QED
            BY <1>6, <2>3, <3>1
    <2>5. /\ p \in chosen => p + g \in 0..(n - 1) /\ (p + g) + 1 = p + 1 + g
          /\ p - g \in chosen => p - g \in 0..(n - 1) /\ (p - g) + 1 = p + 1 - g
        BY <1>0
    <2> QED
        BY <2>1, <2>2, <2>4, <2>5
<1> HIDE DEF moved
<1> QED
    BY <1>2, <1>5, <1>6, <1>7, <1>8 DEF Holds, SameElements

(* A buffer in two. *)
LEMMA Cut ==
    ASSUME NEW n \in Nat, NEW k \in 0..n, NEW g, g = n - k, NEW buf \in Seq(EntryRows), Len(buf) = n
    PROVE  PartOf(SubSeq(buf, 1, k), buf, 0, k) /\ PartOf(SubSeq(buf, k + 1, n), buf, k, g)
<1> DEFINE L == SubSeq(buf, 1, k)
           R == SubSeq(buf, k + 1, n)
<1>1. \A i \in 1..n : buf[i] \in EntryRows
    OBVIOUS
<1>2. L = [i \in 1..k |-> buf[i]]
    BY DEF SubSeq
<1>3. R = [i \in 1..(n - k) |-> buf[k + i]]
    BY DEF SubSeq
<1> HIDE DEF L, R
<1>4. \A i \in 1..k : i \in 1..n
    OBVIOUS
<1>5. \A i \in 1..(n - k) : k + i \in 1..n
    OBVIOUS
<1>6. k \in Nat /\ n - k \in Nat
    OBVIOUS
<1>7. L \in [1..k -> EntryRows] /\ \A i \in 1..k : L[i] = buf[i]
    BY <1>1, <1>2, <1>4
<1>8. R \in [1..(n - k) -> EntryRows] /\ \A i \in 1..(n - k) : R[i] = buf[k + i]
    BY <1>1, <1>3, <1>5
<1>9. L \in Seq(EntryRows) /\ Len(L) = k
    BY <1>6, <1>7
<1>10. R \in Seq(EntryRows) /\ Len(R) = n - k
    BY <1>6, <1>8
<1>11. \A i \in 1..k : 0 + i = i
    OBVIOUS
<1> QED
    BY <1>7, <1>8, <1>9, <1>10, <1>11 DEF L, R, PartOf

(* A part of a swapped buffer, if its destinations are arranged. *)
LEMMA PartLaid ==
    ASSUME NEW n \in Nat, NEW buf, NEW split, NEW top, NEW E, SameElements(split, buf, n),
           Marked(buf, n, top), Holds(split, n, E),
           NEW k \in Nat, NEW off \in Nat, off + k <= n, NEW part, PartOf(part, split, off, k),
           NEW first, NEW o, NEW m, Arranged(Window(E, off, k), k, first, o, m, top)
    PROVE  Laid(part, k, first, o, m, top)
<1>1. Dests(part, k) = Window(E, off, k)
    <2>1. ASSUME NEW p \in 0..(k - 1) PROVE part[p + 1].dst_idx = E[off + p]
        <3>1. p + 1 \in 1..k /\ off + p \in 0..(n - 1) /\ off + (p + 1) = (off + p) + 1
            OBVIOUS
        <3>2. part[p + 1] = split[off + (p + 1)]
            BY <3>1 DEF PartOf
        <3>3. split[(off + p) + 1].dst_idx = E[off + p]
            BY <3>1 DEF Holds
        <3> QED
            BY <3>1, <3>2, <3>3
    <2> QED
        BY <2>1 DEF Dests, Window
<1>2. ASSUME NEW i \in 1..k PROVE Real(part[i]) <=> part[i].dst_idx < top
    <2>1. off + i \in 1..n
        OBVIOUS
    <2>2. PICK j \in 1..n : split[off + i] = buf[j]
        BY <2>1 DEF SameElements
    <2>3. part[i] = buf[j]
        BY <2>2 DEF PartOf
    <2> QED
        BY <2>3 DEF Marked
<1>3. part \in Seq(EntryRows) /\ Len(part) = k
    BY DEF PartOf
<1> QED
    BY <1>1, <1>2, <1>3 DEF Laid

(* The two parts of a swapped buffer, each with its rows in their slots,   *)
(* make up the buffer.                                                     *)
LEMMA JoinInSlots ==
    ASSUME NEW k \in Nat, NEW g \in Nat, NEW n, n = k + g, NEW buf, NEW split,
           SameElements(split, buf, n), NEW left, NEW right, NEW lr, NEW rr, NEW first \in Nat,
           \A i \in 1..k : left[i] = split[i],
           \A i \in 1..g : right[i] = split[k + i],
           InSlots(left, lr, k, first), InSlots(right, rr, g, first + k)
    PROVE  InSlots(buf, lr \o rr, n, first)
<1> DEFINE res == lr \o rr
<1>1. lr \in Seq(EntryRows) /\ Len(lr) = k /\ rr \in Seq(EntryRows) /\ Len(rr) = g
    BY DEF InSlots
<1>2. /\ res \in Seq(EntryRows) /\ Len(res) = n
      /\ \A j \in 1..n : res[j] = IF j <= k THEN lr[j] ELSE rr[j - k]
    <2>1. lr \in Seq(EntryRows) /\ rr \in Seq(EntryRows)
        BY <1>1
    <2>2. /\ res \in Seq(EntryRows)
          /\ Len(res) = Len(lr) + Len(rr)
          /\ \A j \in 1..(Len(lr) + Len(rr)) :
                res[j] = IF j <= Len(lr) THEN lr[j] ELSE rr[j - Len(lr)]
        BY ONLY <2>1, ConcatProperties
    <2>3. Len(lr) = k /\ Len(rr) = g /\ Len(lr) + Len(rr) = n
        BY <1>1
    <2> HIDE DEF res
    <2> QED
        BY <2>2, <2>3
<1> HIDE DEF res
<1>3. ASSUME NEW i \in 1..n, Real(buf[i]) PROVE \E j \in 1..n : res[j] = buf[i]
    <2>1. PICK s \in 1..n : split[s] = buf[i]
        BY DEF SameElements
    <2>2. CASE s <= k
        <3>1. s \in 1..k /\ left[s] = buf[i]
            BY <2>1, <2>2
        <3>2. PICK j \in 1..k : lr[j] = left[s]
            BY <1>3, <3>1 DEF InSlots
        <3>3. j \in 1..n /\ j <= k
            OBVIOUS
        <3>4. res[j] = lr[j]
            BY <1>2, <3>3
        <3> QED
            BY <3>1, <3>2, <3>3, <3>4
    <2>3. CASE s > k
        <3>1. s - k \in 1..g /\ k + (s - k) = s
            BY <2>3
        <3>2. right[s - k] = buf[i]
            BY <2>1, <3>1
        <3>3. PICK j \in 1..g : rr[j] = right[s - k]
            BY <1>3, <3>1, <3>2 DEF InSlots
        <3>4. k + j \in 1..n /\ ~(k + j <= k) /\ (k + j) - k = j
            OBVIOUS
        <3>5. res[k + j] = rr[j]
            BY <1>2, <3>4
        <3> QED
            BY <3>2, <3>3, <3>4, <3>5
    <2> QED
        BY <2>2, <2>3
<1>4. ASSUME NEW j \in 1..n, Real(res[j])
      PROVE  res[j].dst_idx = first + j - 1 /\ \E i \in 1..n : res[j] = buf[i]
    <2>1. CASE j <= k
        <3>1. j \in 1..k /\ res[j] = lr[j]
            BY <1>2, <2>1
        <3>2. lr[j].dst_idx = first + j - 1 /\ \E i \in 1..k : lr[j] = left[i]
            BY <1>4, <3>1 DEF InSlots
        <3>3. PICK i \in 1..k : lr[j] = left[i]
            BY <3>2
        <3>4. i \in 1..n /\ left[i] = split[i]
            OBVIOUS
        <3>5. \E l \in 1..n : split[i] = buf[l]
            BY <3>4 DEF SameElements
        <3> QED
            BY <3>1, <3>2, <3>3, <3>4, <3>5
    <2>2. CASE j > k
        <3>1. j - k \in 1..g /\ res[j] = rr[j - k]
            BY <1>2, <2>2
        <3>2. /\ rr[j - k].dst_idx = (first + k) + (j - k) - 1
              /\ \E i \in 1..g : rr[j - k] = right[i]
            BY <1>4, <3>1 DEF InSlots
        <3>3. PICK i \in 1..g : rr[j - k] = right[i]
            BY <3>2
        <3>4. k + i \in 1..n /\ right[i] = split[k + i]
            OBVIOUS
        <3>5. \E l \in 1..n : split[k + i] = buf[l]
            BY <3>4 DEF SameElements
        <3>6. (first + k) + (j - k) - 1 = first + j - 1
            OBVIOUS
        <3> QED
            BY <3>1, <3>2, <3>3, <3>4, <3>5, <3>6
    <2> QED
        BY <2>1, <2>2
<1> QED
    BY <1>2, <1>3, <1>4 DEF InSlots, res

(* A buffer of one row is in order. *)
LEMMA OneInSlots ==
    ASSUME NEW buf, NEW first \in Nat, NEW ofs, NEW m, NEW top, Laid(buf, 1, first, ofs, m, top)
    PROVE  InSlots(buf, buf, 1, first)
<1>1. /\ buf \in Seq(EntryRows) /\ Len(buf) = 1
      /\ Real(buf[1]) <=> buf[1].dst_idx < top
      /\ Arranged(Dests(buf, 1), 1, first, ofs, m, top)
    BY DEF Laid
<1>2. Dests(buf, 1)[0] = buf[1].dst_idx
    BY DEF Dests
<1>3. Real(buf[1]) => buf[1].dst_idx = first
    <2>0. ofs = 0 /\ 0 \in 0..(1 - 1)
        BY <1>1 DEF Arranged
    <2>1. Rank(1, ofs, 0) = 0
        BY <2>0 DEF Rank
    <2>2. /\ Dests(buf, 1)[0] \in Int
          /\ 0 < m => first <= Dests(buf, 1)[0] /\ Dests(buf, 1)[0] < first + 1
          /\ 0 >= m => Dests(buf, 1)[0] >= top
          /\ m \in 0..1 /\ top \in Int
        BY <1>1, <2>0, <2>1 DEF Arranged
    <2> QED
        BY <1>1, <1>2, <2>2
<1>4. \A i \in 1..1 : i = 1
    OBVIOUS
<1> QED
    BY <1>1, <1>3, <1>4 DEF InSlots

(* The halves that distribute_2power makes. *)
LEMMA HalvesLaid ==
    ASSUME NEW n, NEW h, TwoParts(n, h, h), NEW buf, NEW first \in Nat, NEW ofs, NEW m, NEW top,
           Laid(buf, n, first, ofs, m, top), NEW m2, m2 = Count(buf, n, first + h),
           NEW split,
           split = SwapPairs(buf, 0, h, {i \in 0..(h - 1) : SwapsPair(ofs, m2, h, i)})
    PROVE  /\ m2 \in 0..h /\ ofs \in 0..(n - 1)
           /\ split \in Seq(EntryRows) /\ Len(split) = n /\ SameElements(split, buf, n)
           /\ Laid(SubSeq(split, 1, h), h, first, ofs % h, m2, top)
           /\ Laid(SubSeq(split, h + 1, n), h, first + h, (ofs + m2) % h, m - m2, top)
<1> DEFINE chosen == {i \in 0..(h - 1) : SwapsPair(ofs, m2, h, i)}
           D == Dests(buf, n)
           E == Crossed(D, n, h, chosen)
           left == SubSeq(split, 1, h)
           rght == SubSeq(split, h + 1, n)
<1>1. /\ buf \in Seq(EntryRows) /\ Len(buf) = n /\ Arranged(D, n, first, ofs, m, top)
      /\ Marked(buf, n, top)
    BY DEF Laid, Marked
<1>2. n \in Nat /\ h \in Nat /\ h <= h /\ h + h <= n /\ h = n - h /\ n \in 0..n /\ h \in 0..n
      /\ h \in Nat \ {0} /\ n = 2 * h
    BY DEF TwoParts
<1>3. /\ split \in Seq(EntryRows) /\ Len(split) = n
      /\ Holds(split, n, E) /\ SameElements(split, buf, n)
    <2>1. chosen \in SUBSET (0..(h - 1)) /\ split = SwapPairs(buf, 0, h, chosen)
        OBVIOUS
    <2> HIDE DEF chosen
    <2> QED
        BY ONLY TwoParts(n, h, h), <1>1, <2>1, SwapInBuffer
<1>4. m2 = Cardinality({p \in 0..(n - 1) : D[p] < first + h})
    <2> DEFINE b == first + h
    <2>1. m2 = Count(buf, n, b)
        OBVIOUS
    <2> HIDE DEF b, D
    <2>2. Count(buf, n, b) = Cardinality({p \in 0..(n - 1) : Dests(buf, n)[p] < b})
        BY ONLY <1>2, CountOfSlots
    <2> QED
        BY <2>1, <2>2 DEF b, D
<1>5. /\ m2 \in 0..h
      /\ Arranged(Window(E, 0, h), h, first, ofs % h, m2, top)
      /\ Arranged(Window(E, h, h), h, first + h, (ofs + m2) % h, m - m2, top)
    <2>1. first \in Int
        OBVIOUS
    <2>2. E = Crossed(D, 2 * h, h, {i \in 0..(h - 1) : SwapsPair(ofs, m2, h, i)})
        BY <1>2
    <2>3. Arranged(D, 2 * h, first, ofs, m, top)
        BY <1>1, <1>2
    <2>4. m2 = Cardinality({p \in 0..(2 * h - 1) : D[p] < first + h})
        BY <1>2, <1>4
    <2> HIDE DEF D, E
    <2> QED
        BY ONLY <1>2, <2>1, <2>2, <2>3, <2>4, HalvesArranged
<1>6. ofs \in 0..(n - 1)
    BY <1>1 DEF Arranged
<1> HIDE DEF chosen, D, E
<1>7. PartOf(left, split, 0, h) /\ PartOf(rght, split, h, h)
    BY ONLY <1>2, <1>3, Cut
<1> HIDE DEF left, rght
<1>8. Laid(left, h, first, ofs % h, m2, top)
    <2>1. 0 \in Nat /\ 0 + h <= n
        BY <1>2
    <2> DEFINE o == ofs % h
    <2>2. Arranged(Window(E, 0, h), h, first, o, m2, top)
        BY <1>5
    <2> HIDE DEF o
    <2>3. Laid(left, h, first, o, m2, top)
        BY ONLY <1>1, <1>2, <1>3, <1>7, <2>1, <2>2, PartLaid
    <2> QED
        BY <2>3 DEF o
<1>9. Laid(rght, h, first + h, (ofs + m2) % h, m - m2, top)
    <2> DEFINE o == (ofs + m2) % h
               f == first + h
               s == m - m2
    <2>1. Arranged(Window(E, h, h), h, f, o, s, top)
        BY <1>5
    <2> HIDE DEF o, f, s
    <2>2. Laid(rght, h, f, o, s, top)
        BY ONLY <1>1, <1>2, <1>3, <1>7, <2>1, PartLaid
    <2> QED
        BY <2>2 DEF o, f, s
<1> QED
    BY <1>3, <1>5, <1>6, <1>8, <1>9 DEF left, rght

(* The parts that distribute_inner makes. *)
LEMMA PartsLaid ==
    ASSUME NEW n, NEW k, NEW g, TwoParts(n, k, g), NEW buf, NEW first \in Nat,
           NEW m, NEW top, Laid(buf, n, first, 0, m, top), NEW m2, m2 = Count(buf, k, first + k),
           NEW split, split = SwapPairs(buf, 0, g, m2..(k - 1))
    PROVE  /\ m2 \in 0..k /\ (g - k + m2) % g \in Nat
           /\ split \in Seq(EntryRows) /\ Len(split) = n /\ SameElements(split, buf, n)
           /\ Laid(SubSeq(split, 1, k), k, first, 0, m2, top)
           /\ Laid(SubSeq(split, k + 1, n), g, first + k, (g - k + m2) % g, m - m2, top)
<1> DEFINE chosen == m2..(k - 1)
           D == Dests(buf, n)
           E == Crossed(D, n, g, chosen)
           left == SubSeq(split, 1, k)
           rght == SubSeq(split, k + 1, n)
<1>1. /\ buf \in Seq(EntryRows) /\ Len(buf) = n /\ Arranged(D, n, first, 0, m, top)
      /\ Marked(buf, n, top)
    BY DEF Laid, Marked
<1>2. n \in Nat /\ k \in Nat /\ g \in Nat /\ k + g <= n /\ g = n - k /\ k \in 0..n /\ k <= g
    BY DEF TwoParts
<1>4. m2 = Cardinality({p \in 0..(k - 1) : D[p] < first + k})
    <2> DEFINE b == first + k
    <2>1. m2 = Count(buf, k, b)
        OBVIOUS
    <2> HIDE DEF b, D
    <2>2. Count(buf, k, b) = Cardinality({p \in 0..(k - 1) : Dests(buf, n)[p] < b})
        BY ONLY <1>2, CountOfSlots
    <2> QED
        BY <2>1, <2>2 DEF b, D
<1>5. /\ m2 \in 0..k /\ (g - k + m2) % g \in 0..(g - 1)
      /\ Arranged(Window(E, 0, k), k, first, 0, m2, top)
      /\ Arranged(Window(E, k, g), g, first + k, (g - k + m2) % g, m - m2, top)
    <2>1. first \in Int
        OBVIOUS
    <2>2. E = Crossed(D, n, g, m2..(k - 1))
        OBVIOUS
    <2>3. Arranged(D, n, first, 0, m, top)
        BY <1>1
    <2> HIDE DEF D, E
    <2> QED
        BY ONLY TwoParts(n, k, g), <1>4, <2>1, <2>2, <2>3, InnerArranged
<1>3. /\ split \in Seq(EntryRows) /\ Len(split) = n
      /\ Holds(split, n, E) /\ SameElements(split, buf, n)
    <2>1. chosen \in SUBSET (0..(k - 1)) /\ split = SwapPairs(buf, 0, g, chosen)
        BY <1>2, <1>5
    <2> HIDE DEF chosen
    <2> QED
        BY ONLY TwoParts(n, k, g), <1>1, <2>1, SwapInBuffer
<1>6. (g - k + m2) % g \in Nat
    BY <1>5
<1> HIDE DEF chosen, D, E
<1>7. PartOf(left, split, 0, k) /\ PartOf(rght, split, k, g)
    BY ONLY <1>2, <1>3, Cut
<1> HIDE DEF left, rght
<1>8. Laid(left, k, first, 0, m2, top)
    <2>1. 0 \in Nat /\ 0 + k <= n
        BY <1>2
    <2> QED
        BY ONLY <1>1, <1>2, <1>3, <1>5, <1>7, <2>1, PartLaid
<1>9. Laid(rght, g, first + k, (g - k + m2) % g, m - m2, top)
    <2> DEFINE o == (g - k + m2) % g
               f == first + k
               s == m - m2
    <2>1. Arranged(Window(E, k, g), g, f, o, s, top)
        BY <1>5
    <2> HIDE DEF o, f, s
    <2>2. Laid(rght, g, f, o, s, top)
        BY ONLY <1>1, <1>2, <1>3, <1>7, <2>1, PartLaid
    <2> QED
        BY <2>2 DEF o, f, s
<1> QED
    BY <1>3, <1>5, <1>6, <1>8, <1>9 DEF left, rght

(* Two rows of a rotated part, by the count of those of the first slot.    *)
LEMMA TwoRotated ==
    ASSUME NEW buf, NEW first \in Nat, NEW ofs, NEW m, NEW top, Laid(buf, 2, first, ofs, m, top),
           NEW m2, m2 = Count(buf, 2, first + 1)
    PROVE  InSlots(buf, SwapPairs(buf, 0, 1, IF m2 = ofs THEN {0} ELSE {}), 2, first)
<1> DEFINE chosen == {i \in 0..(1 - 1) : SwapsPair(ofs, m2, 1, i)}
           split  == SwapPairs(buf, 0, 1, chosen)
           left   == SubSeq(split, 1, 1)
           right  == SubSeq(split, 1 + 1, 2)
<1>1. /\ m2 \in 0..1 /\ ofs \in 0..(2 - 1)
      /\ split \in Seq(EntryRows) /\ Len(split) = 2 /\ SameElements(split, buf, 2)
      /\ Laid(left, 1, first, ofs % 1, m2, top)
      /\ Laid(right, 1, first + 1, (ofs + m2) % 1, m - m2, top)
    <2> DEFINE one == 1
               two == 2
    <2>1. TwoParts(two, one, one)
        BY DEF TwoParts
    <2>2. Laid(buf, two, first, ofs, m, top) /\ m2 = Count(buf, two, first + one)
        OBVIOUS
    <2>3. split = SwapPairs(buf, 0, one, {i \in 0..(one - 1) : SwapsPair(ofs, m2, one, i)})
        OBVIOUS
    <2> HIDE DEF split
    <2> HIDE DEF one, two
    <2>4. /\ m2 \in 0..one /\ ofs \in 0..(two - 1)
          /\ split \in Seq(EntryRows) /\ Len(split) = two /\ SameElements(split, buf, two)
          /\ Laid(SubSeq(split, 1, one), one, first, ofs % one, m2, top)
          /\ Laid(SubSeq(split, one + 1, two), one, first + one, (ofs + m2) % one, m - m2, top)
        BY ONLY <2>1, <2>2, <2>3, first \in Nat, HalvesLaid
    <2> QED
        BY <2>4 DEF one, two
<1>2. chosen = IF m2 = ofs THEN {0} ELSE {}
    <2>1. \A i \in 0..(1 - 1) : i = 0
        OBVIOUS
    <2>2. SwapsPair(ofs, m2, 1, 0) <=> m2 = ofs
        <3>1. ofs \in {0, 1} /\ m2 \in {0, 1} /\ ofs % 1 = 0 /\ (ofs + m2) % 1 = 0
            BY <1>1
        <3> QED
            BY <3>1 DEF SwapsPair, Xor
    <2> QED
        BY <2>1, <2>2
<1> HIDE DEF chosen, split
<1>3. split = left \o right /\ left[1] = split[1] /\ right[1] = split[1 + 1]
    <2>1. PartOf(left, split, 0, 1) /\ PartOf(right, split, 1, 1)
        <3>1. 2 \in Nat /\ 1 \in 0..2 /\ 1 = 2 - 1
            OBVIOUS
        <3> HIDE DEF split
        <3> QED
            BY ONLY <1>1, <3>1, Cut
    <2> HIDE DEF left, right
    <2>2. /\ left \in Seq(EntryRows) /\ Len(left) = 1 /\ left[1] = split[1]
          /\ right \in Seq(EntryRows) /\ Len(right) = 1 /\ right[1] = split[1 + 1]
        BY <2>1 DEF PartOf
    <2>3. /\ left \o right \in Seq(EntryRows) /\ Len(left \o right) = 2
          /\ (left \o right)[1] = split[1] /\ (left \o right)[2] = split[2]
        BY <2>2, ConcatProperties
    <2> DEFINE joined == left \o right
    <2> HIDE DEF joined
    <2>4. joined = split
        <3>1. joined \in [1..2 -> EntryRows] /\ split \in [1..2 -> EntryRows]
            BY <1>1, <2>3, LenProperties DEF joined
        <3>2. \A j \in 1..2 : joined[j] = split[j]
            <4>1. \A j \in 1..2 : j = 1 \/ j = 2
                OBVIOUS
            <4> QED
                BY <2>3, <4>1 DEF joined
        <3> QED
            BY <3>1, <3>2
    <2> QED
        BY <2>2, <2>4 DEF joined
<1> HIDE DEF left, right
<1>4. InSlots(left, left, 1, first) /\ InSlots(right, right, 1, first + 1)
    <2>1. first + 1 \in Nat
        OBVIOUS
    <2> QED
        BY <1>1, <2>1, OneInSlots
<1>5. InSlots(buf, left \o right, 2, first)
    <2>1. 1 \in Nat /\ 2 = 1 + 1 /\ SameElements(split, buf, 2)
        BY <1>1
    <2>2. (\A i \in 1..1 : left[i] = split[i]) /\ (\A i \in 1..1 : right[i] = split[1 + i])
        <3>1. \A i \in 1..1 : i = 1
            OBVIOUS
        <3> QED
            BY <1>3, <3>1
    <2> QED
        BY ONLY <1>4, <2>1, <2>2, first \in Nat, JoinInSlots
<1> QED
    BY <1>2, <1>3, <1>5 DEF split

(* Two rows in front, each of them wrong in the slot where it is, or not.  *)
LEMMA TwoInner ==
    ASSUME NEW buf, NEW first \in Nat, NEW m, NEW top, Laid(buf, 2, first, 0, m, top),
           NEW wrong,
           wrong <=> \/ buf[1].field_type # DIST_PADDING /\ first < buf[1].dst_idx
                     \/ buf[2].field_type # DIST_PADDING /\ buf[2].dst_idx < first + 1
    PROVE  InSlots(buf, SwapPairs(buf, 0, 1, IF wrong THEN {0} ELSE {}), 2, first)
<1> DEFINE res == SwapPairs(buf, 0, 1, IF wrong THEN {0} ELSE {})
           d == buf[1].dst_idx
           e == buf[2].dst_idx
<1>1. /\ buf \in Seq(EntryRows) /\ Len(buf) = 2
      /\ Arranged(Dests(buf, 2), 2, first, 0, m, top)
      /\ (Real(buf[1]) <=> d < top) /\ (Real(buf[2]) <=> e < top)
    BY DEF Laid
<1>2. Dests(buf, 2)[0] = d /\ Dests(buf, 2)[1] = e
    BY DEF Dests
<1>3. /\ m \in {0, 1, 2} /\ top \in Int /\ first + 2 <= top /\ d \in Int /\ e \in Int
      /\ IF 0 < m THEN first <= d /\ d < first + 2 ELSE d >= top
      /\ IF 1 < m THEN first <= e /\ e < first + 2 /\ d < e ELSE e >= top
    <2>1. 0 \in 0..(2 - 1) /\ 1 \in 0..(2 - 1) /\ Rank(2, 0, 0) = 0 /\ Rank(2, 0, 1) = 1
        BY DEF Rank
    <2>2. /\ m \in 0..2 /\ top \in Int /\ first + 2 <= top
          /\ Dests(buf, 2)[0] \in Int /\ Dests(buf, 2)[1] \in Int
          /\ 0 < m => first <= Dests(buf, 2)[0] /\ Dests(buf, 2)[0] < first + 2
          /\ 0 >= m => Dests(buf, 2)[0] >= top
          /\ 1 < m => first <= Dests(buf, 2)[1] /\ Dests(buf, 2)[1] < first + 2
          /\ 1 >= m => Dests(buf, 2)[1] >= top
          /\ 0 < 1 /\ 1 < m => Dests(buf, 2)[0] < Dests(buf, 2)[1]
        BY <1>1, <2>1 DEF Arranged
    <2> QED
        BY <1>2, <2>2
<1>4. wrong <=> (Real(buf[1]) /\ first < d) \/ (Real(buf[2]) /\ e < first + 1)
    BY DEF Real
<1>5. DOMAIN buf = {1, 2} /\ buf[1] \in EntryRows /\ buf[2] \in EntryRows
    <2>1. DOMAIN buf = 1..2 /\ \A j \in 1..2 : buf[j] \in EntryRows
        BY <1>1, LenProperties
    <2>2. 1..2 = {1, 2}
        OBVIOUS
    <2> QED
        BY <2>1, <2>2
<1>6. CASE wrong
    <2>1. Real(buf[1]) /\ d = first + 1 /\ ~Real(buf[2])
        BY <1>1, <1>3, <1>4, <1>6
    <2>2. res = <<buf[2], buf[1]>>
        <3>1. res = [j \in {1, 2} |-> buf[IF j - 1 - 0 \in {0} THEN j + 1
                                          ELSE IF j - 1 - 0 - 1 \in {0} THEN j - 1 ELSE j]]
            BY <1>5, <1>6 DEF SwapPairs
        <3>2. res = [j \in 1..2 |-> IF j = 1 THEN buf[2] ELSE buf[1]]
            BY <3>1
        <3> QED
            BY <3>2
    <2> HIDE DEF res
    <2>3. res \in Seq(EntryRows) /\ Len(res) = 2 /\ res[1] = buf[2] /\ res[2] = buf[1]
        BY <1>5, <2>2
    <2> QED
        BY <2>1, <2>3 DEF InSlots, res
<1>7. CASE ~wrong
    <2>1. /\ Real(buf[1]) => d = first
          /\ Real(buf[2]) => e = first + 1
        BY <1>1, <1>3, <1>4, <1>7
    <2>2. res = <<buf[1], buf[2]>>
        <3>1. res = [j \in {1, 2} |-> buf[IF j - 1 - 0 \in {} THEN j + 1
                                          ELSE IF j - 1 - 0 - 1 \in {} THEN j - 1 ELSE j]]
            BY <1>5, <1>7 DEF SwapPairs
        <3>2. res = [j \in 1..2 |-> IF j = 1 THEN buf[1] ELSE buf[2]]
            BY <3>1
        <3> QED
            BY <3>2
    <2> HIDE DEF res
    <2>3. res \in Seq(EntryRows) /\ Len(res) = 2 /\ res[1] = buf[1] /\ res[2] = buf[2]
        BY <1>5, <2>2
    <2> QED
        BY <2>1, <2>3 DEF InSlots, res
<1> QED
    BY <1>6, <1>7

(* g puts the rows of every arranged buffer of n rows into their slots. *)
Routes(g, n) ==
    \A buf, ofs, m, top : \A first \in Nat :
        Laid(buf, n, first, ofs, m, top) => InSlots(buf, g[buf][first][ofs], n, first)

RoutesInner(g, n) ==
    \A buf, m, top : \A first \in Nat :
        Laid(buf, n, first, 0, m, top) => InSlots(buf, g[buf][first], n, first)

(* A call routes if the calls that it makes do. *)
LEMMA HalvingRoutes ==
    ASSUME NEW n \in Nat \ {0}, n # 1 => n = 2 * (n \div 2) /\ n \div 2 \in Nat, NEW half,
           n > 2 => Routes(half, n \div 2)
    PROVE  Routes(Halving(n, half), n)
<1> SUFFICES ASSUME NEW buf, NEW ofs, NEW m, NEW top, NEW first \in Nat,
                    Laid(buf, n, first, ofs, m, top)
             PROVE  InSlots(buf, Halving(n, half)[buf][first][ofs], n, first)
    BY DEF Routes
<1>1. buf \in Seq(EntryRows) /\ ofs \in Nat
    BY DEF Laid, Arranged
<1> DEFINE h     == n \div 2
           m2    == Count(buf, n, first + h)
           split == SwapPairs(buf, 0, h, {i \in 0..(h - 1) : SwapsPair(ofs, m2, h, i)})
           left  == SubSeq(split, 1, h)
           right == SubSeq(split, h + 1, n)
           lr    == half[left][first][ofs % h]
           rr    == half[right][first + h][(ofs + m2) % h]
           res   == Halving(n, half)[buf][first][ofs]
<1>2. res = CASE n <= 1 -> buf
              [] n = 2  -> SwapPairs(buf, 0, 1, IF m2 = ofs THEN {0} ELSE {})
              [] n > 2  -> lr \o rr
    BY <1>1 DEF Halving
<1> HIDE DEF res, lr, rr
<1>3. CASE n = 1
    <2>1. res = buf
        BY <1>2, <1>3
    <2> QED
        BY <1>3, <2>1, OneInSlots DEF res
<1>4. CASE n = 2
    <2>1. h = 1
        BY <1>4
    <2>2. m2 = Count(buf, 2, first + 1)
        BY <1>4, <2>1
    <2> HIDE DEF m2
    <2>3. res = SwapPairs(buf, 0, 1, IF m2 = ofs THEN {0} ELSE {})
        BY <1>2, <1>4
    <2> QED
        BY <1>4, <2>2, <2>3, TwoRotated DEF res
<1>5. CASE n > 2
    <2>0. h \in Nat \ {0} /\ n = 2 * h /\ Routes(half, h)
        BY <1>5
    <2>2. res = lr \o rr
        BY <1>2, <1>5
    <2> HIDE DEF h
    <2>1. /\ h \in Nat \ {0} /\ n = h + h /\ first + h \in Nat /\ Routes(half, h)
          /\ TwoParts(n, h, h)
        BY <2>0 DEF TwoParts
    <2>3. /\ split \in Seq(EntryRows) /\ Len(split) = n /\ SameElements(split, buf, n)
          /\ Laid(left, h, first, ofs % h, m2, top)
          /\ Laid(right, h, first + h, (ofs + m2) % h, m - m2, top)
        <3> HIDE DEF m2, split
        <3>1. m2 = Count(buf, n, first + h)
            BY DEF m2
        <3>2. split = SwapPairs(buf, 0, h, {i \in 0..(h - 1) : SwapsPair(ofs, m2, h, i)})
            BY DEF split
        <3> QED
            BY ONLY <2>1, <3>1, <3>2, first \in Nat, Laid(buf, n, first, ofs, m, top), HalvesLaid
    <2> HIDE DEF m2, split
    <2>4. InSlots(left, lr, h, first) /\ InSlots(right, rr, h, first + h)
        BY <2>1, <2>3 DEF Routes, lr, rr
    <2>5. /\ \A i \in 1..h : left[i] = split[i]
          /\ \A i \in 1..h : right[i] = split[h + i]
        <3>1. n \in Nat /\ h \in 0..n /\ h = n - h
            BY <2>1
        <3>2. PartOf(left, split, 0, h) /\ PartOf(right, split, h, h)
            BY ONLY <2>3, <3>1, Cut
        <3>3. \A i \in 1..h : 0 + i = i
            OBVIOUS
        <3> QED
            BY <3>2, <3>3 DEF PartOf
    <2> HIDE DEF left, right
    <2>6. InSlots(buf, lr \o rr, n, first)
        BY ONLY <2>1, <2>3, <2>4, <2>5, first \in Nat, JoinInSlots
    <2> QED
        BY <2>2, <2>6 DEF res
<1> QED
    BY <1>3, <1>4, <1>5 DEF res

IsHalving(route, n) == route = [x \in 0..n |-> Halving(x, route[x \div 2])]

(* The recursion of distribute_2power has a solution. *)
LEMMA HalvingExists ==
    ASSUME NEW n \in Nat
    PROVE  \E route : IsHalving(route, n)
<1> DEFINE T == {x \in Nat : ~ \E route : IsHalving(route, x)}
<1>1. 0 \notin T
    <2> DEFINE route == [x \in 0..0 |-> Halving(0, {})]
    <2>1. \A s, t : Halving(0, s) = Halving(0, t)
        BY DEF Halving
    <2>2. \A x \in 0..0 : x = 0
        OBVIOUS
    <2>3. IsHalving(route, 0)
        BY <2>1, <2>2 DEF IsHalving
    <2> QED
        BY <2>3
<1>2. ASSUME NEW x \in 1..n, x - 1 \notin T PROVE x \notin T
    <2>1. PICK old : IsHalving(old, x - 1)
        BY <1>2
    <2> DEFINE new == [m \in 0..x |-> IF m = x THEN Halving(x, old[x \div 2]) ELSE old[m]]
    <2>2. \A m \in 0..x : m \div 2 \in 0..(x - 1)
        OBVIOUS
    <2>3. (\A m \in 0..(x - 1) : new[m] = old[m]) /\ new[x] = Halving(x, old[x \div 2])
        OBVIOUS
    <2>4. \A m \in 0..(x - 1) : old[m] = Halving(m, old[m \div 2])
        BY <2>1 DEF IsHalving
    <2>5. new = [m \in 0..x |-> new[m]]
        OBVIOUS
    <2> HIDE DEF new
    <2>6. \A m \in 0..x : new[m] = Halving(m, new[m \div 2])
        BY <2>2, <2>3, <2>4
    <2>7. IsHalving(new, x)
        BY <2>5, <2>6 DEF IsHalving
    <2> QED
        BY <2>7
<1>3. \A x \in 0..n : x \notin T
    <2> HIDE DEF T
    <2> QED
        BY <1>1, <1>2, UpTo
<1> QED
    BY <1>3

(* In the buffer, a part a power of two wide is routed, whatever its       *)
(* rotation.                                                               *)
LEMMA PowerRoutes ==
    ASSUME NEW n, Power(n)
    PROVE  Routes(distribute_2power(n), n)
<1>0. n \in Nat
    BY HalfOfPower
<1> DEFINE route == CHOOSE f : IsHalving(f, n)
<1>1. IsHalving(route, n)
    BY <1>0, HalvingExists
<1>2. distribute_2power(n) = route[n]
    BY DEF distribute_2power, IsHalving
<1> HIDE DEF route
<1>3. \A x \in 0..n : route[x] = Halving(x, route[x \div 2])
    BY <1>1 DEF IsHalving
<1> DEFINE T == {x \in Nat : \E y \in 0..x : Power(y) /\ ~Routes(route[y], y)}
<1>4. 0 \notin T
    <2>1. \A y \in 0..0 : ~Power(y)
        BY HalfOfPower
    <2> QED
        BY <2>1
<1>5. ASSUME NEW x \in 1..n, x - 1 \notin T PROVE x \notin T
    <2>1. \A y \in 0..(x - 1) : Power(y) => Routes(route[y], y)
        BY <1>5
    <2>2. ASSUME Power(x) PROVE Routes(route[x], x)
        <3>1. x # 1 => x \div 2 \in Nat /\ x = 2 * (x \div 2) /\ Power(x \div 2)
            BY <2>2, HalfOfPower
        <3>2. x > 2 => Routes(route[x \div 2], x \div 2)
            <4>1. x > 2 => x \div 2 \in 0..(x - 1)
                OBVIOUS
            <4> QED
                BY <2>1, <3>1, <4>1
        <3>3. Routes(Halving(x, route[x \div 2]), x)
            <4>1. x \in Nat \ {0}
                OBVIOUS
            <4> QED
                BY ONLY <3>1, <3>2, <4>1, HalvingRoutes
        <3> QED
            BY <1>3, <3>3
    <2>3. \A y \in 0..x : y = x \/ y \in 0..(x - 1)
        OBVIOUS
    <2> QED
        BY <2>1, <2>2, <2>3
<1>6. \A x \in 0..n : x \notin T
    <2> HIDE DEF T
    <2> QED
        BY <1>0, <1>4, <1>5, UpTo
<1>7. n \in 0..n
    BY <1>0
<1> QED
    BY <1>2, <1>6, <1>7

(* A call of distribute_inner routes if the one that it makes does. *)
LEMMA PartingRoutes ==
    ASSUME NEW n \in Nat \ {0}, NEW inner, n > 2 => RoutesInner(inner, n - aks_pow2_lt(n))
    PROVE  RoutesInner(Parting(n, inner), n)
<1> SUFFICES ASSUME NEW buf, NEW m, NEW top, NEW first \in Nat, Laid(buf, n, first, 0, m, top)
             PROVE  InSlots(buf, Parting(n, inner)[buf][first], n, first)
    BY DEF RoutesInner
<1>1. buf \in Seq(EntryRows)
    BY DEF Laid
<1> DEFINE g     == aks_pow2_lt(n)
           k     == n - g
           m2    == Count(buf, k, first + k)
           split == SwapPairs(buf, 0, g, m2..(k - 1))
           left  == SubSeq(split, 1, k)
           right == SubSeq(split, k + 1, n)
           lr    == inner[left][first]
           rr    == distribute_2power(g)[right][first + k][(g - k + m2) % g]
           wrong == \/ buf[1].field_type # DIST_PADDING /\ first < buf[1].dst_idx
                    \/ buf[2].field_type # DIST_PADDING /\ buf[2].dst_idx < first + 1
           res   == Parting(n, inner)[buf][first]
<1>2. res = CASE n <= 1 -> buf
              [] n = 2  -> SwapPairs(buf, 0, 1, IF wrong THEN {0} ELSE {})
              [] n > 2  -> lr \o rr
    BY <1>1 DEF Parting
<1> HIDE DEF res, lr, rr
<1>3. CASE n = 1
    <2>1. res = buf
        BY <1>2, <1>3
    <2> QED
        BY <1>3, <2>1, OneInSlots DEF res
<1>4. CASE n = 2
    <2>1. res = SwapPairs(buf, 0, 1, IF wrong THEN {0} ELSE {})
        BY <1>2, <1>4
    <2>2. Laid(buf, 2, first, 0, m, top)
        BY <1>4
    <2>3. InSlots(buf, SwapPairs(buf, 0, 1, IF wrong THEN {0} ELSE {}), 2, first)
        BY ONLY <2>2, first \in Nat, TwoInner
    <2> QED
        BY <1>4, <2>1, <2>3 DEF res
<1>5. CASE n > 2
    <2>1. g \in Nat \ {0} /\ Power(g) /\ g < n /\ n <= 2 * g
        BY <1>5, LargestPower
    <2>2. res = lr \o rr /\ RoutesInner(inner, k)
        BY <1>2, <1>5
    <2> HIDE DEF g
    <2>0. k = n - g
        OBVIOUS
    <2> HIDE DEF k
    <2>3. TwoParts(n, k, g) /\ k \in Nat /\ n = k + g /\ first + k \in Nat
        BY <2>0, <2>1 DEF TwoParts
    <2>4. /\ m2 \in 0..k /\ (g - k + m2) % g \in Nat
          /\ split \in Seq(EntryRows) /\ Len(split) = n /\ SameElements(split, buf, n)
          /\ Laid(left, k, first, 0, m2, top)
          /\ Laid(right, g, first + k, (g - k + m2) % g, m - m2, top)
        <3> HIDE DEF m2, split
        <3>1. m2 = Count(buf, k, first + k)
            BY DEF m2
        <3>2. split = SwapPairs(buf, 0, g, m2..(k - 1))
            BY DEF split
        <3>3. TwoParts(n, k, g)
            BY <2>3
        <3> QED
            BY ONLY <3>1, <3>2, <3>3, first \in Nat, Laid(buf, n, first, 0, m, top), PartsLaid
    <2> HIDE DEF m2, split
    <2>5. InSlots(left, lr, k, first)
        BY <2>2, <2>4 DEF RoutesInner, lr
    <2>6. InSlots(right, rr, g, first + k)
        <3>1. Routes(distribute_2power(g), g)
            BY <2>1, PowerRoutes
        <3> QED
            BY <2>3, <2>4, <3>1 DEF Routes, rr
    <2>7. /\ \A i \in 1..k : left[i] = split[i]
          /\ \A i \in 1..g : right[i] = split[k + i]
        <3>1. n \in Nat /\ k \in 0..n /\ g = n - k
            BY <2>1, <2>3
        <3>2. PartOf(left, split, 0, k) /\ PartOf(right, split, k, g)
            BY ONLY <2>4, <3>1, Cut
        <3>3. \A i \in 1..k : 0 + i = i
            OBVIOUS
        <3> QED
            BY <3>2, <3>3 DEF PartOf
    <2> HIDE DEF left, right
    <2>8. InSlots(buf, lr \o rr, n, first)
        BY ONLY <2>1, <2>3, <2>4, <2>5, <2>6, <2>7, first \in Nat, JoinInSlots
    <2> QED
        BY <2>2, <2>8 DEF res
<1> QED
    BY <1>3, <1>4, <1>5 DEF res

IsParting(route, n) == route = [x \in 0..n |-> Parting(x, route[x - aks_pow2_lt(x)])]

(* The recursion of distribute_inner has a solution. *)
LEMMA PartingExists ==
    ASSUME NEW n \in Nat
    PROVE  \E route : IsParting(route, n)
<1> DEFINE T == {x \in Nat : ~ \E route : IsParting(route, x)}
<1>0. \A s, t : Parting(0, s) = Parting(0, t) /\ Parting(1, s) = Parting(1, t)
    BY DEF Parting
<1>1. 0 \notin T
    <2> DEFINE route == [x \in 0..0 |-> Parting(0, {})]
    <2>1. \A x \in 0..0 : x = 0
        OBVIOUS
    <2>2. IsParting(route, 0)
        BY <1>0, <2>1 DEF IsParting
    <2> QED
        BY <2>2
<1>2. ASSUME NEW x \in 1..n, x - 1 \notin T PROVE x \notin T
    <2>1. PICK old : IsParting(old, x - 1)
        BY <1>2
    <2> DEFINE new == [m \in 0..x |-> IF m = x THEN Parting(x, old[x - aks_pow2_lt(x)]) ELSE old[m]]
    <2>2. ASSUME NEW m \in 0..x, m >= 2 PROVE m - aks_pow2_lt(m) \in 0..(x - 1)
        <3>1. aks_pow2_lt(m) \in Nat \ {0} /\ aks_pow2_lt(m) < m
            BY <2>2, LargestPower
        <3> QED
            BY <3>1
    <2>3. (\A m \in 0..(x - 1) : new[m] = old[m]) /\ new[x] = Parting(x, old[x - aks_pow2_lt(x)])
        OBVIOUS
    <2>4. \A m \in 0..(x - 1) : old[m] = Parting(m, old[m - aks_pow2_lt(m)])
        BY <2>1 DEF IsParting
    <2>5. new = [m \in 0..x |-> new[m]]
        OBVIOUS
    <2> HIDE DEF new
    <2>6. ASSUME NEW m \in 0..x PROVE new[m] = Parting(m, new[m - aks_pow2_lt(m)])
        <3>1. new[m] = Parting(m, old[m - aks_pow2_lt(m)])
            <4>1. m = x \/ m \in 0..(x - 1)
                OBVIOUS
            <4> QED
                BY <2>3, <2>4, <4>1
        <3>2. CASE m >= 2
            BY <2>2, <2>3, <3>1, <3>2
        <3>3. CASE m = 0 \/ m = 1
            BY <1>0, <3>1, <3>3
        <3> QED
            BY <3>2, <3>3
    <2>7. IsParting(new, x)
        BY <2>5, <2>6 DEF IsParting
    <2> QED
        BY <2>7
<1>3. \A x \in 0..n : x \notin T
    <2> HIDE DEF T
    <2> QED
        BY <1>1, <1>2, UpTo
<1> QED
    BY <1>3

(* In the buffer, a part of any width is routed. *)
THEOREM InnerRoutes ==
    ASSUME NEW n \in Nat \ {0}
    PROVE  RoutesInner(distribute_inner(n), n)
<1> DEFINE route == CHOOSE f : IsParting(f, n)
<1>1. IsParting(route, n)
    BY PartingExists
<1>2. distribute_inner(n) = route[n]
    BY DEF distribute_inner, IsParting
<1> HIDE DEF route
<1>3. \A x \in 0..n : route[x] = Parting(x, route[x - aks_pow2_lt(x)])
    BY <1>1 DEF IsParting
<1> DEFINE T == {x \in Nat : \E y \in 1..x : ~RoutesInner(route[y], y)}
<1>4. 0 \notin T
    OBVIOUS
<1>5. ASSUME NEW x \in 1..n, x - 1 \notin T PROVE x \notin T
    <2>1. \A y \in 1..(x - 1) : RoutesInner(route[y], y)
        BY <1>5
    <2>2. x > 2 => RoutesInner(route[x - aks_pow2_lt(x)], x - aks_pow2_lt(x))
        <3>1. x > 2 => aks_pow2_lt(x) \in Nat \ {0} /\ aks_pow2_lt(x) < x
            BY LargestPower
        <3>2. x > 2 => x - aks_pow2_lt(x) \in 1..(x - 1)
            BY <3>1
        <3> QED
            BY <2>1, <3>2
    <2>3. RoutesInner(Parting(x, route[x - aks_pow2_lt(x)]), x)
        <3>1. x \in Nat \ {0}
            OBVIOUS
        <3> QED
            BY ONLY <2>2, <3>1, PartingRoutes
    <2>4. RoutesInner(route[x], x)
        BY <1>3, <2>3
    <2>5. \A y \in 1..x : y = x \/ y \in 1..(x - 1)
        OBVIOUS
    <2> QED
        BY <2>1, <2>4, <2>5
<1>6. \A x \in 0..n : x \notin T
    <2> HIDE DEF T
    <2> QED
        BY <1>4, <1>5, UpTo
<1>7. n \in 0..n /\ n \in 1..n
    OBVIOUS
<1> QED
    BY <1>2, <1>6, <1>7

-----------------------------------------------------------------------------
(* The array in the host's memory, chunk by chunk. *)

(* Where the row of a slot goes: padding to behind all of them. *)
Dst(e, top) == IF Real(e) THEN e.dst_idx ELSE top

Slots(c) == (c.offset + 1)..(c.offset + c.n)

(* The destinations that the slots of a call hold. *)
View(ent, c) == [p \in 0..(c.n - 1) |-> Dst(ent[c.offset + p + 1], Len(ent))]

(* The pairs that the call swaps. *)
Chosen(c) == {i \in 0..(Pairs(c) - 1) : PairSwaps(c, i)}

(* How many of the first k slots hold rows of the left part. *)
CountBelow(D, b, k) == Cardinality({p \in 0..(k - 1) : D[p] < b})

Below(c, D, k) == CountBelow(D, Boundary(c), k)

(* Its pairs from lo on and below hi swapped. *)
SwappedIn(c, D, lo, hi) == Crossed(D, c.n, Gap(c), Chosen(c) \cap lo..(hi - 1))

(* V is the arranged part with the first hi pairs swapped, and all the     *)
(* rows of the left part have been counted in it.                          *)
SwappedUpTo(c, V, top, hi) ==
    \E D, m : /\ Arranged(D, c.n, c.offset, c.ofs, m, top)
              /\ c.m2 = Below(c, D, Scanned(c))
              /\ V = SwappedIn(c, D, 0, hi)

(* How far the call is: it found its part arranged and has counted the     *)
(* rows of the left part in the chunks scanned, or has counted them all    *)
(* and swapped the pairs of the chunks swapped.                            *)
Progress(c, V, top) ==
    \/ /\ c.phase = "scan"
       /\ \E m : Arranged(V, c.n, c.offset, c.ofs, m, top)
       /\ c.n > 2 => c.chunk \in 0..Scanned(c)
       /\ c.m2 = Below(c, V, c.chunk)
    \/ /\ c.phase = "swap" /\ c.n > AKS_BUFFER /\ c.chunk \in 0..Pairs(c)
       /\ SwappedUpTo(c, V, top, c.chunk)

(* A pending call, on the array ent. *)
Working(c, ent) ==
    /\ CallOK(c) /\ c.n >= 1 /\ c.index_start = c.offset /\ c.offset + c.n <= Len(ent)
    /\ c.kind = "inner" => c.ofs = 0
    /\ Progress(c, View(ent, c), Len(ent))

Idle(c) == c.phase = "scan" /\ c.chunk = 0 /\ c.m2 = 0

(* A row of an array of so many slots, encrypted or not. *)
GoodRow(e, top) == Decrypted(e) \in EntryRows /\ (Real(e) => e.dst_idx \in 0..(top - 1))

(* The slot holds the row that names it, or none. *)
Home(e, j) == Real(e) => e.dst_idx = j - 1

(* The distribution under way: every pending call finds its own part of    *)
(* the array arranged, and every slot in no part is done with.             *)
Parted ==
    /\ IsSeq(stack) /\ IsSeq(entries)
    /\ \A j \in 1..Len(entries) : GoodRow(entries[j], Len(entries))
    /\ \A s \in 1..Len(stack) : Working(stack[s], entries)
    /\ \A s, t \in 1..Len(stack) : s # t => Slots(stack[s]) \cap Slots(stack[t]) = {}
    /\ \A s \in 2..Len(stack) : Idle(stack[s])
    /\ \A j \in 1..Len(entries) : Home(entries[j], j) \/ \E s \in 1..Len(stack) : j \in Slots(stack[s])

-----------------------------------------------------------------------------
(* Encrypting a row changes nothing of where it goes. *)
LEMMA FlagGoesAlong ==
    ASSUME NEW e, NEW top
    PROVE  /\ Dst(Encrypted(e), top) = Dst(e, top)
           /\ Real(Encrypted(e)) <=> Real(e)
           /\ Encrypted(e).dst_idx = e.dst_idx
           /\ Decrypted(Encrypted(e)) = Decrypted(e)
           /\ e \in EntryRows => Decrypted(e) \in EntryRows
<1>1. /\ Encrypted(e).field_type = e.field_type /\ Encrypted(e).dst_idx = e.dst_idx
      /\ Decrypted(Encrypted(e)) = Decrypted(e)
    BY DEF Encrypted, Decrypted, WithFlag, Row
<1>2. ASSUME e \in EntryRows PROVE Decrypted(e) \in EntryRows
    BY <1>2 DEF Decrypted, WithFlag, Row, EntryRows
<1> QED
    BY <1>1, <1>2 DEF Dst, Real

(* More pairs swapped, others than before. *)
LEMMA SwappedTwice ==
    ASSUME NEW n, NEW k, NEW g, TwoParts(n, k, g), NEW D,
           NEW A \in SUBSET (0..(k - 1)), NEW B \in SUBSET (0..(k - 1)), A \cap B = {}
    PROVE  Crossed(Crossed(D, n, g, B), n, g, A) = Crossed(D, n, g, A \cup B)
<1> DEFINE V == Crossed(D, n, g, B)
           W == Crossed(V, n, g, A)
           C == A \cup B
<1>1. k \in Nat \ {0} /\ g \in Nat /\ k <= g /\ n = k + g
    BY DEF TwoParts
<1>2. \A p \in Int : p \in C <=> p \in A \/ p \in B
    OBVIOUS
<1>3. \A p \in Int : p \in C => p \in 0..(k - 1)
    OBVIOUS
<1>4. \A p \in Int : ~(p \in A /\ p \in B)
    OBVIOUS
<1>5. /\ V = [p \in 0..(n - 1) |-> IF p \in B THEN D[p + g] ELSE IF p - g \in B THEN D[p - g] ELSE D[p]]
      /\ W = [p \in 0..(n - 1) |-> IF p \in A THEN V[p + g] ELSE IF p - g \in A THEN V[p - g] ELSE V[p]]
    BY DEF Crossed
<1> HIDE DEF C, V, W
<1>6. ASSUME NEW p \in 0..(n - 1)
      PROVE  W[p] = IF p \in C THEN D[p + g] ELSE IF p - g \in C THEN D[p - g] ELSE D[p]
    <2>0. p \in Int /\ p + g \in Int /\ p - g \in Int /\ (p + g) - g = p /\ (p - g) + g = p /\ p - g - g \in Int
        BY <1>1
    <2>1. CASE p \in A
        <3>1. p \in C /\ p \notin B /\ p \in 0..(k - 1)
            BY <1>2, <1>3, <1>4, <2>0, <2>1
        <3>2. p + g \in 0..(n - 1) /\ ~(p + g \in 0..(k - 1))
            BY <1>1, <3>1
        <3>3. p + g \notin B
            BY <1>2, <1>3, <2>0, <3>2
        <3>4. W[p] = V[p + g]
            BY <1>5, <2>1
        <3>5. V[p + g] = D[p + g]
            BY <1>5, <2>0, <3>1, <3>2, <3>3
        <3> QED
            BY <3>1, <3>4, <3>5
    <2>2. CASE p \notin A /\ p - g \in A
        <3>1. p - g \in C /\ p - g \notin B /\ p - g \in 0..(k - 1)
            BY <1>2, <1>3, <1>4, <2>0, <2>2
        <3>2. ~(p \in 0..(k - 1)) /\ ~(p - g - g \in 0..(k - 1)) /\ p - g \in 0..(n - 1)
            BY <1>1, <3>1
        <3>3. p \notin C /\ p - g - g \notin B
            BY <1>2, <1>3, <2>0, <3>2
        <3>4. W[p] = V[p - g]
            BY <1>5, <2>2
        <3>5. V[p - g] = D[p - g]
            BY <1>5, <3>1, <3>2, <3>3
        <3> QED
            BY <3>1, <3>3, <3>4, <3>5
    <2>3. CASE p \notin A /\ p - g \notin A
        <3>1. (p \in C <=> p \in B) /\ (p - g \in C <=> p - g \in B)
            BY <1>2, <2>0, <2>3
        <3> QED
            BY <1>5, <2>3, <3>1
    <2> QED
        BY <2>1, <2>2, <2>3
<1>7. Crossed(D, n, g, C) = [p \in 0..(n - 1) |-> IF p \in C THEN D[p + g]
                                ELSE IF p - g \in C THEN D[p - g] ELSE D[p]]
    BY DEF Crossed
<1>8. W = [p \in 0..(n - 1) |-> W[p]]
    BY <1>5
<1> QED
    BY <1>6, <1>7, <1>8 DEF C, V, W

(* A call's view is of its own slots only. *)
LEMMA ViewOfSlots ==
    ASSUME NEW c, c.offset \in Nat, c.n \in Nat, NEW ent, NEW new, Len(new) = Len(ent),
           \A j \in Slots(c) : new[j] = ent[j]
    PROVE  View(new, c) = View(ent, c)
<1>1. \A p \in 0..(c.n - 1) : c.offset + p + 1 \in Slots(c)
    BY DEF Slots
<1> QED
    BY <1>1 DEF View

(* The first call gives way to k calls on parts of its own part. *)
Replaces(k) ==
    /\ k \in 0..2 /\ IsSeq(stack') /\ Len(stack') = Len(stack) - 1 + k
    /\ \A s \in 2..Len(stack) : stack'[s - 1 + k] = stack[s]
    /\ \A s \in 1..k : Working(stack'[s], entries') /\ Slots(stack'[s]) \subseteq Slots(stack[1])
    /\ k = 2 => Slots(stack'[1]) \cap Slots(stack'[2]) = {} /\ Idle(stack'[2])

(* What it writes are rows, in its part; what it leaves to none is done. *)
Settles(k) ==
    /\ IsSeq(entries') /\ Len(entries') = Len(entries)
    /\ \A j \in 1..Len(entries) : GoodRow(entries'[j], Len(entries))
    /\ \A j \in 1..Len(entries) : j \notin Slots(stack[1]) => entries'[j] = entries[j]
    /\ \A j \in Slots(stack[1]) : Home(entries'[j], j) \/ \E s \in 1..k : j \in Slots(stack'[s])

(* A call works on whatever others do elsewhere. *)
LEMMA WorkingStays ==
    ASSUME NEW c, NEW ent, NEW new, Working(c, ent), Len(new) = Len(ent),
           \A j \in Slots(c) : new[j] = ent[j]
    PROVE  Working(c, new)
<1>1. c.offset \in Nat /\ c.n \in Nat
    BY DEF Working, CallOK
<1>2. View(new, c) = View(ent, c)
    BY <1>1, ViewOfSlots
<1> QED
    BY <1>2 DEF Working

(* Then every call still finds its part as it must be. *)
LEMMA PartsReplaced ==
    ASSUME Parted, stack # <<>>, NEW k, Replaces(k), Settles(k)
    PROVE  Parted'
<1>1. /\ IsSeq(stack) /\ Len(stack) \in Nat /\ IsSeq(entries) /\ Len(entries) \in Nat
      /\ \A s \in 1..Len(stack) : Working(stack[s], entries)
      /\ \A s, t \in 1..Len(stack) : s # t => Slots(stack[s]) \cap Slots(stack[t]) = {}
      /\ \A s \in 2..Len(stack) : Idle(stack[s])
      /\ \A j \in 1..Len(entries) :
            Home(entries[j], j) \/ \E s \in 1..Len(stack) : j \in Slots(stack[s])
    BY DEF Parted, IsSeq
<1>2. Len(stack) >= 1
    BY <1>1, TailOfSeq
<1>3. /\ k \in 0..2 /\ IsSeq(stack') /\ Len(stack') = Len(stack) - 1 + k
      /\ \A s \in 2..Len(stack) : stack'[s - 1 + k] = stack[s]
      /\ \A s \in 1..k : Working(stack'[s], entries') /\ Slots(stack'[s]) \subseteq Slots(stack[1])
      /\ k = 2 => Slots(stack'[1]) \cap Slots(stack'[2]) = {} /\ Idle(stack'[2])
    BY DEF Replaces
<1>4. /\ IsSeq(entries') /\ Len(entries') = Len(entries)
      /\ \A j \in 1..Len(entries) : GoodRow(entries'[j], Len(entries))
      /\ \A j \in 1..Len(entries) : j \notin Slots(stack[1]) => entries'[j] = entries[j]
      /\ \A j \in Slots(stack[1]) : Home(entries'[j], j) \/ \E s \in 1..k : j \in Slots(stack'[s])
    BY DEF Settles
<1>5. ASSUME NEW s \in 1..Len(stack'), ~(s \in 1..k)
      PROVE  s + 1 - k \in 2..Len(stack) /\ stack'[s] = stack[s + 1 - k]
    <2>1. s + 1 - k \in 2..Len(stack) /\ (s + 1 - k) - 1 + k = s
        BY <1>1, <1>2, <1>3, <1>5
    <2> QED
        BY <1>3, <2>1
<1>6. ASSUME NEW s \in 2..Len(stack)
      PROVE  /\ \A j \in Slots(stack[s]) : j \in 1..Len(entries) /\ j \notin Slots(stack[1])
             /\ Working(stack[s], entries')
    <2>1. s \in 1..Len(stack) /\ 1 \in 1..Len(stack) /\ s # 1
        BY <1>1, <1>2
    <2>2. Working(stack[s], entries) /\ Slots(stack[s]) \cap Slots(stack[1]) = {}
        BY <1>1, <2>1
    <2>3. stack[s].offset \in Nat /\ stack[s].n \in Nat /\ stack[s].offset + stack[s].n <= Len(entries)
        BY <2>2 DEF Working, CallOK
    <2>4. \A j \in Slots(stack[s]) : j \in 1..Len(entries) /\ j \notin Slots(stack[1])
        BY <1>1, <2>2, <2>3 DEF Slots
    <2>5. \A j \in Slots(stack[s]) : entries'[j] = entries[j]
        BY <1>4, <2>4
    <2>6. Working(stack[s], entries')
        BY <1>4, <2>2, <2>5, WorkingStays
    <2> QED
        BY <2>4, <2>6
<1>7. \A s \in 1..Len(stack') : Working(stack'[s], entries')
    <2> SUFFICES ASSUME NEW s \in 1..Len(stack') PROVE Working(stack'[s], entries')
        OBVIOUS
    <2>1. CASE s \in 1..k
        BY <1>3, <2>1
    <2>2. CASE ~(s \in 1..k)
        BY <1>5, <1>6, <2>2
    <2> QED
        BY <2>1, <2>2
<1>8. ASSUME NEW s \in 1..Len(stack'), NEW t \in 1..Len(stack'), s < t
      PROVE  Slots(stack'[s]) \cap Slots(stack'[t]) = {}
    <2>1. CASE t \in 1..k
        <3>1. k = 2 /\ s = 1 /\ t = 2
            BY <1>3, <1>8, <2>1
        <3> QED
            BY <1>3, <3>1
    <2>2. CASE ~(t \in 1..k) /\ s \in 1..k
        <3>1. Slots(stack'[s]) \subseteq Slots(stack[1])
            BY <1>3, <2>2
        <3>2. t + 1 - k \in 2..Len(stack) /\ stack'[t] = stack[t + 1 - k]
            BY <1>5, <2>2
        <3> QED
            BY <1>6, <3>1, <3>2
    <2>3. CASE ~(t \in 1..k) /\ ~(s \in 1..k)
        <3>1. t + 1 - k \in 2..Len(stack) /\ stack'[t] = stack[t + 1 - k]
            BY <1>5, <2>3
        <3>2. s + 1 - k \in 2..Len(stack) /\ stack'[s] = stack[s + 1 - k]
            BY <1>5, <2>3
        <3>3. s + 1 - k \in 1..Len(stack) /\ t + 1 - k \in 1..Len(stack) /\ s + 1 - k # t + 1 - k
            BY <1>1, <1>3, <1>8, <3>1, <3>2
        <3> QED
            BY <1>1, <3>1, <3>2, <3>3
    <2> QED
        BY <2>1, <2>2, <2>3
<1>9. \A s, t \in 1..Len(stack') : s # t => Slots(stack'[s]) \cap Slots(stack'[t]) = {}
    <2> SUFFICES ASSUME NEW s \in 1..Len(stack'), NEW t \in 1..Len(stack'), s # t
                 PROVE  Slots(stack'[s]) \cap Slots(stack'[t]) = {}
        OBVIOUS
    <2>1. s < t \/ t < s
        BY <1>1, <1>3
    <2> QED
        BY <1>8, <2>1
<1>10. \A s \in 2..Len(stack') : Idle(stack'[s])
    <2> SUFFICES ASSUME NEW s \in 2..Len(stack') PROVE Idle(stack'[s])
        OBVIOUS
    <2>0. s \in 1..Len(stack')
        BY <1>1, <1>3
    <2>1. CASE s \in 1..k
        <3>1. k = 2 /\ s = 2
            BY <1>3, <2>1
        <3> QED
            BY <1>3, <3>1
    <2>2. CASE ~(s \in 1..k)
        BY <1>1, <1>5, <2>0, <2>2
    <2> QED
        BY <2>1, <2>2
<1>11. ASSUME NEW j \in 1..Len(entries)
       PROVE  Home(entries'[j], j) \/ \E s \in 1..Len(stack') : j \in Slots(stack'[s])
    <2>0. \A s \in 1..k : s \in 1..Len(stack')
        BY <1>1, <1>2, <1>3
    <2>1. CASE j \in Slots(stack[1])
        BY <1>4, <2>0, <2>1
    <2>2. CASE j \notin Slots(stack[1]) /\ Home(entries[j], j)
        BY <1>4, <2>2
    <2>3. CASE j \notin Slots(stack[1]) /\ \E s \in 1..Len(stack) : j \in Slots(stack[s])
        <3>1. PICK s \in 1..Len(stack) : j \in Slots(stack[s])
            BY <2>3
        <3>2. s \in 2..Len(stack) /\ s - 1 + k \in 1..Len(stack')
            BY <1>1, <1>2, <1>3, <2>3, <3>1
        <3>3. stack'[s - 1 + k] = stack[s]
            BY <1>3, <3>2
        <3> QED
            BY <3>1, <3>2, <3>3
    <2> QED
        BY <1>1, <2>1, <2>2, <2>3
<1> QED
    BY <1>3, <1>4, <1>7, <1>9, <1>10, <1>11 DEF Parted

(* The first call, what it knows. *)
LEMMA FirstCall ==
    ASSUME Parted, stack # <<>>, NEW c, c = stack[1]
    PROVE  /\ Head(stack) = c /\ Working(c, entries)
           /\ c.kind \in {"inner", "2power"} /\ CallOK(c) /\ c.offset \in Nat /\ c.n \in Nat \ {0}
           /\ c.offset + c.n <= Len(entries) /\ Len(entries) \in Nat /\ IsSeq(entries)
           /\ DOMAIN entries = 1..Len(entries) /\ c.index_start = c.offset
           /\ \A j \in Slots(c) : j \in 1..Len(entries)
           /\ \A j \in 1..Len(entries) : GoodRow(entries[j], Len(entries))
<1>1. /\ IsSeq(stack) /\ Len(stack) \in Nat /\ IsSeq(entries) /\ Len(entries) \in Nat
      /\ \A s \in 1..Len(stack) : Working(stack[s], entries)
      /\ \A j \in 1..Len(entries) : GoodRow(entries[j], Len(entries))
    BY DEF Parted, IsSeq
<1>2. Head(stack) = c /\ 1 \in 1..Len(stack)
    BY <1>1, TailOfSeq
<1>3. Working(c, entries)
    BY <1>1, <1>2
<1>4. c.offset \in Nat /\ c.n \in Nat \ {0} /\ c.offset + c.n <= Len(entries) /\ c.index_start = c.offset
      /\ CallOK(c) /\ c.kind \in {"inner", "2power"}
    BY <1>3 DEF Working, CallOK
<1>5. DOMAIN entries = 1..Len(entries)
    BY <1>1 DEF IsSeq
<1>6. \A j \in Slots(c) : j \in 1..Len(entries)
    BY <1>1, <1>4 DEF Slots
<1> QED
    BY <1>1, <1>2, <1>3, <1>4, <1>5, <1>6

(* When it is done it gives way to none. *)
LEMMA NoCallInstead ==
    ASSUME Parted, stack # <<>>, stack' = Tail(stack)
    PROVE  Replaces(0)
<1>1. IsSeq(stack) /\ Len(stack) \in Nat
    BY DEF Parted, IsSeq
<1>2. Len(stack) >= 1 /\ IsSeq(Tail(stack)) /\ Len(Tail(stack)) = Len(stack) - 1
      /\ \A j \in 1..(Len(stack) - 1) : Tail(stack)[j] = stack[j + 1]
    BY <1>1, TailOfSeq
<1>3. \A s \in 2..Len(stack) : stack'[s - 1 + 0] = stack[s]
    <2> SUFFICES ASSUME NEW s \in 2..Len(stack) PROVE stack'[s - 1 + 0] = stack[s]
        OBVIOUS
    <2>1. s - 1 \in 1..(Len(stack) - 1) /\ (s - 1) + 1 = s /\ s - 1 + 0 = s - 1
        BY <1>1
    <2> QED
        BY <1>2, <2>1
<1> QED
    BY <1>1, <1>2, <1>3 DEF Replaces

(* The row of a part of one slot is in place. *)
LEMMA OneIsHome ==
    ASSUME NEW c, NEW ent, Working(c, ent), c.n = 1, Len(ent) \in Nat,
           GoodRow(ent[c.offset + 1], Len(ent))
    PROVE  Home(ent[c.offset + 1], c.offset + 1)
<1>1. c.offset \in Nat /\ c.offset + 1 <= Len(ent)
    BY DEF Working, CallOK
<1> DEFINE V == View(ent, c)
           N == Len(ent)
<1>2. PICK m : Arranged(V, 1, c.offset, c.ofs, m, N)
    BY AksBufferAssumption DEF Working, Progress
<1>3. V[0] = Dst(ent[c.offset + 1], N)
    <2>1. 0 \in 0..(c.n - 1) /\ c.offset + 0 + 1 = c.offset + 1
        BY <1>1
    <2> QED
        BY <2>1 DEF View
<1> HIDE DEF V
<1>4. c.ofs = 0 /\ m \in 0..1 /\ Rank(1, c.ofs, 0) = 0
    BY <1>2 DEF Arranged, Rank
<1>5. 0 \in 0..(1 - 1)
    OBVIOUS
<1>6. /\ 0 < m => c.offset <= V[0] /\ V[0] < c.offset + 1
      /\ 0 >= m => V[0] >= N
      /\ V[0] \in Int
    BY <1>2, <1>4, <1>5 DEF Arranged
<1> DEFINE e == ent[c.offset + 1]
<1> HIDE DEF e
<1>7. ASSUME Real(e) PROVE e.dst_idx = (c.offset + 1) - 1
    <2>1. V[0] = e.dst_idx /\ e.dst_idx \in 0..(N - 1)
        BY <1>3, <1>7 DEF Dst, GoodRow, e
    <2> QED
        BY <1>1, <1>4, <1>6, <2>1
<1> QED
    BY <1>7 DEF Home, e

(* A call that has nothing to do leaves its part, a row at most, in place. *)
LEMMA ReturnKeepsParted == Parted /\ AksReturn => Parted'
<1> SUFFICES ASSUME Parted, AksReturn PROVE Parted'
    OBVIOUS
<1> DEFINE c == stack[1]
<1>1. stack # <<>> /\ stack' = Tail(stack) /\ entries' = entries /\ Head(stack).n <= 1
    BY DEF AksReturn
<1>2. /\ Head(stack) = c /\ Working(c, entries) /\ c.offset \in Nat /\ c.n \in Nat \ {0}
      /\ Len(entries) \in Nat /\ IsSeq(entries)
      /\ \A j \in Slots(c) : j \in 1..Len(entries)
      /\ \A j \in 1..Len(entries) : GoodRow(entries[j], Len(entries))
    BY <1>1, FirstCall
<1> HIDE DEF c
<1>3. c.n = 1
    BY <1>1, <1>2
<1>4. ASSUME NEW j \in Slots(c) PROVE Home(entries[j], j)
    <2>1. j = c.offset + 1 /\ j \in 1..Len(entries)
        BY <1>2, <1>3 DEF Slots
    <2> QED
        BY <1>2, <1>3, <2>1, OneIsHome
<1>5. Settles(0)
    BY <1>1, <1>2, <1>4 DEF Settles, c
<1> QED
    BY <1>1, <1>5, NoCallInstead, PartsReplaced

(* What the enclave fetches of a part that fits its buffer is arranged,    *)
(* with padding behind its last slot.                                      *)
LEMMA FetchedLaid ==
    ASSUME NEW c, Working(c, entries), c.n <= AKS_BUFFER, Len(entries) \in Nat,
           \A j \in Slots(c) : GoodRow(entries[j], Len(entries))
    PROVE  \E m : Laid(Fetched(c), c.n, c.offset, c.ofs, m, c.offset + c.n)
<1> DEFINE N   == Len(entries)
           V   == View(entries, c)
           buf == Fetched(c)
           D   == Dests(buf, c.n)
           top == c.offset + c.n
           e(i) == entries[c.offset + i]
<1>1. /\ c.offset \in Nat /\ c.n \in Nat \ {0} /\ top <= N /\ top \in Nat /\ c.index_start = c.offset
      /\ c.n \in Nat
    BY DEF Working, CallOK
<1>2. PICK m : Arranged(V, c.n, c.offset, c.ofs, m, N)
    BY <1>1, AksBufferAssumption DEF Working, Progress
<1>3. ASSUME NEW i \in 1..c.n
      PROVE  /\ GoodRow(e(i), N) /\ buf[i] \in EntryRows /\ (Real(buf[i]) <=> Real(e(i)))
             /\ Real(e(i)) => buf[i].dst_idx = e(i).dst_idx
             /\ ~Real(e(i)) => buf[i].dst_idx = top
    <2>1. c.offset + i \in Slots(c)
        BY <1>1 DEF Slots
    <2> DEFINE d == Decrypted(e(i))
    <2>2. GoodRow(e(i), N) /\ d \in EntryRows
        BY <2>1 DEF GoodRow
    <2>3. /\ d \in EntryRows /\ d.field_type = e(i).field_type /\ d.dst_idx = e(i).dst_idx
        <3>1. d.field_type = e(i).field_type /\ d.dst_idx = e(i).dst_idx
            BY DEF Decrypted, WithFlag, Row
        <3> QED
            BY <2>2, <3>1
    <2>4. buf[i] = IF d.field_type = DIST_PADDING THEN WithDestination(d, top) ELSE d
        BY <1>1 DEF Fetched
    <2> HIDE DEF buf, d, e
    <2>5. /\ WithDestination(d, top) \in EntryRows /\ WithDestination(d, top).dst_idx = top
          /\ WithDestination(d, top).field_type = d.field_type
        BY <1>1, <2>3 DEF EntryRows, WithDestination, Row
    <2> HIDE DEF top
    <2> QED
        BY <2>2, <2>3, <2>4, <2>5 DEF Real
<1>4. buf \in Seq(EntryRows) /\ Len(buf) = c.n
    <2>1. buf = [i \in 1..c.n |-> buf[i]]
        BY DEF Fetched
    <2> HIDE DEF buf
    <2>2. buf \in [1..c.n -> EntryRows]
        BY <1>3, <2>1
    <2> QED
        BY <1>1, <2>2
<1>5. ASSUME NEW p \in 0..(c.n - 1)
      PROVE  /\ p + 1 \in 1..c.n
             /\ V[p] = Dst(e(p + 1), N) /\ D[p] = buf[p + 1].dst_idx
    <2>1. c.offset + p + 1 = c.offset + (p + 1)
        BY <1>1
    <2> QED
        BY <1>1, <2>1 DEF View, Dests
<1> HIDE DEF V, buf, D, e, top, N
<1>6. ASSUME NEW p \in 0..(c.n - 1)
      PROVE  /\ V[p] \in Int /\ Rank(c.n, c.ofs, p) \in Int
             /\ Rank(c.n, c.ofs, p) < m => Real(e(p + 1)) /\ D[p] = V[p] /\ c.offset <= D[p] /\ D[p] < top
             /\ Rank(c.n, c.ofs, p) >= m => ~Real(e(p + 1)) /\ D[p] = top
    <2>1. /\ V[p] \in Int
          /\ Rank(c.n, c.ofs, p) < m => c.offset <= V[p] /\ V[p] < top
          /\ Rank(c.n, c.ofs, p) >= m => V[p] >= N
        BY <1>2 DEF Arranged, top
    <2>2. Rank(c.n, c.ofs, p) \in Int /\ c.ofs \in Int
        BY <1>1, <1>2 DEF Rank, Arranged
    <2>3. p + 1 \in 1..c.n /\ V[p] = Dst(e(p + 1), N) /\ D[p] = buf[p + 1].dst_idx
        BY <1>5
    <2>4. /\ GoodRow(e(p + 1), N)
          /\ Real(e(p + 1)) => buf[p + 1].dst_idx = e(p + 1).dst_idx
          /\ ~Real(e(p + 1)) => buf[p + 1].dst_idx = top
        BY <1>3, <2>3
    <2>5. N \in Nat /\ top <= N
        BY <1>1 DEF N
    <2>6. Real(e(p + 1)) => V[p] = e(p + 1).dst_idx /\ V[p] < N /\ D[p] = V[p]
        BY <2>3, <2>4, <2>5 DEF Dst, GoodRow
    <2>7. ~Real(e(p + 1)) => V[p] = N /\ D[p] = top
        BY <2>3, <2>4 DEF Dst
    <2> QED
        BY <1>1, <2>1, <2>2, <2>5, <2>6, <2>7
<1>7. Arranged(D, c.n, c.offset, c.ofs, m, top)
    <2>1. c.ofs \in 0..(c.n - 1) /\ m \in 0..c.n
        BY <1>2 DEF Arranged
    <2>2. top \in Int /\ c.offset + c.n <= top
        BY <1>1 DEF top
    <2>3. \A p \in 0..(c.n - 1) :
             /\ D[p] \in Int
             /\ Rank(c.n, c.ofs, p) < m => c.offset <= D[p] /\ D[p] < c.offset + c.n
             /\ Rank(c.n, c.ofs, p) >= m => D[p] >= top
        <3> SUFFICES ASSUME NEW p \in 0..(c.n - 1)
                     PROVE  /\ D[p] \in Int
                            /\ Rank(c.n, c.ofs, p) < m => c.offset <= D[p] /\ D[p] < c.offset + c.n
                            /\ Rank(c.n, c.ofs, p) >= m => D[p] >= top
            OBVIOUS
        <3>1. Rank(c.n, c.ofs, p) < m \/ Rank(c.n, c.ofs, p) >= m
            BY <1>6, <2>1
        <3> QED
            BY <1>6, <2>2, <3>1 DEF top
    <2>4. \A p, q \in 0..(c.n - 1) :
             Rank(c.n, c.ofs, p) < Rank(c.n, c.ofs, q) /\ Rank(c.n, c.ofs, q) < m => D[p] < D[q]
        <3> SUFFICES ASSUME NEW p \in 0..(c.n - 1), NEW q \in 0..(c.n - 1),
                            Rank(c.n, c.ofs, p) < Rank(c.n, c.ofs, q), Rank(c.n, c.ofs, q) < m
                     PROVE  D[p] < D[q]
            OBVIOUS
        <3>1. V[p] < V[q]
            BY <1>2 DEF Arranged
        <3>2. Rank(c.n, c.ofs, p) < m
            BY <1>6, <2>1
        <3> QED
            BY <1>6, <3>1, <3>2
    <2> QED
        BY <2>1, <2>2, <2>3, <2>4 DEF Arranged
<1>8. ASSUME NEW i \in 1..c.n PROVE Real(buf[i]) <=> buf[i].dst_idx < top
    <2>1. i - 1 \in 0..(c.n - 1) /\ (i - 1) + 1 = i
        BY <1>1
    <2>2. D[i - 1] = buf[i].dst_idx
        BY <1>5, <2>1
    <2>3. Rank(c.n, c.ofs, i - 1) < m \/ Rank(c.n, c.ofs, i - 1) >= m
        BY <1>2, <1>6, <2>1 DEF Arranged
    <2>4. Real(buf[i]) <=> Real(e(i))
        BY <1>3
    <2>5. /\ Rank(c.n, c.ofs, i - 1) < m => Real(e(i)) /\ D[i - 1] < top
          /\ Rank(c.n, c.ofs, i - 1) >= m => ~Real(e(i)) /\ D[i - 1] = top
        BY <1>6, <2>1
    <2> QED
        BY <1>1, <2>2, <2>3, <2>4, <2>5 DEF top
<1>9. Laid(buf, c.n, c.offset, c.ofs, m, top)
    BY <1>4, <1>7, <1>8 DEF Laid, D
<1> QED
    BY <1>9 DEF buf, top

(* The part that the enclave fetches comes out of its buffer in slots.     *)
LEMMA BaseCaseRoutes ==
    ASSUME Parted, AksBaseCase
    PROVE  InSlots(Fetched(stack[1]), Routed(stack[1], Fetched(stack[1])), stack[1].n, stack[1].offset)
<1> DEFINE c == stack[1]
           N == Len(entries)
           done == Routed(c, Fetched(c))
<1>1. stack # <<>>
    BY DEF AksBaseCase
<1>2. /\ Head(stack) = c /\ Working(c, entries) /\ c.offset \in Nat /\ c.n \in Nat \ {0}
      /\ CallOK(c) /\ c.kind \in {"inner", "2power"} /\ c.index_start = c.offset
      /\ N \in Nat /\ IsSeq(entries)
      /\ \A j \in Slots(c) : j \in 1..N
      /\ \A j \in 1..N : GoodRow(entries[j], N)
    BY <1>1, FirstCall
<1> HIDE DEF c
<1>3. c.n \in 2..AKS_BUFFER
    BY <1>2 DEF AksBaseCase
<1>4. PICK m : Laid(Fetched(c), c.n, c.offset, c.ofs, m, c.offset + c.n)
    <2>1. c.n <= AKS_BUFFER
        BY <1>2, <1>3, AksBufferAssumption
    <2> QED
        BY <1>2, <2>1, FetchedLaid
<1>5. InSlots(Fetched(c), done, c.n, c.offset)
    <2>1. CASE c.kind = "inner"
        <3>1. done = distribute_inner(c.n)[Fetched(c)][c.offset]
            BY <1>2, <2>1 DEF Routed
        <3>2. c.ofs = 0
            BY <1>2, <2>1 DEF Working
        <3>3. RoutesInner(distribute_inner(c.n), c.n)
            BY <1>2, InnerRoutes
        <3> HIDE DEF done
        <3> QED
            BY <1>2, <1>4, <3>1, <3>2, <3>3 DEF RoutesInner
    <2>2. CASE c.kind = "2power"
        <3>1. done = distribute_2power(c.n)[Fetched(c)][c.offset][c.ofs]
            BY <1>2, <2>2 DEF Routed
        <3>2. Power(c.n)
            BY <1>2, <2>2 DEF CallOK
        <3>3. Routes(distribute_2power(c.n), c.n)
            BY <3>2, PowerRoutes
        <3> HIDE DEF done
        <3> QED
            BY <1>2, <1>4, <3>1, <3>3 DEF Routes
    <2> QED
        BY <1>2, <2>1, <2>2
<1> QED
    BY <1>5 DEF c, done

(* A part that the enclave's buffer holds is routed and done with.         *)
LEMMA BaseCaseKeepsParted == Parted /\ AksBaseCase => Parted'
<1> SUFFICES ASSUME Parted, AksBaseCase PROVE Parted'
    OBVIOUS
<1> DEFINE c == stack[1]
           N == Len(entries)
           done == Routed(c, Fetched(c))
<1>1. stack # <<>> /\ stack' = Tail(stack)
    BY DEF AksBaseCase
<1>2. /\ Head(stack) = c /\ Working(c, entries) /\ c.offset \in Nat /\ c.n \in Nat \ {0}
      /\ CallOK(c) /\ c.kind \in {"inner", "2power"} /\ c.index_start = c.offset
      /\ N \in Nat /\ IsSeq(entries) /\ DOMAIN entries = 1..N
      /\ \A j \in Slots(c) : j \in 1..N
      /\ \A j \in 1..N : GoodRow(entries[j], N)
      /\ c.offset + c.n <= N
    BY <1>1, FirstCall
<1>3. c.n \in 2..AKS_BUFFER
      /\ entries' = [j \in DOMAIN entries |->
                        IF j - c.offset \in 1..c.n THEN Encrypted(done[j - c.offset]) ELSE entries[j]]
    <2> HIDE DEF c
    <2> QED
        BY <1>2 DEF AksBaseCase
<1> HIDE DEF c
<1>5. InSlots(Fetched(c), done, c.n, c.offset)
    BY BaseCaseRoutes DEF c
<1> HIDE DEF done
<1>6. ASSUME NEW j \in Slots(c)
      PROVE  GoodRow(entries'[j], N) /\ Home(entries'[j], j)
    <2>1. j - c.offset \in 1..c.n /\ j \in 1..N /\ c.offset + (j - c.offset) - 1 = j - 1 /\ j - 1 \in 0..(N - 1)
        BY <1>2 DEF Slots
    <2>2. entries'[j] = Encrypted(done[j - c.offset])
        BY <1>2, <1>3, <2>1
    <2> DEFINE e == done[j - c.offset]
    <2>3. e \in EntryRows /\ (Real(e) => e.dst_idx = c.offset + (j - c.offset) - 1)
        <3>1. done \in Seq(EntryRows) /\ Len(done) = c.n
            BY <1>5 DEF InSlots
        <3>2. e \in EntryRows
            BY <2>1, <3>1
        <3> QED
            BY <1>5, <2>1, <3>2 DEF InSlots
    <2> HIDE DEF e
    <2>4. Decrypted(Encrypted(e)) \in EntryRows /\ (Real(Encrypted(e)) => Encrypted(e).dst_idx = j - 1)
        BY <2>1, <2>3, FlagGoesAlong
    <2>5. entries'[j] = Encrypted(e)
        BY <2>2 DEF e
    <2> QED
        BY <2>1, <2>4, <2>5 DEF GoodRow, Home
<1>7. \A j \in 1..N : j \notin Slots(c) => entries'[j] = entries[j]
    <2> SUFFICES ASSUME NEW j \in 1..N, j \notin Slots(c) PROVE entries'[j] = entries[j]
        OBVIOUS
    <2>1. ~(j - c.offset \in 1..c.n)
        BY <1>2 DEF Slots
    <2> QED
        BY <1>2, <1>3, <2>1
<1>8. IsSeq(entries') /\ Len(entries') = N
    <2>1. DOMAIN entries' = 1..N /\ entries' = [j \in 1..N |-> entries'[j]]
        BY <1>2, <1>3
    <2>2. Len(entries') = N
        BY <1>2, <2>1
    <2> QED
        BY <1>2, <2>1, <2>2 DEF IsSeq
<1>9. \A j \in 1..N : GoodRow(entries'[j], N)
    BY <1>2, <1>6, <1>7
<1>10. Settles(0)
    BY <1>6, <1>7, <1>8, <1>9 DEF Settles, c
<1> QED
    BY <1>1, <1>10, NoCallInstead, PartsReplaced

(* A call that goes on is on the same part. *)
LEMMA SamePart ==
    ASSUME NEW c, NEW phase, NEW chunk, NEW m2, NEW d, d = Advanced(c, phase, chunk, m2)
    PROVE  /\ d.kind = c.kind /\ d.offset = c.offset /\ d.n = c.n /\ d.ofs = c.ofs
           /\ d.index_start = c.index_start /\ d.phase = phase /\ d.chunk = chunk /\ d.m2 = m2
           /\ Gap(d) = Gap(c) /\ Pairs(d) = Pairs(c) /\ Scanned(d) = Scanned(c)
           /\ Boundary(d) = Boundary(c) /\ Slots(d) = Slots(c)
           /\ \A ent : View(ent, d) = View(ent, c)
           /\ \A D, k : Below(d, D, k) = Below(c, D, k)
           /\ m2 = c.m2 => Chosen(d) = Chosen(c)
<1>1. /\ d.kind = c.kind /\ d.offset = c.offset /\ d.n = c.n /\ d.ofs = c.ofs
      /\ d.index_start = c.index_start /\ d.phase = phase /\ d.chunk = chunk /\ d.m2 = m2
    BY DEF Advanced
<1>2. Gap(d) = Gap(c)
    BY <1>1 DEF Gap
<1>3. Pairs(d) = Pairs(c)
    BY <1>1, <1>2 DEF Pairs
<1>4. Scanned(d) = Scanned(c) /\ Boundary(d) = Boundary(c) /\ Slots(d) = Slots(c)
    BY <1>1, <1>3 DEF Scanned, Boundary, Slots
<1>5. \A ent : View(ent, d) = View(ent, c)
    BY <1>1 DEF View
<1>6. \A D, k : Below(d, D, k) = Below(c, D, k)
    BY <1>4 DEF Below
<1>7. ASSUME m2 = c.m2 PROVE Chosen(d) = Chosen(c)
    <2>1. d.m2 = c.m2
        BY <1>1, <1>7
    <2>2. \A i : PairSwaps(d, i) = PairSwaps(c, i)
        BY <1>1, <1>2, <2>1 DEF PairSwaps
    <2> QED
        BY <1>3, <2>2 DEF Chosen
<1> QED
    BY <1>1, <1>2, <1>3, <1>4, <1>5, <1>6, <1>7

(* The first call goes on. *)
LEMMA CallInstead ==
    ASSUME Parted, stack # <<>>, NEW d, stack' = [stack EXCEPT ![1] = d],
           Working(d, entries'), Slots(d) = Slots(stack[1])
    PROVE  Replaces(1)
<1>1. IsSeq(stack) /\ Len(stack) \in Nat
    BY DEF Parted, IsSeq
<1>2. stack = [s \in 1..Len(stack) |-> stack[s]] /\ Len(stack) >= 1
    BY <1>1, TailOfSeq DEF IsSeq
<1>3. stack' = [s \in 1..Len(stack) |-> IF s = 1 THEN d ELSE stack[s]]
    BY <1>2
<1>4. Len(stack') = Len(stack)
    BY <1>1, <1>3
<1>5. IsSeq(stack')
    BY <1>1, <1>3, <1>4 DEF IsSeq
<1>6. \A s \in 2..Len(stack) : stack'[s - 1 + 1] = stack[s]
    BY <1>1, <1>3
<1>7. stack'[1] = d
    BY <1>1, <1>2, <1>3
<1> QED
    BY <1>1, <1>4, <1>5, <1>6, <1>7 DEF Replaces

(* Of csz slots from k on. *)
CountFrom(D, b, k, csz) == Cardinality({i \in 1..csz : D[k + i - 1] < b})

(* The rows of a chunk of the scan are counted to those before it. *)
LEMMA ChunkCounted ==
    ASSUME NEW V, NEW b, NEW k \in Nat, NEW csz \in Nat
    PROVE  CountBelow(V, b, k + csz) = CountBelow(V, b, k) + CountFrom(V, b, k, csz)
<1> DEFINE S == {i \in 1..csz : V[k + i - 1] < b}
           T == {p \in k..((k + csz) - 1) : V[p] < b}
           A == {p \in 0..(k - 1) : V[p] < b}
           f == [i \in S |-> k + i - 1]
<1>1. \A i \in S : f[i] \in T
    OBVIOUS
<1>2. \A p \in T : p - k + 1 \in S /\ f[p - k + 1] = p
    <2> SUFFICES ASSUME NEW p \in T PROVE p - k + 1 \in S /\ f[p - k + 1] = p
        OBVIOUS
    <2>1. p - k + 1 \in 1..csz /\ k + (p - k + 1) - 1 = p
        OBVIOUS
    <2>2. V[k + (p - k + 1) - 1] < b
        BY <2>1
    <2> QED
        BY <2>1, <2>2
<1>3. \A i, j \in S : f[i] = f[j] => i = j
    OBVIOUS
<1>4. f \in [S -> T]
    BY <1>1
<1>5. IsFiniteSet(S)
    <2>1. IsFiniteSet(1..csz) /\ S \in SUBSET (1..csz)
        <3>1. 1 \in Int /\ csz \in Int
            OBVIOUS
        <3> QED
            BY <3>1, FS_Interval
    <2> HIDE DEF S
    <2> QED
        BY <2>1, FS_Subset
<1>6. IsFiniteSet(A)
    <2>1. IsFiniteSet(0..(k - 1)) /\ A \in SUBSET (0..(k - 1))
        <3>1. 0 \in Int /\ k - 1 \in Int
            OBVIOUS
        <3> QED
            BY <3>1, FS_Interval
    <2> HIDE DEF A
    <2> QED
        BY <2>1, FS_Subset
<1>7. {p \in 0..((k + csz) - 1) : V[p] < b} = A \cup T /\ A \cap T = {}
    OBVIOUS
<1> HIDE DEF S, T, A, f
<1>8. f \in Bijection(S, T)
    BY <1>2, <1>3, <1>4 DEF Bijection, Injection, Surjection, IsInjective
<1>9. IsFiniteSet(T) /\ Cardinality(T) = Cardinality(S)
    BY <1>5, <1>8, FS_Bijection DEF ExistsBijection
<1>10. Cardinality(A \cup T) = Cardinality(A) + Cardinality(T) - Cardinality(A \cap T)
    BY <1>6, <1>9, FS_Union
<1>11. Cardinality(A \cap T) = 0
    BY <1>7, FS_EmptySet
<1>12. Cardinality(A) \in Nat /\ Cardinality(T) \in Nat
    BY <1>6, <1>9, FS_CardinalityType
<1>13. Cardinality(A \cup T) = Cardinality(A) + Cardinality(S)
    BY <1>9, <1>10, <1>11, <1>12
<1> QED
    BY <1>7, <1>13 DEF A, S, CountBelow, CountFrom

(* A scanned row counts when its destination is below the boundary: what   *)
(* stands in for the destination of padding is above it.                   *)
LEMMA ScanReadsView ==
    ASSUME NEW c, Working(c, entries), c.n > 2, Len(entries) \in Nat,
           \A j \in Slots(c) : GoodRow(entries[j], Len(entries)),
           NEW k \in Nat, NEW csz \in Nat, k + csz <= c.n
    PROVE  \A i \in 1..csz : ScanTarget(c, entries[c.offset + k + i]) < Boundary(c)
                                 <=> View(entries, c)[k + i - 1] < Boundary(c)
<1>1. /\ c.offset \in Nat /\ c.n \in Nat /\ c.offset + c.n <= Len(entries) /\ c.index_start = c.offset
    BY DEF Working, CallOK
<1>2. Pairs(c) \in Nat /\ Gap(c) \in Nat /\ Pairs(c) + Gap(c) = c.n
    BY PartsFill DEF Working
<1>3. Boundary(c) = c.offset + Pairs(c)
    BY <1>1 DEF Boundary
<1>4. ASSUME NEW i \in 1..csz
      PROVE  ScanTarget(c, entries[c.offset + k + i]) < Boundary(c)
                <=> View(entries, c)[k + i - 1] < Boundary(c)
    <2>0. k + i - 1 \in 0..(c.n - 1) /\ c.offset + (k + i - 1) + 1 = c.offset + k + i
          /\ c.offset + k + i \in (c.offset + 1)..(c.offset + c.n)
        <3>1. k \in Nat /\ csz \in Nat /\ i \in 1..csz /\ k + csz <= c.n
            OBVIOUS
        <3> QED
            BY ONLY <1>1, <3>1
    <2>1. k + i - 1 \in 0..(c.n - 1) /\ c.offset + (k + i - 1) + 1 = c.offset + k + i
          /\ c.offset + k + i \in Slots(c)
        BY <2>0 DEF Slots
    <2> DEFINE e == entries[c.offset + k + i]
    <2>2. View(entries, c)[k + i - 1] = Dst(e, Len(entries))
        BY <2>1 DEF View
    <2>3. GoodRow(e, Len(entries))
        BY <2>1
    <2> HIDE DEF e
    <2>4. CASE Real(e)
        <3>1. ScanTarget(c, e) = e.dst_idx /\ Dst(e, Len(entries)) = e.dst_idx
            BY <2>4 DEF ScanTarget, Dst, Real
        <3> QED
            BY <2>2, <3>1 DEF e
    <2>5. CASE ~Real(e)
        <3>1. ScanTarget(c, e) = c.n + c.offset + 1 /\ Dst(e, Len(entries)) = Len(entries)
            BY <2>5 DEF ScanTarget, Dst, Real
        <3>2. ~(ScanTarget(c, e) < Boundary(c)) /\ ~(Dst(e, Len(entries)) < Boundary(c))
            BY <1>1, <1>2, <1>3, <3>1
        <3> QED
            BY <2>2, <3>2 DEF e
    <2> QED
        BY <2>4, <2>5
<1> QED
    BY <1>4

(* What a chunk of the scan adds is the count of its rows. *)
LEMMA ScanCounts ==
    ASSUME NEW c, Working(c, entries), c.n > 2, c.phase = "scan", Len(entries) \in Nat,
           \A j \in Slots(c) : GoodRow(entries[j], Len(entries)),
           NEW csz \in Nat, c.chunk + csz <= c.n, c.chunk \in Nat
    PROVE  c.m2 + Cardinality({i \in 1..csz :
                      ScanTarget(c, entries[c.offset + c.chunk + i]) < Boundary(c)})
              = Below(c, View(entries, c), c.chunk + csz)
<1> DEFINE V == View(entries, c)
           k == c.chunk
           b == Boundary(c)
<1>1. {i \in 1..csz : ScanTarget(c, entries[c.offset + c.chunk + i]) < Boundary(c)}
         = {i \in 1..csz : V[k + i - 1] < b}
    <2>1. \A i \in 1..csz :
             ScanTarget(c, entries[c.offset + k + i]) < Boundary(c) <=> V[k + i - 1] < b
        BY ScanReadsView
    <2> HIDE DEF V, b
    <2> QED
        BY ONLY <2>1
<1>2. c.m2 = Below(c, V, k)
    BY DEF Working, Progress
<1>3. k \in Nat
    OBVIOUS
<1> HIDE DEF V, k, b
<1>4. CountBelow(V, b, k + csz) = CountBelow(V, b, k) + CountFrom(V, b, k, csz)
    BY <1>3, ChunkCounted
<1>5. c.m2 + CountFrom(V, b, k, csz) = Below(c, V, k + csz)
    BY <1>2, <1>4 DEF Below, b
<1> QED
    BY <1>1, <1>5 DEF V, k, b, CountFrom

(* A call that has made progress is working. *)
LEMMA StillWorking ==
    ASSUME NEW c, NEW ent, Working(c, ent), c.n > 2, NEW phase \in {"scan", "swap"},
           NEW chunk, phase = "swap" /\ Pairs(c) = 1 => chunk = 0, NEW m2, NEW d,
           d = Advanced(c, phase, chunk, m2), NEW new, Len(new) = Len(ent),
           Progress(d, View(new, c), Len(ent))
    PROVE  Working(d, new)
<1>1. /\ d.kind = c.kind /\ d.offset = c.offset /\ d.n = c.n /\ d.ofs = c.ofs
      /\ d.index_start = c.index_start /\ d.phase = phase /\ d.chunk = chunk
      /\ Pairs(d) = Pairs(c) /\ View(new, d) = View(new, c)
    BY SamePart
<1>2. CallOK(d)
    BY <1>1 DEF CallOK, Working
<1> QED
    BY <1>1, <1>2 DEF Working

(* A chunk of the scan that is not the last. *)
LEMMA ScanGoesOn ==
    ASSUME NEW c, Working(c, entries), c.n > 2, c.phase = "scan",
           NEW chunk \in 0..Scanned(c), NEW m2, m2 = Below(c, View(entries, c), chunk)
    PROVE  Working(Advanced(c, "scan", chunk, m2), entries)
<1> DEFINE d == Advanced(c, "scan", chunk, m2)
           V == View(entries, c)
           N == Len(entries)
<1>1. PICK m : Arranged(V, c.n, c.offset, c.ofs, m, N)
    BY DEF Working, Progress
<1>2. /\ d.n = c.n /\ d.offset = c.offset /\ d.ofs = c.ofs /\ d.phase = "scan"
      /\ d.chunk = chunk /\ d.m2 = m2 /\ Scanned(d) = Scanned(c)
      /\ \A D, k : Below(d, D, k) = Below(c, D, k)
    BY SamePart
<1>3. Progress(d, V, N)
    <2> HIDE DEF d, V, N
    <2>1. m2 = Below(c, V, chunk)
        BY DEF V
    <2> QED
        BY <1>1, <1>2, <2>1 DEF Progress
<1> HIDE DEF N, V
<1> QED
    BY <1>3, StillWorking DEF N, V

(* The last chunk of the scan: the swap begins. *)
LEMMA ScanEnds ==
    ASSUME NEW c, Working(c, entries), c.n > AKS_BUFFER, c.n > 2, c.phase = "scan",
           NEW m2, m2 = Below(c, View(entries, c), Scanned(c))
    PROVE  Working(Advanced(c, "swap", 0, m2), entries)
<1> DEFINE d == Advanced(c, "swap", 0, m2)
           V == View(entries, c)
           N == Len(entries)
<1>1. PICK m : Arranged(V, c.n, c.offset, c.ofs, m, N)
    BY AksBufferAssumption DEF Working, Progress
<1>2. /\ d.n = c.n /\ d.offset = c.offset /\ d.ofs = c.ofs /\ d.phase = "swap" /\ d.chunk = 0
      /\ d.m2 = m2 /\ Gap(d) = Gap(c) /\ Pairs(d) = Pairs(c) /\ Scanned(d) = Scanned(c)
      /\ \A D, k : Below(d, D, k) = Below(c, D, k)
    BY SamePart
<1>3. Pairs(c) \in Nat /\ Gap(c) \in Int
    BY PartsFill DEF Working
<1>4. V = [p \in 0..(c.n - 1) |-> V[p]]
    BY DEF View
<1>5. Progress(d, V, N)
    <2> HIDE DEF d, V, N
    <2>1. d.m2 = Below(d, V, Scanned(d))
        BY <1>2 DEF V
    <2>2. V = Crossed(V, c.n, Gap(c), Chosen(d) \cap 0..(0 - 1))
        <3>1. Chosen(d) \cap 0..(0 - 1) = {}
            OBVIOUS
        <3> QED
            BY <1>3, <1>4, <3>1 DEF Crossed
    <2>3. V = SwappedIn(d, V, 0, d.chunk)
        BY <1>2, <2>2 DEF SwappedIn
    <2>4. d.n > AKS_BUFFER /\ d.chunk \in 0..Pairs(d)
        BY <1>2, <1>3
    <2>5. Arranged(V, d.n, d.offset, d.ofs, m, N)
        BY <1>1, <1>2
    <2>6. SwappedUpTo(d, V, N, d.chunk)
        BY <2>1, <2>3, <2>5 DEF SwappedUpTo
    <2> QED
        BY <1>2, <2>4, <2>6 DEF Progress
<1> HIDE DEF N, V
<1> QED
    BY <1>5, StillWorking DEF N, V

(* A chunk of the scan adds what it counts to what the call has counted.   *)
LEMMA ScanKeepsParted == Parted /\ AksScan => Parted'
<1> SUFFICES ASSUME Parted, AksScan PROVE Parted'
    OBVIOUS
<1> DEFINE c    == stack[1]
           N    == Len(entries)
           csz  == Least(AKS_BUFFER, Scanned(c) - c.chunk)
           here == Cardinality({i \in 1..csz :
                       ScanTarget(c, entries[c.offset + c.chunk + i]) < Boundary(c)})
           d    == IF c.chunk + csz = Scanned(c) THEN Advanced(c, "swap", 0, c.m2 + here)
                   ELSE Advanced(c, "scan", c.chunk + csz, c.m2 + here)
<1>1. stack # <<>> /\ entries' = entries
    BY DEF AksScan
<1>2. /\ Head(stack) = c /\ Working(c, entries) /\ N \in Nat /\ IsSeq(entries)
      /\ \A j \in Slots(c) : j \in 1..N
      /\ \A j \in 1..N : GoodRow(entries[j], N)
    BY <1>1, FirstCall
<1>3. c.n > AKS_BUFFER /\ c.phase = "scan" /\ stack' = [stack EXCEPT ![1] = d]
    <2>1. stack[1] = Head(stack)
        BY <1>2
    <2> HIDE DEF d
    <2>2. c.n > AKS_BUFFER /\ c.phase = "scan"
        BY <2>1 DEF AksScan
    <2>3. stack' = [stack EXCEPT ![1] =
                       IF c.chunk + csz = Scanned(c) THEN Advanced(c, "swap", 0, c.m2 + here)
                       ELSE Advanced(c, "scan", c.chunk + csz, c.m2 + here)]
        BY <2>1 DEF AksScan
    <2> QED
        BY <2>2, <2>3 DEF d
<1> HIDE DEF c
<1>4. Working(d, entries) /\ Slots(d) = Slots(c)
    <2>1. /\ c.n > 2 /\ c.n \in Nat /\ Scanned(c) \in Nat /\ Scanned(c) <= c.n
          /\ AKS_BUFFER \in Nat
        <3>1. AKS_BUFFER \in Nat /\ AKS_BUFFER >= 2
            BY AksBufferAssumption
        <3>2. c.n \in Nat /\ CallOK(c) /\ c.n > 2
            BY <1>2, <1>3, <3>1 DEF Working, CallOK
        <3>3. Pairs(c) \in Nat /\ Gap(c) \in Nat /\ Pairs(c) + Gap(c) = c.n
            BY <3>2, PartsFill
        <3> QED
            BY <3>1, <3>2, <3>3 DEF Scanned
    <2>2. c.chunk \in 0..Scanned(c)
        BY <1>2, <1>3, <2>1 DEF Working, Progress
    <2>3. csz \in Nat /\ c.chunk \in Nat /\ c.chunk + csz \in 0..Scanned(c) /\ c.chunk + csz <= c.n
        BY <2>1, <2>2 DEF Least
    <2> HIDE DEF csz
    <2>4. c.m2 + here = Below(c, View(entries, c), c.chunk + csz)
        BY <1>2, <1>3, <2>1, <2>3, ScanCounts
    <2> DEFINE m2 == c.m2 + here
               next == c.chunk + csz
    <2>5. d = IF next = Scanned(c) THEN Advanced(c, "swap", 0, m2) ELSE Advanced(c, "scan", next, m2)
        OBVIOUS
    <2>6. m2 = Below(c, View(entries, c), next) /\ next \in 0..Scanned(c)
        BY <2>3, <2>4
    <2> HIDE DEF m2, next, here, d
    <2>7. CASE next = Scanned(c)
        BY <1>2, <1>3, <2>1, <2>5, <2>6, <2>7, ScanEnds, SamePart
    <2>8. CASE next # Scanned(c)
        BY <1>2, <1>3, <2>1, <2>5, <2>6, <2>8, ScanGoesOn, SamePart
    <2> QED
        BY <2>7, <2>8
<1> HIDE DEF d
<1>5. Replaces(1)
    BY <1>1, <1>3, <1>4, CallInstead DEF c
<1>6. stack'[1] = d
    <2>1. IsSeq(stack) /\ Len(stack) >= 1
        BY <1>1, TailOfSeq DEF Parted
    <2>2. 1 \in DOMAIN stack
        BY <2>1 DEF IsSeq
    <2> QED
        BY <1>3, <2>2
<1>7. \A j \in Slots(c) : \E s \in 1..1 : j \in Slots(stack'[s])
    BY <1>4, <1>6
<1>8. Settles(1)
    BY <1>1, <1>2, <1>7 DEF Settles, c
<1> QED
    BY <1>1, <1>5, <1>8, PartsReplaced

(* What a chunk of csz pairs of call c does to the array ent. *)
ChunkExchanged(c, ent, csz) ==
    LET from == c.offset + c.chunk
        both == {from + i : i \in 1..csz} \cup {from + Gap(c) + i : i \in 1..csz}
        done == SwapPairs(ent, from, Gap(c), {i \in 0..(csz - 1) : PairSwaps(c, c.chunk + i)})
    IN  [j \in DOMAIN ent |-> IF j \in both THEN Encrypted(done[j]) ELSE ent[j]]

(* Where the row of slot j comes from. *)
Origin(c, csz, j) ==
    LET p == j - 1 - c.offset
        A == Chosen(c) \cap c.chunk..(c.chunk + csz - 1)
    IN  IF p \in A THEN j + Gap(c) ELSE IF p - Gap(c) \in A THEN j - Gap(c) ELSE j

(* The slots of a chunk of pairs, as the loop counts them and by place.    *)
LEMMA ChunkNumbers ==
    ASSUME NEW off \in Nat, NEW k \in Nat, NEW g \in Nat, k <= g, NEW N \in Nat, off + (k + g) <= N,
           NEW lo \in Nat, NEW csz \in Nat, lo + csz <= k, NEW j \in 1..N,
           NEW p, p = j - 1 - off, NEW from, from = off + lo
    PROVE  /\ p \in Int /\ p - g \in Int /\ j - 1 - from = p - lo /\ j - 1 - from - g = (p - g) - lo
           /\ p \in lo..(lo + csz - 1) => j - from \in 1..csz /\ j + g \in 1..N
           /\ p - g \in lo..(lo + csz - 1) => j - from - g \in 1..csz /\ j - g \in 1..N
           /\ ~(j \in (off + 1)..(off + (k + g))) => ~(j - from \in 1..csz) /\ ~(j - from - g \in 1..csz)
           /\ j - from \in 1..csz => j = from + (j - from)
           /\ j - from - g \in 1..csz => j = from + g + (j - from - g)
           /\ \A i \in 1..csz : (from + i) - from = i /\ (from + g + i) - from - g = i
           /\ \A x \in Int : /\ lo + (x - lo) = x
                             /\ x - lo \in 0..(csz - 1) <=> x \in lo..(lo + csz - 1)
                             /\ x \in lo..(lo + csz - 1) => x \in 0..(k - 1)
<1> USE p = j - 1 - off, from = off + lo
<1>1. p \in Int /\ p - g \in Int /\ j - 1 - from = p - lo /\ j - 1 - from - g = (p - g) - lo
    OBVIOUS
<1>2. /\ p \in lo..(lo + csz - 1) => j - from \in 1..csz /\ j + g \in 1..N
      /\ p - g \in lo..(lo + csz - 1) => j - from - g \in 1..csz /\ j - g \in 1..N
    OBVIOUS
<1>3. ~(j \in (off + 1)..(off + (k + g))) => ~(j - from \in 1..csz) /\ ~(j - from - g \in 1..csz)
    OBVIOUS
<1>4. /\ j - from \in 1..csz => j = from + (j - from)
      /\ j - from - g \in 1..csz => j = from + g + (j - from - g)
    OBVIOUS
<1>5. \A i \in 1..csz : (from + i) - from = i /\ (from + g + i) - from - g = i
    OBVIOUS
<1>6. \A x \in Int : /\ lo + (x - lo) = x
                     /\ x - lo \in 0..(csz - 1) <=> x \in lo..(lo + csz - 1)
                     /\ x \in lo..(lo + csz - 1) => x \in 0..(k - 1)
    OBVIOUS
<1> QED
    BY <1>1, <1>2, <1>3, <1>4, <1>5, <1>6

(* It moves rows within the part, and may encrypt them. *)
LEMMA ExchangeMoves ==
    ASSUME NEW c, NEW ent, IsSeq(ent), CallOK(c), c.n > 2, c.offset + c.n <= Len(ent),
           c.chunk \in Nat, NEW csz \in Nat, c.chunk + csz <= Pairs(c),
           NEW j \in 1..Len(ent)
    PROVE  /\ ChunkExchanged(c, ent, csz)[j] \in {ent[Origin(c, csz, j)], Encrypted(ent[Origin(c, csz, j)])}
           /\ Origin(c, csz, j) \in 1..Len(ent)
           /\ j \notin Slots(c) => ChunkExchanged(c, ent, csz)[j] = ent[j]
<1> DEFINE off  == c.offset
           lo   == c.chunk
           from == off + lo
           g    == Gap(c)
           k    == Pairs(c)
           both == {from + i : i \in 1..csz} \cup {from + g + i : i \in 1..csz}
           Q    == {i \in 0..(csz - 1) : PairSwaps(c, lo + i)}
           A    == Chosen(c) \cap lo..(lo + csz - 1)
           done == SwapPairs(ent, from, g, Q)
           p    == j - 1 - off
           N    == Len(ent)
           new  == ChunkExchanged(c, ent, csz)[j]
<1>1. /\ off \in Nat /\ g \in Nat /\ k \in Nat /\ k <= g /\ c.n = k + g
      /\ N \in Nat /\ DOMAIN ent = 1..N /\ off + c.n <= N /\ lo \in Nat /\ lo + csz <= k
      /\ j \in 1..N /\ csz \in Nat
    BY PartsFill DEF CallOK, IsSeq
<1>2. new = IF j \in both THEN Encrypted(done[j]) ELSE ent[j]
    BY <1>1 DEF ChunkExchanged
<1>3. done[j] = ent[IF j - 1 - from \in Q THEN j + g ELSE IF j - 1 - from - g \in Q THEN j - g ELSE j]
    <2> HIDE DEF Q, from, g
    <2> QED
        BY <1>1 DEF SwapPairs
<1>4. Origin(c, csz, j) = IF p \in A THEN j + g ELSE IF p - g \in A THEN j - g ELSE j
    BY DEF Origin
<1>5. \A x : x \in Q <=> x \in 0..(csz - 1) /\ PairSwaps(c, lo + x)
    OBVIOUS
<1>6. \A x : x \in A <=> x \in 0..(k - 1) /\ PairSwaps(c, x) /\ x \in lo..(lo + csz - 1)
    BY DEF Chosen
<1>7. \A x : x \in both <=> (\E i \in 1..csz : x = from + i) \/ (\E i \in 1..csz : x = from + g + i)
    OBVIOUS
<1>8. Slots(c) = (off + 1)..(off + (k + g))
    BY <1>1 DEF Slots
<1>9. p = j - 1 - off /\ from = off + lo
    OBVIOUS
<1> HIDE DEF off, lo, from, g, k, both, Q, A, done, p, N, new
<1>10. /\ p \in Int /\ p - g \in Int /\ j - 1 - from = p - lo /\ j - 1 - from - g = (p - g) - lo
       /\ p \in lo..(lo + csz - 1) => j - from \in 1..csz /\ j + g \in 1..N
       /\ p - g \in lo..(lo + csz - 1) => j - from - g \in 1..csz /\ j - g \in 1..N
       /\ ~(j \in (off + 1)..(off + (k + g))) => ~(j - from \in 1..csz) /\ ~(j - from - g \in 1..csz)
       /\ j - from \in 1..csz => j = from + (j - from)
       /\ j - from - g \in 1..csz => j = from + g + (j - from - g)
       /\ \A i \in 1..csz : (from + i) - from = i /\ (from + g + i) - from - g = i
       /\ \A x \in Int : /\ lo + (x - lo) = x
                         /\ x - lo \in 0..(csz - 1) <=> x \in lo..(lo + csz - 1)
                         /\ x \in lo..(lo + csz - 1) => x \in 0..(k - 1)
    <2>1. off + (k + g) <= N
        BY ONLY <1>1
    <2> QED
        BY ONLY <1>1, <1>9, <2>1, ChunkNumbers
<1>11. \A x \in Int : x - lo \in Q <=> x \in A
    BY ONLY <1>5, <1>6, <1>10
<1>12. j \in both <=> j - from \in 1..csz \/ j - from - g \in 1..csz
    BY ONLY <1>7, <1>10
<1>13. /\ p \in A => j - from \in 1..csz /\ j + g \in 1..N
       /\ p - g \in A => j - from - g \in 1..csz /\ j - g \in 1..N
    BY ONLY <1>6, <1>10
<1>14. done[j] = ent[Origin(c, csz, j)]
    BY ONLY <1>3, <1>4, <1>10, <1>11
<1>15. Origin(c, csz, j) \in 1..N /\ (j \notin both => Origin(c, csz, j) = j)
    BY ONLY <1>1, <1>4, <1>12, <1>13
<1>16. j \notin Slots(c) => j \notin both
    BY ONLY <1>8, <1>10, <1>12
<1>17. new \in {ent[Origin(c, csz, j)], Encrypted(ent[Origin(c, csz, j)])}
    BY ONLY <1>2, <1>14, <1>15
<1>18. j \notin Slots(c) => new = ent[j]
    BY ONLY <1>2, <1>16
<1> QED
    BY <1>15, <1>17, <1>18 DEF new, N

(* The rows of new are those of ent, csz pairs of call c swapped. *)
RowsExchanged(c, ent, csz, new) ==
    /\ IsSeq(new) /\ Len(new) = Len(ent)
    /\ \A j \in 1..Len(ent) : GoodRow(new[j], Len(ent))
    /\ \A j \in 1..Len(ent) : j \notin Slots(c) => new[j] = ent[j]
    /\ View(new, c) = SwappedIn(c, View(ent, c), c.chunk, c.chunk + csz)

(* So the rows stay rows of the array, and the call's view is swapped.     *)
LEMMA ExchangeSwaps ==
    ASSUME NEW c, NEW ent, IsSeq(ent), CallOK(c), c.n > 2, c.offset + c.n <= Len(ent),
           c.chunk \in Nat, NEW csz \in Nat, c.chunk + csz <= Pairs(c),
           \A j \in 1..Len(ent) : GoodRow(ent[j], Len(ent))
    PROVE  RowsExchanged(c, ent, csz, ChunkExchanged(c, ent, csz))
<1> DEFINE new == ChunkExchanged(c, ent, csz)
           N == Len(ent)
           g == Gap(c)
           A == Chosen(c) \cap c.chunk..(c.chunk + csz - 1)
           V == View(ent, c)
           W == View(new, c)
<1>1. /\ c.offset \in Nat /\ c.n \in Nat /\ g \in Nat /\ Pairs(c) \in Nat /\ Pairs(c) + g = c.n
      /\ Pairs(c) <= g /\ N \in Nat /\ DOMAIN ent = 1..N /\ c.offset + c.n <= N
    BY PartsFill DEF CallOK, IsSeq
<1>2. IsSeq(new) /\ Len(new) = N
    <2>1. DOMAIN new = 1..N /\ new = [j \in 1..N |-> new[j]]
        BY <1>1 DEF ChunkExchanged
    <2>2. Len(new) = N
        BY <1>1, <2>1
    <2> QED
        BY <1>1, <2>1, <2>2 DEF IsSeq
<1>3. ASSUME NEW j \in 1..N
      PROVE  /\ new[j] \in {ent[Origin(c, csz, j)], Encrypted(ent[Origin(c, csz, j)])}
             /\ Origin(c, csz, j) \in 1..N
             /\ j \notin Slots(c) => new[j] = ent[j]
    BY ExchangeMoves
<1>4. ASSUME NEW j \in 1..N
      PROVE  GoodRow(new[j], N) /\ Dst(new[j], N) = Dst(ent[Origin(c, csz, j)], N)
    <2> DEFINE e == ent[Origin(c, csz, j)]
    <2>1. GoodRow(e, N)
        BY <1>3
    <2>2. new[j] = e \/ new[j] = Encrypted(e)
        BY <1>3
    <2> HIDE DEF e, N
    <2>3. GoodRow(Encrypted(e), N) /\ Dst(Encrypted(e), N) = Dst(e, N)
        BY <2>1, FlagGoesAlong DEF GoodRow
    <2>4. GoodRow(new[j], N) /\ Dst(new[j], N) = Dst(e, N)
        BY <2>1, <2>2, <2>3
    <2> QED
        BY <2>4 DEF e
<1>5. ASSUME NEW p \in 0..(c.n - 1)
      PROVE  W[p] = IF p \in A THEN V[p + g] ELSE IF p - g \in A THEN V[p - g] ELSE V[p]
    <2> DEFINE j == c.offset + p + 1
    <2>1. j \in 1..N /\ j - 1 - c.offset = p /\ j \in Int
        <3> DEFINE off  == c.offset
                   size == c.n
        <3>1. p \in 0..(size - 1) /\ off \in Nat /\ size \in Nat /\ N \in Nat /\ off + size <= N
            BY <1>1
        <3>2. j = off + p + 1
            OBVIOUS
        <3> HIDE DEF off, size, N, j
        <3>3. j \in 1..N /\ j - 1 - off = p /\ j \in Int
            BY ONLY <3>1, <3>2
        <3> QED
            BY <3>3 DEF off
    <2>2. W[p] = Dst(new[j], N)
        BY <1>2 DEF View
    <2>3. W[p] = Dst(ent[Origin(c, csz, j)], N)
        <3> HIDE DEF j, N, W
        <3> QED
            BY <1>4, <2>1, <2>2
    <2>4. Origin(c, csz, j) = IF p \in A THEN j + g ELSE IF p - g \in A THEN j - g ELSE j
        <3> HIDE DEF j
        <3> QED
            BY <2>1 DEF Origin
    <2>5. \A q \in 0..(c.n - 1) : V[q] = Dst(ent[c.offset + q + 1], N)
        BY DEF View
    <2>6. A \subseteq 0..(Pairs(c) - 1)
        BY DEF Chosen
    <2>7. /\ p \in A => p + g \in 0..(c.n - 1) /\ c.offset + (p + g) + 1 = j + g
          /\ p - g \in A => p - g \in 0..(c.n - 1) /\ c.offset + (p - g) + 1 = j - g
        <3>0. p \in 0..(c.n - 1)
            OBVIOUS
        <3>1. c.offset + (p + g) + 1 = j + g /\ c.offset + (p - g) + 1 = j - g
            BY ONLY <1>1, <3>0
        <3> HIDE DEF j, g
        <3>2. p \in 0..(Pairs(c) - 1) => p + g \in 0..(c.n - 1)
            BY ONLY <1>1, <3>0
        <3>3. p - g \in 0..(Pairs(c) - 1) => p - g \in 0..(c.n - 1)
            BY ONLY <1>1, <3>0
        <3> HIDE DEF A
        <3> QED
            BY <2>6, <3>1, <3>2, <3>3
    <2>8. c.offset + p + 1 = j
        OBVIOUS
    <2> HIDE DEF A, V, W, g, N, j
    <2> QED
        BY <2>3, <2>4, <2>5, <2>7, <2>8
<1>6. W = [p \in 0..(c.n - 1) |-> W[p]]
    BY DEF View
<1>7. W = Crossed(V, c.n, g, A)
    <2> HIDE DEF A, V, W, g
    <2> QED
        BY <1>5, <1>6 DEF Crossed
<1>8. W = SwappedIn(c, V, c.chunk, c.chunk + csz)
    <2> DEFINE hi == c.chunk + csz
               B  == Chosen(c) \cap c.chunk..(hi - 1)
    <2>1. SwappedIn(c, V, c.chunk, hi) = Crossed(V, c.n, g, B)
        <3> HIDE DEF V, hi
        <3> QED
            BY DEF SwappedIn
    <2>2. A = B
        OBVIOUS
    <2> HIDE DEF V, W, g, A, B
    <2> QED
        BY <1>7, <2>1, <2>2 DEF hi
<1>9. \A j \in 1..N : GoodRow(new[j], N) /\ (j \notin Slots(c) => new[j] = ent[j])
    BY <1>3, <1>4
<1>10. \A j \in 1..Len(ent) : GoodRow(new[j], Len(ent))
    BY <1>9
<1>11. \A j \in 1..Len(ent) : j \notin Slots(c) => new[j] = ent[j]
    BY <1>9
<1>12. Len(new) = Len(ent) /\ IsSeq(new)
    BY <1>2
<1>13. View(new, c) = SwappedIn(c, View(ent, c), c.chunk, c.chunk + csz)
    BY <1>8
<1>14. \A x : x = new => RowsExchanged(c, ent, csz, x)
    <2> HIDE DEF new
    <2> QED
        BY <1>10, <1>11, <1>12, <1>13 DEF RowsExchanged
<1> QED
    BY <1>14

(* A call a that begins on the k slots of c's part from off on. *)
Begins(a, new, c, off, k) ==
    Working(a, new) /\ Idle(a) /\ Slots(a) = (c.offset + off + 1)..(c.offset + off + k)

(* Such a call may rotate if it is on a power of two. *)
MayRotate(kind, o, k) ==
    kind \in {"inner", "2power"} /\ (kind = "inner" => o = 0) /\ (kind = "2power" => Power(k))

(* A part of a part is c's. *)
Within(c, off, k, new) ==
    /\ c.offset \in Nat /\ c.n \in Nat /\ c.offset + c.n <= Len(new) /\ Len(new) \in Nat
    /\ off \in Nat /\ k \in Nat \ {0} /\ off + k <= c.n

(* A call on a part of the part, which it finds arranged. *)
LEMMA NewWorking ==
    ASSUME NEW c, NEW new, NEW off, NEW k, Within(c, off, k, new),
           NEW kind, NEW o, MayRotate(kind, o, k),
           NEW m, Arranged(Window(View(new, c), off, k), k, c.offset + off, o, m, Len(new))
    PROVE  Begins(Call(kind, c.offset + off, c.offset + off, o, k), new, c, off, k)
<1> DEFINE a == Call(kind, c.offset + off, c.offset + off, o, k)
           V == View(new, a)
           N == Len(new)
<1> USE DEF Within, MayRotate
<1>1. /\ a.kind = kind /\ a.offset = c.offset + off /\ a.index_start = c.offset + off /\ a.ofs = o
      /\ a.n = k /\ a.phase = "scan" /\ a.chunk = 0 /\ a.m2 = 0
    BY DEF Call
<1>2. CallOK(a)
    BY <1>1 DEF CallOK
<1>3. V = Window(View(new, c), off, k)
    <2>1. \A p \in 0..(k - 1) : /\ off + p \in 0..(c.n - 1)
                                /\ c.offset + (off + p) + 1 = (c.offset + off) + p + 1
        OBVIOUS
    <2> QED
        BY <1>1, <2>1 DEF View, Window
<1>4. 0 = Below(a, V, 0)
    <2>1. {p \in 0..(0 - 1) : V[p] < Boundary(a)} = {}
        OBVIOUS
    <2> QED
        BY <2>1, FS_EmptySet DEF Below, CountBelow
<1>5. a.n > 2 => Scanned(a) \in Nat
    <2> SUFFICES ASSUME a.n > 2 PROVE Scanned(a) \in Nat
        OBVIOUS
    <2>1. Pairs(a) \in Nat
        BY <1>2, PartsFill
    <2> QED
        BY <1>1, <2>1 DEF Scanned
<1>6. Arranged(V, a.n, a.offset, a.ofs, m, N)
    BY <1>1, <1>3
<1> HIDE DEF V
<1>7. Progress(a, V, N)
    BY <1>1, <1>4, <1>5, <1>6 DEF Progress
<1>8. a.n >= 1 /\ a.index_start = a.offset /\ a.offset + a.n <= N
    BY <1>1
<1>9. Working(a, new)
    BY <1>1, <1>2, <1>7, <1>8 DEF Working, V
<1>10. Slots(a) = (c.offset + off + 1)..(c.offset + off + k)
    BY <1>1 DEF Slots
<1> QED
    BY <1>1, <1>9, <1>10 DEF Idle, Begins

(* The two calls a and b that call c makes on the array new. *)
Divide(c, a, b, new) ==
    /\ Working(a, new) /\ Working(b, new) /\ Idle(a) /\ Idle(b)
    /\ Slots(a) \subseteq Slots(c) /\ Slots(b) \subseteq Slots(c)
    /\ Slots(a) \cap Slots(b) = {} /\ Slots(c) \subseteq Slots(a) \cup Slots(b)

(* Parts from the first slot on and behind them are the two. *)
LEMMA TwoDivide ==
    ASSUME NEW c, NEW a, NEW b, NEW new, NEW k \in Nat, NEW g \in Nat, c.offset \in Nat,
           c.n = k + g, Begins(a, new, c, 0, k), Begins(b, new, c, k, g)
    PROVE  Divide(c, a, b, new) /\ Divide(c, b, a, new)
<1> DEFINE off == c.offset
<1>1. /\ off \in Nat /\ Slots(c) = (off + 1)..(off + (k + g))
      /\ Slots(a) = (off + 0 + 1)..(off + 0 + k) /\ Slots(b) = (off + k + 1)..(off + k + g)
    BY DEF Slots, Begins
<1> HIDE DEF off
<1>2. k \in Nat /\ g \in Nat
    OBVIOUS
<1>3. /\ \A j \in Slots(a) : j \in Slots(c) /\ j \notin Slots(b)
      /\ \A j \in Slots(b) : j \in Slots(c)
      /\ \A j \in Slots(c) : j \in Slots(a) \/ j \in Slots(b)
    BY ONLY <1>1, <1>2
<1> QED
    BY <1>3 DEF Divide, Begins

(* When all pairs are swapped the calls that are made find their parts     *)
(* arranged.                                                               *)
LEMMA SubcallsWork ==
    ASSUME NEW c, CallOK(c), c.n > 2, c.index_start = c.offset, c.kind = "inner" => c.ofs = 0,
           NEW new, Len(new) \in Nat, c.offset + c.n <= Len(new),
           NEW D, NEW m, Arranged(D, c.n, c.offset, c.ofs, m, Len(new)),
           c.m2 = Below(c, D, Scanned(c)),
           View(new, c) = Crossed(D, c.n, Gap(c), Chosen(c))
    PROVE  \E a, b : Subcalls(c) = <<a, b>> /\ Divide(c, a, b, new)
<1> DEFINE k == Pairs(c)
           g == Gap(c)
           W == View(new, c)
           N == Len(new)
           first == c.offset
           m2 == c.m2
<1>1. /\ g \in Nat /\ g >= 2 /\ Power(g) /\ k \in Nat /\ k >= 1 /\ k <= g /\ k + g = c.n
      /\ c.kind = "2power" => k = g
    BY PartsFill
<1>2. first \in Nat /\ c.n \in Nat /\ c.kind \in {"inner", "2power"}
    BY DEF CallOK
<1>3. TwoParts(c.n, k, g)
    BY <1>1 DEF TwoParts
<1>4. Boundary(c) = first + k
    BY DEF Boundary
<1>5. CASE c.kind = "inner"
    <2> DEFINE o == (g - k + m2) % g
               a == Call("inner", first + 0, first + 0, 0, k)
               b == Call("2power", first + k, first + k, o, g)
    <2>1. Subcalls(c) = <<a, b>>
        <3>1. first + 0 = first
            BY <1>2
        <3> QED
            BY <1>5, <3>1 DEF Subcalls
    <2>2. m2 = Cardinality({p \in 0..(k - 1) : D[p] < first + k})
        BY <1>4, <1>5 DEF Below, CountBelow, Scanned
    <2>3. W = Crossed(D, c.n, g, m2..(k - 1))
        <3>1. m2 \in Nat
            <4> DEFINE S == {p \in 0..(k - 1) : D[p] < first + k}
            <4>1. IsFiniteSet(0..(k - 1)) /\ S \in SUBSET (0..(k - 1))
                <5>1. 0 \in Int /\ k - 1 \in Int
                    BY <1>1
                <5> QED
                    BY <5>1, FS_Interval
            <4> HIDE DEF S
            <4>2. IsFiniteSet(S)
                BY <4>1, FS_Subset
            <4> QED
                BY <2>2, <4>2, FS_CardinalityType DEF S
        <3>2. \A i : i \in Chosen(c) <=> i \in 0..(k - 1) /\ m2 <= i
            BY <1>5 DEF Chosen, PairSwaps
        <3> HIDE DEF m2, k
        <3>3. \A i : i \in 0..(k - 1) /\ m2 <= i <=> i \in m2..(k - 1)
            BY ONLY <1>1, <3>1
        <3>4. Chosen(c) = m2..(k - 1)
            BY <3>2, <3>3
        <3> QED
            BY <3>4
    <2>4. Arranged(D, c.n, first, 0, m, N)
        BY <1>5
    <2> DEFINE fk == first + k
               m3 == m - m2
    <2>5. /\ o \in 0..(g - 1) /\ Arranged(Window(W, 0, k), k, first, 0, m2, N)
          /\ Arranged(Window(W, k, g), g, fk, o, m3, N)
        <3> HIDE DEF k, g, W, N, first, m2
        <3>1. first \in Int
            BY <1>2
        <3> QED
            BY <1>3, <2>2, <2>3, <2>4, <3>1, InnerArranged
    <2>6. Begins(a, new, c, 0, k)
        <3> DEFINE zero == 0
                   kind == "inner"
        <3>1. Arranged(Window(W, zero, k), k, first + zero, zero, m2, N)
            <4>1. first + 0 = first
                BY <1>2
            <4> QED
                BY <2>5, <4>1
        <3>2. Within(c, zero, k, new)
            BY <1>1, <1>2 DEF Within
        <3>3. MayRotate(kind, zero, k)
            BY DEF MayRotate
        <3>4. a = Call(kind, first + zero, first + zero, zero, k)
            OBVIOUS
        <3> HIDE DEF k, m2, a, zero, kind
        <3>5. Begins(Call(kind, first + zero, first + zero, zero, k), new, c, zero, k)
            BY <3>1, <3>2, <3>3, NewWorking
        <3> QED
            BY <3>4, <3>5 DEF zero
    <2>7. Begins(b, new, c, k, g)
        <3> DEFINE kind == "2power"
        <3>1. Arranged(Window(W, k, g), g, first + k, o, m3, N)
            BY <2>5
        <3>2. Within(c, k, g, new)
            BY <1>1, <1>2 DEF Within
        <3>3. MayRotate(kind, o, g)
            BY <1>1 DEF MayRotate
        <3>4. b = Call(kind, first + k, first + k, o, g)
            OBVIOUS
        <3> HIDE DEF k, g, o, m3, b, kind
        <3>5. Begins(Call(kind, first + k, first + k, o, g), new, c, k, g)
            BY <3>1, <3>2, <3>3, NewWorking
        <3> QED
            BY <3>4, <3>5
    <2> HIDE DEF a, b, k, g
    <2>8. Divide(c, a, b, new)
        BY <1>1, <1>2, <2>6, <2>7, TwoDivide
    <2> QED
        BY <2>1, <2>8
<1>6. CASE c.kind = "2power"
    <2> DEFINE o1 == c.ofs % g
               o2 == (c.ofs + m2) % g
               a == Call("2power", first + g, first + g, o2, g)
               b == Call("2power", first + 0, first + 0, o1, g)
    <2>0. k = g /\ c.n = 2 * g /\ g \in Nat \ {0}
        BY <1>1, <1>2, <1>6
    <2>1. Subcalls(c) = <<a, b>>
        <3>1. first + 0 = first
            BY <1>2
        <3> QED
            BY <1>6, <3>1 DEF Subcalls
    <2>2. m2 = Cardinality({p \in 0..(2 * g - 1) : D[p] < first + g})
        <3>1. Scanned(c) = 2 * g /\ Boundary(c) = first + g
            BY <1>4, <1>6, <2>0 DEF Scanned
        <3> QED
            BY <3>1 DEF Below, CountBelow
    <2>3. W = Crossed(D, 2 * g, g, {i \in 0..(g - 1) : SwapsPair(c.ofs, m2, g, i)})
        <3>1. Chosen(c) = {i \in 0..(g - 1) : SwapsPair(c.ofs, m2, g, i)}
            BY <1>6, <2>0 DEF Chosen, PairSwaps
        <3> QED
            BY <2>0, <3>1
    <2>4. Arranged(D, 2 * g, first, c.ofs, m, N)
        BY <2>0
    <2> DEFINE fg == first + g
               m3 == m - m2
    <2>5. /\ Arranged(Window(W, 0, g), g, first, o1, m2, N)
          /\ Arranged(Window(W, g, g), g, fg, o2, m3, N)
        <3> HIDE DEF g, W, N, first, m2
        <3>1. first \in Int
            BY <1>2
        <3> QED
            BY <2>0, <2>2, <2>3, <2>4, <3>1, HalvesArranged
    <2>6. Begins(b, new, c, 0, g)
        <3> DEFINE zero == 0
                   kind == "2power"
        <3>1. Arranged(Window(W, zero, g), g, first + zero, o1, m2, N)
            <4>1. first + 0 = first
                BY <1>2
            <4> QED
                BY <2>5, <4>1
        <3>2. Within(c, zero, g, new)
            BY <1>1, <1>2 DEF Within
        <3>3. MayRotate(kind, o1, g)
            BY <1>1 DEF MayRotate
        <3>4. b = Call(kind, first + zero, first + zero, o1, g)
            OBVIOUS
        <3> HIDE DEF g, m2, b, zero, kind, o1
        <3>5. Begins(Call(kind, first + zero, first + zero, o1, g), new, c, zero, g)
            BY <3>1, <3>2, <3>3, NewWorking
        <3> QED
            BY <3>4, <3>5 DEF zero
    <2>7. Begins(a, new, c, g, g)
        <3> DEFINE kind == "2power"
        <3>1. Arranged(Window(W, g, g), g, first + g, o2, m3, N)
            BY <2>5
        <3>2. Within(c, g, g, new)
            BY <1>1, <1>2, <2>0 DEF Within
        <3>3. MayRotate(kind, o2, g)
            BY <1>1 DEF MayRotate
        <3>4. a = Call(kind, first + g, first + g, o2, g)
            OBVIOUS
        <3> HIDE DEF g, o2, m3, a, kind
        <3>5. Begins(Call(kind, first + g, first + g, o2, g), new, c, g, g)
            BY <3>1, <3>2, <3>3, NewWorking
        <3> QED
            BY <3>4, <3>5
    <2>8. c.n = g + g
        BY <1>1, <1>2, <2>0
    <2> HIDE DEF a, b, g
    <2>9. Divide(c, a, b, new)
        BY <1>2, <2>0, <2>6, <2>7, <2>8, TwoDivide
    <2> QED
        BY <2>1, <2>9
<1> QED
    BY <1>2, <1>5, <1>6

(* The first call makes its two. *)
LEMMA CallsInstead ==
    ASSUME Parted, stack # <<>>, NEW a, NEW b, stack' = <<a, b>> \o Tail(stack),
           Divide(stack[1], a, b, entries')
    PROVE  Replaces(2) /\ stack'[1] = a /\ stack'[2] = b
<1> DEFINE rest == Tail(stack)
<1>1. IsSeq(stack) /\ Len(stack) \in Nat
    BY DEF Parted, IsSeq
<1>2. /\ Len(stack) >= 1 /\ IsSeq(rest) /\ Len(rest) = Len(stack) - 1
      /\ \A s \in 1..(Len(stack) - 1) : rest[s] = stack[s + 1]
    BY <1>1, TailOfSeq
<1>3. stack' = <<a, b>> \o rest
    OBVIOUS
<1> HIDE DEF rest
<1>4. /\ IsSeq(stack') /\ Len(stack') = Len(rest) + 2 /\ stack'[1] = a /\ stack'[2] = b
      /\ \A s \in 1..Len(rest) : stack'[s + 2] = rest[s]
    <2>1. IsSeq(rest)
        BY <1>2
    <2>2. InFront(a, b, rest, stack')
        BY ONLY <1>3, <2>1, TwoInFront
    <2> QED
        BY <2>2 DEF InFront
<1>5. \A s \in 2..Len(stack) : stack'[s - 1 + 2] = stack[s]
    <2> SUFFICES ASSUME NEW s \in 2..Len(stack) PROVE stack'[s - 1 + 2] = stack[s]
        OBVIOUS
    <2>1. s - 1 \in 1..Len(rest) /\ (s - 1) + 1 = s /\ s - 1 \in 1..(Len(stack) - 1)
        BY <1>1, <1>2
    <2>2. rest[s - 1] = stack[(s - 1) + 1]
        BY <1>2, <2>1
    <2>3. stack'[(s - 1) + 2] = rest[s - 1]
        BY <1>4, <2>1
    <2> QED
        BY <2>1, <2>2, <2>3
<1>6. Len(stack') = Len(stack) - 1 + 2
    BY <1>1, <1>2, <1>4
<1>7. \A s \in 1..2 : Working(stack'[s], entries') /\ Slots(stack'[s]) \subseteq Slots(stack[1])
    <2>1. \A s \in 1..2 : s = 1 \/ s = 2
        OBVIOUS
    <2> QED
        BY <1>4, <2>1 DEF Divide
<1>8. Slots(stack'[1]) \cap Slots(stack'[2]) = {} /\ Idle(stack'[2])
    BY <1>4 DEF Divide
<1> QED
    BY <1>4, <1>5, <1>6, <1>7, <1>8 DEF Replaces

(* A chunk of the swap. *)
LEMMA SwapGoesFurther ==
    ASSUME NEW c, CallOK(c), c.n > 2, NEW lo \in Nat, NEW hi \in Nat, lo <= hi, hi <= Pairs(c),
           NEW V, NEW top, SwappedUpTo(c, V, top, lo), NEW W, W = SwappedIn(c, V, lo, hi)
    PROVE  SwappedUpTo(c, W, top, hi)
<1>1. PICK D, m : /\ Arranged(D, c.n, c.offset, c.ofs, m, top)
                  /\ c.m2 = Below(c, D, Scanned(c))
                  /\ V = SwappedIn(c, D, 0, lo)
    BY DEF SwappedUpTo
<1>2. TwoParts(c.n, Pairs(c), Gap(c)) /\ Pairs(c) \in Nat
    BY PartsFill DEF TwoParts
<1>3. lo \in 0..Pairs(c) /\ hi \in lo..Pairs(c)
    BY <1>2
<1> DEFINE P == Chosen(c)
           n == c.n
           k == Pairs(c)
           g == Gap(c)
<1>4. P \in SUBSET (0..(k - 1))
    BY DEF Chosen
<1>5. /\ V = Crossed(D, n, g, P \cap 0..(lo - 1))
      /\ W = Crossed(V, n, g, P \cap lo..(hi - 1))
    BY <1>1 DEF SwappedIn
<1> HIDE DEF P, n, k, g
<1>6. W = Crossed(D, n, g, P \cap 0..(hi - 1))
    <2> DEFINE A == P \cap lo..(hi - 1)
               B == P \cap 0..(lo - 1)
    <2>1. TwoParts(n, k, g)
        BY <1>2 DEF n, k, g
    <2>2. A \in SUBSET (0..(k - 1)) /\ B \in SUBSET (0..(k - 1)) /\ A \cap B = {}
        BY <1>4
    <2>3. A \cup B = P \cap 0..(hi - 1)
        OBVIOUS
    <2>4. W = Crossed(Crossed(D, n, g, B), n, g, A)
        BY <1>5
    <2> HIDE DEF A, B
    <2>5. Crossed(Crossed(D, n, g, B), n, g, A) = Crossed(D, n, g, A \cup B)
        BY <2>1, <2>2, SwappedTwice
    <2> QED
        BY <2>3, <2>4, <2>5
<1>7. W = SwappedIn(c, D, 0, hi)
    BY <1>6 DEF SwappedIn, P, n, g
<1> QED
    BY <1>1, <1>7 DEF SwappedUpTo

(* One that is not the last. *)
LEMMA SwapGoesOn ==
    ASSUME NEW c, NEW ent, Working(c, ent), c.n > 2, c.n > AKS_BUFFER, ~(Pairs(c) = 1),
           NEW hi \in 0..Pairs(c), NEW new, Len(new) = Len(ent),
           SwappedUpTo(c, View(new, c), Len(ent), hi)
    PROVE  Working(Advanced(c, "swap", hi, c.m2), new)
<1> DEFINE W == View(new, c)
           N == Len(ent)
           d == Advanced(c, "swap", hi, c.m2)
<1>1. PICK D, m : /\ Arranged(D, c.n, c.offset, c.ofs, m, N)
                  /\ c.m2 = Below(c, D, Scanned(c))
                  /\ W = SwappedIn(c, D, 0, hi)
    BY DEF SwappedUpTo
<1>2. /\ d.n = c.n /\ d.offset = c.offset /\ d.ofs = c.ofs /\ d.phase = "swap" /\ d.chunk = hi
      /\ d.m2 = c.m2 /\ Gap(d) = Gap(c) /\ Pairs(d) = Pairs(c) /\ Scanned(d) = Scanned(c)
      /\ \A E, k : Below(d, E, k) = Below(c, E, k)
      /\ Chosen(d) = Chosen(c)
    BY SamePart
<1>3. Progress(d, W, N)
    <2> HIDE DEF d, W, N
    <2>1. d.m2 = Below(d, D, Scanned(d))
        BY <1>1, <1>2
    <2>2. W = SwappedIn(d, D, 0, hi)
        BY <1>1, <1>2 DEF SwappedIn
    <2>3. Arranged(D, d.n, d.offset, d.ofs, m, N)
        BY <1>1, <1>2
    <2>4. SwappedUpTo(d, W, N, hi)
        BY <2>1, <2>2, <2>3 DEF SwappedUpTo
    <2> QED
        BY <1>2, <2>4 DEF Progress
<1> HIDE DEF W, N
<1> QED
    BY <1>3, StillWorking DEF W, N

(* A chunk of pairs swapped leaves the call further on, the last one the   *)
(* two calls of the call, on parts that are arranged for them.             *)
LEMMA SwapKeepsParted == Parted /\ AksSwap => Parted'
<1> SUFFICES ASSUME Parted, AksSwap PROVE Parted'
    OBVIOUS
<1> DEFINE c   == stack[1]
           N   == Len(entries)
           csz == Least(AKS_BUFFER \div 2, Pairs(c) - c.chunk)
           lo  == c.chunk
           hi  == lo + csz
           V   == View(entries, c)
           W   == View(entries', c)
<1>1. stack # <<>>
    BY DEF AksSwap
<1>2. /\ Head(stack) = c /\ Working(c, entries) /\ CallOK(c) /\ c.offset \in Nat /\ c.n \in Nat
      /\ c.index_start = c.offset /\ c.offset + c.n <= N /\ N \in Nat /\ IsSeq(entries)
      /\ \A j \in Slots(c) : j \in 1..N
      /\ \A j \in 1..N : GoodRow(entries[j], N)
    BY <1>1, FirstCall
<1>3. /\ c.n > AKS_BUFFER /\ c.phase = "swap" /\ entries' = ChunkExchanged(c, entries, csz)
      /\ stack' = IF hi = Pairs(c) THEN Subcalls(c) \o Tail(stack)
                  ELSE [stack EXCEPT ![1] = Advanced(c, "swap", hi, c.m2)]
    <2>1. stack[1] = Head(stack)
        BY <1>2
    <2> QED
        BY <2>1 DEF AksSwap, ChunkExchanged
<1>4. AKS_BUFFER \div 2 \in Nat /\ AKS_BUFFER \div 2 >= 1 /\ c.n > 2
    <2>1. AKS_BUFFER \in Nat /\ AKS_BUFFER >= 2
        BY AksBufferAssumption
    <2> QED
        BY <1>2, <1>3, <2>1
<1> HIDE DEF c
<1>5. Pairs(c) \in Nat /\ Pairs(c) >= 1 /\ Scanned(c) \in Nat
    <2>1. Pairs(c) \in Nat /\ Pairs(c) >= 1
        BY <1>2, <1>4, PartsFill
    <2> QED
        BY <1>2, <2>1 DEF Scanned
<1>6. lo \in 0..Pairs(c) /\ SwappedUpTo(c, V, N, lo) /\ (c.kind = "inner" => c.ofs = 0)
    BY <1>2, <1>3 DEF Working, Progress
<1>7. csz \in Nat /\ lo \in Nat /\ hi \in Nat /\ lo <= hi /\ hi <= Pairs(c)
      /\ (Pairs(c) = 1 /\ lo = 0 => hi = Pairs(c))
    <2> DEFINE half == AKS_BUFFER \div 2
               k == Pairs(c)
    <2>1. csz = IF half < k - lo THEN half ELSE k - lo
        BY DEF Least
    <2>2. half \in Nat /\ half >= 1 /\ k \in Nat /\ lo \in 0..k
        BY <1>4, <1>5, <1>6
    <2> HIDE DEF lo, csz, half, k
    <2>3. csz \in Nat /\ lo \in Nat /\ lo + csz \in Nat /\ lo <= lo + csz /\ lo + csz <= k
          /\ (k = 1 /\ lo = 0 => lo + csz = k)
        BY ONLY <2>1, <2>2
    <2> QED
        BY <2>3 DEF k
<1>8. Pairs(c) = 1 => hi = Pairs(c)
    <2>1. Pairs(c) = 1 => lo = 0
        BY <1>2, <1>3 DEF CallOK
    <2> QED
        BY <1>7, <2>1
<1> HIDE DEF csz
<1>9. /\ IsSeq(entries') /\ Len(entries') = N
      /\ \A j \in 1..N : GoodRow(entries'[j], N)
      /\ \A j \in 1..N : j \notin Slots(c) => entries'[j] = entries[j]
      /\ W = SwappedIn(c, V, lo, hi)
    <2>1. RowsExchanged(c, entries, csz, ChunkExchanged(c, entries, csz))
        BY <1>2, <1>4, <1>7, ExchangeSwaps
    <2>2. RowsExchanged(c, entries, csz, entries')
        BY <1>3, <2>1
    <2> QED
        BY <2>2 DEF RowsExchanged
<1>10. SwappedUpTo(c, W, N, hi)
    <2> HIDE DEF V, W, N, lo, hi
    <2> QED
        BY <1>2, <1>4, <1>6, <1>7, <1>9, SwapGoesFurther
<1>11. CASE hi = Pairs(c)
    <2>1. PICK D, m : /\ Arranged(D, c.n, c.offset, c.ofs, m, N)
                      /\ c.m2 = Below(c, D, Scanned(c))
                      /\ W = SwappedIn(c, D, 0, hi)
        BY <1>10 DEF SwappedUpTo
    <2>2. W = Crossed(D, c.n, Gap(c), Chosen(c))
        <3>1. Chosen(c) \cap 0..(Pairs(c) - 1) = Chosen(c)
            BY DEF Chosen
        <3> QED
            BY <1>11, <2>1, <3>1 DEF SwappedIn
    <2>3. PICK a, b : Subcalls(c) = <<a, b>> /\ Divide(c, a, b, entries')
        BY <1>2, <1>4, <1>6, <1>9, <2>1, <2>2, SubcallsWork
    <2>4. stack' = <<a, b>> \o Tail(stack)
        BY <1>3, <1>11, <2>3
    <2>5. Replaces(2) /\ stack'[1] = a /\ stack'[2] = b
        BY <1>1, <2>3, <2>4, CallsInstead DEF c
    <2>6. \A j \in Slots(c) : \E s \in 1..2 : j \in Slots(stack'[s])
        <3> SUFFICES ASSUME NEW j \in Slots(c) PROVE \E s \in 1..2 : j \in Slots(stack'[s])
            OBVIOUS
        <3>1. j \in Slots(a) \/ j \in Slots(b)
            BY <2>3 DEF Divide
        <3>2. 1 \in 1..2 /\ 2 \in 1..2
            OBVIOUS
        <3> QED
            BY <2>5, <3>1, <3>2
    <2>7. Settles(2)
        BY <1>9, <2>6 DEF Settles, c
    <2> QED
        BY <1>1, <2>5, <2>7, PartsReplaced
<1>12. CASE hi # Pairs(c)
    <2> DEFINE d == Advanced(c, "swap", hi, c.m2)
    <2>1. Working(d, entries')
        <3>1. hi \in 0..Pairs(c) /\ ~(Pairs(c) = 1)
            BY <1>5, <1>7, <1>8, <1>12
        <3> HIDE DEF hi
        <3> QED
            BY <1>2, <1>3, <1>4, <1>9, <1>10, <3>1, SwapGoesOn
    <2>2. Slots(d) = Slots(c)
        BY SamePart
    <2>3. stack' = [stack EXCEPT ![1] = d]
        BY <1>3, <1>12
    <2> HIDE DEF d
    <2>4. Replaces(1)
        BY <1>1, <2>1, <2>2, <2>3, CallInstead DEF c
    <2>5. stack'[1] = d
        <3>1. IsSeq(stack) /\ Len(stack) >= 1
            BY <1>1, TailOfSeq DEF Parted
        <3>2. 1 \in DOMAIN stack
            BY <3>1 DEF IsSeq
        <3> QED
            BY <2>3, <3>2
    <2>6. \A j \in Slots(c) : \E s \in 1..1 : j \in Slots(stack'[s])
        BY <2>2, <2>5
    <2>7. Settles(1)
        BY <1>9, <2>6 DEF Settles, c
    <2> QED
        BY <1>1, <2>4, <2>7, PartsReplaced
<1> QED
    BY <1>11, <1>12

(* Every step of the distribution keeps its parts so. *)
LEMMA StepsKeepParted == Parted /\ AksNext => Parted'
BY ReturnKeepsParted, BaseCaseKeepsParted, ScanKeepsParted, SwapKeepsParted DEF AksNext

-----------------------------------------------------------------------------
(* What the distribution starts from: in an array for top slots the rows   *)
(* come first, each with a destination of its own, in their order.         *)
Fronted(t, top) ==
    /\ IsSeq(t)
    /\ \A j \in 1..Len(t) : GoodRow(t[j], top)
    /\ \A j, k \in 1..Len(t) :
          j < k /\ Real(t[k]) => Real(t[j]) /\ t[j].dst_idx < t[k].dst_idx

(* The rows end somewhere. *)
LEMMA FrontEnds ==
    ASSUME NEW t, NEW top, Fronted(t, top)
    PROVE  \E m \in 0..Len(t) : \A j \in 1..Len(t) : Real(t[j]) <=> j <= m
<1>1. Len(t) \in Nat
    BY DEF Fronted, IsSeq
<1> DEFINE T == {j \in 1..Len(t) : ~Real(t[j])}
<1>2. CASE T = {}
    <2>1. \A j \in 1..Len(t) : Real(t[j]) <=> j <= Len(t)
        BY <1>1, <1>2
    <2>2. Len(t) \in 0..Len(t)
        BY <1>1
    <2> QED
        BY <2>1, <2>2
<1>3. CASE T # {}
    <2>1. T \subseteq Nat
        OBVIOUS
    <2> HIDE DEF T
    <2>2. PICK x \in T : \A y \in T : x <= y
        BY <1>3, <2>1, Smallest
    <2> USE DEF T
    <2>3. x \in 1..Len(t) /\ ~Real(t[x]) /\ x - 1 \in 0..Len(t)
        BY <1>1, <2>2
    <2>4. ASSUME NEW j \in 1..Len(t) PROVE Real(t[j]) <=> j <= x - 1
        <3>1. CASE j <= x - 1
            <4>1. j \notin T
                BY <1>1, <2>2, <2>3, <3>1
            <4> QED
                BY <3>1, <4>1
        <3>2. CASE ~(j <= x - 1)
            <4>1. j = x \/ x < j
                BY <1>1, <2>3, <3>2
            <4>2. ~Real(t[j])
                BY <2>3, <4>1 DEF Fronted
            <4> QED
                BY <3>2, <4>2
        <3> QED
            BY <3>1, <3>2
    <2> QED
        BY <2>3, <2>4
<1> QED
    BY <1>2, <1>3

(* Seen by the call that starts, on the whole array, it is arranged. *)
LEMMA FrontArranged ==
    ASSUME NEW t, NEW N, Fronted(t, N), Len(t) = N, N >= 1
    PROVE  \E m : Arranged([p \in 0..(N - 1) |-> Dst(t[p + 1], N)], N, 0, 0, m, N)
<1> DEFINE V == [p \in 0..(N - 1) |-> Dst(t[p + 1], N)]
<1>1. N \in Nat
    BY DEF Fronted, IsSeq
<1>2. PICK m \in 0..N : \A j \in 1..N : Real(t[j]) <=> j <= m
    BY FrontEnds
<1>3. ASSUME NEW p \in 0..(N - 1)
      PROVE  /\ p + 1 \in 1..N /\ V[p] = Dst(t[p + 1], N) /\ V[p] \in Int
             /\ p < m => Real(t[p + 1]) /\ V[p] = t[p + 1].dst_idx /\ 0 <= V[p] /\ V[p] < 0 + N
             /\ p >= m => V[p] >= N
    <2>1. p + 1 \in 1..N /\ (p < m <=> p + 1 <= m) /\ (p >= m <=> ~(p + 1 <= m))
        BY <1>1, <1>2
    <2>2. V[p] = Dst(t[p + 1], N)
        OBVIOUS
    <2> HIDE DEF V
    <2>3. GoodRow(t[p + 1], N) /\ (Real(t[p + 1]) <=> p + 1 <= m)
        BY <1>2, <2>1 DEF Fronted
    <2>4. Real(t[p + 1]) => V[p] = t[p + 1].dst_idx /\ V[p] \in 0..(N - 1)
        BY <2>2, <2>3 DEF Dst, GoodRow
    <2>5. ~Real(t[p + 1]) => V[p] = N
        BY <2>2 DEF Dst
    <2> QED
        BY <1>1, <2>1, <2>2, <2>3, <2>4, <2>5
<1> HIDE DEF V
<1>4. \A p \in 0..(N - 1) : Rank(N, 0, p) = p
    BY DEF Rank
<1>5. \A p, q \in 0..(N - 1) : p < q /\ q < m => V[p] < V[q]
    <2> SUFFICES ASSUME NEW p \in 0..(N - 1), NEW q \in 0..(N - 1), p < q, q < m
                 PROVE  V[p] < V[q]
        OBVIOUS
    <2>1. p < m /\ p + 1 < q + 1
        BY <1>1, <1>2
    <2>2. /\ V[p] = t[p + 1].dst_idx /\ V[q] = t[q + 1].dst_idx /\ Real(t[q + 1])
          /\ p + 1 \in 1..N /\ q + 1 \in 1..N
        BY <1>3, <2>1
    <2>3. t[p + 1].dst_idx < t[q + 1].dst_idx
        <3> DEFINE a == p + 1
                   b == q + 1
        <3>1. a < b /\ a \in 1..Len(t) /\ b \in 1..Len(t) /\ Real(t[b])
            BY <2>1, <2>2
        <3> HIDE DEF a, b
        <3>2. t[a].dst_idx < t[b].dst_idx
            BY <3>1 DEF Fronted
        <3> QED
            BY <3>2 DEF a, b
    <2> QED
        BY <2>2, <2>3
<1>6. Arranged(V, N, 0, 0, m, N)
    <2>1. 0 \in 0..(N - 1) /\ m \in 0..N /\ N \in Int /\ 0 + N <= N
        BY <1>1
    <2> DEFINE zero == 0
    <2>2. \A p \in 0..(N - 1) : Rank(N, zero, p) = p
        BY <1>4
    <2>3. zero \in 0..(N - 1) /\ m \in 0..N /\ N \in Int /\ zero + N <= N
        BY <2>1
    <2>4. \A p \in 0..(N - 1) :
             /\ V[p] \in Int
             /\ p < m => zero <= V[p] /\ V[p] < zero + N
             /\ p >= m => V[p] >= N
        BY <1>3
    <2> HIDE DEF zero
    <2>5. Arranged(V, N, zero, zero, m, N)
        BY <1>5, <2>2, <2>3, <2>4 DEF Arranged
    <2> QED
        BY <2>5 DEF zero
<1> QED
    BY <1>6 DEF V

(* So the distribution starts as its calls expect it. *)
LEMMA StartIsParted ==
    ASSUME NEW N, Fronted(entries', N), Len(entries') = N, N >= 1,
           stack' = <<Call("inner", 0, 0, 0, N)>>
    PROVE  Parted'
<1> DEFINE c   == Call("inner", 0, 0, 0, N)
           ent == entries'
<1>1. N \in Nat /\ IsSeq(ent) /\ \A j \in 1..N : GoodRow(ent[j], N)
    BY DEF Fronted, IsSeq
<1>2. /\ c.kind = "inner" /\ c.offset = 0 /\ c.index_start = 0 /\ c.ofs = 0 /\ c.n = N
      /\ c.phase = "scan" /\ c.chunk = 0 /\ c.m2 = 0
    BY DEF Call
<1>3. Len(stack') = 1 /\ stack'[1] = c /\ IsSeq(stack')
    BY DEF IsSeq
<1> HIDE DEF c
<1>4. View(ent, c) = [p \in 0..(N - 1) |-> Dst(ent[p + 1], N)]
    <2>1. \A p \in 0..(N - 1) : 0 + p + 1 = p + 1
        BY <1>1
    <2> QED
        BY <1>2, <2>1 DEF View
<1>5. \E m : Arranged(View(ent, c), c.n, c.offset, c.ofs, m, N)
    <2> HIDE DEF ent
    <2>1. \E m : Arranged([p \in 0..(N - 1) |-> Dst(ent[p + 1], N)], N, 0, 0, m, N)
        BY FrontArranged DEF ent
    <2> QED
        BY <1>2, <1>4, <2>1
<1>6. CallOK(c)
    BY <1>1, <1>2 DEF CallOK
<1>7. c.n > 2 => c.chunk \in 0..Scanned(c)
    <2>1. ASSUME c.n > 2 PROVE Pairs(c) \in Nat
        BY <1>6, <2>1, PartsFill
    <2> QED
        BY <1>2, <2>1 DEF Scanned
<1>8. c.m2 = Below(c, View(ent, c), c.chunk)
    <2> DEFINE D == View(ent, c)
               b == Boundary(c)
    <2> HIDE DEF D, b
    <2>1. CountBelow(D, b, 0) = 0
        <3>1. {p \in 0..(0 - 1) : D[p] < b} = {}
            OBVIOUS
        <3> QED
            BY <3>1, FS_EmptySet DEF CountBelow
    <2> QED
        BY <1>2, <2>1 DEF Below, D, b
<1>9. Progress(c, View(ent, c), N)
    BY <1>2, <1>5, <1>7, <1>8 DEF Progress
<1>10. Working(c, ent)
    BY <1>1, <1>2, <1>6, <1>9 DEF Working
<1>11. \A j \in 1..N : j \in Slots(c)
    BY <1>1, <1>2 DEF Slots
<1> QED
    BY <1>1, <1>3, <1>10, <1>11 DEF Parted

-----------------------------------------------------------------------------
(* The rows that a pending call finds in its part belong there. *)
LEMMA RowsBelong ==
    ASSUME NEW c, NEW ent, Working(c, ent), Len(ent) \in Nat, NEW j \in Slots(c),
           GoodRow(ent[j], Len(ent)), Real(ent[j])
    PROVE  ent[j].dst_idx + 1 \in Slots(c)
<1> DEFINE N == Len(ent)
           V == View(ent, c)
           p == j - 1 - c.offset
           x == ent[j].dst_idx
<1>1. /\ c.offset \in Nat /\ c.n \in Nat \ {0} /\ c.offset + c.n <= N /\ N \in Nat /\ CallOK(c)
      /\ j \in (c.offset + 1)..(c.offset + c.n)
    BY DEF Working, CallOK, Slots
<1>2. p \in 0..(c.n - 1) /\ c.offset + p + 1 = j
    BY ONLY <1>1
<1>3. V[p] = x /\ x \in 0..(N - 1)
    <2>1. V[p] = Dst(ent[c.offset + p + 1], N)
        BY <1>2 DEF View
    <2> QED
        BY <1>2, <2>1 DEF Dst, GoodRow
<1> DEFINE Inside(y) == y >= N \/ (c.offset <= y /\ y < c.offset + c.n)
<1>4. \A D, m : Arranged(D, c.n, c.offset, c.ofs, m, N) => \A q \in 0..(c.n - 1) : Inside(D[q])
    <2> SUFFICES ASSUME NEW D, NEW m, Arranged(D, c.n, c.offset, c.ofs, m, N), NEW q \in 0..(c.n - 1)
                 PROVE  Inside(D[q])
        OBVIOUS
    <2>1. Rank(c.n, c.ofs, q) < m \/ Rank(c.n, c.ofs, q) >= m
        BY <1>1 DEF Arranged, Rank
    <2> QED
        BY <2>1 DEF Arranged
<1>5. Inside(V[p])
    <2> HIDE DEF V, p, Inside, N
    <2>1. CASE c.phase = "scan"
        BY <1>2, <1>4, <2>1 DEF Working, Progress, V, N
    <2>2. CASE c.phase = "swap"
        <3>1. SwappedUpTo(c, V, N, c.chunk) /\ c.n > 2
            BY <1>1, <2>2, AksBufferAssumption DEF Working, Progress, V, N
        <3>2. PICK D, m : /\ Arranged(D, c.n, c.offset, c.ofs, m, N)
                          /\ V = SwappedIn(c, D, 0, c.chunk)
            BY <3>1 DEF SwappedUpTo
        <3> DEFINE A == Chosen(c) \cap 0..(c.chunk - 1)
                   g == Gap(c)
        <3>3. V = Crossed(D, c.n, g, A)
            BY <3>2 DEF SwappedIn
        <3>4. /\ g \in Nat /\ Pairs(c) \in Nat /\ Pairs(c) + g = c.n /\ Pairs(c) <= g
            BY <1>1, <3>1, PartsFill
        <3>5. A \subseteq 0..(Pairs(c) - 1)
            BY DEF Chosen
        <3> HIDE DEF A, g
        <3>6. V[p] = D[IF p \in A THEN p + g ELSE IF p - g \in A THEN p - g ELSE p]
            BY <1>2, <3>3 DEF Crossed
        <3>7. /\ p \in A => p + g \in 0..(c.n - 1)
              /\ p - g \in A => p - g \in 0..(c.n - 1)
            <4>1. p \in 0..(Pairs(c) - 1) => p + g \in 0..(c.n - 1)
                BY ONLY <1>1, <1>2, <3>4
            <4>2. p - g \in 0..(Pairs(c) - 1) => p - g \in 0..(c.n - 1)
                BY ONLY <1>1, <1>2, <3>4
            <4> QED
                BY <3>5, <4>1, <4>2
        <3> QED
            BY <1>2, <1>4, <3>2, <3>6, <3>7
    <2> QED
        BY <1>1, <2>1, <2>2 DEF CallOK
<1>6. x + 1 \in (c.offset + 1)..(c.offset + c.n)
    <2>1. Inside(x)
        BY <1>3, <1>5
    <2> HIDE DEF x
    <2> QED
        BY <1>1, <1>3, <2>1
<1> QED
    BY <1>6 DEF Slots

(* So no row lies outside the part that it belongs to, and what no call    *)
(* covers any more is routed.                                              *)
LEMMA PartedDecides == Parted => PartsAreSelfContained /\ FinishedPartsAreRouted
<1> SUFFICES ASSUME Parted PROVE PartsAreSelfContained /\ FinishedPartsAreRouted
    OBVIOUS
<1> DEFINE N == Len(entries)
<1>1. /\ N \in Nat /\ DOMAIN entries = 1..N /\ DOMAIN stack = 1..Len(stack)
      /\ \A j \in 1..N : GoodRow(entries[j], N)
      /\ \A s \in 1..Len(stack) : Working(stack[s], entries)
      /\ \A s, t \in 1..Len(stack) : s # t => Slots(stack[s]) \cap Slots(stack[t]) = {}
      /\ \A j \in 1..N : Home(entries[j], j) \/ \E s \in 1..Len(stack) : j \in Slots(stack[s])
    BY DEF Parted, IsSeq
<1>2. ASSUME NEW s \in 1..Len(stack), NEW j \in 1..N, Real(entries[j])
      PROVE  j \in Slots(stack[s]) <=> entries[j].dst_idx + 1 \in Slots(stack[s])
    <2>1. ASSUME NEW u \in 1..Len(stack), j \in Slots(stack[u])
          PROVE  entries[j].dst_idx + 1 \in Slots(stack[u])
        <3> DEFINE c == stack[u]
        <3>1. Working(c, entries) /\ j \in Slots(c) /\ GoodRow(entries[j], Len(entries)) /\ Len(entries) \in Nat
            BY <1>1, <2>1
        <3> HIDE DEF c, N
        <3>2. entries[j].dst_idx + 1 \in Slots(c)
            BY <1>2, <3>1, RowsBelong
        <3> QED
            BY <3>2 DEF c
    <2>2. ASSUME entries[j].dst_idx + 1 \in Slots(stack[s]) PROVE j \in Slots(stack[s])
        <3>1. CASE Home(entries[j], j)
            <4>1. entries[j].dst_idx + 1 = j
                BY <1>1, <1>2, <3>1 DEF Home
            <4> QED
                BY <2>2, <4>1
        <3>2. CASE \E u \in 1..Len(stack) : j \in Slots(stack[u])
            <4>1. PICK u \in 1..Len(stack) : j \in Slots(stack[u])
                BY <3>2
            <4>2. entries[j].dst_idx + 1 \in Slots(stack[u])
                BY <2>1, <4>1
            <4>3. u = s
                BY <1>1, <2>2, <4>2
            <4> QED
                BY <4>1, <4>3
        <3> QED
            BY <1>1, <3>1, <3>2
    <2> QED
        BY <2>1, <2>2
<1>3. PartsAreSelfContained
    BY <1>1, <1>2 DEF PartsAreSelfContained, Slots, Real
<1>4. ASSUME NEW s \in 1..Len(stack), NEW j \in 1..N, j \in Slots(stack[s])
      PROVE  j - stack[s].offset \in 1..stack[s].n
    <2> DEFINE c == stack[s]
    <2>1. c.offset \in Nat /\ c.n \in Nat /\ j \in (c.offset + 1)..(c.offset + c.n)
        BY <1>1, <1>4 DEF Working, CallOK, Slots
    <2> HIDE DEF c
    <2>2. j - c.offset \in 1..c.n
        BY ONLY <2>1
    <2> QED
        BY <2>2 DEF c
<1>5. FinishedPartsAreRouted
    BY <1>1, <1>4 DEF FinishedPartsAreRouted, Home, Real
<1> QED
    BY <1>3, <1>5

-----------------------------------------------------------------------------
(* No row is lost on the way, and none appears. *)

(* The rows of t are rows of u, but for their flags. *)
ComeFrom(t, u) ==
    \A j \in 1..Len(t) : Real(t[j]) => \E k \in 1..Len(u) : Decrypted(u[k]) = Decrypted(t[j])

SameReal(t, u) == ComeFrom(t, u) /\ ComeFrom(u, t)

(* Rows that differ in their flags at most are alike in everything else.   *)
LEMMA DecryptedFields ==
    ASSUME NEW e, NEW f, Decrypted(e) = Decrypted(f)
    PROVE  /\ e.original_index = f.original_index /\ e.final_mult = f.final_mult
           /\ e.dst_idx = f.dst_idx /\ e.field_type = f.field_type /\ (Real(e) <=> Real(f))
<1>1. /\ Decrypted(e).original_index = e.original_index /\ Decrypted(e).final_mult = e.final_mult
      /\ Decrypted(e).dst_idx = e.dst_idx /\ Decrypted(e).field_type = e.field_type
      /\ Decrypted(f).original_index = f.original_index /\ Decrypted(f).final_mult = f.final_mult
      /\ Decrypted(f).dst_idx = f.dst_idx /\ Decrypted(f).field_type = f.field_type
    BY DEF Decrypted, WithFlag, Row
<1> QED
    BY <1>1 DEF Real

(* Where rows come from is where those they come from do. *)
LEMMA ComeFromThere ==
    ASSUME NEW t, NEW u, NEW v, ComeFrom(t, u), ComeFrom(u, v)
    PROVE  ComeFrom(t, v)
<1> SUFFICES ASSUME NEW j \in 1..Len(t), Real(t[j])
             PROVE  \E k \in 1..Len(v) : Decrypted(v[k]) = Decrypted(t[j])
    BY DEF ComeFrom
<1>1. PICK k \in 1..Len(u) : Decrypted(u[k]) = Decrypted(t[j])
    BY DEF ComeFrom
<1>2. Real(u[k])
    BY <1>1, DecryptedFields
<1>3. PICK l \in 1..Len(v) : Decrypted(v[l]) = Decrypted(u[k])
    BY <1>2 DEF ComeFrom
<1> QED
    BY <1>1, <1>3

(* Of three tables, two with the same rows as the one between them. *)
LEMMA SameRealAs ==
    ASSUME NEW t, NEW u, NEW v, SameReal(t, u), SameReal(u, v)
    PROVE  SameReal(t, v)
BY ComeFromThere DEF SameReal

(* What is swapped comes from where it would go. *)
LEMMA OriginTwice ==
    ASSUME NEW c, CallOK(c), c.n > 2, NEW csz, NEW j \in Int
    PROVE  Origin(c, csz, Origin(c, csz, j)) = j
<1> DEFINE off == c.offset
           g == Gap(c)
           k == Pairs(c)
           A == Chosen(c) \cap c.chunk..(c.chunk + csz - 1)
           o == Origin(c, csz, j)
<1>1. off \in Int /\ g \in Nat /\ k \in Nat /\ k <= g
    BY PartsFill DEF CallOK
<1>2. \A x : x \in A => x \in 0..(k - 1)
    BY DEF Chosen
<1>3. \A x : Origin(c, csz, x) = IF x - 1 - off \in A THEN x + g
                                 ELSE IF x - 1 - off - g \in A THEN x - g ELSE x
    BY DEF Origin
<1> HIDE DEF off, g, k, A
<1>4. o = IF j - 1 - off \in A THEN j + g ELSE IF j - 1 - off - g \in A THEN j - g ELSE j
    BY ONLY <1>3
<1>5. Origin(c, csz, o) = IF o - 1 - off \in A THEN o + g
                          ELSE IF o - 1 - off - g \in A THEN o - g ELSE o
    BY ONLY <1>3
<1> HIDE DEF o
<1>6. ASSUME j - 1 - off \in A PROVE Origin(c, csz, o) = j
    <2>1. o = j + g
        BY ONLY <1>4, <1>6
    <2>2. j \in Int /\ j - 1 - off \in 0..(k - 1)
        BY <1>2, <1>6
    <2>3. o - 1 - off - g = j - 1 - off /\ ~(o - 1 - off \in 0..(k - 1)) /\ o - g = j
        BY ONLY <1>1, <2>1, <2>2
    <2>4. o - 1 - off - g \in A
        BY ONLY <1>6, <2>3
    <2>5. o - 1 - off \notin A
        BY ONLY <1>2, <2>3
    <2> QED
        BY ONLY <1>5, <2>3, <2>4, <2>5
<1>7. ASSUME j - 1 - off \notin A, j - 1 - off - g \in A PROVE Origin(c, csz, o) = j
    <2>1. o = j - g
        BY ONLY <1>4, <1>7
    <2>2. j \in Int
        OBVIOUS
    <2>3. o - 1 - off = j - 1 - off - g /\ o + g = j
        BY ONLY <1>1, <2>1, <2>2
    <2>4. o - 1 - off \in A
        BY ONLY <1>7, <2>3
    <2> QED
        BY ONLY <1>5, <2>3, <2>4
<1>8. ASSUME j - 1 - off \notin A, j - 1 - off - g \notin A PROVE Origin(c, csz, o) = j
    <2>1. o = j
        BY ONLY <1>4, <1>8
    <2> QED
        BY ONLY <1>5, <1>8, <2>1
<1> QED
    BY <1>6, <1>7, <1>8 DEF o

(* A chunk swapped has the rows that it had. *)
LEMMA SwapKeepsRows == Parted /\ AksSwap => SameReal(entries', entries)
<1> SUFFICES ASSUME Parted, AksSwap PROVE SameReal(entries', entries)
    OBVIOUS
<1> DEFINE c   == stack[1]
           N   == Len(entries)
           csz == Least(AKS_BUFFER \div 2, Pairs(c) - c.chunk)
           new == ChunkExchanged(c, entries, csz)
<1>1. stack # <<>>
    BY DEF AksSwap
<1>2. /\ Head(stack) = c /\ Working(c, entries) /\ CallOK(c) /\ c.n \in Nat
      /\ c.offset + c.n <= N /\ N \in Nat /\ IsSeq(entries)
      /\ \A j \in 1..N : GoodRow(entries[j], N)
    BY <1>1, FirstCall
<1>3. c.n > AKS_BUFFER /\ c.phase = "swap" /\ entries' = new
    <2>1. stack[1] = Head(stack)
        BY <1>2
    <2> QED
        BY <2>1 DEF AksSwap, ChunkExchanged
<1> HIDE DEF c
<1>4. c.n > 2 /\ AKS_BUFFER \div 2 \in Nat
    BY <1>2, <1>3, AksBufferAssumption
<1>5. csz \in Nat /\ c.chunk \in Nat /\ c.chunk + csz <= Pairs(c)
    <2>1. c.chunk \in 0..Pairs(c)
        BY <1>2, <1>3 DEF Working, Progress
    <2>2. Pairs(c) \in Nat
        BY <1>2, <1>4, PartsFill
    <2> QED
        BY <1>4, <2>1, <2>2 DEF Least
<1> HIDE DEF csz
<1>6. RowsExchanged(c, entries, csz, new)
    BY <1>2, <1>4, <1>5, ExchangeSwaps
<1>7. Len(new) = N
    BY <1>6 DEF RowsExchanged
<1>8. \A j \in 1..N : /\ new[j] \in {entries[Origin(c, csz, j)], Encrypted(entries[Origin(c, csz, j)])}
                      /\ Origin(c, csz, j) \in 1..N
    BY <1>2, <1>4, <1>5, ExchangeMoves
<1> HIDE DEF new
<1>9. \A j \in 1..N : Decrypted(new[j]) = Decrypted(entries[Origin(c, csz, j)])
    BY <1>8, FlagGoesAlong
<1>10. \A j \in 1..N : Origin(c, csz, Origin(c, csz, j)) = j
    BY <1>2, <1>4, OriginTwice
<1>11. ComeFrom(new, entries)
    BY <1>7, <1>8, <1>9 DEF ComeFrom
<1>12. ComeFrom(entries, new)
    <2> SUFFICES ASSUME NEW k \in 1..N
                 PROVE  \E j \in 1..N : Decrypted(new[j]) = Decrypted(entries[k])
        BY <1>7 DEF ComeFrom
    <2>1. Origin(c, csz, k) \in 1..N /\ Origin(c, csz, Origin(c, csz, k)) = k
        BY <1>8, <1>10
    <2> QED
        BY <1>9, <2>1
<1> QED
    BY <1>3, <1>11, <1>12 DEF SameReal

(* So has a part routed in the enclave's buffer. *)
LEMMA BaseCaseKeepsRows == Parted /\ AksBaseCase => SameReal(entries', entries)
<1> SUFFICES ASSUME Parted, AksBaseCase PROVE SameReal(entries', entries)
    OBVIOUS
<1> DEFINE c == stack[1]
           N == Len(entries)
           buf == Fetched(c)
           done == Routed(c, buf)
<1>1. stack # <<>>
    BY DEF AksBaseCase
<1>2. /\ Head(stack) = c /\ c.offset \in Nat /\ c.n \in Nat \ {0} /\ c.offset + c.n <= N
      /\ N \in Nat /\ DOMAIN entries = 1..N
    BY <1>1, FirstCall
<1>3. entries' = [j \in DOMAIN entries |->
                     IF j - c.offset \in 1..c.n THEN Encrypted(done[j - c.offset]) ELSE entries[j]]
    <2> HIDE DEF c
    <2> QED
        BY <1>2 DEF AksBaseCase
<1>4. InSlots(buf, done, c.n, c.offset)
    BY BaseCaseRoutes
<1> HIDE DEF c
<1>5. ASSUME NEW i \in 1..c.n
      PROVE  /\ Real(buf[i]) <=> Real(entries[c.offset + i])
             /\ Real(buf[i]) => Decrypted(buf[i]) = Decrypted(entries[c.offset + i])
    <2> DEFINE e == entries[c.offset + i]
    <2>1. buf[i] = IF Decrypted(e).field_type = DIST_PADDING
                   THEN WithDestination(Decrypted(e), c.index_start + c.n) ELSE Decrypted(e)
        BY DEF Fetched
    <2> HIDE DEF e, buf
    <2>2. /\ Decrypted(e).field_type = e.field_type /\ Decrypted(Decrypted(e)) = Decrypted(e)
          /\ \A x : WithDestination(Decrypted(e), x).field_type = e.field_type
        BY DEF Decrypted, WithFlag, WithDestination, Row
    <2>3. /\ Real(buf[i]) <=> Real(e)
          /\ Real(buf[i]) => Decrypted(buf[i]) = Decrypted(e)
        BY <2>1, <2>2 DEF Real
    <2> QED
        BY <2>3 DEF e
<1>6. \A j \in 1..N : entries'[j] = IF j - c.offset \in 1..c.n THEN Encrypted(done[j - c.offset])
                                    ELSE entries[j]
    BY <1>2, <1>3
<1>7. Len(entries') = N
    <2>1. entries' = [j \in 1..N |-> entries'[j]]
        BY <1>2, <1>3
    <2> QED
        BY <1>2, <2>1
<1>8. /\ \A i \in 1..c.n : c.offset + i \in 1..N /\ (c.offset + i) - c.offset = i
      /\ \A j \in 1..N : c.offset + (j - c.offset) = j
    BY <1>2
<1>9. /\ \A i \in 1..c.n : Real(buf[i]) => \E j \in 1..c.n : done[j] = buf[i]
      /\ \A j \in 1..c.n : Real(done[j]) => \E i \in 1..c.n : done[j] = buf[i]
    BY <1>4 DEF InSlots
<1> HIDE DEF done, buf, N
<1>10. ComeFrom(entries', entries)
    <2> SUFFICES ASSUME NEW j \in 1..N, Real(entries'[j])
                 PROVE  \E k \in 1..N : Decrypted(entries[k]) = Decrypted(entries'[j])
        BY <1>7 DEF ComeFrom, N
    <2>1. CASE j - c.offset \in 1..c.n
        <3> DEFINE p == j - c.offset
        <3>1. p \in 1..c.n /\ entries'[j] = Encrypted(done[p])
            BY <1>6, <2>1
        <3> HIDE DEF p
        <3>2. Real(done[p]) /\ Decrypted(entries'[j]) = Decrypted(done[p])
            BY <3>1, FlagGoesAlong
        <3>3. PICK i \in 1..c.n : done[p] = buf[i]
            BY <1>9, <3>1, <3>2
        <3>4. Decrypted(buf[i]) = Decrypted(entries[c.offset + i]) /\ c.offset + i \in 1..N
            BY <1>5, <1>8, <3>2, <3>3
        <3> QED
            BY <3>2, <3>3, <3>4
    <2>2. CASE ~(j - c.offset \in 1..c.n)
        BY <1>6, <2>2
    <2> QED
        BY <2>1, <2>2
<1>11. ComeFrom(entries, entries')
    <2> SUFFICES ASSUME NEW k \in 1..N, Real(entries[k])
                 PROVE  \E j \in 1..N : Decrypted(entries'[j]) = Decrypted(entries[k])
        BY <1>7 DEF ComeFrom, N
    <2>1. CASE k - c.offset \in 1..c.n
        <3> DEFINE i == k - c.offset
        <3>1. i \in 1..c.n /\ c.offset + i = k
            BY <1>8, <2>1
        <3> HIDE DEF i
        <3>2. Real(buf[i]) /\ Decrypted(buf[i]) = Decrypted(entries[k])
            BY <1>5, <3>1
        <3>3. PICK j \in 1..c.n : done[j] = buf[i]
            BY <1>9, <3>1, <3>2
        <3>4. c.offset + j \in 1..N /\ entries'[c.offset + j] = Encrypted(done[j])
            BY <1>6, <1>8
        <3>5. Decrypted(entries'[c.offset + j]) = Decrypted(done[j])
            BY <3>4, FlagGoesAlong
        <3> QED
            BY <3>2, <3>3, <3>4, <3>5
    <2>2. CASE ~(k - c.offset \in 1..c.n)
        BY <1>6, <2>2
    <2> QED
        BY <2>1, <2>2
<1> QED
    BY <1>10, <1>11 DEF SameReal

(* Whatever the step, the array has the rows that it had. *)
LEMMA StepsKeepRows == Parted /\ AksNext => SameReal(entries', entries)
<1>1. ComeFrom(entries, entries)
    BY DEF ComeFrom
<1>2. (AksReturn \/ AksScan) => SameReal(entries', entries)
    <2> SUFFICES ASSUME AksReturn \/ AksScan PROVE SameReal(entries', entries)
        OBVIOUS
    <2>1. entries' = entries
        BY DEF AksReturn, AksScan
    <2> QED
        BY <1>1, <2>1 DEF SameReal
<1> QED
    BY <1>2, SwapKeepsRows, BaseCaseKeepsRows DEF AksNext

=============================================================================
