-------------------------- MODULE BatchSortProofs ---------------------------
(***************************************************************************)
(* Proofs about BatchSort, for every table, every K, and every size of the *)
(* threshold and of the buffers, wherever a fault occurs: every table is   *)
(* padded to a size that the shuffle takes, and the shuffle keeps the rows *)
(* that it is given.                                                       *)
(***************************************************************************)
EXTENDS BatchSort, BatchOpsProofs

-----------------------------------------------------------------------------
(* The invariant *)

(* Every row that the call meets. *)
RowsMet == ToSet(rows) \cup {PaddingRow, JUNK}

Activations == [g : 0..K, n : Nat, i : 1..(K + 1), step : {"decompose", "groups", "reconstruct"}]

ShuffleTypes ==
    /\ rows \in Seq(RowsMet) /\ vector \in Seq(RowsMet)
    /\ pc # "done" => table \in Seq(RowsMet)
    /\ calls \in Seq(Activations)
    /\ groups \in [1..K -> Seq(RowsMet)] /\ group_positions \in [1..K -> Nat]
    /\ output_entries \in Seq(RowsMet) /\ current_instance \in BOOLEAN
    /\ enclave \in [input : Seq(RowsMet), round : Nat, buffers : [1..K -> Seq(RowsMet)],
                    out : Seq(RowsMet)]

(* The outermost activation is for shuffle()'s vector, the others are for  *)
(* groups; each waits for the next inside its loop over the groups.  A     *)
(* size that K does not divide is refused in the first phase.              *)
Activation(c, outermost, innermost) ==
    /\ c.g = 0 <=> outermost
    /\ innermost \/ c.step = "groups"
    /\ c.n > MaxBatch /\ (c.step # "decompose" => c.n % K = 0)

Nested ==
    \A x \in 1..Len(calls) : Activation(calls[x], x = 1, x = Len(calls))

(* What the enclave holds for the innermost activation. *)
Served ==
    calls # <<>> =>
        /\ Top.step = "decompose" => Len(enclave.input) = Top.n /\ enclave.round <= Rounds
        /\ Top.step = "groups" => enclave = Idle

(* When a nested activation has ended, current_instance is not set; then   *)
(* no group can be read, and the outer one puts nothing together.          *)
Disowned ==
    Len(calls) = 1 /\ ~current_instance => Top.step # "decompose" /\ enclave = Idle

(* The outermost activation while none has been nested: where the rows     *)
(* are, and that no group is ahead of the others.                          *)
Dealing ==
    /\ enclave.input = vector
    /\ \A j \in 1..K : Len(groups[j]) + Len(enclave.buffers[j]) = enclave.round
    /\ SameRows(table, SubSeq(vector, enclave.round * K + 1, Top.n)
                       \o All(groups) \o All(enclave.buffers))

Dealt ==
    /\ \A j \in 1..K : Len(groups[j]) = Rounds
    /\ SameRows(table, All(groups))

Rebuilding ==
    /\ enclave.round <= Rounds
    /\ \A j \in 1..K : /\ group_positions[j] <= Len(groups[j])
                       /\ Len(Unread[j]) + Len(enclave.buffers[j]) = Rounds - enclave.round
    /\ SameRows(table, All(Unread) \o All(enclave.buffers) \o enclave.out \o output_entries)

Whole ==
    Len(calls) = 1 /\ current_instance =>
        /\ Top.step = "decompose" => Dealing
        /\ Top.step = "groups" => Dealt
        /\ Top.step = "reconstruct" => Rebuilding

ShuffleInv ==
    /\ ShuffleTypes /\ Nested /\ Served /\ Disowned
    /\ pc \in {"shuffle", "shuffling"} => SameRows(table, vector)
    /\ pc = "shuffling" => Whole

(* Sequences with the same rows are the same bag.                          *)
LEMMA SameBag ==
    ASSUME NEW R, NEW s \in Seq(R), NEW t \in Seq(R), SameRows(s, t)
    PROVE  RowBag(s) = RowBag(t)
<1>1. ASSUME NEW u \in Seq(R), NEW r PROVE r \in ToSet(u) <=> Times(u, {r}) # 0
    <2>1. IsFiniteSet({i \in DOMAIN u : u[i] \in {r}})
        BY TimesIsNat
    <2>2. r \in ToSet(u) <=> {i \in DOMAIN u : u[i] \in {r}} # {}
        BY DEF ToSet
    <2> QED
        BY <2>1, <2>2, FS_EmptySet DEF Times
<1>2. ToSet(s) = ToSet(t)
    BY <1>1 DEF SameRows
<1>3. \A u : RowBag(u) = [r \in ToSet(u) |-> Times(u, {r})]
    <2> SUFFICES ASSUME NEW u PROVE RowBag(u) = [r \in ToSet(u) |-> Times(u, {r})]
        OBVIOUS
    <2>1. \A r : {i \in DOMAIN u : u[i] = r} = {i \in DOMAIN u : u[i] \in {r}}
        OBVIOUS
    <2> QED
        BY <2>1 DEF RowBag, Times
<1> QED
    BY <1>2, <1>3 DEF SameRows

-----------------------------------------------------------------------------
(* The network. *)

(* Pairs of positions in an array of m. *)
Places(m) == (0..(m - 1)) \X (0..(m - 1))

(* The switches of a network on m elements around those on the half.       *)
Layer(m, inner) ==
    LET pairs  == [i \in 1..(m \div 2) |-> <<2 * i - 2, 2 * i - 1>>]
        sub(c) == [j \in DOMAIN inner |-> <<2 * inner[j][1] + c, 2 * inner[j][2] + c>>]
    IN  IF m <= 1 THEN <<>>
        ELSE IF m = 2 THEN << <<0, 1>> >>
        ELSE pairs \o sub(0) \o sub(1) \o OutputSwitches(pairs)

LEMMA LayerIsInside ==
    ASSUME NEW m \in Nat, NEW inner \in Seq(Places(m \div 2))
    PROVE  Layer(m, inner) \in Seq(Places(m))
<1> DEFINE pairs  == [i \in 1..(m \div 2) |-> <<2 * i - 2, 2 * i - 1>>]
           sub(c) == [j \in DOMAIN inner |-> <<2 * inner[j][1] + c, 2 * inner[j][2] + c>>]
           R == Places(m)
<1>1. CASE m <= 1
    BY <1>1 DEF Layer
<1>2. CASE m = 2
    <2>1. <<0, 1>> \in Places(2)
        BY DEF Places
    <2> QED
        BY <1>2, <2>1 DEF Layer
<1>3. CASE m > 2
    <2>1. m \div 2 \in Nat /\ m \div 2 >= 1 /\ 2 * (m \div 2) <= m
        BY <1>3
    <2>2. \A i \in 1..(m \div 2) : 2 * i - 2 \in 0..(m - 1) /\ 2 * i - 1 \in 0..(m - 1)
        BY <2>1
    <2>3. pairs \in Seq(R) /\ pairs # <<>>
        <3>1. \A i \in 1..(m \div 2) : <<2 * i - 2, 2 * i - 1>> \in R
            BY <2>2 DEF Places
        <3>2. Len(pairs) = m \div 2 /\ pairs \in Seq(R)
            BY <2>1, <3>1
        <3>3. m \div 2 # 0
            BY <2>1
        <3> HIDE DEF pairs, R
        <3> QED
            BY <3>2, <3>3
    <2>4. ASSUME NEW c \in {0, 1} PROVE sub(c) \in Seq(R)
        <3>1. ASSUME NEW j \in DOMAIN inner
              PROVE  <<2 * inner[j][1] + c, 2 * inner[j][2] + c>> \in R
            <4>1. inner[j] \in Places(m \div 2)
                OBVIOUS
            <4>2. inner[j][1] \in 0..(m \div 2 - 1) /\ inner[j][2] \in 0..(m \div 2 - 1)
                BY <4>1 DEF Places
            <4>3. \A a \in 0..(m \div 2 - 1) : 2 * a + c \in 0..(m - 1)
                BY <2>1
            <4> QED
                BY <4>2, <4>3 DEF Places
        <3> QED
            BY <3>1
    <2>5. OutputSwitches(pairs) \in Seq(R)
        <3> HIDE DEF pairs, R
        <3> QED
            BY <2>3 DEF OutputSwitches
    <2>6. sub(0) \in Seq(R) /\ sub(1) \in Seq(R)
        BY <2>4
    <2>7. pairs \o sub(0) \o sub(1) \o OutputSwitches(pairs) \in Seq(R)
        <3> HIDE DEF pairs, sub, R
        <3> QED
            BY <2>3, <2>5, <2>6
    <2> QED
        BY <1>3, <2>7 DEF Layer
<1> QED
    BY <1>1, <1>2, <1>3

IsNetwork(net, n) == net = [m \in 0..n |-> Layer(m, net[m \div 2])]

(* The recursion of Switches has a solution.                               *)
LEMMA NetworkExists ==
    ASSUME NEW n \in Nat
    PROVE  \E net : IsNetwork(net, n)
<1> DEFINE T == {x \in Nat : ~ \E net : IsNetwork(net, x)}
<1>1. 0 \notin T
    <2> DEFINE net == [m \in 0..0 |-> <<>>]
    <2>1. \A e : Layer(0, e) = <<>>
        BY DEF Layer
    <2>2. IsNetwork(net, 0)
        BY <2>1 DEF IsNetwork
    <2> QED
        BY <2>2
<1>2. ASSUME NEW x \in 1..n, x - 1 \notin T PROVE x \notin T
    <2>1. PICK old : IsNetwork(old, x - 1)
        BY <1>2
    <2> DEFINE new == [m \in 0..x |-> IF m = x THEN Layer(x, old[x \div 2]) ELSE old[m]]
    <2>2. \A m \in 0..x : m \div 2 \in 0..(x - 1)
        OBVIOUS
    <2>3. (\A m \in 0..(x - 1) : new[m] = old[m]) /\ new[x] = Layer(x, old[x \div 2])
        OBVIOUS
    <2>4. \A m \in 0..(x - 1) : old[m] = Layer(m, old[m \div 2])
        BY <2>1 DEF IsNetwork
    <2>5. new = [m \in 0..x |-> new[m]]
        OBVIOUS
    <2> HIDE DEF new
    <2>6. \A m \in 0..x : new[m] = Layer(m, new[m \div 2])
        BY <2>2, <2>3, <2>4
    <2>7. IsNetwork(new, x)
        BY <2>5, <2>6 DEF IsNetwork
    <2> QED
        BY <2>7
<1>3. \A x \in 0..n : x \notin T
    <2> HIDE DEF T
    <2> QED
        BY <1>1, <1>2, UpTo
<1> QED
    BY <1>3

(* Every switch of the network is within the array.                        *)
LEMMA SwitchesInside ==
    ASSUME NEW n \in Nat
    PROVE  Switches(n) \in Seq(Places(n))
<1> DEFINE net == CHOOSE f : IsNetwork(f, n)
<1>1. IsNetwork(net, n)
    BY NetworkExists
<1>2. Switches(n) = net[n]
    BY DEF Switches, IsNetwork, Layer
<1> HIDE DEF net
<1> DEFINE T == {x \in Nat : ~ \A m \in 0..x : net[m] \in Seq(Places(m))}
<1>3. \A m \in 0..n : net[m] = Layer(m, net[m \div 2])
    BY <1>1 DEF IsNetwork
<1>4. 0 \notin T
    <2>1. \A e : Layer(0, e) = <<>>
        BY DEF Layer
    <2>2. net[0] = Layer(0, net[0 \div 2])
        BY <1>3
    <2>3. net[0] = <<>>
        BY <2>1, <2>2
    <2>4. net[0] \in Seq(Places(0))
        BY <2>3
    <2>5. \A m \in 0..0 : m = 0
        OBVIOUS
    <2> QED
        BY <2>4, <2>5
<1>5. ASSUME NEW x \in 1..n, x - 1 \notin T PROVE x \notin T
    <2>1. x \div 2 \in 0..(x - 1) /\ x \in 0..n
        OBVIOUS
    <2>2. \A m \in 0..(x - 1) : net[m] \in Seq(Places(m))
        BY <1>5
    <2>3. net[x \div 2] \in Seq(Places(x \div 2))
        BY <2>1, <2>2
    <2>4. Layer(x, net[x \div 2]) \in Seq(Places(x))
        BY <2>3, LayerIsInside
    <2>5. net[x] \in Seq(Places(x))
        BY <1>3, <2>1, <2>4
    <2>6. \A m \in 0..x : m = x \/ m \in 0..(x - 1)
        OBVIOUS
    <2> QED
        BY <2>2, <2>5, <2>6
<1>6. \A x \in 0..n : x \notin T
    <2> HIDE DEF T
    <2> QED
        BY <1>4, <1>5, UpTo
<1> QED
    BY <1>2, <1>6

-----------------------------------------------------------------------------
(* The shuffle in the enclave. *)

(* Whatever switches cross, the array keeps its rows.                      *)
LEMMA WaksmanRearranges ==
    ASSUME NEW R, NEW s \in Seq(R), NEW cross
    PROVE  Rearranged(R, s, waksman(s, cross))
<1> DEFINE net == Switches(Len(s))
           m == Len(net)
           crossed(a, i, j) == Exchanged(a, i, j)
           turned(k, a) == IF k \notin cross THEN a ELSE crossed(a, net[k][1] + 1, net[k][2] + 1)
           S == {a \in Seq(R) : Rearranged(R, s, a)}
           g == [k \in 1..m |-> [a \in S |-> turned(k, a)]]
           IsAfter(f) == f = [k \in 0..m |-> IF k = 0 THEN s ELSE turned(k, f[k - 1])]
           after == CHOOSE f : IsAfter(f)
<1>1. net \in Seq(Places(Len(s))) /\ m \in Nat
    <2>1. Len(s) \in Nat
        OBVIOUS
    <2> QED
        BY <2>1, SwitchesInside
<1>2. waksman(s, cross) = after[m]
    BY DEF waksman, Exchanged
<1>3. s \in S
    BY DEF Rearranged, SameRows
<1>4. ASSUME NEW k \in 1..m, NEW a \in S PROVE turned(k, a) \in S
    <2>1. CASE k \notin cross
        BY <2>1
    <2>2. CASE k \in cross
        <3> DEFINE i == net[k][1] + 1
                   j == net[k][2] + 1
                   t == crossed(a, i, j)
        <3>1. a \in Seq(R) /\ Len(a) = Len(s) /\ SameRows(s, a)
            BY DEF Rearranged
        <3>2. net[k] \in Places(Len(s))
            BY <1>1
        <3>3. i \in 1..Len(s) /\ j \in 1..Len(s)
            BY <3>2 DEF Places
        <3>4. i \in DOMAIN a /\ j \in DOMAIN a
            BY <3>1, <3>3
        <3> HIDE DEF i, j
        <3>5. t \in Seq(R) /\ Len(t) = Len(a) /\ SameRows(a, t)
            BY <3>1, <3>4, ExchangeRearranges DEF Rearranged
        <3>6. Rearranged(R, s, t)
            BY <3>1, <3>5 DEF Rearranged, SameRows
        <3>7. turned(k, a) = t
            BY <2>2 DEF i, j
        <3> HIDE DEF t, turned
        <3> QED
            BY <3>5, <3>6, <3>7
    <2> QED
        BY <2>1, <2>2
<1>5. \E f : IsAfter(f) /\ \A k \in 0..m : f[k] \in S
    <2>1. \A k \in 1..m : \A a \in S : g[k][a] \in S
        <3> HIDE DEF S, turned
        <3> QED
            BY <1>4
    <2>2. PICK f : Follows(f, m, s, g, S)
        <3> HIDE DEF S, g, m
        <3> QED
            BY <1>1, <1>3, <2>1, Recursion
    <2>3. /\ f = [k \in 0..m |-> IF k = 0 THEN s ELSE g[k][f[k - 1]]]
          /\ \A k \in 0..m : f[k] \in S
          /\ \A k \in 1..m : f[k - 1] \in S
        BY <2>2 DEF Follows, Recurs
    <2>4. \A k \in 0..m : k # 0 => k \in 1..m
        BY <1>1
    <2>5. \A k \in 0..m : k # 0 => g[k][f[k - 1]] = turned(k, f[k - 1])
        <3> HIDE DEF S, turned
        <3> QED
            BY <2>3, <2>4
    <2>6. IsAfter(f)
        <3> HIDE DEF S, turned, g
        <3> QED
            BY <2>3, <2>5
    <2> QED
        BY <2>3, <2>6
<1>6. IsAfter(after)
    BY <1>5
<1> HIDE DEF after
<1>7. \A k \in 0..m : after[k] \in S
    <2> DEFINE SS == [k \in 0..m |-> S]
    <2>1. after[0] = s /\ \A k \in 1..m : after[k] = turned(k, after[k - 1])
        <3>1. \A k \in 1..m : k \in 0..m /\ k # 0
            BY <1>1
        <3>2. 0 \in 0..m
            BY <1>1
        <3> HIDE DEF turned, m, net
        <3> QED
            BY <1>6, <3>1, <3>2
    <2>2. after[0] \in SS[0] /\ \A k \in 1..m : after[k - 1] \in SS[k - 1] => after[k] \in SS[k]
        <3> HIDE DEF S, turned
        <3> QED
            BY <1>1, <1>3, <1>4, <2>1
    <2>3. \A k \in 0..m : after[k] \in SS[k]
        <3> HIDE DEF SS, m
        <3> QED
            BY <1>1, <2>2, StaysIn
    <2> QED
        <3> HIDE DEF S
        <3> QED
            BY <2>3
<1> QED
    BY <1>1, <1>2, <1>7

LEMMA ShufflesRearrange ==
    ASSUME NEW R, NEW s \in Seq(R), NEW t \in Shuffles(s)
    PROVE  Rearranged(R, s, t)
BY WaksmanRearranges DEF Shuffles

-----------------------------------------------------------------------------
(* The rows of all groups. *)

(* h[i] is the rows of the first i groups. *)
Joined(h, f, R) ==
    /\ \A i \in 1..K : h[i] \in Seq(R)
    /\ h[1] = f[1] /\ \A i \in 2..K : h[i] = h[i - 1] \o f[i]
    /\ All(f) = h[K]

LEMMA AllJoins ==
    ASSUME NEW R, NEW f \in [1..K -> Seq(R)]
    PROVE  \E h : Joined(h, f, R)
<1> USE ShuffleAssumption
<1> DEFINE seqs == [j \in 1..K |-> f[j]]
           IsFlat(h) == h = [i \in 1..K |-> IF i = 1 THEN seqs[i] ELSE h[i - 1] \o seqs[i]]
           flat == CHOOSE h : IsFlat(h)
           S == Seq(R)
           none == <<>>
           g == [i \in 1..K |-> [x \in S |-> x \o f[i]]]
<1>1. K \in Nat /\ K >= 2 /\ seqs = f /\ Len(seqs) = K
    OBVIOUS
<1>2. All(f) = flat[K]
    BY <1>1 DEF All, FlattenSeq
<1>3. \E h : IsFlat(h)
    <2>1. none \in S /\ \A x \in S : none \o x = x
        OBVIOUS
    <2>2. \A i \in 1..K : f[i] \in S
        OBVIOUS
    <2>3. \A x, y \in S : x \o y \in S
        OBVIOUS
    <2>4. \A i \in 1..K : \A x \in S : g[i][x] = x \o f[i] /\ g[i][x] \in S
        <3> HIDE DEF S
        <3> QED
            BY <2>2, <2>3
    <2>5. PICK r : Follows(r, K, none, g, S)
        <3> HIDE DEF S, g, none
        <3> QED
            BY <1>1, <2>1, <2>4, Recursion
    <2> DEFINE h == [i \in 1..K |-> r[i]]
    <2>6. r[0] = none /\ \A i \in 1..K : r[i - 1] \in S /\ r[i] = r[i - 1] \o f[i]
        <3> HIDE DEF S, g, none
        <3> QED
            BY <2>4, <2>5 DEF Follows
    <2>7. r[1] = f[1]
        <3>1. 1 \in 1..K /\ 1 - 1 = 0
            OBVIOUS
        <3>2. r[1] = r[0] \o f[1]
            BY <2>6, <3>1
        <3> HIDE DEF S, none
        <3> QED
            BY <2>1, <2>2, <2>6, <3>1, <3>2
    <2>8. \A i \in 1..K : i # 1 => i - 1 \in 1..K
        OBVIOUS
    <2>9. \A i \in 1..K : h[i] = IF i = 1 THEN f[i] ELSE h[i - 1] \o f[i]
        BY <2>6, <2>7, <2>8
    <2>10. h = [i \in 1..K |-> h[i]]
        OBVIOUS
    <2>11. IsFlat(h)
        <3> HIDE DEF h, seqs
        <3> QED
            BY <1>1, <2>9, <2>10
    <2> QED
        BY <2>11
<1>4. IsFlat(flat)
    BY <1>3
<1> HIDE DEF flat
<1>5. flat[1] = f[1] /\ \A i \in 2..K : flat[i] = flat[i - 1] \o f[i]
    <2>1. 1 \in 1..K /\ \A i \in 2..K : i \in 1..K /\ i # 1
        OBVIOUS
    <2> HIDE DEF seqs
    <2> QED
        BY <1>1, <1>4, <2>1
<1>6. \A i \in 1..K : flat[i] \in Seq(R)
    <2> DEFINE T == {i \in 1..K : flat[i] \notin Seq(R)}
    <2>1. 0 \notin T
        OBVIOUS
    <2>2. ASSUME NEW i \in 1..K, i - 1 \notin T PROVE i \notin T
        <3>1. f[i] \in Seq(R)
            OBVIOUS
        <3>2. CASE i = 1
            BY <1>5, <3>1, <3>2
        <3>3. CASE i # 1
            <4>1. i \in 2..K /\ i - 1 \in 1..K
                BY <3>3
            <4>2. flat[i - 1] \in Seq(R)
                BY <2>2, <4>1
            <4>3. flat[i] = flat[i - 1] \o f[i]
                BY <1>5, <4>1
            <4>4. \A x, y \in Seq(R) : x \o y \in Seq(R)
                OBVIOUS
            <4>5. flat[i] \in Seq(R)
                BY ONLY <3>1, <4>2, <4>3, <4>4
            <4> QED
                BY <4>5
        <3> QED
            BY <3>2, <3>3
    <2>3. \A i \in 0..K : i \notin T
        <3> HIDE DEF T
        <3> QED
            BY <1>1, <2>1, <2>2, UpTo
    <2> QED
        BY <2>3
<1> QED
    BY <1>2, <1>5, <1>6 DEF Joined

(* In each group, a and b have the rows that c, d and e have.              *)
Balanced(R, A, a, b, c, d, e) ==
    /\ a \in [1..K -> Seq(R)] /\ b \in [1..K -> Seq(R)] /\ c \in [1..K -> Seq(R)]
    /\ d \in [1..K -> Seq(R)] /\ e \in [1..K -> Seq(R)]
    /\ \A j \in 1..K : Times(a[j], A) + Times(b[j], A)
                         = Times(c[j], A) + Times(d[j], A) + Times(e[j], A)

(* What holds of the numbers in each group holds of those in all of them.  *)
LEMMA AllAdds ==
    ASSUME NEW R, NEW A, NEW a, NEW b, NEW c, NEW d, NEW e, Balanced(R, A, a, b, c, d, e)
    PROVE  Times(All(a), A) + Times(All(b), A)
             = Times(All(c), A) + Times(All(d), A) + Times(All(e), A)
<1> USE ShuffleAssumption DEF Balanced
<1>1. PICK ha : Joined(ha, a, R)
    BY AllJoins
<1>2. PICK hb : Joined(hb, b, R)
    BY AllJoins
<1>3. PICK hc : Joined(hc, c, R)
    BY AllJoins
<1>4. PICK hd : Joined(hd, d, R)
    BY AllJoins
<1>5. PICK he : Joined(he, e, R)
    BY AllJoins
<1> DEFINE Agree(i) == Times(ha[i], A) + Times(hb[i], A)
                        = Times(hc[i], A) + Times(hd[i], A) + Times(he[i], A)
           T == {i \in 1..K : ~Agree(i)}
<1>6. 0 \notin T
    OBVIOUS
<1>7. ASSUME NEW f \in [1..K -> Seq(R)], NEW h, Joined(h, f, R), NEW i \in 2..K
      PROVE  /\ Times(h[i], A) = Times(h[i - 1], A) + Times(f[i], A)
             /\ Times(h[i], A) \in Nat /\ Times(h[i - 1], A) \in Nat /\ Times(f[i], A) \in Nat
    <2>1. i \in 1..K /\ i - 1 \in 1..K
        OBVIOUS
    <2>2. h[i] = h[i - 1] \o f[i] /\ h[i] \in Seq(R) /\ h[i - 1] \in Seq(R) /\ f[i] \in Seq(R)
        BY <1>7, <2>1 DEF Joined
    <2>3. ASSUME NEW x \in Seq(R), NEW y \in Seq(R)
          PROVE  Times(x \o y, A) = Times(x, A) + Times(y, A) /\ Times(x, A) \in Nat
        <3>1. Times(x \o y, A) = Times(x, A) + Times(y, A)
            BY TimesConcat
        <3>2. Times(x, A) \in Nat
            BY TimesIsNat
        <3> QED
            BY <3>1, <3>2
    <2>4. Times(h[i - 1] \o f[i], A) = Times(h[i - 1], A) + Times(f[i], A)
        BY ONLY <2>2, <2>3
    <2> QED
        BY <2>2, <2>3, <2>4
<1>8. ASSUME NEW i \in 1..K, i - 1 \notin T PROVE i \notin T
    <2>1. CASE i = 1
        BY <1>1, <1>2, <1>3, <1>4, <1>5, <2>1 DEF Joined
    <2>2. CASE i # 1
        <3>1. i \in 2..K /\ i - 1 \in 1..K
            BY <2>2
        <3>2. Agree(i - 1)
            BY <1>8, <3>1
        <3>3. /\ Times(ha[i], A) = Times(ha[i - 1], A) + Times(a[i], A)
              /\ Times(ha[i - 1], A) \in Nat /\ Times(a[i], A) \in Nat
            BY <1>1, <1>7, <3>1
        <3>4. /\ Times(hb[i], A) = Times(hb[i - 1], A) + Times(b[i], A)
              /\ Times(hb[i - 1], A) \in Nat /\ Times(b[i], A) \in Nat
            BY <1>2, <1>7, <3>1
        <3>5. /\ Times(hc[i], A) = Times(hc[i - 1], A) + Times(c[i], A)
              /\ Times(hc[i - 1], A) \in Nat /\ Times(c[i], A) \in Nat
            BY <1>3, <1>7, <3>1
        <3>6. /\ Times(hd[i], A) = Times(hd[i - 1], A) + Times(d[i], A)
              /\ Times(hd[i - 1], A) \in Nat /\ Times(d[i], A) \in Nat
            BY <1>4, <1>7, <3>1
        <3>7. /\ Times(he[i], A) = Times(he[i - 1], A) + Times(e[i], A)
              /\ Times(he[i - 1], A) \in Nat /\ Times(e[i], A) \in Nat
            BY <1>5, <1>7, <3>1
        <3>8. Times(a[i], A) + Times(b[i], A) = Times(c[i], A) + Times(d[i], A) + Times(e[i], A)
            OBVIOUS
        <3>9. Times(ha[i], A) + Times(hb[i], A)
                = Times(hc[i], A) + Times(hd[i], A) + Times(he[i], A)
            <4>1. Times(ha[i - 1], A) + Times(hb[i - 1], A)
                    = Times(hc[i - 1], A) + Times(hd[i - 1], A) + Times(he[i - 1], A)
                BY ONLY <3>2
            <4> DEFINE new(h) == Times(h[i], A)
                       old(h) == Times(h[i - 1], A)
                       here(f) == Times(f[i], A)
            <4>2. /\ new(ha) = old(ha) + here(a) /\ new(hb) = old(hb) + here(b)
                  /\ new(hc) = old(hc) + here(c) /\ new(hd) = old(hd) + here(d)
                  /\ new(he) = old(he) + here(e)
                BY ONLY <3>3, <3>4, <3>5, <3>6, <3>7
            <4>3. /\ old(ha) \in Nat /\ old(hb) \in Nat /\ old(hc) \in Nat /\ old(hd) \in Nat
                  /\ old(he) \in Nat /\ here(a) \in Nat /\ here(b) \in Nat /\ here(c) \in Nat
                  /\ here(d) \in Nat /\ here(e) \in Nat
                BY ONLY <3>3, <3>4, <3>5, <3>6, <3>7
            <4>4. here(a) + here(b) = here(c) + here(d) + here(e)
                BY ONLY <3>8
            <4>5. old(ha) + old(hb) = old(hc) + old(hd) + old(he)
                BY ONLY <4>1
            <4>6. new(ha) + new(hb) = new(hc) + new(hd) + new(he)
                <5> HIDE DEF new, old, here
                <5> QED
                    BY ONLY <4>2, <4>3, <4>4, <4>5
            <4> QED
                BY ONLY <4>6
        <3> QED
            BY <3>9
    <2> QED
        BY <2>1, <2>2
<1>9. \A i \in 0..K : i \notin T
    <2> HIDE DEF T
    <2> QED
        BY <1>6, <1>8, UpTo
<1>10. Agree(K)
    BY <1>9
<1> QED
    BY <1>1, <1>2, <1>3, <1>4, <1>5, <1>10 DEF Joined

LEMMA AllIsSeq ==
    ASSUME NEW R, NEW f \in [1..K -> Seq(R)]
    PROVE  All(f) \in Seq(R) /\ \A A : Times(All(f), A) \in Nat
<1>1. PICK h : Joined(h, f, R)
    BY AllJoins
<1>2. K \in 1..K
    BY ShuffleAssumption
<1>3. All(f) \in Seq(R)
    BY <1>1, <1>2 DEF Joined
<1> QED
    BY <1>3, TimesIsNat

LEMMA AllOfNone == \A A : Times(All(NoGroups), A) = 0
<1> DEFINE R == {}
<1> SUFFICES ASSUME NEW A PROVE Times(All(NoGroups), A) = 0
    OBVIOUS
<1>1. NoGroups \in [1..K -> Seq(R)] /\ \A j \in 1..K : NoGroups[j] = <<>>
    BY DEF NoGroups
<1>2. \A j \in 1..K : Times(NoGroups[j], A) = 0
    BY <1>1, TimesEmpty
<1>3. Times(All(NoGroups), A) + Times(All(NoGroups), A)
        = Times(All(NoGroups), A) + Times(All(NoGroups), A) + Times(All(NoGroups), A)
    <2>1. Balanced(R, A, NoGroups, NoGroups, NoGroups, NoGroups, NoGroups)
        BY <1>1, <1>2 DEF Balanced
    <2> QED
        BY <2>1, AllAdds
<1>4. Times(All(NoGroups), A) \in Nat
    BY <1>1, AllIsSeq
<1> QED
    BY <1>3, <1>4

(* One row to each group. *)
Singles(s) == [j \in 1..K |-> <<s[j]>>]

LEMMA AllOfSingles ==
    ASSUME NEW R, NEW s \in Seq(R), Len(s) = K
    PROVE  Singles(s) \in [1..K -> Seq(R)] /\ All(Singles(s)) = s
<1> USE ShuffleAssumption
<1>1. Singles(s) \in [1..K -> Seq(R)] /\ \A j \in 1..K : Singles(s)[j] = <<s[j]>>
    BY DEF Singles
<1>2. PICK h : Joined(h, Singles(s), R)
    BY <1>1, AllJoins
<1> DEFINE T == {i \in 1..K : h[i] # SubSeq(s, 1, i)}
<1>3. ASSUME NEW i \in 1..K, i - 1 \notin T PROVE i \notin T
    <2>1. CASE i = 1
        <3>1. h[1] = <<s[1]>>
            BY <1>1, <1>2, <2>1 DEF Joined
        <3>2. SubSeq(s, 1, 1) = <<s[1]>>
            <4>1. 1 \in DOMAIN s
                OBVIOUS
            <4>2. SubSeq(s, 1, 1) = [k \in 1..1 |-> s[k]]
                BY <4>1
            <4>3. <<s[1]>> = [k \in 1..1 |-> s[k]]
                OBVIOUS
            <4> QED
                BY <4>2, <4>3
        <3> QED
            BY <2>1, <3>1, <3>2
    <2>2. CASE i # 1
        <3>1. i \in 2..K /\ i - 1 \in 1..K
            BY <2>2
        <3>2. h[i - 1] = SubSeq(s, 1, i - 1)
            BY <1>3, <3>1
        <3>3. h[i] = h[i - 1] \o <<s[i]>>
            BY <1>1, <1>2, <3>1 DEF Joined
        <3>4. SubSeq(s, 1, i - 1) \o <<s[i]>> = SubSeq(s, 1, i)
            BY <3>1
        <3> QED
            BY <3>2, <3>3, <3>4
    <2> QED
        BY <2>1, <2>2
<1>4. \A i \in 0..K : i \notin T
    <2>1. 0 \notin T
        OBVIOUS
    <2> HIDE DEF T
    <2> QED
        BY <1>3, <2>1, UpTo
<1>5. h[K] = SubSeq(s, 1, K)
    BY <1>4
<1>6. SubSeq(s, 1, K) = s
    OBVIOUS
<1> QED
    BY <1>1, <1>2, <1>5, <1>6 DEF Joined

-----------------------------------------------------------------------------
(* The activations. *)

LEMMA TopIsActivation ==
    ASSUME ShuffleTypes, calls # <<>>
    PROVE  /\ Len(calls) \in Nat /\ Len(calls) >= 1 /\ Top = calls[Len(calls)]
           /\ Top \in Activations /\ Rounds = Top.n \div K
BY DEF ShuffleTypes, Top, Rounds

LEMMA FrontIsShorter ==
    ASSUME NEW R, NEW s \in Seq(R), s # <<>>
    PROVE  /\ Front(s) \in Seq(R) /\ Len(Front(s)) = Len(s) - 1
           /\ \A x \in 1..(Len(s) - 1) : Front(s)[x] = s[x]
<1> DEFINE m == Len(s) - 1
<1>1. m \in Nat /\ Front(s) = SubSeq(s, 1, m) /\ \A x \in 1..m : x \in 1..Len(s)
    BY DEF Front
<1>2. SubSeq(s, 1, m) = [x \in 1..m |-> s[x]]
    BY <1>1
<1>3. \A x \in 1..m : s[x] \in R
    BY <1>1
<1>4. Front(s) \in Seq(R) /\ Len(Front(s)) = m /\ \A x \in 1..m : Front(s)[x] = s[x]
    <2> DEFINE t == [x \in 1..m |-> s[x]]
    <2>1. t \in Seq(R) /\ DOMAIN t = 1..m
        BY <1>1, <1>3
    <2>2. Len(t) = m /\ \A x \in 1..m : t[x] = s[x]
        BY <1>1, <2>1
    <2>3. Front(s) = t
        BY <1>1, <1>2
    <2> HIDE DEF t
    <2> QED
        BY <2>1, <2>2, <2>3
<1> QED
    BY <1>4

(* The activation that is waiting gets its turn again.                     *)
LEMMA Returning ==
    ASSUME ShuffleTypes, Nested, calls # <<>>, calls' = Front(calls),
           current_instance' = FALSE, enclave' = Idle
    PROVE  calls' \in Seq(Activations) /\ Nested' /\ Served' /\ Disowned' /\ Whole'
<1> DEFINE m == Len(calls)
<1>1. m \in Nat /\ m >= 1 /\ calls \in Seq(Activations)
    BY TopIsActivation DEF ShuffleTypes
<1>2. /\ calls' \in Seq(Activations) /\ Len(calls') = m - 1
      /\ \A x \in 1..(m - 1) : calls'[x] = calls[x]
    BY <1>1, FrontIsShorter
<1>3. \A x \in 1..(m - 1) : calls[x].step = "groups" /\ Activation(calls[x], x = 1, FALSE)
    BY <1>1 DEF Nested, Activation
<1>4. Nested'
    <2> SUFFICES ASSUME NEW x \in 1..(m - 1) PROVE Activation(calls'[x], x = 1, x = m - 1)
        BY <1>2 DEF Nested
    <2> QED
        BY <1>2, <1>3 DEF Activation
<1>5. calls' # <<>> => Top'.step = "groups"
    <2> SUFFICES ASSUME calls' # <<>> PROVE Top'.step = "groups"
        OBVIOUS
    <2>1. m - 1 \in 1..(m - 1) /\ Top' = calls'[m - 1]
        BY <1>1, <1>2 DEF Top
    <2> QED
        BY <1>2, <1>3, <2>1
<1>6. Served' /\ Disowned'
    <2>1. Len(calls') = 1 => calls' # <<>>
        BY <1>2
    <2> QED
        BY <1>5, <2>1 DEF Served, Disowned
<1>7. Whole'
    BY DEF Whole
<1> QED
    BY <1>2, <1>4, <1>6, <1>7

(* Calls with another innermost activation, of the same vector.            *)
Proceeds(c) ==
    /\ calls' \in Seq(Activations) /\ Len(calls') = Len(calls)
    /\ \A x \in 1..(Len(calls) - 1) : calls'[x] = calls[x]
    /\ Top' = c /\ c.g = Top.g /\ c.n = Top.n
    /\ c.step # "decompose" => c.n % K = 0

LEMMA Proceeding ==
    ASSUME ShuffleTypes, Nested, calls # <<>>, NEW c, Proceeds(c)
    PROVE  Nested' /\ Rounds' = Rounds
<1> USE DEF Proceeds
<1> DEFINE m == Len(calls)
<1>1. m \in Nat /\ m >= 1 /\ Len(calls') = m
    BY TopIsActivation
<1>2. calls'[m] = c
    BY <1>1 DEF Top
<1>3. ASSUME NEW x \in 1..m PROVE Activation(calls'[x], x = 1, x = m)
    <2>1. Activation(calls[x], x = 1, x = m)
        BY DEF Nested
    <2>2. CASE x = m
        BY <1>2, <2>1, <2>2 DEF Activation, Top
    <2>3. CASE x # m
        <3>1. calls'[x] = calls[x]
            BY <1>1, <2>3
        <3> QED
            BY <2>1, <3>1 DEF Activation
    <2> QED
        BY <2>2, <2>3
<1> QED
    BY <1>1, <1>3 DEF Nested, Rounds

LEMMA StepProceeds ==
    ASSUME ShuffleTypes, calls # <<>>, NEW step \in {"groups", "reconstruct"}, Top.n % K = 0,
           calls' = [calls EXCEPT ![Len(calls)].step = step]
    PROVE  Proceeds([Top EXCEPT !.step = step])
<1> DEFINE m == Len(calls)
           c == [Top EXCEPT !.step = step]
<1>1. m \in Nat /\ m >= 1 /\ calls \in Seq(Activations) /\ Top = calls[m] /\ Top \in Activations
    BY TopIsActivation DEF ShuffleTypes
<1>2. c \in Activations /\ c.g = Top.g /\ c.n = Top.n /\ c.step = step
    BY <1>1 DEF Activations
<1>3. calls' = [calls EXCEPT ![m] = c]
    BY <1>1 DEF Activations
<1>4. /\ calls' \in Seq(Activations) /\ Len(calls') = m /\ calls'[m] = c
      /\ \A x \in 1..(m - 1) : calls'[x] = calls[x]
    <2> HIDE DEF c
    <2> QED
        BY <1>1, <1>2, <1>3
<1> QED
    BY <1>2, <1>4 DEF Proceeds, Top

-----------------------------------------------------------------------------
(* Rows that move. *)

LEMMA TimesOfParts ==
    ASSUME NEW R, NEW x \in Seq(R), NEW y \in Seq(R), NEW z \in Seq(R), NEW A
    PROVE  /\ x \o y \o z \in Seq(R)
           /\ Times(x \o y \o z, A) = Times(x, A) + Times(y, A) + Times(z, A)
           /\ Times(x, A) \in Nat /\ Times(y, A) \in Nat /\ Times(z, A) \in Nat
<1>1. x \o y \in Seq(R) /\ (x \o y) \o z \in Seq(R) /\ x \o y \o z = (x \o y) \o z
    OBVIOUS
<1>2. Times((x \o y) \o z, A) = Times(x \o y, A) + Times(z, A)
    <2> DEFINE w == x \o y
    <2>1. w \in Seq(R)
        BY <1>1
    <2> HIDE DEF w
    <2>2. Times(w \o z, A) = Times(w, A) + Times(z, A)
        BY <2>1, TimesConcat
    <2> QED
        BY <2>2 DEF w
<1>3. Times(x \o y, A) = Times(x, A) + Times(y, A)
    BY TimesConcat
<1>4. Times(x, A) \in Nat /\ Times(y, A) \in Nat /\ Times(z, A) \in Nat
    BY TimesIsNat
<1> QED
    BY <1>1, <1>2, <1>3, <1>4

(* A part of a sequence is before the rest of it.                          *)
LEMMA Parts ==
    ASSUME NEW R, NEW s \in Seq(R), NEW a \in Nat, NEW b \in Nat, NEW c \in Nat,
           a <= b, b <= c, c <= Len(s)
    PROVE  /\ SubSeq(s, a + 1, b) \in Seq(R) /\ Len(SubSeq(s, a + 1, b)) = b - a
           /\ SubSeq(s, b + 1, c) \in Seq(R) /\ Len(SubSeq(s, b + 1, c)) = c - b
           /\ SubSeq(s, a + 1, c) = SubSeq(s, a + 1, b) \o SubSeq(s, b + 1, c)
<1>1. ASSUME NEW x \in Nat, NEW y \in Nat, x <= y, y <= Len(s)
      PROVE  /\ SubSeq(s, x + 1, y) \in Seq(R) /\ Len(SubSeq(s, x + 1, y)) = y - x
             /\ \A i \in 1..(y - x) : SubSeq(s, x + 1, y)[i] = s[x + i]
    <2> DEFINE t == [i \in 1..(y - x) |-> s[x + i]]
    <2>1. \A i \in 1..(y - x) : x + i \in 1..Len(s)
        BY <1>1
    <2>2. t \in Seq(R) /\ Len(t) = y - x /\ \A i \in 1..(y - x) : t[i] = s[x + i]
        <3>1. y - x \in Nat /\ DOMAIN t = 1..(y - x) /\ \A i \in 1..(y - x) : t[i] \in R
            BY <1>1, <2>1
        <3> QED
            BY <3>1
    <2>3. SubSeq(s, x + 1, y) = t
        BY <1>1, <2>1
    <2> HIDE DEF t
    <2> QED
        BY <2>2, <2>3
<1>2. /\ SubSeq(s, a + 1, b) \in Seq(R) /\ Len(SubSeq(s, a + 1, b)) = b - a
      /\ \A i \in 1..(b - a) : SubSeq(s, a + 1, b)[i] = s[a + i]
    BY <1>1
<1>3. /\ SubSeq(s, b + 1, c) \in Seq(R) /\ Len(SubSeq(s, b + 1, c)) = c - b
      /\ \A i \in 1..(c - b) : SubSeq(s, b + 1, c)[i] = s[b + i]
    BY <1>1
<1>4. /\ SubSeq(s, a + 1, c) \in Seq(R) /\ Len(SubSeq(s, a + 1, c)) = c - a
      /\ \A i \in 1..(c - a) : SubSeq(s, a + 1, c)[i] = s[a + i]
    BY <1>1
<1>5. SubSeq(s, a + 1, c) = SubSeq(s, a + 1, b) \o SubSeq(s, b + 1, c)
    <2> DEFINE p == SubSeq(s, a + 1, b)
               q == SubSeq(s, b + 1, c)
               w == SubSeq(s, a + 1, c)
    <2>1. p \in Seq(R) /\ Len(p) = b - a /\ \A i \in 1..(b - a) : p[i] = s[a + i]
        BY <1>2
    <2>2. q \in Seq(R) /\ Len(q) = c - b /\ \A i \in 1..(c - b) : q[i] = s[b + i]
        BY <1>3
    <2>3. w \in Seq(R) /\ Len(w) = c - a /\ \A i \in 1..(c - a) : w[i] = s[a + i]
        BY <1>4
    <2> HIDE DEF p, q, w
    <2>4. /\ p \o q \in Seq(R) /\ Len(p \o q) = c - a
          /\ \A i \in 1..(c - a) : (p \o q)[i] = IF i <= b - a THEN p[i] ELSE q[i - (b - a)]
        <3>1. /\ p \o q \in Seq(R) /\ Len(p \o q) = Len(p) + Len(q)
              /\ \A i \in 1..(Len(p) + Len(q)) :
                     (p \o q)[i] = IF i <= Len(p) THEN p[i] ELSE q[i - Len(p)]
            <4>1. p \in Seq(R) /\ q \in Seq(R)
                BY <2>1, <2>2
            <4> QED
                BY ONLY <4>1
        <3>2. Len(p) = b - a /\ Len(q) = c - b
            BY <2>1, <2>2
        <3>3. Len(p) + Len(q) = c - a
            BY ONLY <3>2, a \in Nat, b \in Nat, c \in Nat
        <3> QED
            BY ONLY <3>1, <3>2, <3>3
    <2>5. \A i \in 1..(c - a) : (p \o q)[i] = s[a + i]
        <3> SUFFICES ASSUME NEW i \in 1..(c - a) PROVE (p \o q)[i] = s[a + i]
            OBVIOUS
        <3>1. CASE i <= b - a
            BY <2>1, <2>4, <3>1
        <3>2. CASE i > b - a
            <4>1. i - (b - a) \in 1..(c - b) /\ b + (i - (b - a)) = a + i
                BY <3>2
            <4>2. (p \o q)[i] = q[i - (b - a)]
                BY <2>4, <3>2
            <4> QED
                BY <2>2, <4>1, <4>2
        <3>3. i <= b - a \/ i > b - a
            OBVIOUS
        <3> QED
            BY <3>1, <3>2, <3>3
    <2>6. w = p \o q
        <3> DEFINE pq == p \o q
        <3>1. pq \in Seq(R) /\ Len(pq) = c - a /\ \A i \in 1..(c - a) : pq[i] = w[i]
            BY <2>3, <2>4, <2>5
        <3> HIDE DEF pq
        <3>2. w = pq
            BY <2>3, <3>1
        <3> QED
            BY <3>2 DEF pq
    <2> QED
        BY <2>6 DEF p, q, w
<1> QED
    BY <1>2, <1>3, <1>5

(* A round t of K rows of s goes to the groups and their buffers, which    *)
(* have become h and c.                                                    *)
Deals(R, A, s, a, t, g, b, h, c) ==
    /\ s \in Seq(R) /\ a \in Nat /\ a + K <= Len(s)
    /\ Rearranged(R, SubSeq(s, a + 1, a + K), t)
    /\ g \in [1..K -> Seq(R)] /\ b \in [1..K -> Seq(R)]
    /\ h \in [1..K -> Seq(R)] /\ c \in [1..K -> Seq(R)]
    /\ \A j \in 1..K : Times(h[j], A) + Times(c[j], A)
                         = Times(g[j], A) + Times(b[j], A) + Times(<<t[j]>>, A)

LEMMA RoundIsDealt ==
    ASSUME NEW R, NEW A, NEW s, NEW a, NEW t, NEW g, NEW b, NEW h, NEW c,
           Deals(R, A, s, a, t, g, b, h, c)
    PROVE  Times(SubSeq(s, a + 1, Len(s)) \o All(g) \o All(b), A)
             = Times(SubSeq(s, (a + K) + 1, Len(s)) \o All(h) \o All(c), A)
<1> USE DEF Deals
<1> DEFINE head == SubSeq(s, a + 1, a + K)
           rest == SubSeq(s, (a + K) + 1, Len(s))
           old  == SubSeq(s, a + 1, Len(s))
<1>1. K \in Nat /\ a + K \in Nat /\ s \in Seq(R) /\ Len(s) \in Nat
    BY ShuffleAssumption
<1>2. head \in Seq(R) /\ Len(head) = K /\ rest \in Seq(R) /\ old = head \o rest
    <2> DEFINE e == a + K
               n == Len(s)
    <2>1. e - a = K /\ a \in Nat /\ e \in Nat /\ n \in Nat /\ a <= e /\ e <= n /\ n <= Len(s)
        BY <1>1
    <2> HIDE DEF e, n
    <2>2. /\ SubSeq(s, a + 1, e) \in Seq(R) /\ Len(SubSeq(s, a + 1, e)) = e - a
          /\ SubSeq(s, e + 1, n) \in Seq(R)
          /\ SubSeq(s, a + 1, n) = SubSeq(s, a + 1, e) \o SubSeq(s, e + 1, n)
        <3> HIDE DEF head, rest, old
        <3> QED
            BY ONLY <1>1, <2>1, Parts
    <2> QED
        BY <2>1, <2>2 DEF e, n
<1>3. t \in Seq(R) /\ Len(t) = K /\ Times(head, A) = Times(t, A)
    BY <1>2 DEF Rearranged, SameRows
<1> HIDE DEF head, rest, old
<1>4. old \in Seq(R) /\ Times(old, A) = Times(t, A) + Times(rest, A)
    <2>1. Times(head \o rest, A) = Times(head, A) + Times(rest, A)
        BY <1>2, TimesConcat
    <2>2. head \o rest \in Seq(R)
        BY <1>2
    <2> QED
        BY <1>2, <1>3, <2>1, <2>2
<1>5. Singles(t) \in [1..K -> Seq(R)] /\ All(Singles(t)) = t
    BY <1>3, AllOfSingles
<1>6. Times(All(h), A) + Times(All(c), A)
        = Times(All(g), A) + Times(All(b), A) + Times(All(Singles(t)), A)
    <2>1. \A j \in 1..K : Singles(t)[j] = <<t[j]>>
        BY DEF Singles
    <2>2. Balanced(R, A, h, c, g, b, Singles(t))
        BY <1>5, <2>1 DEF Balanced
    <2> QED
        BY <2>2, AllAdds
<1>7. All(g) \in Seq(R) /\ All(b) \in Seq(R) /\ All(h) \in Seq(R) /\ All(c) \in Seq(R)
    BY AllIsSeq
<1> DEFINE ag == All(g)
           ab == All(b)
           ah == All(h)
           ac == All(c)
<1>8. Times(ah, A) + Times(ac, A) = Times(ag, A) + Times(ab, A) + Times(t, A)
    BY <1>5, <1>6
<1>9. ag \in Seq(R) /\ ab \in Seq(R) /\ ah \in Seq(R) /\ ac \in Seq(R)
    BY <1>7
<1> HIDE DEF ag, ab, ah, ac
<1>10. /\ Times(old \o ag \o ab, A) = Times(old, A) + Times(ag, A) + Times(ab, A)
       /\ Times(old, A) \in Nat /\ Times(ag, A) \in Nat /\ Times(ab, A) \in Nat
    BY <1>4, <1>9, TimesOfParts
<1>11. /\ Times(rest \o ah \o ac, A) = Times(rest, A) + Times(ah, A) + Times(ac, A)
       /\ Times(rest, A) \in Nat /\ Times(ah, A) \in Nat /\ Times(ac, A) \in Nat
    BY <1>2, <1>9, TimesOfParts
<1>12. Times(t, A) \in Nat
    BY <1>3, TimesIsNat
<1>13. Times(old, A) + Times(ag, A) + Times(ab, A) = Times(rest, A) + Times(ah, A) + Times(ac, A)
    <2>1. Times(t, A) + Times(rest, A) + Times(ag, A) + Times(ab, A)
            = Times(rest, A) + Times(ah, A) + Times(ac, A)
        <3>1. Times(ah, A) + Times(ac, A) = Times(ag, A) + Times(ab, A) + Times(t, A)
            BY ONLY <1>8
        <3>2. /\ Times(rest, A) \in Nat /\ Times(ah, A) \in Nat /\ Times(ac, A) \in Nat
              /\ Times(ag, A) \in Nat /\ Times(ab, A) \in Nat /\ Times(t, A) \in Nat
            BY ONLY <1>10, <1>11, <1>12
        <3> DEFINE x == Times(rest, A)
                   y == Times(ag, A)
                   z == Times(ab, A)
                   u == Times(ah, A)
                   v == Times(ac, A)
                   w == Times(t, A)
        <3>3. x \in Nat /\ y \in Nat /\ z \in Nat /\ u \in Nat /\ v \in Nat /\ w \in Nat
            BY ONLY <3>2
        <3>4. u + v = y + z + w
            BY ONLY <3>1
        <3>5. w + x + y + z = x + u + v
            <4> HIDE DEF x, y, z, u, v, w
            <4> QED
                BY ONLY <3>3, <3>4
        <3> QED
            BY ONLY <3>5
    <2> QED
        BY ONLY <1>4, <2>1
<1>14. Times(old \o ag \o ab, A) = Times(rest \o ah \o ac, A)
    BY <1>10, <1>11, <1>13
<1> QED
    BY <1>14 DEF old, rest, ag, ab, ah, ac

LEMMA TimesOfFour ==
    ASSUME NEW R, NEW x \in Seq(R), NEW y \in Seq(R), NEW z \in Seq(R), NEW u \in Seq(R), NEW A
    PROVE  /\ x \o y \o z \o u \in Seq(R)
           /\ Times(x \o y \o z \o u, A) = Times(x, A) + Times(y, A) + Times(z, A) + Times(u, A)
           /\ Times(x, A) \in Nat /\ Times(y, A) \in Nat /\ Times(z, A) \in Nat /\ Times(u, A) \in Nat
<1> DEFINE w == x \o y \o z
<1>1. /\ w \in Seq(R) /\ Times(w, A) = Times(x, A) + Times(y, A) + Times(z, A)
      /\ Times(x, A) \in Nat /\ Times(y, A) \in Nat /\ Times(z, A) \in Nat
    BY TimesOfParts
<1> HIDE DEF w
<1>2. Times(w \o u, A) = Times(w, A) + Times(u, A) /\ Times(u, A) \in Nat /\ w \o u \in Seq(R)
    <2>1. Times(w \o u, A) = Times(w, A) + Times(u, A)
        BY <1>1, TimesConcat
    <2>2. Times(u, A) \in Nat
        BY TimesIsNat
    <2>3. w \o u \in Seq(R)
        BY <1>1
    <2> QED
        BY <2>1, <2>2, <2>3
<1> QED
    BY <1>1, <1>2 DEF w

(* A round s of one row from each group, rearranged as t, goes to the      *)
(* output; the first w rows that are there are handed out.                 *)
Gathers(R, A, s, t, u, b, v, c, out, given, w) ==
    /\ s \in Seq(R) /\ Len(s) = K /\ Rearranged(R, s, t)
    /\ u \in [1..K -> Seq(R)] /\ b \in [1..K -> Seq(R)]
    /\ v \in [1..K -> Seq(R)] /\ c \in [1..K -> Seq(R)]
    /\ out \in Seq(R) /\ given \in Seq(R) /\ w \in Nat /\ w <= Len(out \o t)
    /\ \A j \in 1..K : Times(u[j], A) + Times(b[j], A)
                         = Times(v[j], A) + Times(c[j], A) + Times(<<s[j]>>, A)

LEMMA RoundIsGathered ==
    ASSUME NEW R, NEW A, NEW s, NEW t, NEW u, NEW b, NEW v, NEW c, NEW out, NEW given, NEW w,
           Gathers(R, A, s, t, u, b, v, c, out, given, w)
    PROVE  LET o == out \o t
           IN  Times(All(u) \o All(b) \o out \o given, A)
                 = Times(All(v) \o All(c) \o SubSeq(o, w + 1, Len(o))
                         \o (given \o SubSeq(o, 1, w)), A)
<1> USE DEF Gathers
<1> DEFINE o == out \o t
           front == SubSeq(o, 1, w)
           back == SubSeq(o, w + 1, Len(o))
           more == given \o front
<1>1. t \in Seq(R) /\ Times(s, A) = Times(t, A)
    BY DEF Rearranged, SameRows
<1>2. o \in Seq(R) /\ Times(o, A) = Times(out, A) + Times(t, A)
    BY <1>1, TimesConcat
<1>3. front \in Seq(R) /\ back \in Seq(R) /\ o = front \o back
    <2> DEFINE m == Len(o)
               z == 0
    <2>1. o \in Seq(R) /\ m \in Nat /\ w <= m /\ m <= Len(o)
        BY <1>2
    <2>2. z \in Nat /\ z <= w
        OBVIOUS
    <2>3. SubSeq(o, 1, m) = o
        BY <2>1
    <2> HIDE DEF o, m, z
    <2>4. /\ SubSeq(o, z + 1, w) \in Seq(R) /\ SubSeq(o, w + 1, m) \in Seq(R)
          /\ SubSeq(o, z + 1, m) = SubSeq(o, z + 1, w) \o SubSeq(o, w + 1, m)
        BY <2>1, <2>2, Parts
    <2>5. z + 1 = 1 /\ m = Len(o)
        BY DEF m, z
    <2> QED
        BY <2>3, <2>4, <2>5
<1> HIDE DEF o, front, back
<1>4. Times(o, A) = Times(front, A) + Times(back, A)
    BY <1>3, TimesConcat
<1>5. more \in Seq(R) /\ Times(more, A) = Times(given, A) + Times(front, A)
    BY <1>3, TimesConcat
<1> HIDE DEF more
<1>6. Times(All(u), A) + Times(All(b), A) = Times(All(v), A) + Times(All(c), A) + Times(s, A)
    <2>1. Singles(s) \in [1..K -> Seq(R)] /\ All(Singles(s)) = s
        BY AllOfSingles
    <2>2. \A j \in 1..K : Singles(s)[j] = <<s[j]>>
        BY DEF Singles
    <2>3. Balanced(R, A, u, b, v, c, Singles(s))
        BY <2>1, <2>2 DEF Balanced
    <2>4. Times(All(u), A) + Times(All(b), A)
            = Times(All(v), A) + Times(All(c), A) + Times(All(Singles(s)), A)
        BY <2>3, AllAdds
    <2> QED
        BY <2>1, <2>4
<1> DEFINE au == All(u)
           ab == All(b)
           av == All(v)
           ac == All(c)
<1>7. au \in Seq(R) /\ ab \in Seq(R) /\ av \in Seq(R) /\ ac \in Seq(R)
    BY AllIsSeq
<1>8. Times(au, A) + Times(ab, A) = Times(av, A) + Times(ac, A) + Times(s, A)
    BY <1>6
<1> HIDE DEF au, ab, av, ac
<1>9. /\ Times(au \o ab \o out \o given, A)
           = Times(au, A) + Times(ab, A) + Times(out, A) + Times(given, A)
      /\ Times(au, A) \in Nat /\ Times(ab, A) \in Nat /\ Times(out, A) \in Nat /\ Times(given, A) \in Nat
    BY <1>7, TimesOfFour
<1>10. /\ Times(av \o ac \o back \o more, A)
           = Times(av, A) + Times(ac, A) + Times(back, A) + Times(more, A)
       /\ Times(av, A) \in Nat /\ Times(ac, A) \in Nat /\ Times(back, A) \in Nat /\ Times(more, A) \in Nat
    BY <1>3, <1>5, <1>7, TimesOfFour
<1>11. Times(t, A) \in Nat /\ Times(front, A) \in Nat
    BY <1>1, <1>3, TimesIsNat
<1>12. Times(au \o ab \o out \o given, A) = Times(av \o ac \o back \o more, A)
    <2> DEFINE nu == Times(au, A)
               nb == Times(ab, A)
               nv == Times(av, A)
               nc == Times(ac, A)
               nt == Times(t, A)
               nout == Times(out, A)
               ngiven == Times(given, A)
               nfront == Times(front, A)
               nback == Times(back, A)
               nmore == Times(more, A)
    <2>1. nu + nb = nv + nc + nt
        BY <1>1, <1>8
    <2>2. nout + nt = nfront + nback /\ nmore = ngiven + nfront
        BY <1>2, <1>4, <1>5
    <2>3. /\ nu \in Nat /\ nb \in Nat /\ nv \in Nat /\ nc \in Nat /\ nt \in Nat /\ nout \in Nat
          /\ ngiven \in Nat /\ nfront \in Nat /\ nback \in Nat /\ nmore \in Nat
        BY <1>9, <1>10, <1>11
    <2>4. nu + nb + nout + ngiven = nv + nc + nback + nmore
        <3> HIDE DEF nu, nb, nv, nc, nt, nout, ngiven, nfront, nback, nmore
        <3> QED
            BY ONLY <2>1, <2>2, <2>3
    <2> QED
        BY <1>9, <1>10, <2>4
<1> QED
    BY <1>12 DEF o, front, back, more, au, ab, av, ac

-----------------------------------------------------------------------------
(* The steps of the shuffle. *)

Enclaves(R) ==
    [input : Seq(R), round : Nat, buffers : [1..K -> Seq(R)], out : Seq(R)]

(* What every step of the shuffle starts from. *)
Working == ShuffleInv /\ pc = "shuffling" /\ UNCHANGED sortVars

LEMMA Steady ==
    ASSUME Working
    PROVE  /\ RowsMet' = RowsMet /\ JUNK \in RowsMet
           /\ rows' = rows /\ pc' = pc /\ table' = table
           /\ rows \in Seq(RowsMet) /\ table \in Seq(RowsMet) /\ vector \in Seq(RowsMet)
           /\ calls \in Seq(Activations) /\ groups \in [1..K -> Seq(RowsMet)]
           /\ group_positions \in [1..K -> Nat] /\ output_entries \in Seq(RowsMet)
           /\ current_instance \in BOOLEAN /\ enclave \in Enclaves(RowsMet)
           /\ ShuffleTypes /\ Nested /\ Served /\ Disowned /\ Whole /\ SameRows(table, vector)
<1>1. ShuffleTypes /\ Nested /\ Served /\ Disowned /\ Whole /\ SameRows(table, vector)
    BY DEF Working, ShuffleInv
<1>2. rows' = rows /\ pc' = pc /\ table' = table /\ pc # "done"
    BY DEF Working, sortVars
<1>3. RowsMet' = RowsMet /\ JUNK \in RowsMet
    BY <1>2 DEF RowsMet
<1>4. /\ rows \in Seq(RowsMet) /\ table \in Seq(RowsMet) /\ vector \in Seq(RowsMet)
      /\ calls \in Seq(Activations) /\ groups \in [1..K -> Seq(RowsMet)]
      /\ group_positions \in [1..K -> Nat] /\ output_entries \in Seq(RowsMet)
      /\ current_instance \in BOOLEAN /\ enclave \in Enclaves(RowsMet)
    BY <1>1, <1>2 DEF ShuffleTypes, Enclaves
<1> QED
    BY <1>1, <1>2, <1>3, <1>4

(* The members of ShuffleTypes that a step must keep. *)
LEMMA TypesKept ==
    ASSUME Working, vector' \in Seq(RowsMet), calls' \in Seq(Activations),
           groups' \in [1..K -> Seq(RowsMet)], group_positions' \in [1..K -> Nat],
           output_entries' \in Seq(RowsMet), current_instance' \in BOOLEAN,
           enclave' \in Enclaves(RowsMet)
    PROVE  ShuffleTypes'
<1>1. RowsMet' = RowsMet /\ rows' \in Seq(RowsMet) /\ table' \in Seq(RowsMet)
    BY Steady
<1> QED
    BY <1>1 DEF ShuffleTypes, Enclaves

LEMMA InvariantKept ==
    ASSUME Working, ShuffleTypes', Nested', Served', Disowned', Whole', SameRows(table, vector')
    PROVE  ShuffleInv'
<1>1. pc' = "shuffling" /\ table' = table
    BY Steady DEF Working
<1> QED
    BY <1>1 DEF ShuffleInv, SameRows

(* No group is read unless current_instance is set, and nothing is read of *)
(* groups that are empty: every round needs a row of each group.           *)
LEMMA IdleIsEmpty ==
    /\ \A R : Idle \in Enclaves(R)
    /\ Idle.input = <<>> /\ Idle.round = 0 /\ Idle.buffers = NoGroups /\ Idle.out = <<>>
    /\ \A j \in 1..K : NoGroups[j] = <<>>
    /\ \A R : NoGroups \in [1..K -> Seq(R)]
BY DEF Idle, NoGroups, Enclaves

(* The size of a vector that is dealt: at least one round, and whole ones. *)
LEMMA WholeRounds ==
    ASSUME Working, calls # <<>>, Top.n % K = 0
    PROVE  /\ Rounds \in Nat /\ Rounds >= 1 /\ Top.n = Rounds * K /\ Top.n \in Nat
           /\ \A r \in 0..Rounds : r * K \in Nat /\ r * K <= Top.n
           /\ \A r \in 0..(Rounds - 1) : r * K + K = (r + 1) * K /\ r * K + K <= Top.n
<1> USE ShuffleAssumption
<1>1. /\ Top \in Activations /\ Top.n \in Nat /\ Top.n > MaxBatch /\ Rounds = Top.n \div K
    <2>1. /\ Len(calls) \in Nat /\ Len(calls) >= 1 /\ Top = calls[Len(calls)] /\ Top \in Activations
          /\ Rounds = Top.n \div K
        BY Steady, TopIsActivation
    <2> DEFINE m == Len(calls)
    <2>2. m \in 1..m /\ \A x \in 1..m : Activation(calls[x], x = 1, x = m)
        BY <2>1, Steady DEF Nested
    <2>3. Activation(calls[m], m = 1, m = m)
        BY <2>2
    <2> QED
        BY <2>1, <2>3 DEF Activation, Activations
<1> DEFINE n == Top.n
           q == Rounds
<1>2. n \in Nat /\ n > 0 /\ q = n \div K /\ n % K = 0
    BY <1>1
<1> HIDE DEF n, q
<1>3. q \in Nat /\ n = K * q + (n % K)
    BY <1>2, Division
<1>4. n = q * K /\ q >= 1
    <2>1. n = K * q
        BY <1>2, <1>3
    <2>2. q # 0
        BY <1>2, <2>1
    <2> QED
        BY <1>3, <2>1, <2>2
<1>5. \A r \in 0..q : r * K \in Nat /\ r * K <= n
    <2> SUFFICES ASSUME NEW r \in 0..q PROVE r * K \in Nat /\ r * K <= n
        OBVIOUS
    <2>1. K * r \in Nat /\ K * r <= K * q
        BY <1>3, TimesGrow
    <2>2. K * r = r * K /\ K * q = q * K
        BY <1>3
    <2> QED
        BY <1>4, <2>1, <2>2
<1>6. \A r \in 0..(q - 1) : r * K + K = (r + 1) * K /\ r * K + K <= n
    <2> SUFFICES ASSUME NEW r \in 0..(q - 1) PROVE r * K + K = (r + 1) * K /\ r * K + K <= n
        OBVIOUS
    <2>1. r + 1 \in 0..q /\ r * K + K = (r + 1) * K
        BY <1>3
    <2> QED
        BY <1>5, <2>1
<1> QED
    BY <1>2, <1>3, <1>4, <1>5, <1>6 DEF n, q

LEMMA DecomposeRoundKeeps ==
    ASSUME Working, DecomposeRound
    PROVE  ShuffleInv'
<1> USE ShuffleAssumption
<1> DEFINE R == RowsMet
           r == enclave.round
           n == Top.n
           a == r * K
           turn == SubSeq(enclave.input, a + 1, a + K)
<1>1. /\ calls # <<>> /\ Top.step = "decompose" /\ r < Rounds /\ n % K = 0
      /\ Len(enclave.input) = n /\ enclave \in Enclaves(R) /\ enclave.input \in Seq(R)
      /\ r \in Nat /\ enclave.buffers \in [1..K -> Seq(R)] /\ groups \in [1..K -> Seq(R)]
      /\ vector \in Seq(R)
    BY Steady DEF DecomposeRound, Running, Served, Enclaves
<1>2. /\ Rounds \in Nat /\ a \in Nat /\ n \in Nat /\ a + K = (r + 1) * K /\ a + K <= n
    <2>1. r \in 0..Rounds /\ r \in 0..(Rounds - 1) /\ Rounds \in Nat
        BY <1>1, WholeRounds
    <2> QED
        BY <1>1, <2>1, WholeRounds
<1> HIDE DEF a
<1>3. PICK s \in Shuffles(turn) :
          LET filled == [j \in 1..K |-> Append(enclave.buffers[j], DealtTo(j, s))]
              full   == {j \in 1..K : Len(filled[j]) >= ShuffleBuffer}
          IN  /\ groups' = [j \in 1..K |->
                               IF j \in full THEN groups[j] \o filled[j] ELSE groups[j]]
              /\ enclave' = [input   |-> enclave.input, round |-> enclave.round + 1,
                             buffers |-> [j \in 1..K |-> IF j \in full THEN <<>> ELSE filled[j]],
                             out     |-> enclave.out]
    BY DEF DecomposeRound, a
<1>4. turn \in Seq(R) /\ Len(turn) = K
    <2> DEFINE b == a + K
               in == enclave.input
    <2>1. in \in Seq(R) /\ a \in Nat /\ b \in Nat /\ n \in Nat /\ a <= b /\ b <= n /\ n <= Len(in)
        BY <1>1, <1>2
    <2>2. b - a = K
        BY <1>2
    <2> HIDE DEF b, in, n
    <2>3. SubSeq(in, a + 1, b) \in Seq(R) /\ Len(SubSeq(in, a + 1, b)) = b - a
        BY ONLY <2>1, Parts
    <2> QED
        BY <2>2, <2>3 DEF b, in
<1> HIDE DEF turn
<1>5. Rearranged(R, turn, s) /\ s \in Seq(R) /\ Len(s) = K
    <2>1. Rearranged(R, turn, s)
        BY <1>4, ShufflesRearrange
    <2> QED
        BY <1>4, <2>1 DEF Rearranged
<1> DEFINE filled == [j \in 1..K |-> Append(enclave.buffers[j], s[j])]
           full   == {j \in 1..K : Len(filled[j]) >= ShuffleBuffer}
           left   == [j \in 1..K |-> IF j \in full THEN <<>> ELSE filled[j]]
<1>6. /\ groups' = [j \in 1..K |-> IF j \in full THEN groups[j] \o filled[j] ELSE groups[j]]
      /\ enclave' = [input |-> enclave.input, round |-> r + 1, buffers |-> left, out |-> enclave.out]
    BY <1>3 DEF DealtTo
<1>7. /\ filled \in [1..K -> Seq(R)] /\ \A j \in 1..K : s[j] \in R
      /\ \A j \in 1..K : filled[j] = Append(enclave.buffers[j], s[j])
    BY <1>1, <1>5
<1> HIDE DEF filled
<1>8. \A j \in 1..K : /\ groups'[j] = IF j \in full THEN groups[j] \o filled[j] ELSE groups[j]
                      /\ left[j] = IF j \in full THEN <<>> ELSE filled[j]
    BY <1>6
<1>9. groups' \in [1..K -> Seq(R)] /\ left \in [1..K -> Seq(R)]
    <2>1. \A j \in 1..K : groups[j] \o filled[j] \in Seq(R) /\ groups[j] \in Seq(R)
        BY <1>1, <1>7
    <2>2. <<>> \in Seq(R) /\ \A j \in 1..K : filled[j] \in Seq(R)
        BY <1>7
    <2> HIDE DEF full
    <2> QED
        BY <1>6, <2>1, <2>2
<1> HIDE DEF full, left
<1>10. /\ enclave' \in Enclaves(R) /\ enclave'.input = enclave.input /\ enclave'.round = r + 1
       /\ enclave'.buffers = left
    BY <1>1, <1>6, <1>9 DEF Enclaves
<1>11. /\ vector' = vector /\ calls' = calls /\ group_positions' = group_positions
       /\ output_entries' = output_entries /\ current_instance' = current_instance
    BY DEF DecomposeRound
<1>12. Top' = Top /\ Rounds' = Rounds
    BY <1>11 DEF Top, Rounds
<1>13. ShuffleTypes'
    BY <1>9, <1>10, <1>11, Steady, TypesKept
<1>14. Nested'
    <2>1. Nested
        BY Steady
    <2> QED
        BY <1>11, <2>1 DEF Nested
<1>15. Served' /\ Disowned'
    <2>1. Disowned
        BY Steady
    <2>2. Served'
        BY <1>1, <1>2, <1>10, <1>11, <1>12 DEF Served
    <2>3. Disowned'
        BY <1>1, <1>11, <1>12, <2>1 DEF Disowned
    <2> QED
        BY <2>2, <2>3
<1>16. \A j \in 1..K : Len(groups'[j]) + Len(left[j]) = Len(groups[j]) + Len(enclave.buffers[j]) + 1
    <2> SUFFICES ASSUME NEW j \in 1..K
                 PROVE  Len(groups'[j]) + Len(left[j]) = Len(groups[j]) + Len(enclave.buffers[j]) + 1
        OBVIOUS
    <2> DEFINE g == groups[j]
               b == enclave.buffers[j]
               f == filled[j]
    <2>1. g \in Seq(R) /\ b \in Seq(R) /\ s[j] \in R /\ f = Append(b, s[j])
        BY <1>1, <1>7
    <2>2. j \in full => groups'[j] = g \o f /\ left[j] = <<>>
        BY <1>8
    <2>3. j \notin full => groups'[j] = g /\ left[j] = f
        BY <1>8
    <2> HIDE DEF g, b, f, R
    <2>4. f \in Seq(R) /\ Len(f) = Len(b) + 1 /\ Len(g \o f) = Len(g) + Len(b) + 1 /\ Len(<<>>) = 0
        BY ONLY <2>1
    <2>5. Len(groups'[j]) + Len(left[j]) = Len(g) + Len(b) + 1
        <3>1. Len(g) \in Nat /\ Len(b) \in Nat
            BY <2>1
        <3>2. CASE j \in full
            <4>1. Len(groups'[j]) = Len(g) + Len(b) + 1 /\ Len(left[j]) = 0
                BY ONLY <2>2, <2>4, <3>2
            <4> QED
                BY ONLY <3>1, <4>1
        <3>3. CASE j \notin full
            <4>1. Len(groups'[j]) = Len(g) /\ Len(left[j]) = Len(b) + 1
                BY ONLY <2>3, <2>4, <3>3
            <4> QED
                BY ONLY <3>1, <4>1
        <3> QED
            BY <3>2, <3>3
    <2> QED
        BY <2>5 DEF g, b
<1>17. ASSUME NEW A, NEW j \in 1..K
       PROVE  Times(groups'[j], A) + Times(left[j], A)
                = Times(groups[j], A) + Times(enclave.buffers[j], A) + Times(<<s[j]>>, A)
    <2> DEFINE g == groups[j]
               b == enclave.buffers[j]
               f == filled[j]
               one == <<s[j]>>
    <2>1. g \in Seq(R) /\ b \in Seq(R) /\ f \in Seq(R) /\ one \in Seq(R) /\ f = b \o one
        <3>1. g \in Seq(R) /\ b \in Seq(R) /\ s[j] \in R /\ f = Append(b, s[j])
            BY <1>1, <1>7
        <3> HIDE DEF g, b, f, R
        <3>2. f \in Seq(R) /\ one \in Seq(R) /\ f = b \o one
            BY ONLY <3>1
        <3> QED
            BY <3>1, <3>2
    <2> HIDE DEF g, b, f, one
    <2>2. /\ Times(f, A) = Times(b, A) + Times(one, A) /\ Times(g \o f, A) = Times(g, A) + Times(f, A)
        <3>1. Times(b \o one, A) = Times(b, A) + Times(one, A)
            BY <2>1, TimesConcat
        <3>2. Times(g \o f, A) = Times(g, A) + Times(f, A)
            BY <2>1, TimesConcat
        <3> QED
            BY <2>1, <3>1, <3>2
    <2>3. Times(g, A) \in Nat /\ Times(b, A) \in Nat /\ Times(one, A) \in Nat /\ Times(<<>>, A) = 0
        <3>1. ASSUME NEW x \in Seq(R) PROVE Times(x, A) \in Nat
            BY TimesIsNat
        <3> QED
            BY <2>1, <3>1, TimesEmpty
    <2>4. Times(groups'[j], A) + Times(left[j], A) = Times(g, A) + Times(b, A) + Times(one, A)
        <3>1. CASE j \in full
            <4>1. groups'[j] = g \o f /\ left[j] = <<>>
                BY <1>8, <3>1 DEF g, f
            <4> QED
                BY <2>2, <2>3, <4>1
        <3>2. CASE j \notin full
            <4>1. groups'[j] = g /\ left[j] = f
                BY <1>8, <3>2 DEF g, f
            <4> QED
                BY <2>2, <2>3, <4>1
        <3> QED
            BY <3>1, <3>2
    <2> QED
        BY <2>4 DEF g, b, one
<1>18. Whole'
    <2> SUFFICES ASSUME Len(calls) = 1, current_instance PROVE Dealing'
        BY <1>1, <1>11, <1>12 DEF Whole
    <2>1. Dealing
        BY <1>1, Steady DEF Whole
    <2>2. enclave'.input = vector' /\ n = Len(vector)
        BY <1>1, <1>10, <1>11, <2>1 DEF Dealing
    <2>3. \A j \in 1..K : Len(groups'[j]) + Len(enclave'.buffers[j]) = enclave'.round
        BY <1>10, <1>16, <2>1 DEF Dealing
    <2> DEFINE old == SubSeq(vector, a + 1, n) \o All(groups) \o All(enclave.buffers)
               new == SubSeq(vector, (a + K) + 1, n) \o All(groups') \o All(left)
    <2>4. ASSUME NEW A PROVE Times(old, A) = Times(new, A)
        <3>1. Rearranged(R, SubSeq(vector, a + 1, a + K), s) /\ a + K <= Len(vector)
            BY <1>2, <1>5, <2>1, <2>2 DEF turn, Dealing
        <3> DEFINE g == groups
                   b == enclave.buffers
                   h == groups'
        <3>2. Deals(R, A, vector, a, s, g, b, h, left)
            BY <1>1, <1>2, <1>9, <1>17, <3>1 DEF Deals
        <3> HIDE DEF g, b, h, R
        <3>3. Times(SubSeq(vector, a + 1, Len(vector)) \o All(g) \o All(b), A)
                = Times(SubSeq(vector, (a + K) + 1, Len(vector)) \o All(h) \o All(left), A)
            BY ONLY <3>2, RoundIsDealt
        <3> QED
            BY <2>2, <3>3 DEF g, b, h
    <2>5. SameRows(table, old)
        BY <2>1 DEF Dealing, a
    <2>6. SameRows(table, new)
        <3> HIDE DEF old, new
        <3> QED
            BY <2>4, <2>5 DEF SameRows
    <2>7. new = SubSeq(vector', enclave'.round * K + 1, Top'.n) \o All(groups') \o All(enclave'.buffers)
        BY <1>2, <1>10, <1>11, <1>12
    <2>8. table' = table
        BY Steady
    <2> HIDE DEF new, old
    <2> QED
        BY <2>2, <2>3, <2>6, <2>7, <2>8 DEF Dealing, SameRows
<1> QED
    <2>1. SameRows(table, vector')
        BY <1>11, Steady
    <2> QED
        BY <1>13, <1>14, <1>15, <1>18, <2>1, InvariantKept

(* Groups with the rest of their buffers. *)
WithBuffers(R, h, g, b) ==
    /\ g \in [1..K -> Seq(R)] /\ b \in [1..K -> Seq(R)]
    /\ h = [j \in 1..K |-> g[j] \o b[j]]

LEMMA GroupsFlushed ==
    ASSUME NEW R, NEW g, NEW b, NEW h, WithBuffers(R, h, g, b)
    PROVE  \A A : Times(All(h), A) = Times(All(g), A) + Times(All(b), A)
<1> USE DEF WithBuffers
<1>1. \A j \in 1..K : g[j] \in Seq(R) /\ b[j] \in Seq(R) /\ h[j] = g[j] \o b[j]
    OBVIOUS
<1>2. ASSUME NEW x \in Seq(R), NEW y \in Seq(R) PROVE x \o y \in Seq(R)
    OBVIOUS
<1>3. h \in [1..K -> Seq(R)]
    BY <1>1, <1>2
<1> SUFFICES ASSUME NEW A PROVE Times(All(h), A) = Times(All(g), A) + Times(All(b), A)
    OBVIOUS
<1>4. NoGroups \in [1..K -> Seq(R)] /\ \A j \in 1..K : Times(NoGroups[j], A) = 0
    BY IdleIsEmpty, TimesEmpty
<1>5. \A j \in 1..K : /\ Times(h[j], A) = Times(g[j], A) + Times(b[j], A)
                      /\ Times(g[j], A) \in Nat /\ Times(b[j], A) \in Nat
    <2>1. ASSUME NEW x \in Seq(R), NEW y \in Seq(R)
          PROVE  /\ Times(x \o y, A) = Times(x, A) + Times(y, A)
                 /\ Times(x, A) \in Nat /\ Times(y, A) \in Nat
        <3>1. Times(x \o y, A) = Times(x, A) + Times(y, A)
            BY TimesConcat
        <3>2. ASSUME NEW z \in Seq(R) PROVE Times(z, A) \in Nat
            BY TimesIsNat
        <3> QED
            BY <3>1, <3>2
    <2> QED
        BY <1>1, <2>1
<1>6. Balanced(R, A, h, NoGroups, g, b, NoGroups)
    BY <1>3, <1>4, <1>5 DEF Balanced
<1>7. Times(All(h), A) + Times(All(NoGroups), A)
        = Times(All(g), A) + Times(All(b), A) + Times(All(NoGroups), A)
    BY <1>6, AllAdds
<1>8. Times(All(h), A) \in Nat /\ Times(All(g), A) \in Nat /\ Times(All(b), A) \in Nat
    BY <1>3, AllIsSeq
<1> QED
    BY <1>7, <1>8, AllOfNone

LEMMA DecomposeEndKeeps ==
    ASSUME Working, DecomposeEnd
    PROVE  ShuffleInv'
<1> USE ShuffleAssumption
<1> DEFINE R == RowsMet
           b == enclave.buffers
           n == Top.n
           top == [Top EXCEPT !.step = "groups"]
<1>1. /\ calls # <<>> /\ Top.step = "decompose" /\ enclave.round = Rounds /\ n % K = 0
      /\ groups' = [j \in 1..K |-> groups[j] \o b[j]]
      /\ calls' = [calls EXCEPT ![Len(calls)].step = "groups"] /\ enclave' = Idle
      /\ vector' = vector /\ group_positions' = group_positions
      /\ output_entries' = output_entries /\ current_instance' = current_instance
    BY DEF DecomposeEnd, Running
<1>2. /\ enclave \in Enclaves(R) /\ b \in [1..K -> Seq(R)] /\ groups \in [1..K -> Seq(R)]
      /\ vector \in Seq(R) /\ Top \in Activations /\ Len(enclave.input) = n
    BY <1>1, Steady, TopIsActivation DEF Enclaves, Served
<1>3. Proceeds(top) /\ top.step = "groups"
    <2>1. Proceeds(top)
        BY <1>1, Steady, StepProceeds
    <2> QED
        BY <1>2, <2>1 DEF Activations
<1> HIDE DEF top
<1>4. /\ Nested' /\ Rounds' = Rounds /\ Top'.step = "groups" /\ Top'.n = n
      /\ Len(calls') = Len(calls) /\ calls' \in Seq(Activations)
    <2>1. Nested' /\ Rounds' = Rounds
        BY <1>1, <1>3, Steady, Proceeding
    <2> QED
        BY <1>3, <2>1 DEF Proceeds
<1>5. /\ groups' \in [1..K -> Seq(R)] /\ \A j \in 1..K : Len(groups'[j]) = Len(groups[j]) + Len(b[j])
      /\ \A A : Times(All(groups'), A) = Times(All(groups), A) + Times(All(b), A)
    <2> DEFINE g == groups
               h == groups'
    <2>1. WithBuffers(R, h, g, b)
        BY <1>1, <1>2 DEF WithBuffers
    <2>2. \A A : Times(All(h), A) = Times(All(g), A) + Times(All(b), A)
        <3> HIDE DEF g, h, b, R
        <3> QED
            BY ONLY <2>1, GroupsFlushed
    <2>3. ASSUME NEW x \in Seq(R), NEW y \in Seq(R)
          PROVE  x \o y \in Seq(R) /\ Len(x \o y) = Len(x) + Len(y)
        OBVIOUS
    <2>4. \A j \in 1..K : g[j] \in Seq(R) /\ b[j] \in Seq(R) /\ h[j] = g[j] \o b[j]
        BY <1>1, <1>2
    <2>5. \A j \in 1..K : h[j] \in Seq(R) /\ Len(h[j]) = Len(g[j]) + Len(b[j])
        <3> HIDE DEF g, b, R
        <3> QED
            BY <2>3, <2>4
    <2>6. h \in [1..K -> Seq(R)]
        BY <1>1, <2>5
    <2> QED
        BY <2>2, <2>5, <2>6
<1>6. ShuffleTypes'
    <2>1. Idle \in Enclaves(R)
        BY IdleIsEmpty
    <2> QED
        BY <1>1, <1>2, <1>4, <1>5, <2>1, Steady, TypesKept
<1>7. Served' /\ Disowned'
    <2>1. Disowned
        BY Steady
    <2>2. Served'
        BY <1>1, <1>4 DEF Served
    <2>3. Disowned'
        BY <1>1, <1>4, <2>1 DEF Disowned
    <2> QED
        BY <2>2, <2>3
<1>8. Whole'
    <2> SUFFICES ASSUME Len(calls) = 1, current_instance PROVE Dealt'
        BY <1>1, <1>4 DEF Whole
    <2>1. Dealing
        BY <1>1, Steady DEF Whole
    <2>2. \A j \in 1..K : Len(groups'[j]) = Rounds'
        BY <1>1, <1>4, <1>5, <2>1 DEF Dealing
    <2>3. n = Rounds * K /\ n \in Nat
        BY <1>1, WholeRounds
    <2>4. SubSeq(vector, n + 1, n) = <<>>
        BY <1>2, <2>3
    <2>5. SameRows(table, <<>> \o All(groups) \o All(b))
        BY <1>1, <2>1, <2>3, <2>4 DEF Dealing
    <2>6. ASSUME NEW A PROVE Times(<<>> \o All(groups) \o All(b), A) = Times(All(groups'), A)
        <3> DEFINE ag == All(groups)
                   ab == All(b)
                   none == <<>>
        <3>1. ag \in Seq(R) /\ ab \in Seq(R) /\ none \in Seq(R)
            BY <1>2, AllIsSeq
        <3>2. Times(none, A) = 0
            BY TimesEmpty
        <3> HIDE DEF ag, ab, none, R
        <3>3. /\ Times(none \o ag \o ab, A) = Times(none, A) + Times(ag, A) + Times(ab, A)
              /\ Times(ag, A) \in Nat /\ Times(ab, A) \in Nat
            BY <3>1, TimesOfParts
        <3>4. Times(none \o ag \o ab, A) = Times(ag, A) + Times(ab, A)
            BY <3>2, <3>3
        <3> QED
            BY <1>5, <3>4 DEF ag, ab, none
    <2>7. SameRows(table', All(groups'))
        BY <2>5, <2>6, Steady DEF SameRows
    <2> QED
        BY <2>2, <2>7 DEF Dealt, SameRows, All
<1> QED
    <2>1. SameRows(table, vector')
        BY <1>1, Steady
    <2> QED
        BY <1>4, <1>6, <1>7, <1>8, <2>1, InvariantKept

(* An activation that ends without having touched anything but the enclave *)
(* and the manager's pointer leaves everything to the one that called it.  *)
LEMMA AbandonKeeps ==
    ASSUME Working, calls # <<>>, Abandon
    PROVE  ShuffleInv'
<1>1. /\ calls' = Front(calls) /\ current_instance' = FALSE /\ enclave' = Idle
      /\ vector' = vector /\ groups' = groups /\ group_positions' = group_positions
      /\ output_entries' = output_entries
    BY DEF Abandon
<1>2. calls' \in Seq(Activations) /\ Nested' /\ Served' /\ Disowned' /\ Whole'
    BY <1>1, Steady, Returning
<1>3. ShuffleTypes'
    <2>1. Idle \in Enclaves(RowsMet)
        BY IdleIsEmpty
    <2> QED
        BY <1>1, <1>2, <2>1, Steady, TypesKept
<1>4. SameRows(table, vector')
    BY <1>1, Steady
<1> QED
    BY <1>2, <1>3, <1>4, InvariantKept

LEMMA FailsKeeps ==
    ASSUME Working, DecomposeFails \/ ReconstructFails
    PROVE  ShuffleInv'
<1>1. calls # <<>> /\ Abandon
    BY DEF DecomposeFails, ReconstructFails, Running
<1> QED
    BY <1>1, AbandonKeeps

LEMMA ReconstructStartKeeps ==
    ASSUME Working, ReconstructStart
    PROVE  ShuffleInv'
<1> USE ShuffleAssumption
<1> DEFINE R == RowsMet
           n == Top.n
           top == [Top EXCEPT !.step = "reconstruct"]
<1>1. /\ calls # <<>> /\ Top.step = "groups"
      /\ calls' = [calls EXCEPT ![Len(calls)].step = "reconstruct"]
      /\ output_entries' = <<>> /\ group_positions' = [j \in 1..K |-> 0]
      /\ vector' = vector /\ groups' = groups /\ current_instance' = current_instance
      /\ enclave' = enclave
    BY DEF ReconstructStart, Running
<1>2. /\ Top \in Activations /\ n % K = 0 /\ enclave = Idle
      /\ enclave \in Enclaves(R) /\ groups \in [1..K -> Seq(R)]
    <2>1. /\ Len(calls) \in Nat /\ Len(calls) >= 1 /\ Top = calls[Len(calls)] /\ Top \in Activations
        BY <1>1, Steady, TopIsActivation
    <2> DEFINE m == Len(calls)
    <2>2. m \in 1..m /\ \A x \in 1..m : Activation(calls[x], x = 1, x = m)
        BY <2>1, Steady DEF Nested
    <2>3. Activation(calls[m], m = 1, m = m)
        BY <2>2
    <2> QED
        BY <1>1, <2>1, <2>3, Steady DEF Activation, Served
<1>3. Proceeds(top) /\ top.step = "reconstruct"
    <2>1. Proceeds(top)
        BY <1>1, <1>2, Steady, StepProceeds
    <2> QED
        BY <1>2, <2>1 DEF Activations
<1> HIDE DEF top
<1>4. /\ Nested' /\ Rounds' = Rounds /\ Top'.step = "reconstruct" /\ Top'.n = n
      /\ Len(calls') = Len(calls) /\ calls' \in Seq(Activations)
    <2>1. Nested' /\ Rounds' = Rounds
        BY <1>1, <1>3, Steady, Proceeding
    <2> QED
        BY <1>3, <2>1 DEF Proceeds
<1>5. ShuffleTypes'
    <2>1. <<>> \in Seq(R) /\ [j \in 1..K |-> 0] \in [1..K -> Nat]
        OBVIOUS
    <2> QED
        BY <1>1, <1>2, <1>4, <2>1, Steady, TypesKept
<1>6. Served' /\ Disowned'
    <2>1. Served'
        BY <1>1, <1>4 DEF Served
    <2>2. Disowned'
        BY <1>1, <1>2, <1>4 DEF Disowned
    <2> QED
        BY <2>1, <2>2
<1>7. Whole'
    <2> SUFFICES ASSUME Len(calls) = 1, current_instance PROVE Rebuilding'
        BY <1>1, <1>4 DEF Whole
    <2>1. (\A j \in 1..K : Len(groups[j]) = Rounds) /\ SameRows(table, All(groups))
        BY <1>1, Steady DEF Whole, Dealt
    <2>2. Rounds \in Nat
        BY <1>1, <1>2, WholeRounds
    <2>3. /\ enclave'.round = 0 /\ enclave'.buffers = NoGroups /\ enclave'.out = <<>>
          /\ \A j \in 1..K : NoGroups[j] = <<>>
        BY <1>1, <1>2, IdleIsEmpty
    <2>4. \A j \in 1..K : groups[j] \in Seq(R) /\ group_positions'[j] = 0 /\ groups'[j] = groups[j]
        BY <1>1, <1>2
    <2>5. Unread' = groups
        <3>1. ASSUME NEW x \in Seq(R) PROVE SubSeq(x, 0 + 1, Len(x)) = x
            OBVIOUS
        <3>2. Unread' = [j \in 1..K |-> SubSeq(groups'[j], group_positions'[j] + 1, Len(groups'[j]))]
            BY DEF Unread
        <3>3. \A j \in 1..K : SubSeq(groups'[j], group_positions'[j] + 1, Len(groups'[j])) = groups[j]
            BY <2>4, <3>1
        <3>4. groups = [j \in 1..K |-> groups[j]]
            BY <1>2
        <3> HIDE DEF R
        <3> QED
            BY ONLY <3>2, <3>3, <3>4
    <2>6. ASSUME NEW j \in 1..K
          PROVE  /\ group_positions'[j] <= Len(groups'[j])
                 /\ Len(Unread'[j]) + Len(enclave'.buffers[j]) = Rounds - 0
        <3>1. Len(groups[j]) = Rounds /\ Len(<<>>) = 0
            BY <2>1
        <3>2. /\ Unread'[j] = groups[j] /\ enclave'.buffers[j] = <<>>
              /\ group_positions'[j] = 0 /\ groups'[j] = groups[j]
            BY <2>3, <2>4, <2>5
        <3> QED
            BY <2>2, <3>1, <3>2
    <2>7. ASSUME NEW A
          PROVE Times(All(groups) \o All(NoGroups) \o <<>> \o <<>>, A) = Times(All(groups), A)
        <3> DEFINE ag == All(groups)
                   no == All(NoGroups)
                   none == <<>>
        <3>1. ag \in Seq(R) /\ no \in Seq(R) /\ none \in Seq(R)
            BY <1>2, IdleIsEmpty, AllIsSeq
        <3>2. Times(none, A) = 0 /\ Times(no, A) = 0
            BY TimesEmpty, AllOfNone
        <3> HIDE DEF ag, no, none, R
        <3>3. /\ Times(ag \o no \o none \o none, A)
                   = Times(ag, A) + Times(no, A) + Times(none, A) + Times(none, A)
              /\ Times(ag, A) \in Nat
            BY <3>1, TimesOfFour
        <3>4. Times(ag \o no \o none \o none, A) = Times(ag, A)
            BY <3>2, <3>3
        <3> QED
            BY <3>4 DEF ag, no, none
    <2> DEFINE here == All(groups) \o All(NoGroups) \o <<>> \o <<>>
    <2>8. SameRows(table, here)
        <3> HIDE DEF here
        <3>1. \A A : Times(here, A) = Times(All(groups), A)
            BY <2>7 DEF here
        <3> QED
            BY <2>1, <3>1 DEF SameRows
    <2>9. here = All(Unread') \o All(enclave'.buffers) \o enclave'.out \o output_entries'
        BY <1>1, <2>3, <2>5
    <2>10. enclave'.round <= Rounds' /\ Rounds' - enclave'.round = Rounds - 0
        BY <1>4, <2>2, <2>3
    <2>11. table' = table
        BY Steady
    <2> HIDE DEF here
    <2>12. SameRows(table', All(Unread') \o All(enclave'.buffers) \o enclave'.out \o output_entries')
        BY <2>8, <2>9, <2>11
    <2> QED
        BY <2>6, <2>10, <2>12 DEF Rebuilding, SameRows, All
<1> QED
    <2>1. SameRows(table, vector')
        BY <1>1, Steady
    <2> QED
        BY <1>4, <1>5, <1>6, <1>7, <2>1, InvariantKept

(* A group is rearranged. *)
LEMMA GroupRearranged ==
    ASSUME NEW R, NEW f \in [1..K -> Seq(R)], NEW g \in 1..K, NEW t, Rearranged(R, f[g], t),
           NEW h, h = [f EXCEPT ![g] = t]
    PROVE  /\ h \in [1..K -> Seq(R)] /\ SameRows(All(f), All(h))
           /\ h[g] = t /\ \A j \in 1..K \ {g} : h[j] = f[j]
<1>1. /\ h \in [1..K -> Seq(R)] /\ h[g] = t /\ \A j \in 1..K \ {g} : h[j] = f[j]
    BY DEF Rearranged
<1> SUFFICES ASSUME NEW A PROVE Times(All(f), A) = Times(All(h), A)
    BY <1>1 DEF SameRows
<1>2. NoGroups \in [1..K -> Seq(R)] /\ \A j \in 1..K : Times(NoGroups[j], A) = 0
    BY IdleIsEmpty, TimesEmpty
<1>3. \A j \in 1..K : Times(h[j], A) = Times(f[j], A)
    <2>1. Times(t, A) = Times(f[g], A)
        BY DEF Rearranged, SameRows
    <2> QED
        BY <1>1, <2>1
<1>4. \A j \in 1..K : Times(f[j], A) \in Nat
    <2>1. ASSUME NEW z \in Seq(R) PROVE Times(z, A) \in Nat
        BY TimesIsNat
    <2> QED
        BY <2>1
<1>5. Balanced(R, A, h, NoGroups, f, NoGroups, NoGroups)
    BY <1>1, <1>2, <1>3, <1>4 DEF Balanced
<1>6. Times(All(h), A) + Times(All(NoGroups), A)
        = Times(All(f), A) + Times(All(NoGroups), A) + Times(All(NoGroups), A)
    BY <1>5, AllAdds
<1>7. Times(All(h), A) \in Nat /\ Times(All(f), A) \in Nat
    BY <1>1, AllIsSeq
<1> QED
    BY <1>6, <1>7, AllOfNone

(* The activation that shuffles its groups, at the next one of them.       *)
AtNext(rest) ==
    /\ rest \in Seq(Activations) /\ Len(rest) = Len(calls)
    /\ \A x \in 1..Len(calls) : Activation(rest[x], x = 1, FALSE)
    /\ \A x \in 1..(Len(calls) - 1) : rest[x] = calls[x]
    /\ rest[Len(calls)].g = Top.g /\ rest[Len(calls)].n = Top.n
    /\ rest[Len(calls)].step = "groups"

LEMMA NextGroup ==
    ASSUME Working, calls # <<>>, Top.step = "groups", Top.i <= K
    PROVE  Top.i \in 1..K /\ AtNext([calls EXCEPT ![Len(calls)].i = @ + 1])
<1> USE ShuffleAssumption
<1> DEFINE m == Len(calls)
           c == [Top EXCEPT !.i = @ + 1]
           rest == [calls EXCEPT ![m].i = @ + 1]
<1>1. m \in Nat /\ m >= 1 /\ Top = calls[m] /\ Top \in Activations /\ calls \in Seq(Activations)
    BY Steady, TopIsActivation
<1>2. Top.i \in 1..K
    BY <1>1 DEF Activations
<1>3. c \in Activations /\ c.g = Top.g /\ c.n = Top.n /\ c.step = Top.step
    <2> DEFINE i == Top.i + 1
    <2>1. i \in 1..(K + 1) /\ c = [Top EXCEPT !.i = i]
        BY <1>2
    <2> HIDE DEF i, c, rest
    <2> QED
        BY <1>1, <2>1 DEF Activations
<1>4. rest = [calls EXCEPT ![m] = c]
    BY <1>1 DEF Activations
<1>5. \A x \in 1..m : Activation(calls[x], x = 1, x = m)
    BY <1>1, Steady DEF Nested
<1> HIDE DEF c, rest
<1>6. /\ rest \in Seq(Activations) /\ Len(rest) = m /\ rest[m] = c
      /\ \A x \in 1..(m - 1) : rest[x] = calls[x]
    BY <1>1, <1>3, <1>4
<1>7. ASSUME NEW x \in 1..m PROVE Activation(rest[x], x = 1, FALSE)
    <2>1. CASE x = m
        <3>1. Activation(calls[m], m = 1, m = m)
            <4>1. m \in 1..m
                BY <1>1
            <4> QED
                BY <1>5, <4>1
        <3>2. Activation(c, m = 1, FALSE)
            BY <1>1, <1>3, <3>1 DEF Activation
        <3> QED
            BY <1>6, <2>1, <3>2
    <2>2. CASE x # m
        <3>1. rest[x] = calls[x] /\ Activation(calls[x], x = 1, FALSE)
            <4>1. x \in 1..(m - 1) /\ (x = m <=> FALSE)
                BY <1>1, <2>2
            <4>2. Activation(calls[x], x = 1, x = m)
                BY <1>5
            <4> QED
                BY <1>6, <4>1, <4>2 DEF Activation
        <3> QED
            BY <3>1
    <2> QED
        BY <2>1, <2>2
<1>8. rest[m].g = Top.g /\ rest[m].n = Top.n /\ rest[m].step = "groups"
    BY <1>3, <1>6
<1>9. AtNext(rest)
    <2> HIDE DEF m
    <2> QED
        BY <1>6, <1>7, <1>8 DEF AtNext, m
<1> QED
    BY <1>2, <1>9 DEF rest

(* Back in the activation, whose groups are the same or rearranged.        *)
LEMMA GroupDone ==
    ASSUME Working, calls # <<>>, Top.step = "groups", Top.i <= K, AtNext(calls'),
           SameRows(table, vector'), vector' \in Seq(RowsMet),
           groups' = groups
             \/ \E t : Rearranged(RowsMet, groups[Top.i], t) /\ groups' = [groups EXCEPT ![Top.i] = t],
           UNCHANGED <<group_positions, output_entries, current_instance, enclave>>
    PROVE  ShuffleInv'
<1> DEFINE R == RowsMet
           m == Len(calls)
<1>1. m \in Nat /\ m >= 1 /\ Top.i \in 1..K /\ groups \in [1..K -> Seq(R)]
    BY Steady, TopIsActivation, NextGroup
<1>2. /\ calls' \in Seq(Activations) /\ Len(calls') = m
      /\ \A x \in 1..m : Activation(calls'[x], x = 1, FALSE)
      /\ Top'.n = Top.n /\ Top'.step = "groups" /\ Rounds' = Rounds
    BY DEF AtNext, Top, Rounds
<1>3. /\ groups' \in [1..K -> Seq(R)] /\ SameRows(All(groups), All(groups'))
      /\ \A j \in 1..K : Len(groups'[j]) = Len(groups[j])
    <2>1. CASE groups' = groups
        BY <1>1, <2>1 DEF SameRows
    <2>2. CASE groups' # groups
        <3>1. PICK t : Rearranged(R, groups[Top.i], t) /\ groups' = [groups EXCEPT ![Top.i] = t]
            BY <2>2
        <3> DEFINE f == groups
                   h == groups'
                   g == Top.i
        <3>2. f \in [1..K -> Seq(R)] /\ g \in 1..K /\ Rearranged(R, f[g], t) /\ h = [f EXCEPT ![g] = t]
            BY <1>1, <3>1
        <3>3. /\ h \in [1..K -> Seq(R)] /\ SameRows(All(f), All(h))
              /\ h[g] = t /\ \A j \in 1..K \ {g} : h[j] = f[j]
            <4> HIDE DEF f, g, h, R
            <4> QED
                BY ONLY <3>2, GroupRearranged
        <3>4. ASSUME NEW j \in 1..K PROVE Len(h[j]) = Len(f[j])
            <4>1. CASE j = g
                <5>1. Len(t) = Len(f[g])
                    BY <3>2 DEF Rearranged
                <5> QED
                    BY <3>3, <4>1, <5>1
            <4>2. CASE j # g
                BY <3>3, <4>2
            <4> QED
                BY <4>1, <4>2
        <3> QED
            BY <3>3, <3>4
    <2> QED
        BY <2>1, <2>2
<1>4. ShuffleTypes'
    BY <1>2, <1>3, Steady, TypesKept
<1>5. Nested'
    BY <1>2 DEF Nested, Activation
<1>6. Served' /\ Disowned'
    <2>1. Served' /\ Top.step = "groups" /\ enclave = Idle
        BY <1>2, Steady DEF Served
    <2>2. Disowned'
        BY <1>2, <2>1 DEF Disowned
    <2> QED
        BY <2>1, <2>2
<1>7. Whole'
    <2> SUFFICES ASSUME Len(calls) = 1, current_instance PROVE Dealt'
        BY <1>2 DEF Whole
    <2>1. (\A j \in 1..K : Len(groups[j]) = Rounds) /\ SameRows(table, All(groups))
        BY Steady DEF Whole, Dealt
    <2>2. ASSUME NEW j \in 1..K PROVE Len(groups'[j]) = Rounds'
        BY <1>2, <1>3, <2>1
    <2>3. SameRows(table', All(groups'))
        BY <1>3, <2>1, Steady DEF SameRows
    <2> QED
        BY <2>2, <2>3 DEF Dealt, SameRows, All
<1> QED
    BY <1>4, <1>5, <1>6, <1>7, InvariantKept

(* shuffle_large for a group: an activation begins inside another one.     *)
LEMMA NestedCallKeeps ==
    ASSUME Working, calls # <<>>, Top.step = "groups", NEW g \in 1..K, NEW rest, AtNext(rest),
           Len(groups[g]) > MaxBatch, shuffle_large(g, rest)
    PROVE  ShuffleInv'
<1> USE ShuffleAssumption
<1> DEFINE R == RowsMet
           m == Len(calls)
           n == Len(groups[g])
           c == [g |-> g, n |-> n, i |-> 1, step |-> "decompose"]
           junk == [i \in 1..n |-> JUNK]
<1>1. /\ m \in Nat /\ m >= 1 /\ groups \in [1..K -> Seq(R)] /\ n \in Nat /\ JUNK \in R
      /\ rest \in Seq(Activations) /\ Len(rest) = m
      /\ \A x \in 1..m : Activation(rest[x], x = 1, FALSE)
    <2>1. m \in Nat /\ m >= 1
        BY Steady, TopIsActivation
    <2>2. groups \in [1..K -> Seq(R)] /\ JUNK \in R
        BY Steady
    <2>3. n \in Nat
        BY <2>2
    <2> QED
        BY <2>1, <2>2, <2>3 DEF AtNext
<1>2. VectorOf(g) = groups[g] /\ g # 0
    BY DEF VectorOf
<1>3. /\ calls' = Append(rest, c) /\ groups' = NoGroups /\ current_instance' = TRUE
      /\ enclave' = [Idle EXCEPT !.input = junk]
      /\ vector' = vector /\ group_positions' = group_positions
      /\ output_entries' = output_entries
    <2>1. enclave' = [Idle EXCEPT !.input = IF g = 0 THEN vector ELSE [i \in 1..n |-> JUNK]]
        BY <1>2 DEF shuffle_large
    <2>2. enclave' = [Idle EXCEPT !.input = junk]
        BY <1>2, <2>1
    <2>3. calls' = Append(rest, c)
        BY <1>2 DEF shuffle_large
    <2> QED
        BY <2>2, <2>3 DEF shuffle_large
<1>4. junk \in Seq(R) /\ Len(junk) = n
    BY <1>1
<1> HIDE DEF junk
<1>5. /\ enclave' \in Enclaves(R) /\ enclave'.input = junk /\ enclave'.round = 0
    <2>1. enclave' = [input |-> junk, round |-> 0, buffers |-> NoGroups, out |-> <<>>]
        BY <1>3 DEF Idle
    <2>2. NoGroups \in [1..K -> Seq(R)]
        BY IdleIsEmpty
    <2> QED
        BY <1>4, <2>1, <2>2 DEF Enclaves
<1>6. c \in Activations /\ Activation(c, FALSE, TRUE) /\ c.n = n /\ c.step = "decompose"
    BY <1>1 DEF Activations, Activation
<1> HIDE DEF c
<1>7. /\ calls' \in Seq(Activations) /\ Len(calls') = m + 1 /\ calls'[m + 1] = c
      /\ \A x \in 1..m : calls'[x] = rest[x]
    BY <1>1, <1>3, <1>6
<1>8. Top' = c
    BY <1>7 DEF Top
<1>9. Nested'
    <2> SUFFICES ASSUME NEW x \in 1..(m + 1) PROVE Activation(calls'[x], x = 1, x = m + 1)
        BY <1>7 DEF Nested
    <2>1. CASE x = m + 1
        <3>1. ~(x = 1) /\ calls'[x] = c
            BY <1>1, <1>7, <2>1
        <3> QED
            BY <1>6, <2>1, <3>1 DEF Activation
    <2>2. CASE x # m + 1
        <3>1. x \in 1..m
            BY <1>1, <2>2
        <3> QED
            BY <1>1, <1>7, <2>2, <3>1 DEF Activation
    <2> QED
        BY <2>1, <2>2
<1>10. ShuffleTypes'
    <2>1. NoGroups \in [1..K -> Seq(R)]
        BY IdleIsEmpty
    <2> QED
        BY <1>3, <1>5, <1>7, <2>1, Steady, TypesKept
<1>11. Served' /\ Disowned' /\ Whole'
    <2>1. Len(calls') # 1
        BY <1>1, <1>7
    <2>2. Rounds' \in Nat
        <3>1. Rounds' = n \div K
            BY <1>6, <1>8 DEF Rounds
        <3> QED
            BY <1>1, <3>1, Division
    <2>3. 0 <= Rounds'
        BY <2>2
    <2>4. Served'
        BY <1>4, <1>5, <1>6, <1>8, <2>3 DEF Served
    <2> QED
        BY <2>1, <2>4 DEF Disowned, Whole
<1> QED
    <2>1. SameRows(table, vector')
        BY <1>3, Steady
    <2> QED
        BY <1>9, <1>10, <1>11, <2>1, InvariantKept

LEMMA ShuffleGroupKeeps ==
    ASSUME Working, ShuffleGroup
    PROVE  ShuffleInv'
<1> DEFINE g == Top.i
           rest == [calls EXCEPT ![Len(calls)].i = @ + 1]
           n == Len(VectorOf(g))
<1>1. calls # <<>> /\ Top.step = "groups" /\ Top.i <= K /\ recursive_shuffle(g, rest)
    BY DEF ShuffleGroup, Running
<1>2. g \in 1..K /\ AtNext(rest)
    BY <1>1, NextGroup
<1>3. VectorOf(g) = groups[g]
    BY <1>2 DEF VectorOf
<1>4. groups \in [1..K -> Seq(RowsMet)] /\ vector \in Seq(RowsMet) /\ SameRows(table, vector)
    BY Steady
<1> HIDE DEF rest
<1>5. CASE n <= 1
    <2>1. /\ calls' = rest
          /\ UNCHANGED <<vector, groups, group_positions, output_entries, current_instance, enclave>>
        BY <1>1, <1>5 DEF recursive_shuffle
    <2> QED
        BY <1>1, <1>2, <1>4, <2>1, GroupDone
<1>6. CASE n > 1 /\ n <= MaxBatch
    <2>1. n \in Nat /\ ~(n <= 1)
        BY <1>2, <1>3, <1>4, <1>6
    <2>2. shuffle_small(g, rest)
        BY <1>1, <1>6, <2>1 DEF recursive_shuffle
    <2>3. calls' = rest /\ UNCHANGED <<group_positions, output_entries, current_instance, enclave>>
        BY <2>2 DEF shuffle_small
    <2>4. /\ vector' = vector
          /\ groups' = groups
               \/ \E t : Rearranged(RowsMet, groups[g], t) /\ groups' = [groups EXCEPT ![g] = t]
        <3>1. CASE UNCHANGED <<vector, groups>>
            BY <3>1
        <3>2. CASE \E t \in Shuffles(VectorOf(g)) : Assign(g, t)
            <4>1. PICK t \in Shuffles(groups[g]) : Assign(g, t)
                BY <1>3, <3>2
            <4>2. Rearranged(RowsMet, groups[g], t)
                <5>1. groups[g] \in Seq(RowsMet)
                    BY <1>2, <1>4
                <5> QED
                    BY <5>1, <4>1, ShufflesRearrange
            <4> QED
                BY <1>2, <4>1, <4>2 DEF Assign
        <3> QED
            BY <2>2, <3>1, <3>2 DEF shuffle_small
    <2>5. SameRows(table, vector') /\ vector' \in Seq(RowsMet)
        BY <1>4, <2>4
    <2> QED
        BY <1>1, <1>2, <2>3, <2>4, <2>5, GroupDone
<1>7. CASE n > MaxBatch /\ n > 1
    <2>1. n \in Nat /\ ~(n <= 1) /\ ~(n <= MaxBatch)
        BY <1>2, <1>3, <1>4, <1>7, ShuffleAssumption
    <2>2. shuffle_large(g, rest)
        BY <1>1, <2>1 DEF recursive_shuffle
    <2> QED
        BY <1>1, <1>2, <1>3, <1>7, <2>2, NestedCallKeeps
<1> QED
    <2>1. n \in Nat /\ MaxBatch \in Nat
        BY <1>2, <1>3, <1>4, ShuffleAssumption
    <2> QED
        BY <1>5, <1>6, <1>7, <2>1

(* What is read of a group and put out of it.                              *)
Reads(R, u, b, f, v) ==
    /\ u \in Seq(R) /\ b \in Seq(R) /\ f \in Seq(R) /\ v \in Seq(R)
    /\ u = f \o v /\ b \o f # <<>>

OneLess(u, b, f, v) ==
    /\ Len(v) + Len(Tail(b \o f)) = Len(u) + Len(b) - 1
    /\ \A A : Times(u, A) + Times(b, A)
                = Times(v, A) + Times(Tail(b \o f), A) + Times(<<Head(b \o f)>>, A)

LEMMA GroupReads ==
    ASSUME NEW R, NEW u, NEW b, NEW f, NEW v, Reads(R, u, b, f, v)
    PROVE  OneLess(u, b, f, v)
<1> USE DEF Reads, OneLess
<1> DEFINE in == b \o f
           one == <<Head(in)>>
           rest == Tail(in)
<1>1. in \in Seq(R) /\ Len(in) = Len(b) + Len(f) /\ in # <<>> /\ Len(u) = Len(f) + Len(v)
    OBVIOUS
<1>2. Head(in) \in R /\ rest \in Seq(R) /\ Len(rest) = Len(in) - 1 /\ one \in Seq(R) /\ in = one \o rest
    <2> HIDE DEF in
    <2>1. Head(in) \in R /\ rest \in Seq(R) /\ Len(rest) = Len(in) - 1 /\ one \in Seq(R)
        BY <1>1
    <2>2. in = one \o rest
        BY <1>1
    <2> QED
        BY <2>1, <2>2
<1>3. Len(v) + Len(rest) = Len(u) + Len(b) - 1
    BY <1>1, <1>2
<1> SUFFICES ASSUME NEW A
             PROVE  Times(u, A) + Times(b, A) = Times(v, A) + Times(rest, A) + Times(one, A)
    BY <1>2, <1>3
<1> HIDE DEF one, rest
<1>4. /\ Times(in, A) = Times(b, A) + Times(f, A) /\ Times(u, A) = Times(f, A) + Times(v, A)
      /\ Times(in, A) = Times(one, A) + Times(rest, A)
    <2>1. Times(in, A) = Times(b, A) + Times(f, A)
        BY TimesConcat
    <2>2. Times(u, A) = Times(f, A) + Times(v, A)
        BY TimesConcat
    <2>3. Times(one \o rest, A) = Times(one, A) + Times(rest, A)
        BY <1>2, TimesConcat
    <2> QED
        BY <1>2, <2>1, <2>2, <2>3
<1>5. /\ Times(u, A) \in Nat /\ Times(b, A) \in Nat /\ Times(v, A) \in Nat
      /\ Times(rest, A) \in Nat /\ Times(one, A) \in Nat /\ Times(f, A) \in Nat
    <2>1. ASSUME NEW x \in Seq(R) PROVE Times(x, A) \in Nat
        BY TimesIsNat
    <2> QED
        BY <1>2, <2>1
<1> DEFINE nu == Times(u, A)
           nb == Times(b, A)
           nv == Times(v, A)
           nf == Times(f, A)
           nrest == Times(rest, A)
           none == Times(one, A)
<1>6. nb + nf = none + nrest /\ nu = nf + nv
    BY <1>4
<1>7. nu \in Nat /\ nb \in Nat /\ nv \in Nat /\ nf \in Nat /\ nrest \in Nat /\ none \in Nat
    BY <1>5
<1>8. nu + nb = nv + nrest + none
    <2> HIDE DEF nu, nb, nv, nf, nrest, none
    <2> QED
        BY ONLY <1>6, <1>7
<1> QED
    BY <1>8

(* A refill takes the next unread rows of its group.                       *)
LEMMA RefillTakes ==
    ASSUME Working, NEW j \in 1..K
    PROVE  /\ Refill(j) \in Seq(RowsMet) /\ Len(Refill(j)) \in Nat
           /\ group_positions[j] <= Len(groups[j]) =>
                /\ Unread[j] \in Seq(RowsMet)
                /\ group_positions[j] + Len(Refill(j)) <= Len(groups[j])
                /\ LET v == SubSeq(groups[j], (group_positions[j] + Len(Refill(j))) + 1, Len(groups[j]))
                   IN  v \in Seq(RowsMet) /\ Unread[j] = Refill(j) \o v
<1> USE ShuffleAssumption
<1> DEFINE R == RowsMet
           s == groups[j]
           p == group_positions[j]
           e == IF p + ShuffleBuffer < Len(s) THEN p + ShuffleBuffer ELSE Len(s)
           f == Refill(j)
           v == SubSeq(s, (p + Len(f)) + 1, Len(s))
<1>1. s \in Seq(R) /\ p \in Nat /\ Len(s) \in Nat /\ e \in Nat /\ e <= Len(s) /\ (p <= Len(s) => p <= e)
    <2>1. s \in Seq(R) /\ p \in Nat
        BY Steady
    <2> HIDE DEF s, p, R
    <2> QED
        BY <2>1
<1>2. f = <<>> \/ f = SubSeq(s, p + 1, e)
    BY DEF Refill
<1>3. Unread[j] = SubSeq(s, p + 1, Len(s))
    BY DEF Unread
<1> HIDE DEF s, p, e, f, R
<1>4. CASE f = <<>>
    <2>1. f \in Seq(R) /\ Len(f) = 0
        BY <1>4
    <2>2. ASSUME p <= Len(s)
          PROVE  Unread[j] \in Seq(R) /\ v \in Seq(R) /\ Unread[j] = f \o v /\ p + Len(f) <= Len(s)
        <3>1. p + Len(f) = p
            BY <1>1, <2>1
        <3>2. v \in Seq(R) /\ v = Unread[j]
            BY <1>1, <1>3, <2>2, <3>1
        <3>3. ASSUME NEW x \in Seq(R) PROVE <<>> \o x = x
            OBVIOUS
        <3> HIDE DEF v
        <3>4. f \o v = v
            BY <1>4, <3>2, <3>3
        <3> QED
            BY <2>2, <3>1, <3>2, <3>4
    <2> QED
        BY <2>1, <2>2 DEF f, p, s, R
<1>5. CASE f = SubSeq(s, p + 1, e)
    <2>1. f \in Seq(R) /\ Len(f) \in Nat
        <3>1. SubSeq(s, p + 1, e) \in Seq(R)
            BY <1>1
        <3>2. f \in Seq(R)
            BY <1>5, <3>1
        <3> QED
            BY <3>2
    <2>2. ASSUME p <= Len(s)
          PROVE  Unread[j] \in Seq(R) /\ v \in Seq(R) /\ Unread[j] = f \o v /\ p + Len(f) <= Len(s)
        <3> DEFINE c == Len(s)
        <3>1. s \in Seq(R) /\ p \in Nat /\ e \in Nat /\ c \in Nat /\ p <= e /\ e <= c /\ c <= Len(s)
            BY <1>1, <2>2
        <3> HIDE DEF c
        <3>2. /\ SubSeq(s, p + 1, e) \in Seq(R) /\ Len(SubSeq(s, p + 1, e)) = e - p
              /\ SubSeq(s, e + 1, c) \in Seq(R)
              /\ SubSeq(s, p + 1, c) = SubSeq(s, p + 1, e) \o SubSeq(s, e + 1, c)
            BY ONLY <3>1, Parts
        <3>3. p + Len(f) = e
            BY <1>5, <3>1, <3>2
        <3>4. v = SubSeq(s, e + 1, c)
            BY <3>3 DEF c
        <3>5. Unread[j] = f \o v
            BY <1>3, <1>5, <3>2, <3>4 DEF c
        <3>6. f \o v \in Seq(R)
            <4> HIDE DEF v
            <4> QED
                BY <2>1, <3>2, <3>4
        <3> QED
            BY <3>1, <3>2, <3>3, <3>4, <3>5, <3>6 DEF c
    <2> QED
        BY <2>1, <2>2 DEF f, p, s, R
<1> QED
    BY <1>2, <1>4, <1>5

LEMMA ReconstructRoundKeeps ==
    ASSUME Working, ReconstructRound
    PROVE  ShuffleInv'
<1> USE ShuffleAssumption
<1> DEFINE R == RowsMet
           r == enclave.round
           heads == [j \in 1..K |-> Head(Input(j))]
           left == [j \in 1..K |-> Tail(Input(j))]
<1>1. /\ calls # <<>> /\ Top.step = "reconstruct" /\ r < Rounds
      /\ \A j \in 1..K : Input(j) # <<>>
      /\ group_positions' = [j \in 1..K |-> group_positions[j] + Len(Refill(j))]
      /\ vector' = vector /\ calls' = calls /\ groups' = groups
      /\ current_instance' = current_instance
    BY DEF ReconstructRound, Running
<1>2. PICK s \in Shuffles(heads) :
          LET out   == enclave.out \o s
              whole == (Len(out) \div ShuffleBuffer) * ShuffleBuffer
          IN  /\ output_entries' = output_entries \o SubSeq(out, 1, whole)
              /\ enclave' = [input   |-> enclave.input, round |-> enclave.round + 1,
                             buffers |-> left,
                             out     |-> SubSeq(out, whole + 1, Len(out))]
    BY DEF ReconstructRound
<1>3. /\ enclave \in Enclaves(R) /\ r \in Nat /\ enclave.buffers \in [1..K -> Seq(R)]
      /\ enclave.out \in Seq(R) /\ enclave.input \in Seq(R) /\ output_entries \in Seq(R)
      /\ groups \in [1..K -> Seq(R)] /\ group_positions \in [1..K -> Nat]
    BY Steady DEF Enclaves
<1>4. ASSUME NEW j \in 1..K
      PROVE  /\ Refill(j) \in Seq(R) /\ Len(Refill(j)) \in Nat /\ enclave.buffers[j] \in Seq(R)
             /\ Input(j) = enclave.buffers[j] \o Refill(j) /\ Input(j) # <<>>
             /\ Head(Input(j)) \in R /\ Tail(Input(j)) \in Seq(R)
    <2>1. Refill(j) \in Seq(R) /\ Len(Refill(j)) \in Nat /\ enclave.buffers[j] \in Seq(R)
        BY <1>3, RefillTakes
    <2>2. Input(j) = enclave.buffers[j] \o Refill(j) /\ Input(j) # <<>>
        BY <1>1 DEF Input
    <2>3. Input(j) \in Seq(R)
        BY <2>1, <2>2
    <2> QED
        BY <2>1, <2>2, <2>3
<1>5. heads \in Seq(R) /\ Len(heads) = K /\ \A j \in 1..K : heads[j] = Head(Input(j))
    BY <1>4
<1>6. left \in [1..K -> Seq(R)] /\ \A j \in 1..K : left[j] = Tail(Input(j))
    BY <1>4
<1>7. group_positions' \in [1..K -> Nat]
    <2>1. \A j \in 1..K : group_positions[j] + Len(Refill(j)) \in Nat
        <3> SUFFICES ASSUME NEW j \in 1..K PROVE group_positions[j] + Len(Refill(j)) \in Nat
            OBVIOUS
        <3>1. group_positions[j] \in Nat
            BY <1>3
        <3>2. Len(Refill(j)) \in Nat
            BY <1>4
        <3> QED
            BY <3>1, <3>2
    <2> QED
        BY <1>1, <2>1
<1> HIDE DEF heads, left
<1>8. Rearranged(R, heads, s) /\ s \in Seq(R) /\ Len(s) = K
    <2>1. Rearranged(R, heads, s)
        BY <1>5, ShufflesRearrange
    <2> QED
        BY <1>5, <2>1 DEF Rearranged
<1> DEFINE out == enclave.out \o s
           q == Len(out) \div ShuffleBuffer
           w == q * ShuffleBuffer
           given == SubSeq(out, 1, w)
           kept == SubSeq(out, w + 1, Len(out))
<1>9. out \in Seq(R) /\ Len(out) \in Nat
    BY <1>3, <1>8
<1>10. /\ output_entries' = output_entries \o given
       /\ enclave' = [input |-> enclave.input, round |-> r + 1, buffers |-> left, out |-> kept]
    BY <1>2
<1>11. w \in Nat /\ w <= Len(out)
    <2> DEFINE n == Len(out)
               z == ShuffleBuffer
    <2>1. n \in Nat /\ z \in Nat \ {0} /\ q = n \div z
        BY <1>9
    <2> HIDE DEF n, z, q
    <2>2. q \in Nat /\ n % z \in 0..(z - 1) /\ n = z * q + (n % z)
        BY <2>1, Division
    <2>3. z * q = q * z /\ q * z \in Nat /\ n % z >= 0
        BY <2>1, <2>2
    <2>4. q * z \in Nat /\ q * z <= n
        BY <2>1, <2>2, <2>3
    <2> QED
        BY <2>4 DEF n, z
<1> HIDE DEF w, out
<1>12. given \in Seq(R) /\ kept \in Seq(R)
    BY <1>9, <1>11
<1> HIDE DEF given, kept
<1>13. /\ enclave' \in Enclaves(R) /\ enclave'.input = enclave.input /\ enclave'.round = r + 1
       /\ enclave'.buffers = left /\ enclave'.out = kept
    BY <1>3, <1>6, <1>10, <1>12 DEF Enclaves
<1>14. Top' = Top /\ Rounds' = Rounds
    BY <1>1 DEF Top, Rounds
<1>15. ShuffleTypes'
    <2>1. output_entries' \in Seq(R)
        BY <1>3, <1>10, <1>12
    <2> QED
        BY <1>1, <1>7, <1>13, <2>1, Steady, TypesKept
<1>16. Nested'
    <2>1. Nested
        BY Steady
    <2> QED
        BY <1>1, <2>1 DEF Nested
(* Without current_instance nothing is read, and there is no round.        *)
<1>17. Len(calls) = 1 => current_instance
    <2> SUFFICES ASSUME Len(calls) = 1, ~current_instance PROVE FALSE
        OBVIOUS
    <2>1. enclave = Idle
        BY Steady DEF Disowned
    <2>2. 1 \in 1..K /\ enclave.buffers[1] = <<>>
        BY <2>1, IdleIsEmpty
    <2>3. Refill(1) = <<>>
        BY DEF Refill
    <2>4. Input(1) = <<>> \o <<>>
        BY <2>2, <2>3 DEF Input
    <2>5. Input(1) = <<>>
        BY <2>4
    <2> QED
        BY <1>1, <2>2, <2>5
<1>18. Served' /\ Disowned'
    <2>1. Served'
        BY <1>1, <1>14 DEF Served
    <2>2. Disowned'
        BY <1>1, <1>17 DEF Disowned
    <2> QED
        BY <2>1, <2>2
<1>19. Whole'
    <2> SUFFICES ASSUME Len(calls) = 1, current_instance PROVE Rebuilding'
        BY <1>1, <1>14 DEF Whole
    <2>1. Rebuilding
        BY <1>1, Steady DEF Whole
    <2>2. Rounds \in Nat
        <3>1. Top.n % K = 0
            <4>1. /\ Len(calls) \in Nat /\ Top = calls[1] /\ 1 \in 1..Len(calls)
                BY <1>1 DEF Top
            <4>2. Activation(calls[1], TRUE, TRUE)
                BY <4>1, Steady DEF Nested
            <4> QED
                BY <1>1, <4>1, <4>2 DEF Activation
        <3> QED
            BY <1>1, <3>1, WholeRounds
    <2> DEFINE unread == Unread
               after == Unread'
    <2>3. ASSUME NEW j \in 1..K
          PROVE  /\ unread[j] \in Seq(R) /\ after[j] \in Seq(R)
                 /\ group_positions'[j] <= Len(groups'[j])
                 /\ Len(after[j]) + Len(left[j]) = Rounds - (r + 1)
                 /\ \A A : Times(unread[j], A) + Times(enclave.buffers[j], A)
                             = Times(after[j], A) + Times(left[j], A) + Times(<<heads[j]>>, A)
        <3> DEFINE p == group_positions[j]
                   f == Refill(j)
                   b == enclave.buffers[j]
                   u == Unread[j]
                   v == SubSeq(groups[j], (p + Len(f)) + 1, Len(groups[j]))
        <3>1. p <= Len(groups[j]) /\ Len(u) + Len(b) = Rounds - r
            BY <2>1 DEF Rebuilding
        <3>2. /\ f \in Seq(R) /\ u \in Seq(R) /\ v \in Seq(R) /\ u = f \o v /\ p + Len(f) <= Len(groups[j])
            BY <3>1, RefillTakes
        <3>3. group_positions'[j] = p + Len(f) /\ groups'[j] = groups[j]
            BY <1>1
        <3>4. Unread'[j] = v
            <4>1. Unread'[j] = SubSeq(groups'[j], group_positions'[j] + 1, Len(groups'[j]))
                BY DEF Unread
            <4> QED
                BY <3>3, <4>1
        <3>5. b \in Seq(R) /\ b \o f # <<>> /\ Input(j) = b \o f
            BY <1>4
        <3>6. heads[j] = Head(b \o f) /\ left[j] = Tail(b \o f)
            BY <1>5, <1>6, <3>5
        <3> HIDE DEF p, f, b, u, v, R
        <3>7. /\ Len(v) + Len(Tail(b \o f)) = Len(u) + Len(b) - 1
              /\ \A A : Times(u, A) + Times(b, A)
                          = Times(v, A) + Times(Tail(b \o f), A) + Times(<<Head(b \o f)>>, A)
            <4>1. Reads(R, u, b, f, v)
                BY <3>2, <3>5 DEF Reads
            <4>2. OneLess(u, b, f, v)
                BY ONLY <4>1, GroupReads
            <4> QED
                BY <4>2 DEF OneLess
        <3>8. Len(v) + Len(left[j]) = Rounds - (r + 1)
            <4>1. Len(u) \in Nat /\ Len(b) \in Nat /\ r \in Nat
                <5>1. Len(u) \in Nat /\ Len(b) \in Nat
                    BY ONLY <3>2, <3>5
                <5>2. r \in Nat
                    BY <1>3
                <5> QED
                    BY ONLY <5>1, <5>2
            <4>2. Len(v) + Len(left[j]) = Len(u) + Len(b) - 1
                BY <3>6, <3>7
            <4> DEFINE lu == Len(u)
                       lb == Len(b)
                       lv == Len(v) + Len(left[j])
                       q1 == Rounds
            <4>3. lu \in Nat /\ lb \in Nat /\ r \in Nat /\ q1 \in Nat
                BY <2>2, <4>1
            <4>4. lu + lb = q1 - r
                BY <3>1
            <4>5. lv = lu + lb - 1
                BY <4>2
            <4> HIDE DEF lu, lb, lv, q1, r
            <4>6. lv = q1 - (r + 1)
                BY ONLY <4>3, <4>4, <4>5
            <4> QED
                BY <4>6 DEF lv, q1, r
        <3>9. \A A : Times(u, A) + Times(b, A)
                       = Times(v, A) + Times(left[j], A) + Times(<<heads[j]>>, A)
            BY <3>6, <3>7
        <3>10. group_positions'[j] <= Len(groups'[j])
            BY <3>2, <3>3
        <3> QED
            BY <3>2, <3>4, <3>8, <3>9, <3>10 DEF u, b
    <2>4. unread \in [1..K -> Seq(R)] /\ after \in [1..K -> Seq(R)]
        <3>1. \A j \in 1..K : unread[j] \in Seq(R) /\ after[j] \in Seq(R)
            BY <2>3
        <3>2. unread = [j \in 1..K |-> unread[j]] /\ after = [j \in 1..K |-> after[j]]
            BY DEF Unread
        <3> HIDE DEF unread, after, R
        <3> QED
            BY <3>1, <3>2
    <2> DEFINE b == enclave.buffers
               o == enclave.out
               sent == output_entries
               old == All(unread) \o All(b) \o o \o sent
               new == All(after) \o All(left) \o kept \o (sent \o given)
    <2>5. ASSUME NEW A PROVE Times(old, A) = Times(new, A)
        <3>1. Gathers(R, A, heads, s, unread, b, after, left, o, sent, w)
            <4>1. \A j \in 1..K : Times(unread[j], A) + Times(b[j], A)
                                   = Times(after[j], A) + Times(left[j], A) + Times(<<heads[j]>>, A)
                BY <2>3
            <4> HIDE DEF unread, after
            <4> QED
                BY <1>3, <1>5, <1>6, <1>8, <1>11, <2>4, <4>1 DEF Gathers, out
        <3> HIDE DEF R, unread, after, b, o, sent
        <3>2. LET x == o \o s
              IN  Times(All(unread) \o All(b) \o o \o sent, A)
                    = Times(All(after) \o All(left) \o SubSeq(x, w + 1, Len(x))
                              \o (sent \o SubSeq(x, 1, w)), A)
            BY ONLY <3>1, RoundIsGathered
        <3>3. o \o s = out
            BY DEF o, out
        <3> QED
            BY <3>2, <3>3 DEF given, kept
    <2>6. SameRows(table, old)
        BY <2>1 DEF Rebuilding
    <2>7. SameRows(table, new)
        <3> HIDE DEF old, new
        <3> QED
            BY <2>5, <2>6 DEF SameRows
    <2>8. new = All(Unread') \o All(enclave'.buffers) \o enclave'.out \o output_entries'
        BY <1>10, <1>13
    <2>9. table' = table /\ enclave'.round = r + 1 /\ r + 1 <= Rounds
        BY <1>1, <1>3, <1>13, <2>2, Steady
    <2> HIDE DEF new, old
    <2>10. ASSUME NEW j \in 1..K
           PROVE  /\ group_positions'[j] <= Len(groups'[j])
                  /\ Len(Unread'[j]) + Len(enclave'.buffers[j]) = Rounds' - enclave'.round
        BY <1>13, <1>14, <2>3
    <2>11. SameRows(table', All(Unread') \o All(enclave'.buffers) \o enclave'.out \o output_entries')
        BY <2>7, <2>8, <2>9
    <2> QED
        BY <1>14, <2>9, <2>10, <2>11 DEF Rebuilding, SameRows, All
<1> QED
    <2>1. SameRows(table, vector')
        BY <1>1, Steady
    <2> QED
        BY <1>15, <1>16, <1>18, <1>19, <2>1, InvariantKept

LEMMA ReconstructEndKeeps ==
    ASSUME Working, ReconstructEnd
    PROVE  ShuffleInv'
<1> USE ShuffleAssumption
<1> DEFINE R == RowsMet
           n == Top.n
           sent == output_entries
           o == enclave.out
           result == sent \o o
<1>1. /\ calls # <<>> /\ Top.step = "reconstruct" /\ enclave.round = Rounds
      /\ Assign(Top.g, result) /\ output_entries' = <<>> /\ enclave' = Idle
      /\ calls' = Front(calls) /\ current_instance' = FALSE
      /\ group_positions' = group_positions
    BY DEF ReconstructEnd, Running
<1>2. /\ enclave \in Enclaves(R) /\ enclave.buffers \in [1..K -> Seq(R)] /\ o \in Seq(R)
      /\ sent \in Seq(R) /\ groups \in [1..K -> Seq(R)] /\ group_positions \in [1..K -> Nat]
      /\ vector \in Seq(R) /\ SameRows(table, vector)
    BY Steady DEF Enclaves
<1>3. result \in Seq(R)
    <2> HIDE DEF sent, o, R
    <2> QED
        BY <1>2
<1> HIDE DEF result
<1>4. Top \in Activations /\ (Top.g = 0 <=> Len(calls) = 1) /\ n % K = 0
    <2> DEFINE m == Len(calls)
    <2>1. m \in Nat /\ m >= 1 /\ Top = calls[m] /\ Top \in Activations
        BY <1>1, Steady, TopIsActivation
    <2>2. m \in 1..m /\ \A x \in 1..m : Activation(calls[x], x = 1, x = m)
        BY <2>1, Steady DEF Nested
    <2>3. Activation(calls[m], m = 1, m = m)
        BY <2>2
    <2> QED
        BY <1>1, <2>1, <2>3 DEF Activation
<1>5. Rounds \in Nat /\ Rounds >= 1
    BY <1>1, <1>4, WholeRounds
<1>6. calls' \in Seq(Activations) /\ Nested' /\ Served' /\ Disowned' /\ Whole'
    BY <1>1, Steady, Returning
<1>7. vector' \in Seq(R) /\ groups' \in [1..K -> Seq(R)] /\ (vector' = vector \/ (Top.g = 0 /\ vector' = result))
    <2>1. CASE Top.g = 0
        BY <1>1, <1>2, <1>3, <2>1 DEF Assign
    <2>2. CASE Top.g # 0
        <3>1. groups' = [groups EXCEPT ![Top.g] = result] /\ vector' = vector
            BY <1>1, <2>2 DEF Assign
        <3> HIDE DEF R
        <3> QED
            BY <1>2, <1>3, <3>1
    <2> QED
        BY <2>1, <2>2
<1>8. ShuffleTypes'
    <2>1. Idle \in Enclaves(R) /\ <<>> \in Seq(R)
        BY IdleIsEmpty
    <2> QED
        BY <1>1, <1>2, <1>6, <1>7, <2>1, Steady, TypesKept
<1>9. ASSUME Top.g = 0 PROVE SameRows(table, result)
    <2>1. Len(calls) = 1
        BY <1>4, <1>9
    <2>2. current_instance
        <3> SUFFICES ASSUME ~current_instance PROVE FALSE
            OBVIOUS
        <3>1. enclave = Idle
            BY <2>1, Steady DEF Disowned
        <3> QED
            BY <1>1, <1>5, <3>1, IdleIsEmpty
    <2>3. Rebuilding
        BY <1>1, <2>1, <2>2, Steady DEF Whole
    <2> DEFINE u == Unread
               b == enclave.buffers
    <2>4. ASSUME NEW j \in 1..K PROVE u[j] = <<>> /\ b[j] = <<>>
        <3> DEFINE x == u[j]
                   y == b[j]
        <3>1. x \in Seq(R) /\ y \in Seq(R)
            <4>1. group_positions[j] <= Len(groups[j])
                BY <2>3 DEF Rebuilding
            <4> QED
                BY <1>2, <4>1, RefillTakes
        <3>2. Len(x) + Len(y) = 0
            <4>1. Len(Unread[j]) + Len(enclave.buffers[j]) = Rounds - enclave.round
                BY <2>3 DEF Rebuilding
            <4>2. Rounds - enclave.round = 0
                BY <1>1, <1>5
            <4> QED
                BY <4>1, <4>2
        <3> HIDE DEF x, y, R
        <3>3. x = <<>> /\ y = <<>>
            BY ONLY <3>1, <3>2
        <3> QED
            BY <3>3 DEF x, y
    <2>5. u = NoGroups /\ b = NoGroups
        <3>1. u = [j \in 1..K |-> u[j]]
            BY DEF Unread
        <3>2. b = [j \in 1..K |-> b[j]]
            BY <1>2
        <3> HIDE DEF u, b
        <3> QED
            BY <2>4, <3>1, <3>2 DEF NoGroups
    <2>6. SameRows(table, All(NoGroups) \o All(NoGroups) \o o \o sent)
        BY <2>3, <2>5 DEF Rebuilding
    <2>7. ASSUME NEW A
          PROVE Times(All(NoGroups) \o All(NoGroups) \o o \o sent, A) = Times(result, A)
        <3> DEFINE no == All(NoGroups)
        <3>1. no \in Seq(R)
            <4>1. NoGroups \in [1..K -> Seq(R)]
                BY IdleIsEmpty
            <4> QED
                BY <4>1, AllIsSeq
        <3>2. Times(no, A) = 0
            BY AllOfNone
        <3>3. Times(result, A) = Times(sent, A) + Times(o, A)
            BY <1>2, TimesConcat DEF result
        <3> HIDE DEF no, R, o, sent
        <3>4. /\ Times(no \o no \o o \o sent, A)
                   = Times(no, A) + Times(no, A) + Times(o, A) + Times(sent, A)
              /\ Times(o, A) \in Nat /\ Times(sent, A) \in Nat
            BY <1>2, <3>1, TimesOfFour
        <3>5. Times(no \o no \o o \o sent, A) = Times(result, A)
            BY ONLY <3>2, <3>3, <3>4
        <3> QED
            BY <3>5 DEF no, o, sent
    <2> DEFINE here == All(NoGroups) \o All(NoGroups) \o o \o sent
    <2>8. \A A : Times(here, A) = Times(result, A)
        BY <2>7
    <2>9. SameRows(table, here)
        BY <2>6
    <2> HIDE DEF here
    <2> QED
        BY <2>8, <2>9 DEF SameRows
<1>10. SameRows(table, vector')
    BY <1>2, <1>7, <1>9
<1> QED
    BY <1>6, <1>8, <1>10, InvariantKept

-----------------------------------------------------------------------------
(* Powers of two: what doubling reaches from 1. *)

Powers == {x \in Nat : \A S \in SUBSET Nat : 1 \in S /\ (\A y \in S : 2 * y \in S) => x \in S}

LEMMA PowersDouble ==
    1 \in Powers /\ \A y \in Powers : 2 * y \in Powers
BY DEF Powers

LEMMA PowersOnly ==
    ASSUME NEW T, 1 \in T, \A y \in T : y \in Powers => 2 * y \in T
    PROVE  Powers \subseteq T
<1> DEFINE S == T \cap Powers
<1>1. S \in SUBSET Nat
    BY DEF Powers
<1>2. 1 \in S /\ \A y \in S : 2 * y \in S
    BY PowersDouble
<1>3. \A x \in Powers : x \in S
    <2> HIDE DEF S
    <2> QED
        BY <1>1, <1>2 DEF Powers
<1> QED
    BY <1>3

LEMMA PowersBegin ==
    /\ \A x \in Powers : x \in Nat /\ x >= 1
    /\ \A x \in Powers : x = 1 \/ \E y \in Powers : x = 2 * y
<1>1. ASSUME NEW x \in Powers PROVE x \in Nat
    BY DEF Powers
<1> DEFINE T == {x \in Powers : x >= 1 /\ (x = 1 \/ \E y \in Powers : x = 2 * y)}
<1>2. 1 \in T
    BY PowersDouble
<1>3. \A y \in T : y \in Powers => 2 * y \in T
    <2> SUFFICES ASSUME NEW y \in Powers, y >= 1 PROVE 2 * y \in T
        OBVIOUS
    <2>1. 2 * y \in Powers /\ y \in Nat
        BY <1>1, PowersDouble
    <2>2. 2 * y >= 1
        BY <2>1
    <2> QED
        BY <2>1, <2>2
<1>4. Powers \subseteq T
    <2> HIDE DEF T
    <2> QED
        BY <1>2, <1>3, PowersOnly
<1> QED
    BY <1>1, <1>4

LEMMA PowersMultiply ==
    ASSUME NEW a \in Powers, NEW b \in Powers
    PROVE  a * b \in Powers
<1> DEFINE T == {y \in Powers : a * y \in Powers}
<1>1. a \in Nat /\ \A y \in Powers : y \in Nat
    BY PowersBegin
<1>2. 1 \in T
    BY <1>1, PowersDouble
<1>3. \A y \in T : y \in Powers => 2 * y \in T
    <2> SUFFICES ASSUME NEW y \in Powers, a * y \in Powers PROVE 2 * y \in T
        OBVIOUS
    <2>1. a * (2 * y) = 2 * (a * y)
        BY <1>1
    <2> QED
        BY <2>1, PowersDouble
<1>4. Powers \subseteq T
    <2> HIDE DEF T
    <2> QED
        BY <1>2, <1>3, PowersOnly
<1> QED
    BY <1>4

(* Of two powers one is a multiple of the other.                           *)
LEMMA PowersDivide ==
    ASSUME NEW a \in Powers, NEW b \in Powers
    PROVE  \E r \in Powers : a = b * r \/ b = a * r
<1> DEFINE Divides(x) == \E r \in Powers : a = x * r \/ x = a * r
           T == {x \in Powers : Divides(x)}
<1>1. a \in Nat /\ \A y \in Powers : y \in Nat
    BY PowersBegin
<1>2. 1 \in T
    <2>1. a = 1 * a
        BY <1>1
    <2> QED
        BY <2>1, PowersDouble
<1>3. \A y \in T : y \in Powers => 2 * y \in T
    <2> SUFFICES ASSUME NEW y \in Powers, Divides(y) PROVE 2 * y \in T
        OBVIOUS
    <2>1. 2 * y \in Powers /\ y \in Nat
        BY <1>1, PowersDouble
    <2>2. PICK r \in Powers : a = y * r \/ y = a * r
        OBVIOUS
    <2>3. r \in Nat
        BY <1>1
    <2>4. CASE y = a * r
        <3>1. 2 * y = a * (2 * r) /\ 2 * r \in Powers
            BY <1>1, <2>3, <2>4, PowersDouble
        <3> QED
            BY <2>1, <3>1
    <2>5. CASE a = y * r /\ r = 1
        <3>1. 2 * y = a * 2 /\ 2 \in Powers
            <4>1. 2 = 2 * 1
                OBVIOUS
            <4>2. 2 \in Powers
                BY <4>1, PowersDouble
            <4> QED
                BY <2>1, <2>5, <4>2
        <3> QED
            BY <2>1, <3>1
    <2>6. CASE a = y * r /\ r # 1
        <3>1. PICK s \in Powers : r = 2 * s
            BY <2>6, PowersBegin
        <3>2. a = (2 * y) * s
            BY <1>1, <2>1, <2>6, <3>1
        <3> QED
            BY <2>1, <3>2
    <2> QED
        BY <2>2, <2>4, <2>5, <2>6
<1>4. Powers \subseteq T
    <2> HIDE DEF T
    <2> QED
        BY <1>2, <1>3, PowersOnly
<1> QED
    BY <1>4

(* A multiple by a power is no smaller.                                    *)
LEMMA MultiplesAreLarger ==
    ASSUME NEW a \in Nat, NEW r \in Nat, r >= 1
    PROVE  a * r \in Nat /\ a <= a * r
<1>1. a * 1 <= a * r /\ a * r \in Nat
    BY TimesGrow
<1> QED
    BY <1>1

-----------------------------------------------------------------------------
(* The loops of the sizes. *)

Doubled(n, p) == IF p < n THEN p * 2 ELSE p

Lessened(t) == IF t[1] <= MaxBatch THEN t ELSE <<(t[1] + K - 1) \div K, t[2] * K>>

Quotient(m) == IF m > MaxBatch /\ m % K = 0 THEN m \div K ELSE m

(* The values that a loop of n turns goes through.                         *)
PowerRun(f, n) == f[0] = 1 /\ \A i \in 1..n : f[i] = Doubled(n, f[i - 1])

DividedRun(f, n) == f[0] = <<n, 1>> /\ \A i \in 1..n : f[i] = Lessened(f[i - 1])

ReducedRun(f, n) == f[0] = n /\ \A i \in 1..n : f[i] = Quotient(f[i - 1])

LEMMA PowerRuns ==
    ASSUME NEW n \in Nat
    PROVE  \E f : PowerRun(f, n) /\ next_power_of_two(n) = f[n]
<1> DEFINE g == [i \in 1..n |-> [p \in Nat |-> Doubled(n, p)]]
           IsPower(f) == f = [i \in 0..n |-> IF i = 0 THEN 1 ELSE Doubled(n, f[i - 1])]
           power == CHOOSE f : IsPower(f)
           one == 1
<1>1. next_power_of_two(n) = power[n]
    BY DEF next_power_of_two, Doubled
<1>2. \A p \in Nat : Doubled(n, p) \in Nat
    BY DEF Doubled
<1>3. \E f : IsPower(f)
    <2>1. \A i \in 1..n : \A p \in Nat : g[i][p] \in Nat
        BY <1>2
    <2>2. PICK f : Follows(f, n, one, g, Nat)
        <3>1. one \in Nat
            OBVIOUS
        <3> HIDE DEF g, one
        <3> QED
            BY <2>1, <3>1, Recursion
    <2>3. /\ f = [i \in 0..n |-> IF i = 0 THEN one ELSE g[i][f[i - 1]]]
          /\ \A i \in 1..n : f[i - 1] \in Nat
        <3> HIDE DEF g, one
        <3> QED
            BY <2>2 DEF Follows, Recurs
    <2>4. \A i \in 0..n : i # 0 => i \in 1..n
        OBVIOUS
    <2>5. \A i \in 0..n : i # 0 => g[i][f[i - 1]] = Doubled(n, f[i - 1])
        BY <2>3, <2>4
    <2>6. IsPower(f)
        <3> HIDE DEF g
        <3> QED
            BY <2>3, <2>5
    <2> QED
        BY <2>6
<1>4. IsPower(power)
    BY <1>3
<1> HIDE DEF power
<1>5. PowerRun(power, n)
    <2>1. 0 \in 0..n /\ \A i \in 1..n : i \in 0..n /\ i # 0
        OBVIOUS
    <2> QED
        BY <1>4, <2>1 DEF PowerRun
<1> QED
    BY <1>1, <1>5

LEMMA DividedRuns ==
    ASSUME NEW n \in Nat
    PROVE  \E f : DividedRun(f, n) /\ Divided(n) = f[n]
<1> DEFINE P == Nat \X Nat
           g == [i \in 1..n |-> [t \in P |-> Lessened(t)]]
           IsDivided(f) == f = [i \in 0..n |-> IF i = 0 THEN <<n, 1>> ELSE Lessened(f[i - 1])]
           d == CHOOSE f : IsDivided(f)
           whole == <<n, 1>>
<1>1. Divided(n) = d[n]
    BY DEF Divided, Lessened
<1>2. ASSUME NEW t \in P PROVE Lessened(t) \in P
    <2>1. t[1] + K - 1 \in Nat /\ t[2] * K \in Nat
        BY ShuffleAssumption
    <2>2. (t[1] + K - 1) \div K \in Nat
        BY ShuffleAssumption, <2>1, Division
    <2> QED
        BY <2>1, <2>2 DEF Lessened
<1>3. \E f : IsDivided(f)
    <2>1. \A i \in 1..n : \A t \in P : g[i][t] \in P
        <3> HIDE DEF P
        <3> QED
            BY <1>2
    <2>2. PICK f : Follows(f, n, whole, g, P)
        <3>1. whole \in P
            OBVIOUS
        <3> HIDE DEF g, whole, P
        <3> QED
            BY <2>1, <3>1, Recursion
    <2>3. /\ f = [i \in 0..n |-> IF i = 0 THEN whole ELSE g[i][f[i - 1]]]
          /\ \A i \in 1..n : f[i - 1] \in P
        <3> HIDE DEF g, whole, P
        <3> QED
            BY <2>2 DEF Follows, Recurs
    <2>4. \A i \in 0..n : i # 0 => i \in 1..n
        OBVIOUS
    <2>5. \A i \in 0..n : i # 0 => g[i][f[i - 1]] = Lessened(f[i - 1])
        <3> HIDE DEF P
        <3> QED
            BY <2>3, <2>4
    <2>6. IsDivided(f)
        <3> HIDE DEF g
        <3> QED
            BY <2>3, <2>5
    <2> QED
        BY <2>6
<1>4. IsDivided(d)
    BY <1>3
<1> HIDE DEF d
<1>5. DividedRun(d, n)
    <2>1. 0 \in 0..n /\ \A i \in 1..n : i \in 0..n /\ i # 0
        OBVIOUS
    <2> QED
        BY <1>4, <2>1 DEF DividedRun
<1> QED
    BY <1>1, <1>5

LEMMA ReducedRuns ==
    ASSUME NEW n \in Nat
    PROVE  \E f : ReducedRun(f, n) /\ Reduced(n) = f[n]
<1> DEFINE g == [i \in 1..n |-> [m \in Nat |-> Quotient(m)]]
           IsReduced(f) == f = [i \in 0..n |-> IF i = 0 THEN n ELSE Quotient(f[i - 1])]
           r == CHOOSE f : IsReduced(f)
<1>1. Reduced(n) = r[n]
    BY DEF Reduced, Quotient
<1>2. \A m \in Nat : Quotient(m) \in Nat
    BY ShuffleAssumption, Division DEF Quotient
<1>3. \E f : IsReduced(f)
    <2>1. \A i \in 1..n : \A m \in Nat : g[i][m] \in Nat
        BY <1>2
    <2>2. PICK f : Follows(f, n, n, g, Nat)
        <3> HIDE DEF g
        <3> QED
            BY <2>1, Recursion
    <2>3. /\ f = [i \in 0..n |-> IF i = 0 THEN n ELSE g[i][f[i - 1]]]
          /\ \A i \in 1..n : f[i - 1] \in Nat
        <3> HIDE DEF g
        <3> QED
            BY <2>2 DEF Follows, Recurs
    <2>4. \A i \in 0..n : i # 0 => i \in 1..n
        OBVIOUS
    <2>5. \A i \in 0..n : i # 0 => g[i][f[i - 1]] = Quotient(f[i - 1])
        BY <2>3, <2>4
    <2>6. IsReduced(f)
        <3> HIDE DEF g
        <3> QED
            BY <2>3, <2>5
    <2> QED
        BY <2>6
<1>4. IsReduced(r)
    BY <1>3
<1> HIDE DEF r
<1>5. ReducedRun(r, n)
    <2>1. 0 \in 0..n /\ \A i \in 1..n : i \in 0..n /\ i # 0
        OBVIOUS
    <2> QED
        BY <1>4, <2>1 DEF ReducedRun
<1> QED
    BY <1>1, <1>5

(* The next power of two is one, and is not below the number.              *)
LEMMA NextPower ==
    ASSUME NEW n \in Nat
    PROVE  /\ next_power_of_two(n) \in Powers /\ next_power_of_two(n) >= n
           /\ n \in Powers => next_power_of_two(n) = n
<1>1. PICK f : PowerRun(f, n) /\ next_power_of_two(n) = f[n]
    BY PowerRuns
<1> DEFINE Divides(p) == n \in Powers => \E r \in Powers : n = p * r
           Reaches(p, i) == p >= n \/ p >= i + 1
           SS == [i \in 0..n |-> {p \in Powers : Divides(p) /\ Reaches(p, i)}]
<1>2. f[0] \in SS[0]
    <2>1. f[0] = 1 /\ 1 \in Powers
        BY <1>1, PowersDouble DEF PowerRun
    <2>2. Divides(1)
        <3>1. n = 1 * n
            OBVIOUS
        <3> QED
            BY <3>1
    <2>3. Reaches(1, 0) /\ 0 \in 0..n
        OBVIOUS
    <2> HIDE DEF Divides, Reaches
    <2> QED
        BY <2>1, <2>2, <2>3
<1>3. ASSUME NEW i \in 1..n, NEW p \in Powers, Divides(p), Reaches(p, i - 1)
      PROVE  Doubled(n, p) \in Powers /\ Divides(Doubled(n, p)) /\ Reaches(Doubled(n, p), i)
    <2>1. p \in Nat /\ p >= 1 /\ p * 2 = 2 * p /\ p * 2 \in Powers
        BY PowersBegin, PowersDouble
    <2>2. CASE p < n
        <3>1. Reaches(p * 2, i)
            BY <1>3, <2>1, <2>2
        <3>2. Divides(p * 2)
            <4> SUFFICES ASSUME n \in Powers PROVE \E r \in Powers : n = (p * 2) * r
                OBVIOUS
            <4>1. PICK r \in Powers : n = p * r
                BY <1>3
            <4>2. r # 1
                BY <2>1, <2>2, <4>1
            <4>3. PICK s \in Powers : r = 2 * s
                BY <4>2, PowersBegin
            <4>4. s \in Nat
                BY PowersBegin
            <4>5. n = (p * 2) * s
                BY <2>1, <4>1, <4>3, <4>4
            <4> QED
                BY <4>5
        <3> QED
            BY <2>1, <2>2, <3>1, <3>2 DEF Doubled
    <2>3. CASE ~(p < n)
        <3>1. Reaches(p, i)
            BY <2>1, <2>3
        <3>2. Doubled(n, p) = p
            BY <2>3 DEF Doubled
        <3> QED
            BY <1>3, <3>1, <3>2
    <2> QED
        BY <2>2, <2>3
<1>4. \A i \in 1..n : f[i - 1] \in SS[i - 1] => f[i] \in SS[i]
    <2> SUFFICES ASSUME NEW i \in 1..n, f[i - 1] \in SS[i - 1] PROVE f[i] \in SS[i]
        OBVIOUS
    <2>1. i \in 0..n /\ i - 1 \in 0..n /\ f[i] = Doubled(n, f[i - 1])
        BY <1>1 DEF PowerRun
    <2> HIDE DEF Divides, Reaches
    <2> QED
        BY <1>3, <2>1
<1>5. f[n] \in SS[n]
    <2> HIDE DEF SS
    <2>1. \A i \in 0..n : f[i] \in SS[i]
        BY <1>2, <1>4, StaysIn
    <2> QED
        BY <2>1
<1>6. f[n] \in Powers /\ Divides(f[n]) /\ Reaches(f[n], n)
    <2> HIDE DEF Divides, Reaches
    <2> QED
        BY <1>5
<1>7. f[n] \in Nat /\ f[n] >= n
    BY <1>6, PowersBegin
<1>8. ASSUME n \in Powers PROVE f[n] = n
    <2>1. PICK r \in Powers : n = f[n] * r
        BY <1>6, <1>8
    <2>2. r \in Nat /\ r >= 1
        BY PowersBegin
    <2>3. f[n] <= f[n] * r
        <3> DEFINE p == f[n]
        <3> HIDE DEF p
        <3>1. p \in Nat => p <= p * r
            BY <2>2, MultiplesAreLarger
        <3> QED
            BY <1>7, <3>1 DEF p
    <2> QED
        BY <1>7, <2>1, <2>3
<1> QED
    BY <1>1, <1>6, <1>7, <1>8

LEMMA BranchingIsPower == K \in Powers
BY SizesAssumption, ShuffleAssumption, NextPower DEF IsPowerOfTwo

(* Dividing with rounding up loses nothing.                                *)
LEMMA DividedCovers ==
    ASSUME NEW n \in Nat
    PROVE  /\ Divided(n)[1] \in Nat /\ Divided(n)[2] \in Powers
           /\ Divided(n)[1] * Divided(n)[2] >= n
<1> USE ShuffleAssumption
<1>1. PICK f : DividedRun(f, n) /\ Divided(n) = f[n]
    BY DividedRuns
<1> DEFINE Covers(t) == t[1] * t[2] >= n
           S == {t \in Nat \X Powers : Covers(t)}
           SS == [i \in 0..n |-> S]
<1>2. <<n, 1>> \in S
    BY PowersDouble
<1>3. ASSUME NEW t \in S PROVE Lessened(t) \in S
    <2>1. CASE t[1] <= MaxBatch
        BY <2>1 DEF Lessened
    <2>2. CASE ~(t[1] <= MaxBatch)
        <3> DEFINE a == t[1]
                   b == t[2]
                   q == (a + K - 1) \div K
        <3>1. a \in Nat /\ b \in Powers /\ b \in Nat /\ a * b >= n
            BY PowersBegin
        <3> HIDE DEF a, b
        <3>2. q \in Nat /\ q * K >= a
            <4> DEFINE c == a + K - 1
            <4>1. c \in Nat
                BY <3>1
            <4> HIDE DEF c
            <4>2. c \div K \in Nat /\ c % K \in 0..(K - 1) /\ c = K * (c \div K) + (c % K)
                BY <4>1, Division
            <4> DEFINE d == c \div K
                       e == c % K
            <4> HIDE DEF d, e
            <4>3. d \in Nat /\ e \in 0..(K - 1) /\ c = K * d + e /\ c = a + K - 1
                BY <4>2 DEF c, d, e
            <4>4. K * d = d * K /\ K * d \in Nat
                BY <4>3
            <4>5. d * K >= a
                BY <3>1, <4>3, <4>4
            <4> QED
                BY <4>3, <4>5 DEF c, d
        <3> HIDE DEF q
        <3>3. q * (b * K) >= n
            <4>1. b * a <= b * (q * K)
                BY <3>1, <3>2, TimesGrow
            <4>2. b * a = a * b /\ b * (q * K) = q * (b * K)
                BY <3>1, <3>2
            <4>3. a * b \in Nat /\ q * (b * K) \in Nat
                BY <3>1, <3>2
            <4> QED
                BY <3>1, <4>1, <4>2, <4>3
        <3>4. b * K \in Powers
            BY <3>1, BranchingIsPower, PowersMultiply
        <3>5. Lessened(t) = <<q, b * K>>
            BY <2>2 DEF Lessened, a, b, q
        <3> QED
            BY <3>2, <3>3, <3>4, <3>5
    <2> QED
        BY <2>1, <2>2
<1>4. f[n] \in S
    <2>1. f[0] \in SS[0] /\ \A i \in 1..n : f[i - 1] \in SS[i - 1] => f[i] \in SS[i]
        <3>1. 0 \in 0..n /\ \A i \in 1..n : i \in 0..n /\ i - 1 \in 0..n
            OBVIOUS
        <3> HIDE DEF S
        <3> QED
            BY <1>1, <1>2, <1>3, <3>1 DEF DividedRun
    <2>2. \A i \in 0..n : f[i] \in SS[i]
        <3> HIDE DEF SS
        <3> QED
            BY <2>1, StaysIn
    <2> QED
        BY <2>2
<1> QED
    BY <1>1, <1>4

LEMMA PaddedIsPower ==
    ASSUME NEW n \in Nat
    PROVE  calculate_shuffle_padding(n) \in Powers /\ calculate_shuffle_padding(n) >= n
<1> DEFINE a == Divided(n)[1]
           b == Divided(n)[2]
           p == next_power_of_two(a)
           m == p * b
<1>1. a \in Nat /\ b \in Powers /\ a * b >= n
    BY DividedCovers
<1> HIDE DEF a, b
<1>2. p \in Powers /\ p >= a
    BY <1>1, NextPower
<1> HIDE DEF p
<1>3. p \in Nat /\ b \in Nat
    BY <1>1, <1>2, PowersBegin
<1>4. m \in Powers /\ m \in Nat
    BY <1>1, <1>2, <1>3, PowersMultiply
<1>5. m >= n
    <2>1. b * a <= b * p
        BY <1>1, <1>2, <1>3, TimesGrow
    <2>2. b * a = a * b /\ b * p = p * b /\ a * b \in Nat /\ b * p \in Nat
        BY <1>1, <1>3
    <2> QED
        BY <1>1, <2>1, <2>2
<1> HIDE DEF m
<1>6. calculate_shuffle_padding(n)
        = IF n <= MaxBatch THEN next_power_of_two(n) ELSE IF m < n THEN 2 * m ELSE m
    BY DEF calculate_shuffle_padding, a, b, p, m
<1>7. next_power_of_two(n) \in Powers /\ next_power_of_two(n) >= n
    BY NextPower
<1>8. ~(m < n)
    BY <1>4, <1>5
<1> QED
    BY <1>4, <1>5, <1>6, <1>7, <1>8

LEMMA PaddedIsNat ==
    ASSUME NEW n \in Nat
    PROVE  calculate_shuffle_padding(n) \in Nat
BY PaddedIsPower, PowersBegin

(* The shuffle takes every power of two: divided by K while it can, it     *)
(* comes below the threshold before it comes below K.                      *)
LEMMA PowersAreValid ==
    ASSUME NEW m \in Powers
    PROVE  is_valid_shuffle_size(m)
<1> USE ShuffleAssumption
<1>1. m \in Nat /\ m >= 1
    BY PowersBegin
<1>2. PICK f : ReducedRun(f, m) /\ Reduced(m) = f[m]
    BY <1>1, ReducedRuns
<1> DEFINE Comes(x, i) == x <= MaxBatch \/ x + i <= m
           SS == [i \in 0..m |-> {x \in Powers : Comes(x, i)}]
<1>3. f[0] \in SS[0]
    <2>1. f[0] = m /\ Comes(m, 0) /\ 0 \in 0..m
        BY <1>1, <1>2 DEF ReducedRun
    <2> HIDE DEF Comes
    <2> QED
        BY <2>1
<1>4. ASSUME NEW i \in 1..m, NEW x \in Powers, Comes(x, i - 1)
      PROVE  Quotient(x) \in Powers /\ Comes(Quotient(x), i)
    <2>1. x \in Nat /\ x >= 1 /\ K \in Powers
        BY PowersBegin, BranchingIsPower
    <2>2. CASE x <= MaxBatch
        BY <2>1, <2>2 DEF Quotient
    <2>3. CASE x > MaxBatch
        <3>1. PICK r \in Powers : x = K * r \/ K = x * r
            BY <2>1, PowersDivide
        <3>2. r \in Nat /\ r >= 1
            BY PowersBegin
        <3>3. \E s \in Powers : x = K * s
            <4>1. CASE x = K * r
                BY <4>1
            <4>2. CASE K = x * r /\ r = 1
                <5>1. x = K * 1
                    BY <2>1, <4>2
                <5> QED
                    BY <5>1, PowersDouble
            <4>3. CASE K = x * r /\ r # 1
                <5>1. PICK s \in Powers : r = 2 * s
                    BY <4>3, PowersBegin
                <5>2. s \in Nat /\ s >= 1
                    BY PowersBegin
                <5>3. x <= x * s /\ x * s \in Nat
                    BY <2>1, <5>2, MultiplesAreLarger
                <5>4. K = 2 * (x * s)
                    BY <2>1, <4>3, <5>1, <5>2
                <5>5. K <= 2 * MaxBatch
                    BY SizesAssumption
                <5>6. x <= MaxBatch
                    <6> DEFINE y == x * s
                    <6> HIDE DEF y
                    <6>1. y \in Nat /\ x <= y /\ K = 2 * y
                        BY <5>3, <5>4 DEF y
                    <6> QED
                        BY <2>1, <5>5, <6>1
                <5> QED
                    BY <2>1, <2>3, <5>6
            <4> QED
                BY <3>1, <4>1, <4>2, <4>3
        <3>4. PICK s \in Powers : x = K * s
            BY <3>3
        <3>5. s \in Nat /\ s >= 1
            BY PowersBegin
        <3>6. x % K = 0 /\ x \div K = s
            <4> DEFINE d == x \div K
                       e == x % K
            <4>1. d \in Nat /\ e \in 0..(K - 1) /\ x = K * d + e
                BY <2>1, Division
            <4> HIDE DEF d, e
            <4>2. e = K * (s - d)
                BY <3>4, <3>5, <4>1
            <4>3. ~(s > d)
                <5> SUFFICES ASSUME s > d PROVE FALSE
                    OBVIOUS
                <5>1. K * 1 <= K * (s - d)
                    <6>1. s - d \in Nat /\ 1 <= s - d
                        BY <3>5, <4>1
                    <6> QED
                        BY <6>1, TimesGrow
                <5> QED
                    BY <4>1, <4>2, <5>1
            <4>4. ~(s < d)
                <5> SUFFICES ASSUME s < d PROVE FALSE
                    OBVIOUS
                <5>1. K * 1 <= K * (d - s)
                    <6>1. d - s \in Nat /\ 1 <= d - s
                        BY <3>5, <4>1
                    <6> QED
                        BY <6>1, TimesGrow
                <5>2. K * (d - s) = 0 - K * (s - d)
                    BY <3>5, <4>1
                <5> QED
                    BY <4>1, <4>2, <5>1, <5>2
            <4>5. s = d /\ e = 0
                BY <3>5, <4>1, <4>2, <4>3, <4>4
            <4> QED
                BY <4>5 DEF d, e
        <3>7. Quotient(x) = s
            BY <2>3, <3>6 DEF Quotient
        <3>8. s + 1 <= x
            <4>1. s * 2 <= s * K
                BY <3>5, TimesGrow
            <4>2. s * K = x
                BY <3>4, <3>5
            <4> QED
                BY <2>1, <3>5, <4>1, <4>2
        <3>9. x + (i - 1) <= m
            BY <1>4, <2>1, <2>3
        <3>10. s + i <= m
            BY <1>1, <2>1, <3>5, <3>8, <3>9
        <3> QED
            BY <3>7, <3>10
    <2> QED
        BY <2>1, <2>2, <2>3
<1>5. \A i \in 1..m : f[i - 1] \in SS[i - 1] => f[i] \in SS[i]
    <2> SUFFICES ASSUME NEW i \in 1..m, f[i - 1] \in SS[i - 1] PROVE f[i] \in SS[i]
        OBVIOUS
    <2>1. i \in 0..m /\ i - 1 \in 0..m /\ f[i] = Quotient(f[i - 1])
        BY <1>1, <1>2 DEF ReducedRun
    <2> HIDE DEF Comes
    <2> QED
        BY <1>4, <2>1
<1>6. f[m] \in Powers /\ Comes(f[m], m)
    <2>1. \A i \in 0..m : f[i] \in SS[i]
        <3> HIDE DEF SS
        <3> QED
            BY <1>1, <1>3, <1>5, StaysIn
    <2>2. m \in 0..m
        BY <1>1
    <2> HIDE DEF Comes
    <2> QED
        BY <2>1, <2>2
<1>7. f[m] \in Nat /\ f[m] >= 1
    BY <1>6, PowersBegin
<1>8. f[m] <= MaxBatch
    BY <1>1, <1>6, <1>7
<1>9. next_power_of_two(f[m]) = f[m]
    <2> DEFINE x == f[m]
    <2> HIDE DEF x
    <2>1. x \in Nat /\ x \in Powers => next_power_of_two(x) = x
        BY NextPower
    <2> QED
        BY <1>6, <1>7, <2>1 DEF x
<1> QED
    BY <1>2, <1>8, <1>9 DEF is_valid_shuffle_size, IsPowerOfTwo

-----------------------------------------------------------------------------
(* The steps around the shuffle. *)

LEMMA InvariantBegins ==
    ASSUME Init
    PROVE  ShuffleInv
<1>1. PICK in \in Inputs : table = in.rows
    BY DEF Init
<1>2. /\ rows = table /\ pc = "pad" /\ vector = <<>> /\ calls = <<>> /\ groups = NoGroups
      /\ group_positions = [j \in 1..K |-> 0] /\ output_entries = <<>>
      /\ current_instance = FALSE /\ enclave = Idle
    BY DEF Init, ShuffleInit
<1>3. table \in Seq(RowsMet)
    <2>1. table \in Seq(ToSet(table))
        BY <1>1, InputsAssumption
    <2>2. ToSet(table) \subseteq RowsMet
        BY <1>2 DEF RowsMet
    <2> HIDE DEF RowsMet
    <2> QED
        BY <2>1, <2>2
<1>4. Len(calls) = 0
    BY <1>2
<1>5. Idle \in Enclaves(RowsMet) /\ NoGroups \in [1..K -> Seq(RowsMet)] /\ <<>> \in Seq(RowsMet)
    <2>1. Idle \in Enclaves(RowsMet) /\ NoGroups \in [1..K -> Seq(RowsMet)]
        BY IdleIsEmpty
    <2> QED
        BY <2>1
<1>6. ShuffleTypes
    <2>1. calls \in Seq(Activations) /\ group_positions \in [1..K -> Nat]
        BY <1>2
    <2> QED
        BY <1>2, <1>3, <1>5, <2>1 DEF ShuffleTypes, Enclaves
<1>7. Nested /\ Served /\ Disowned
    BY <1>2, <1>4 DEF Nested, Served, Disowned
<1> QED
    BY <1>2, <1>6, <1>7 DEF ShuffleInv

(* Steps that leave the shuffle alone, and do not begin it.                *)
LEMMA QuietKeeps ==
    ASSUME ShuffleInv, UNCHANGED shuffleVars, rows' = rows,
           pc' \in {"shuffle", "shuffling"} => pc' = pc /\ table' = table,
           pc' # "done" => table' \in Seq(RowsMet)
    PROVE  ShuffleInv'
<1>1. /\ vector' = vector /\ calls' = calls /\ groups' = groups
      /\ group_positions' = group_positions /\ output_entries' = output_entries
      /\ current_instance' = current_instance /\ enclave' = enclave /\ rows' = rows
    BY DEF shuffleVars
<1>2. RowsMet' = RowsMet /\ Top' = Top /\ Rounds' = Rounds
    BY <1>1 DEF RowsMet, Top, Rounds
<1>3. ShuffleTypes'
    BY <1>1, <1>2 DEF ShuffleInv, ShuffleTypes
<1>4. Nested' /\ Served' /\ Disowned'
    <2>1. Nested /\ Served /\ Disowned
        BY DEF ShuffleInv
    <2> QED
        BY <1>1, <1>2, <2>1 DEF Nested, Served, Disowned
<1>5. ASSUME pc' \in {"shuffle", "shuffling"} PROVE SameRows(table, vector)'
    BY <1>1, <1>5 DEF ShuffleInv, SameRows
<1>6. ASSUME pc' = "shuffling" PROVE Whole'
    <2>1. Whole /\ table' = table
        BY <1>6 DEF ShuffleInv
    <2> QED
        BY <1>1, <1>2, <2>1 DEF Whole, Dealing, Dealt, Rebuilding, Unread, All, SameRows
<1> QED
    BY <1>3, <1>4, <1>5, <1>6 DEF ShuffleInv

LEMMA PadKeeps ==
    ASSUME ShuffleInv, Pad
    PROVE  ShuffleInv'
<1> DEFINE missing == calculate_shuffle_padding(Len(table)) - Len(table)
           padding == [j \in 1..missing |-> PaddingRow]
           R == RowsMet
<1>1. pc = "pad" /\ table \in Seq(R) /\ ShuffleTypes /\ Nested /\ Served /\ Disowned
    BY DEF ShuffleInv, ShuffleTypes, Pad
<1>2. padding \in Seq(R)
    <2>1. Len(table) \in Nat
        BY <1>1
    <2>2. calculate_shuffle_padding(Len(table)) \in Nat
        <3> DEFINE n == Len(table)
        <3> HIDE DEF n
        <3>1. n \in Nat
            BY <2>1 DEF n
        <3>2. calculate_shuffle_padding(n) \in Nat
            BY <3>1, PaddedIsNat
        <3> QED
            BY <3>2 DEF n
    <2>3. missing \in Int
        BY <2>1, <2>2
    <2>4. PaddingRow \in R
        BY DEF RowsMet
    <2> HIDE DEF missing, R
    <2> QED
        BY ONLY <2>3, <2>4
<1>3. /\ calls' = calls /\ groups' = groups /\ group_positions' = group_positions
      /\ output_entries' = output_entries /\ current_instance' = current_instance
      /\ enclave' = enclave /\ rows' = rows
    BY DEF Pad
<1>4. RowsMet' = RowsMet /\ Top' = Top /\ Rounds' = Rounds
    BY <1>3 DEF RowsMet, Top, Rounds
<1>5. Nested' /\ Served' /\ Disowned'
    BY <1>1, <1>3, <1>4 DEF Nested, Served, Disowned
<1>6. \/ pc' = "thrown" /\ table' = table /\ vector' = vector
      \/ table' = table \o padding /\ vector' = table' /\ pc' \in {"shuffle", "runs"}
    <2> HIDE DEF padding
    <2> QED
        BY DEF Pad, padding
<1>7. table' \in Seq(R) /\ vector' \in Seq(R)
    <2>1. table \o padding \in Seq(R) /\ vector \in Seq(R)
        <3> HIDE DEF padding, R
        <3> QED
            BY <1>1, <1>2 DEF ShuffleTypes, R
    <2> QED
        BY <1>1, <1>6, <2>1
<1>8. ShuffleTypes'
    BY <1>1, <1>3, <1>4, <1>7 DEF ShuffleTypes
<1>9. pc' # "shuffling" /\ (pc' = "shuffle" => vector' = table')
    BY <1>6
<1> QED
    BY <1>5, <1>8, <1>9 DEF ShuffleInv, SameRows

(* shuffle() is called.                                                    *)
LEMMA ShuffleBegins ==
    ASSUME ShuffleInv, Shuffle
    PROVE  ShuffleInv'
<1> USE ShuffleAssumption
<1> DEFINE R == RowsMet
           n == Len(vector)
           c == [g |-> 0, n |-> n, i |-> 1, step |-> "decompose"]
<1>1. /\ pc = "shuffle" /\ pc' = "shuffling" /\ recursive_shuffle(0, <<>>)
      /\ table' = table /\ rows' = rows
    BY DEF Shuffle
<1>2. /\ ShuffleTypes /\ SameRows(table, vector) /\ vector \in Seq(R) /\ table \in Seq(R)
      /\ n \in Nat
    <2>1. ShuffleTypes /\ SameRows(table, vector)
        BY <1>1 DEF ShuffleInv
    <2>2. vector \in Seq(R) /\ table \in Seq(R)
        BY <1>1, <2>1 DEF ShuffleTypes
    <2> QED
        BY <2>1, <2>2
<1>3. VectorOf(0) = vector
    BY DEF VectorOf
<1>4. RowsMet' = RowsMet
    BY <1>1 DEF RowsMet
<1>5. ASSUME calls' = <<>>, vector' \in Seq(R), SameRows(table, vector'),
             groups' \in [1..K -> Seq(R)],
             UNCHANGED <<group_positions, output_entries, current_instance, enclave>>
      PROVE  ShuffleInv'
    <2>1. ShuffleTypes'
        <3>1. calls' \in Seq(Activations)
            BY <1>5
        <3> QED
            BY <1>1, <1>2, <1>4, <1>5, <3>1 DEF ShuffleTypes
    <2>2. Len(calls') = 0
        BY <1>5
    <2>3. Nested' /\ Served' /\ Disowned' /\ Whole'
        BY <1>5, <2>2 DEF Nested, Served, Disowned, Whole
    <2>4. SameRows(table, vector)'
        BY <1>1, <1>5 DEF SameRows
    <2> QED
        BY <2>1, <2>3, <2>4 DEF ShuffleInv
<1>6. groups \in [1..K -> Seq(R)]
    BY <1>2 DEF ShuffleTypes
<1>7. CASE n <= 1
    <2>1. calls' = <<>> /\ UNCHANGED <<vector, groups, group_positions, output_entries,
                                       current_instance, enclave>>
        BY <1>1, <1>3, <1>7 DEF recursive_shuffle
    <2> QED
        BY <1>2, <1>5, <1>6, <2>1
<1>8. CASE n > 1 /\ n <= MaxBatch
    <2>1. shuffle_small(0, <<>>)
        BY <1>1, <1>2, <1>3, <1>8 DEF recursive_shuffle
    <2>2. calls' = <<>> /\ UNCHANGED <<group_positions, output_entries, current_instance, enclave>>
        BY <2>1 DEF shuffle_small
    <2>3. /\ groups' = groups
          /\ vector' = vector \/ \E t \in Shuffles(vector) : vector' = t
        BY <1>3, <2>1 DEF shuffle_small, Assign
    <2>4. vector' \in Seq(R) /\ SameRows(table, vector')
        <3>1. ASSUME NEW t \in Shuffles(vector) PROVE t \in Seq(R) /\ SameRows(table, t)
            <4>1. Rearranged(R, vector, t)
                BY <1>2, ShufflesRearrange
            <4> QED
                BY <1>2, <4>1 DEF Rearranged, SameRows
        <3> QED
            BY <1>2, <2>3, <3>1
    <2> QED
        BY <1>5, <1>6, <2>2, <2>3, <2>4
<1>9. CASE n > 1 /\ n > MaxBatch
    <2>1. shuffle_large(0, <<>>)
        BY <1>1, <1>2, <1>3, <1>9 DEF recursive_shuffle
    <2>2. /\ calls' = <<c>> /\ groups' = NoGroups /\ current_instance' = TRUE
          /\ enclave' = [Idle EXCEPT !.input = vector]
          /\ vector' = vector /\ group_positions' = group_positions
          /\ output_entries' = output_entries
        <3>1. enclave' = [Idle EXCEPT !.input = vector]
            BY <1>3, <2>1 DEF shuffle_large
        <3>2. calls' = Append(<<>>, c)
            BY <1>3, <2>1 DEF shuffle_large
        <3>3. Append(<<>>, c) = <<c>>
            OBVIOUS
        <3> QED
            BY <2>1, <3>1, <3>2, <3>3 DEF shuffle_large
    <2>3. enclave' = [input |-> vector, round |-> 0, buffers |-> NoGroups, out |-> <<>>]
        BY <2>2 DEF Idle
    <2>4. /\ enclave'.input = vector /\ enclave'.round = 0 /\ enclave'.buffers = NoGroups
          /\ NoGroups \in [1..K -> Seq(R)] /\ \A j \in 1..K : NoGroups[j] = <<>>
          /\ enclave' \in Enclaves(R)
        BY <1>2, <2>3, IdleIsEmpty DEF Enclaves
    <2>5. /\ c \in Activations /\ Activation(c, TRUE, TRUE)
          /\ c.n = n /\ c.step = "decompose"
        BY <1>2, <1>9 DEF Activations, Activation
    <2> HIDE DEF c
    <2>6. /\ calls' \in Seq(Activations) /\ Len(calls') = 1 /\ calls'[1] = c
        BY <2>2, <2>5
    <2>7. Top' = c
        BY <2>6 DEF Top
    <2>8. ShuffleTypes'
        BY <1>1, <1>2, <1>4, <2>2, <2>4, <2>6 DEF ShuffleTypes, Enclaves
    <2>9. Nested'
        <3> SUFFICES ASSUME NEW x \in 1..1 PROVE Activation(calls'[x], x = 1, x = 1)
            BY <2>6 DEF Nested
        <3>1. x = 1
            OBVIOUS
        <3> QED
            BY <2>5, <2>6, <3>1 DEF Activation
    <2>10. Served'
        <3>1. Rounds' = n \div K
            BY <2>5, <2>7 DEF Rounds
        <3>2. Rounds' \in Nat
            BY <1>2, <3>1, Division
        <3> QED
            BY <2>4, <2>5, <2>7, <3>2 DEF Served
    <2>11. Disowned'
        BY <2>2 DEF Disowned
    <2>12. Whole'
        <3> SUFFICES Dealing'
            BY <2>5, <2>7 DEF Whole
        <3>1. \A j \in 1..K : Len(groups'[j]) + Len(enclave'.buffers[j]) = enclave'.round
            <4>1. \A j \in 1..K : groups'[j] = <<>> /\ enclave'.buffers[j] = <<>>
                BY <2>2, <2>4
            <4> QED
                BY <2>4, <4>1
        <3> DEFINE here == SubSeq(vector, 0 * K + 1, n) \o All(NoGroups) \o All(NoGroups)
        <3>2. SubSeq(vector, 0 * K + 1, n) = vector
            <4>1. 0 * K + 1 = 1
                OBVIOUS
            <4> QED
                BY <1>2, <4>1
        <3>3. ASSUME NEW A PROVE Times(here, A) = Times(vector, A)
            <4> DEFINE no == All(NoGroups)
            <4>1. no \in Seq(R)
                BY <2>4, AllIsSeq
            <4>2. Times(no, A) = 0
                BY AllOfNone
            <4> HIDE DEF R
            <4>3. \A x \in Seq(R) : Times(x \o no, A) = Times(x, A) /\ x \o no \in Seq(R)
                <5> SUFFICES ASSUME NEW x \in Seq(R)
                             PROVE  Times(x \o no, A) = Times(x, A) /\ x \o no \in Seq(R)
                    OBVIOUS
                <5> HIDE DEF no
                <5>1. Times(x \o no, A) = Times(x, A) + Times(no, A)
                    BY <4>1, TimesConcat
                <5>2. Times(x, A) \in Nat
                    BY TimesIsNat
                <5>3. x \o no \in Seq(R)
                    BY <4>1
                <5> QED
                    BY <4>2, <5>1, <5>2, <5>3
            <4>4. here = (vector \o no) \o no
                BY <3>2
            <4> HIDE DEF here, no
            <4>5. vector \o no \in Seq(R) /\ Times(vector \o no, A) = Times(vector, A)
                BY <1>2, <4>3
            <4>6. Times((vector \o no) \o no, A) = Times(vector \o no, A)
                BY <4>3, <4>5
            <4> QED
                BY ONLY <4>4, <4>5, <4>6
        <3>4. SameRows(table, here)
            <4> HIDE DEF here
            <4> QED
                BY <1>2, <3>3 DEF SameRows
        <3>5. here = SubSeq(vector', enclave'.round * K + 1, Top'.n)
                     \o All(groups') \o All(enclave'.buffers)
            BY <2>2, <2>4, <2>5, <2>7
        <3> HIDE DEF here
        <3> QED
            BY <1>1, <2>2, <2>4, <3>1, <3>4, <3>5 DEF Dealing, SameRows
    <2>13. SameRows(table, vector)'
        BY <1>1, <1>2, <2>2 DEF SameRows
    <2> QED
        BY <2>8, <2>9, <2>10, <2>11, <2>12, <2>13 DEF ShuffleInv
<1> QED
    BY <1>2, <1>7, <1>8, <1>9

-----------------------------------------------------------------------------
(* The invariant of the call, and what the run checks.                     *)

LEMMA StepKeeps ==
    ASSUME ShuffleInv, [Next]_vars
    PROVE  ShuffleInv'
<1> USE DEF ShuffleInv
<1>1. pc # "done" => table \in Seq(RowsMet)
    BY DEF ShuffleTypes
<1>2. ASSUME UNCHANGED shuffleVars, rows' = rows, pc' = pc, table' = table PROVE ShuffleInv'
    <2>1. RowsMet' = RowsMet
        BY <1>2 DEF RowsMet
    <2> HIDE DEF ShuffleInv
    <2> QED
        BY <1>1, <1>2, <2>1, QuietKeeps
<1>3. ASSUME UNCHANGED shuffleVars, rows' = rows, table' = table, pc' \in {"done", "merge"},
             pc # "done"
      PROVE  ShuffleInv'
    <2> HIDE DEF ShuffleInv
    <2> QED
        BY <1>1, <1>3, QuietKeeps
<1> HIDE DEF ShuffleInv
<1>4. CASE Pad
    BY <1>4, PadKeeps
<1>5. CASE NothingToSort
    BY <1>3, <1>5 DEF NothingToSort
<1>6. CASE Shuffle
    BY <1>6, ShuffleBegins
<1>7. CASE Shuffling
    <2>1. Working
        BY <1>7 DEF Shuffling, Working
    <2>2. CASE DecomposeRound
        BY <2>1, <2>2, DecomposeRoundKeeps
    <2>3. CASE DecomposeEnd
        BY <2>1, <2>3, DecomposeEndKeeps
    <2>4. CASE DecomposeFails \/ ReconstructFails
        BY <2>1, <2>4, FailsKeeps
    <2>5. CASE ShuffleGroup
        BY <2>1, <2>5, ShuffleGroupKeeps
    <2>6. CASE ReconstructStart
        BY <2>1, <2>6, ReconstructStartKeeps
    <2>7. CASE ReconstructRound
        BY <2>1, <2>7, ReconstructRoundKeeps
    <2>8. CASE ReconstructEnd
        BY <2>1, <2>8, ReconstructEndKeeps
    <2> QED
        BY <1>7, <2>2, <2>3, <2>4, <2>5, <2>6, <2>7, <2>8 DEF Shuffling, ShuffleStep
<1>8. CASE ShuffleEnd
    <2>1. vector \in Seq(RowsMet)
        BY DEF ShuffleInv, ShuffleTypes
    <2> QED
        BY <1>8, <2>1, QuietKeeps DEF ShuffleEnd
<1>9. CASE CreateRun
    BY <1>2, <1>9 DEF CreateRun
<1>10. CASE RunsCreated
    BY <1>3, <1>10 DEF RunsCreated
<1>11. CASE MergeGroup \/ MergeStep \/ MergeStepFails \/ MergeLost \/ MergeComplete
    BY <1>2, <1>11 DEF MergeGroup, MergeStep, MergeStepFails, MergeLost, MergeComplete
<1>12. CASE NextIteration
    BY <1>2, <1>12 DEF NextIteration
<1>13. CASE Finish
    BY <1>13, QuietKeeps DEF Finish
<1>14. CASE EnclaveLost
    BY <1>2, <1>14 DEF EnclaveLost, sortVars
<1>15. CASE Ended \/ UNCHANGED vars
    BY <1>2, <1>15 DEF Ended, vars, sortVars
<1> QED
    BY <1>4, <1>5, <1>6, <1>7, <1>8, <1>9, <1>10, <1>11, <1>12, <1>13, <1>14, <1>15
       DEF Next, Advance

(* At every moment of the call the activations of the shuffle are nested   *)
(* as its recursion makes them, the enclave serves the innermost one, and  *)
(* the rows of the outermost are where its phase has them.                 *)
THEOREM ShuffleInvariant == Spec => []ShuffleInv
<1>1. Init => ShuffleInv
    BY InvariantBegins
<1>2. ShuffleInv /\ [Next]_vars => ShuffleInv'
    BY StepKeeps
<1> QED
    BY <1>1, <1>2, PTL DEF Spec

(* What the invariant says of the rows, in bags.                           *)
LEMMA RowsAreSomewhere ==
    ASSUME ShuffleInv
    PROVE  ShuffleKeepsRows
<1> USE ShuffleAssumption
<1> DEFINE R == RowsMet
<1> SUFFICES ASSUME pc = "shuffling" PROVE EveryRowIsSomewhere(table)
    BY DEF ShuffleKeepsRows
<1>1. ShuffleTypes /\ Nested /\ Served /\ Whole /\ SameRows(table, vector)
    BY DEF ShuffleInv
<1>2. /\ table \in Seq(R) /\ vector \in Seq(R) /\ calls \in Seq(Activations)
      /\ groups \in [1..K -> Seq(R)] /\ group_positions \in [1..K -> Nat]
      /\ output_entries \in Seq(R) /\ enclave.round \in Nat
      /\ enclave.buffers \in [1..K -> Seq(R)] /\ enclave.out \in Seq(R)
    BY <1>1 DEF ShuffleTypes
<1>3. RowBag(vector) = RowBag(table)
    BY <1>1, <1>2, SameBag
<1>4. ASSUME Len(calls) = 1, current_instance
      PROVE  RowBag(table) = RowBag(
            CASE Top.step = "decompose" ->
                    SubSeq(enclave.input, enclave.round * K + 1, Top.n)
                    \o All(groups) \o All(enclave.buffers)
              [] Top.step = "groups" -> All(groups)
              [] Top.step = "reconstruct" ->
                    All(Unread) \o All(enclave.buffers) \o enclave.out \o output_entries)
    <2> DEFINE ag == All(groups)
               ab == All(enclave.buffers)
               au == All(Unread)
               left == SubSeq(enclave.input, enclave.round * K + 1, Top.n)
    <2>1. Top \in Activations /\ calls # <<>>
        <3>1. calls # <<>>
            <4>1. ASSUME calls = <<>> PROVE Len(calls) = 0
                BY <4>1
            <4> QED
                BY <1>4, <4>1
        <3> QED
            BY <1>1, <3>1, TopIsActivation
    <2>2. ag \in Seq(R) /\ ab \in Seq(R)
        BY <1>2, AllIsSeq
    <2>3. CASE Top.step = "decompose"
        <3>1. SameRows(table, left \o ag \o ab)
            BY <1>1, <1>4, <2>3 DEF Whole, Dealing
        <3>2. left \in Seq(R)
            <4> DEFINE a == enclave.round * K
                       n == Top.n
            <4>1. a \in Nat /\ n = Len(vector) /\ enclave.input = vector
                <5>1. enclave.input = vector
                    BY <1>1, <1>4, <2>3 DEF Whole, Dealing
                <5>2. Len(enclave.input) = n
                    BY <1>1, <2>1, <2>3 DEF Served
                <5> QED
                    BY <1>2, <5>1, <5>2
            <4> HIDE DEF a, n
            <4>2. SubSeq(vector, a + 1, n) \in Seq(R)
                <5> HIDE DEF R
                <5> QED
                    BY <1>2, <4>1
            <4> QED
                BY <4>1, <4>2 DEF a, n
        <3>3. left \o ag \o ab \in Seq(R)
            <4> HIDE DEF left, ag, ab, R
            <4> QED
                BY <2>2, <3>2
        <3> HIDE DEF left, ag, ab
        <3>4. RowBag(table) = RowBag(left \o ag \o ab)
            BY <1>2, <3>1, <3>3, SameBag
        <3> QED
            BY <2>3, <3>4 DEF left, ag, ab
    <2>4. CASE Top.step = "groups"
        <3>1. SameRows(table, ag)
            BY <1>1, <1>4, <2>4 DEF Whole, Dealt
        <3> HIDE DEF ag
        <3>2. RowBag(table) = RowBag(ag)
            BY <1>2, <2>2, <3>1, SameBag
        <3> QED
            BY <2>4, <3>2 DEF ag
    <2>5. CASE Top.step = "reconstruct"
        <3>1. SameRows(table, au \o ab \o enclave.out \o output_entries)
            BY <1>1, <1>4, <2>5 DEF Whole, Rebuilding
        <3>2. au \in Seq(R)
            <4>1. ASSUME NEW j \in 1..K
                  PROVE  SubSeq(groups[j], group_positions[j] + 1, Len(groups[j])) \in Seq(R)
                <5> DEFINE x == groups[j]
                           p == group_positions[j]
                <5>1. x \in Seq(R) /\ p \in Nat
                    BY <1>2
                <5> HIDE DEF x, p, R
                <5>2. SubSeq(x, p + 1, Len(x)) \in Seq(R)
                    BY <5>1
                <5> QED
                    BY <5>2 DEF x, p
            <4>2. Unread \in [1..K -> Seq(R)]
                BY <4>1 DEF Unread
            <4> QED
                BY <4>2, AllIsSeq
        <3>3. au \o ab \o enclave.out \o output_entries \in Seq(R)
            <4> HIDE DEF au, ab, R
            <4> QED
                BY <1>2, <2>2, <3>2
        <3> HIDE DEF au, ab
        <3>4. RowBag(table) = RowBag(au \o ab \o enclave.out \o output_entries)
            BY <1>2, <3>1, <3>3, SameBag
        <3> QED
            BY <2>5, <3>4 DEF au, ab
    <2>6. Top.step \in {"decompose", "groups", "reconstruct"}
        BY <2>1 DEF Activations
    <2> HIDE DEF ag, ab, au, left
    <2> QED
        BY <2>3, <2>4, <2>5, <2>6
<1> QED
    BY <1>3, <1>4 DEF EveryRowIsSomewhere

(* Whatever fails, the shuffle ends with the rows that it was given, and   *)
(* at every round each of them is in one place.                            *)
THEOREM ShuffleKeepsAll == Spec => []ShuffleKeepsRows
<1>1. ShuffleInv => ShuffleKeepsRows
    BY RowsAreSomewhere
<1> QED
    BY <1>1, ShuffleInvariant, PTL

-----------------------------------------------------------------------------
(* The padding. *)

(* A padded table has a power of two of rows, and none is cut off.         *)
PaddingInv ==
    /\ pc = "pad" => table = rows
    /\ pc \in {"shuffle", "shuffling", "runs", "merge"} =>
          Len(table) \in Powers /\ Len(table) >= Len(rows)

LEMMA PadReaches ==
    ASSUME ShuffleInv, PaddingInv, Pad
    PROVE  PaddingInv'
<1> DEFINE n == Len(table)
           padded == calculate_shuffle_padding(n)
           missing == padded - n
           padding == [j \in 1..missing |-> PaddingRow]
<1>1. pc = "pad" /\ table = rows /\ rows' = rows /\ table \in Seq(RowsMet) /\ n \in Nat
    <2>1. pc = "pad" /\ table = rows /\ rows' = rows
        BY DEF Pad, PaddingInv
    <2>2. table \in Seq(RowsMet)
        BY <2>1 DEF ShuffleInv, ShuffleTypes
    <2> QED
        BY <2>1, <2>2
<1>2. padded \in Powers /\ padded >= n /\ padded \in Nat
    <2> HIDE DEF n
    <2> QED
        BY <1>1, PaddedIsPower, PowersBegin
<1>3. \/ pc' = "thrown"
      \/ table' = table \o padding /\ pc' \in {"shuffle", "runs"}
    <2> HIDE DEF padding
    <2> QED
        BY DEF Pad, padding
<1>4. Len(table \o padding) = padded
    <2> HIDE DEF padded
    <2>1. missing \in Nat /\ n + missing = padded
        BY <1>1, <1>2
    <2> HIDE DEF missing
    <2>2. padding \in Seq({PaddingRow}) /\ Len(padding) = missing
        BY <2>1
    <2> HIDE DEF padding
    <2>3. Len(table \o padding) = Len(table) + Len(padding)
        BY <1>1, <2>2
    <2> QED
        BY <2>1, <2>2, <2>3
<1>5. CASE pc' = "thrown"
    BY <1>5 DEF PaddingInv
<1>6. CASE table' = table \o padding /\ pc' \in {"shuffle", "runs"}
    <2>1. Len(table') = padded
        BY <1>4, <1>6
    <2> HIDE DEF padded
    <2>2. Len(table') \in Powers /\ Len(table') >= Len(rows')
        BY <1>1, <1>2, <2>1
    <2>3. pc' # "pad"
        BY <1>6
    <2> QED
        BY <2>2, <2>3 DEF PaddingInv
<1> QED
    BY <1>3, <1>5, <1>6

LEMMA PaddingKept ==
    ASSUME ShuffleInv, PaddingInv, [Next]_vars
    PROVE  PaddingInv'
<1>1. ASSUME pc' = pc \/ (pc = "shuffle" /\ pc' = "shuffling") \/ (pc = "runs" /\ pc' = "merge")
                \/ pc' = "done",
             table' = table \/ pc' = "done", rows' = rows
      PROVE  PaddingInv'
    BY <1>1 DEF PaddingInv
<1>2. CASE Pad
    BY <1>2, PadReaches
<1>3. CASE NothingToSort
    BY <1>1, <1>3 DEF NothingToSort
<1>4. CASE Shuffle
    BY <1>1, <1>4 DEF Shuffle
<1>5. CASE Shuffling
    BY <1>1, <1>5 DEF Shuffling, sortVars
<1>6. CASE ShuffleEnd
    <2>1. pc = "shuffling" /\ pc' = "runs" /\ table' = vector /\ rows' = rows
        BY <1>6 DEF ShuffleEnd
    <2>2. table \in Seq(RowsMet) /\ vector \in Seq(RowsMet) /\ SameRows(table, vector)
        BY <2>1 DEF ShuffleInv, ShuffleTypes
    <2>3. Len(table) = Len(vector)
        BY <2>2, SameLength
    <2> QED
        BY <2>1, <2>3 DEF PaddingInv
<1>7. CASE CreateRun
    BY <1>1, <1>7 DEF CreateRun
<1>8. CASE RunsCreated
    BY <1>1, <1>8 DEF RunsCreated
<1>9. CASE MergeGroup \/ MergeStep \/ MergeStepFails \/ MergeLost \/ MergeComplete
    BY <1>1, <1>9 DEF MergeGroup, MergeStep, MergeStepFails, MergeLost, MergeComplete
<1>10. CASE NextIteration
    BY <1>1, <1>10 DEF NextIteration
<1>11. CASE Finish
    BY <1>1, <1>11 DEF Finish
<1>12. CASE EnclaveLost
    BY <1>1, <1>12 DEF EnclaveLost, sortVars
<1>13. CASE Ended \/ UNCHANGED vars
    BY <1>1, <1>13 DEF Ended, vars, sortVars
<1> QED
    BY <1>2, <1>3, <1>4, <1>5, <1>6, <1>7, <1>8, <1>9, <1>10, <1>11, <1>12, <1>13
       DEF Next, Advance

(* Every table is padded to a size that the shuffle accepts, so none is    *)
(* sorted without having been given to it, and no row is cut off.          *)
THEOREM EveryTableIsShuffled == Spec => []PaddedSizeIsAccepted
<1>1. Init => ShuffleInv /\ PaddingInv
    <2>1. Init => PaddingInv
        BY DEF Init, PaddingInv
    <2> QED
        BY <2>1, InvariantBegins
<1>2. ShuffleInv /\ PaddingInv /\ [Next]_vars => ShuffleInv' /\ PaddingInv'
    BY StepKeeps, PaddingKept
<1>3. PaddingInv => PaddedSizeIsAccepted
    <2> SUFFICES ASSUME PaddingInv, pc \in {"shuffle", "shuffling", "runs", "merge"}
                 PROVE  Len(table) >= Len(rows) /\ is_valid_shuffle_size(Len(table))
        BY DEF PaddedSizeIsAccepted
    <2> DEFINE n == Len(table)
    <2>1. n \in Powers /\ n >= Len(rows)
        BY DEF PaddingInv
    <2> HIDE DEF n
    <2>2. is_valid_shuffle_size(n)
        BY <2>1, PowersAreValid
    <2> QED
        BY <2>1, <2>2 DEF n
<1> QED
    BY <1>1, <1>2, <1>3, PTL DEF Spec

=============================================================================
