--------------------------- MODULE AksDistribute ----------------------------
(***************************************************************************)
(* aks_distribute_large: rows that lie at the front of an array, ordered   *)
(* by dst_idx, are routed to the slots dst_idx names.  The array stays in  *)
(* the host's memory; the enclave scans and swaps it chunk by chunk and    *)
(* handles a part of at most AKS_BUFFER rows in its own memory.  The       *)
(* recursion of the code is the stack of calls that are still to run.      *)
(* Array indices count from 0 as in the code; slot i is entries[i + 1].    *)
(***************************************************************************)
EXTENDS BatchOps, FiniteSets

CONSTANT AKS_BUFFER

ASSUME AksBufferAssumption == AKS_BUFFER \in Nat /\ AKS_BUFFER >= 2 /\ AKS_BUFFER % 2 = 0

VARIABLES entries,      \* the host's flat array
          stack         \* pending calls, the one to run first at the head

(* How many of the first n rows go below temp. *)
Count(buf, n, temp) == Cardinality({i \in 1..n : buf[i].dst_idx < temp})

(* p after each turn of a loop that doubles it, from 1.                    *)
Doublings(turns) ==
    LET p[e \in 0..turns] == IF e = 0 THEN 1 ELSE 2 * p[e - 1]
    IN  p

(* The loop runs while p < n; what it ends with is halved.                 *)
aks_pow2_lt(n) ==
    LET p    == Doublings(n)
        last == CHOOSE e \in 0..n : p[e] >= n /\ \A d \in 0..(e - 1) : p[d] < n
    IN  p[last] \div 2

Xor(a, b) == a # b

(* Swap slots from + i and from + i + gap of buf for the i in chosen.      *)
SwapPairs(buf, from, gap, chosen) ==
    LET moved(j) == IF j - 1 - from \in chosen THEN j + gap
                    ELSE IF j - 1 - from - gap \in chosen THEN j - gap ELSE j
    IN  [j \in DOMAIN buf |-> buf[moved(j)]]

(* Does a block of n rows, of which m2 go to its left half, swap pair i,   *)
(* when its contents are rotated by offset?                                *)
SwapsPair(offset, m2, temp2, i) ==
    LET cond0 == offset < temp2
        cond1 == (offset % temp2) + m2 < temp2
        ii    == (offset + m2) % temp2
    IN  Xor(Xor(cond0, cond1), ii <= i)

-----------------------------------------------------------------------------
(* In the enclave's own buffer: the routing of n rows, a function of the   *)
(* rows and of the arguments that the calls carry.  The two calls that a   *)
(* call makes work on parts of its own that do not meet.                   *)

EntryRows == [original_index : Int, final_mult : Int, dst_idx : Int,
              field_type : {SOURCE, DIST_PADDING}, is_encrypted : BOOLEAN]

(* One call of distribute_2power, given what the calls that it makes do.   *)
Halving(n, half) ==
    [buf \in Seq(EntryRows) |-> [index_start_cur \in Nat |-> [offset \in Nat |->
        LET temp2 == n \div 2
            m2    == Count(buf, n, index_start_cur + temp2)
            split == SwapPairs(buf, 0, temp2,
                         {i \in 0..(temp2 - 1) : SwapsPair(offset, m2, temp2, i)})
            left  == half[SubSeq(split, 1, temp2)][index_start_cur][offset % temp2]
            right == half[SubSeq(split, temp2 + 1, n)][index_start_cur + temp2][(offset + m2) % temp2]
        IN  CASE n <= 1 -> buf
              [] n = 2  -> SwapPairs(buf, 0, 1, IF m2 = offset THEN {0} ELSE {})
              [] n > 2  -> left \o right]]]

distribute_2power(size) ==
    LET route[n \in 0..size] == Halving(n, route[n \div 2])
    IN  route[size]

(* One call of distribute_inner, likewise. *)
Parting(n, inner) ==
    [buf \in Seq(EntryRows) |-> [index_start_cur \in Nat |->
        LET n1    == aks_pow2_lt(n)
            n2    == n - n1
            m2    == Count(buf, n2, index_start_cur + n2)
            split == SwapPairs(buf, 0, n1, m2..(n2 - 1))
            left  == inner[SubSeq(split, 1, n2)][index_start_cur]
            right == distribute_2power(n1)[SubSeq(split, n2 + 1, n)][index_start_cur + n2][(n1 - n2 + m2) % n1]
            wrong == \/ buf[1].field_type # DIST_PADDING /\ index_start_cur < buf[1].dst_idx
                     \/ buf[2].field_type # DIST_PADDING /\ buf[2].dst_idx < index_start_cur + 1
        IN  CASE n <= 1 -> buf
              [] n = 2  -> SwapPairs(buf, 0, 1, IF wrong THEN {0} ELSE {})
              [] n > 2  -> left \o right]]

distribute_inner(size) ==
    LET route[n \in 0..size] == Parting(n, route[n - aks_pow2_lt(n)])
    IN  route[size]

-----------------------------------------------------------------------------
(* A call on the n slots from offset on.  kind tells the two functions     *)
(* apart, ofs is the rotation that aks_distribute_2power_large is given,   *)
(* and phase, chunk and m2 are the call's progress.                        *)
Call(kind, offset, index_start, ofs, n) ==
    [kind |-> kind, offset |-> offset, index_start |-> index_start, ofs |-> ofs, n |-> n,
     phase |-> "scan", chunk |-> 0, m2 |-> 0]

(* The call c, so much further. *)
Advanced(c, phase, chunk, m2) ==
    [kind |-> c.kind, offset |-> c.offset, index_start |-> c.index_start, ofs |-> c.ofs, n |-> c.n,
     phase |-> phase, chunk |-> chunk, m2 |-> m2]

(* Slots between the rows of a pair, number of pairs, rows scanned.        *)
Gap(c)      == IF c.kind = "inner" THEN aks_pow2_lt(c.n) ELSE c.n \div 2
Pairs(c)    == c.n - Gap(c)
Scanned(c)  == IF c.kind = "inner" THEN Pairs(c) ELSE c.n
Boundary(c) == c.index_start + Pairs(c)

Least(a, b) == IF a < b THEN a ELSE b

(* Rows of the array as the enclave reads them: decrypted; as it writes    *)
(* them back: encrypted, whatever they were.                               *)
Encrypted(e) == WithFlag(e, TRUE)

AksReturn ==
    /\ stack # <<>> /\ Head(stack).n <= 1
    /\ stack' = Tail(stack)
    /\ UNCHANGED entries

(* The call's rows in the enclave's buffer, padding behind all of them,    *)
(* and as routed there.                                                    *)
Fetched(c) ==
    [i \in 1..c.n |->
        LET e == Decrypted(entries[c.offset + i])
        IN  IF e.field_type = DIST_PADDING THEN WithDestination(e, c.index_start + c.n) ELSE e]

Routed(c, buf) ==
    IF c.kind = "inner" THEN distribute_inner(c.n)[buf][c.index_start]
    ELSE distribute_2power(c.n)[buf][c.index_start][c.ofs]

(* A part that fits the enclave's buffer: fetch, route, write back.        *)
AksBaseCase ==
    /\ stack # <<>> /\ Head(stack).n \in 2..AKS_BUFFER
    /\ LET c    == Head(stack)
           done == Routed(c, Fetched(c))
       IN  entries' = [j \in DOMAIN entries |->
                          IF j - c.offset \in 1..c.n THEN Encrypted(done[j - c.offset])
                          ELSE entries[j]]
    /\ stack' = Tail(stack)

(* One chunk of the scan: count the rows that belong to the left part.     *)
ScanTarget(c, e) == IF e.field_type = DIST_PADDING THEN c.n + c.offset + 1 ELSE e.dst_idx

AksScan ==
    /\ stack # <<>> /\ Head(stack).n > AKS_BUFFER /\ Head(stack).phase = "scan"
    /\ LET c    == Head(stack)
           csz  == Least(AKS_BUFFER, Scanned(c) - c.chunk)
           next == c.chunk + csz
           here == Cardinality({i \in 1..csz :
                       ScanTarget(c, entries[c.offset + c.chunk + i]) < Boundary(c)})
           last == next = Scanned(c)
       IN  stack' = [stack EXCEPT ![1] =
               IF last THEN Advanced(c, "swap", 0, c.m2 + here)
               ELSE Advanced(c, "scan", next, c.m2 + here)]
    /\ UNCHANGED entries

PairSwaps(c, i) ==
    IF c.kind = "inner" THEN c.m2 <= i ELSE SwapsPair(c.ofs, c.m2, Gap(c), i)

(* The calls a call makes, in their order. *)
Subcalls_unrotated(c) ==    \* mutant: the right half inherits the rotation of the whole
    LET temp2 == c.n \div 2
    IN  IF c.kind = "inner"
        THEN <<Call("inner", c.offset, c.index_start, 0, Pairs(c)),
               Call("2power", c.offset + Pairs(c), c.index_start + Pairs(c), c.m2 % Gap(c), Gap(c))>>
        ELSE <<Call("2power", c.offset + temp2, c.index_start + temp2, c.ofs % temp2, temp2),
               Call("2power", c.offset, c.index_start, c.ofs % temp2, temp2)>>

Subcalls(c) ==
    LET n1 == Gap(c)
        n2 == Pairs(c)
    IN  IF c.kind = "inner"
        THEN <<Call("inner", c.offset, c.index_start, 0, n2),
               Call("2power", c.offset + n2, c.index_start + n2, (n1 - n2 + c.m2) % n1, n1)>>
        ELSE <<Call("2power", c.offset + n1, c.index_start + n1, (c.ofs + c.m2) % n1, n1),
               Call("2power", c.offset, c.index_start, c.ofs % n1, n1)>>

(* One chunk of the swap; after the last one the call makes its own calls. *)
AksSwap ==
    /\ stack # <<>> /\ Head(stack).n > AKS_BUFFER /\ Head(stack).phase = "swap"
    /\ LET c    == Head(stack)
           csz  == Least(AKS_BUFFER \div 2, Pairs(c) - c.chunk)
           from == c.offset + c.chunk
           both == {from + i : i \in 1..csz} \cup {from + Gap(c) + i : i \in 1..csz}
           done == SwapPairs(entries, from, Gap(c),
                             {i \in 0..(csz - 1) : PairSwaps(c, c.chunk + i)})
       IN  /\ entries' = [j \in DOMAIN entries |->
                             IF j \in both THEN Encrypted(done[j]) ELSE entries[j]]
           /\ stack' = IF c.chunk + csz = Pairs(c) THEN Subcalls(c) \o Tail(stack)
                       ELSE [stack EXCEPT ![1] = Advanced(c, "swap", c.chunk + csz, c.m2)]

(* The enclave goes between the two writes of a chunk: the left rows of    *)
(* its pairs are back in the array, the right ones are not.                *)
AksSwapTorn ==
    /\ stack # <<>> /\ Head(stack).n > AKS_BUFFER /\ Head(stack).phase = "swap"
    /\ LET c    == Head(stack)
           csz  == Least(AKS_BUFFER \div 2, Pairs(c) - c.chunk)
           from == c.offset + c.chunk
           done == SwapPairs(entries, from, Gap(c),
                             {i \in 0..(csz - 1) : PairSwaps(c, c.chunk + i)})
       IN  entries' = [j \in DOMAIN entries |->
                         IF j - from \in 1..csz THEN Encrypted(done[j]) ELSE entries[j]]
    /\ stack' = <<>>

AksNext == AksReturn \/ AksBaseCase \/ AksScan \/ AksSwap

-----------------------------------------------------------------------------
(* Every pending call finds in its part of the array exactly the rows      *)
(* whose destinations lie there, whatever the calls before it moved.       *)
PartsAreSelfContained ==
    \A s \in DOMAIN stack :
        LET part == (stack[s].offset + 1)..(stack[s].offset + stack[s].n)
        IN  \A j \in DOMAIN entries :
                entries[j].field_type # DIST_PADDING =>
                    (j \in part <=> entries[j].dst_idx + 1 \in part)

(* Slots that no pending call covers hold the row that names them, or none. *)
FinishedPartsAreRouted ==
    \A j \in DOMAIN entries :
        \/ \E s \in DOMAIN stack : j - stack[s].offset \in 1..stack[s].n
        \/ entries[j].field_type = DIST_PADDING
        \/ entries[j].dst_idx = j - 1

=============================================================================
