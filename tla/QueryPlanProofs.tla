-------------------------- MODULE QueryPlanProofs --------------------------
(***************************************************************************)
(* Proofs about QueryPlan: whatever the query and the loaded tables, the   *)
(* traversal keeps its state in order and ends in a post-order tree, a     *)
(* query is refused only for a reason, and the tree means what the query's *)
(* WHERE clause means.                                                     *)
(***************************************************************************)
EXTENDS QueryPlan, FiniteSetTheorems, SequenceTheorems, NaturalsInduction,
        WellFoundedInduction, TLAPS

-----------------------------------------------------------------------------
(* The algebra of band constraints, for every attribute range.             *)

(* The parser's constraint admits exactly the pairs that the comparison of *)
(* the text does, as long as the deviation is not itself infinite; != is   *)
(* made the empty range.                                                   *)
THEOREM OperatorMeaning ==
    ASSUME NEW op \in {"=", ">=", ">", "<=", "<"},
           NEW d \in -AttrMax..AttrMax, NEW x \in Int, NEW p \in Int
    PROVE  InBand(x, p, operator_to_constraint(op, d)) <=> Compare(x, op, p + d)
<1> USE AttrMaxAssumption
<1> DEFINE NI == JOIN_ATTR_NEG_INF
           PI == JOIN_ATTR_POS_INF
<1>1. d # NI /\ d # PI /\ d \in Int
  BY DEF JOIN_ATTR_NEG_INF, JOIN_ATTR_POS_INF
<1>2. CASE op = "="
  BY <1>1, <1>2 DEF InBand, AboveLower, BelowUpper, operator_to_constraint, Band, Compare, EQ, NEQ
<1>3. CASE op = ">="
  BY <1>1, <1>3 DEF InBand, AboveLower, BelowUpper, operator_to_constraint, Band, Compare, EQ, NEQ
<1>4. CASE op = ">"
  BY <1>1, <1>4 DEF InBand, AboveLower, BelowUpper, operator_to_constraint, Band, Compare, EQ, NEQ
<1>5. CASE op = "<="
  BY <1>1, <1>5 DEF InBand, AboveLower, BelowUpper, operator_to_constraint, Band, Compare, EQ, NEQ
<1>6. CASE op = "<"
  BY <1>1, <1>6 DEF InBand, AboveLower, BelowUpper, operator_to_constraint, Band, Compare, EQ, NEQ
<1> QED
  BY <1>2, <1>3, <1>4, <1>5, <1>6

(* A reversed constraint is a constraint, and admits a pair exactly when   *)
(* the original admits it with the roles of the two tables exchanged.      *)
THEOREM ReverseSwapsRoles ==
    ASSUME NEW c \in BandConstraints, NEW x \in Int, NEW p \in Int
    PROVE  /\ reverse(c) \in BandConstraints
           /\ InBand(x, p, c) <=> InBand(p, x, reverse(c))
<1> USE AttrMaxAssumption DEF BandConstraints, JOIN_ATTR_NEG_INF, JOIN_ATTR_POS_INF
<1>1. /\ reverse(c).deviation1 = -c.deviation2 /\ reverse(c).equality1 = c.equality2
      /\ reverse(c).deviation2 = -c.deviation1 /\ reverse(c).equality2 = c.equality1
      /\ reverse(c) \in BandConstraints
  BY DEF reverse, Band
<1>2. AboveLower(x, p, c) <=> BelowUpper(p, x, reverse(c))
  BY <1>1 DEF AboveLower, BelowUpper
<1>3. BelowUpper(x, p, c) <=> AboveLower(p, x, reverse(c))
  BY <1>1 DEF AboveLower, BelowUpper
<1> QED
  BY <1>1, <1>2, <1>3 DEF InBand

(* Merging two constraints on the same columns loses and adds no pair.     *)
THEOREM MergeIsIntersection ==
    ASSUME NEW a \in BandConstraints, NEW b \in BandConstraints, NEW x \in Int, NEW p \in Int
    PROVE  /\ Intersection(a, b) \in BandConstraints
           /\ InBand(x, p, Intersection(a, b)) <=> InBand(x, p, a) /\ InBand(x, p, b)
<1> USE AttrMaxAssumption DEF BandConstraints, JOIN_ATTR_NEG_INF, JOIN_ATTR_POS_INF
<1> DEFINE m == Intersection(a, b)
<1>1. /\ m.deviation1 = IF is_stricter_lower(a, b) THEN a.deviation1 ELSE b.deviation1
      /\ m.equality1 = IF is_stricter_lower(a, b) THEN a.equality1 ELSE b.equality1
      /\ m.deviation2 = IF is_stricter_upper(a, b) THEN a.deviation2 ELSE b.deviation2
      /\ m.equality2 = IF is_stricter_upper(a, b) THEN a.equality2 ELSE b.equality2
      /\ m \in BandConstraints
  BY DEF Intersection, Band
<1>2. AboveLower(x, p, m) <=> AboveLower(x, p, a) /\ AboveLower(x, p, b)
  BY <1>1 DEF AboveLower, is_stricter_lower, EQ, NEQ
<1>3. BelowUpper(x, p, m) <=> BelowUpper(x, p, a) /\ BelowUpper(x, p, b)
  BY <1>1 DEF BelowUpper, is_stricter_upper, EQ, NEQ
<1> QED
  BY <1>1, <1>2, <1>3 DEF InBand

(* A range that the merger refuses admits no pair at all: refusing loses   *)
(* nothing but the knowledge that the query is empty.                      *)
THEOREM RefusedRangeIsEmpty ==
    ASSUME NEW c \in BandConstraints, NEW x \in Int, NEW p \in Int, ~is_valid_range(c)
    PROVE  ~InBand(x, p, c)
BY AttrMaxAssumption DEF BandConstraints, is_valid_range, InBand, AboveLower, BelowUpper,
   JOIN_ATTR_NEG_INF, JOIN_ATTR_POS_INF, EQ, NEQ

-----------------------------------------------------------------------------
(* Recursion over 0..m. *)

(* A set of numbers has a smallest element.                                *)
LEMMA Smallest ==
    ASSUME NEW T, T \subseteq Nat, T # {}
    PROVE  \E x \in T : \A y \in T : x <= y
<1>1. \E x \in T : \A y \in T : ~ (<<y, x>> \in OpToRel(<, Nat))
    BY NatLessThanWellFounded, WFMin
<1>2. \A x, y \in T : ~ (<<y, x>> \in OpToRel(<, Nat)) => x <= y
    <2> SUFFICES ASSUME NEW x \in T, NEW y \in T, ~ (x <= y)
                 PROVE  <<y, x>> \in OpToRel(<, Nat)
        OBVIOUS
    <2>1. y < x /\ <<y, x>> \in Nat \X Nat
        OBVIOUS
    <2> QED
        BY <2>1 DEF OpToRel
<1> QED
    BY <1>1, <1>2

(* What holds at 0, and at a number if at the one before, holds up to m:   *)
(* here T is the set of the numbers at which it does not.                  *)
LEMMA UpTo ==
    ASSUME NEW m \in Nat, NEW T, 0 \notin T,
           \A n \in 1..m : n - 1 \notin T => n \notin T
    PROVE  \A n \in 0..m : n \notin T
<1> SUFFICES ASSUME {n \in 0..m : n \in T} # {} PROVE FALSE
    OBVIOUS
<1> DEFINE bad == {n \in 0..m : n \in T}
<1>1. PICK x \in bad : \A y \in bad : x <= y
    <2>1. bad \subseteq Nat /\ bad # {}
        OBVIOUS
    <2> HIDE DEF bad
    <2> QED
        BY <2>1, Smallest
<1>2. x \in 1..m /\ x - 1 \in 0..m
    OBVIOUS
<1>3. x - 1 \notin T
    BY <1>1, <1>2
<1> QED
    BY <1>2, <1>3

(* A sequence of values stays inside sets if every step does.              *)
LEMMA StaysIn ==
    ASSUME NEW m \in Nat, NEW SS, NEW f, f[0] \in SS[0],
           \A i \in 1..m : f[i - 1] \in SS[i - 1] => f[i] \in SS[i]
    PROVE  \A i \in 0..m : f[i] \in SS[i]
<1> DEFINE T == {i \in Nat : f[i] \notin SS[i]}
<1>1. 0 \notin T /\ \A n \in 1..m : n - 1 \notin T => n \notin T
    OBVIOUS
<1>2. \A n \in 0..m : n \notin T
    <2> HIDE DEF T
    <2> QED
        BY <1>1, UpTo
<1> QED
    BY <1>2

(* f goes from a on by the steps that g gives. *)
Recurs(f, m, a, g) == f = [i \in 0..m |-> IF i = 0 THEN a ELSE g[i][f[i - 1]]]

(* The same step by step, inside the sets SS. *)
Follows(f, m, a, g, SS) ==
    /\ f = [i \in 0..m |-> f[i]] /\ f[0] = a
    /\ \A i \in 0..m : f[i] \in SS[i]
    /\ \A i \in 1..m : f[i - 1] \in SS[i - 1] /\ f[i] = g[i][f[i - 1]]

(* A recursion whose steps stay inside given sets has a solution.          *)
LEMMA Recursion ==
    ASSUME NEW m \in Nat, NEW SS, NEW a, NEW g, a \in SS[0],
           \A i \in 1..m : \A x \in SS[i - 1] : g[i][x] \in SS[i]
    PROVE  \E f : Follows(f, m, a, g, SS)
<1> DEFINE Solves(f, x) == Recurs(f, x, a, g) /\ \A i \in 0..x : f[i] \in SS[i]
           T == {x \in Nat : ~ \E f : Solves(f, x)}
<1>1. 0 \notin T
    <2>1. Solves([i \in 0..0 |-> a], 0)
        BY DEF Recurs
    <2> QED
        BY <2>1
<1>2. ASSUME NEW x \in 1..m, x - 1 \notin T PROVE x \notin T
    <2>1. PICK old : Solves(old, x - 1)
        BY <1>2
    <2> DEFINE new == [i \in 0..x |-> IF i = x THEN g[x][old[x - 1]] ELSE old[i]]
    <2>2. /\ \A i \in 0..x : i # x => new[i] = old[i] /\ i \in 0..(x - 1)
          /\ new[x] = g[x][old[x - 1]]
          /\ x - 1 \in 0..x /\ x - 1 # x
        OBVIOUS
    <2>3. ASSUME NEW i \in 0..x
          PROVE  /\ new[i] = IF i = 0 THEN a ELSE g[i][new[i - 1]]
                 /\ new[i] \in SS[i]
        <3>1. CASE i = x
            <4>1. old[x - 1] \in SS[x - 1] /\ x # 0
                BY <2>1
            <4> HIDE DEF new
            <4> QED
                BY <1>2, <2>2, <3>1, <4>1
        <3>2. CASE i # x
            <4>1. i \in 0..(x - 1) /\ (i # 0 => i - 1 \in 0..x /\ i - 1 # x)
                BY <3>2
            <4>2. old[i] = (IF i = 0 THEN a ELSE g[i][old[i - 1]]) /\ old[i] \in SS[i]
                BY <2>1, <4>1 DEF Recurs
            <4> HIDE DEF new
            <4> QED
                BY <2>2, <3>2, <4>1, <4>2
        <3> QED
            BY <3>1, <3>2
    <2>4. new = [i \in 0..x |-> new[i]]
        OBVIOUS
    <2>5. Solves(new, x)
        <3> HIDE DEF new
        <3> QED
            BY <2>3, <2>4 DEF Recurs
    <2> QED
        BY <2>5
<1>3. m \notin T
    <2> HIDE DEF T
    <2> QED
        BY <1>1, <1>2, UpTo
<1>4. PICK f : Solves(f, m)
    BY <1>3
<1>5. Follows(f, m, a, g, SS)
    BY <1>4 DEF Recurs, Follows
<1> QED
    BY <1>5

-----------------------------------------------------------------------------
(* The merged conditions. *)

(* A condition's band is one.                                              *)
LEMMA GivenIsBand ==
    ASSUME NEW op \in {"=", ">=", ">", "<=", "<", "!="}, NEW d \in -AttrMax..AttrMax
    PROVE  operator_to_constraint(op, d) \in BandConstraints
BY AttrMaxAssumption DEF operator_to_constraint, Band, BandConstraints,
   JOIN_ATTR_NEG_INF, JOIN_ATTR_POS_INF, EQ, NEQ

(* So is every step of a merge.                                            *)
LEMMA StepIsBand ==
    ASSUME NEW a \in BandConstraints, NEW b \in BandConstraints
    PROVE  MergeStep(a, b) \in BandConstraints
<1>1. Intersection(a, b) \in BandConstraints
    <2>1. 0 \in Int
        OBVIOUS
    <2> QED
        BY <2>1, MergeIsIntersection
<1> QED
    BY <1>1 DEF MergeStep

(* The tables that a query names, in either clause. *)
NamedBy(q) ==
    TablesOf(q) \cup {q.conditions[i].left : i \in DOMAIN q.conditions}
                \cup {q.conditions[i].right : i \in DOMAIN q.conditions}

(* A query's conditions are parsed conditions, between tables that it      *)
(* names (QueriesAssumption, in the form in which it is used).             *)
LEMMA QueryTypes ==
    ASSUME query \in Queries
    PROVE  /\ query.tables \in Seq(Nat \ {0}) /\ Len(query.tables) \in Nat
           /\ DOMAIN query.tables = 1..Len(query.tables)
           /\ \A i \in DOMAIN query.tables : query.tables[i] \in Nat \ {0}
           /\ Len(query.conditions) \in Nat
           /\ DOMAIN query.conditions = 1..Len(query.conditions)
           /\ \A i \in DOMAIN query.conditions :
                 /\ query.conditions[i] \in Conditions
                 /\ query.conditions[i].left \in NamedBy(query)
                 /\ query.conditions[i].right \in NamedBy(query)
BY QueriesAssumption DEF NamedBy

(* A group's band as it grows: what the i-th condition makes of band x.    *)
Grown(key, i, x) ==
    IF Columns(query.conditions[i]) # key THEN x
    ELSE IF \A h \in 1..(i - 1) : Columns(query.conditions[h]) # key THEN Given(i)
    ELSE MergeStep(x, Given(i))

(* f holds a group's bands after each of the first m conditions. *)
Grows(key, f, m) ==
    \A i \in 1..m : f[i - 1] \in BandConstraints /\ f[i] = Grown(key, i, f[i - 1])

(* A group's band is a band, made by one condition after the other.        *)
LEMMA MergedSteps ==
    ASSUME query \in Queries, NEW key
    PROVE  /\ Merged(key) \in BandConstraints
           /\ \E f : /\ Grows(key, f, Len(query.conditions))
                    /\ \A i \in 0..Len(query.conditions) : f[i] \in BandConstraints
                    /\ Merged(key) = f[Len(query.conditions)]
<1> DEFINE m == Len(query.conditions)
           none == Band(0, EQ, 0, EQ)
           mine(i) == Columns(query.conditions[i]) = key
           first(i) == \A h \in 1..(i - 1) : ~mine(h)
           next(i, x) == IF ~mine(i) THEN x ELSE IF first(i) THEN Given(i) ELSE MergeStep(x, Given(i))
           IsMerge(f) == f = [i \in 0..m |->
                IF i = 0 THEN none
                ELSE IF ~mine(i) THEN f[i - 1]
                ELSE IF first(i) THEN Given(i)
                ELSE MergeStep(f[i - 1], Given(i))]
           SS == [i \in 0..m |-> BandConstraints]
           g == [i \in 1..m |-> [x \in BandConstraints |-> next(i, x)]]
           merged == CHOOSE f : IsMerge(f)
<1>1. m \in Nat /\ none \in BandConstraints
    BY QueryTypes, AttrMaxAssumption DEF Band, BandConstraints, EQ, NEQ, JOIN_ATTR_NEG_INF, JOIN_ATTR_POS_INF
<1>2. \A i \in 1..m : Given(i) \in BandConstraints
    BY QueryTypes, GivenIsBand DEF Given, Conditions
<1> HIDE DEF m, none
<1>3. \A i \in 1..m : \A x \in BandConstraints : next(i, x) \in BandConstraints
    BY <1>2, StepIsBand
<1>4. \E f : IsMerge(f)
    <2>1. none \in SS[0] /\ \A i \in 1..m : \A x \in SS[i - 1] : g[i][x] \in SS[i]
        BY <1>1, <1>3
    <2>2. PICK f : Follows(f, m, none, g, SS)
        <3> HIDE DEF SS, g
        <3> QED
            BY <1>1, <2>1, Recursion
    <2>3. /\ f = [i \in 0..m |-> f[i]] /\ f[0] = none
          /\ \A i \in 1..m : f[i - 1] \in SS[i - 1] /\ f[i] = g[i][f[i - 1]]
        BY <2>2 DEF Follows
    <2>4. ASSUME NEW i \in 1..m PROVE f[i] = next(i, f[i - 1])
        <3>1. SS[i - 1] = BandConstraints
            BY <1>1
        <3> HIDE DEF next, SS
        <3> QED
            BY <2>3, <3>1
    <2>5. \A i \in 0..m : i # 0 => i \in 1..m
        BY <1>1
    <2>6. IsMerge(f)
        BY <2>3, <2>4, <2>5
    <2> HIDE DEF IsMerge
    <2> QED
        BY <2>6
<1>5. IsMerge(merged)
    BY <1>4
<1>6. merged[0] = none /\ \A i \in 1..m : merged[i] = next(i, merged[i - 1])
    <2> HIDE DEF merged
    <2> QED
        BY <1>1, <1>5
<1>7. Merged(key) = merged[m]
    BY DEF Merged, none, m
<1>9. \A i \in 1..m : \A x : next(i, x) = Grown(key, i, x)
    BY DEF Grown
<1> HIDE DEF merged, next
<1>8. \A i \in 0..m : merged[i] \in BandConstraints
    <2>1. merged[0] \in SS[0] /\ \A i \in 1..m : merged[i - 1] \in SS[i - 1] => merged[i] \in SS[i]
        BY <1>1, <1>3, <1>6
    <2>2. \A i \in 0..m : merged[i] \in SS[i]
        <3> HIDE DEF SS
        <3> QED
            BY <1>1, <2>1, StaysIn
    <2> QED
        BY <2>2
<1>10. Grows(key, merged, m)
    <2>1. \A i \in 1..m : i - 1 \in 0..m
        BY <1>1
    <2> QED
        BY <1>6, <1>8, <1>9, <2>1 DEF Grows
<1> QED
    BY <1>1, <1>7, <1>8, <1>10 DEF m

(* In particular it is a band.                                             *)
LEMMA MergedIsBand ==
    ASSUME query \in Queries, NEW key
    PROVE  Merged(key) \in BandConstraints
BY MergedSteps

-----------------------------------------------------------------------------
(* Numbers of orders. *)

IsFactorial(f, n) == f = [i \in 0..n |-> IF i = 0 THEN 1 ELSE i * f[i - 1]]

(* The recursion of factorial has a solution.                              *)
LEMMA FactorialRecursion ==
    ASSUME NEW n \in Nat
    PROVE  \E f : /\ IsFactorial(f, n) /\ factorial(n) = f[n]
                  /\ f[0] = 1 /\ \A i \in 1..n : f[i] = i * f[i - 1]
                  /\ \A i \in 0..n : f[i] \in Nat \ {0}
<1> DEFINE P == Nat \ {0}
           next(i, x) == i * x
           SS == [i \in 0..n |-> P]
           g == [i \in 1..n |-> [x \in P |-> next(i, x)]]
           fact == CHOOSE f : IsFactorial(f, n)
<1>1. \E f : IsFactorial(f, n)
    <2>0. 1 \in P /\ \A i \in 1..n : \A x \in P : next(i, x) \in P
        OBVIOUS
    <2>1. 1 \in SS[0] /\ \A i \in 1..n : \A x \in SS[i - 1] : g[i][x] \in SS[i]
        <3> HIDE DEF P, next
        <3> QED
            BY <2>0
    <2>2. PICK f : Follows(f, n, 1, g, SS)
        <3> HIDE DEF SS, g
        <3> QED
            BY <2>1, Recursion
    <2>3. /\ f = [i \in 0..n |-> f[i]] /\ f[0] = 1
          /\ \A i \in 1..n : f[i - 1] \in SS[i - 1] /\ f[i] = g[i][f[i - 1]]
        BY <2>2 DEF Follows
    <2>4. ASSUME NEW i \in 1..n PROVE f[i] = next(i, f[i - 1])
        <3>1. SS[i - 1] = P
            OBVIOUS
        <3> HIDE DEF next, SS, P
        <3> QED
            BY <2>3, <3>1
    <2>5. \A i \in 0..n : i # 0 => i \in 1..n
        OBVIOUS
    <2>6. IsFactorial(f, n)
        BY <2>3, <2>4, <2>5 DEF IsFactorial
    <2> QED
        BY <2>6
<1>2. IsFactorial(fact, n) /\ factorial(n) = fact[n]
    <2>1. IsFactorial(fact, n)
        BY <1>1
    <2> QED
        BY <2>1 DEF factorial, IsFactorial
<1> HIDE DEF fact
<1>3. fact[0] = 1 /\ \A i \in 1..n : fact[i] = i * fact[i - 1]
    BY <1>2 DEF IsFactorial
<1>4. \A i \in 0..n : fact[i] \in Nat \ {0}
    <2>1. fact[0] \in SS[0] /\ \A i \in 1..n : fact[i - 1] \in SS[i - 1] => fact[i] \in SS[i]
        BY <1>3
    <2>2. \A i \in 0..n : fact[i] \in SS[i]
        <3> HIDE DEF SS
        <3> QED
            BY <2>1, StaysIn
    <2> QED
        BY <2>2
<1> QED
    BY <1>2, <1>3, <1>4

(* The factorial is the factorial.                                         *)
LEMMA FactorialEquation ==
    /\ factorial(0) = 1
    /\ \A n \in Nat : factorial(n) \in Nat \ {0}
    /\ \A n \in Nat \ {0} : factorial(n) = n * factorial(n - 1)
<1>1. factorial(0) = 1 /\ \A n \in Nat : factorial(n) \in Nat \ {0}
    BY FactorialRecursion
<1>2. ASSUME NEW n \in Nat \ {0} PROVE factorial(n) = n * factorial(n - 1)
    <2>1. PICK f : /\ factorial(n) = f[n] /\ f[0] = 1 /\ \A i \in 1..n : f[i] = i * f[i - 1]
        BY FactorialRecursion
    <2>2. PICK h : /\ factorial(n - 1) = h[n - 1] /\ h[0] = 1
                   /\ \A i \in 1..(n - 1) : h[i] = i * h[i - 1]
        <3>1. n - 1 \in Nat
            OBVIOUS
        <3> QED
            BY <3>1, FactorialRecursion
    <2> DEFINE T == {i \in Nat : f[i] # h[i]}
    <2>3. 0 \notin T /\ \A i \in 1..(n - 1) : i - 1 \notin T => i \notin T
        BY <2>1, <2>2
    <2>4. \A i \in 0..(n - 1) : i \notin T
        <3> HIDE DEF T
        <3> QED
            BY <2>3, UpTo
    <2> QED
        BY <2>1, <2>2, <2>4
<1> QED
    BY <1>1, <1>2

(* A digit of the variant number, and what is left of it.                  *)
LEMMA DivMod ==
    ASSUME NEW k \in Nat, NEW f \in Nat \ {0}
    PROVE  /\ k \div f \in Nat /\ k % f \in Nat /\ k % f < f
           /\ \A n \in Nat : k < n * f => k \div f < n
<1> DEFINE d == k \div f
           r == k % f
<1>1. d \in Nat /\ r \in 0..(f - 1) /\ k = d * f + r
    OBVIOUS
<1> HIDE DEF d, r
<1>2. ASSUME NEW n \in Nat, k < n * f, ~(d < n) PROVE FALSE
    <2>1. PICK e \in Nat : d = n + e
        BY <1>1, <1>2
    <2>2. d * f = n * f + e * f /\ e * f \in Nat /\ n * f \in Nat
        BY <2>1
    <2> QED
        BY <1>1, <1>2, <2>2
<1> QED
    BY <1>1, <1>2 DEF d, r

-----------------------------------------------------------------------------
(* Orders of the children. *)

Has(s, x) == \E i \in 1..Len(s) : s[i] = x

(* Taking one element out of a sequence leaves the others.                 *)
LEMMA RemoveOne ==
    ASSUME NEW S, NEW s \in Seq(S), NEW p \in 1..Len(s)
    PROVE  /\ RemoveAt(s, p) \in Seq(S) /\ Len(RemoveAt(s, p)) = Len(s) - 1
           /\ \A x : Has(s, x) <=> x = s[p] \/ Has(RemoveAt(s, p), x)
<1> DEFINE n == Len(s)
           a == SubSeq(s, 1, p - 1)
           b == SubSeq(s, p + 1, n)
           r == RemoveAt(s, p)
<1>1. n \in Nat /\ p \in Int /\ p - 1 \in Int /\ p + 1 \in Int /\ p <= n /\ p >= 1
    OBVIOUS
<1>2. a \in Seq(S) /\ Len(a) = p - 1 /\ \A i \in 1..(p - 1) : a[i] = s[i]
    <2>1. \A i \in 1..(p - 1) : s[i] \in S
        BY <1>1
    <2> QED
        BY <1>1, <2>1, SubSeqProperties
<1>3. b \in Seq(S) /\ Len(b) = n - p /\ \A i \in 1..(n - p) : b[i] = s[i + p]
    <2>1. \A i \in (p + 1)..n : s[i] \in S
        BY <1>1
    <2>2. b \in Seq(S) /\ Len(b) = (IF p + 1 <= n THEN n - (p + 1) + 1 ELSE 0)
          /\ \A i \in 1..(n - (p + 1) + 1) : b[i] = s[p + 1 + i - 1]
        BY <1>1, <2>1, SubSeqProperties
    <2> HIDE DEF b, n
    <2>3. \A i \in 1..(n - p) : i \in 1..(n - (p + 1) + 1) /\ p + 1 + i - 1 = i + p
        BY <1>1
    <2>4. Len(b) = n - p
        BY <1>1, <2>2
    <2> QED
        BY <2>2, <2>3, <2>4
<1>4. r = a \o b
    BY DEF RemoveAt
<1> HIDE DEF a, b, r, n
<1>5. /\ r \in Seq(S) /\ Len(r) = n - 1
      /\ \A i \in 1..(n - 1) : r[i] = IF i <= p - 1 THEN a[i] ELSE b[i - (p - 1)]
    <2>1. /\ r \in Seq(S) /\ Len(r) = Len(a) + Len(b)
          /\ \A i \in 1..(Len(a) + Len(b)) : r[i] = IF i <= Len(a) THEN a[i] ELSE b[i - Len(a)]
        BY <1>2, <1>3, <1>4, ConcatProperties
    <2>2. Len(a) + Len(b) = n - 1
        BY <1>1, <1>2, <1>3
    <2> QED
        BY <1>2, <2>1, <2>2
<1>6. \A i \in 1..(n - 1) : r[i] = IF i < p THEN s[i] ELSE s[i + 1]
    <2> TAKE i \in 1..(n - 1)
    <2>1. CASE i < p
        BY <1>1, <1>2, <1>5, <2>1
    <2>2. CASE ~(i < p)
        <3>1. i - (p - 1) \in 1..(n - p) /\ i - (p - 1) + p = i + 1 /\ ~(i <= p - 1)
            BY <1>1, <2>2
        <3> QED
            BY <1>3, <1>5, <2>2, <3>1
    <2> QED
        BY <2>1, <2>2
<1>7. ASSUME NEW x PROVE Has(s, x) <=> x = s[p] \/ Has(r, x)
    <2>1. ASSUME NEW i \in 1..n, s[i] = x, i # p PROVE Has(r, x)
        <3>1. CASE i < p
            <4>1. i \in 1..(n - 1)
                BY <1>1, <2>1, <3>1
            <4> QED
                BY <1>5, <1>6, <2>1, <3>1, <4>1 DEF Has
        <3>2. CASE ~(i < p)
            <4>1. i - 1 \in 1..(n - 1) /\ ~(i - 1 < p) /\ i - 1 + 1 = i
                BY <1>1, <2>1, <3>2
            <4> QED
                BY <1>5, <1>6, <2>1, <4>1 DEF Has
        <3> QED
            BY <3>1, <3>2
    <2>2. ASSUME NEW i \in 1..(n - 1), r[i] = x PROVE Has(s, x)
        <3>1. i \in 1..n /\ i + 1 \in 1..n
            BY <1>1
        <3> QED
            BY <1>6, <2>2, <3>1 DEF Has, n
    <2> QED
        BY <1>5, <2>1, <2>2 DEF Has, n
<1> QED
    BY <1>5, <1>7 DEF r, n

(* A permutation being picked: i elements are in v, the others in pool.    *)
Picking(s, S, i) ==
    {acc \in [k : Nat, pool : Seq(S), v : Seq(S)] :
        /\ acc.k < factorial(Len(acc.pool))
        /\ Len(acc.pool) = Len(s) - i /\ Len(acc.v) = i
        /\ \A x \in S : Has(s, x) <=> Has(acc.pool, x) \/ Has(acc.v, x)}

(* An appended sequence has the old elements and the new one.              *)
LEMMA HasAppend ==
    ASSUME NEW S, NEW s \in Seq(S), NEW e \in S
    PROVE  \A x : Has(Append(s, e), x) <=> Has(s, x) \/ x = e
<1>1. /\ Len(Append(s, e)) = Len(s) + 1 /\ Append(s, e)[Len(s) + 1] = e
      /\ \A i \in 1..Len(s) : Append(s, e)[i] = s[i]
      /\ Len(s) \in Nat
    BY AppendProperties
<1>2. \A i \in 1..(Len(s) + 1) : i \in 1..Len(s) \/ i = Len(s) + 1
    BY <1>1
<1> QED
    BY <1>1, <1>2 DEF Has

(* A pick moves one element from the pool to the permutation, and leaves a *)
(* number below the next factorial.                                        *)
LEMMA PickedStep ==
    ASSUME NEW S, NEW s \in Seq(S), NEW i \in 1..Len(s), NEW acc \in Picking(s, S, i - 1)
    PROVE  Picked(acc, Len(s) - i + 1) \in Picking(s, S, i)
<1> DEFINE n == Len(s) - i + 1
           f == factorial(n - 1)
           pick == acc.k \div f + 1
           pool == acc.pool
           rest == RemoveAt(pool, pick)
           v == Append(acc.v, pool[pick])
<1>1. /\ Len(s) \in Nat /\ n \in Nat \ {0} /\ n - 1 \in Nat /\ n - 1 = Len(s) - i
    OBVIOUS
<1>2. /\ acc.k \in Nat /\ pool \in Seq(S) /\ acc.v \in Seq(S) /\ Len(pool) = n
      /\ acc.k < factorial(n) /\ Len(acc.v) = i - 1
      /\ \A x \in S : Has(s, x) <=> Has(pool, x) \/ Has(acc.v, x)
    BY DEF Picking
<1>3. f \in Nat \ {0} /\ factorial(n) = n * f
    BY <1>1, FactorialEquation
<1> HIDE DEF n, f, pool
<1>4. acc.k \div f \in Nat /\ acc.k % f \in Nat /\ acc.k % f < f /\ acc.k \div f < n
    <2> DEFINE k == acc.k
    <2>1. k \in Nat /\ k < n * f /\ n \in Nat
        BY <1>1, <1>2, <1>3
    <2> HIDE DEF k
    <2>2. k \div f \in Nat /\ k % f \in Nat /\ k % f < f /\ k \div f < n
        BY <1>3, <2>1, DivMod
    <2> QED
        BY <2>2 DEF k
<1>5. pick \in 1..Len(pool)
    BY <1>1, <1>2, <1>4
<1> HIDE DEF pick
<1>6. /\ rest \in Seq(S) /\ Len(rest) = n - 1
      /\ \A x : Has(pool, x) <=> x = pool[pick] \/ Has(rest, x)
    BY <1>2, <1>5, RemoveOne
<1>7. pool[pick] \in S
    BY <1>2, <1>5
<1>8. v \in Seq(S) /\ Len(v) = i /\ \A x : Has(v, x) <=> Has(acc.v, x) \/ x = pool[pick]
    <2>1. v \in Seq(S) /\ Len(v) = i - 1 + 1
        BY <1>2, <1>7, AppendProperties
    <2> QED
        BY <1>2, <1>7, <2>1, HasAppend
<1> HIDE DEF rest, v
<1>9. \A x \in S : Has(s, x) <=> Has(rest, x) \/ Has(v, x)
    BY <1>2, <1>6, <1>8
<1>10. Picked(acc, n) = [k |-> acc.k % f, pool |-> rest, v |-> v]
    BY DEF Picked, f, pick, pool, rest, v
<1>11. [k |-> acc.k % f, pool |-> rest, v |-> v] \in Picking(s, S, i)
    <2>1. Len(rest) = Len(s) - i /\ factorial(Len(rest)) = f
        BY <1>1, <1>6 DEF f
    <2> QED
        BY <1>4, <1>6, <1>8, <1>9, <2>1 DEF Picking
<1> QED
    BY <1>10, <1>11 DEF n

(* A permutation of a sequence has its elements, and is as long.           *)
LEMMA PermutationKeeps ==
    ASSUME NEW S, NEW s \in Seq(S), NEW k \in Nat, k < factorial(Len(s))
    PROVE  /\ nth_permutation(s, k) \in Seq(S)
           /\ \A x \in S : Has(nth_permutation(s, k), x) <=> Has(s, x)
<1> DEFINE m == Len(s)
           first == [k |-> k, pool |-> s, v |-> <<>>]
           next(i, x) == Picked(x, m - i + 1)
           IsPick(f) == f = [i \in 0..m |-> IF i = 0 THEN first ELSE Picked(f[i - 1], m - i + 1)]
           SS == [i \in 0..m |-> Picking(s, S, i)]
           g == [i \in 1..m |-> [x \in Picking(s, S, i - 1) |-> next(i, x)]]
           acc == CHOOSE f : IsPick(f)
<1>1. m \in Nat /\ first \in Picking(s, S, 0)
    <2>1. Len(<<>>) = 0 /\ \A x : ~Has(<<>>, x)
        BY DEF Has
    <2> QED
        BY <2>1 DEF Picking
<1>2. \A i \in 1..m : \A x \in Picking(s, S, i - 1) : next(i, x) \in Picking(s, S, i)
    BY PickedStep
<1>3. nth_permutation(s, k) = acc[m].v
    BY DEF nth_permutation
<1> HIDE DEF m, first
<1>4. \E f : IsPick(f)
    <2>1. first \in SS[0] /\ \A i \in 1..m : \A x \in SS[i - 1] : g[i][x] \in SS[i]
        <3>1. \A i \in 1..m : i - 1 \in 0..m /\ i \in 0..m /\ 0 \in 0..m
            BY <1>1
        <3> HIDE DEF next
        <3> QED
            BY <1>1, <1>2, <3>1
    <2>2. PICK f : Follows(f, m, first, g, SS)
        <3> HIDE DEF SS, g
        <3> QED
            BY <1>1, <2>1, Recursion
    <2>3. /\ f = [i \in 0..m |-> f[i]] /\ f[0] = first
          /\ \A i \in 1..m : f[i - 1] \in SS[i - 1] /\ f[i] = g[i][f[i - 1]]
        BY <2>2 DEF Follows
    <2>4. ASSUME NEW i \in 1..m PROVE f[i] = next(i, f[i - 1])
        <3>1. SS[i - 1] = Picking(s, S, i - 1)
            BY <1>1
        <3> HIDE DEF next, SS
        <3> QED
            BY <2>3, <3>1
    <2>5. \A i \in 0..m : i # 0 => i \in 1..m
        BY <1>1
    <2>6. IsPick(f)
        BY <2>3, <2>4, <2>5
    <2> HIDE DEF IsPick
    <2> QED
        BY <2>6
<1>5. IsPick(acc)
    BY <1>4
<1>6. acc[0] = first /\ \A i \in 1..m : acc[i] = next(i, acc[i - 1])
    <2> HIDE DEF acc
    <2> QED
        BY <1>1, <1>5
<1> HIDE DEF acc, next
<1>7. acc[m] \in Picking(s, S, m)
    <2>1. acc[0] \in SS[0] /\ \A i \in 1..m : acc[i - 1] \in SS[i - 1] => acc[i] \in SS[i]
        BY <1>1, <1>2, <1>6
    <2>2. \A i \in 0..m : acc[i] \in SS[i]
        <3> HIDE DEF SS
        <3> QED
            BY <1>1, <2>1, StaysIn
    <2> QED
        BY <1>1, <2>2
<1>8. /\ acc[m].v \in Seq(S) /\ acc[m].pool \in Seq(S) /\ Len(acc[m].pool) = 0
      /\ \A x \in S : Has(s, x) <=> Has(acc[m].pool, x) \/ Has(acc[m].v, x)
    BY <1>1, <1>7 DEF Picking, m
<1> QED
    BY <1>3, <1>8 DEF Has

-----------------------------------------------------------------------------
(* The children of a table. *)

EdgesOver(S) ==
    [source_table : S, source_column : Nat, target_table : S, target_column : Nat,
     band : BandConstraints]

(* Turning an edge makes an edge; turned towards a table that it touches,  *)
(* it has the table as its target.                                         *)
LEMMA TowardsTypes ==
    ASSUME NEW S, NEW c \in EdgesOver(S), NEW t
    PROVE  /\ Towards(c, t) \in EdgesOver(S)
           /\ Touches(c, t) => Towards(c, t).target_table = t
<1>1. reverse(c.band) \in BandConstraints
    <2>1. c.band \in BandConstraints /\ 0 \in Int
        BY DEF EdgesOver
    <2> QED
        BY <2>1, ReverseSwapsRoles
<1> QED
    BY <1>1 DEF EdgesOver, Towards, Touches, Reversed

(* The children found under the first i constraints. *)
Found(cs, S, t, seen, i) ==
    {kids \in Seq(EdgesOver(S)) : \A e \in EdgesOver(S) :
        Has(kids, e) <=> \E h \in 1..i : LeadsOn(cs[h], t, seen) /\ e = Towards(cs[h], t)}

(* The children are the edges to the tables not seen, turned.              *)
LEMMA KidsFound ==
    ASSUME NEW S, NEW cs \in Seq(EdgesOver(S)), NEW t, NEW seen
    PROVE  Kids(cs, t, seen) \in Found(cs, S, t, seen, Len(cs))
<1> DEFINE E == EdgesOver(S)
           m == Len(cs)
           lead(i) == LeadsOn(cs[i], t, seen)
           turned(i) == Towards(cs[i], t)
           next(i, x) == IF lead(i) THEN Append(x, turned(i)) ELSE x
           IsKids(f) == f = [i \in 0..m |-> IF i = 0 THEN <<>> ELSE next(i, f[i - 1])]
           In(i) == Found(cs, S, t, seen, i)
           SS == [i \in 0..m |-> In(i)]
           g == [i \in 1..m |-> [x \in In(i - 1) |-> next(i, x)]]
           kids == CHOOSE f : IsKids(f)
<1>1. m \in Nat /\ <<>> \in In(0)
    BY DEF Found, Has
<1>2. \A i \in 1..m : \A x \in In(i - 1) : next(i, x) \in In(i)
    <2> TAKE i \in 1..m
    <2> TAKE x \in In(i - 1)
    <2>1. turned(i) \in E
        BY TowardsTypes
    <2>2. /\ x \in Seq(E)
          /\ \A e \in E : Has(x, e) <=> \E h \in 1..(i - 1) : lead(h) /\ e = turned(h)
        BY DEF Found
    <2>3. \A h \in 1..i : h \in 1..(i - 1) \/ h = i
        OBVIOUS
    <2>4. \A h \in 1..(i - 1) : h \in 1..i
        OBVIOUS
    <2>5. i \in 1..i
        OBVIOUS
    <2> HIDE DEF lead, turned, E
    <2>6. CASE lead(i)
        <3>1. /\ Append(x, turned(i)) \in Seq(E)
              /\ \A e : Has(Append(x, turned(i)), e) <=> Has(x, e) \/ e = turned(i)
            BY <2>1, <2>2, AppendProperties, HasAppend
        <3>2. \A e \in E : Has(Append(x, turned(i)), e) <=> \E h \in 1..i : lead(h) /\ e = turned(h)
            BY <2>2, <2>3, <2>4, <2>5, <2>6, <3>1
        <3> QED
            BY <2>6, <3>1, <3>2 DEF Found, lead, turned, E
    <2>7. CASE ~lead(i)
        <3>1. \A e \in E : Has(x, e) <=> \E h \in 1..i : lead(h) /\ e = turned(h)
            BY <2>2, <2>3, <2>4, <2>7
        <3> QED
            BY <2>2, <2>7, <3>1 DEF Found, lead, turned, E
    <2> QED
        BY <2>6, <2>7
<1>3. Kids(cs, t, seen) = kids[m]
    BY DEF Kids
<1> HIDE DEF m, In, next
<1>4. \E f : IsKids(f)
    <2>1. <<>> \in SS[0] /\ \A i \in 1..m : \A x \in SS[i - 1] : g[i][x] \in SS[i]
        <3>1. \A i \in 1..m : i - 1 \in 0..m /\ i \in 0..m /\ 0 \in 0..m
            BY <1>1
        <3> HIDE DEF next
        <3> QED
            BY <1>1, <1>2, <3>1
    <2>2. PICK f : Follows(f, m, <<>>, g, SS)
        <3> HIDE DEF SS, g
        <3> QED
            BY <1>1, <2>1, Recursion
    <2>3. /\ f = [i \in 0..m |-> f[i]] /\ f[0] = <<>>
          /\ \A i \in 1..m : f[i - 1] \in SS[i - 1] /\ f[i] = g[i][f[i - 1]]
        BY <2>2 DEF Follows
    <2>4. ASSUME NEW i \in 1..m PROVE f[i] = next(i, f[i - 1])
        <3>1. SS[i - 1] = In(i - 1)
            BY <1>1
        <3> HIDE DEF next, SS
        <3> QED
            BY <2>3, <3>1
    <2>5. \A i \in 0..m : i # 0 => i \in 1..m
        BY <1>1
    <2>6. IsKids(f)
        BY <2>3, <2>4, <2>5
    <2> HIDE DEF IsKids
    <2> QED
        BY <2>6
<1>5. IsKids(kids)
    BY <1>4
<1>6. kids[0] = <<>> /\ \A i \in 1..m : kids[i] = next(i, kids[i - 1])
    <2> HIDE DEF kids
    <2> QED
        BY <1>1, <1>5
<1> HIDE DEF kids, next
<1>7. kids[m] \in In(m)
    <2>1. kids[0] \in SS[0] /\ \A i \in 1..m : kids[i - 1] \in SS[i - 1] => kids[i] \in SS[i]
        BY <1>1, <1>2, <1>6
    <2>2. \A i \in 0..m : kids[i] \in SS[i]
        <3> HIDE DEF SS
        <3> QED
            BY <1>1, <2>1, StaysIn
    <2> QED
        BY <1>1, <2>2
<1> QED
    BY <1>3, <1>7 DEF In, m

-----------------------------------------------------------------------------
(* The number of variants. *)

(* What a table claims are loaded tables.                                  *)
LEMMA ClaimsTypes ==
    ASSUME NEW cs, Len(cs) \in Nat, NEW cur, NEW seen
    PROVE  Claims(cs, cur, seen) \in [seen : SUBSET (seen \cup Tables), new : Seq(Tables)]
<1> DEFINE C == [seen : SUBSET (seen \cup Tables), new : Seq(Tables)]
           m == Len(cs)
           first == [seen |-> seen, new |-> <<>>]
           to(i) == Towards(cs[i], cur).source_table
           next(i, x) == IF LeadsOn(cs[i], cur, x.seen)
                         THEN [seen |-> x.seen \cup {to(i)}, new |-> Append(x.new, to(i))]
                         ELSE x
           IsClaims(f) == f = [i \in 0..m |-> IF i = 0 THEN first ELSE next(i, f[i - 1])]
           SS == [i \in 0..m |-> C]
           g == [i \in 1..m |-> [x \in C |-> next(i, x)]]
           acc == CHOOSE f : IsClaims(f)
<1>1. m \in Nat /\ first \in C
    OBVIOUS
<1>2. \A i \in 1..m : \A x \in C : next(i, x) \in C
    <2> TAKE i \in 1..m
    <2> TAKE x \in C
    <2>1. CASE LeadsOn(cs[i], cur, x.seen)
        <3>1. to(i) \in Tables
            BY <2>1 DEF LeadsOn
        <3> HIDE DEF to
        <3>2. Append(x.new, to(i)) \in Seq(Tables)
            BY <3>1, AppendProperties
        <3> QED
            BY <2>1, <3>1, <3>2
    <2>2. CASE ~LeadsOn(cs[i], cur, x.seen)
        BY <2>2
    <2> QED
        BY <2>1, <2>2
<1>3. Claims(cs, cur, seen) = acc[m]
    BY DEF Claims
<1> HIDE DEF m, first, C, next
<1>4. \E f : IsClaims(f)
    <2>1. first \in SS[0] /\ \A i \in 1..m : \A x \in SS[i - 1] : g[i][x] \in SS[i]
        <3> HIDE DEF next
        <3> QED
            BY <1>1, <1>2
    <2>2. PICK f : Follows(f, m, first, g, SS)
        <3> HIDE DEF SS, g
        <3> QED
            BY <1>1, <2>1, Recursion
    <2>3. /\ f = [i \in 0..m |-> f[i]] /\ f[0] = first
          /\ \A i \in 1..m : f[i - 1] \in SS[i - 1] /\ f[i] = g[i][f[i - 1]]
        BY <2>2 DEF Follows
    <2>4. ASSUME NEW i \in 1..m PROVE f[i] = next(i, f[i - 1])
        <3>1. SS[i - 1] = C
            BY <1>1
        <3> HIDE DEF next, SS
        <3> QED
            BY <2>3, <3>1
    <2>5. \A i \in 0..m : i # 0 => i \in 1..m
        BY <1>1
    <2>6. IsClaims(f)
        BY <2>3, <2>4, <2>5
    <2> HIDE DEF IsClaims
    <2> QED
        BY <2>6
<1>5. IsClaims(acc)
    BY <1>4
<1>6. acc[0] = first /\ \A i \in 1..m : acc[i] = next(i, acc[i - 1])
    <2> HIDE DEF acc
    <2> QED
        BY <1>1, <1>5
<1> HIDE DEF acc, next
<1>7. acc[m] \in C
    <2>1. acc[0] \in SS[0] /\ \A i \in 1..m : acc[i - 1] \in SS[i - 1] => acc[i] \in SS[i]
        BY <1>1, <1>2, <1>6
    <2>2. \A i \in 0..m : acc[i] \in SS[i]
        <3> HIDE DEF SS
        <3> QED
            BY <1>1, <2>1, StaysIn
    <2> QED
        BY <1>1, <2>2
<1> QED
    BY <1>3, <1>7 DEF C

(* A look at the frontier leaves it a sequence of tables, and multiplies.  *)
LEMMA LookedTypes ==
    ASSUME NEW cs, Len(cs) \in Nat,
           NEW acc \in [frontier : Seq(Nat), seen : SUBSET Nat, total : Nat \ {0}]
    PROVE  Looked(cs, acc) \in [frontier : Seq(Nat), seen : SUBSET Nat, total : Nat \ {0}]
<1> DEFINE found == Claims(cs, Last(acc.frontier), acc.seen)
           times == acc.total * factorial(Len(found.new))
<1>1. CASE acc.frontier # <<>>
    <2>1. found \in [seen : SUBSET (acc.seen \cup Tables), new : Seq(Tables)]
        BY ClaimsTypes
    <2>2. Tables \subseteq Nat
        BY ColumnsAssumption DEF Tables
    <2> HIDE DEF found
    <2>3. found.seen \in SUBSET Nat /\ found.new \in Seq(Nat) /\ Len(found.new) \in Nat
        <3>1. found.new \in Seq(Tables) /\ found.seen \subseteq acc.seen \cup Tables
            BY <2>1
        <3>2. found.new \in Seq(Nat)
            BY <2>2, <3>1, SeqMonotonic
        <3>3. acc.seen \subseteq Nat /\ Len(found.new) \in Nat
            BY <3>2
        <3> QED
            BY <2>2, <3>1, <3>2, <3>3
    <2>4. times \in Nat \ {0}
        <3>1. factorial(Len(found.new)) \in Nat \ {0}
            BY <2>3, FactorialEquation
        <3>2. \A x, y \in Nat \ {0} : x * y \in Nat \ {0}
            OBVIOUS
        <3> QED
            BY <3>1, <3>2
    <2> HIDE DEF times
    <2>5. Front(acc.frontier) \o found.new \in Seq(Nat)
        <3>1. Len(acc.frontier) \in Nat /\ Len(acc.frontier) - 1 \in Int
            OBVIOUS
        <3>2. \A i \in 1..(Len(acc.frontier) - 1) : acc.frontier[i] \in Nat
            OBVIOUS
        <3>3. Front(acc.frontier) \in Seq(Nat)
            BY <3>1, <3>2, SubSeqProperties DEF Front
        <3> QED
            BY <2>3, <3>3, ConcatProperties
    <2>6. Looked(cs, acc) = [frontier |-> Front(acc.frontier) \o found.new, seen |-> found.seen,
                             total |-> times]
        BY <1>1 DEF Looked, found, times
    <2> QED
        BY <2>3, <2>4, <2>5, <2>6
<1>2. CASE acc.frontier = <<>>
    BY <1>2 DEF Looked
<1> QED
    BY <1>1, <1>2

(* Every root has a child ordering.                                        *)
LEMMA OrderingsArePositive ==
    ASSUME NEW cs, Len(cs) \in Nat, NEW root \in Nat
    PROVE  child_orderings_for_root(cs, root) \in Nat \ {0}
<1> DEFINE C == [frontier : Seq(Nat), seen : SUBSET Nat, total : Nat \ {0}]
           m == Len(NumCols)
           first == [frontier |-> <<root>>, seen |-> {root}, total |-> 1]
           next(x) == Looked(cs, x)
           IsLook(f) == f = [i \in 0..m |-> IF i = 0 THEN first ELSE next(f[i - 1])]
           SS == [i \in 0..m |-> C]
           g == [i \in 1..m |-> [x \in C |-> next(x)]]
           look == CHOOSE f : IsLook(f)
<1>1. m \in Nat /\ first \in C
    BY ColumnsAssumption
<1>2. \A x \in C : next(x) \in C
    BY LookedTypes
<1>3. child_orderings_for_root(cs, root) = look[m].total
    BY DEF child_orderings_for_root
<1> HIDE DEF m, first, C, next
<1>4. \E f : IsLook(f)
    <2>1. first \in SS[0] /\ \A i \in 1..m : \A x \in SS[i - 1] : g[i][x] \in SS[i]
        BY <1>1, <1>2
    <2>2. PICK f : Follows(f, m, first, g, SS)
        <3> HIDE DEF SS, g
        <3> QED
            BY <1>1, <2>1, Recursion
    <2>3. /\ f = [i \in 0..m |-> f[i]] /\ f[0] = first
          /\ \A i \in 1..m : f[i - 1] \in SS[i - 1] /\ f[i] = g[i][f[i - 1]]
        BY <2>2 DEF Follows
    <2>4. ASSUME NEW i \in 1..m PROVE f[i] = next(f[i - 1])
        <3>1. SS[i - 1] = C
            BY <1>1
        <3> HIDE DEF SS
        <3> QED
            BY <2>3, <3>1
    <2>5. \A i \in 0..m : i # 0 => i \in 1..m
        BY <1>1
    <2>6. IsLook(f)
        BY <2>3, <2>4, <2>5
    <2> HIDE DEF IsLook
    <2> QED
        BY <2>6
<1>5. IsLook(look)
    BY <1>4
<1>6. look[0] = first /\ \A i \in 1..m : look[i] = next(look[i - 1])
    <2> HIDE DEF look
    <2> QED
        BY <1>1, <1>5
<1> HIDE DEF look
<1>7. look[m] \in C
    <2>1. look[0] \in SS[0] /\ \A i \in 1..m : look[i - 1] \in SS[i - 1] => look[i] \in SS[i]
        BY <1>1, <1>2, <1>6
    <2>2. \A i \in 0..m : look[i] \in SS[i]
        <3> HIDE DEF SS
        <3> QED
            BY <1>1, <2>1, StaysIn
    <2> QED
        BY <1>1, <2>2
<1> QED
    BY <1>3, <1>7 DEF C

(* The variants of the first roots are among all.                          *)
LEMMA VariantsGrow ==
    ASSUME NEW cs, Len(cs) \in Nat, NEW tables \in Seq(Nat), NEW n \in 0..Len(tables)
    PROVE  /\ VariantsUpTo(cs, tables, n) \in Nat
           /\ VariantsUpTo(cs, tables, n) <= VariantsUpTo(cs, tables, Len(tables))
<1> DEFINE m == Len(tables)
           of(i) == child_orderings_for_root(cs, tables[i])
           next(i, x) == x + of(i)
           IsSum(f) == f = [i \in 0..m |-> IF i = 0 THEN 0 ELSE next(i, f[i - 1])]
           SS == [i \in 0..m |-> Nat]
           g == [i \in 1..m |-> [x \in Nat |-> next(i, x)]]
           sum == CHOOSE f : IsSum(f)
<1>1. m \in Nat /\ \A i \in 1..m : of(i) \in Nat
    <2>1. m \in Nat /\ \A i \in 1..m : tables[i] \in Nat
        OBVIOUS
    <2>2. \A root \in Nat : child_orderings_for_root(cs, root) \in Nat \ {0}
        BY OrderingsArePositive
    <2> QED
        BY <2>1, <2>2
<1> HIDE DEF of
<1>2. \A i \in 1..m : \A x \in Nat : next(i, x) \in Nat /\ x <= next(i, x)
    BY <1>1
<1>3. \A i \in 0..m : VariantsUpTo(cs, tables, i) = sum[i]
    BY DEF VariantsUpTo, of
<1> HIDE DEF m, next
<1>4. \E f : IsSum(f)
    <2>1. 0 \in SS[0] /\ \A i \in 1..m : \A x \in SS[i - 1] : g[i][x] \in SS[i]
        BY <1>1, <1>2
    <2>2. PICK f : Follows(f, m, 0, g, SS)
        <3> HIDE DEF SS, g
        <3> QED
            BY <1>1, <2>1, Recursion
    <2>3. /\ f = [i \in 0..m |-> f[i]] /\ f[0] = 0
          /\ \A i \in 1..m : f[i - 1] \in SS[i - 1] /\ f[i] = g[i][f[i - 1]]
        BY <2>2 DEF Follows
    <2>4. ASSUME NEW i \in 1..m PROVE f[i] = next(i, f[i - 1])
        <3>1. SS[i - 1] = Nat
            BY <1>1
        <3> HIDE DEF SS
        <3> QED
            BY <2>3, <3>1
    <2>5. \A i \in 0..m : i # 0 => i \in 1..m
        BY <1>1
    <2>6. IsSum(f)
        BY <2>3, <2>4, <2>5
    <2> HIDE DEF IsSum
    <2> QED
        BY <2>6
<1>5. IsSum(sum)
    BY <1>4
<1>6. sum[0] = 0 /\ \A i \in 1..m : sum[i] = next(i, sum[i - 1])
    <2> HIDE DEF sum
    <2> QED
        BY <1>1, <1>5
<1> HIDE DEF sum
<1>7. \A i \in 0..m : sum[i] \in Nat
    <2>1. sum[0] \in SS[0] /\ \A i \in 1..m : sum[i - 1] \in SS[i - 1] => sum[i] \in SS[i]
        BY <1>1, <1>2, <1>6
    <2>2. \A i \in 0..m : sum[i] \in SS[i]
        <3> HIDE DEF SS
        <3> QED
            BY <1>1, <2>1, StaysIn
    <2> QED
        BY <1>1, <2>2
<1>8. ASSUME NEW i \in 1..m PROVE sum[i - 1] <= sum[i]
    <2>1. i - 1 \in 0..m
        BY <1>1
    <2>2. sum[i - 1] \in Nat
        BY <1>7, <2>1
    <2>3. sum[i - 1] <= next(i, sum[i - 1])
        BY <1>2, <2>2
    <2> QED
        BY <1>6, <2>3
<1>9. ASSUME NEW i \in 0..m PROVE sum[i] <= sum[m]
    <2> DEFINE T == {d \in Nat : ~(sum[m - d] <= sum[m])}
    <2>1. 0 \notin T
        <3>1. m - 0 = m /\ m \in 0..m
            BY <1>1
        <3>2. sum[m] <= sum[m]
            BY <1>7, <3>1
        <3> QED
            BY <3>1, <3>2
    <2>2. ASSUME NEW d \in 1..m, d - 1 \notin T PROVE d \notin T
        <3> DEFINE h == m - (d - 1)
        <3>1. h \in 1..m /\ h - 1 = m - d /\ h - 1 \in 0..m /\ h \in 0..m /\ m \in 0..m
              /\ d - 1 \in Nat
            BY <1>1
        <3>2. sum[h] <= sum[m]
            BY <2>2, <3>1
        <3> HIDE DEF h
        <3>3. sum[h - 1] <= sum[h] /\ sum[h - 1] \in Nat /\ sum[h] \in Nat /\ sum[m] \in Nat
            BY <1>7, <1>8, <3>1
        <3>4. sum[m - d] <= sum[m]
            BY <3>1, <3>2, <3>3
        <3> QED
            BY <3>4
    <2>3. \A d \in 0..m : d \notin T
        <3> HIDE DEF T
        <3> QED
            BY <1>1, <2>1, <2>2, UpTo
    <2>4. m - i \in 0..m /\ m - i \in Nat /\ m - (m - i) = i
        BY <1>1
    <2>5. sum[m - (m - i)] <= sum[m]
        BY <2>3, <2>4
    <2> QED
        BY <2>4, <2>5
<1> QED
    BY <1>1, <1>3, <1>7, <1>9 DEF m

-----------------------------------------------------------------------------
(* The traversal's state: stack st, emitted nodes nd, marked tables vis,   *)
(* for query q and merged conditions cs.                                   *)

Walkable(q) == Tables \cap NamedBy(q)
Edges(q) == EdgesOver(NamedBy(q))
FramesOf(q) == [table : Walkable(q), edge : Edges(q) \cup {NoEdge}, kids : Seq(Edges(q))]
EmitsOf(q) == [table : Walkable(q), edge : Edges(q) \cup {NoEdge}]

TypedWalk(q, st, nd) == st \in Seq(FramesOf(q)) /\ nd \in Seq(EmitsOf(q))

(* The marked tables are those on the stack and the emitted ones, each once. *)
Marked(st, nd, vis) ==
    vis = {st[i].table : i \in 1..Len(st)} \cup {nd[n].table : n \in 1..Len(nd)}

Once(st, nd) ==
    /\ \A i, j \in 1..Len(st) : st[i].table = st[j].table => i = j
    /\ \A m, n \in 1..Len(nd) : nd[m].table = nd[n].table => m = n
    /\ \A i \in 1..Len(st), n \in 1..Len(nd) : st[i].table # nd[n].table

(* Every call but the first is for an edge from the caller's table. *)
Nested(q, st) ==
    \A i \in 1..Len(st) :
        /\ i = 1 => st[i].edge = NoEdge
        /\ i # 1 => st[i].edge \in Edges(q) /\ st[i].edge.target_table = st[i - 1].table

(* The children still to be visited are neighbours. *)
KidsOf(cs, fr) ==
    \A i \in 1..Len(fr.kids) :
        /\ fr.kids[i].source_table \in Tables /\ fr.kids[i].target_table = fr.table
        /\ \E j \in 1..Len(cs) : fr.kids[i] = Towards(cs[j], fr.table)

(* The parent of an emitted node is pending or emitted later; only the     *)
(* root, the last, has none.                                               *)
ParentsAhead(q, st, nd) ==
    \A n \in 1..Len(nd) :
        /\ nd[n].edge = NoEdge => n = Len(nd) /\ st = <<>>
        /\ nd[n].edge # NoEdge =>
              \/ \E i \in 1..Len(st) : st[i].table = nd[n].edge.target_table
              \/ \E m \in (n + 1)..Len(nd) : nd[m].table = nd[n].edge.target_table

Calls(q, cs, st, nd, vis) ==
    /\ TypedWalk(q, st, nd) /\ Marked(st, nd, vis) /\ Once(st, nd)
    /\ Nested(q, st) /\ (\A i \in 1..Len(st) : KidsOf(cs, st[i])) /\ ParentsAhead(q, st, nd)

(* A column that a child's edge names is no table's: edges are not NoEdge. *)
LEMMA EdgesAreEdges ==
    ASSUME NEW q, 0 \notin NamedBy(q)
    PROVE  NoEdge \notin Edges(q)
BY DEF Edges, EdgesOver, NoEdge, Oriented

(* A sequence's elements are its head and those of its tail.               *)
LEMMA HeadAndTail ==
    ASSUME NEW S, NEW s \in Seq(S), s # <<>>
    PROVE  /\ Head(s) \in S /\ Has(s, Head(s)) /\ Tail(s) \in Seq(S)
           /\ \A e : Has(s, e) <=> e = Head(s) \/ Has(Tail(s), e)
<1>1. /\ Len(s) \in Nat \ {0} /\ Head(s) = s[1] /\ Head(s) \in S /\ Tail(s) \in Seq(S)
      /\ Len(Tail(s)) = Len(s) - 1
      /\ \A i \in 1..(Len(s) - 1) : Tail(s)[i] = s[i + 1]
    BY HeadTailProperties
<1>2. Has(s, Head(s))
    BY <1>1 DEF Has
<1>3. ASSUME NEW i \in 1..Len(s), i # 1 PROVE Has(Tail(s), s[i])
    <2>1. i - 1 \in 1..(Len(s) - 1) /\ i - 1 + 1 = i
        BY <1>1, <1>3
    <2> QED
        BY <1>1, <2>1 DEF Has
<1>4. ASSUME NEW i \in 1..(Len(s) - 1) PROVE Has(s, Tail(s)[i])
    <2>1. i + 1 \in 1..Len(s)
        BY <1>1
    <2> QED
        BY <1>1, <2>1 DEF Has
<1>5. \A e : Has(s, e) => e = Head(s) \/ Has(Tail(s), e)
    BY <1>1, <1>3 DEF Has
<1>6. \A e : Has(Tail(s), e) => Has(s, e)
    BY <1>1, <1>4 DEF Has
<1> QED
    BY <1>1, <1>2, <1>5, <1>6

(* The frame at the top without its first child, as the whole stack. *)
Dropped(st) ==
    [st EXCEPT ![Len(st)] =
        [table |-> st[Len(st)].table, edge |-> st[Len(st)].edge, kids |-> Tail(st[Len(st)].kids)]]

(* Dropping a child changes no frame in anything else.                     *)
LEMMA DroppingKeeps ==
    ASSUME NEW q, NEW st \in Seq(FramesOf(q)), st # <<>>, st[Len(st)].kids # <<>>
    PROVE  /\ Dropped(st) \in Seq(FramesOf(q)) /\ Len(Dropped(st)) = Len(st)
           /\ \A i \in 1..Len(st) :
                 /\ Dropped(st)[i].table = st[i].table /\ Dropped(st)[i].edge = st[i].edge
                 /\ \A e : Has(Dropped(st)[i].kids, e) => Has(st[i].kids, e)
                 /\ \A e : Has(st[i].kids, e) =>
                       Has(Dropped(st)[i].kids, e) \/ e = Head(st[Len(st)].kids)
<1> DEFINE n == Len(st)
           top == st[n]
           fr == [table |-> top.table, edge |-> top.edge, kids |-> Tail(top.kids)]
<1>1. n \in Nat \ {0} /\ n \in 1..n /\ top \in FramesOf(q)
    BY EmptySeq
<1>2. top.table \in Walkable(q) /\ top.edge \in Edges(q) \cup {NoEdge} /\ top.kids \in Seq(Edges(q))
    BY <1>1 DEF FramesOf
<1>3. Tail(top.kids) \in Seq(Edges(q))
      /\ \A e : Has(top.kids, e) <=> e = Head(top.kids) \/ Has(Tail(top.kids), e)
    BY <1>2, HeadAndTail
<1>4. fr \in FramesOf(q)
    BY <1>2, <1>3 DEF FramesOf
<1>5. Dropped(st) = [st EXCEPT ![n] = fr]
    BY DEF Dropped
<1>6. fr.table = top.table /\ fr.edge = top.edge /\ fr.kids = Tail(top.kids)
    OBVIOUS
<1> HIDE DEF fr
<1>7. /\ Dropped(st) \in Seq(FramesOf(q)) /\ Len(Dropped(st)) = n
      /\ \A i \in 1..n : Dropped(st)[i] = IF i = n THEN fr ELSE st[i]
    BY <1>1, <1>4, <1>5, ExceptSeq
<1> QED
    BY <1>3, <1>6, <1>7

(* The first child of the top frame is dropped.                            *)
LEMMA DropKid ==
    ASSUME NEW q, NEW cs, NEW st, NEW nd, NEW vis, Calls(q, cs, st, nd, vis),
           st # <<>>, st[Len(st)].kids # <<>>
    PROVE  Calls(q, cs, Dropped(st), nd, vis)
<1> DEFINE w == Dropped(st)
<1>1. /\ w \in Seq(FramesOf(q)) /\ Len(w) = Len(st)
      /\ \A i \in 1..Len(st) : /\ w[i].table = st[i].table /\ w[i].edge = st[i].edge
                               /\ \A e : Has(w[i].kids, e) => Has(st[i].kids, e)
    BY DroppingKeeps DEF Calls, TypedWalk
<1>2. Len(st) \in Nat /\ w # <<>>
    BY <1>1, EmptySeq DEF Calls, TypedWalk
<1> HIDE DEF w
<1>3. TypedWalk(q, w, nd) /\ Marked(w, nd, vis)
    BY <1>1 DEF Calls, TypedWalk, Marked
<1>4. Once(w, nd)
    BY <1>1 DEF Calls, Once
<1>5. Nested(q, w)
    <2>1. \A i \in 1..Len(st) : i # 1 => i - 1 \in 1..Len(st)
        BY <1>2
    <2> QED
        BY <1>1, <2>1 DEF Calls, Nested
<1>6. ASSUME NEW i \in 1..Len(st) PROVE KidsOf(cs, w[i])
    <2>1. KidsOf(cs, st[i])
        BY DEF Calls
    <2>2. w[i].table = st[i].table /\ \A e : Has(w[i].kids, e) => Has(st[i].kids, e)
        BY <1>1
    <2> DEFINE old == st[i]
               new == w[i]
    <2> HIDE DEF old, new
    <2>3. ASSUME NEW j \in 1..Len(new.kids)
          PROVE  \E l \in 1..Len(old.kids) : old.kids[l] = new.kids[j]
        <3>1. Has(new.kids, new.kids[j])
            BY DEF Has
        <3> QED
            BY <2>2, <3>1 DEF Has, old, new
    <2>4. new.table = old.table /\ KidsOf(cs, old)
        BY <2>1, <2>2 DEF old, new
    <2>5. KidsOf(cs, new)
        BY <2>3, <2>4 DEF KidsOf
    <2> QED
        BY <2>5 DEF new
<1>7. ParentsAhead(q, w, nd)
    BY <1>1, <1>2 DEF Calls, ParentsAhead
<1> QED
    BY <1>1, <1>3, <1>4, <1>5, <1>6, <1>7 DEF Calls, w

(* A table that is not yet marked is called for.                           *)
LEMMA PushFrame ==
    ASSUME NEW q, NEW cs, NEW st, NEW nd, NEW vis, Calls(q, cs, st, nd, vis), 0 \notin NamedBy(q),
           NEW fr \in FramesOf(q), fr.table \notin vis, KidsOf(cs, fr),
           st = <<>> => fr.edge = NoEdge /\ nd = <<>>,
           st # <<>> => fr.edge \in Edges(q) /\ fr.edge.target_table = st[Len(st)].table
    PROVE  Calls(q, cs, Append(st, fr), nd, vis \cup {fr.table})
<1> DEFINE w == Append(st, fr)
           k == Len(st) + 1
<1>1. /\ Len(st) \in Nat /\ w \in Seq(FramesOf(q)) /\ Len(w) = k /\ w[k] = fr
      /\ \A i \in 1..Len(st) : w[i] = st[i]
      /\ w # <<>>
    BY AppendProperties DEF Calls, TypedWalk
<1>2. k \in Nat /\ k - 1 = Len(st) /\ (\A i \in 1..k : i \in 1..Len(st) \/ i = k) /\ k \in 1..k
      /\ (\A i \in 1..Len(st) : i \in 1..k /\ i # k)
    BY <1>1
<1> HIDE DEF w, k
<1>3. \A i \in 1..Len(st) : st[i].table # fr.table
    BY DEF Calls, Marked
<1>4. \A n \in 1..Len(nd) : nd[n].table # fr.table
    BY DEF Calls, Marked
<1>5. TypedWalk(q, w, nd)
    BY <1>1 DEF Calls, TypedWalk
<1>6. Marked(w, nd, vis \cup {fr.table})
    <2>1. {w[i].table : i \in 1..k} = {st[i].table : i \in 1..Len(st)} \cup {fr.table}
        BY <1>1, <1>2
    <2> QED
        BY <1>1, <2>1 DEF Calls, Marked
<1>7. Once(w, nd)
    <2>1. /\ \A i, j \in 1..Len(st) : st[i].table = st[j].table => i = j
          /\ \A m, n \in 1..Len(nd) : nd[m].table = nd[n].table => m = n
          /\ \A i \in 1..Len(st), n \in 1..Len(nd) : st[i].table # nd[n].table
        BY DEF Calls, Once
    <2>2. \A i, j \in 1..k : w[i].table = w[j].table => i = j
        BY <1>1, <1>2, <1>3, <2>1
    <2>3. \A i \in 1..k, n \in 1..Len(nd) : w[i].table # nd[n].table
        BY <1>1, <1>2, <1>4, <2>1
    <2> QED
        BY <1>1, <2>1, <2>2, <2>3 DEF Once
<1>8. Nested(q, w)
    <2> SUFFICES ASSUME NEW i \in 1..k
                 PROVE  /\ i = 1 => w[i].edge = NoEdge
                        /\ i # 1 => w[i].edge \in Edges(q) /\ w[i].edge.target_table = w[i - 1].table
        BY <1>1 DEF Nested
    <2>1. CASE i = k
        <3>1. CASE st = <<>>
            <4>1. Len(st) = 0
                BY <3>1
            <4>2. k = 1
                BY <1>1, <1>2, <4>1
            <4> QED
                BY <1>1, <2>1, <3>1, <4>2
        <3>2. CASE st # <<>>
            <4>1. Len(st) \in 1..Len(st)
                BY <3>2, EmptySeq DEF Calls, TypedWalk
            <4>2. k # 1 /\ w[k - 1] = st[Len(st)]
                BY <1>1, <1>2, <4>1
            <4> QED
                BY <1>1, <2>1, <3>2, <4>2
        <3> QED
            BY <3>1, <3>2
    <2>2. CASE i # k
        <3>1. i \in 1..Len(st) /\ (i # 1 => i - 1 \in 1..Len(st))
            BY <1>1, <1>2, <2>2
        <3> QED
            BY <1>1, <3>1 DEF Calls, Nested
    <2> QED
        BY <2>1, <2>2
<1>9. \A i \in 1..k : KidsOf(cs, w[i])
    BY <1>1, <1>2 DEF Calls
<1>10. ParentsAhead(q, w, nd)
    <2> SUFFICES ASSUME NEW n \in 1..Len(nd)
                 PROVE  /\ nd[n].edge # NoEdge
                        /\ \/ \E i \in 1..k : w[i].table = nd[n].edge.target_table
                           \/ \E m \in (n + 1)..Len(nd) : nd[m].table = nd[n].edge.target_table
        BY <1>1 DEF ParentsAhead
    <2>1. st # <<>>
        <3>1. nd # <<>>
            OBVIOUS
        <3> QED
            BY <3>1
    <2>2. /\ nd[n].edge # NoEdge
          /\ \/ \E i \in 1..Len(st) : st[i].table = nd[n].edge.target_table
             \/ \E m \in (n + 1)..Len(nd) : nd[m].table = nd[n].edge.target_table
        BY <2>1 DEF Calls, ParentsAhead
    <2>3. ASSUME NEW i \in 1..Len(st), st[i].table = nd[n].edge.target_table
          PROVE  \E x \in 1..k : w[x].table = nd[n].edge.target_table
        BY <1>1, <1>2, <2>3
    <2> QED
        BY <2>2, <2>3
<1> QED
    BY <1>1, <1>5, <1>6, <1>7, <1>8, <1>9, <1>10 DEF Calls, w

(* A sequence without its last element.                                    *)
LEMMA FrontProperties ==
    ASSUME NEW S, NEW s \in Seq(S), s # <<>>
    PROVE  /\ Front(s) \in Seq(S) /\ Len(Front(s)) = Len(s) - 1 /\ Len(s) \in Nat \ {0}
           /\ \A i \in 1..(Len(s) - 1) : Front(s)[i] = s[i]
<1>1. Len(s) \in Nat \ {0} /\ \A i \in 1..(Len(s) - 1) : s[i] \in S
    BY EmptySeq
<1> DEFINE n == Len(s) - 1
<1>2. n \in Nat
    BY <1>1
<1> HIDE DEF n
<1>3. /\ SubSeq(s, 1, n) \in Seq(S) /\ Len(SubSeq(s, 1, n)) = (IF 1 <= n THEN n - 1 + 1 ELSE 0)
      /\ \A i \in 1..(n - 1 + 1) : SubSeq(s, 1, n)[i] = s[1 + i - 1]
    BY <1>1, <1>2, SubSeqProperties DEF n
<1>4. Len(SubSeq(s, 1, n)) = n /\ \A i \in 1..n : SubSeq(s, 1, n)[i] = s[i]
    <2>1. \A i \in 1..n : i \in 1..(n - 1 + 1) /\ 1 + i - 1 = i
        BY <1>2
    <2> QED
        BY <1>2, <1>3, <2>1
<1> QED
    BY <1>1, <1>3, <1>4 DEF Front, n

(* A call ends: its table is emitted after all its children.               *)
LEMMA PopFrame ==
    ASSUME NEW q, NEW cs, NEW st, NEW nd, NEW vis, Calls(q, cs, st, nd, vis), 0 \notin NamedBy(q),
           st # <<>>
    PROVE  LET top == st[Len(st)]
           IN  Calls(q, cs, Front(st), Append(nd, [table |-> top.table, edge |-> top.edge]), vis)
<1> DEFINE k == Len(st)
           top == st[k]
           w == Front(st)
           e == [table |-> top.table, edge |-> top.edge]
           l == Len(nd) + 1
           new == Append(nd, e)
<1>1. st \in Seq(FramesOf(q)) /\ nd \in Seq(EmitsOf(q))
    BY DEF Calls, TypedWalk
<1>2. /\ k \in Nat \ {0} /\ k \in 1..k /\ w \in Seq(FramesOf(q)) /\ Len(w) = k - 1
      /\ \A i \in 1..(k - 1) : w[i] = st[i] /\ i \in 1..k /\ i # k
    BY <1>1, FrontProperties
<1>3. \A i \in 1..k : i \in 1..(k - 1) \/ i = k
    BY <1>2
<1>4. e \in EmitsOf(q) /\ e.table = top.table /\ e.edge = top.edge
    <2>1. top \in FramesOf(q)
        BY <1>1, <1>2
    <2> HIDE DEF top
    <2>2. top.table \in Walkable(q) /\ top.edge \in Edges(q) \cup {NoEdge}
        BY <2>1 DEF FramesOf
    <2> QED
        BY <2>2 DEF EmitsOf
<1> HIDE DEF w, e
<1>5. /\ Len(nd) \in Nat /\ new \in Seq(EmitsOf(q)) /\ Len(new) = l /\ new[l] = e
      /\ \A n \in 1..Len(nd) : new[n] = nd[n]
    BY <1>1, <1>4, AppendProperties
<1>6. l \in Nat /\ l \in 1..l /\ (\A n \in 1..l : n \in 1..Len(nd) \/ n = l)
      /\ (\A n \in 1..Len(nd) : n \in 1..l /\ n # l /\ n < l)
    BY <1>5
<1> HIDE DEF new, l, k
<1>7. TypedWalk(q, w, new)
    BY <1>2, <1>5 DEF TypedWalk
<1>8. Marked(w, new, vis)
    <2>1. vis = {st[i].table : i \in 1..k} \cup {nd[n].table : n \in 1..Len(nd)}
        BY DEF Calls, Marked, k
    <2>2. {st[i].table : i \in 1..k} = {w[i].table : i \in 1..(k - 1)} \cup {e.table}
        BY <1>2, <1>3, <1>4
    <2>3. {new[n].table : n \in 1..l} = {nd[n].table : n \in 1..Len(nd)} \cup {e.table}
        BY <1>5, <1>6
    <2> QED
        BY <1>2, <1>5, <2>1, <2>2, <2>3 DEF Marked
<1>9. Once(w, new)
    <2>1. /\ \A i, j \in 1..k : st[i].table = st[j].table => i = j
          /\ \A m, n \in 1..Len(nd) : nd[m].table = nd[n].table => m = n
          /\ \A i \in 1..k, n \in 1..Len(nd) : st[i].table # nd[n].table
        BY DEF Calls, Once, k
    <2>2. \A i, j \in 1..(k - 1) : w[i].table = w[j].table => i = j
        BY <1>2, <2>1
    <2>3. \A m, n \in 1..l : new[m].table = new[n].table => m = n
        BY <1>2, <1>4, <1>5, <1>6, <2>1
    <2>4. \A i \in 1..(k - 1), n \in 1..l : w[i].table # new[n].table
        BY <1>2, <1>4, <1>5, <1>6, <2>1
    <2> QED
        BY <1>2, <1>5, <2>2, <2>3, <2>4 DEF Once
<1>10. Nested(q, w)
    <2>1. \A i \in 1..(k - 1) : i # 1 => i - 1 \in 1..(k - 1)
        BY <1>2
    <2> QED
        BY <1>2, <2>1 DEF Calls, Nested, k
<1>11. \A i \in 1..(k - 1) : KidsOf(cs, w[i])
    BY <1>2 DEF Calls, k
<1>12. ParentsAhead(q, w, new)
    <2>1. ASSUME NEW n \in 1..Len(nd)
          PROVE  /\ nd[n].edge # NoEdge
                 /\ \/ \E i \in 1..(k - 1) : w[i].table = nd[n].edge.target_table
                    \/ \E m \in (n + 1)..l : new[m].table = nd[n].edge.target_table
        <3> DEFINE p == nd[n].edge.target_table
        <3>1. /\ nd[n].edge # NoEdge
              /\ (\E i \in 1..k : st[i].table = p) \/ (\E m \in (n + 1)..Len(nd) : nd[m].table = p)
            BY DEF Calls, ParentsAhead, k
        <3>2. ASSUME NEW i \in 1..k, st[i].table = p
              PROVE  (\E x \in 1..(k - 1) : w[x].table = p) \/ (\E m \in (n + 1)..l : new[m].table = p)
            <4>1. CASE i = k
                <5>1. l \in (n + 1)..l /\ new[l].table = p
                    BY <1>4, <1>5, <1>6, <3>2, <4>1
                <5> QED
                    BY <5>1
            <4>2. CASE i # k
                BY <1>2, <1>3, <3>2, <4>2
            <4> QED
                BY <4>1, <4>2
        <3>3. ASSUME NEW m \in (n + 1)..Len(nd), nd[m].table = p
              PROVE  \E x \in (n + 1)..l : new[x].table = p
            <4>1. m \in (n + 1)..l /\ m \in 1..Len(nd)
                BY <1>5, <1>6
            <4> QED
                BY <1>5, <3>3, <4>1
        <3> QED
            BY <3>1, <3>2, <3>3
    <2>2. e.edge = NoEdge => w = <<>>
        <3>1. ASSUME k # 1 PROVE e.edge # NoEdge
            <4>1. top.edge \in Edges(q)
                BY <1>2, <3>1 DEF Calls, Nested, k
            <4> QED
                BY <1>4, <4>1, EdgesAreEdges
        <3>2. k = 1 => w = <<>>
            <4>1. k = 1 => Len(w) = 0
                BY <1>2
            <4> QED
                BY <1>2, <4>1, EmptySeq
        <3> QED
            BY <3>1, <3>2
    <2>3. e.edge # NoEdge => \E i \in 1..(k - 1) : w[i].table = e.edge.target_table
        <3>1. ASSUME k # 1 PROVE \E i \in 1..(k - 1) : w[i].table = e.edge.target_table
            <4>1. top.edge.target_table = st[k - 1].table /\ k - 1 \in 1..(k - 1)
                BY <1>2, <3>1 DEF Calls, Nested, k
            <4> QED
                BY <1>2, <1>4, <4>1
        <3>2. k = 1 => e.edge = NoEdge
            BY <1>2, <1>4 DEF Calls, Nested, k
        <3> QED
            BY <3>1, <3>2
    <2> SUFFICES ASSUME NEW n \in 1..l
                 PROVE  /\ new[n].edge = NoEdge => n = l /\ w = <<>>
                        /\ new[n].edge # NoEdge =>
                              \/ \E i \in 1..(k - 1) : w[i].table = new[n].edge.target_table
                              \/ \E m \in (n + 1)..l : new[m].table = new[n].edge.target_table
        BY <1>2, <1>5 DEF ParentsAhead
    <2>4. CASE n = l
        BY <1>5, <2>2, <2>3, <2>4
    <2>5. CASE n # l
        <3>1. n \in 1..Len(nd) /\ new[n] = nd[n]
            BY <1>5, <1>6, <2>5
        <3> QED
            BY <2>1, <3>1
    <2> QED
        BY <2>4, <2>5
<1> QED
    BY <1>2, <1>7, <1>8, <1>9, <1>10, <1>11, <1>12 DEF Calls, w, new, e, k

-----------------------------------------------------------------------------
(* No neighbour is forgotten. *)

Linked(cs, t, u) ==
    \E j \in 1..Len(cs) :
        \/ cs[j].source_table = t /\ cs[j].target_table = u
        \/ cs[j].source_table = u /\ cs[j].target_table = t

(* The neighbours of a pending table are marked or still to be visited. *)
Covers(cs, fr, vis) ==
    \A u \in Tables : Linked(cs, fr.table, u) =>
        u \in vis \/ \E i \in 1..Len(fr.kids) : fr.kids[i].source_table = u

Closed(cs, st, nd, vis) ==
    /\ \A i \in 1..Len(st) : Covers(cs, st[i], vis)
    /\ \A n \in 1..Len(nd) : \A u \in Tables : Linked(cs, nd[n].table, u) => u \in vis

(* A frame for t, reached by edge, that has all neighbours not seen yet. *)
CallFor(q, fr, t, edge, seen) ==
    /\ fr \in FramesOf(q) /\ fr.table = t /\ fr.edge = edge
    /\ KidsOf(join_conditions, fr) /\ Covers(join_conditions, fr, seen)

(* A new call has all of its table's neighbours that are not marked yet,   *)
(* in some order, and leaves a number.                                     *)
LEMMA NewFrame ==
    ASSUME NEW q, join_conditions \in Seq(Edges(q)), NEW t \in Walkable(q),
           NEW edge \in Edges(q) \cup {NoEdge}, NEW seen, t \in seen, NEW perm \in Nat
    PROVE  /\ CallFor(q, Frame(t, edge, seen, perm), t, edge, seen)
           /\ PermLeft(perm, Kids(join_conditions, t, seen)) \in Nat
<1> DEFINE cs == join_conditions
           kids == Kids(cs, t, seen)
           digit == Digit(perm, kids)
           order == nth_permutation(kids, digit)
           fr == [table |-> t, edge |-> edge, kids |-> order]
<1>1. /\ kids \in Seq(Edges(q)) /\ Len(kids) \in Nat
      /\ \A e \in Edges(q) : Has(kids, e) <=>
            \E h \in 1..Len(cs) : LeadsOn(cs[h], t, seen) /\ e = Towards(cs[h], t)
    <2>1. kids \in Found(cs, NamedBy(q), t, seen, Len(cs))
        BY KidsFound DEF Edges
    <2> HIDE DEF kids
    <2> QED
        BY <2>1 DEF Found, Edges
<1>2. Frame(t, edge, seen, perm) = fr
    BY DEF Frame
<1> HIDE DEF kids
<1>3. /\ digit \in Nat /\ digit < factorial(Len(kids))
      /\ PermLeft(perm, kids) \in Nat
    <2> DEFINE f == factorial(Len(kids))
    <2>1. f \in Nat \ {0}
        BY <1>1, FactorialEquation
    <2> HIDE DEF f
    <2>2. perm % f \in Nat /\ perm % f < f /\ perm \div f \in Nat
        BY <2>1, DivMod
    <2> QED
        BY <2>1, <2>2 DEF Digit, PermLeft, f
<1> HIDE DEF digit
<1>4. order \in Seq(Edges(q)) /\ \A e \in Edges(q) : Has(order, e) <=> Has(kids, e)
    BY <1>1, <1>3, PermutationKeeps
<1> HIDE DEF order, cs
<1>5. fr \in FramesOf(q) /\ fr.table = t /\ fr.edge = edge /\ fr.kids = order
    BY <1>4 DEF FramesOf
<1> HIDE DEF fr
<1>6. \A j \in 1..Len(cs) : cs[j] \in Edges(q)
    BY DEF cs
<1>7. KidsOf(cs, fr)
    <2> SUFFICES ASSUME NEW i \in 1..Len(order)
                 PROVE  /\ order[i].source_table \in Tables /\ order[i].target_table = t
                        /\ \E j \in 1..Len(cs) : order[i] = Towards(cs[j], t)
        BY <1>5 DEF KidsOf
    <2> DEFINE e == order[i]
    <2>1. e \in Edges(q) /\ Has(order, e)
        BY <1>4 DEF Has
    <2> HIDE DEF e
    <2>2. PICK h \in 1..Len(cs) : LeadsOn(cs[h], t, seen) /\ e = Towards(cs[h], t)
        BY <1>1, <1>4, <2>1
    <2>3. Touches(cs[h], t) /\ Towards(cs[h], t).source_table \in Tables
        BY <2>2 DEF LeadsOn
    <2>4. Towards(cs[h], t).target_table = t
        BY <1>6, <2>3, TowardsTypes DEF Edges
    <2> QED
        BY <2>2, <2>3, <2>4 DEF e
<1>8. Covers(cs, fr, seen)
    <2> SUFFICES ASSUME NEW u \in Tables, Linked(cs, t, u), u \notin seen
                 PROVE  \E i \in 1..Len(order) : order[i].source_table = u
        BY <1>5 DEF Covers
    <2>1. PICK j \in 1..Len(cs) : \/ cs[j].source_table = t /\ cs[j].target_table = u
                                  \/ cs[j].source_table = u /\ cs[j].target_table = t
        BY DEF Linked
    <2> DEFINE e == Towards(cs[j], t)
    <2>2. e.source_table = u /\ Touches(cs[j], t)
        BY <2>1 DEF Towards, Reversed, Touches
    <2>3. LeadsOn(cs[j], t, seen)
        BY <2>2 DEF LeadsOn
    <2>4. e \in Edges(q)
        BY <1>6, TowardsTypes DEF Edges
    <2>5. Has(order, e)
        BY <1>1, <1>4, <2>3, <2>4
    <2> HIDE DEF e
    <2> QED
        BY <2>2, <2>5 DEF Has
<1> QED
    BY <1>2, <1>3, <1>5, <1>7, <1>8 DEF CallFor, cs, kids

(* Dropping a child that is marked forgets no neighbour.                   *)
LEMMA DropClosed ==
    ASSUME NEW q, NEW cs, NEW st \in Seq(FramesOf(q)), NEW nd, NEW vis, Closed(cs, st, nd, vis),
           st # <<>>, st[Len(st)].kids # <<>>
    PROVE  Closed(cs, Dropped(st), nd, vis \cup {Head(st[Len(st)].kids).source_table})
<1> DEFINE w == Dropped(st)
           kid == Head(st[Len(st)].kids)
           more == vis \cup {kid.source_table}
<1>1. /\ Len(w) = Len(st)
      /\ \A i \in 1..Len(st) : /\ w[i].table = st[i].table
                               /\ \A e : Has(st[i].kids, e) => Has(w[i].kids, e) \/ e = kid
    BY DroppingKeeps
<1> HIDE DEF w, kid
<1>2. ASSUME NEW i \in 1..Len(st) PROVE Covers(cs, w[i], more)
    <2>1. Covers(cs, st[i], vis)
        BY DEF Closed
    <2>2. w[i].table = st[i].table /\ \A e : Has(st[i].kids, e) => Has(w[i].kids, e) \/ e = kid
        BY <1>1
    <2> DEFINE old == st[i]
               new == w[i]
    <2> HIDE DEF old, new
    <2>3. ASSUME NEW l \in 1..Len(old.kids), old.kids[l] # kid
          PROVE  \E j \in 1..Len(new.kids) : new.kids[j] = old.kids[l]
        <3>1. Has(old.kids, old.kids[l])
            BY DEF Has
        <3>2. Has(new.kids, old.kids[l])
            BY <2>2, <2>3, <3>1 DEF old, new
        <3> QED
            BY <3>2 DEF Has
    <2>4. new.table = old.table /\ Covers(cs, old, vis)
        BY <2>1, <2>2 DEF old, new
    <2>5. Covers(cs, new, more)
        BY <2>3, <2>4 DEF Covers
    <2> QED
        BY <2>5 DEF new
<1>3. \A n \in 1..Len(nd) : \A u \in Tables : Linked(cs, nd[n].table, u) => u \in more
    BY DEF Closed
<1> QED
    BY <1>1, <1>2, <1>3 DEF Closed, w, kid

(* A new call whose neighbours are marked or to be visited forgets none.   *)
LEMMA PushClosed ==
    ASSUME NEW q, NEW cs, NEW st \in Seq(FramesOf(q)), NEW nd, NEW vis, Closed(cs, st, nd, vis),
           NEW fr \in FramesOf(q), Covers(cs, fr, vis)
    PROVE  Closed(cs, Append(st, fr), nd, vis)
<1>1. /\ Len(st) \in Nat /\ Len(Append(st, fr)) = Len(st) + 1 /\ Append(st, fr)[Len(st) + 1] = fr
      /\ \A i \in 1..Len(st) : Append(st, fr)[i] = st[i]
    BY AppendProperties
<1>2. \A i \in 1..(Len(st) + 1) : i \in 1..Len(st) \/ i = Len(st) + 1
    BY <1>1
<1> QED
    BY <1>1, <1>2 DEF Closed

(* A call that ends has no child left: its table's neighbours are marked.  *)
LEMMA PopClosed ==
    ASSUME NEW q, NEW cs, NEW st \in Seq(FramesOf(q)), NEW nd \in Seq(EmitsOf(q)), NEW vis,
           Closed(cs, st, nd, vis), st # <<>>, st[Len(st)].kids = <<>>,
           NEW e \in EmitsOf(q), e.table = st[Len(st)].table
    PROVE  Closed(cs, Front(st), Append(nd, e), vis)
<1> DEFINE w == Front(st)
           new == Append(nd, e)
<1>1. /\ Len(st) \in Nat \ {0} /\ Len(w) = Len(st) - 1
      /\ \A i \in 1..(Len(st) - 1) : w[i] = st[i]
    BY FrontProperties
<1>2. /\ Len(nd) \in Nat /\ Len(new) = Len(nd) + 1 /\ new[Len(nd) + 1] = e
      /\ \A n \in 1..Len(nd) : new[n] = nd[n]
    BY AppendProperties
<1> HIDE DEF w, new
<1>3. \A i \in 1..(Len(st) - 1) : i \in 1..Len(st)
    BY <1>1
<1>4. \A u \in Tables : Linked(cs, e.table, u) => u \in vis
    <2>1. Len(st) \in 1..Len(st) /\ Len(st[Len(st)].kids) = 0
        BY <1>1
    <2> QED
        BY <2>1 DEF Closed, Covers
<1>5. \A n \in 1..(Len(nd) + 1) : n \in 1..Len(nd) \/ n = Len(nd) + 1
    BY <1>2
<1> QED
    BY <1>1, <1>2, <1>3, <1>4, <1>5 DEF Closed, w, new

-----------------------------------------------------------------------------
(* The tree at the end. *)

(* A join graph's side stays inside a set of tables that has its start and *)
(* all neighbours.                                                         *)
LEMMA SideInside ==
    ASSUME NEW q, Len(q.tables) \in Nat, NEW t, NEW u, NEW V, t \in V,
           \A x \in V, w \in TablesOf(q) \ {u} : Adjacent(q, x, w) => w \in V
    PROVE  Side(q, t, u) \subseteq V
<1> DEFINE m == Len(q.tables)
           first == {t}
           C == SUBSET V
           next(s) == s \cup {w \in TablesOf(q) \ {u} : \E x \in s : Adjacent(q, x, w)}
           IsSide(f) == f = [i \in 0..m |-> IF i = 0 THEN first ELSE next(f[i - 1])]
           SS == [i \in 0..m |-> C]
           g == [i \in 1..m |-> [x \in C |-> next(x)]]
           side == CHOOSE f : IsSide(f)
<1>1. m \in Nat /\ first \in C
    OBVIOUS
<1>2. \A x \in C : next(x) \in C
    OBVIOUS
<1>3. Side(q, t, u) = side[m]
    BY DEF Side
<1> HIDE DEF m, C, first, next
<1>4. \E f : IsSide(f)
    <2>1. first \in SS[0] /\ \A i \in 1..m : \A x \in SS[i - 1] : g[i][x] \in SS[i]
        BY <1>1, <1>2
    <2>2. PICK f : Follows(f, m, first, g, SS)
        <3> HIDE DEF SS, g
        <3> QED
            BY <1>1, <2>1, Recursion
    <2>3. /\ f = [i \in 0..m |-> f[i]] /\ f[0] = first
          /\ \A i \in 1..m : f[i - 1] \in SS[i - 1] /\ f[i] = g[i][f[i - 1]]
        BY <2>2 DEF Follows
    <2>4. ASSUME NEW i \in 1..m PROVE f[i] = next(f[i - 1])
        <3>1. SS[i - 1] = C
            BY <1>1
        <3> HIDE DEF SS
        <3> QED
            BY <2>3, <3>1
    <2>5. \A i \in 0..m : i # 0 => i \in 1..m
        BY <1>1
    <2>6. IsSide(f)
        BY <2>3, <2>4, <2>5
    <2> HIDE DEF IsSide
    <2> QED
        BY <2>6
<1>5. IsSide(side)
    BY <1>4
<1>6. side[0] = first /\ \A i \in 1..m : side[i] = next(side[i - 1])
    <2> HIDE DEF side
    <2> QED
        BY ONLY <1>1, <1>5
<1> HIDE DEF side
<1>7. side[m] \in C
    <2>1. side[0] \in SS[0] /\ \A i \in 1..m : side[i - 1] \in SS[i - 1] => side[i] \in SS[i]
        BY <1>1, <1>2, <1>6
    <2>2. \A i \in 0..m : side[i] \in SS[i]
        <3> HIDE DEF SS
        <3> QED
            BY <1>1, <2>1, StaysIn
    <2> QED
        BY <1>1, <2>2
<1> QED
    BY <1>3, <1>7 DEF C

(* The different elements of a sequence.                                   *)
LEMMA DifferentElements ==
    ASSUME NEW S, NEW s \in Seq(S)
    PROVE  LET elements == {s[i] : i \in 1..Len(s)}
           IN  /\ IsFiniteSet(elements) /\ Cardinality(elements) \in Nat
               /\ Cardinality(elements) <= Len(s)
               /\ (\A i, j \in 1..Len(s) : s[i] = s[j] => i = j) => Cardinality(elements) = Len(s)
<1> DEFINE n == Len(s)
           elements == {s[i] : i \in 1..n}
           f == [i \in 1..n |-> s[i]]
<1>1. n \in Nat
    OBVIOUS
<1> HIDE DEF n
<1>2. f \in Surjection(1..n, elements)
    BY DEF Surjection
<1>3. ExistsSurjection(1..n, elements)
    BY <1>2 DEF ExistsSurjection
<1> HIDE DEF f, elements
<1>4. IsFiniteSet(elements) /\ Cardinality(elements) <= n
    BY <1>1, <1>3, FS_NatSurjection, FS_SurjCardinalityBound
<1>5. Cardinality(elements) \in Nat
    BY <1>4, FS_CardinalityType
<1>6. ASSUME \A i, j \in 1..n : s[i] = s[j] => i = j
      PROVE  Cardinality(elements) = n
    <2>1. f \in Injection(1..n, elements)
        BY <1>2, <1>6 DEF Surjection, Injection, IsInjective, f
    <2>2. ExistsBijection(1..n, elements)
        BY <1>2, <2>1 DEF ExistsBijection, Bijection
    <2> QED
        BY <1>1, <2>2, FS_CountingElements
<1> QED
    BY <1>4, <1>5, <1>6 DEF elements, n

(* At the end the marked tables are the emitted ones, among those that the *)
(* query names: the FROM clause's, if the WHERE clause names no others.    *)
LEMMA AllEmitted ==
    ASSUME NEW q \in Queries, NEW cs, NEW st, NEW nd, NEW vis, Calls(q, cs, st, nd, vis), st = <<>>
    PROVE  /\ vis = {nd[n].table : n \in 1..Len(nd)} /\ vis \subseteq Tables
           /\ Len(nd) \in Nat /\ Cardinality(vis) = Len(nd)
           /\ IsFiniteSet(TablesOf(q)) /\ Cardinality(TablesOf(q)) <= Len(q.tables)
           /\ WhereNamesFrom(q) /\ Cardinality(vis) = Len(q.tables) => vis = TablesOf(q)
           /\ WhereNamesFrom(q) /\ TablesOf(q) \subseteq vis
              /\ (\A i, j \in 1..Len(q.tables) : q.tables[i] = q.tables[j] => i = j)
                 => Cardinality(vis) = Len(q.tables)
<1> DEFINE names == [n \in 1..Len(nd) |-> nd[n].table]
<1>1. Len(st) = 0 /\ nd \in Seq(EmitsOf(q)) /\ Len(nd) \in Nat
    BY DEF Calls, TypedWalk
<1>2. ASSUME NEW n \in 1..Len(nd) PROVE nd[n].table \in Walkable(q)
    <2> DEFINE e == nd[n]
    <2>1. e \in EmitsOf(q)
        BY <1>1
    <2> HIDE DEF e
    <2>2. e.table \in Walkable(q)
        BY <2>1 DEF EmitsOf
    <2> QED
        BY <2>2 DEF e
<1>3. vis = {nd[n].table : n \in 1..Len(nd)}
    BY <1>1 DEF Calls, Marked
<1>4. vis \subseteq Tables /\ (WhereNamesFrom(q) => vis \subseteq TablesOf(q))
    <2>1. vis \subseteq Tables /\ vis \subseteq NamedBy(q)
        BY <1>2, <1>3 DEF Walkable
    <2>2. WhereNamesFrom(q) => NamedBy(q) \subseteq TablesOf(q)
        BY DEF WhereNamesFrom, NamedBy
    <2> QED
        BY <2>1, <2>2
<1>5. Cardinality(vis) = Len(nd)
    <2>1. names \in Seq(Walkable(q)) /\ Len(names) = Len(nd)
        BY <1>1, <1>2
    <2>2. \A i, j \in 1..Len(names) : names[i] = names[j] => i = j
        BY <1>1, <2>1 DEF Calls, Once
    <2>3. {names[n] : n \in 1..Len(names)} = vis
        BY <1>3, <2>1
    <2> HIDE DEF names
    <2> QED
        BY <2>1, <2>2, <2>3, DifferentElements
<1>6. q.tables \in Seq(Nat \ {0}) /\ Len(q.tables) \in Nat
      /\ TablesOf(q) = {q.tables[i] : i \in 1..Len(q.tables)}
    BY QueriesAssumption DEF TablesOf
<1>7. /\ IsFiniteSet(TablesOf(q)) /\ Cardinality(TablesOf(q)) <= Len(q.tables)
      /\ (\A i, j \in 1..Len(q.tables) : q.tables[i] = q.tables[j] => i = j)
            => Cardinality(TablesOf(q)) = Len(q.tables)
      /\ Cardinality(TablesOf(q)) \in Nat
    BY <1>6, DifferentElements
<1>8. WhereNamesFrom(q) =>
         /\ Cardinality(vis) <= Cardinality(TablesOf(q))
         /\ Cardinality(TablesOf(q)) = Cardinality(vis) => vis = TablesOf(q)
    BY <1>4, <1>7, FS_Subset
<1>9. WhereNamesFrom(q) /\ Cardinality(vis) = Len(q.tables) => vis = TablesOf(q)
    BY <1>1, <1>5, <1>6, <1>7, <1>8
<1>10. WhereNamesFrom(q) /\ TablesOf(q) \subseteq vis
              /\ (\A i, j \in 1..Len(q.tables) : q.tables[i] = q.tables[j] => i = j)
                 => Cardinality(vis) = Len(q.tables)
    <2>1. WhereNamesFrom(q) /\ TablesOf(q) \subseteq vis => TablesOf(q) = vis
        BY <1>4
    <2> QED
        BY <1>7, <2>1
<1> QED
    BY <1>1, <1>3, <1>4, <1>5, <1>7, <1>9, <1>10

(* An edge joins the columns of a condition. *)
Joins(e, c) ==
    /\ e.source_table = c.left /\ e.source_column = c.left_col
    /\ e.target_table = c.right /\ e.target_column = c.right_col

Merging(q, gs, cs) ==
    /\ gs \subseteq {Columns(q.conditions[i]) : i \in DOMAIN q.conditions}
    /\ cs \in Seq(Edges(q))
    /\ \A j \in 1..Len(cs) : \E i \in DOMAIN q.conditions : Joins(cs[j], q.conditions[i])
    /\ \A i \in DOMAIN q.conditions :
          Columns(q.conditions[i]) \in gs \/ \E j \in 1..Len(cs) : Joins(cs[j], q.conditions[i])

Loaded(q) == \A i \in DOMAIN q.tables : q.tables[i] \in Tables

Rooted(q, vis) == \E i \in DOMAIN q.tables : q.tables[i] \in vis

Disconnected(q) ==
    \E i, j \in DOMAIN q.tables : i # j /\ q.tables[j] \notin Side(q, q.tables[i], 0) \ {q.tables[i]}

(* A traversal that does not reach as many tables as there are has found a *)
(* query whose join graph is disconnected, that names a table twice, or    *)
(* that names one in the WHERE clause alone.                               *)
LEMMA MissedTables ==
    ASSUME NEW q \in Queries, NEW cs, NEW st, NEW nd, NEW vis, Calls(q, cs, st, nd, vis), st = <<>>,
           Merging(q, {}, cs), Closed(cs, st, nd, vis), Loaded(q), Rooted(q, vis), WhereNamesFrom(q),
           Cardinality(vis) # Len(q.tables)
    PROVE  Disconnected(q)
<1>1. SUFFICES ASSUME \A i, j \in DOMAIN q.tables : i # j =>
                          q.tables[j] \in Side(q, q.tables[i], 0) /\ q.tables[j] # q.tables[i]
               PROVE  FALSE
    BY DEF Disconnected
<1>2. q.tables \in Seq(Nat \ {0}) /\ Len(q.tables) \in Nat /\ DOMAIN q.tables = 1..Len(q.tables)
    BY QueriesAssumption
<1>3. PICK r \in 1..Len(q.tables) : q.tables[r] \in vis
    BY <1>2 DEF Rooted
<1>4. vis = {nd[n].table : n \in 1..Len(nd)}
    BY AllEmitted
<1>5. ASSUME NEW x \in vis, NEW w \in TablesOf(q) \ {0}, Adjacent(q, x, w) PROVE w \in vis
    <2>1. PICK n \in 1..Len(nd) : x = nd[n].table
        BY <1>4
    <2>2. w \in Tables
        BY <1>2 DEF Loaded, TablesOf
    <2>3. PICK i \in DOMAIN q.conditions : {q.conditions[i].left, q.conditions[i].right} = {x, w}
        BY <1>5 DEF Adjacent
    <2>4. PICK j \in 1..Len(cs) : Joins(cs[j], q.conditions[i])
        BY DEF Merging
    <2>5. {cs[j].source_table, cs[j].target_table} = {x, w}
        BY <2>3, <2>4 DEF Joins
    <2>6. \/ cs[j].source_table = x /\ cs[j].target_table = w
          \/ cs[j].source_table = w /\ cs[j].target_table = x
        BY <2>5
    <2>7. Linked(cs, x, w)
        BY <2>6 DEF Linked
    <2> QED
        BY <2>1, <2>2, <2>7 DEF Closed
<1>6. Side(q, q.tables[r], 0) \subseteq vis
    BY <1>2, <1>3, <1>5, SideInside
<1>7. TablesOf(q) \subseteq vis
    BY <1>1, <1>2, <1>3, <1>6 DEF TablesOf
<1>8. \A i, j \in 1..Len(q.tables) : q.tables[i] = q.tables[j] => i = j
    BY <1>1, <1>2
<1>9. Cardinality(vis) = Len(q.tables)
    BY <1>7, <1>8, AllEmitted
<1> QED
    BY <1>9

(* The nodes with their parents' positions, as SerializeEnd numbers them. *)
ParentPos(edge) == IF edge = NoEdge THEN 0 ELSE NodePos(edge.target_table)

(* The tree made of the emitted nodes is a post-order of the query's       *)
(* tables.                                                                 *)
LEMMA TreeFromNodes ==
    ASSUME NEW q \in Queries, NEW cs, Calls(q, cs, stack, nodes, visited), stack = <<>>,
           Cardinality(visited) = Len(q.tables),
           NEW tr, DOMAIN tr = DOMAIN nodes,
           \A i \in DOMAIN nodes : tr[i].table = nodes[i].table /\ tr[i].parent_idx = ParentPos(nodes[i].edge),
           Len(tr) = Len(nodes)
    PROVE  /\ \A i \in DOMAIN tr :
                 IF i = Len(tr) THEN IsRoot(tr, i) ELSE tr[i].parent_idx \in (i + 1)..Len(tr)
           /\ Len(tr) = Len(q.tables)
           /\ WhereNamesFrom(q) => \A t \in TablesOf(q) : \E i \in DOMAIN tr : tr[i].table = t
<1> DEFINE L == Len(nodes)
<1>1. /\ nodes \in Seq(EmitsOf(q)) /\ DOMAIN nodes = 1..L /\ L \in Nat /\ Len(stack) = 0
    BY DEF Calls, TypedWalk
<1>2. /\ visited = {nodes[n].table : n \in 1..L} /\ (WhereNamesFrom(q) => visited = TablesOf(q))
      /\ Cardinality(visited) = L
    BY AllEmitted
<1>3. /\ \A m, n \in 1..L : nodes[m].table = nodes[n].table => m = n
      /\ \A n \in 1..L :
            /\ nodes[n].edge = NoEdge => n = L
            /\ nodes[n].edge # NoEdge =>
                  \E m \in (n + 1)..L : nodes[m].table = nodes[n].edge.target_table
    <2>1. \A i : ~(i \in 1..Len(stack))
        BY <1>1
    <2>2. Once(stack, nodes) /\ ParentsAhead(q, stack, nodes)
        BY DEF Calls
    <2>3. \A m, n \in 1..L : nodes[m].table = nodes[n].table => m = n
        BY <2>2 DEF Once
    <2>4. ASSUME NEW n \in 1..L
          PROVE  /\ nodes[n].edge = NoEdge => n = L
                 /\ nodes[n].edge # NoEdge =>
                       \E m \in (n + 1)..L : nodes[m].table = nodes[n].edge.target_table
        BY <2>1, <2>2 DEF ParentsAhead
    <2> QED
        BY <2>3, <2>4
<1> HIDE DEF L
<1>4. ASSUME NEW n \in 1..L, n # L PROVE tr[n].parent_idx \in (n + 1)..L
    <2> DEFINE p == nodes[n].edge.target_table
    <2>1. nodes[n].edge # NoEdge
        BY <1>3, <1>4
    <2>2. PICK m \in (n + 1)..L : nodes[m].table = p
        BY <1>3, <2>1
    <2>3. m \in 1..L
        BY <1>1
    <2> HIDE DEF p
    <2>4. NodePos(p) \in DOMAIN nodes /\ nodes[NodePos(p)].table = p
        BY <1>1, <2>2, <2>3 DEF NodePos
    <2>5. NodePos(p) = m
        BY <1>1, <1>3, <2>2, <2>3, <2>4
    <2> QED
        BY <1>1, <2>1, <2>2, <2>5 DEF ParentPos, p
<1>5. ASSUME L # 0 PROVE tr[L].parent_idx = 0
    <2>1. L \in 1..L /\ \A m \in (L + 1)..L : FALSE
        BY <1>1, <1>5
    <2>2. nodes[L].edge = NoEdge
        BY <1>3, <2>1
    <2> QED
        BY <1>1, <2>1, <2>2 DEF ParentPos
<1>6. \A i \in DOMAIN tr : IF i = Len(tr) THEN IsRoot(tr, i) ELSE tr[i].parent_idx \in (i + 1)..Len(tr)
    <2>1. Len(tr) = L /\ DOMAIN tr = 1..L
        BY <1>1 DEF L
    <2> SUFFICES ASSUME NEW i \in 1..L
                 PROVE  IF i = L THEN IsRoot(tr, i) ELSE tr[i].parent_idx \in (i + 1)..L
        BY <2>1
    <2>2. L # 0
        BY <1>1
    <2> QED
        BY <1>4, <1>5, <2>2 DEF IsRoot
<1>7. Len(tr) = Len(q.tables)
    BY <1>2 DEF L
<1>8. WhereNamesFrom(q) => \A t \in TablesOf(q) : \E i \in DOMAIN tr : tr[i].table = t
    BY <1>1, <1>2
<1> QED
    BY <1>6, <1>7, <1>8

-----------------------------------------------------------------------------
(* The inductive invariant. *)

Phases ==
    /\ pc \in {"merge", "walk", "done", "error"}
    /\ perm_state \in Nat /\ variant \in Nat
    /\ pc \in {"merge", "done"} => stack = <<>>
    /\ pc # "merge" => groups = {}
    /\ groups # {} => variant = 0 /\ nodes = <<>>

Chosen ==
    /\ pc \in {"walk", "done"} =>
          variant < count_join_tree_variants /\ Loaded(query) /\ Rooted(query, visited)
    /\ pc = "merge" /\ groups = {} => variant <= count_join_tree_variants

IInv ==
    /\ query \in Queries /\ Merging(query, groups, join_conditions) /\ Phases
    /\ Calls(query, join_conditions, stack, nodes, visited)
    /\ Closed(join_conditions, stack, nodes, visited)
    /\ Chosen /\ TreeIsPostOrder /\ RefusedForAReason

(* The number of variants is a number, and so are those of the first roots. *)
LEMMA CountTypes ==
    ASSUME NEW q \in Queries, NEW cs, Len(cs) \in Nat
    PROVE  /\ VariantsUpTo(cs, q.tables, Len(q.tables)) \in Nat
           /\ \A n \in 0..Len(q.tables) :
                 /\ VariantsUpTo(cs, q.tables, n) \in Nat
                 /\ VariantsUpTo(cs, q.tables, n) <= VariantsUpTo(cs, q.tables, Len(q.tables))
<1>1. q.tables \in Seq(Nat \ {0}) /\ Len(q.tables) \in Nat
    BY QueriesAssumption
<1>2. q.tables \in Seq(Nat)
    BY <1>1, SeqMonotonic
<1> QED
    BY <1>1, <1>2, VariantsGrow

(* No table of a query has the name 0, which stands for no table.          *)
LEMMA NamesAreNotZero ==
    ASSUME NEW q \in Queries
    PROVE  0 \notin NamedBy(q)
<1>1. q.tables \in Seq(Nat \ {0}) /\ q.conditions \in Seq(Conditions)
    BY QueriesAssumption
<1>2. \A i \in DOMAIN q.tables : q.tables[i] # 0
    BY <1>1
<1>3. ASSUME NEW i \in DOMAIN q.conditions
      PROVE  q.conditions[i].left # 0 /\ q.conditions[i].right # 0
    <2>1. q.conditions[i] \in Conditions
        BY <1>1
    <2> QED
        BY <2>1 DEF Conditions
<1> QED
    BY <1>2, <1>3 DEF NamedBy, TablesOf

(* Before the first call there is nothing to be in order.                  *)
LEMMA NoCalls ==
    ASSUME NEW q, NEW cs
    PROVE  Calls(q, cs, <<>>, <<>>, {}) /\ Closed(cs, <<>>, <<>>, {})
<1>1. Len(<<>>) = 0 /\ \A i : ~(i \in 1..0)
    OBVIOUS
<1>2. TypedWalk(q, <<>>, <<>>) /\ Marked(<<>>, <<>>, {}) /\ Once(<<>>, <<>>)
    BY <1>1 DEF TypedWalk, Marked, Once
<1>3. Nested(q, <<>>) /\ ParentsAhead(q, <<>>, <<>>)
    BY <1>1 DEF Nested, ParentsAhead
<1> QED
    BY <1>1, <1>2, <1>3 DEF Calls, Closed

(* The invariant holds before the conditions are merged.                   *)
LEMMA InitHolds == Init => IInv
<1> SUFFICES ASSUME Init PROVE IInv
    OBVIOUS
<1>1. query \in Queries /\ Len(<<>>) = 0
    BY DEF Init
<1>2. Merging(query, groups, join_conditions)
    <2>1. join_conditions \in Seq(Edges(query)) /\ \A j : ~(j \in 1..Len(join_conditions))
        BY <1>1 DEF Init
    <2> QED
        BY <2>1 DEF Init, Merging
<1>3. Phases
    BY DEF Init, Phases
<1>4. Calls(query, join_conditions, stack, nodes, visited) /\ Closed(join_conditions, stack, nodes, visited)
    BY NoCalls DEF Init
<1>5. Chosen
    <2>1. Len(join_conditions) \in Nat
        BY <1>1 DEF Init
    <2>2. 0 <= count_join_tree_variants
        BY <1>1, <2>1, CountTypes DEF count_join_tree_variants
    <2> QED
        BY <2>2 DEF Init, Chosen
<1>6. TreeIsPostOrder /\ RefusedForAReason
    BY DEF Init, TreeIsPostOrder, RefusedForAReason
<1> QED
    BY <1>1, <1>2, <1>3, <1>4, <1>5, <1>6 DEF IInv

(* The tree and the answer matter only at the end. *)
Answered == pc' = "done" => TreeIsPostOrder'
Explained == pc' = "error" => RefusedForAReason'

(* A step that does not answer, or answers rightly, keeps both parts.      *)
LEMMA AnswerHolds == Answered /\ Explained => TreeIsPostOrder' /\ RefusedForAReason'
BY DEF Answered, Explained, TreeIsPostOrder, RefusedForAReason

(* A group of conditions on the same columns becomes one edge.             *)
LEMMA MergeGroupKeeps == IInv /\ MergeGroup => IInv'
<1> SUFFICES ASSUME IInv, MergeGroup PROVE IInv'
    OBVIOUS
<1> DEFINE cs == join_conditions
<1>1. PICK key \in groups :
          cs' = Append(cs, Oriented(key, Merged(key))) /\ groups' = groups \ {key}
    BY DEF MergeGroup
<1>2. /\ query' = query /\ pc' = pc /\ pc = "merge" /\ variant' = variant /\ groups # {}
      /\ perm_state' = perm_state /\ stack' = stack /\ visited' = visited /\ nodes' = nodes
    BY DEF MergeGroup, walk
<1>3. /\ query \in Queries /\ Merging(query, groups, cs) /\ Phases
      /\ Calls(query, cs, stack, nodes, visited) /\ Closed(cs, stack, nodes, visited)
    BY DEF IInv
<1>4. stack = <<>> /\ nodes = <<>> /\ variant = 0
    BY <1>2, <1>3 DEF Phases
<1>5. PICK c \in DOMAIN query.conditions : key = Columns(query.conditions[c])
    BY <1>3 DEF Merging
<1> DEFINE e == Oriented(key, Merged(key))
           cond == query.conditions[c]
<1>6. e \in Edges(query) /\ Joins(e, cond)
    <2>1. cond \in Conditions /\ cond.left \in NamedBy(query) /\ cond.right \in NamedBy(query)
        BY <1>3, QueryTypes
    <2>2. Merged(key) \in BandConstraints
        BY <1>3, MergedIsBand
    <2>3. cond.left_col \in Nat /\ cond.right_col \in Nat
        BY <2>1 DEF Conditions
    <2>4. e = [source_table |-> cond.left, source_column |-> cond.left_col,
               target_table |-> cond.right, target_column |-> cond.right_col, band |-> Merged(key)]
        BY <1>5 DEF Oriented, Columns
    <2> HIDE DEF e, cond
    <2> QED
        BY <2>1, <2>2, <2>3, <2>4 DEF Edges, EdgesOver, Joins
<1> HIDE DEF e
<1>7. /\ cs \in Seq(Edges(query)) /\ Len(cs) \in Nat /\ cs' \in Seq(Edges(query))
      /\ Len(cs') = Len(cs) + 1 /\ cs'[Len(cs) + 1] = e
      /\ \A j \in 1..Len(cs) : cs'[j] = cs[j]
    <2>1. cs \in Seq(Edges(query))
        BY <1>3 DEF Merging
    <2> QED
        BY <1>1, <1>6, <2>1, AppendProperties DEF e
<1>8. /\ \A j \in 1..(Len(cs) + 1) : j \in 1..Len(cs) \/ j = Len(cs) + 1
      /\ \A j \in 1..Len(cs) : j \in 1..(Len(cs) + 1)
      /\ Len(cs) + 1 \in 1..(Len(cs) + 1)
    BY <1>7
<1>9. Merging(query, groups', cs')
    <2>1. \A j \in 1..Len(cs') : \E i \in DOMAIN query.conditions : Joins(cs'[j], query.conditions[i])
        BY <1>3, <1>6, <1>7, <1>8 DEF Merging
    <2>2. ASSUME NEW i \in DOMAIN query.conditions
          PROVE  Columns(query.conditions[i]) \in groups' \/ \E j \in 1..Len(cs') : Joins(cs'[j], query.conditions[i])
        <3>1. CASE Columns(query.conditions[i]) = key
            <4>1. Joins(e, query.conditions[i])
                BY <1>5, <1>6, <3>1 DEF Columns, Joins
            <4> QED
                BY <1>7, <1>8, <4>1
        <3>2. CASE Columns(query.conditions[i]) # key
            <4>1. Columns(query.conditions[i]) \in groups
                  \/ \E j \in 1..Len(cs) : Joins(cs[j], query.conditions[i])
                BY <1>3 DEF Merging
            <4> QED
                BY <1>1, <1>7, <1>8, <3>2, <4>1
        <3> QED
            BY <3>1, <3>2
    <2>3. groups' \subseteq {Columns(query.conditions[i]) : i \in DOMAIN query.conditions}
        BY <1>1, <1>3 DEF Merging
    <2> QED
        BY <1>7, <2>1, <2>2, <2>3 DEF Merging
<1>10. Phases'
    BY <1>2, <1>3, <1>4 DEF Phases
<1>11. Calls(query, cs', stack, nodes, visited) /\ Closed(cs', stack, nodes, visited)
    <2>1. visited = {}
        BY <1>3, <1>4 DEF Calls, Marked
    <2> QED
        BY <1>4, <2>1, NoCalls
<1>12. Chosen'
    <2>1. 0 <= VariantsUpTo(cs', query.tables, Len(query.tables))
        BY <1>3, <1>7, CountTypes
    <2> QED
        BY <1>2, <1>4, <2>1 DEF Chosen, count_join_tree_variants
<1>13. TreeIsPostOrder' /\ RefusedForAReason'
    BY <1>2 DEF TreeIsPostOrder, RefusedForAReason
<1> QED
    BY <1>2, <1>3, <1>9, <1>10, <1>11, <1>12, <1>13 DEF IInv


(* What a step that leaves the query, its merged conditions and its        *)
(* variant alone keeps, once every group is merged.                        *)
Settled == groups = {} /\ UNCHANGED <<query, groups, join_conditions, variant>>

(* Such a step keeps the invariant if the calls stay in order and its      *)
(* answer, if it gives one, is right.                                      *)
LEMMA SettledKeeps ==
    ASSUME IInv, Settled, pc' \in {"walk", "done", "error"}, perm_state' \in Nat,
           pc' = "done" => stack' = <<>>,
           Calls(query, join_conditions, stack', nodes', visited'),
           Closed(join_conditions, stack', nodes', visited'),
           pc' # "error" => variant < count_join_tree_variants /\ Loaded(query) /\ Rooted(query, visited'),
           Answered, Explained
    PROVE  IInv'
<1>1. query' = query /\ join_conditions' = join_conditions /\ variant' = variant
      /\ groups' = {} /\ groups = {}
    BY DEF Settled
<1>2. query' \in Queries /\ Merging(query', groups', join_conditions')
    BY <1>1 DEF IInv
<1>3. Phases'
    BY <1>1 DEF IInv, Phases
<1>4. Calls(query', join_conditions', stack', nodes', visited')
      /\ Closed(join_conditions', stack', nodes', visited')
    BY <1>1
<1>5. Chosen'
    BY <1>1 DEF Chosen, count_join_tree_variants
<1>6. TreeIsPostOrder' /\ RefusedForAReason'
    BY AnswerHolds
<1> QED
    BY <1>2, <1>3, <1>4, <1>5, <1>6 DEF IInv

(* The call for the root.                                                  *)
LEMMA SerializeStartKeeps == IInv /\ SerializeStart => IInv'
<1> SUFFICES ASSUME IInv, SerializeStart PROVE IInv'
    OBVIOUS
<1> DEFINE q == query
           cs == join_conditions
<1>1. Settled /\ pc = "merge" /\ groups = {}
    BY DEF SerializeStart, Settled, plan
<1>2. /\ q \in Queries /\ Merging(q, {}, cs) /\ Phases /\ Chosen
      /\ Calls(q, cs, stack, nodes, visited) /\ Closed(cs, stack, nodes, visited)
    BY <1>1 DEF IInv
<1>3. q.tables \in Seq(Nat \ {0}) /\ DOMAIN q.tables = 1..Len(q.tables) /\ Len(q.tables) \in Nat
    BY <1>2, QueriesAssumption
<1>4. cs \in Seq(Edges(q)) /\ Len(cs) \in Nat
    BY <1>2 DEF Merging
<1>5. variant \in Nat /\ variant <= count_join_tree_variants /\ perm_state \in Nat
    BY <1>1, <1>2 DEF Phases, Chosen
<1>6. count_join_tree_variants \in Nat
    BY <1>2, <1>4, CountTypes DEF count_join_tree_variants
<1>7. ASSUME pc' = "error", UNCHANGED walk, Explained PROVE IInv'
    <2>1. perm_state' = perm_state /\ stack' = stack /\ visited' = visited /\ nodes' = nodes
        BY <1>7 DEF walk
    <2>2. Answered
        BY <1>7 DEF Answered
    <2> QED
        BY <1>1, <1>2, <1>5, <1>7, <2>1, <2>2, SettledKeeps
<1>8. CASE /\ \E i \in DOMAIN query.tables : query.tables[i] \notin Tables
           /\ Throw /\ UNCHANGED <<walk, tree>>
    <2>1. Explained
        BY <1>1, <1>8 DEF Explained, RefusedForAReason, Settled
    <2> QED
        BY <1>7, <1>8, <2>1 DEF Throw
<1>9. CASE /\ \A i \in DOMAIN query.tables : query.tables[i] \in Tables
           /\ variant >= count_join_tree_variants
           /\ Throw /\ UNCHANGED <<walk, tree>>
    <2>1. variant = count_join_tree_variants
        BY <1>5, <1>6, <1>9
    <2>2. variant' = count_join_tree_variants'
        BY <1>1, <2>1 DEF Settled, count_join_tree_variants
    <2>3. Explained
        BY <2>2 DEF Explained, RefusedForAReason
    <2> QED
        BY <1>7, <1>9, <2>3 DEF Throw
<1>10. CASE /\ \A i \in DOMAIN query.tables : query.tables[i] \in Tables
            /\ \E pos \in DOMAIN query.tables :
                /\ VariantsBefore(pos) <= variant /\ variant < VariantsBefore(pos + 1)
                /\ LET root == query.tables[pos]
                       perm == variant - VariantsBefore(pos)
                   IN  /\ visited' = {root}
                       /\ stack' = <<Frame(root, NoEdge, {root}, perm)>>
                       /\ perm_state' = PermLeft(perm, Kids(join_conditions, root, {root}))
            /\ nodes' = <<>> /\ tree' = <<>>
            /\ pc' = "walk"
    <2>1. PICK pos \in 1..Len(q.tables) :
             /\ VariantsBefore(pos) <= variant /\ variant < VariantsBefore(pos + 1)
             /\ LET root == q.tables[pos]
                    perm == variant - VariantsBefore(pos)
                IN  /\ visited' = {root}
                    /\ stack' = <<Frame(root, NoEdge, {root}, perm)>>
                    /\ perm_state' = PermLeft(perm, Kids(cs, root, {root}))
        BY <1>3, <1>10
    <2>2. /\ VariantsBefore(pos) \in Nat
          /\ variant < count_join_tree_variants
        <3>1. pos - 1 \in 0..Len(q.tables) /\ pos + 1 - 1 = pos /\ pos \in 0..Len(q.tables)
            BY <1>3
        <3>2. /\ VariantsUpTo(cs, q.tables, pos - 1) \in Nat
              /\ VariantsUpTo(cs, q.tables, pos) \in Nat
              /\ VariantsUpTo(cs, q.tables, pos) <= VariantsUpTo(cs, q.tables, Len(q.tables))
            BY <1>2, <1>4, <3>1, CountTypes
        <3>3. variant < VariantsUpTo(cs, q.tables, pos)
            BY <2>1, <3>1 DEF VariantsBefore
        <3> QED
            BY <1>5, <1>6, <3>2, <3>3 DEF VariantsBefore, count_join_tree_variants
    <2> DEFINE root == q.tables[pos]
               perm == variant - VariantsBefore(pos)
               fr == Frame(root, NoEdge, {root}, perm)
    <2>3. perm \in Nat
        BY <1>5, <2>1, <2>2
    <2>4. root \in Walkable(q) /\ Loaded(q) /\ root \in {root}
        BY <1>3, <1>10 DEF Walkable, NamedBy, TablesOf, Loaded
    <2>5. visited' = {root} /\ stack' = <<fr>> /\ perm_state' = PermLeft(perm, Kids(cs, root, {root}))
        BY <2>1
    <2>6. Rooted(q, visited')
        BY <1>3, <2>5 DEF Rooted
    <2> HIDE DEF root, perm
    <2>7. /\ fr \in FramesOf(q) /\ fr.table = root /\ fr.edge = NoEdge /\ KidsOf(cs, fr)
          /\ Covers(cs, fr, {root}) /\ perm_state' \in Nat
        <3>1. NoEdge \in Edges(q) \cup {NoEdge} /\ cs \in Seq(Edges(q)) /\ root \in Walkable(q)
              /\ root \in {root} /\ perm \in Nat
            BY <1>4, <2>3, <2>4
        <3>2. CallFor(q, fr, root, NoEdge, {root}) /\ PermLeft(perm, Kids(cs, root, {root})) \in Nat
            BY ONLY <3>1, NewFrame
        <3> HIDE DEF fr
        <3> QED
            BY <2>5, <3>2 DEF CallFor
    <2> HIDE DEF fr
    <2>8. 0 \notin NamedBy(q)
        BY <1>2, NamesAreNotZero
    <2>9. Append(<<>>, fr) = <<fr>> /\ {} \cup {root} = {root} /\ <<>> \in Seq(FramesOf(q))
        OBVIOUS
    <2>10. Calls(q, cs, <<>>, <<>>, {}) /\ Closed(cs, <<>>, <<>>, {})
        BY NoCalls
    <2>11. Calls(q, cs, Append(<<>>, fr), <<>>, {} \cup {fr.table})
        BY ONLY <2>7, <2>8, <2>10, PushFrame
    <2>12. Closed(cs, <<>>, <<>>, {root})
        BY <2>10 DEF Closed
    <2>13. Closed(cs, Append(<<>>, fr), <<>>, {root})
        BY <2>7, <2>9, <2>12, PushClosed
    <2>14. Calls(q, cs, stack', nodes', visited') /\ Closed(cs, stack', nodes', visited')
        BY <1>10, <2>5, <2>7, <2>9, <2>11, <2>13
    <2>15. Answered /\ Explained
        BY <1>10 DEF Answered, Explained
    <2> QED
        BY <1>1, <1>10, <2>2, <2>4, <2>6, <2>7, <2>14, <2>15, SettledKeeps
<1> QED
    BY <1>8, <1>9, <1>10 DEF SerializeStart

(* The child that the traversal takes up next is a loaded neighbour, over  *)
(* an edge that comes from one of the query's conditions.                  *)
LEMMA NextKid ==
    ASSUME NEW q, NEW cs, Merging(q, {}, cs), NEW st, NEW nd, NEW vis, Calls(q, cs, st, nd, vis),
           st # <<>>, st[Len(st)].kids # <<>>
    PROVE  LET top == st[Len(st)]
               kid == Head(top.kids)
           IN  /\ kid \in Edges(q) /\ kid.source_table \in Walkable(q)
               /\ kid.target_table = top.table /\ top.table \in Tables
               /\ \E i \in DOMAIN q.conditions :
                     LET c == q.conditions[i]
                     IN  \/ /\ kid.source_table = c.left /\ kid.source_column = c.left_col
                            /\ kid.target_table = c.right /\ kid.target_column = c.right_col
                         \/ /\ kid.source_table = c.right /\ kid.source_column = c.right_col
                            /\ kid.target_table = c.left /\ kid.target_column = c.left_col
<1> DEFINE top == st[Len(st)]
           kid == Head(top.kids)
<1>1. Len(st) \in 1..Len(st) /\ top \in FramesOf(q)
    <2>1. st \in Seq(FramesOf(q))
        BY DEF Calls, TypedWalk
    <2>2. Len(st) \in Nat \ {0}
        BY <2>1, EmptySeq
    <2> QED
        BY <2>1, <2>2
<1>2. KidsOf(cs, top)
    BY <1>1 DEF Calls
<1> HIDE DEF top
<1>3. top.table \in Tables /\ top.kids \in Seq(Edges(q))
    BY <1>1 DEF FramesOf, Walkable
<1>4. kid \in Edges(q) /\ 1 \in 1..Len(top.kids) /\ kid = top.kids[1]
    BY <1>3, HeadTailProperties, EmptySeq DEF top
<1>5. /\ kid.source_table \in Tables /\ kid.target_table = top.table
      /\ \E j \in 1..Len(cs) : kid = Towards(cs[j], top.table)
    BY <1>2, <1>4 DEF KidsOf
<1> HIDE DEF kid
<1>6. kid.source_table \in Walkable(q)
    <2>1. kid.source_table \in NamedBy(q)
        BY <1>4 DEF Edges, EdgesOver
    <2> QED
        BY <1>5, <2>1 DEF Walkable
<1>7. PICK j \in 1..Len(cs) : kid = Towards(cs[j], top.table)
    BY <1>5
<1>8. PICK i \in DOMAIN q.conditions : Joins(cs[j], q.conditions[i])
    BY DEF Merging
<1> DEFINE c == q.conditions[i]
<1>9. \/ /\ kid.source_table = c.left /\ kid.source_column = c.left_col
         /\ kid.target_table = c.right /\ kid.target_column = c.right_col
      \/ /\ kid.source_table = c.right /\ kid.source_column = c.right_col
         /\ kid.target_table = c.left /\ kid.target_column = c.left_col
    <2>1. CASE cs[j].source_table = top.table
        <3>1. kid = Reversed(cs[j])
            BY <1>7, <2>1 DEF Towards
        <3>2. /\ kid.source_table = cs[j].target_table /\ kid.source_column = cs[j].target_column
              /\ kid.target_table = cs[j].source_table /\ kid.target_column = cs[j].source_column
            BY <3>1 DEF Reversed
        <3> QED
            BY <1>8, <3>2 DEF Joins
    <2>2. CASE cs[j].source_table # top.table
        BY <1>7, <1>8, <2>2 DEF Towards, Joins
    <2> QED
        BY <2>1, <2>2
<1> QED
    BY <1>3, <1>4, <1>5, <1>6, <1>9 DEF top, kid

(* A step to the next child.                                               *)
LEMMA DescendKeeps == IInv /\ Descend => IInv'
<1> SUFFICES ASSUME IInv, Descend PROVE IInv'
    OBVIOUS
<1> DEFINE q == query
           cs == join_conditions
           top == stack[Len(stack)]
           kid == Head(top.kids)
           t == kid.source_table
<1>1. /\ q \in Queries /\ Merging(q, groups, cs) /\ Phases /\ Chosen
      /\ Calls(q, cs, stack, nodes, visited) /\ Closed(cs, stack, nodes, visited)
    BY DEF IInv
<1>2. Settled /\ pc = "walk" /\ groups = {} /\ nodes' = nodes
    BY <1>1 DEF Descend, Settled, plan, Phases
<1>3. stack # <<>> /\ top.kids # <<>> /\ stack \in Seq(FramesOf(q))
    BY <1>1 DEF Descend, Top, Last, Calls, TypedWalk
<1>4. /\ variant < count_join_tree_variants /\ Loaded(q) /\ Rooted(q, visited) /\ perm_state \in Nat
    BY <1>1, <1>2 DEF Chosen, Phases
<1>5. /\ kid \in Edges(q) /\ t \in Walkable(q) /\ kid.target_table = top.table /\ top.table \in Tables
      /\ \E i \in DOMAIN q.conditions :
            LET c == q.conditions[i]
            IN  \/ /\ t = c.left /\ kid.source_column = c.left_col
                   /\ kid.target_table = c.right /\ kid.target_column = c.right_col
                \/ /\ t = c.right /\ kid.source_column = c.right_col
                   /\ kid.target_table = c.left /\ kid.target_column = c.left_col
    BY <1>1, <1>2, <1>3, NextKid
<1>6. /\ Calls(q, cs, Dropped(stack), nodes, visited)
      /\ Closed(cs, Dropped(stack), nodes, visited \cup {t})
    BY <1>1, <1>3, DropKid, DropClosed
<1>7. WithoutKid = Dropped(stack) /\ Head(Top.kids) = kid
    BY DEF WithoutKid, Dropped, Top, Last
<1>8. CASE t \in visited /\ stack' = WithoutKid /\ UNCHANGED <<pc, perm_state, visited>>
    <2>1. visited \cup {t} = visited
        BY <1>8
    <2>2. Calls(q, cs, stack', nodes', visited') /\ Closed(cs, stack', nodes', visited')
        BY <1>2, <1>6, <1>7, <1>8, <2>1
    <2>3. Answered /\ Explained
        BY <1>2, <1>8 DEF Answered, Explained
    <2> QED
        BY <1>2, <1>4, <1>8, <2>2, <2>3, SettledKeeps
<1>9. CASE /\ t \notin visited /\ HasColumns(kid)
           /\ visited' = Claimed(t)
           /\ stack' = Append(WithoutKid, Frame(t, kid, visited', perm_state))
           /\ perm_state' = PermLeft(perm_state, Kids(join_conditions, t, visited'))
           /\ UNCHANGED pc
    <2> DEFINE seen == visited \cup {t}
               fr == Frame(t, kid, seen, perm_state)
               w == Dropped(stack)
    <2>1. /\ visited' = seen /\ stack' = Append(w, fr)
          /\ perm_state' = PermLeft(perm_state, Kids(cs, t, seen))
        BY <1>7, <1>9 DEF Claimed
    <2>2. t \in seen /\ kid \in Edges(q) \cup {NoEdge} /\ cs \in Seq(Edges(q))
        BY <1>1, <1>5 DEF Merging
    <2>3. /\ w \in Seq(FramesOf(q)) /\ Len(w) = Len(stack) /\ w # <<>>
          /\ w[Len(w)].table = top.table
        <3>1. /\ w \in Seq(FramesOf(q)) /\ Len(w) = Len(stack)
              /\ \A i \in 1..Len(stack) : w[i].table = stack[i].table
            BY <1>3, DroppingKeeps
        <3>2. Len(stack) \in 1..Len(stack)
            BY <1>3, EmptySeq
        <3>3. w # <<>>
            BY <3>1, <3>2
        <3> QED
            BY <3>1, <3>2, <3>3
    <2>4. Rooted(q, seen)
        BY <1>4 DEF Rooted
    <2> HIDE DEF kid, t, top, w
    <2>5. /\ fr \in FramesOf(q) /\ fr.table = t /\ fr.edge = kid /\ KidsOf(cs, fr)
          /\ Covers(cs, fr, seen) /\ PermLeft(perm_state, Kids(cs, t, seen)) \in Nat
        <3>1. cs \in Seq(Edges(q)) /\ t \in Walkable(q) /\ kid \in Edges(q) \cup {NoEdge}
              /\ t \in seen /\ perm_state \in Nat
            BY <1>4, <1>5, <2>2
        <3> HIDE DEF seen
        <3>2. CallFor(q, fr, t, kid, seen) /\ PermLeft(perm_state, Kids(cs, t, seen)) \in Nat
            BY ONLY <3>1, NewFrame
        <3> HIDE DEF fr
        <3> QED
            BY <3>2 DEF CallFor
    <2> HIDE DEF fr
    <2>6. Calls(q, cs, Append(w, fr), nodes, visited \cup {fr.table})
        <3>1. 0 \notin NamedBy(q)
            BY <1>1, NamesAreNotZero
        <3>2. Calls(q, cs, w, nodes, visited)
            BY <1>6 DEF w
        <3>3. fr.table \notin visited /\ fr.edge \in Edges(q) /\ fr.edge.target_table = w[Len(w)].table
            BY <1>5, <1>9, <2>3, <2>5
        <3> QED
            BY ONLY <2>3, <2>5, <3>1, <3>2, <3>3, PushFrame
    <2>7. Closed(cs, Append(w, fr), nodes, seen)
        <3>1. Closed(cs, w, nodes, seen)
            BY <1>6 DEF w
        <3> HIDE DEF seen
        <3> QED
            BY ONLY <2>3, <2>5, <3>1, PushClosed
    <2>8. Calls(q, cs, stack', nodes', visited') /\ Closed(cs, stack', nodes', visited')
        BY <1>2, <2>1, <2>5, <2>6, <2>7
    <2>9. Answered /\ Explained
        BY <1>2, <1>9 DEF Answered, Explained
    <2>10. perm_state' \in Nat /\ Rooted(q, visited') /\ pc' = "walk"
        BY <1>2, <1>9, <2>1, <2>4, <2>5
    <2> QED
        BY <1>2, <1>4, <2>8, <2>9, <2>10, SettledKeeps
<1>10. CASE t \notin visited /\ ~HasColumns(kid) /\ Throw /\ UNCHANGED <<perm_state, stack, visited>>
    <2>1. \E i \in DOMAIN q.conditions :
             LET c == q.conditions[i]
             IN  \/ c.left \in Tables /\ c.left_col > NumCols[c.left]
                 \/ c.right \in Tables /\ c.right_col > NumCols[c.right]
        <3>1. PICK i \in DOMAIN q.conditions :
                 LET c == q.conditions[i]
                 IN  \/ /\ t = c.left /\ kid.source_column = c.left_col
                        /\ kid.target_table = c.right /\ kid.target_column = c.right_col
                     \/ /\ t = c.right /\ kid.source_column = c.right_col
                        /\ kid.target_table = c.left /\ kid.target_column = c.left_col
            BY <1>5
        <3> DEFINE c == q.conditions[i]
        <3>2. t \in Tables /\ kid.target_table \in Tables
            BY <1>5 DEF Walkable
        <3>3. NumCols[t] \in Nat /\ NumCols[kid.target_table] \in Nat
            BY <3>2, ColumnsAssumption DEF Tables
        <3>4. kid.source_column \in Nat /\ kid.target_column \in Nat
            <4> HIDE DEF kid
            <4> QED
                BY <1>5 DEF Edges, EdgesOver
        <3>5. kid.source_column > NumCols[t] \/ kid.target_column > NumCols[kid.target_table]
            BY <1>10, <3>3, <3>4 DEF HasColumns
        <3> HIDE DEF kid
        <3>6. \/ c.left \in Tables /\ c.left_col > NumCols[c.left]
              \/ c.right \in Tables /\ c.right_col > NumCols[c.right]
            BY <3>1, <3>2, <3>5
        <3> QED
            BY <3>6
    <2>2. Explained
        BY <1>2, <2>1 DEF Explained, RefusedForAReason, Settled
    <2>3. pc' = "error" /\ Answered
        BY <1>10 DEF Throw, Answered
    <2>4. Calls(q, cs, stack', nodes', visited') /\ Closed(cs, stack', nodes', visited')
        BY <1>1, <1>2, <1>10
    <2> QED
        BY <1>2, <1>4, <1>10, <2>2, <2>3, <2>4, SettledKeeps
<1> QED
    BY <1>7, <1>8, <1>9, <1>10 DEF Descend

(* A call ends and its table is emitted.                                   *)
LEMMA EmitKeeps == IInv /\ Emit => IInv'
<1> SUFFICES ASSUME IInv, Emit PROVE IInv'
    OBVIOUS
<1> DEFINE q == query
           cs == join_conditions
           top == stack[Len(stack)]
           e == [table |-> top.table, edge |-> top.edge]
<1>1. /\ q \in Queries /\ Merging(q, groups, cs) /\ Phases /\ Chosen
      /\ Calls(q, cs, stack, nodes, visited) /\ Closed(cs, stack, nodes, visited)
    BY DEF IInv
<1>2. /\ Settled /\ pc = "walk" /\ pc' = "walk" /\ groups = {}
      /\ perm_state' = perm_state /\ visited' = visited
    BY <1>1 DEF Emit, Settled, plan, Phases
<1>3. /\ stack # <<>> /\ top.kids = <<>> /\ stack \in Seq(FramesOf(q)) /\ nodes \in Seq(EmitsOf(q))
      /\ stack' = Front(stack) /\ nodes' = Append(nodes, e)
    BY <1>1 DEF Emit, Top, Last, Calls, TypedWalk, Emitted
<1>4. /\ variant < count_join_tree_variants /\ Loaded(q) /\ Rooted(q, visited) /\ perm_state \in Nat
    BY <1>1, <1>2 DEF Chosen, Phases
<1>5. 0 \notin NamedBy(q)
    BY <1>1, NamesAreNotZero
<1>6. Calls(q, cs, Front(stack), Append(nodes, e), visited)
    BY <1>1, <1>3, <1>5, PopFrame
<1>7. e \in EmitsOf(q) /\ e.table = top.table
    <2>1. top \in FramesOf(q)
        BY <1>3, EmptySeq
    <2> HIDE DEF top
    <2>2. top.table \in Walkable(q) /\ top.edge \in Edges(q) \cup {NoEdge}
        BY <2>1 DEF FramesOf
    <2> QED
        BY <2>2 DEF EmitsOf
<1> HIDE DEF e
<1>8. Closed(cs, Front(stack), Append(nodes, e), visited)
    BY <1>1, <1>3, <1>7, PopClosed
<1>9. Calls(q, cs, stack', nodes', visited') /\ Closed(cs, stack', nodes', visited')
    BY <1>2, <1>3, <1>6, <1>8
<1>10. Answered /\ Explained
    BY <1>2 DEF Answered, Explained
<1> QED
    BY <1>2, <1>4, <1>9, <1>10, SettledKeeps

(* The traversal has ended: it has reached the query's tables, and the     *)
(* tree is their post-order, or the query is refused.                      *)
LEMMA SerializeEndKeeps == IInv /\ SerializeEnd => IInv'
<1> SUFFICES ASSUME IInv, SerializeEnd PROVE IInv'
    OBVIOUS
<1> DEFINE q == query
           cs == join_conditions
<1>1. /\ q \in Queries /\ Merging(q, groups, cs) /\ Phases /\ Chosen
      /\ Calls(q, cs, stack, nodes, visited) /\ Closed(cs, stack, nodes, visited)
    BY DEF IInv
<1>2. /\ Settled /\ pc = "walk" /\ groups = {} /\ stack = <<>> /\ perm_state' = perm_state
      /\ stack' = stack /\ visited' = visited /\ nodes' = nodes
    BY <1>1 DEF SerializeEnd, Settled, plan, walk, Phases
<1>3. /\ variant < count_join_tree_variants /\ Loaded(q) /\ Rooted(q, visited) /\ perm_state \in Nat
    BY <1>1, <1>2 DEF Chosen, Phases
<1>4. Calls(q, cs, stack', nodes', visited') /\ Closed(cs, stack', nodes', visited')
    BY <1>1, <1>2
<1>5. ASSUME pc' \in {"done", "error"}, Answered, Explained PROVE IInv'
    BY <1>2, <1>3, <1>4, <1>5, SettledKeeps
<1> DEFINE node(i) ==
                [table |-> nodes[i].table,
                 parent_idx |-> IF nodes[i].edge = NoEdge THEN 0 ELSE NodePos(nodes[i].edge.target_table),
                 join_col |-> nodes[i].edge.source_column, parent_join_col |-> nodes[i].edge.target_column,
                 deviation1 |-> nodes[i].edge.band.deviation1, equality1 |-> nodes[i].edge.band.equality1,
                 deviation2 |-> nodes[i].edge.band.deviation2, equality2 |-> nodes[i].edge.band.equality2]
<1>6. CASE Reached /\ tree' = [i \in DOMAIN nodes |-> node(i)] /\ pc' = "done"
    <2>1. Cardinality(visited) = Len(q.tables)
        BY <1>6 DEF Reached
    <2>2. \A i \in DOMAIN nodes : node(i).table = nodes[i].table /\ node(i).parent_idx = ParentPos(nodes[i].edge)
        BY DEF ParentPos
    <2> HIDE DEF node
    <2>3. /\ DOMAIN tree' = DOMAIN nodes
          /\ \A i \in DOMAIN nodes : /\ tree'[i].table = nodes[i].table
                                     /\ tree'[i].parent_idx = ParentPos(nodes[i].edge)
        BY <1>6, <2>2
    <2>4. Len(tree') = Len(nodes)
        <3>1. nodes \in Seq(EmitsOf(q))
            BY <1>1 DEF Calls, TypedWalk
        <3>2. Len(nodes) \in Nat /\ DOMAIN nodes = 1..Len(nodes)
            BY <3>1
        <3> QED
            BY <1>6, <3>2
    <2>5. /\ \A i \in DOMAIN tree' :
                IF i = Len(tree') THEN IsRoot(tree', i) ELSE tree'[i].parent_idx \in (i + 1)..Len(tree')
          /\ Len(tree') = Len(q.tables)
          /\ WhereNamesFrom(q) => \A t \in TablesOf(q) : \E i \in DOMAIN tree' : tree'[i].table = t
        BY ONLY <1>1, <1>2, <2>1, <2>3, <2>4, TreeFromNodes
    <2>6. Answered
        BY <1>2, <2>5 DEF Answered, TreeIsPostOrder, FromTables, WhereNamesFrom, TablesOf, Settled
    <2>7. Explained
        BY <1>6 DEF Explained
    <2> QED
        BY <1>5, <1>6, <2>6, <2>7
<1>7. CASE ~Reached /\ Throw /\ UNCHANGED tree
    <2>1. Disconnected(q) \/ ~WhereNamesFrom(q)
        <3>1. Cardinality(visited) # Len(q.tables)
            BY <1>7 DEF Reached
        <3> QED
            BY <1>1, <1>2, <1>3, <3>1, MissedTables
    <2>2. Explained
        BY <1>2, <2>1 DEF Explained, RefusedForAReason, Disconnected, WhereNamesFrom, TablesOf, Settled
    <2>3. pc' = "error" /\ Answered
        BY <1>7 DEF Throw, Answered
    <2> QED
        BY <1>5, <2>2, <2>3
<1>8. (Reached /\ tree' = [i \in DOMAIN nodes |-> node(i)] /\ pc' = "done") \/ (~Reached /\ Throw /\ UNCHANGED tree)
    BY DEF SerializeEnd
<1> QED
    BY <1>6, <1>7, <1>8

(* The host asks for one variant more.                                     *)
LEMMA NextVariantKeeps == IInv /\ NextVariant => IInv'
<1> SUFFICES ASSUME IInv, NextVariant PROVE IInv'
    OBVIOUS
<1>1. /\ query \in Queries /\ Merging(query, groups, join_conditions) /\ Phases /\ Chosen
      /\ Calls(query, join_conditions, stack, nodes, visited) /\ Closed(join_conditions, stack, nodes, visited)
    BY DEF IInv
<1>2. /\ query' = query /\ groups' = groups /\ join_conditions' = join_conditions
      /\ pc = "done" /\ pc' = "merge" /\ variant' = variant + 1
      /\ perm_state' = perm_state /\ stack' = stack /\ visited' = visited /\ nodes' = nodes
    BY DEF NextVariant, plan, walk
<1>3. groups = {} /\ variant \in Nat /\ variant < count_join_tree_variants
    BY <1>1, <1>2 DEF Phases, Chosen
<1>4. Phases'
    BY <1>1, <1>2, <1>3 DEF Phases
<1>5. Chosen'
    <2>1. count_join_tree_variants \in Nat
        BY <1>1, CountTypes DEF Merging, count_join_tree_variants
    <2>2. variant + 1 <= count_join_tree_variants
        BY <1>3, <2>1
    <2> QED
        BY <1>2, <2>2 DEF Chosen, count_join_tree_variants
<1>6. TreeIsPostOrder' /\ RefusedForAReason'
    BY <1>2 DEF TreeIsPostOrder, RefusedForAReason
<1> QED
    BY <1>1, <1>2, <1>4, <1>5, <1>6 DEF IInv

(* A step that changes nothing.                                            *)
LEMMA StutterKeeps == IInv /\ UNCHANGED vars => IInv'
<1> SUFFICES ASSUME IInv, UNCHANGED vars PROVE IInv'
    OBVIOUS
<1>1. /\ query' = query /\ groups' = groups /\ join_conditions' = join_conditions /\ pc' = pc
      /\ variant' = variant /\ perm_state' = perm_state /\ stack' = stack /\ visited' = visited
      /\ nodes' = nodes /\ tree' = tree
    BY DEF vars, plan, walk
<1>2. Phases' /\ Chosen'
    BY <1>1 DEF IInv, Phases, Chosen, count_join_tree_variants
<1>3. TreeIsPostOrder'
    BY <1>1 DEF IInv, TreeIsPostOrder, FromTables, WhereNamesFrom, TablesOf
<1>4. RefusedForAReason'
    BY <1>1 DEF IInv, RefusedForAReason, WhereNamesFrom, TablesOf, count_join_tree_variants
<1> QED
    BY <1>1, <1>2, <1>3, <1>4 DEF IInv

(* The invariant holds in every state.                                     *)
THEOREM PlanIsInductive == Spec => []IInv
<1>1. IInv /\ [Next]_vars => IInv'
    BY MergeGroupKeeps, SerializeStartKeeps, DescendKeeps, EmitKeeps, SerializeEndKeeps, NextVariantKeeps,
       StutterKeeps DEF Next, Ended
<1> QED
    BY InitHolds, <1>1, PTL DEF Spec

-----------------------------------------------------------------------------
(* For every query, every number of columns and every attribute range: the *)
(* merged bands are bands, the tables that collect_postorder marks are     *)
(* loaded and include those of its pending calls, and the tree that        *)
(* serialize_join_tree answers with is a post-order of as many tables as   *)
(* the query has, and of its own if its WHERE clause names no others: the  *)
(* root last, every child before its parent, every table once.             *)
THEOREM WalkIsPostOrder == Spec => []WalkInvariant
<1>1. IInv => WalkInvariant
    <2> SUFFICES ASSUME IInv PROVE WalkInvariant
        OBVIOUS
    <2> DEFINE q == query
               cs == join_conditions
    <2>1. /\ Merging(q, groups, cs) /\ Phases /\ Calls(q, cs, stack, nodes, visited) /\ TreeIsPostOrder
        BY DEF IInv
    <2>2. ASSUME NEW i \in DOMAIN cs PROVE cs[i].band \in BandConstraints
        <3> DEFINE e == cs[i]
        <3>1. e \in Edges(q)
            BY <2>1 DEF Merging
        <3> HIDE DEF e
        <3>2. e.band \in BandConstraints
            BY <3>1 DEF Edges, EdgesOver
        <3> QED
            BY <3>2 DEF e
    <2>3. stack \in Seq(FramesOf(q)) /\ nodes \in Seq(EmitsOf(q)) /\ Marked(stack, nodes, visited)
        BY <2>1 DEF Calls, TypedWalk
    <2>4. ASSUME NEW i \in 1..Len(stack) PROVE stack[i].table \in Tables
        <3> DEFINE fr == stack[i]
        <3>1. fr \in FramesOf(q)
            BY <2>3
        <3> HIDE DEF fr
        <3>2. fr.table \in Tables
            BY <3>1 DEF FramesOf, Walkable
        <3> QED
            BY <3>2 DEF fr
    <2>5. ASSUME NEW n \in 1..Len(nodes) PROVE nodes[n].table \in Tables
        <3> DEFINE e == nodes[n]
        <3>1. e \in EmitsOf(q)
            BY <2>3
        <3> HIDE DEF e
        <3>2. e.table \in Tables
            BY <3>1 DEF EmitsOf, Walkable
        <3> QED
            BY <3>2 DEF e
    <2>6. visited \subseteq Tables /\ \A i \in DOMAIN stack : stack[i].table \in visited
        BY <2>3, <2>4, <2>5 DEF Marked
    <2> QED
        BY <2>1, <2>2, <2>6 DEF WalkInvariant, TypeOK, Phases
<1> QED
    BY PlanIsInductive, <1>1, PTL

(* For every query, every number of columns and every attribute range:     *)
(* serialize_join_tree refuses a query only if it names a table that is    *)
(* not loaded or a column that a table does not have, if its join graph is *)
(* disconnected, if its WHERE clause names a table that its FROM clause    *)
(* does not, or if the host has run all its variants.  A connected query   *)
(* whose clauses name the same tables and known columns has every variant  *)
(* up to the count.                                                        *)
THEOREM RefusalsHaveReasons == Spec => []RefusedForAReason
<1>1. IInv => RefusedForAReason
    BY DEF IInv
<1> QED
    BY PlanIsInductive, <1>1, PTL

-----------------------------------------------------------------------------
(* What the edges mean. *)

Holds(c, x, p) == Compare(x, c.op, p + c.deviation)

GroupsOf(q) == {Columns(q.conditions[i]) : i \in DOMAIN q.conditions}

AllHold(q, key, x, p) ==
    \A i \in DOMAIN q.conditions : Columns(q.conditions[i]) = key => Holds(q.conditions[i], x, p)

(* No condition is a "!=", which has no band. *)
Plain(q) == \A i \in DOMAIN q.conditions : q.conditions[i].op # "!="

(* The conditions on the columns can hold together. *)
Agree(q, key) == \E x, p \in Int : AllHold(q, key, x, p)

(* Attributes that satisfy the conditions on the columns are in band b,    *)
(* and no others if the conditions can hold together.                      *)
Means(q, key, b) ==
    \A x, p \in Int : /\ AllHold(q, key, x, p) => InBand(x, p, b)
                      /\ Agree(q, key) /\ InBand(x, p, b) => AllHold(q, key, x, p)

(* A condition's band admits what the condition admits.                    *)
LEMMA GivenMeans ==
    ASSUME query \in Queries, Plain(query), NEW i \in DOMAIN query.conditions
    PROVE  /\ Given(i) \in BandConstraints
           /\ \A x, p \in Int : InBand(x, p, Given(i)) <=> Holds(query.conditions[i], x, p)
<1> DEFINE c == query.conditions[i]
<1>1. c \in Conditions /\ c.op # "!="
    BY QueryTypes DEF Plain
<1> HIDE DEF c
<1>2. c.op \in {"=", ">=", ">", "<=", "<"} /\ c.deviation \in -AttrMax..AttrMax
    BY <1>1 DEF Conditions
<1>3. operator_to_constraint(c.op, c.deviation) \in BandConstraints
    BY <1>2, GivenIsBand
<1>4. \A x, p \in Int :
         InBand(x, p, operator_to_constraint(c.op, c.deviation)) <=> Compare(x, c.op, p + c.deviation)
    BY <1>2, OperatorMeaning
<1> QED
    BY <1>3, <1>4 DEF Given, Holds, c

(* A merge admits what both bands admit, if anything is in both.           *)
LEMMA StepMeans ==
    ASSUME NEW a \in BandConstraints, NEW b \in BandConstraints
    PROVE  /\ \A x, p \in Int : InBand(x, p, a) /\ InBand(x, p, b) => InBand(x, p, MergeStep(a, b))
           /\ (\E x, p \in Int : InBand(x, p, a) /\ InBand(x, p, b)) =>
                 \A x, p \in Int : InBand(x, p, MergeStep(a, b)) => InBand(x, p, a) /\ InBand(x, p, b)
<1> DEFINE m == Intersection(a, b)
<1>1. m \in BandConstraints
    <2>1. 0 \in Int
        OBVIOUS
    <2> QED
        BY <2>1, MergeIsIntersection
<1>2. \A x, p \in Int : InBand(x, p, m) <=> InBand(x, p, a) /\ InBand(x, p, b)
    BY MergeIsIntersection
<1> HIDE DEF m
<1>3. ~is_valid_range(m) => \A x, p \in Int : ~InBand(x, p, m)
    BY <1>1, RefusedRangeIsEmpty
<1>4. MergeStep(a, b) = IF is_valid_range(m) THEN m ELSE a
    BY DEF MergeStep, m
<1> QED
    BY <1>2, <1>3, <1>4

(* The band that merge_join_conditions makes of the conditions on one pair *)
(* of columns admits every pair of attributes that the conditions admit,   *)
(* and no other if there is such a pair.                                   *)
LEMMA MergedMeans ==
    ASSUME query \in Queries, Plain(query), NEW key \in GroupsOf(query)
    PROVE  Means(query, key, Merged(key))
<1> DEFINE m == Len(query.conditions)
           c(i) == query.conditions[i]
           mine(i) == Columns(c(i)) = key
           some(i) == \E h \in 1..i : mine(h)
           hold(i, x, p) == \A h \in 1..i : mine(h) => Holds(c(h), x, p)
           agree(i) == \E x, p \in Int : hold(i, x, p)
           Good(i) == {b \in BandConstraints : some(i) =>
                         \A x, p \in Int : /\ hold(i, x, p) => InBand(x, p, b)
                                           /\ agree(m) /\ InBand(x, p, b) => hold(i, x, p)}
           SS == [i \in 0..m |-> Good(i)]
<1>1. m \in Nat /\ DOMAIN query.conditions = 1..m
    BY QueryTypes
<1>2. PICK f : /\ Grows(key, f, m)
               /\ \A i \in 0..m : f[i] \in BandConstraints
               /\ Merged(key) = f[m]
    BY MergedSteps
<1>3. /\ \A i \in 1..m : Given(i) \in BandConstraints
      /\ \A i \in 1..m : \A x, p \in Int : InBand(x, p, Given(i)) <=> Holds(c(i), x, p)
    BY <1>1, GivenMeans
<1>4. some(m)
    BY <1>1 DEF GroupsOf
<1> HIDE DEF m, c
<1>5. f[0] \in Good(0)
    BY <1>1, <1>2
<1>6. ASSUME NEW i \in 1..m, f[i - 1] \in Good(i - 1) PROVE f[i] \in Good(i)
    <2> DEFINE b == f[i - 1]
               new == f[i]
    <2>1. /\ b \in BandConstraints /\ new \in BandConstraints
          /\ new = IF ~mine(i) THEN b
                   ELSE IF \A h \in 1..(i - 1) : ~mine(h) THEN Given(i) ELSE MergeStep(b, Given(i))
        <3>1. i \in 0..m /\ i - 1 \in 0..m
            BY <1>1
        <3> QED
            BY <1>2, <3>1 DEF Grows, Grown, c
    <2>2. some(i - 1) => \A x, p \in Int : /\ hold(i - 1, x, p) => InBand(x, p, b)
                                           /\ agree(m) /\ InBand(x, p, b) => hold(i - 1, x, p)
        BY <1>6
    <2>3. /\ \A h \in 1..i : h \in 1..(i - 1) \/ h = i
          /\ (\A h \in 1..(i - 1) : h \in 1..i /\ h \in 1..m)
          /\ i \in 1..i
        BY <1>1
    <2>4. some(i) <=> some(i - 1) \/ mine(i)
        BY <2>3
    <2>5. \A x, p \in Int : hold(i, x, p) <=> hold(i - 1, x, p) /\ (mine(i) => Holds(c(i), x, p))
        BY <2>3
    <2>6. ~some(i - 1) => \A x, p \in Int : hold(i - 1, x, p)
        OBVIOUS
    <2>7. \A x, p \in Int : hold(m, x, p) => hold(i - 1, x, p) /\ (mine(i) => Holds(c(i), x, p))
        BY <2>3
    <2> SUFFICES ASSUME some(i)
                 PROVE  \A x, p \in Int : /\ hold(i, x, p) => InBand(x, p, new)
                                          /\ agree(m) /\ InBand(x, p, new) => hold(i, x, p)
        BY <2>1
    <2> HIDE DEF b, new, some, hold
    <2>8. CASE ~mine(i)
        BY <2>1, <2>2, <2>4, <2>5, <2>8
    <2>9. CASE mine(i) /\ ~some(i - 1)
        <3>1. new = Given(i)
            BY <2>1, <2>9 DEF some
        <3> QED
            BY <1>3, <2>5, <2>6, <2>9, <3>1
    <2>10. CASE mine(i) /\ some(i - 1)
        <3>1. new = MergeStep(b, Given(i)) /\ Given(i) \in BandConstraints
            BY <1>3, <2>1, <2>10 DEF some
        <3>2. /\ \A x, p \in Int : InBand(x, p, b) /\ InBand(x, p, Given(i)) => InBand(x, p, new)
              /\ (\E x, p \in Int : InBand(x, p, b) /\ InBand(x, p, Given(i))) =>
                   \A x, p \in Int : InBand(x, p, new) => InBand(x, p, b) /\ InBand(x, p, Given(i))
            BY <2>1, <3>1, StepMeans
        <3>3. \A x, p \in Int : InBand(x, p, Given(i)) <=> Holds(c(i), x, p)
            BY <1>3
        <3>4. \A x, p \in Int : hold(i, x, p) => InBand(x, p, new)
            BY <2>2, <2>5, <2>10, <3>2, <3>3
        <3>5. agree(m) => \E x, p \in Int : InBand(x, p, b) /\ InBand(x, p, Given(i))
            BY <2>2, <2>7, <2>10, <3>3
        <3>6. \A x, p \in Int : agree(m) /\ InBand(x, p, new) => hold(i, x, p)
            BY <2>2, <2>5, <2>10, <3>2, <3>3, <3>5
        <3> QED
            BY <3>4, <3>6
    <2> QED
        BY <2>8, <2>9, <2>10
<1>7. f[m] \in Good(m)
    <2>1. f[0] \in SS[0] /\ \A i \in 1..m : f[i - 1] \in SS[i - 1] => f[i] \in SS[i]
        <3>1. \A i \in 1..m : i - 1 \in 0..m /\ i \in 0..m /\ 0 \in 0..m
            BY <1>1
        <3>2. 0 \in 0..m
            BY <1>1
        <3> HIDE DEF Good
        <3> QED
            BY <1>5, <1>6, <3>1, <3>2
    <2>2. \A i \in 0..m : f[i] \in SS[i]
        <3> HIDE DEF SS
        <3> QED
            BY <1>1, <2>1, StaysIn
    <2>3. m \in 0..m
        BY <1>1
    <2> HIDE DEF Good
    <2> QED
        BY <2>2, <2>3
<1>8. \A x, p \in Int : hold(m, x, p) <=> AllHold(query, key, x, p)
    BY <1>1 DEF AllHold, c
<1>9. agree(m) <=> Agree(query, key)
    <2> HIDE DEF hold
    <2> QED
        BY <1>8 DEF Agree
<1>10. \A x, p \in Int : /\ hold(m, x, p) => InBand(x, p, f[m])
                         /\ agree(m) /\ InBand(x, p, f[m]) => hold(m, x, p)
    BY <1>4, <1>7
<1> HIDE DEF hold, agree
<1> QED
    BY <1>2, <1>8, <1>9, <1>10 DEF Means

-----------------------------------------------------------------------------
(* Where the edges come from. *)

ColumnsOf(e) == <<e.source_table, e.source_column, e.target_table, e.target_column>>

(* Every merged condition stands for a group of the query's conditions,    *)
(* none for the group of another or for one still to be merged.            *)
GroupsMerged(q, gs, cs) ==
    /\ \A j \in 1..Len(cs) : /\ ColumnsOf(cs[j]) \in GroupsOf(q) \ gs
                             /\ Plain(q) => Means(q, ColumnsOf(cs[j]), cs[j].band)
    /\ \A i, j \in 1..Len(cs) : ColumnsOf(cs[i]) = ColumnsOf(cs[j]) => i = j

(* A call's edge, or a node's, is a merged condition turned towards the    *)
(* parent.                                                                 *)
FromCondition(cs, x) ==
    x.edge # NoEdge =>
        /\ x.edge.source_table = x.table
        /\ \E j \in 1..Len(cs) : x.edge = Towards(cs[j], x.edge.target_table)

FromConditions(cs, st, nd) ==
    /\ \A i \in 1..Len(st) : FromCondition(cs, st[i])
    /\ \A n \in 1..Len(nd) : FromCondition(cs, nd[n])

(* The tree has the emitted nodes with their edges. *)
NodeAgrees(node, x) ==
    /\ node.table = x.table /\ node.parent_idx = ParentPos(x.edge)
    /\ node.join_col = x.edge.source_column /\ node.parent_join_col = x.edge.target_column
    /\ node.deviation1 = x.edge.band.deviation1 /\ node.equality1 = x.edge.band.equality1
    /\ node.deviation2 = x.edge.band.deviation2 /\ node.equality2 = x.edge.band.equality2

TreeAgrees ==
    pc = "done" =>
        /\ Len(tree) = Len(nodes) /\ Len(nodes) = Len(query.tables)
        /\ \A n \in 1..Len(nodes) : NodeAgrees(tree[n], nodes[n])

EdgesInv ==
    /\ GroupsMerged(query, groups, join_conditions)
    /\ FromConditions(join_conditions, stack, nodes)
    /\ TreeAgrees

(* Before the conditions are merged there is no edge.                      *)
LEMMA EdgesInit == Init => EdgesInv
<1> SUFFICES ASSUME Init PROVE EdgesInv
    OBVIOUS
<1>1. Len(<<>>) = 0 /\ \A i : ~(i \in 1..0)
    OBVIOUS
<1>2. join_conditions = <<>> /\ stack = <<>> /\ nodes = <<>> /\ pc = "merge"
    BY DEF Init
<1> QED
    BY <1>1, <1>2 DEF EdgesInv, GroupsMerged, FromConditions, TreeAgrees

(* A group is merged.                                                      *)
LEMMA MergeGroupKeepsEdges == IInv /\ EdgesInv /\ MergeGroup => EdgesInv'
<1> SUFFICES ASSUME IInv, EdgesInv, MergeGroup PROVE EdgesInv'
    OBVIOUS
<1> DEFINE cs == join_conditions
           q == query
<1>1. PICK key \in groups :
          cs' = Append(cs, Oriented(key, Merged(key))) /\ groups' = groups \ {key}
    BY DEF MergeGroup
<1>2. /\ q' = q /\ pc' = pc /\ pc = "merge" /\ groups # {}
      /\ stack' = stack /\ nodes' = nodes
    BY DEF MergeGroup, walk
<1>3. q \in Queries /\ Merging(q, groups, cs) /\ Phases
    BY DEF IInv
<1>4. stack = <<>> /\ nodes = <<>>
    BY <1>2, <1>3 DEF Phases
<1> DEFINE e == Oriented(key, Merged(key))
<1>5. PICK c \in DOMAIN q.conditions : key = Columns(q.conditions[c])
    BY <1>3 DEF Merging
<1>6. ColumnsOf(e) = key /\ e.band = Merged(key) /\ key \in GroupsOf(q)
    BY <1>5 DEF ColumnsOf, Oriented, Columns, GroupsOf
<1>7. Plain(q) => Means(q, ColumnsOf(e), e.band)
    BY <1>3, <1>6, MergedMeans
<1> HIDE DEF e
<1>8. /\ Len(cs) \in Nat /\ Len(cs') = Len(cs) + 1 /\ cs'[Len(cs) + 1] = e
      /\ \A j \in 1..Len(cs) : cs'[j] = cs[j]
    <2>1. cs \in Seq(Edges(q))
        BY <1>3 DEF Merging
    <2>2. cs \in Seq(Edges(q) \cup {e}) /\ e \in Edges(q) \cup {e}
        BY <2>1
    <2> QED
        BY <1>1, <2>2, AppendProperties DEF e
<1>9. \A j \in 1..(Len(cs) + 1) : j \in 1..Len(cs) \/ j = Len(cs) + 1
    BY <1>8
<1>10. \A j \in 1..Len(cs) : ColumnsOf(cs[j]) \in GroupsOf(q) \ groups
                            /\ (Plain(q) => Means(q, ColumnsOf(cs[j]), cs[j].band))
    BY DEF EdgesInv, GroupsMerged
<1>11. \A j \in 1..Len(cs') : /\ ColumnsOf(cs'[j]) \in GroupsOf(q) \ groups'
                              /\ Plain(q) => Means(q, ColumnsOf(cs'[j]), cs'[j].band)
    BY <1>1, <1>6, <1>7, <1>8, <1>9, <1>10
<1>12. \A i, j \in 1..Len(cs') : ColumnsOf(cs'[i]) = ColumnsOf(cs'[j]) => i = j
    <2>1. \A i, j \in 1..Len(cs) : ColumnsOf(cs[i]) = ColumnsOf(cs[j]) => i = j
        BY DEF EdgesInv, GroupsMerged
    <2>2. \A j \in 1..Len(cs) : ColumnsOf(cs[j]) # ColumnsOf(e)
        BY <1>1, <1>6, <1>10
    <2> QED
        BY <1>8, <1>9, <2>1, <2>2
<1>13. GroupsMerged(q, groups', cs')
    BY <1>11, <1>12 DEF GroupsMerged
<1>14. FromConditions(cs', stack, nodes)
    BY <1>4 DEF FromConditions
<1>15. TreeAgrees'
    BY <1>2 DEF TreeAgrees
<1> QED
    BY <1>2, <1>13, <1>14, <1>15 DEF EdgesInv

(* What a step keeps that leaves the merged conditions alone.              *)
LEMMA SettledKeepsEdges ==
    ASSUME EdgesInv, Settled, FromConditions(join_conditions, stack', nodes'), TreeAgrees'
    PROVE  EdgesInv'
<1>1. query' = query /\ join_conditions' = join_conditions /\ groups' = groups
    BY DEF Settled
<1>2. GroupsMerged(query', groups', join_conditions')
    BY <1>1 DEF EdgesInv
<1> QED
    BY <1>1, <1>2 DEF EdgesInv

(* The root has no edge.                                                   *)
LEMMA SerializeStartKeepsEdges == IInv /\ EdgesInv /\ SerializeStart => EdgesInv'
<1> SUFFICES ASSUME IInv, EdgesInv, SerializeStart PROVE EdgesInv'
    OBVIOUS
<1>1. Settled
    BY DEF SerializeStart, Settled, plan
<1>2. pc' # "done"
    BY DEF SerializeStart, Throw
<1>3. FromConditions(join_conditions, stack', nodes')
    <2>1. CASE UNCHANGED walk
        BY <2>1 DEF EdgesInv, walk
    <2>2. CASE nodes' = <<>> /\ \E t, seen, perm : stack' = <<Frame(t, NoEdge, seen, perm)>>
        <3>1. PICK t, seen, perm : stack' = <<Frame(t, NoEdge, seen, perm)>>
            BY <2>2
        <3> DEFINE fr == Frame(t, NoEdge, seen, perm)
        <3>2. fr.edge = NoEdge
            BY DEF Frame
        <3> HIDE DEF fr
        <3>3. stack'[1] = fr /\ Len(stack') = 1
            BY <3>1 DEF fr
        <3>4. FromCondition(join_conditions, fr)
            BY <3>2 DEF FromCondition
        <3>5. \A i \in 1..1 : i = 1
            OBVIOUS
        <3>6. \A i \in 1..Len(stack') : FromCondition(join_conditions, stack'[i])
            BY <3>3, <3>4, <3>5
        <3>7. Len(nodes') = 0 /\ \A i : ~(i \in 1..0)
            BY <2>2
        <3> QED
            BY <3>6, <3>7 DEF FromConditions
    <2>3. UNCHANGED walk \/ (nodes' = <<>> /\ \E t, seen, perm : stack' = <<Frame(t, NoEdge, seen, perm)>>)
        BY DEF SerializeStart
    <2> QED
        BY <2>1, <2>2, <2>3
<1>4. TreeAgrees'
    BY <1>2 DEF TreeAgrees
<1> QED
    BY <1>1, <1>3, <1>4, SettledKeepsEdges

(* A child's edge is a merged condition turned towards the table on top.   *)
LEMMA DescendKeepsEdges == IInv /\ EdgesInv /\ Descend => EdgesInv'
<1> SUFFICES ASSUME IInv, EdgesInv, Descend PROVE EdgesInv'
    OBVIOUS
<1> DEFINE q == query
           cs == join_conditions
           top == stack[Len(stack)]
           kid == Head(top.kids)
           t == kid.source_table
           w == Dropped(stack)
<1>1. Settled /\ pc = "walk" /\ nodes' = nodes
    BY DEF IInv, Descend, Settled, plan, Phases
<1>2. stack # <<>> /\ top.kids # <<>> /\ stack \in Seq(FramesOf(q)) /\ \A i \in 1..Len(stack) : KidsOf(cs, stack[i])
    BY DEF IInv, Descend, Top, Last, Calls, TypedWalk
<1>3. WithoutKid = w /\ Head(Top.kids) = kid
    BY DEF WithoutKid, Dropped, Top, Last
<1>4. Len(stack) \in Nat \ {0}
    BY <1>2, EmptySeq
<1>5. top \in FramesOf(q) /\ KidsOf(cs, top)
    BY <1>2, <1>4
<1>6. /\ w \in Seq(FramesOf(q)) /\ Len(w) = Len(stack)
      /\ \A i \in 1..Len(stack) : w[i].table = stack[i].table /\ w[i].edge = stack[i].edge
    BY <1>2, DroppingKeeps
<1> HIDE DEF w
<1>7. FromConditions(cs, w, nodes)
    BY <1>6 DEF EdgesInv, FromConditions, FromCondition
<1>8. kid.target_table = top.table /\ \E j \in 1..Len(cs) : kid = Towards(cs[j], top.table)
    <2> HIDE DEF top
    <2>1. top.kids \in Seq(Edges(q))
        BY <1>5 DEF FramesOf
    <2>2. 1 \in 1..Len(top.kids) /\ kid = top.kids[1]
        BY <1>2, <2>1, HeadTailProperties, EmptySeq DEF top
    <2> HIDE DEF kid
    <2> QED
        BY <1>5, <2>2 DEF KidsOf
<1>9. pc' # "done"
    BY <1>1 DEF Descend, Throw
<1>10. CASE stack' = w \/ stack' = stack
    <2>1. FromConditions(cs, stack', nodes')
        BY <1>1, <1>7, <1>10 DEF EdgesInv
    <2> QED
        BY <1>1, <1>9, <2>1, SettledKeepsEdges DEF TreeAgrees
<1>11. CASE stack' = Append(w, Frame(t, kid, visited', perm_state))
    <2> DEFINE fr == Frame(t, kid, visited', perm_state)
    <2>1. fr.table = t /\ fr.edge = kid
        BY DEF Frame
    <2> HIDE DEF fr, kid, top
    <2>2. FromCondition(cs, fr)
        BY <1>8, <2>1 DEF FromCondition
    <2>3. w \in Seq(FramesOf(q) \cup {fr}) /\ fr \in FramesOf(q) \cup {fr}
        BY <1>6
    <2>4. /\ Len(w) \in Nat /\ Len(stack') = Len(w) + 1 /\ stack'[Len(w) + 1] = fr
          /\ \A i \in 1..Len(w) : stack'[i] = w[i]
        BY <1>11, <2>3, AppendProperties DEF fr
    <2>5. \A i \in 1..(Len(w) + 1) : i \in 1..Len(w) \/ i = Len(w) + 1
        BY <2>4
    <2>6. FromConditions(cs, stack', nodes')
        BY <1>1, <1>7, <2>2, <2>4, <2>5 DEF FromConditions
    <2> QED
        BY <1>1, <1>9, <2>6, SettledKeepsEdges DEF TreeAgrees
<1>12. stack' = w \/ stack' = stack \/ stack' = Append(w, Frame(t, kid, visited', perm_state))
    BY <1>3 DEF Descend
<1> QED
    BY <1>10, <1>11, <1>12

(* An emitted node keeps its call's edge.                                  *)
LEMMA EmitKeepsEdges == IInv /\ EdgesInv /\ Emit => EdgesInv'
<1> SUFFICES ASSUME IInv, EdgesInv, Emit PROVE EdgesInv'
    OBVIOUS
<1> DEFINE q == query
           cs == join_conditions
           top == stack[Len(stack)]
           e == [table |-> top.table, edge |-> top.edge]
<1>1. Settled /\ pc' # "done"
    BY DEF IInv, Emit, Settled, plan, Phases
<1>2. /\ stack # <<>> /\ stack \in Seq(FramesOf(q)) /\ nodes \in Seq(EmitsOf(q))
      /\ stack' = Front(stack) /\ nodes' = Append(nodes, e)
    BY DEF IInv, Emit, Top, Last, Calls, TypedWalk, Emitted
<1>3. /\ Len(stack) \in Nat \ {0} /\ Len(stack') = Len(stack) - 1
      /\ \A i \in 1..(Len(stack) - 1) : stack'[i] = stack[i]
    BY <1>2, FrontProperties
<1>4. /\ \A i \in 1..Len(stack) : FromCondition(cs, stack[i])
      /\ \A n \in 1..Len(nodes) : FromCondition(cs, nodes[n])
    BY DEF EdgesInv, FromConditions
<1>5. FromCondition(cs, e)
    <2>1. FromCondition(cs, top)
        BY <1>3, <1>4
    <2>2. e.table = top.table /\ e.edge = top.edge
        OBVIOUS
    <2> HIDE DEF e, top
    <2> QED
        BY <2>1, <2>2 DEF FromCondition
<1> HIDE DEF e
<1>6. /\ Len(nodes) \in Nat /\ Len(nodes') = Len(nodes) + 1 /\ nodes'[Len(nodes) + 1] = e
      /\ \A n \in 1..Len(nodes) : nodes'[n] = nodes[n]
    <2>1. nodes \in Seq(EmitsOf(q) \cup {e}) /\ e \in EmitsOf(q) \cup {e}
        BY <1>2
    <2> QED
        BY <1>2, <2>1, AppendProperties
<1>7. /\ \A n \in 1..(Len(nodes) + 1) : n \in 1..Len(nodes) \/ n = Len(nodes) + 1
      /\ \A i \in 1..(Len(stack) - 1) : i \in 1..Len(stack)
    BY <1>3, <1>6
<1>8. FromConditions(cs, stack', nodes')
    BY <1>3, <1>4, <1>5, <1>6, <1>7 DEF FromConditions
<1> QED
    BY <1>1, <1>8, SettledKeepsEdges DEF TreeAgrees

(* The tree is made of the emitted nodes.                                  *)
LEMMA SerializeEndKeepsEdges == IInv /\ EdgesInv /\ SerializeEnd => EdgesInv'
<1> SUFFICES ASSUME IInv, EdgesInv, SerializeEnd PROVE EdgesInv'
    OBVIOUS
<1>1. /\ Settled /\ stack' = stack /\ nodes' = nodes /\ visited' = visited /\ query' = query
      /\ stack = <<>>
    BY DEF IInv, SerializeEnd, Settled, plan, walk, Phases
<1>2. FromConditions(join_conditions, stack', nodes')
    BY <1>1 DEF EdgesInv
<1>3. TreeAgrees'
    <2> SUFFICES ASSUME pc' = "done"
                 PROVE  /\ Len(tree') = Len(nodes) /\ Len(nodes) = Len(query.tables)
                        /\ (\A n \in 1..Len(nodes) : NodeAgrees(tree[n], nodes[n]))'
        BY <1>1 DEF TreeAgrees
    <2> DEFINE node(i) ==
                [table |-> nodes[i].table,
                 parent_idx |-> IF nodes[i].edge = NoEdge THEN 0 ELSE NodePos(nodes[i].edge.target_table),
                 join_col |-> nodes[i].edge.source_column, parent_join_col |-> nodes[i].edge.target_column,
                 deviation1 |-> nodes[i].edge.band.deviation1, equality1 |-> nodes[i].edge.band.equality1,
                 deviation2 |-> nodes[i].edge.band.deviation2, equality2 |-> nodes[i].edge.band.equality2]
    <2>1. tree' = [i \in DOMAIN nodes |-> node(i)] /\ Reached
        BY DEF SerializeEnd, Throw
    <2>2. query \in Queries /\ Calls(query, join_conditions, stack, nodes, visited)
        BY DEF IInv
    <2>3. nodes \in Seq(EmitsOf(query)) /\ Len(nodes) \in Nat /\ DOMAIN nodes = 1..Len(nodes)
        BY <2>2 DEF Calls, TypedWalk
    <2>4. Len(nodes) = Len(query.tables)
        BY <1>1, <2>1, <2>2, AllEmitted DEF Reached
    <2>5. \A i \in DOMAIN nodes : NodeAgrees(node(i), nodes[i])
        BY DEF NodeAgrees, ParentPos
    <2>6. \A edge : ParentPos(edge)' = ParentPos(edge)
        BY <1>1 DEF ParentPos, NodePos
    <2> HIDE DEF node
    <2>7. Len(tree') = Len(nodes) /\ \A i \in DOMAIN nodes : tree'[i] = node(i)
        BY <2>1, <2>3
    <2>8. ASSUME NEW n \in 1..Len(nodes) PROVE NodeAgrees(tree[n], nodes[n])'
        <3>1. NodeAgrees(node(n), nodes[n]) /\ tree'[n] = node(n) /\ nodes'[n] = nodes[n]
            BY <1>1, <2>3, <2>5, <2>7
        <3> QED
            BY <2>6, <3>1 DEF NodeAgrees
    <2> QED
        BY <1>1, <2>4, <2>7, <2>8
<1> QED
    BY <1>1, <1>2, <1>3, SettledKeepsEdges

(* The tree's edges stand for the query's conditions in every state.       *)
THEOREM EdgesAreConditions == Spec => []EdgesInv
<1>1. IInv /\ EdgesInv /\ NextVariant => EdgesInv'
    <2> SUFFICES ASSUME IInv, EdgesInv, NextVariant PROVE EdgesInv'
        OBVIOUS
    <2>1. /\ query' = query /\ groups' = groups /\ join_conditions' = join_conditions
          /\ stack' = stack /\ nodes' = nodes /\ pc' # "done"
        BY DEF NextVariant, plan, walk
    <2> QED
        BY <2>1 DEF EdgesInv, TreeAgrees
<1>2. IInv /\ EdgesInv /\ UNCHANGED vars => EdgesInv'
    <2> SUFFICES ASSUME IInv, EdgesInv, UNCHANGED vars PROVE EdgesInv'
        OBVIOUS
    <2>1. /\ query' = query /\ groups' = groups /\ join_conditions' = join_conditions
          /\ stack' = stack /\ nodes' = nodes /\ pc' = pc /\ tree' = tree
        BY DEF vars, plan, walk
    <2>2. \A edge : ParentPos(edge)' = ParentPos(edge)
        BY <2>1 DEF ParentPos, NodePos
    <2>3. TreeAgrees'
        BY <2>1, <2>2 DEF EdgesInv, TreeAgrees, NodeAgrees
    <2> QED
        BY <2>1, <2>3 DEF EdgesInv
<1>3. IInv /\ EdgesInv /\ [Next]_vars => EdgesInv'
    BY <1>1, <1>2, MergeGroupKeepsEdges, SerializeStartKeepsEdges, DescendKeepsEdges, EmitKeepsEdges,
       SerializeEndKeepsEdges DEF Next, Ended
<1> QED
    BY EdgesInit, <1>3, PlanIsInductive, PTL DEF Spec

-----------------------------------------------------------------------------
(* What the tree means. *)

EdgeHolds(e, v) ==
    InBand(v[<<e.source_table, e.source_column>>], v[<<e.target_table, e.target_column>>], e.band)

(* An edge means the same after it is turned.                              *)
LEMMA TurnedMeansTheSame ==
    ASSUME NEW S, NEW c \in EdgesOver(S), NEW t, NEW v,
           v[<<c.source_table, c.source_column>>] \in Int, v[<<c.target_table, c.target_column>>] \in Int
    PROVE  EdgeHolds(Towards(c, t), v) <=> EdgeHolds(c, v)
<1>1. c.band \in BandConstraints
    BY DEF EdgesOver
<1>2. EdgeHolds(Reversed(c), v) <=> EdgeHolds(c, v)
    <2> DEFINE x == v[<<c.source_table, c.source_column>>]
               p == v[<<c.target_table, c.target_column>>]
    <2>1. x \in Int /\ p \in Int
        OBVIOUS
    <2>2. EdgeHolds(c, v) <=> InBand(x, p, c.band)
        BY DEF EdgeHolds
    <2>3. EdgeHolds(Reversed(c), v) <=> InBand(p, x, reverse(c.band))
        BY DEF EdgeHolds, Reversed
    <2> HIDE DEF x, p
    <2> QED
        BY <1>1, <2>1, <2>2, <2>3, ReverseSwapsRoles
<1> QED
    BY <1>2 DEF Towards

(* The attributes of a condition have numbers as values.                   *)
LEMMA AttributeTypes ==
    ASSUME query \in Queries, NEW v \in [Attributes -> Int], NEW i \in DOMAIN query.conditions
    PROVE  LET c == query.conditions[i]
           IN  v[<<c.left, c.left_col>>] \in Int /\ v[<<c.right, c.right_col>>] \in Int
<1> DEFINE c == query.conditions[i]
<1>1. <<c.left, c.left_col>> \in Attributes /\ <<c.right, c.right_col>> \in Attributes
    BY DEF Attributes
<1> QED
    BY <1>1

(* A merged condition holds if the conditions of its group do, and only if *)
(* they do when they can hold together.                                    *)
LEMMA EdgeOfGroup ==
    ASSUME query \in Queries, Plain(query), NEW v \in [Attributes -> Int], NEW e,
           ColumnsOf(e) \in GroupsOf(query), Means(query, ColumnsOf(e), e.band)
    PROVE  /\ v[<<e.source_table, e.source_column>>] \in Int
           /\ v[<<e.target_table, e.target_column>>] \in Int
           /\ SatisfiesWhere(v) => EdgeHolds(e, v)
           /\ Agree(query, ColumnsOf(e)) /\ EdgeHolds(e, v) =>
                 \A i \in DOMAIN query.conditions :
                    LET c == query.conditions[i]
                    IN  Columns(c) = ColumnsOf(e) => Holds(c, v[<<c.left, c.left_col>>], v[<<c.right, c.right_col>>])
<1> DEFINE key == ColumnsOf(e)
           x == v[<<e.source_table, e.source_column>>]
           p == v[<<e.target_table, e.target_column>>]
<1>1. \A i \in DOMAIN query.conditions :
         Columns(query.conditions[i]) = key =>
            /\ v[<<query.conditions[i].left, query.conditions[i].left_col>>] = x
            /\ v[<<query.conditions[i].right, query.conditions[i].right_col>>] = p
    BY DEF Columns, ColumnsOf
<1>2. x \in Int /\ p \in Int
    <2>1. PICK i \in DOMAIN query.conditions : key = Columns(query.conditions[i])
        BY DEF GroupsOf
    <2>2. /\ v[<<query.conditions[i].left, query.conditions[i].left_col>>] \in Int
          /\ v[<<query.conditions[i].right, query.conditions[i].right_col>>] \in Int
        BY AttributeTypes
    <2> HIDE DEF key, x, p
    <2> QED
        BY <1>1, <2>1, <2>2
<1>3. EdgeHolds(e, v) <=> InBand(x, p, e.band)
    BY DEF EdgeHolds
<1>4. Means(query, key, e.band)
    OBVIOUS
<1>5. SatisfiesWhere(v) => AllHold(query, key, x, p)
    <2> HIDE DEF key, x, p
    <2> QED
        BY <1>1 DEF SatisfiesWhere, AllHold, Holds
<1>6. AllHold(query, key, x, p) =>
        \A i \in DOMAIN query.conditions :
            LET c == query.conditions[i]
            IN  Columns(c) = key => Holds(c, v[<<c.left, c.left_col>>], v[<<c.right, c.right_col>>])
    <2> HIDE DEF key, x, p
    <2> QED
        BY <1>1 DEF AllHold
<1> HIDE DEF key, x, p
<1>7. /\ AllHold(query, key, x, p) => EdgeHolds(e, v)
      /\ Agree(query, key) /\ EdgeHolds(e, v) => AllHold(query, key, x, p)
    BY <1>2, <1>3, <1>4 DEF Means
<1> QED
    BY <1>2, <1>5, <1>6, <1>7 DEF key, x, p

(* What EdgesInv and IInv say of a finished tree. *)
Finished ==
    /\ query \in Queries /\ Merging(query, {}, join_conditions)
    /\ GroupsMerged(query, {}, join_conditions)
    /\ Calls(query, join_conditions, stack, nodes, visited) /\ stack = <<>>
    /\ FromConditions(join_conditions, stack, nodes)
    /\ Len(tree) = Len(nodes) /\ Len(nodes) = Len(query.tables)
    /\ \A n \in 1..Len(nodes) : NodeAgrees(tree[n], nodes[n])

(* An emitted node's parent is emitted after it, and has one position.     *)
LEMMA ParentsFound ==
    ASSUME Finished
    PROVE  /\ nodes \in Seq(EmitsOf(query)) /\ Len(nodes) \in Nat /\ DOMAIN nodes = 1..Len(nodes)
           /\ \A m, n \in 1..Len(nodes) : nodes[m].table = nodes[n].table => m = n
           /\ \A n \in 1..Len(nodes) :
                 /\ nodes[n].edge = NoEdge <=> n = Len(nodes)
                 /\ nodes[n].edge # NoEdge =>
                       /\ nodes[n].edge \in Edges(query)
                       /\ ParentPos(nodes[n].edge) \in (n + 1)..Len(nodes)
                       /\ nodes[ParentPos(nodes[n].edge)].table = nodes[n].edge.target_table
<1> DEFINE L == Len(nodes)
<1>1. /\ nodes \in Seq(EmitsOf(query)) /\ DOMAIN nodes = 1..L /\ L \in Nat /\ Len(stack) = 0
    BY DEF Finished, Calls, TypedWalk
<1>2. Once(stack, nodes) /\ ParentsAhead(query, stack, nodes)
    BY DEF Finished, Calls
<1>3. \A m, n \in 1..L : nodes[m].table = nodes[n].table => m = n
    BY <1>2 DEF Once
<1>4. ASSUME NEW n \in 1..L
      PROVE  /\ nodes[n].edge = NoEdge => n = L
             /\ nodes[n].edge # NoEdge =>
                   \E m \in (n + 1)..L : nodes[m].table = nodes[n].edge.target_table
    <2>1. \A i : ~(i \in 1..Len(stack))
        BY <1>1
    <2> QED
        BY <1>2, <2>1 DEF ParentsAhead
<1> HIDE DEF L
<1>5. ASSUME NEW n \in 1..L, nodes[n].edge # NoEdge
      PROVE  /\ n # L
             /\ nodes[n].edge \in Edges(query)
             /\ ParentPos(nodes[n].edge) \in (n + 1)..L
             /\ nodes[ParentPos(nodes[n].edge)].table = nodes[n].edge.target_table
    <2> DEFINE x == nodes[n]
               p == x.edge.target_table
    <2>1. PICK m \in (n + 1)..L : nodes[m].table = p
        BY <1>4, <1>5
    <2>2. m \in 1..L /\ n # L
        BY <1>1
    <2>3. x \in EmitsOf(query)
        BY <1>1
    <2>4. x.edge \in Edges(query)
        <3>1. x.edge # NoEdge
            BY <1>5
        <3> HIDE DEF x
        <3> QED
            BY <2>3, <3>1 DEF EmitsOf
    <2> HIDE DEF p
    <2>5. NodePos(p) \in DOMAIN nodes /\ nodes[NodePos(p)].table = p
        BY <1>1, <2>1, <2>2 DEF NodePos
    <2>6. NodePos(p) = m
        BY <1>1, <1>3, <2>1, <2>2, <2>5
    <2>7. ParentPos(x.edge) = NodePos(p)
        BY <1>5 DEF ParentPos, p
    <2> QED
        BY <2>1, <2>2, <2>4, <2>6, <2>7 DEF p
<1>6. \A n \in 1..L : nodes[n].edge = NoEdge <=> n = L
    BY <1>4, <1>5
<1> QED
    BY <1>1, <1>3, <1>5, <1>6 DEF L

(* The tree holds for attributes that satisfy its nodes' edges.            *)
LEMMA TreeMeansEdges ==
    ASSUME Finished, NEW v
    PROVE  SatisfiesTree(v) <=> \A n \in 1..Len(nodes) : nodes[n].edge # NoEdge => EdgeHolds(nodes[n].edge, v)
<1> DEFINE L == Len(nodes)
           child(n) == v[<<tree[n].table, tree[n].join_col>>]
           parent(n) == v[<<tree[tree[n].parent_idx].table, tree[n].parent_join_col>>]
<1>1. L \in Nat /\ Len(tree) = L
    BY ParentsFound DEF Finished
<1>2. ASSUME NEW n \in 1..L
      PROVE  /\ n \in NonRoot(tree) <=> nodes[n].edge # NoEdge
             /\ nodes[n].edge # NoEdge => (InBand(child(n), parent(n), tree[n]) <=> EdgeHolds(nodes[n].edge, v))
    <2> DEFINE x == nodes[n]
               node == tree[n]
               p == ParentPos(x.edge)
    <2>1. NodeAgrees(node, x)
        BY DEF Finished
    <2>2. CASE x.edge = NoEdge
        <3>1. node.parent_idx = 0
            BY <2>1, <2>2 DEF NodeAgrees, ParentPos
        <3> QED
            BY <2>2, <3>1 DEF NonRoot, IsRoot
    <2>3. CASE x.edge # NoEdge
        <3>1. p \in (n + 1)..L /\ nodes[p].table = x.edge.target_table
            BY <2>3, ParentsFound
        <3>2. p \in 1..L /\ p # 0
            BY <1>1, <3>1
        <3>3. node.parent_idx = p /\ tree[p].table = nodes[p].table
            BY <2>1, <3>2 DEF NodeAgrees, Finished
        <3>4. n \in NonRoot(tree)
            BY <1>1, <3>2, <3>3 DEF NonRoot, IsRoot, Nodes
        <3>5. x.edge.source_table = x.table
            BY <2>3 DEF Finished, FromConditions, FromCondition
        <3>6. /\ child(n) = v[<<x.edge.source_table, x.edge.source_column>>]
              /\ parent(n) = v[<<x.edge.target_table, x.edge.target_column>>]
            <4> HIDE DEF p
            <4>1. tree[node.parent_idx].table = x.edge.target_table
                BY <3>1, <3>3
            <4> HIDE DEF x, node
            <4>2. node.table = x.table /\ node.join_col = x.edge.source_column
                  /\ node.parent_join_col = x.edge.target_column
                BY <2>1 DEF NodeAgrees
            <4> QED
                BY <3>5, <4>1, <4>2 DEF node
        <3> DEFINE a == child(n)
                   b == parent(n)
                   band == x.edge.band
        <3>7. EdgeHolds(x.edge, v) <=> InBand(a, b, band)
            BY <3>6 DEF EdgeHolds
        <3>8. /\ node.deviation1 = band.deviation1 /\ node.equality1 = band.equality1
              /\ node.deviation2 = band.deviation2 /\ node.equality2 = band.equality2
            BY <2>1 DEF NodeAgrees
        <3> HIDE DEF a, b, band, node
        <3>9. InBand(a, b, node) <=> InBand(a, b, band)
            BY <3>8 DEF InBand, AboveLower, BelowUpper
        <3> QED
            BY <2>3, <3>4, <3>7, <3>9 DEF a, b, node
    <2> QED
        BY <2>2, <2>3
<1>3. SatisfiesTree(v) <=> \A n \in NonRoot(tree) : InBand(child(n), parent(n), tree[n])
    BY DEF SatisfiesTree
<1>4. NonRoot(tree) \subseteq 1..L
    BY <1>1 DEF NonRoot, Nodes
<1> HIDE DEF child, parent
<1> QED
    BY <1>2, <1>3, <1>4 DEF L

(* Two nodes do not come from the same condition.                          *)
LEMMA DifferentConditions ==
    ASSUME Finished, NEW m \in 1..Len(nodes), NEW n \in 1..Len(nodes), NEW c,
           nodes[m].edge # NoEdge, nodes[m].edge = Towards(c, nodes[m].edge.target_table),
           nodes[n].edge # NoEdge, nodes[n].edge = Towards(c, nodes[n].edge.target_table)
    PROVE  m = n
<1> DEFINE L == Len(nodes)
<1>1. ASSUME NEW i \in 1..L, nodes[i].edge # NoEdge, nodes[i].edge = Towards(c, nodes[i].edge.target_table)
      PROVE  LET p == ParentPos(nodes[i].edge)
             IN  /\ p \in (i + 1)..L
                 /\ {nodes[i].table, nodes[p].table} = {c.source_table, c.target_table}
    <2> DEFINE e == nodes[i].edge
    <2>1. e.source_table = nodes[i].table
        BY <1>1 DEF Finished, FromConditions, FromCondition
    <2>2. ParentPos(e) \in (i + 1)..L /\ nodes[ParentPos(e)].table = e.target_table
        BY <1>1, ParentsFound
    <2>3. {e.source_table, e.target_table} = {c.source_table, c.target_table}
        <3>1. e = Towards(c, e.target_table)
            BY <1>1
        <3> HIDE DEF e
        <3> QED
            BY <3>1 DEF Towards, Reversed
    <2> QED
        BY <2>1, <2>2, <2>3
<1> DEFINE pm == ParentPos(nodes[m].edge)
           pn == ParentPos(nodes[n].edge)
<1>2. /\ pm \in (m + 1)..L /\ pn \in (n + 1)..L
      /\ {nodes[m].table, nodes[pm].table} = {nodes[n].table, nodes[pn].table}
    BY <1>1
<1>3. L \in Nat /\ \A i, j \in 1..L : nodes[i].table = nodes[j].table => i = j
    BY ParentsFound
<1> HIDE DEF pm, pn, L
<1>4. pm \in 1..L /\ pn \in 1..L /\ m \in 1..L /\ n \in 1..L
    BY <1>2, <1>3 DEF L
<1>5. nodes[m].table = nodes[n].table \/ (nodes[m].table = nodes[pn].table /\ nodes[pm].table = nodes[n].table)
    BY <1>2
<1>6. m = n \/ (m = pn /\ pm = n)
    BY <1>3, <1>4, <1>5
<1> QED
    BY <1>2, <1>3, <1>4, <1>6

(* If there is one group of conditions less than there are tables, every   *)
(* merged condition is the edge of a node.                                 *)
LEMMA NoConditionIsLeftOver ==
    ASSUME Finished, Cardinality(GroupsOf(query)) + 1 = Len(query.tables)
    PROVE  \A j \in 1..Len(join_conditions) : \E n \in 1..Len(nodes) :
               nodes[n].edge # NoEdge /\ nodes[n].edge = Towards(join_conditions[j], nodes[n].edge.target_table)
<1> DEFINE cs == join_conditions
           m == Len(cs)
           k == Len(nodes) - 1
           from(n, j) == nodes[n].edge # NoEdge /\ nodes[n].edge = Towards(cs[j], nodes[n].edge.target_table)
           keys == [j \in 1..m |-> ColumnsOf(cs[j])]
           used == [n \in 1..k |-> CHOOSE j \in 1..m : from(n, j)]
<1>1. m \in Nat
    BY DEF Finished, Merging
<1>2. m = Cardinality(GroupsOf(query))
    <2>1. keys \in Seq(GroupsOf(query)) /\ Len(keys) = m
        BY <1>1 DEF Finished, GroupsMerged
    <2>2. \A i, j \in 1..Len(keys) : keys[i] = keys[j] => i = j
        BY <2>1 DEF Finished, GroupsMerged
    <2>3. ASSUME NEW key \in GroupsOf(query) PROVE \E j \in 1..m : keys[j] = key
        <3>1. PICK i \in DOMAIN query.conditions : key = Columns(query.conditions[i])
            BY DEF GroupsOf
        <3>2. PICK j \in 1..m : Joins(cs[j], query.conditions[i])
            BY DEF Finished, Merging
        <3>3. ColumnsOf(cs[j]) = key
            BY <3>1, <3>2 DEF Joins, ColumnsOf, Columns
        <3> QED
            BY <3>3
    <2> HIDE DEF keys, m
    <2>4. {keys[i] : i \in 1..Len(keys)} = GroupsOf(query)
        <3>1. \A i \in 1..Len(keys) : keys[i] \in GroupsOf(query)
            BY <2>1
        <3> QED
            BY <2>1, <2>3, <3>1
    <2>5. Cardinality({keys[i] : i \in 1..Len(keys)}) = Len(keys)
        BY <2>1, <2>2, DifferentElements
    <2> QED
        BY <2>1, <2>4, <2>5
<1>3. Len(nodes) \in Nat /\ k = m /\ k \in Nat /\ k + 1 = Len(nodes)
    BY <1>1, <1>2, ParentsFound DEF Finished
<1> HIDE DEF m, k, from
<1>4. ASSUME NEW n \in 1..k PROVE \E j \in 1..m : from(n, j)
    <2>1. n \in 1..Len(nodes) /\ n # Len(nodes)
        BY <1>3
    <2>2. nodes[n].edge # NoEdge
        BY <2>1, ParentsFound
    <2> QED
        BY <2>1, <2>2 DEF Finished, FromConditions, FromCondition, from, m
<1>5. \A n \in 1..k : used[n] \in 1..m /\ from(n, used[n])
    BY <1>4
<1>6. used \in Seq(1..m) /\ Len(used) = k
    BY <1>3, <1>5
<1> HIDE DEF used
<1>7. \A i, n \in 1..Len(used) : used[i] = used[n] => i = n
    <2> SUFFICES ASSUME NEW i \in 1..k, NEW n \in 1..k, used[i] = used[n] PROVE i = n
        BY <1>6
    <2>1. from(i, used[i]) /\ from(n, used[i]) /\ i \in 1..Len(nodes) /\ n \in 1..Len(nodes)
        BY <1>3, <1>5
    <2> QED
        BY <2>1, DifferentConditions DEF from
<1> DEFINE U == {used[n] : n \in 1..Len(used)}
<1>8. Cardinality(U) = m
    BY <1>3, <1>6, <1>7, DifferentElements
<1>9. U \subseteq 1..m
    BY <1>5, <1>6
<1>10. IsFiniteSet(1..m) /\ Cardinality(1..m) = m
    <2>1. 1 \in Int /\ m \in Int
        BY <1>1
    <2>2. IsFiniteSet(1..m) /\ Cardinality(1..m) = IF 1 > m THEN 0 ELSE m - 1 + 1
        BY <2>1, FS_Interval
    <2> QED
        BY <1>1, <2>2
<1>11. U = 1..m
    <2> HIDE DEF U
    <2> QED
        BY <1>8, <1>9, <1>10, FS_Subset
<1>12. ASSUME NEW j \in 1..m PROVE \E n \in 1..Len(nodes) : from(n, j)
    <2>1. PICK n \in 1..k : j = used[n]
        BY <1>6, <1>11
    <2> QED
        BY <1>3, <1>5, <2>1
<1> QED
    BY <1>12 DEF from, m

(* The query's conditions join its tables as a tree does: there is one     *)
(* group of columns less than there are tables, the conditions on the same *)
(* columns can hold together, and none is a "!=".                          *)
Treelike(q) ==
    /\ Plain(q) /\ Cardinality(GroupsOf(q)) + 1 = Len(q.tables)
    /\ \A key \in GroupsOf(q) : Agree(q, key)

(* A finished tree holds for attributes that satisfy the query, and for no *)
(* others if the query is treelike.                                        *)
LEMMA TreeMeans ==
    ASSUME Finished, Plain(query), NEW v \in [Attributes -> Int]
    PROVE  /\ SatisfiesWhere(v) => SatisfiesTree(v)
           /\ Treelike(query) /\ SatisfiesTree(v) => SatisfiesWhere(v)
<1> DEFINE cs == join_conditions
           m == Len(cs)
<1>1. /\ query \in Queries /\ cs \in Seq(Edges(query))
      /\ \A j \in 1..m : ColumnsOf(cs[j]) \in GroupsOf(query) /\ Means(query, ColumnsOf(cs[j]), cs[j].band)
    BY DEF Finished, Merging, GroupsMerged
<1>2. ASSUME NEW j \in 1..m
      PROVE  /\ SatisfiesWhere(v) => EdgeHolds(cs[j], v)
             /\ \A t : EdgeHolds(Towards(cs[j], t), v) <=> EdgeHolds(cs[j], v)
             /\ Agree(query, ColumnsOf(cs[j])) /\ EdgeHolds(cs[j], v) =>
                 \A i \in DOMAIN query.conditions :
                    LET c == query.conditions[i]
                    IN  Columns(c) = ColumnsOf(cs[j]) => Holds(c, v[<<c.left, c.left_col>>], v[<<c.right, c.right_col>>])
    <2> DEFINE e == cs[j]
    <2>1. e \in EdgesOver(NamedBy(query))
        BY <1>1 DEF Edges
    <2>2. ColumnsOf(e) \in GroupsOf(query) /\ Means(query, ColumnsOf(e), e.band)
        BY <1>1
    <2> HIDE DEF e
    <2>3. /\ v[<<e.source_table, e.source_column>>] \in Int
          /\ v[<<e.target_table, e.target_column>>] \in Int
          /\ SatisfiesWhere(v) => EdgeHolds(e, v)
          /\ Agree(query, ColumnsOf(e)) /\ EdgeHolds(e, v) =>
                 \A i \in DOMAIN query.conditions :
                    LET c == query.conditions[i]
                    IN  Columns(c) = ColumnsOf(e) => Holds(c, v[<<c.left, c.left_col>>], v[<<c.right, c.right_col>>])
        BY <1>1, <2>2, EdgeOfGroup
    <2>4. \A t : EdgeHolds(Towards(e, t), v) <=> EdgeHolds(e, v)
        BY <2>1, <2>3, TurnedMeansTheSame
    <2> QED
        BY <2>3, <2>4 DEF e
<1>3. SatisfiesTree(v) <=> \A n \in 1..Len(nodes) : nodes[n].edge # NoEdge => EdgeHolds(nodes[n].edge, v)
    BY TreeMeansEdges
<1>4. ASSUME SatisfiesWhere(v), NEW n \in 1..Len(nodes), nodes[n].edge # NoEdge
      PROVE  EdgeHolds(nodes[n].edge, v)
    <2>1. PICK j \in 1..m : nodes[n].edge = Towards(cs[j], nodes[n].edge.target_table)
        BY <1>4 DEF Finished, FromConditions, FromCondition
    <2> QED
        BY <1>2, <1>4, <2>1
<1>5. ASSUME Treelike(query), SatisfiesTree(v), NEW i \in DOMAIN query.conditions
      PROVE  LET c == query.conditions[i]
             IN  Compare(v[<<c.left, c.left_col>>], c.op, v[<<c.right, c.right_col>>] + c.deviation)
    <2>1. PICK j \in 1..m : Joins(cs[j], query.conditions[i])
        BY DEF Finished, Merging
    <2>2. ColumnsOf(cs[j]) = Columns(query.conditions[i])
        BY <2>1 DEF Joins, ColumnsOf, Columns
    <2>3. PICK n \in 1..Len(nodes) :
             nodes[n].edge # NoEdge /\ nodes[n].edge = Towards(cs[j], nodes[n].edge.target_table)
        BY <1>5, NoConditionIsLeftOver DEF Treelike
    <2>4. EdgeHolds(nodes[n].edge, v)
        BY <1>3, <1>5, <2>3
    <2>5. EdgeHolds(cs[j], v)
        BY <1>2, <2>3, <2>4
    <2>6. Agree(query, ColumnsOf(cs[j]))
        BY <1>1, <1>5 DEF Treelike
    <2> QED
        BY <1>2, <2>2, <2>5, <2>6 DEF Holds
<1> QED
    BY <1>3, <1>4, <1>5 DEF SatisfiesWhere

(* A tree that is answered is finished.                                    *)
LEMMA AnsweredIsFinished == IInv /\ EdgesInv /\ pc = "done" => Finished
<1> SUFFICES ASSUME IInv, EdgesInv, pc = "done" PROVE Finished
    OBVIOUS
<1>1. groups = {} /\ stack = <<>>
    BY DEF IInv, Phases
<1> QED
    BY <1>1 DEF IInv, EdgesInv, TreeAgrees, Finished

(* For every query without a "!=", cyclic ones and those written from both *)
(* sides included: a choice of attribute values that satisfies the WHERE   *)
(* clause satisfies every edge of the tree that serialize_join_tree makes, *)
(* so the join of the tree loses no row of the query's answer.             *)
THEOREM TreeLosesNothing ==
    Spec => [](pc = "done" /\ Plain(query) =>
                  \A v \in [Attributes -> Values] : SatisfiesWhere(v) => SatisfiesTree(v))
<1>1. ASSUME IInv, EdgesInv, pc = "done", Plain(query), NEW v \in [Attributes -> Values]
      PROVE  SatisfiesWhere(v) => SatisfiesTree(v)
    <2>1. v \in [Attributes -> Int] /\ Finished
        BY <1>1, ValuesAssumption, AnsweredIsFinished
    <2> QED
        BY <1>1, <2>1, TreeMeans
<1>2. IInv /\ EdgesInv => (pc = "done" /\ Plain(query) =>
                  \A v \in [Attributes -> Values] : SatisfiesWhere(v) => SatisfiesTree(v))
    BY <1>1
<1> QED
    BY PlanIsInductive, EdgesAreConditions, <1>2, PTL

(* For every query whose conditions join its tables as a tree does: the    *)
(* tree of every variant means what the WHERE clause means.                *)
THEOREM TreesDecideQueries == Spec => [](Treelike(query) => TreeDecidesQuery)
<1>1. ASSUME IInv, EdgesInv, Treelike(query), pc = "done", NEW v \in [Attributes -> Values]
      PROVE  SatisfiesWhere(v) <=> SatisfiesTree(v)
    <2>1. v \in [Attributes -> Int] /\ Finished /\ Plain(query)
        BY <1>1, ValuesAssumption, AnsweredIsFinished DEF Treelike
    <2> QED
        BY <1>1, <2>1, TreeMeans
<1>2. IInv /\ EdgesInv => (Treelike(query) => TreeDecidesQuery)
    BY <1>1 DEF TreeDecidesQuery
<1> QED
    BY PlanIsInductive, EdgesAreConditions, <1>2, PTL

=============================================================================
