--------------------------- MODULE BandConstraint ---------------------------
(***************************************************************************)
(* The band constraint between two columns, from the SQL text to the edge  *)
(* of the join tree: what it means, how the parser makes one of a          *)
(* comparison, how two on the same columns are merged, and how one is      *)
(* turned around when the join tree needs the other table as the child.    *)
(*                                                                         *)
(* A constraint is a record with (at least) the fields deviation1,         *)
(* equality1, deviation2, equality2.                                       *)
(***************************************************************************)
EXTENDS Integers

CONSTANT AttrMax        \* JOIN_ATTR_MAX; the safe range is -AttrMax..AttrMax

ASSUME AttrMaxAssumption == AttrMax \in Nat \ {0}

EQ  == "EQ"
NEQ == "NEQ"

JOIN_ATTR_NEG_INF == -(AttrMax + 1)
JOIN_ATTR_POS_INF == AttrMax + 1

BandConstraints ==
    [deviation1 : JOIN_ATTR_NEG_INF..JOIN_ATTR_POS_INF, equality1 : {EQ, NEQ},
     deviation2 : JOIN_ATTR_NEG_INF..JOIN_ATTR_POS_INF, equality2 : {EQ, NEQ}]

-----------------------------------------------------------------------------
(* The constraint as the SQL text means it: the source's attribute x lies  *)
(* between the target's attribute p plus deviation1 and p plus deviation2, *)
(* each end open (NEQ) or closed (EQ), and an infinite deviation leaves    *)
(* that side unbounded.                                                    *)

AboveLower(x, p, c) ==
    \/ c.deviation1 = JOIN_ATTR_NEG_INF
    \/ x > p + c.deviation1
    \/ x = p + c.deviation1 /\ c.equality1 = EQ

BelowUpper(x, p, c) ==
    \/ c.deviation2 = JOIN_ATTR_POS_INF
    \/ x < p + c.deviation2
    \/ x = p + c.deviation2 /\ c.equality2 = EQ

InBand(x, p, c) == AboveLower(x, p, c) /\ BelowUpper(x, p, c)

-----------------------------------------------------------------------------
(* InequalityParser::operator_to_constraint: x op p + deviation.           *)

Band(d1, e1, d2, e2) ==
    [deviation1 |-> d1, equality1 |-> e1, deviation2 |-> d2, equality2 |-> e2]

operator_to_constraint(op, deviation) ==
    CASE op = "="  -> Band(deviation, EQ, deviation, EQ)
      [] op = ">=" -> Band(deviation, EQ, JOIN_ATTR_POS_INF, NEQ)
      [] op = ">"  -> Band(deviation, NEQ, JOIN_ATTR_POS_INF, NEQ)
      [] op = "<=" -> Band(JOIN_ATTR_NEG_INF, NEQ, deviation, EQ)
      [] op = "<"  -> Band(JOIN_ATTR_NEG_INF, NEQ, deviation, NEQ)
      [] op = "!=" -> Band(1, EQ, 0, EQ)

(* What the operators of the text mean. *)
Compare(x, op, y) ==
    CASE op = "="  -> x = y
      [] op = ">=" -> x >= y
      [] op = ">"  -> x > y
      [] op = "<=" -> x <= y
      [] op = "<"  -> x < y
      [] op = "!=" -> x # y

(* JoinConstraint::reverse: the same constraint on the target's attribute. *)
reverse_unswapped(c) ==                     \* mutant: only the deviations change places
    Band(-c.deviation2, c.equality1, -c.deviation1, c.equality2)

reverse(c) == Band(-c.deviation2, c.equality2, -c.deviation1, c.equality1)

-----------------------------------------------------------------------------
(* ConditionMerger.                                                        *)

is_stricter_lower(a, b) ==
    \/ a.deviation1 > b.deviation1
    \/ a.deviation1 = b.deviation1 /\ a.equality1 = NEQ /\ b.equality1 = EQ

is_stricter_upper(a, b) ==
    \/ a.deviation2 < b.deviation2
    \/ a.deviation2 = b.deviation2 /\ a.equality2 = NEQ /\ b.equality2 = EQ

Intersection_first(a, b) ==                 \* mutant: the upper bound of the first
    LET lower == IF is_stricter_lower(a, b) THEN a ELSE b
    IN  Band(lower.deviation1, lower.equality1, a.deviation2, a.equality2)

Intersection(a, b) ==
    LET lower == IF is_stricter_lower(a, b) THEN a ELSE b
        upper == IF is_stricter_upper(a, b) THEN a ELSE b
    IN  Band(lower.deviation1, lower.equality1, upper.deviation2, upper.equality2)

is_valid_range(c) ==
    \/ c.deviation1 = JOIN_ATTR_NEG_INF \/ c.deviation2 = JOIN_ATTR_POS_INF
    \/ c.deviation1 < c.deviation2
    \/ c.deviation1 = c.deviation2 /\ c.equality1 # NEQ /\ c.equality2 # NEQ

=============================================================================
