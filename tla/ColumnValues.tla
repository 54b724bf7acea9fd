---------------------------- MODULE ColumnValues ----------------------------
(***************************************************************************)
(* The values of a column (types/column_value.go) and the expressions over *)
(* them (execution/expression).  A value is an integer of IntBits bits, a  *)
(* Boolean or NULL.  SetNull keeps a payload of zero beside the flag, and  *)
(* the code looks at the payload of a right operand without looking at its *)
(* flag.  Floats and strings are compared as integers are; of two Booleans *)
(* none is less, and <= and >= are equality.                               *)
(***************************************************************************)
EXTENDS Integers

CONSTANTS
    Null,           \* a value with isNull set
    True, False,    \* the values of a Boolean column
    IntBits         \* the width of Integer, 32 in the code

ASSUME ValueAssumption ==
    /\ IntBits \in Nat \ {0}
    /\ True # False
    /\ Null \notin Int \union {True, False}
    /\ Int \intersect {True, False} = {}

IntMax == 2 ^ (IntBits - 1) - 1
IntMin == -(2 ^ (IntBits - 1))

Wrap(n) == ((n - IntMin) % (2 ^ IntBits)) + IntMin

Payload(v) == IF v = Null THEN 0 ELSE v

CompareEquals(v, right)      == v = right
CompareNotEquals(v, right)   == v # right
CompareGreaterThan(v, right) == v \notin {Null, True, False} /\ v > Payload(right)
CompareLessThan(v, right)    == v \notin {Null, True, False} /\ v < Payload(right)

CompareGreaterThanOrEqual(v, right) ==
    \/ v = right
    \/ v # Null /\ right # Null /\ CompareGreaterThan(v, right)

CompareLessThanOrEqual(v, right) ==
    \/ v = right
    \/ v # Null /\ right # Null /\ CompareLessThan(v, right)

\* Of integers: the value is one, and an argument of another type is a nil
\* dereference.  A NULL argument leaves the result as it was.
Add(v, other) == IF other = Null THEN v ELSE Wrap(Payload(v) + other)

MaxOf(v, other) ==
    IF other = Null \/ Payload(v) >= Payload(other) THEN v ELSE other

MinOf(v, other) ==
    IF other = Null \/ Payload(v) <= Payload(other) THEN v ELSE other

----------------------------------------------------------------------------
(* Comparison and LogicalOp.  A predicate says which column it compares    *)
(* with which constant; a logical operation has two predicates, NOT uses   *)
(* the first.                                                              *)

performComparison(type, lhs, rhs) ==
    CASE type = "Equal"              -> CompareEquals(lhs, rhs)
      [] type = "NotEqual"           -> CompareNotEquals(lhs, rhs)
      [] type = "GreaterThan"        -> CompareGreaterThan(lhs, rhs)
      [] type = "GreaterThanOrEqual" -> CompareGreaterThanOrEqual(lhs, rhs)
      [] type = "LessThan"           -> CompareLessThan(lhs, rhs)
      [] type = "LessThanOrEqual"    -> CompareLessThanOrEqual(lhs, rhs)

performLogicalOp(type, lhs, rhs) ==
    CASE type = "AND" -> lhs /\ rhs
      [] type = "OR"  -> lhs \/ rhs
      [] type = "NOT" -> ~lhs

EvaluateComparison(cmp, row) == performComparison(cmp.type, row[cmp.col], cmp.const)

Evaluate(pred, row) ==
    performLogicalOp(pred.type, EvaluateComparison(pred.left, row),
                                EvaluateComparison(pred.right, row))
============================================================================
