---------------------------- MODULE FieldValues ----------------------------
(***************************************************************************)
(* The values of fixed-width fields (splayed-core): what the bytes of a    *)
(* row stand for, a comparison of a column with a scalar, and the cast     *)
(* from one type to another.  A row is stored as a natural number of       *)
(* `width` bits; a floating-point value is stored as such, in halves, or   *)
(* as NaN, and holds integers exactly up to Exact.                         *)
(***************************************************************************)
EXTENDS Integers

CONSTANTS
    ValueBits,  \* i64 and u64
    Exact,      \* 2^53: integers up to here are exact as f64
    NaN,
    Mismatch    \* the scalar does not go with the type

ASSUME ValuesAssumption == ValueBits \in Nat \ {0} /\ Exact \in Nat

(* A type: kind and width in bits, of bool, int, uint or float.            *)
Unsigned(v, width) == v % 2 ^ width
Signed(v, width) ==
    LET u == Unsigned(v, width) IN IF u >= 2 ^ (width - 1) THEN u - 2 ^ width ELSE u

MinInt == -(2 ^ (ValueBits - 1))
MaxInt == 2 ^ (ValueBits - 1) - 1
MaxUInt == 2 ^ ValueBits - 1

(* read_row_scalar: [kind, v]; a bool is any byte but 0.                   *)
RowScalar(type, stored) ==
    CASE type.kind = "bool" -> [kind |-> "bool", v |-> stored # 0]
      [] type.kind = "int" -> [kind |-> "int", v |-> Signed(stored, type.width)]
      [] OTHER -> [kind |-> type.kind, v |-> stored]

(* `as f64` of an integer, in halves: above Exact to the next even one.    *)
AsFloat(n) ==
    LET a == IF n < 0 THEN -n ELSE n
        near == IF a <= Exact \/ a % 2 = 0 THEN a
                ELSE IF ((a - 1) \div 2) % 2 = 0 THEN a - 1 ELSE a + 1
    IN  IF n < 0 THEN -2 * near ELSE 2 * near

(* `as i64`, `as u64` of a float: toward zero, within the bounds.          *)
FloatTo(v, lo, hi) ==
    LET n == IF v >= 0 THEN v \div 2 ELSE -((-v) \div 2)
    IN  IF v = NaN THEN 0 ELSE IF n < lo THEN lo ELSE IF n > hi THEN hi ELSE n

----------------------------------------------------------------------------
(* eval_cmp_bytes.                                                         *)
Ops == {"Eq", "Ne", "Lt", "Le", "Gt", "Ge"}

Holds(op, a, b) ==
    CASE op = "Eq" -> a = b [] op = "Ne" -> a # b
      [] op = "Lt" -> a < b [] op = "Le" -> a <= b
      [] op = "Gt" -> a > b [] OTHER -> a >= b

(* Of two floats: with NaN only Ne holds.                                  *)
FloatHolds(op, a, b) == IF NaN \in {a, b} THEN op = "Ne" ELSE Holds(op, a, b)

(* Mutant: an integer scalar is taken for an unsigned one as it is.        *)
CompareWrapped(type, stored, op, s) ==
    LET row == RowScalar(type, stored)
        k == <<type.kind, s.kind>>
    IN  CASE k = <<"uint", "int">> -> Holds(op, row.v, Unsigned(s.v, ValueBits))
          [] k \in {<<"int", "int">>, <<"uint", "uint">>, <<"int", "uint">>} -> Holds(op, row.v, s.v)
          [] k = <<"bool", "bool">> -> Holds(op, IF row.v THEN 1 ELSE 0, IF s.v THEN 1 ELSE 0)
          [] (type.kind = "bool") # (s.kind = "bool") -> Mismatch
          [] OTHER -> FloatHolds(op, IF type.kind = "float" THEN row.v ELSE AsFloat(row.v),
                                 IF s.kind = "float" THEN s.v ELSE AsFloat(s.v))

Compare(type, stored, op, s) ==
    LET row == RowScalar(type, stored)
        k == <<type.kind, s.kind>>
    IN  CASE k = <<"bool", "bool">> -> Holds(op, IF row.v THEN 1 ELSE 0, IF s.v THEN 1 ELSE 0)
          [] (type.kind = "bool") # (s.kind = "bool") -> Mismatch
          [] k = <<"int", "uint">> ->
                IF s.v > MaxInt THEN op \in {"Ne", "Lt", "Le"}   \* any row is less
                ELSE Holds(op, row.v, s.v)
          [] k = <<"uint", "int">> ->
                IF s.v < 0 THEN op \in {"Ne", "Gt", "Ge"}        \* any row is greater
                ELSE Holds(op, row.v, s.v)
          [] k \in {<<"int", "int">>, <<"uint", "uint">>} -> Holds(op, row.v, s.v)
          [] OTHER -> FloatHolds(op, IF type.kind = "float" THEN row.v ELSE AsFloat(row.v),
                                 IF s.kind = "float" THEN s.v ELSE AsFloat(s.v))

----------------------------------------------------------------------------
(* convert_values: through the widest value of the target's kind, of which *)
(* the low bytes are stored, of a bool too.                                *)
ToFloat(s) ==
    IF s.kind = "bool" THEN IF s.v THEN 2 ELSE 0
    ELSE IF s.kind = "float" THEN s.v ELSE AsFloat(s.v)

ToInt(s) ==
    CASE s.kind = "bool" -> IF s.v THEN 1 ELSE 0
      [] s.kind = "float" -> FloatTo(s.v, MinInt, MaxInt)
      [] OTHER -> s.v
ToUInt(s) ==
    CASE s.kind = "bool" -> IF s.v THEN 1 ELSE 0
      [] s.kind = "float" -> FloatTo(s.v, 0, MaxUInt)
      [] OTHER -> Unsigned(s.v, ValueBits)

ConvertValue(src, dst, stored) ==
    LET s == RowScalar(src, stored)
    IN  CASE dst.kind = "float" -> ToFloat(s)
          [] dst.kind = "int" -> Unsigned(ToInt(s), dst.width)
          [] OTHER -> Unsigned(ToUInt(s), dst.width)
=============================================================================
