------------------------------ MODULE Numbers ------------------------------
(***************************************************************************)
(* Values as numbers: conversions (src/js_values.c, src/js_strtod.c) and   *)
(* the operators of expressions (src/js_math.c).                           *)
(*                                                                         *)
(* A value is its type and its payload: an integer or a double is the      *)
(* fraction it stands for, an infinity the sign <<1, 1>> or <<-1, 1>>, a   *)
(* string the sequence of its characters.  Integers wrap at IntMax, 2^63   *)
(* in the code.  Doubles are exact.  Garbage is the value of an operation  *)
(* that reads one member of the payload's union where another was written. *)
(***************************************************************************)
EXTENDS Integers, Sequences, FiniteSets, SequencesExt, Bitwise

CONSTANT IntMax

\* the order of the types decides which operand is converted
TypeOrder == <<"undef", "bool", "int", "dbl", "date", "infinite", "number", "string", "nan", "null">>
Rank(v) == CHOOSE i \in 1..Len(TypeOrder) : TypeOrder[i] = v.type
NumberRank == 7

V(type, val) == [type |-> type, val |-> val]
IntV(n) == V("int", <<n, 1>>)
DblV(r) == V("dbl", r)
BoolV(b) == V("bool", <<IF b THEN 1 ELSE 0, 1>>)
Infinite(negative) == V("infinite", <<IF negative THEN -1 ELSE 1, 1>>)
NaN == V("nan", <<0, 1>>)
Undef == V("undef", <<0, 1>>)
Garbage == V("garbage", <<0, 1>>)

Wrap(n) == ((n + IntMax) % (2 * IntMax)) - IntMax

\* fractions with a positive denominator
Frac(p, q) == IF q < 0 THEN <<-p, -q>> ELSE <<p, q>>
Less(r, s) == r[1] * s[2] < s[1] * r[2]
Equal(r, s) == r[1] * s[2] = s[1] * r[2]
Abs(n) == IF n < 0 THEN -n ELSE n
\* C's division and remainder truncate
Quot(a, b) == IF (a < 0) = (b < 0) THEN Abs(a) \div Abs(b) ELSE -(Abs(a) \div Abs(b))
Rem(a, b) == a - b * Quot(a, b)
Trunc(r) == Quot(r[1], r[2])
Floor(r) == r[1] \div r[2]

-----------------------------------------------------------------------------
(* Texts.  Characters are numbered: digits by their value, then these.     *)

Point == 10
UpperE == 11
LowerE == 12
Minus == 13
Plus == 14
Space == 15
Digits == 0..9

Span(s, S) ==
  CHOOSE n \in 0..Len(s) : (\A i \in 1..n : s[i] \in S) /\ (n < Len(s) => s[n + 1] \notin S)
Drop(s, n) == SubSeq(s, n + 1, Len(s))

Decimal(digits) == FoldLeft(LAMBDA n, d : 10 * n + d, 0, digits)

\* a character after the point other than an E makes an integer of all digits;
\* an exponent loses its first digit, and its sign is refused
Strtod(s) ==
  LET body == Drop(s, Span(s, {Space}))
      signed == body # <<>> /\ Head(body) \in {Minus, Plus}
      negative == signed /\ Head(body) = Minus
      rest == IF signed THEN Tail(body) ELSE body
      whole == Span(rest, Digits)
      pointed == whole < Len(rest) /\ rest[whole + 1] = Point
      places == IF pointed THEN Span(Drop(rest, whole + 1), Digits) ELSE 0
      tail == Drop(rest, whole + (IF pointed THEN 1 + places ELSE 0))
      fraction == Decimal(SubSeq(rest, 1, whole) \o SubSeq(rest, whole + 2, whole + 1 + places))
      sign == IF negative THEN -1 ELSE 1
      exponent == pointed /\ tail # <<>> /\ Head(tail) = UpperE
      power == IF exponent /\ Len(tail) > 1 THEN Drop(tail, 2) ELSE <<>>
      exp == Decimal(SubSeq(power, 1, Span(power, Digits))) - places
      after == IF exponent THEN Drop(power, Span(power, Digits)) ELSE tail
      value == IF exp < 0 THEN <<sign * fraction, 10^(-exp)>> ELSE <<sign * fraction * 10^exp, 1>>
  IN CASE \/ \E i \in 1..Len(after) : after[i] # Space
          \/ exponent /\ Len(tail) > 1 /\ tail[2] \notin Digits -> NaN
       [] OTHER ->
          IF ~pointed \/ (tail # <<>> /\ ~exponent) THEN IntV(sign * fraction)
          ELSE IF Abs(exp) > 511 THEN Infinite(negative)
          ELSE IF value[1] % value[2] = 0 THEN IntV(Trunc(value)) ELSE DblV(value)

-----------------------------------------------------------------------------
(* Conversions of values that are not objects.                             *)

Conv2Bool(v) ==
  CASE v.type \in {"dbl", "int"} -> BoolV(v.val[1] # 0)
    [] v.type = "string" -> BoolV(v.val # <<>>)
    [] v.type = "bool" -> v
    [] OTHER -> BoolV(v.type = "infinite")

Conv2Dbl(v) ==
  CASE v.type = "undef" -> NaN
    [] v.type \in {"dbl", "int", "bool"} -> DblV(v.val)
    [] v.type = "string" -> Strtod(v.val)
    [] OTHER -> DblV(<<0, 1>>)

Conv2Int(v) ==
  CASE v.type \in {"int", "bool"} -> IntV(v.val[1])
    [] v.type = "dbl" -> IntV(Trunc(v.val))
    [] v.type = "null" -> IntV(0)
    [] v.type = "string" -> Strtod(v.val)
    [] OTHER -> NaN

Conv(v, type) ==
  CASE type = "bool" -> Conv2Bool(v) [] type = "dbl" -> Conv2Dbl(v) [] type = "int" -> Conv2Int(v)
    [] OTHER -> v

-----------------------------------------------------------------------------
(* Arithmetic on a pair of operands.                                       *)

IntegerTypes == {"int", "bool", "date"}
IsInf(v) == v.type = "infinite"
Neg(v) == v.val[1] < 0
IsZero(v) == v.type \in {"int", "dbl"} /\ v.val[1] = 0

\* the member of the payload that left.type names, in both operands
Whole2(l, r, type, n) == IF r.type \in IntegerTypes THEN V(type, <<Wrap(n), 1>>) ELSE Garbage
Double2(r, val) == IF r.type = "dbl" THEN DblV(val) ELSE Garbage

OpAdd(l, r) ==
  IF IsInf(r) THEN IF IsInf(l) /\ Neg(l) # Neg(r) THEN NaN ELSE r
  ELSE CASE l.type \in {"date", "int"} -> Whole2(l, r, l.type, l.val[1] + r.val[1])
         [] l.type = "dbl" -> Double2(r, <<l.val[1] * r.val[2] + r.val[1] * l.val[2], l.val[2] * r.val[2]>>)
         [] IsInf(l) -> l
         [] OTHER -> NaN

\* of two infinities of different signs the right one is the answer
OpSub(l, r) ==
  IF IsInf(r) THEN IF IsInf(l) THEN IF Neg(l) = Neg(r) THEN NaN ELSE r ELSE Infinite(~Neg(r))
  ELSE CASE l.type = "date" ->
              Whole2(l, r, IF r.type = "date" THEN "int" ELSE "date", l.val[1] - r.val[1])
         [] l.type = "int" -> Whole2(l, r, "int", l.val[1] - r.val[1])
         [] l.type = "dbl" -> Double2(r, <<l.val[1] * r.val[2] - r.val[1] * l.val[2], l.val[2] * r.val[2]>>)
         [] IsInf(l) -> l
         [] OTHER -> NaN

\* an infinity on the left comes out positive
OpMpy(l, r) ==
  IF IsInf(r)
    THEN IF IsZero(l) THEN NaN ELSE Infinite(Neg(r) # (l.type \in {"int", "dbl", "infinite"} /\ Neg(l)))
  ELSE CASE l.type = "int" -> Whole2(l, r, "int", l.val[1] * r.val[1])
         [] l.type = "dbl" -> Double2(r, <<l.val[1] * r.val[1], l.val[2] * r.val[2]>>)
         [] IsInf(l) -> IF IsZero(r) THEN NaN ELSE Infinite(FALSE)
         [] OTHER -> NaN

OpDiv(l, r) ==
  IF IsInf(r) THEN IF IsInf(l) THEN NaN ELSE IntV(0)
  ELSE CASE l.type = "int" /\ r.type \in IntegerTypes ->
              IF r.val[1] # 0 THEN IntV(Wrap(Quot(l.val[1], r.val[1])))
              ELSE IF l.val[1] # 0 THEN Infinite(Neg(l)) ELSE NaN
         [] l.type = "dbl" /\ r.type = "dbl" ->
              IF r.val[1] # 0 THEN DblV(Frac(l.val[1] * r.val[2], l.val[2] * r.val[1]))
              ELSE IF l.val[1] # 0 THEN Infinite(Neg(l)) ELSE NaN
         [] IsInf(l) -> Infinite(Neg(l) # (r.type \in {"int", "dbl"} /\ Neg(r)))
         [] l.type \in {"int", "dbl"} /\ r.type # l.type -> Garbage
         [] OTHER -> NaN

\* Mutant: the remainder is never negative
OpModPositive(l, r) ==
  IF l.type = "int" /\ r.type = "int" /\ r.val[1] # 0 THEN IntV(l.val[1] % Abs(r.val[1])) ELSE NaN

\* of doubles: the remainder of the whole parts (none by a part below one: the
\* division traps) and the fraction above the floor
OpMod(l, r) ==
  CASE l.type = "int" /\ r.type \in IntegerTypes ->
         IF r.val[1] # 0 THEN IntV(Rem(l.val[1], r.val[1])) ELSE NaN
    [] l.type = "dbl" /\ r.type = "dbl" ->
         IF r.val[1] = 0 THEN NaN
         ELSE IF Trunc(r.val) = 0 THEN Garbage
         ELSE LET whole == Rem(Trunc(l.val), Trunc(r.val))
                  part == l.val[1] - Floor(l.val) * l.val[2]
              IN IF part = 0 THEN IntV(whole) ELSE DblV(<<whole * l.val[2] + part, l.val[2]>>)
    [] l.type = "int" /\ IsInf(r) -> IF Neg(r) THEN IntV(0) ELSE NaN    \* the sign is the divisor
    [] l.type = "dbl" /\ IsInf(r) -> IF Neg(r) THEN Garbage ELSE NaN
    [] l.type = "int" /\ r.type = "dbl" -> Garbage
    [] l.type = "dbl" /\ r.type \in IntegerTypes -> Garbage
    [] OTHER -> NaN

\* bit by bit on the two's complement; what the payload holds is an integer
Unsigned(n) == n % (2 * IntMax)
OpBits(op, l, r) ==
  LET a == Unsigned(l.val[1])
      b == Unsigned(r.val[1])
  IN CASE l.type \notin IntegerTypes \/ r.type \notin IntegerTypes -> Garbage
       [] op = "bitxor" -> IntV(Wrap(a ^^ b))
       [] op = "bitand" -> IntV(Wrap(a & b))
       [] op = "bitor" -> IntV(Wrap(a | b))
       [] op \in {"lshift", "rshift", "rushift"} /\ (r.val[1] < 0 \/ 2^r.val[1] >= 2 * IntMax) -> Garbage
       [] op = "lshift" -> IntV(Wrap(a * 2^r.val[1]))
       [] op = "rshift" -> IntV(l.val[1] \div 2^r.val[1])
       [] op = "rushift" -> IntV(Wrap(a \div 2^r.val[1]))

-----------------------------------------------------------------------------
(* Comparisons.                                                            *)

\* memcmp over the shorter length, then the lengths
StrLess(s, t) ==
  \/ \E i \in 1..Len(s) : i <= Len(t) /\ s[i] < t[i] /\ \A j \in 1..i - 1 : s[j] = t[j]
  \/ Len(s) < Len(t) /\ SubSeq(t, 1, Len(s)) = s

LessThan(l, r) == IF l.type = "string" THEN StrLess(l.val, r.val) ELSE Less(l.val, r.val)
SameAs(l, r) == IF l.type = "string" THEN l.val = r.val ELSE Equal(l.val, r.val)
Compares(l) == l.type \in {"int", "dbl", "string"}

OpLt(l, r) ==
  CASE IsInf(l) -> Neg(l) /\ ~(IsInf(r) /\ Neg(r))
    [] l.type = "null" -> r.type # "null"
    [] Compares(l) -> IF IsInf(r) /\ l.type # "string" THEN ~Neg(r) ELSE LessThan(l, r)
    [] OTHER -> FALSE

OpLe(l, r) ==
  CASE IsInf(l) -> Neg(l) \/ (IsInf(r) /\ ~Neg(r))
    [] l.type = "null" -> TRUE
    [] Compares(l) -> IF IsInf(r) /\ l.type # "string" THEN ~Neg(r) ELSE ~LessThan(r, l)
    [] OTHER -> FALSE

\* a double is compared with the bits that hold an infinity's sign: positive is 0
OpEq(l, r) ==
  CASE IsInf(l) -> IsInf(r) /\ Neg(l) = Neg(r)
    [] l.type = "null" -> r.type = "null"
    [] Compares(l) -> IF IsInf(r) THEN IsZero(l) /\ l.type = "dbl" /\ ~Neg(r) ELSE SameAs(l, r)
    [] OTHER -> FALSE

OpNe(l, r) ==
  CASE IsInf(l) -> ~(IsInf(r) /\ Neg(l) = Neg(r))
    [] l.type = "null" -> r.type # "null"
    [] Compares(l) -> IsInf(r) \/ ~SameAs(l, r)
    [] OTHER -> FALSE

\* an infinity on the left is at least everything, the negative one too
OpGe(l, r) ==
  CASE IsInf(l) -> Neg(l) => ~(IsInf(r) /\ Neg(r))
    [] l.type = "null" -> r.type = "null"
    [] Compares(l) -> IF IsInf(r) THEN Neg(r) ELSE ~LessThan(l, r)
    [] OTHER -> FALSE

\* and above everything but the positive one; a double is above it as well
OpGt(l, r) ==
  CASE IsInf(l) -> ~(IsInf(r) /\ ~Neg(r))
    [] l.type = "null" -> FALSE
    [] Compares(l) -> IF IsInf(r) THEN (IF l.type = "dbl" THEN ~Neg(r) ELSE Neg(r)) ELSE LessThan(r, l)
    [] OTHER -> FALSE

\* left's type says how right's payload is read
Readable(l, r) ==
  CASE l.type = "int" -> r.type \in IntegerTypes \cup {"infinite"}
    [] l.type = "dbl" -> r.type \in {"dbl", "infinite"}
    [] l.type = "string" -> r.type = "string"
    [] OTHER -> TRUE

\* === and !== have no entry in the table of comparisons
OpCompare(op, l, r) ==
  CASE op \in {"id", "nid"} \/ ~Readable(l, r) -> Garbage
    [] op = "lt" -> BoolV(OpLt(l, r)) [] op = "le" -> BoolV(OpLe(l, r))
    [] op = "eq" -> BoolV(OpEq(l, r)) [] op = "ne" -> BoolV(OpNe(l, r))
    [] op = "ge" -> BoolV(OpGe(l, r)) [] op = "gt" -> BoolV(OpGt(l, r))

-----------------------------------------------------------------------------
(* The operators, with the conversions of their operands.                  *)

MathOps == {"add", "sub", "mpy", "div", "mod"}
BitOps == {"bitor", "bitand", "bitxor", "lshift", "rshift", "rushift"}
CompareOps == {"lt", "le", "eq", "ne", "ge", "gt", "id", "nid"}

Operate(op, l, r) ==
  CASE op = "add" -> OpAdd(l, r) [] op = "sub" -> OpSub(l, r) [] op = "mpy" -> OpMpy(l, r)
    [] op = "div" -> OpDiv(l, r) [] op = "mod" -> OpMod(l, r) [] OTHER -> OpBits(op, l, r)

\* the lower type, and a string, is converted to the other's
Raise(l, r) ==
  LET right == IF r.type = "string" \/ Rank(r) < Rank(l) THEN Conv(r, l.type) ELSE r
  IN <<IF l.type = "string" \/ Rank(l) < Rank(right) THEN Conv(l, right.type) ELSE l, right>>

RaiseCompared(l, r) ==
  LET left == IF l.type = "string" THEN Conv(l, r.type) ELSE l
      right == IF r.type = "string" THEN Conv(r, left.type) ELSE r
  IN IF Rank(right) < Rank(left) THEN <<left, Conv(right, left.type)>>
     ELSE IF Rank(left) < Rank(right) THEN <<Conv(left, right.type), right>> ELSE <<left, right>>

\* a value's text, for + on strings; numbers are written by their toString
ToText(v) == IF v.type = "string" THEN v.val ELSE <<v>>

EvalMath(op, l, r) ==
  CASE op = "add" /\ "string" \in {l.type, r.type} -> V("string", ToText(l) \o ToText(r))
    [] op \in MathOps /\ ~(op = "add" /\ "string" \in {l.type, r.type}) ->
         LET pair == Raise(l, r)
         IN IF Rank(pair[1]) > NumberRank \/ Rank(pair[2]) > NumberRank THEN NaN
            ELSE Operate(op, pair[1], pair[2])
    [] op \in BitOps ->    \* one of two operands that are not integers stays as it is
         IF r.type # "int" THEN Operate(op, l, Conv2Int(r))
         ELSE IF l.type # "int" THEN Operate(op, Conv2Int(l), r) ELSE Operate(op, l, r)
    [] op \in CompareOps ->
         IF l.type = "string" /\ r.type = "string" THEN OpCompare(op, l, r)
         ELSE LET pair == RaiseCompared(l, r)
              IN IF "nan" \in {pair[1].type, pair[2].type} THEN BoolV(FALSE)
                 ELSE OpCompare(op, pair[1], pair[2])

EvalNeg(op, v) ==
  CASE op = "bitnot" -> IF Conv2Int(v).type = "int" THEN IntV(-Conv2Int(v).val[1] - 1) ELSE Garbage
    [] op = "not" -> BoolV(Conv2Bool(v).val[1] = 0)
    [] op = "uminus" ->
         CASE v.type \in {"dbl", "int", "infinite"} -> V(v.type, <<-v.val[1], v.val[2]>>)
           [] v.type = "bool" -> BoolV(v.val[1] = 0)
           [] v.type \in {"undef", "nan"} -> NaN
           [] OTHER -> Undef    \* an error is raised

EvalLor(l, r) == BoolV(Conv2Bool(l).val[1] # 0 \/ Conv2Bool(r).val[1] # 0)
EvalLand(l, r) == BoolV(Conv2Bool(l).val[1] # 0 /\ Conv2Bool(r).val[1] # 0)

\* the value of ++ or -- and what the variable holds after it
EvalIncr(op, v) ==
  LET step == IF op \in {"incr_before", "incr_after"} THEN 1 ELSE -1
      after == V(v.type, IF v.type = "int" THEN <<Wrap(v.val[1] + step), 1>>
                         ELSE <<v.val[1] + step * v.val[2], v.val[2]>>)
  IN IF v.type \notin {"int", "dbl"} THEN <<NaN, v>>
     ELSE <<IF op \in {"incr_before", "decr_before"} THEN after ELSE v, after>>

\* an element of a typed array: incrArray looks for the operation in the type of
\* the value, finds none, and changes nothing
IncrArray(op, element) == <<NaN, element>>

\* op=: what the variable holds after it
EvalOpAssign(op, v, r) ==
  CASE op = "assign" -> r
    [] op = "add" /\ "string" \in {v.type, r.type} -> V("string", ToText(v) \o ToText(r))
    [] OTHER ->
         IF Rank(v) > NumberRank \/ Rank(r) > NumberRank THEN v
         ELSE LET pair == IF op \in BitOps THEN Raise(Conv(v, "int"), Conv(r, "int")) ELSE Raise(v, r)
              IN Operate(op, pair[1], pair[2])

-----------------------------------------------------------------------------
(* The functions of Math.  Those of the C library are not evaluated.       *)

InverseOps == {"acos", "acosh", "asin", "asinh", "atan", "atanh", "atan2"}
CircularOps == {"cos", "cosh", "sin", "sinh", "tan", "tanh", "sqrt"}
LogOps == {"cbrt", "exp", "expm1", "log", "log1p", "log10", "log2", "pow"}
Libm(op, x, y) == V("libm", <<op, x, y>>)
DomainError == V("status", <<1, 1>>)

\* arguments the library refuses with EDOM
OutOfDomain(op, x, y) ==
  CASE op \in {"acos", "asin", "sign", "atanh"} -> Less(<<1, 1>>, <<Abs(x[1]), x[2]>>)
    [] op = "acosh" -> Less(x, <<1, 1>>)
    [] op \in {"log", "log1p", "log10", "log2", "sqrt"} -> x[1] < 0
    [] op = "pow" -> x[1] < 0 /\ y[1] % y[2] # 0
    [] OTHER -> FALSE

Round(r) == IF r[1] < 0 THEN -((2 * Abs(r[1]) + r[2]) \div (2 * r[2])) ELSE (2 * r[1] + r[2]) \div (2 * r[2])

\* sign answers the arc cosine and clz32 nothing that was written; expm1 and
\* log1p are exp(x) - 1 and log(x) - 1; atan2 does not look at its second argument
JsMathop(op, args) ==
  LET xarg == IF Len(args) > 0 THEN args[1] ELSE NaN
      yarg == IF Len(args) > 1 THEN args[2] ELSE NaN
      x == Conv2Dbl(xarg)
      y == Conv2Dbl(yarg)
  IN CASE op = "imul" -> IF Conv2Int(xarg).type = "nan" \/ Conv2Int(yarg).type = "nan" THEN NaN
                         ELSE IntV(Wrap(Conv2Int(xarg).val[1] * Conv2Int(yarg).val[1]))
       [] op = "fround" /\ xarg.type = "int" -> xarg
       [] op = "random" -> Libm(op, <<0, 1>>, <<0, 1>>)
       [] OTHER ->
          IF (x.type = "nan" /\ op # "acos") \/ (op = "pow" /\ y.type = "nan") THEN NaN
          ELSE IF OutOfDomain(op, x.val, y.val) THEN DomainError
          ELSE IF op = "floor" THEN IntV(Floor(x.val))
          ELSE IF op = "ceil" THEN DblV(<<-Floor(<<-x.val[1], x.val[2]>>), 1>>)
          ELSE IF op \in {"round", "fround"} THEN DblV(<<Round(x.val), 1>>)
          ELSE IF op = "trunc" THEN DblV(<<Trunc(x.val), 1>>)
          ELSE IF op \in InverseOps \cup CircularOps \cup LogOps THEN Libm(op, x.val, y.val)
          ELSE IF op = "sign" THEN Libm("acos", x.val, y.val)
          ELSE Garbage
=============================================================================
