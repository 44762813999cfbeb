--------------------------- MODULE MCPrimitives ---------------------------
(* Inputs and properties of dates, numbers and strings. *)
EXTENDS Inputs, Dates, Numbers, Strings

(* Inputs and properties of the Date object's algorithms. *)

LOCAL Years == <<1970, 1972, 1999, 2000, 2032>>
LOCAL Clocks == <<<<0, 0, 0>>, <<12, 30, 0>>, <<23, 59, 58>>>>

LOCAL Num(n) == [num |-> n, word |-> "", mark |-> ""]
LOCAL Word(w) == [num |-> None, word |-> w, mark |-> ""]
LOCAL Mark(c) == [num |-> None, word |-> "", mark |-> c]

\* year, month, day, time, how the day is written, how the time is, offset
DateChoices ==
  <<1..5, {1, 2, 12}, {1, 29, 31}, 1..3, 1..8, 1..3, 1..4>>

\* offsets in words, in seconds and in months
LOCAL OffsetWords == <<<<>>, <<Mark("-"), Num(3), Word("days")>>,
                       <<Mark("+"), Num(2), Mark("comment"), Word("hour")>>, <<Num(13), Word("months")>>>>
LOCAL OffsetSecs == <<0, -3 * DAY, 2 * HOUR, 0>>
LOCAL OffsetMonths == <<0, 0, 0, 13>>

LOCAL DateText(s) ==
  LET y == Num(Years[s[1]])
      m == Num(s[2])
      d == Num(s[3])
      name == Word(Months[s[2]])
      short == Word(SubSeq(Months[s[2]], 1, 3))
      h == Clocks[s[4]][1]
      rest == <<Mark(":"), Num(Clocks[s[4]][2]), Mark(":"), Num(Clocks[s[4]][3])>>
      day == <<<<y, Mark("-"), m, Mark("-"), d>>, <<y, Mark("/"), m, Mark("/"), d>>,
               <<m, Mark("/"), d, Mark("/"), y>>, <<d, Mark("-"), short, Mark("-"), y>>,
               <<y, Mark("-"), name, Mark("-"), d>>, <<short, d, Mark(","), y>>, <<d, name, y>>,
               <<Word("friday"), Mark(","), d, short, y>>>>[s[5]]
      noon == <<Num(IF h % 12 = 0 THEN 12 ELSE h % 12)>> \o rest \o <<Word(IF h < 12 THEN "am" ELSE "pm")>>
      east == <<Num(h)>> \o rest \o <<Mark("-"), Num(330), Mark("comment")>>
      time == <<<<Num(h)>> \o rest, noon, east>>[s[6]]
  IN OffsetWords[s[7]] \o day \o time

\* A day of the calendar and a time of it, in any of the orders the reader knows,
\* in the host's zone or in one given in numbers, with an offset before it, is the
\* second whose calendar fields these are; a day the month does not have is
\* refused.  (An offset in months is asked of days every month has.)
DatesRead ==
  Built("dates", 7) =>
    LET y == Years[input[1]]
        m == input[2] + OffsetMonths[input[7]]
        d == input[3]
        zone == IF input[6] = 3 THEN 3 * HOUR + 30 * MINUTE ELSE LocalZone
        Fields(secs) ==
          LET tm == GmTime(secs - OffsetSecs[input[7]] - zone)
          IN <<tm.year, tm.mon + 1, tm.mday, tm.hour, tm.min, tm.sec>>
        meant == <<y + (m - 1) \div 12, ((m - 1) % 12) + 1, d>> \o Clocks[input[4]]
    IN \A answer \in GetDates(DateText(input)) :
         IF d > MonthDays(y, input[2]) THEN answer = -1
         ELSE (OffsetMonths[input[7]] > 0 => zone = LocalZone /\ d < 29) => Fields(answer) = meant

-----------------------------------------------------------------------------
\* year, month from 0, day, hour, minute, second and milliseconds
DateFieldChoices == <<{70, 99, 1960, 1969, 2004}, {0, 1, 11}, {1, 28}, {0, 23}, {0, 59}, {0, 59}, {0, 1, 999, 1500}>>

\* A date made of its fields gives them back, one by one and in its text, in the
\* host's zone; milliseconds above 999 are 999.  Before 1970 the division of the
\* milliseconds truncates: there only whole seconds do.
DateFieldsKept ==
  Built("fields", 7) =>
    LET date == NewDate(input)
        year == IF input[1] > 100 THEN input[1] ELSE input[1] + 1900
        millis == IF input[7] > 999 THEN 999 ELSE input[7]
        fields == <<year, input[2], input[3], input[4], input[5], input[6], millis>>
    IN date.secs >= 0 \/ millis = 0 =>
         /\ <<GetFullYear(date), GetMonth(date), GetDate(date), GetHours(date), GetMinutes(date),
              GetSeconds(date), GetMilliseconds(date)>> = fields
         /\ DateToString(date) = [fields EXCEPT ![2] = @ + 1]
         /\ GetUTCHours(date) * 60 + GetUTCMinutes(date)
              = (GetHours(date) * 60 + GetMinutes(date) + GetTimezoneOffset) % (24 * 60)

\* A date read from a text or made of its fields is the second they name.
DatesAgree == [][DatesRead /\ DateFieldsKept]_vars

---------------------------------------------------------------------------
(* Inputs and properties of numbers: operators and the texts read as one. *)

LOCAL Operands ==
  <<IntV(-IntMax), IntV(-7), IntV(-2), IntV(0), IntV(2), IntV(3), IntV(IntMax - 1),
    DblV(<<-5, 2>>), DblV(<<0, 1>>), DblV(<<1, 2>>), DblV(<<3, 1>>), Infinite(FALSE), Infinite(TRUE),
    Undef, V("string", <<3>>), V("string", <<Minus, 2>>)>>

LOCAL Operators == <<"add", "sub", "mpy", "div", "mod", "lt", "le", "eq", "ne", "ge", "gt", "bitand", "lshift">>

NumberChoices == <<1..Len(Operators), 1..Len(Operands), 1..Len(Operands)>>

LOCAL Finite(v) == v.type \in {"int", "dbl", "string"}
\* the fraction an operand stands for
LOCAL Means(v) == IF v.type = "string" THEN Strtod(v.val).val ELSE v.val
LOCAL IsTrue(v) == v = BoolV(TRUE)

\* the order of the numbers with the infinities at its ends
LOCAL Below(l, r) ==
  IF IsInf(l) THEN Neg(l) /\ ~(IsInf(r) /\ Neg(r))
  ELSE IF IsInf(r) THEN ~Neg(r) ELSE Less(Means(l), Means(r))

\* The operators mean what arithmetic means by them: sums, differences and products
\* of integers wrap at the width and are exact with a double among the operands, a
\* quotient and a remainder of integers make up the dividend with the remainder
\* on its side, six comparisons agree with one order, op= with op, -- with -= 1,
\* and undefined poisons them all.  Strings stand for integers here, with an
\* integer beside them; > and >= are asked of finite operands, and = and !=.
OperatorsAgree ==
  Built("numbers", 3) =>
    LET op == Operators[input[1]]
        l == Operands[input[2]]
        r == Operands[input[3]]
        res == EvalMath(op, l, r)
        ints == \A v \in {l, r} : v.type \in {"int", "string"}
        typed == \A v \in {l, r} : v.type # "string" \/ (ints /\ l.type # r.type)
        finite == Finite(l) /\ Finite(r) /\ typed
        x == Means(l)
        y == Means(r)
        Is(val) == IF ints THEN res = IntV(Wrap(val[1])) ELSE res.type = "dbl" /\ Equal(res.val, val)
    IN /\ finite =>
            /\ op = "add" /\ "string" \notin {l.type, r.type} => Is(<<x[1] * y[2] + y[1] * x[2], x[2] * y[2]>>)
            /\ op = "sub" => Is(<<x[1] * y[2] - y[1] * x[2], x[2] * y[2]>>)
            /\ op = "mpy" => Is(<<x[1] * y[1], x[2] * y[2]>>)
            /\ op = "div" /\ ~ints /\ y[1] # 0 => Equal(<<res.val[1] * y[1], res.val[2] * y[2]>>, x)
            /\ op = "div" /\ ints /\ y[1] # 0 =>
                 LET rem == EvalMath("mod", l, r).val[1]
                 IN /\ Wrap(res.val[1] * y[1] + rem) = x[1]
                    /\ Abs(rem) < Abs(y[1]) /\ rem * x[1] >= 0
            /\ op \in {"div", "mod"} /\ y[1] = 0 => res.type \in {"infinite", "nan"}
            /\ op = "eq" => IsTrue(res) = Equal(x, y)
            /\ op = "ne" => IsTrue(res) = ~Equal(x, y)
            /\ op = "gt" => IsTrue(res) = Below(r, l)
            /\ op = "ge" => IsTrue(res) = ~Below(l, r)
            /\ op \in MathOps /\ ints /\ "string" \notin {l.type, r.type} => EvalOpAssign(op, l, r) = res
            /\ op = "sub" /\ r = IntV(2) /\ l.type # "string" =>
                 Equal(res.val, EvalIncr("decr_after", EvalIncr("decr_before", l)[1])[2].val)
       /\ typed /\ {l, r} \cap {Undef} = {} =>
            /\ op = "lt" => IsTrue(res) = Below(l, r)
            /\ op = "le" => IsTrue(res) = ~Below(r, l)
       /\ Undef \in {l, r} /\ "string" \notin {l.type, r.type} =>
            /\ op \in MathOps /\ ~IsInf(l) /\ ~IsInf(r) => res = NaN
            /\ op \in CompareOps /\ l.type # r.type /\ ~IsInf(l) /\ ~IsInf(r) => ~IsTrue(res)

-----------------------------------------------------------------------------
\* blanks, sign, two digits, point, two digits, blanks; -1 stands for nothing
TextChoices == <<{0, 1}, {0, Minus, Plus}, {-1, 0, 7}, {-1, 5}, {-1, Point}, {-1, 0, 2}, {-1, 5}, {0, 1}>>

LOCAL Written(s) == SelectSeq(s, LAMBDA c : c # -1)

\* A text with a sign, digits before a point and after it, and blanks around it is
\* the fraction its digits stand for, an integer when that is one.  (After a point
\* no blank may follow: the code then drops the point, and takes 7.5 for 75.)
TextsRead ==
  Built("texts", 8) /\ (input[5] = Point => input[8] = 0) /\ (input[5] # Point => input[6] = -1 /\ input[7] = -1) =>
    LET whole == Written(SubSeq(input, 3, 4))
        places == Written(SubSeq(input, 6, 7))
        blanks(n) == [i \in 1..n |-> Space]
        text == blanks(input[1]) \o (IF input[2] = 0 THEN <<>> ELSE <<input[2]>>) \o whole
                \o (IF input[5] = Point THEN <<Point>> ELSE <<>>) \o places \o blanks(input[8])
        Weight(digits, i) == digits[i] * 10^(Len(digits) - i)
        sum(digits) == (IF Len(digits) > 0 THEN Weight(digits, 1) ELSE 0)
                       + (IF Len(digits) > 1 THEN Weight(digits, 2) ELSE 0)
        unit == 10^Len(places)
        meant == <<(IF input[2] = Minus THEN -1 ELSE 1) * (sum(whole) * unit + sum(places)), unit>>
        read == Strtod(text)
    IN /\ Equal(read.val, meant)
       /\ read.type = IF meant[1] % unit = 0 THEN "int" ELSE "dbl"

\* Numbers are what their texts say, and operators on them what arithmetic says.
NumbersAgree == [][OperatorsAgree /\ TextsRead]_vars

---------------------------------------------------------------------------
(* Inputs and properties of the methods of strings. *)

LOCAL Chars == {21, 22, Space}
LOCAL TextsUpTo(n) == UNION {[1..k -> Chars] : k \in 0..n}
\* a string, a string to look for and two offsets
StringChoices == <<TextsUpTo(4), TextsUpTo(2), -1..4, 0..4>>

\* The methods agree with one another: the fields of split, joined, are the string;
\* substring takes its offsets in either order, and substr, slice, charAt, startsWith
\* and endsWith see the stretches it sees; indexOf answers the first match before
\* the last place, and includes whether there is one; replaceAll leaves no match,
\* undoes itself, and replaces nothing else; trim strips all blanks from both ends.
StringsAgree ==
  [][(Built("strings", 4) =>
        LET s == input[1]
            t == input[2]
            i == input[3]
            j == input[4]
            Sub(m, n) == FcnStrSubstring(s, <<IntV(m), IntV(n)>>)
            split == FcnStrSplit(s, <<Text(t)>>).val
            joined == FlattenSeq([k \in 1..Len(split) |-> split[k].val \o (IF k < Len(split) THEN t ELSE <<>>)])
            found == Count(FcnStrIndexOf(s, <<Text(t), IntV(i)>>))
            marked == FcnStrReplaceAll(s, <<Text(t), Text(<<9>>)>>).val
            trimmed == FcnStrTrim(s).val
            Has(u, v) == \E k \in 0..Len(u) - Len(v) : SubSeq(u, k + 1, k + Len(v)) = v
        IN /\ Sub(i, j) = Sub(j, i)
           /\ Sub(0, j).val \o Sub(j, Len(s)).val = s
           /\ i >= 0 /\ i < j => FcnStrSlice(s, <<IntV(i), IntV(j)>>) = Sub(i, j)
           /\ i >= 0 => FcnStrSubstr(s, <<IntV(i), IntV(j)>>) = Sub(i, i + j)
           /\ j > 0 /\ j <= Len(s) => FcnStrSlice(s, <<IntV(-j)>>) = FcnStrSubstr(s, <<IntV(-j)>>)
           /\ i >= 0 => FcnStrCharAt(s, <<IntV(i)>>) = Sub(i, i + 1)
           /\ i >= 0 => FcnStrStartsWith(s, <<Text(t), IntV(i)>>)
                        = BoolV(i + Len(t) <= Len(s) /\ Sub(i, i + Len(t)).val = t)
           /\ j <= Len(s) => FcnStrEndsWith(s, <<Text(t), IntV(j)>>)
                             = FcnStrStartsWith(s, <<Text(t), IntV(j - Len(t))>>)
           /\ \A k \in {1, Len(trimmed)} : trimmed # <<>> => trimmed[k] # Space
           /\ \E k \in 0..Len(s) : SubSeq(s, k + 1, k + Len(trimmed)) = trimmed
                                   /\ \A m \in 1..Len(s) : m \in k + 1..k + Len(trimmed) \/ s[m] = Space
           /\ Len(t) <= Len(s) =>
                /\ joined = s
                /\ found = -1 => \A k \in i..Len(s) - Len(t) - 1 : k >= 0 => ~At(s, t, k)
                /\ found # -1 => At(s, t, found) /\ \A k \in i..found - 1 : k >= 0 => ~At(s, t, k)
                /\ i >= 0 => FcnStrIncludes(s, <<Text(t), IntV(i)>>) = BoolV(found # -1)
                /\ t # <<>> => /\ ~Has(marked, t)
                               /\ (9 \in ToSet(marked)) = Has(s, t)
                               /\ Len(marked) > 0 => FcnStrReplaceAll(marked, <<Text(<<9>>), Text(t)>>).val = s)]_vars
===========================================================================
