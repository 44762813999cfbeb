------------------------------ MODULE Strings ------------------------------
(***************************************************************************)
(* The methods of strings (src/js_string.c).  A method takes the text of   *)
(* this and the argument vector; offsets count from 0 as in the code.      *)
(* Hang is the answer of a call that never returns, Garbage of one that    *)
(* reads outside the string.                                               *)
(***************************************************************************)
EXTENDS Numbers

Hang == V("hang", <<0, 1>>)
Text(s) == V("string", s)
ArrayOf(values) == V("array", values)
EmptyText == Text(<<>>)
\* the text "undefined", as one character
UndefinedChar == 20
LowerCase == {21, 22}
ToUpper(c) == IF c \in LowerCase THEN c + 10 ELSE c
ToLower(c) == IF c - 10 \in LowerCase THEN c - 10 ELSE c

Given(args, i) == Len(args) >= i
\* an argument as an integer, and one that was not given
IntArg(args, i, default) == IF Given(args, i) THEN Conv2Int(args[i]) ELSE default
Count(v) == v.val[1]

\* memcmp at an offset; past the end it meets the terminator
At(s, t, off) == SubSeq(s, off + 1, off + Len(t)) = t
\* newString of a stretch
Stretch(s, off, len) == Text(SubSeq(s, off + 1, off + len))
Within(s, off, len) == off >= 0 /\ off + len <= Len(s)

PropStrLength(s) == IntV(Len(s))
FcnStrValueOf(s) == Text(s)

\* the character behind a delimiter is not looked at, nor is the last place
FcnStrSplit(s, args) ==
  LET delim == ToText(args[1])
      limit == IntArg(args, 2, IntV(2^20))
      max == Len(s) - Len(delim)
      Fields[off \in 0..Len(s) + 1, prev \in 0..Len(s), count \in 0..Len(s) + 1] ==
        IF count >= Count(limit) \/ off >= max
          THEN IF count < Count(limit) /\ prev < Len(s) THEN <<Stretch(s, prev, Len(s) - prev)>> ELSE <<>>
        ELSE IF At(s, delim, off)
          THEN LET next == off + Len(delim)
               IN <<Stretch(s, prev, off - prev)>> \o Fields[next + 1, next, count + 1]
        ELSE Fields[off + 1, prev, count]
  IN IF ~Given(args, 1) THEN ArrayOf(<<Text(s)>>)
     ELSE IF limit.type # "int" \/ Count(limit) <= 0 THEN ArrayOf(<<>>)
     ELSE IF max < 0 THEN Garbage ELSE ArrayOf(Fields[0, 0, 0])

FcnStrConcat(s, args) == Text(s \o FlattenSeq([i \in 1..Len(args) |-> ToText(args[i])]))

\* the count of repetitions is never reached
FcnStrRepeat(s, args) == IF Count(IntArg(args, 1, IntV(0))) > 0 THEN Hang ELSE EmptyText

\* looks forward from the last place, past the end
FcnStrLastIndexOf(s, args) ==
  LET test == ToText(args[1])
      from == IntArg(args, 2, Undef)
      start == IF from.type = "int" THEN Count(from) ELSE Len(s) - Len(test)
      first == IF start < 0 THEN 0 ELSE IF start > Len(s) THEN Len(s) ELSE start
      places == {off \in first..Len(s) : At(s, test, off)}
  IN IF ~Given(args, 1) THEN IntV(-1)
     ELSE IF places = {} THEN Garbage
     ELSE IntV(CHOOSE off \in places : \A p \in places : off <= p)

FcnStrReplaceAll(s, args) ==
  LET test == ToText(args[1])
      repl == IF Given(args, 2) THEN ToText(args[2]) ELSE <<UndefinedChar>>
      matches[off \in 0..Len(s) + 1] ==
        IF off > Len(s) - Len(test) THEN <<>>
        ELSE IF At(s, test, off) THEN <<off>> \o matches[off + Len(test)] ELSE matches[off + 1]
      \* the text from prev on, the matches from the i-th on replaced
      Replaced[prev \in 0..Len(s), i \in 1..Len(s) + 1] ==
        IF i > Len(matches[0]) THEN SubSeq(s, prev + 1, Len(s))
        ELSE SubSeq(s, prev + 1, matches[0][i]) \o repl \o Replaced[matches[0][i] + Len(test), i + 1]
  IN IF ~Given(args, 1) THEN Text(s)
     ELSE IF Len(test) = 0 THEN Hang
     ELSE IF Len(test) > Len(s) THEN Garbage
     ELSE IF matches[0] = <<>> THEN Text(s) ELSE Text(Replaced[0, 1])

Clamp(n, low, high) == IF n < low THEN low ELSE IF n > high THEN high ELSE n

\* Mutant: offsets given the wrong way round are not swapped
FcnStrSubstringOrdered(s, args) ==
  LET from == Clamp(Count(IntArg(args, 1, IntV(0))), 0, Len(s))
      to == Clamp(Count(IntArg(args, 2, IntV(Len(s)))), 0, Len(s))
  IN Stretch(s, from, to - from)

FcnStrSubstring(s, args) ==
  LET off == IntArg(args, 1, IntV(0))
      end == IntArg(args, 2, IntV(Len(s)))
      from == Clamp(Count(off), 0, Len(s))
      to == Clamp(Count(end), 0, Len(s))
  IN IF off.type # "int" THEN Undef
     ELSE IF to > from THEN Stretch(s, from, to - from) ELSE Stretch(s, to, from - to)

FcnStrTrim(s) ==
  LET len == Len(s) - Span(Reverse(s), {Space})
      start == Span(SubSeq(s, 1, len), {Space})
  IN Stretch(s, start, len - start)

FcnStrToUpperCase(s) == Text([i \in 1..Len(s) |-> ToUpper(s[i])])
FcnStrToLowerCase(s) == Text([i \in 1..Len(s) |-> ToLower(s[i])])

\* an offset that is still negative reads in front of the string
FcnStrSubstr(s, args) ==
  LET given == IntArg(args, 1, Undef)
      off == IF Count(given) < 0 THEN Count(given) + Len(s) ELSE Count(given)
      rest == Len(s) - off
      count == IntArg(args, 2, Undef)
      len == IF count.type # "int" \/ Count(count) > rest THEN rest ELSE Count(count)
  IN IF given.type # "int" THEN Text(s)
     ELSE IF len <= 0 THEN EmptyText
     ELSE IF off < 0 THEN Garbage ELSE Stretch(s, off, len)

\* an end of 0 is the end of the string; from a negative start its distance to the
\* end is taken, whatever end says
FcnStrSlice(s, args) ==
  LET slice == IntArg(args, 1, IntV(0))
      from == IF slice.type = "int" THEN Count(slice) ELSE 0
      given == Count(IntArg(args, 2, IntV(Len(s))))
      turned == IF given < 0 THEN given + Len(s) ELSE given
      end == IF turned > Len(s) \/ turned = 0 THEN Len(s) ELSE turned
      start == IF from < 0 THEN from + Len(s) ELSE from
      count == IF from < 0 THEN -from ELSE end - from
  IN IF count <= 0 THEN EmptyText
     ELSE IF ~Within(s, start, count) THEN Garbage ELSE Stretch(s, start, count)

\* before the last place only; what follows the match is cut to the length of what
\* came before it, and an empty answer is the string itself
FcnStrReplace(s, args) ==
  LET pattern == ToText(args[1])
      repl == IF Given(args, 2) THEN ToText(args[2]) ELSE <<>>
      places == {off \in 0..Len(s) - Len(pattern) - 1 : At(s, pattern, off)}
      off == CHOOSE p \in places : \A q \in places : p <= q
      after == off + Len(pattern)
      text == SubSeq(s, 1, off) \o repl \o SubSeq(s, after + 1, after + off)
  IN IF ~Given(args, 1) \/ places = {} THEN Text(s)
     ELSE IF ~Within(s, after, off) THEN Garbage
     ELSE IF text = <<>> THEN Text(s) ELSE Text(text)

FcnStrStartsWith(s, args) ==
  LET test == ToText(args[1])
      off == Count(IntArg(args, 2, IntV(0)))
  IN BoolV(Given(args, 1) /\ Within(s, off, Len(test)) /\ At(s, test, off))

\* the places looked at stop one short of the last
Places(s, test, from) == {off \in from..Len(s) - Len(test) - 1 : At(s, test, off)}
FcnStrIndexOf(s, args) ==
  LET test == ToText(args[1])
      given == IntArg(args, 2, IntV(0))
      from == IF Count(given) < 0 THEN 0 ELSE Count(given)
      places == Places(s, test, from)
  IN IF ~Given(args, 1) \/ given.type # "int" THEN IntV(-1)
     ELSE IF Len(test) > Len(s) THEN Garbage
     ELSE IF places = {} THEN IntV(-1) ELSE IntV(CHOOSE off \in places : \A p \in places : off <= p)

\* a negative start is not corrected
FcnStrIncludes(s, args) ==
  LET test == ToText(args[1])
      given == IntArg(args, 2, IntV(0))
      from == IF given.type = "int" THEN Count(given) ELSE 0
  IN IF ~Given(args, 1) THEN BoolV(FALSE)
     ELSE IF Len(test) > Len(s) \/ from < 0 THEN Garbage
     ELSE BoolV(Places(s, test, from) # {})

FcnStrEndsWith(s, args) ==
  LET test == ToText(args[1])
      off == Count(IntArg(args, 2, IntV(Len(s)))) - Len(test)
  IN IF ~Given(args, 1) \/ off < 0 THEN BoolV(FALSE)
     ELSE IF off > Len(s) THEN Garbage ELSE BoolV(At(s, test, off))

\* one place behind the last is the terminator
FcnStrCharCodeAt(s, args) ==
  LET given == IntArg(args, 1, Undef)
      idx == IF given.type = "int" THEN Count(given) ELSE 0
  IN IF idx < 0 \/ idx > Len(s) THEN NaN
     ELSE IntV(IF idx = Len(s) THEN 0 ELSE s[idx + 1])

FcnStrCharAt(s, args) ==
  LET given == IntArg(args, 1, IntV(0))
  IN IF given.type # "int" \/ Count(given) >= Len(s) THEN EmptyText
     ELSE IF Count(given) < 0 THEN Garbage ELSE Stretch(s, Count(given), 1)

\* of an object, the text of its base value unless that is undefined
FcnStrToString(v, base) == IF v.type = "string" THEN v ELSE IF base # Undef THEN base ELSE v
=============================================================================
