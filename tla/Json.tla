-------------------------------- MODULE Json --------------------------------
(***************************************************************************)
(* Values as text and back: the toString methods behind JSON.stringify     *)
(* (src/js_object.c, src/js_props.c) and the reader behind JSON.parse      *)
(* (src/js_jsonparse.c).                                                   *)
(*                                                                         *)
(* A word such as null is one character here.  An object is the sequence   *)
(* of its pairs, an array of its elements.                                 *)
(***************************************************************************)
EXTENDS Strings

Quote == 40
Colon == 41
Comma == 42
LeftBrack == 43
RightBrack == 44
LeftBrace == 45
RightBrace == 46
Backslash == 47
Slash == 48
EOF == 49
NullWord == 60
TrueWord == 61
FalseWord == 62
NaNWord == 63
InfinityWord == 64
\* the letters that may stand behind a backslash
EscapeLetters == {22}
Letters == LowerCase \cup 31..32 \cup 60..64 \cup {UpperE, LowerE}

Null == V("null", <<0, 1>>)
ObjectOf(pairs) == V("object", pairs)

-----------------------------------------------------------------------------
(* To text.                                                                *)

Decimals(n) ==
  LET upTo[k \in 0..n] == IF k < 10 THEN <<k>> ELSE Append(upTo[k \div 10], k % 10) IN upTo[n]

\* %.16G of a fraction of tenths or hundredths; a whole one gets a ".0"
FractionText(r) ==
  LET hundredths == (100 * r[1]) \div r[2]
      rest == hundredths % 100
  IN Decimals(hundredths \div 100)
     \o (IF rest = 0 THEN <<Point, 0>> ELSE IF rest % 10 = 0 THEN <<Point, rest \div 10>>
         ELSE <<Point, rest \div 10, rest % 10>>)

\* the two infinities answer with each other's name
FcnNumToString(v) ==
  CASE v.type = "int" ->
         (IF Neg(v) THEN <<Minus>> ELSE <<>>) \o Decimals(Abs(v.val[1]))
    [] v.type = "dbl" ->
         (IF Neg(v) THEN <<Minus>> ELSE <<>>) \o FractionText(<<Abs(v.val[1]), v.val[2]>>)
    [] v.type = "infinite" -> IF Neg(v) THEN <<InfinityWord>> ELSE <<Minus, InfinityWord>>
    [] v.type = "null" -> <<NullWord>>
    [] v.type = "nan" -> <<NaNWord>>

FcnBoolToString(v) == IF v.val[1] # 0 THEN <<TrueWord>> ELSE <<FalseWord>>

\* the quotes of a string are not escaped
Quoted(s) == <<Quote>> \o s \o <<Quote>>
CommaBetween(texts) ==
  FlattenSeq([i \in 1..Len(texts) |-> texts[i] \o (IF i < Len(texts) THEN <<Comma>> ELSE <<>>)])

RECURSIVE Conv2Str(_, _)
FcnArrayToString(values) ==
  <<LeftBrack>> \o CommaBetween([i \in 1..Len(values) |-> Conv2Str(values[i], values[i].type = "string")])
  \o <<RightBrack>>
FcnObjectToString(pairs) ==
  LET PairText(p) == Conv2Str(p.name, TRUE) \o <<Colon>> \o Conv2Str(p.value, p.value.type = "string")
  IN <<LeftBrace>> \o CommaBetween([i \in 1..Len(pairs) |-> PairText(pairs[i])]) \o <<RightBrace>>
Conv2Str(v, quote) ==
  LET text == CASE v.type = "string" -> v.val
                [] v.type = "array" -> FcnArrayToString(v.val)
                [] v.type = "object" -> FcnObjectToString(v.val)
                [] v.type = "bool" -> FcnBoolToString(v)
                [] v.type = "undef" -> <<UndefinedChar>>
                [] OTHER -> FcnNumToString(v)
  IN IF quote THEN Quoted(text) ELSE text

FcnArrayJoin(values, args) ==
  LET delim == IF Given(args, 1) THEN Conv2Str(args[1], FALSE) ELSE <<Comma>>
      TextOf(i) == Conv2Str(values[i], FALSE)
  IN Text(FlattenSeq([i \in 1..Len(values) |->
                        TextOf(i) \o (IF i < Len(values) THEN delim ELSE <<>>)]))

-----------------------------------------------------------------------------
(* From text: one character at a time.                                     *)

NoName == Undef
\* what is read so far: the element just finished, the open arrays and objects
\* with the name of the pair under way, and the token being assembled
Reader0 == [state |-> "element", next |-> Undef, stack |-> <<>>, negative |-> FALSE,
            quot |-> FALSE, buff |-> <<>>, done |-> FALSE]
Failed(r) == [r EXCEPT !.next = V("status", <<0, 1>>), !.done = TRUE]

\* replaceValue of lookup: a name that is there gets the new value
WithPair(pairs, name, value) ==
  IF \E i \in DOMAIN pairs : pairs[i].name = name
    THEN [i \in DOMAIN pairs |-> IF pairs[i].name = name THEN [name |-> name, value |-> value] ELSE pairs[i]]
  ELSE Append(pairs, [name |-> name, value |-> value])

\* an element that an object has no name for is not taken
AppendElement(top, next) ==
  CASE top.value.type = "array" -> [top EXCEPT !.value.val = Append(@, next)]
    [] top.value.type = "object" /\ top.name.type = "string" ->
         [name |-> NoName, value |-> ObjectOf(WithPair(top.value.val, top.name, next))]
    [] OTHER -> top
CanAppend(top) == top.value.type = "array" \/ top.name.type = "string"

Literal(buff) ==
  CASE buff = <<NullWord>> -> Null
    [] buff = <<TrueWord>> -> BoolV(TRUE)
    [] buff = <<FalseWord>> -> BoolV(FALSE)
    [] buff = <<NaNWord>> -> NaN
    [] buff \in {<<InfinityWord>>, <<Plus, InfinityWord>>} -> Infinite(FALSE)
    [] buff = <<Minus, InfinityWord>> -> Infinite(TRUE)
    [] OTHER -> Undef

Close(r, ch) ==
  LET top == Last(r.stack)
      opener == IF ch = RightBrace THEN "object" ELSE "array"
  IN IF r.stack = <<>> \/ top.value.type # opener THEN Failed(r)
     ELSE IF r.next = Undef THEN [r EXCEPT !.next = top.value, !.stack = Front(r.stack)]
     ELSE IF CanAppend(top)
       THEN [r EXCEPT !.next = AppendElement(top, r.next).value, !.stack = Front(r.stack)]
     ELSE Failed(r)

Open(r, value) ==
  IF r.next # Undef THEN Failed(r)
  ELSE [r EXCEPT !.stack = Append(@, [name |-> NoName, value |-> value])]

Element(r, ch) ==
  CASE ch = Space -> r
    [] ch = Minus -> IF r.negative THEN Failed(r) ELSE [r EXCEPT !.negative = TRUE]
    [] ch \in Digits ->
         IF r.next # Undef THEN Failed(r)
         ELSE [r EXCEPT !.state = "number", !.negative = FALSE,
                        !.buff = <<IF r.negative THEN Minus ELSE Plus, ch>>]
    [] ch = Quote ->
         IF r.next # Undef THEN Failed(r)
         ELSE [r EXCEPT !.state = "string", !.next = EmptyText, !.buff = <<>>]
    [] ch = LeftBrack -> Open(r, ArrayOf(<<>>))
    [] ch = LeftBrace -> Open(r, ObjectOf(<<>>))
    [] ch = Colon ->
         IF r.stack # <<>> /\ Last(r.stack).value.type = "object" /\ r.next.type = "string"
           THEN [r EXCEPT !.stack[Len(r.stack)].name = r.next, !.next = Undef] ELSE Failed(r)
    [] ch = EOF -> IF r.stack # <<>> THEN Failed(r) ELSE [r EXCEPT !.done = TRUE]
    [] ch \in {RightBrack, RightBrace} -> Close(r, ch)
    [] ch = Comma ->    \* outside of everything the top of an empty stack is read
         IF r.next = Undef THEN Failed(r)
         ELSE IF r.stack = <<>> THEN [Failed(r) EXCEPT !.next = Garbage]
         ELSE IF ~CanAppend(Last(r.stack)) THEN Failed(r)
         ELSE [r EXCEPT !.stack[Len(r.stack)] = AppendElement(@, r.next), !.next = Undef]
    [] OTHER -> [r EXCEPT !.state = "literal", !.negative = FALSE,
                          !.buff = IF r.negative THEN <<Minus, ch>> ELSE <<ch>>]

\* Mutant: the character behind a number or a literal is passed over
EndedSkipping(r, next, ch) == [r EXCEPT !.next = next, !.state = "element"]

\* a number or a literal is ended by the character behind it, which is an element's
Ended(r, next, ch) == Element([r EXCEPT !.next = next, !.state = "element"], ch)

InLiteral(r, ch) ==
  CASE ch = EOF -> Failed(r)
    [] ch \in Letters -> [r EXCEPT !.buff = Append(@, ch)]
    [] OTHER -> IF Literal(r.buff) = Undef THEN Failed(r) ELSE Ended(r, Literal(r.buff), ch)

InNumber(r, ch) ==
  CASE Len(r.buff) = 2 /\ r.buff[2] = 0 /\ ch = 0 -> Failed(r)
    [] ch \in {Comma, RightBrace, RightBrack, EOF} -> Ended(r, Strtod(r.buff), ch)
    [] ch \in Digits \cup {LowerE, UpperE, Plus, Minus, Point} -> [r EXCEPT !.buff = Append(@, ch)]
    [] OTHER -> Failed(r)

\* behind a backslash the letter itself is kept, not what it stands for
InString(r, ch) ==
  CASE r.quot -> IF ch \in {Quote, Slash, Backslash} \cup EscapeLetters
                   THEN [r EXCEPT !.quot = FALSE, !.next.val = Append(@, ch)] ELSE Failed(r)
    [] ~r.quot /\ ch = EOF -> Failed(r)
    [] ~r.quot /\ ch = Backslash -> [r EXCEPT !.quot = TRUE]
    [] ~r.quot /\ ch = Quote -> [r EXCEPT !.state = "element"]
    [] OTHER -> [r EXCEPT !.next.val = Append(@, ch)]

ReadChar(r, ch) ==
  IF r.done THEN r
  ELSE CASE r.state = "element" -> Element(r, ch)
         [] r.state = "literal" -> InLiteral(r, ch)
         [] r.state = "number" -> InNumber(r, ch)
         [] r.state = "string" -> InString(r, ch)

JsonParse(text) == FoldLeft(ReadChar, Reader0, Append(text, EOF)).next

\* jsdb_json: 1 is stringify, 2 parse
JsJson(type, v) ==
  CASE type = 1 -> Text(Conv2Str(v, FALSE))
    [] type = 2 -> JsonParse(v.val)
    [] OTHER -> V("status", <<0, 1>>)
=============================================================================
