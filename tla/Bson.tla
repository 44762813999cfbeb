-------------------------------- MODULE Bson --------------------------------
(***************************************************************************)
(* Documents on the wire (src/js_bson.c, js_readBSON of src/js_file.c).    *)
(*                                                                         *)
(* A message is a sequence of bytes; a number of several bytes is its      *)
(* value followed by padding, so that every length counts as it does in    *)
(* the code.  A reply is put together in chunks of BodySize bytes.         *)
(***************************************************************************)
EXTENDS Json

CONSTANT BodySize

Nul == 70
Pad(n) == [i \in 1..n |-> -1]
U32(n) == <<n>> \o Pad(3)
U64(n) == <<n>> \o Pad(7)
DblBytes(r) == <<r[1], r[2]>> \o Pad(6)

\* the codes of an element's type
DblCode == 101
StringCode == 102
ObjectCode == 103
ArrayCode == 104
BinaryCode == 105
ObjectIdCode == 107
BoolCode == 108
DateCode == 109
Int32Code == 116
TimeCode == 117
Int64Code == 118

-----------------------------------------------------------------------------
(* Writing.                                                                *)

\* the bytes in reach of the first chunk, how full the last one is (-1: there is
\* none), whether that one is out of reach or overrun, and the length counted
Builder0 == [chain |-> <<>>, used |-> -1, lost |-> FALSE, over |-> FALSE, len |-> 0]

\* a chunk that follows a full one is not linked to it
BuildAppend(b, str) ==
  LET used == IF b.used = -1 THEN 0 ELSE b.used
      full == BodySize - used < Len(str)
      lost == b.lost \/ full
  IN [chain |-> IF lost THEN b.chain ELSE b.chain \o str,
      used |-> (IF full THEN 0 ELSE used) + Len(str), lost |-> lost,
      over |-> b.over \/ Len(str) > BodySize, len |-> b.len + Len(str)]

Named(b, code, name) ==
  LET coded == BuildAppend(b, <<code>>)
      named == IF name.type = "string" THEN BuildAppend(coded, name.val) ELSE coded
  IN BuildAppend(named, <<Nul>>)

\* Mutant: a nested document's length leaves out the four bytes it is written in
BuildMoveShort(code, parent, child, name) ==
  LET opened == BuildAppend(Named(parent, code, name), U32(child.len + 1))
  IN BuildAppend([opened EXCEPT !.chain = @ \o child.chain, !.len = @ + child.len], <<Nul>>)

\* the finished child is spliced in behind its name and length
BuildMove(code, parent, child, name) ==
  LET opened == BuildAppend(Named(parent, code, name), U32(child.len + 4 + 1))
      spliced == IF child.used = -1 THEN opened
                 ELSE [chain |-> IF opened.lost THEN opened.chain ELSE opened.chain \o child.chain,
                       used |-> child.used, lost |-> opened.lost \/ child.lost,
                       over |-> opened.over \/ child.over, len |-> opened.len + child.len]
  IN BuildAppend(spliced, <<Nul>>)

\* values of other types are left out
RECURSIVE Contents(_)
Written1(b, name, v) ==
  CASE v.type = "string" ->
         BuildAppend(BuildAppend(BuildAppend(Named(b, StringCode, name), U32(Len(v.val) + 1)), v.val), <<Nul>>)
    [] v.type = "int" -> BuildAppend(Named(b, Int64Code, name), U64(v.val[1]))
    [] v.type = "dbl" -> BuildAppend(Named(b, DblCode, name), DblBytes(v.val))
    [] v.type = "array" -> BuildMove(ArrayCode, b, Contents(v), name)
    [] v.type = "object" -> BuildMove(ObjectCode, b, Contents(v), name)
    [] OTHER -> b
Contents(v) ==
  CASE v.type = "array" -> FoldLeft(LAMBDA b, item : Written1(b, Null, item), Builder0, v.val)
    [] v.type = "object" -> FoldLeft(LAMBDA b, pair : Written1(b, pair.name, pair.value), Builder0, v.val)
    [] OTHER -> Builder0

\* the header, the documents with their lengths, and after a command's reply an
\* empty document
BsonResponse(request, response, flags, cursorId, opcode, start, docs) ==
  LET built == [i \in DOMAIN docs |-> Contents(docs[i])]
      lengths == FoldLeft(LAMBDA n, b : n + b.len + 1 + 4, 0, built)
      size == lengths + 16 + (IF opcode = 1 THEN 20 ELSE 5)
      header == U32(size) \o U32(request) \o U32(response) \o U32(opcode)
                \o (IF opcode = 1 THEN U32(flags) \o U64(cursorId) \o U32(start) \o U32(Len(docs)) ELSE <<>>)
      Body(b) == U32(b.len + 1 + 4) \o b.chain \o <<Nul>>
  IN header \o FlattenSeq([i \in DOMAIN docs |-> Body(built[i])])
     \o (IF opcode = 2011 THEN U32(5) \o <<Nul>> ELSE <<>>)

-----------------------------------------------------------------------------
(* Reading.                                                                *)

\* where reading stands: the open documents, innermost last, with the bytes each
\* still has and the name of the pair it is at, and the bytes counted
Level(value, len) == [value |-> value, name |-> EmptyText, len |-> len]
Ended0 == V("status", <<0, 1>>)
ReadError(r) == [r EXCEPT !.done = TRUE, !.result = Ended0]

AddTo(level, v) ==
  IF level.value.type = "array" THEN [level EXCEPT !.value.val = Append(@, v)]
  ELSE [level EXCEPT !.value.val = WithPair(@, level.name, v)]

\* of each type with a fixed or a leading length: the bytes it takes, and its value
ValueLen(bytes, at, code) ==
  CASE code \in {DblCode, DateCode, TimeCode, Int64Code} -> 8
    [] code = StringCode -> 4 + bytes[at]
    [] code = BinaryCode -> 4 + 1 + bytes[at]
    [] code = ObjectIdCode -> 12
    [] code = BoolCode -> 1
    [] code = Int32Code -> 4
    [] OTHER -> 0

ValueAt(bytes, at, code) ==
  CASE code = DblCode -> DblV(<<bytes[at], bytes[at + 1]>>)
    [] code = StringCode -> IF bytes[at] = 0 THEN Garbage ELSE Text(SubSeq(bytes, at + 4, at + 2 + bytes[at]))
    [] code = BinaryCode -> Text(SubSeq(bytes, at + 5, at + 4 + bytes[at]))
    [] code = ObjectIdCode -> Text(SubSeq(bytes, at, at + 11))
    [] code = BoolCode -> BoolV(bytes[at] # Nul)
    [] code = DateCode -> V("date", <<bytes[at], 1>>)
    [] code \in {Int32Code, TimeCode, Int64Code} -> IntV(bytes[at])
    [] OTHER -> Garbage

\* the end of a document: it is added to the one around it
Shut(r) ==
  LET top == Last(r.stack)
  IN IF top.len # 1 THEN ReadError(r)
     ELSE IF Len(r.stack) = 1 THEN [r EXCEPT !.done = TRUE, !.result = top.value, !.amt = @ + 1]
     ELSE [r EXCEPT !.amt = @ + 1, !.stack = Append(Front(Front(@)), AddTo(Last(Front(@)), top.value))]

ReadElement(bytes, from, r) ==
  LET at == from + r.amt    \* the byte to read next
      top == Last(r.stack)
      code == bytes[at]
      named == SelectInSubSeq(bytes, at + 1, Len(bytes), LAMBDA c : c = Nul) - at - 1
      first == at + named + 2
      rest == top.len - named - 2
      here == [top EXCEPT !.name = Text(SubSeq(bytes, at + 1, at + named)),
                          !.len = rest - (IF code \in {ObjectCode, ArrayCode} THEN bytes[first]
                                          ELSE ValueLen(bytes, first, code))]
      inner == Level(IF code = ArrayCode THEN ArrayOf(<<>>) ELSE ObjectOf(<<>>), bytes[first] - 4)
  IN CASE r.done -> r
       [] top.len <= 0 \/ at > Len(bytes) -> ReadError(r)
       [] top.len > 0 /\ at <= Len(bytes) /\ code = Nul -> Shut(r)
       [] OTHER ->
          IF named < 0 \/ named > top.len - 1 \/ first > Len(bytes) THEN ReadError(r)
          ELSE IF code \in {ObjectCode, ArrayCode}
            THEN [r EXCEPT !.amt = @ + named + 2 + 4, !.stack = Front(@) \o <<here, inner>>]
          ELSE IF first + ValueLen(bytes, first, code) - 1 > Len(bytes) THEN ReadError(r)
          ELSE [r EXCEPT !.amt = @ + named + 2 + ValueLen(bytes, first, code),
                         !.stack = Append(Front(@), AddTo(here, ValueAt(bytes, first, code)))]

\* a document of len bytes, whose length has been read at from - amt
BsonRead(bytes, from, len) ==
  LET start == [stack |-> <<Level(ObjectOf(<<>>), len)>>, amt |-> 4, done |-> FALSE, result |-> Undef]
      most == Cardinality({i \in from..Len(bytes) : bytes[i] = Nul})    \* a step passes one
      after[n \in 0..most] == IF n = 0 THEN start ELSE ReadElement(bytes, from, after[n - 1])
  IN after[most]

\* the documents of max bytes, from the byte first on; one without an element is
\* not kept
RECURSIVE JsReadBSON(_, _, _)
JsReadBSON(bytes, first, max) ==
  LET r == BsonRead(bytes, first, bytes[first] - 4)
      kept == IF r.amt > 5 THEN <<r.result>> ELSE <<>>
      others == JsReadBSON(bytes, first + r.amt, max - r.amt)
  IN IF first > Len(bytes) \/ bytes[first] > max THEN Ended0
     ELSE IF ~r.done \/ r.result.type = "status" THEN Ended0
     ELSE IF max = r.amt THEN ArrayOf(kept)
     ELSE IF others.type = "status" THEN Ended0 ELSE ArrayOf(kept \o others.val)
=============================================================================
