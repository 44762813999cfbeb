--------------------------- MODULE MCDocuments ----------------------------
(* Inputs and properties of values as text, of documents on the wire, stored and indexed. *)
EXTENDS Inputs, Json, Bson, Marshal, IndexKeys

LOCAL A == Text(<<21>>)
LOCAL B == Text(<<22, 21, 21>>)
LOCAL PairOf(name, value) == [name |-> name, value |-> value]

(* Inputs and properties of values as text. *)

LOCAL Spaced == Text(<<22, Space, 21>>)
LOCAL JsonLeaves == {IntV(0), IntV(105), IntV(-7), DblV(<<9, 20>>), DblV(<<-5, 2>>), DblV(<<3, 1>>), EmptyText, Spaced,
           BoolV(TRUE), BoolV(FALSE), Null, NaN}
LOCAL JsonShaped(shape, x, y, z) ==
  CASE shape = 1 -> ArrayOf(<<x, y, z>>)
    [] shape = 2 -> ObjectOf(<<PairOf(A, x), PairOf(Spaced, y)>>)
    [] shape = 3 -> ArrayOf(<<ArrayOf(<<x>>), ObjectOf(<<PairOf(A, y)>>), z>>)
    [] shape = 4 -> ObjectOf(<<PairOf(A, ArrayOf(<<x, y>>)), PairOf(Spaced, ObjectOf(<<PairOf(A, z)>>))>>)
    [] shape = 5 -> ObjectOf(<<PairOf(A, ObjectOf(<<>>)), PairOf(Spaced, ArrayOf(<<ArrayOf(<<>>), x>>))>>)

\* the shape, the leaves and where a blank is put in
JsonChoices == <<1..5, JsonLeaves, {IntV(105), Spaced, BoolV(FALSE), Null}, {IntV(0), EmptyText, NaN}, 0..3>>

\* a whole double is read back as an integer
RECURSIVE SameValue(_, _)
LOCAL SameList(s, t) == Len(s) = Len(t) /\ \A i \in DOMAIN s : SameValue(s[i], t[i])
SameValue(v, w) ==
  CASE v.type = "array" /\ w.type = "array" -> SameList(v.val, w.val)
    [] v.type = "object" /\ w.type = "object" ->
         /\ Len(v.val) = Len(w.val)
         /\ \A i \in DOMAIN v.val : v.val[i].name = w.val[i].name /\ SameValue(v.val[i].value, w.val[i].value)
    [] v.type \in {"int", "dbl"} /\ w.type \in {"int", "dbl"} -> Equal(v.val, w.val)
    [] OTHER -> v = w

\* What JSON.stringify writes of nested arrays and objects, JSON.parse reads back as
\* the same value; a blank before a bracket's content or a name changes nothing; with
\* its last character lost the text is refused.
JsonRoundTrip ==
  [][(Built("json", 5) =>
        LET v == JsonShaped(input[1], input[2], input[3], input[4])
            text == JsJson(1, v).val
            starts == {i \in 1..Len(text) : text[i] \in {LeftBrack, LeftBrace, Comma}}
            at == SetToSortSeq(starts, <)
            k == at[(input[5] % Len(at)) + 1]
            spaced == SubSeq(text, 1, k) \o <<Space>> \o SubSeq(text, k + 1, Len(text))
        IN /\ SameValue(v, JsJson(2, Text(text)))
           /\ SameValue(v, JsJson(2, Text(spaced)))
           /\ JsJson(2, Text(Front(text))).type = "status")]_vars

---------------------------------------------------------------------------
(* Inputs and properties of documents on the wire. *)

LOCAL WireLeaves == {IntV(-3), DblV(<<1, 2>>), EmptyText, Text(<<21, 22>>), ObjectOf(<<>>)}
LOCAL WireShaped(shape, x, y) ==
  CASE shape = 1 -> ObjectOf(<<PairOf(A, x), PairOf(B, y)>>)
    [] shape = 2 -> ObjectOf(<<PairOf(B, ArrayOf(<<x, y, ArrayOf(<<>>)>>)), PairOf(A, y)>>)
    [] shape = 3 -> ObjectOf(<<PairOf(A, ObjectOf(<<PairOf(A, ObjectOf(<<PairOf(B, x)>>)), PairOf(B, y)>>))>>)

BsonChoices == <<1..3, WireLeaves, WireLeaves, {1, 2011}, 0..2>>

\* A reply is as long as its header says, and reading the documents of a reply with
\* several of them, those within an empty one too, answers the documents that were sent,
\* the empty ones left out, when each level of each of them fits its chunk.
BsonRoundTrip ==
  [][(Built("bson", 5) =>
        LET doc == WireShaped(input[1], input[2], input[3])
            docs == <<doc, ObjectOf(<<>>), doc, ObjectOf(<<PairOf(A, doc)>>)>>
            sent == SubSeq(docs, 1, input[5] + 2)
            bytes == BsonResponse(7, 8, 0, 0, input[4], 0, sent)
            header == IF input[4] = 1 THEN 36 ELSE 16
            full == \E i \in DOMAIN sent : Contents(sent[i]).lost
        IN /\ ~full => Len(bytes) = bytes[1]
           /\ ~full => JsReadBSON(bytes, header + 1, bytes[1] - header)
                       = ArrayOf(SelectSeq(sent, LAMBDA d : d.val # <<>>))
           /\ full => Len(bytes) < bytes[1])]_vars

---------------------------------------------------------------------------
(* Inputs and properties of storing documents. *)

LOCAL StoredLeaves ==
  {IntV(-3), EmptyText, Text(<<21, 22>>), V("key", <<21>>), ObjectOf(<<>>), ArrayOf(<<B>>),
   V("stored", <<>>), V("stored", <<PairOf(A, IntV(1))>>)}
LOCAL StoredShaped(shape, x, y) ==
  CASE shape = 1 -> ObjectOf(<<PairOf(A, x), PairOf(B, y)>>)
    [] shape = 2 -> ObjectOf(<<PairOf(B, ArrayOf(<<x, y, ArrayOf(<<>>)>>)), PairOf(A, y)>>)
    [] shape = 3 -> ObjectOf(<<PairOf(A, ObjectOf(<<PairOf(A, ObjectOf(<<PairOf(B, x)>>)), PairOf(B, y)>>)),
                               PairOf(B, y)>>)
    [] shape = 4 -> x

MarshalChoices == <<1..4, StoredLeaves, StoredLeaves>>

RECURSIVE Keys(_)
LOCAL Keys(v) ==
  IF v.type = "key" THEN {v.val}
  ELSE IF v.type \in Containers THEN UNION {Keys(Items(v)[i]) : i \in DOMAIN v.val} ELSE {}

\* a document without what its arrays hold
RECURSIVE Emptied(_)
LOCAL Emptied(v) ==
  CASE v.type = "array" -> ArrayOf(<<>>)
    [] v.type \in {"object", "stored"} ->
         ObjectOf([i \in DOMAIN v.val |-> [v.val[i] EXCEPT !.value = Emptied(v.val[i].value)]])
    [] OTHER -> v

\* A document with no key in it, no stored object with pairs, and no more levels than
\* there is room for, is written into exactly the space computed for it, its parts side
\* by side, and is read back as it was, but for its arrays, which come back empty; one
\* with a key never fits.
DocumentsKept ==
  [][(Built("marshal", 3) =>
        LET doc == StoredShaped(input[1], input[2], input[3])
            written == WriteRawDoc(doc)
            Bytes(p) == p.at..(p.at + p.size - 1)
        IN (~Crashes(doc) /\ Levels(doc) <= MaxLevels) =>
             IF Keys(doc) # {} THEN written.outcome # "stored"
             ELSE /\ written.outcome = "stored"
                  /\ written.next = RootOffset + CalcSize(doc)
                  /\ \A p, q \in written.parts : p # q => Bytes(p) \cap Bytes(q) = {}
                  /\ Retrieved(written.parts, written.root) = Emptied(doc))]_vars

---------------------------------------------------------------------------
(* Inputs and properties of index keys. *)

LOCAL ShortB == Text(<<22, 21>>)
LOCAL Fields ==
  {IntV(-2), IntV(3), DblV(<<1, 2>>), BoolV(TRUE), Text(<<21>>), Text(<<21, 22>>), Text(<<21, 22, 21>>), Undef,
   ArrayOf(<<>>), ArrayOf(<<IntV(3)>>), ArrayOf(<<IntV(3), IntV(4)>>), ObjectOf(<<>>)}
LOCAL Options ==
  {IntV(1), IntV(-1), Text(<<FwdWord>>)}
  \cup {Text(<<way, Colon, type>>) : way \in {FwdWord, RevWord}, type \in {IntWord, DblWord, BoolWord, StringWord}}

\* the option of the first field, two documents' first fields, and their second ones
KeyChoices == <<Options, Fields, Fields, {IntV(-2), IntV(3)}, {IntV(3)}>>

LOCAL Doc(x, y) == ObjectOf(<<PairOf(A, x), PairOf(ShortB, ObjectOf(<<PairOf(A, y)>>))>>)
LOCAL Specs(option) ==
  CompileKey(<<PairOf(A, option), PairOf(Text(<<22, 21, Point, 21>>), Text(<<FwdWord, Colon, IntWord>>))>>)

\* the bytes of a key are compared as the index does
LOCAL BytesLess(s, t) == StrLess(s, t)

\* the order of values that a field of a type has, where it has one
LOCAL OrderedAs(type, x) ==
  \/ type \in {KeyUndef, KeyBool}
  \/ type = KeyStr /\ x.type = "string"
  \/ type = KeyInt /\ x.type \in {"int", "dbl", "bool"}
  \/ type = KeyDbl /\ x.type \in {"int", "dbl", "bool"} /\ x.val[1] >= 0
LOCAL FieldLess(type, x, y) ==
  CASE type = KeyUndef -> FALSE
    [] type = KeyBool -> Conv2Bool(x).val[1] < Conv2Bool(y).val[1]
    [] type = KeyStr -> StrLess(x.val, y.val)
    [] type = KeyInt -> Conv2Int(x).val[1] < Conv2Int(y).val[1]
    [] type = KeyDbl -> Less(x.val, y.val)

\* Where every field has a value that its type orders, each document has one key, inserted
\* twice with the document id behind it, and the key of the first is below that of the second
\* just when its fields are, as the options say; with binary fields that holds for integers and
\* truth values alone, and backwards only among those of a sign.  insertKey makes the same key
\* of the fields themselves.  An array of one document stands for it, and another behind it
\* has no key; of one with several the first has a key, and another behind it has the call go
\* past the last argument.  A document with an object or an array of several elements for a
\* field is never done with.
KeysOrdered ==
  [][(Built("keys", 5) =>
        LET x == input[2]  y == input[3]
            one == Document(Doc(x, input[4]))
            two == Document(Doc(y, input[5]))
            Keys5(args) == FcnIdxBldKey(<<DocId(5)>> \o args, Specs(input[1]), FALSE)
            first == Keys5(<<one>>)
            built == Keys5(<<one, DocId(6), two>>)
            binary == FcnIdxBldKey(<<DocId(5), one, DocId(6), two>>, Specs(input[1]), TRUE)
            type == built.specs[1].fldType & KeyMask
            reverse == Flag(built.specs[1].fldType, KeyReverse)
            Before(p, q) == FieldLess(type, p, q)
            less == IF reverse THEN Before(y, x) ELSE Before(x, y)
            more == IF reverse THEN Before(x, y) ELSE Before(y, x)
            below == less \/ (~more /\ input[4].val[1] < input[5].val[1])
            Plain(v) == v.type \notin {"array", "object"} /\ v # Undef
            Endless(v) == v.type = "object" \/ (v.type = "array" /\ Len(v.val) > 1)
            Negative(v) == v.type \in {"int", "dbl"} /\ v.val[1] < 0
            Ordered(v) == Plain(v) /\ OrderedAs(type, v)
        IN /\ Endless(x) => first.stuck
           /\ Ordered(x) /\ Ordered(y) =>
                /\ ~built.stuck /\ Len(built.keys) = 2
                /\ BytesLess(built.keys[1], built.keys[2]) <=> below
                /\ built.installed = [i \in 1..4 |-> built.keys[(i + 1) \div 2] \o Store64(4 + (i + 1) \div 2)]
                /\ type \in {KeyInt, KeyBool} /\ (reverse => Negative(x) = Negative(y)) =>
                     (BytesLess(binary.keys[1], binary.keys[2]) <=> below)
                /\ Keys5(<<ArrayOf(<<one>>), DocId(6), two>>).installed = built.installed
                /\ Keys5(<<ArrayOf(<<one, two>>)>>).installed = first.installed
                /\ Keys5(<<ArrayOf(<<one>>), DocId(6), ArrayOf(<<two>>)>>).installed = first.installed
                /\ Keys5(<<ArrayOf(<<one, two>>), ArrayOf(<<two>>)>>).stuck
           /\ Plain(x) /\ input[1] = IntV(1) =>
                FcnIdxInsKey(<<DocId(5), x, input[4]>>, FALSE) = V("key", first.installed[1]))]_vars
===========================================================================
