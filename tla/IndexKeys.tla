----------------------------- MODULE IndexKeys ------------------------------
(***************************************************************************)
(* Index keys (src/js_dbindex.c): compiling the fields an index is over,   *)
(* and the key of bytes that a document has in it, which is to be ordered  *)
(* as the fields are.                                                      *)
(*                                                                         *)
(* The library's encoding of an integer, store64, is external: a byte with *)
(* the sign, the count of bytes and the bytes themselves, in that order.   *)
(***************************************************************************)
EXTENDS Json

CONSTANT MaxKey    \* MAX_key

\* the words of an option, as one character each
FwdWord == 80
RevWord == 81
IntWord == 82
DblWord == 83
BoolWord == 84
StringWord == 85

KeyUndef == 0
KeyBool == 1
KeyInt == 2
KeyDbl == 3
KeyStr == 4
KeyMask == 7
KeyFirst == 8
KeyReverse == 16

Flag(fldType, bit) == (fldType & bit) # 0
Lost == V("lost", <<0, 1>>)
DocId(n) == V("docid", <<n>>)
Document(v) == V("document", <<v>>)

Flipped(bytes, off) == [i \in DOMAIN bytes |-> IF i > off THEN 255 - bytes[i] ELSE bytes[i]]

Store64(n) == IF n >= 0 THEN <<128, 0, n>> ELSE <<127, 0, 128 + n>>
Int64Room == 10
\* a double's bits as an integer, for doubles of a few values around zero
DoubleBits(r) == IF r[1] >= 0 THEN Floor(<<r[1] * 4, r[2]>>) ELSE Floor(<<-r[1] * 4, r[2]>>) - 128

-----------------------------------------------------------------------------
(* The specification of an index.                                          *)

EvalOption(word) ==
  CASE word = <<RevWord>> -> KeyReverse
    [] word = <<IntWord>> -> KeyInt
    [] word = <<DblWord>> -> KeyDbl
    [] word = <<BoolWord>> -> KeyBool
    [] word = <<StringWord>> -> KeyStr
    [] OTHER -> 0

\* the stretches of a text between the places where a separator is
Pieces(text, separator) ==
  LET Next(pieces, c) == IF c = separator THEN Append(pieces, <<>>)
                         ELSE Append(Front(pieces), Append(Last(pieces), c))
  IN FoldLeft(Next, <<(<<>>)>>, text)

KeyOptions(option) ==
  CASE option.type \in {"int", "dbl"} ->
         IF option.val[1] > 0 THEN KeyFirst ELSE KeyFirst + KeyReverse
    [] option.type = "string" /\ option.val # <<>> ->
         FoldLeft(LAMBDA n, word : n | EvalOption(word), 0, Pieces(option.val, Colon))
    [] OTHER -> KeyFirst

\* per field of the key, where it is found in a document and what it is made of
CompileKey(keySpec) ==
  [i \in DOMAIN keySpec |->
     [path |-> [k \in DOMAIN Pieces(keySpec[i].name.val, Point) |->
                  Text(Pieces(keySpec[i].name.val, Point)[k])],
      fldType |-> KeyOptions(keySpec[i].value)]]

-----------------------------------------------------------------------------
(* One field.  The bytes are Crash when a value is taken for a text that    *)
(* is none, and TooLong when there is no room for them.                    *)

Crash == <<-1>>
TooLong == <<-2>>

\* what a field without a type becomes when it takes that of its first value
FirstType(src) ==
  CASE src.type = "int" -> KeyInt [] src.type = "dbl" -> KeyDbl [] src.type = "bool" -> KeyBool
    [] OTHER -> KeyStr

\* with its length in front, a text loses the two bytes that takes at its end
TextBytes(s, binaryFlds) ==
  LET len == Len(s) - 2
  IN IF binaryFlds THEN SubSeq(<<IF len < 0 THEN 255 ELSE 0, len % 256>> \o s, 1, Len(s))
     ELSE Append(s, 0)

\* a negative double has every bit flipped, its sign too; the sign is looked for behind the
\* place of a length, which a number has not got
DoubleBytes(bits, off) ==
  LET bytes == Store64(bits) IN IF bytes[off + 1] >= 128 THEN bytes ELSE Flipped(bytes, off)

TypedBytes(fldType, src, room, binaryFlds) ==
  LET type == fldType & KeyMask
      off == IF binaryFlds THEN 2 ELSE 0
      text == IF type = KeyStr THEN src ELSE Text(Conv2Str(src, FALSE))
  IN CASE type = KeyUndef -> <<>>
       [] type \in {KeyInt, KeyDbl} /\ room < Int64Room -> TooLong
       [] type = KeyInt /\ room >= Int64Room ->
            IF Conv2Int(src).type = "int" THEN Store64(Conv2Int(src).val[1]) ELSE Crash
       [] type = KeyDbl /\ room >= Int64Room ->
            IF Conv2Dbl(src).type = "dbl" THEN DoubleBytes(DoubleBits(Conv2Dbl(src).val), off) ELSE Crash
       [] type = KeyBool ->
            IF room < 1 THEN TooLong
            ELSE IF binaryFlds THEN Store64(Conv2Bool(src).val[1]) ELSE <<Conv2Bool(src).val[1]>>
       [] OTHER ->
            IF text.type \notin {"string", "key"} THEN Crash
            ELSE IF Len(text.val) > room THEN TooLong ELSE TextBytes(text.val, binaryFlds)

\* Mutant: a reversed field is not reversed
KeyFldForward(spec, src, room, binaryFlds) ==
  [spec |-> spec, bytes |-> TypedBytes(spec.fldType, src, room, binaryFlds)]

\* the type that a first value gives is kept; one that gives none has no bytes itself
KeyFld(spec, src, room, binaryFlds) ==
  LET untyped == (spec.fldType & KeyMask) = KeyUndef /\ Flag(spec.fldType, KeyFirst)
      typed == IF untyped THEN [spec EXCEPT !.fldType = @ | FirstType(src)] ELSE spec
      bytes == IF untyped /\ src.type \notin {"int", "dbl", "bool", "string", "key"} THEN <<>>
               ELSE TypedBytes(typed.fldType, src, room, binaryFlds)
      off == IF binaryFlds THEN 2 ELSE 0
  IN [spec |-> typed,
      bytes |-> IF bytes \in {Crash, TooLong} \/ ~Flag(typed.fldType, KeyReverse) THEN bytes
                ELSE Flipped(bytes, off)]

-----------------------------------------------------------------------------
(* All keys of a document.  The builder is at a field, with the arrays it   *)
(* is inside of, the key as far as it goes, and the keys built so far.     *)

Found(rec, path) ==
  FoldLeft(LAMBDA v, name :
             IF v.type # "object" THEN Lost
             ELSE LET held == {i \in DOMAIN v.val : v.val[i].name = name}
                  IN IF held = {} THEN Undef ELSE v.val[CHOOSE i \in held : TRUE].value,
           rec, path)

Builder(specs) ==
  [specs |-> specs, at |-> 1, stack |-> <<>>, key |-> <<>>, keys |-> <<>>, done |-> FALSE, crash |-> FALSE]

\* the key is complete: it is installed, and an array it has elements of is gone back to
Installed(b) ==
  LET keys == Append(b.keys, b.key)
  IN IF b.stack = <<>> THEN [b EXCEPT !.keys = keys]
     ELSE [b EXCEPT !.keys = keys, !.key = Last(b.stack).key, !.at = Last(b.stack).at, !.stack = Front(@)]

\* val is the field's value, or the element it has in this key
FieldAdded(b, val, binaryFlds) ==
  LET fld == KeyFld(b.specs[b.at], val, MaxKey - Len(b.key), binaryFlds)
      added == [b EXCEPT !.specs[b.at] = fld.spec, !.at = @ + 1, !.key = @ \o fld.bytes]
  IN CASE fld.bytes = Crash -> [b EXCEPT !.crash = TRUE]
       [] fld.bytes = TooLong -> [b EXCEPT !.done = TRUE, !.specs[b.at] = fld.spec]
       [] OTHER -> IF added.at <= Len(b.specs) THEN added ELSE Installed(added)

\* an array that was left is taken for a new one, its elements from the first again
ElementOf(b, values, binaryFlds) ==
  LET depth == Len(b.stack)
      new == depth = 0 \/ b.at > Last(b.stack).at
      entered == IF new THEN Append(b.stack, [at |-> b.at, key |-> b.key, idx |-> 1])
                 ELSE Append(Front(b.stack), [Last(b.stack) EXCEPT !.idx = @ + 1])
      idx == Last(entered).idx
  IN IF new /\ values = <<>> THEN [b EXCEPT !.at = @ + 1]
     ELSE IF idx > Len(values) THEN [b EXCEPT !.crash = TRUE]
     ELSE FieldAdded([b EXCEPT !.stack = IF idx < Len(values) THEN entered ELSE Front(entered)],
                     values[idx], binaryFlds)

\* an object is tried again without end
BuildStep(b, rec, binaryFlds) ==
  LET val == Found(rec, b.specs[b.at].path)
  IN CASE b.done \/ b.crash \/ b.at > Len(b.specs) -> [b EXCEPT !.done = TRUE]
       [] b.at <= Len(b.specs) /\ val.type = "lost" -> [b EXCEPT !.crash = TRUE]
       [] b.at <= Len(b.specs) /\ val.type = "object" -> b
       [] b.at <= Len(b.specs) /\ val.type = "array" -> ElementOf(b, val.val, binaryFlds)
       [] OTHER -> FieldAdded(b, val, binaryFlds)

\* what is not done after a step for each field and more never is
IdxBldKeyHelper(rec, specs, binaryFlds) ==
  LET after[n \in 0..(3 * Len(specs) + 2)] ==
        IF n = 0 THEN Builder(specs)
        ELSE LET b == after[n - 1]
             IN IF b.done \/ b.crash THEN b ELSE BuildStep(b, rec, binaryFlds)
  IN after[3 * Len(specs) + 2]

\* every key is inserted twice
InstallKey(key, docId) == <<key \o Store64(docId), key \o Store64(docId)>>

\* What is taken in the place of an array: its first element, if no array was begun; after one
\* that was, which is not gone back to, the argument behind it.  What is an array again makes
\* way for the next.  Nothing is taken once as many were passed as the array begun has elements.
Taken(args, arg, idx, reps) ==
  LET items == IF idx = 0 THEN args[arg].val ELSE SubSeq(args, arg + 1, Len(args))
      count == IF idx = 0 THEN Len(items) ELSE reps
      taken == {k \in 1..count - idx : k > Len(items) \/ items[k].type # "array"}
  IN IF taken = {} THEN [item |-> Undef, idx |-> 0, reps |-> 0]
     ELSE [item |-> IF Min(taken) > Len(items) THEN Lost ELSE items[Min(taken)],
           idx |-> idx + Min(taken), reps |-> count]

\* what buildKey makes of its arguments: the last document id seen goes behind the key; an
\* object that is no document is passed over
FcnIdxBldKey(args, specs, binaryFlds) ==
  LET Arg(acc, arg) ==
        LET one == IF args[arg].type = "array" THEN Taken(args, arg, acc.idx, acc.reps)
                   ELSE [item |-> args[arg], idx |-> acc.idx, reps |-> acc.reps]
            b == IdxBldKeyHelper(one.item.val[1], acc.specs, binaryFlds)
            next == [acc EXCEPT !.idx = one.idx, !.reps = one.reps]
        IN CASE acc.stuck -> acc
             [] ~acc.stuck /\ one.item.type = "docid" -> [next EXCEPT !.docId = one.item.val[1]]
             [] ~acc.stuck /\ one.item.type = "document" ->
                  [next EXCEPT !.specs = b.specs, !.keys = @ \o b.keys, !.stuck = b.crash \/ ~b.done,
                               !.installed = @ \o FlattenSeq([i \in DOMAIN b.keys |-> InstallKey(b.keys[i], acc.docId)])]
             [] ~acc.stuck /\ one.item = Lost -> [next EXCEPT !.stuck = TRUE]
             [] OTHER -> next
      none == [docId |-> 0, idx |-> 0, reps |-> 0, specs |-> specs, keys |-> <<>>, installed |-> <<>>, stuck |-> FALSE]
  IN IF Len(args) < 2 THEN V("status", <<0, 1>>)
     ELSE FoldLeft(Arg, none, [arg \in DOMAIN args |-> arg])

\* insertKey: the fields are the arguments; one that does not fit takes a byte off the key
FcnIdxInsKey(args, binaryFlds) ==
  LET Arg(key, val) ==
        LET type == IF val.type \in {"int", "dbl", "bool"} THEN FirstType(val) ELSE KeyStr
            src == IF val.type \in {"int", "dbl", "bool", "string", "key"} THEN val
                   ELSE Text(Conv2Str(val, FALSE))
            bytes == KeyFld([path |-> <<>>, fldType |-> type], src, MaxKey - Len(key), binaryFlds).bytes
        IN IF bytes = TooLong THEN Front(key) ELSE key \o bytes
  IN IF args = <<>> THEN V("status", <<0, 1>>)
     ELSE IF args[1].type # "docid" THEN V("status", <<0, 1>>)
     ELSE V("key", FoldLeft(Arg, <<>>, Tail(args)) \o Store64(args[1].val[1]))

\* a byte as two digits, with a point between bytes
FcnKeyToString(key) ==
  FoldLeft(LAMBDA s, b : s \o (IF s = <<>> THEN <<>> ELSE <<Point>>) \o <<b \div 16, b % 16>>, <<>>, key)
=============================================================================
