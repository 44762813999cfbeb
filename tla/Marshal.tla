------------------------------ MODULE Marshal -------------------------------
(***************************************************************************)
(* Storing a value as a document (src/js_marshal.c, src/js_dbver.c): the   *)
(* size it will take is computed first, then the value is written into     *)
(* that space, part by part, and every reference becomes an offset.        *)
(*                                                                         *)
(* A value of type "stored" is an object read from a document: its type    *)
(* says that it is marshaled, its names and values know no document.       *)
(***************************************************************************)
EXTENDS Json

CONSTANT MaxLevels    \* the containers inside one another that marshalDoc has room for

Containers == {"array", "object", "stored"}
TextTypes == {"string", "key"}

ValueSize == 16
HeaderSize == 4
StringSize(s) == HeaderSize + Len(s) + 1

\* a vector of pairs is followed by a hash table of one byte an entry
ObjectSize(cnt) == HeaderSize + cnt * 2 * ValueSize + (3 * cnt) \div 2
ArraySizeOf(cnt) == HeaderSize + cnt * ValueSize

\* the values in a container, and the levels of containers of a value
Items(v) == IF v.type = "array" THEN v.val ELSE [i \in DOMAIN v.val |-> v.val[i].value]
RECURSIVE Levels(_)
Levels(v) ==
  IF v.type \notin Containers THEN 0
  ELSE 1 + FoldLeft(LAMBDA n, item : IF Levels(item) > n THEN Levels(item) ELSE n, 0, Items(v))

\* the name of a stored pair is looked for in no document
RECURSIVE Crashes(_)
Crashes(v) ==
  /\ v.type \in Containers
  /\ \/ v.type = "stored" /\ v.val # <<>>
     \/ \E i \in DOMAIN v.val : Crashes(Items(v)[i])

\* a key takes no space, as marshalDoc does not agree
RECURSIVE CalcSize(_)
CalcSize(v) ==
  LET items == IF v.type \in Containers
                 THEN FoldLeft(LAMBDA n, item : n + CalcSize(item), 0, Items(v)) ELSE 0
  IN CASE v.type = "string" -> StringSize(v.val)
       [] v.type = "array" -> ArraySizeOf(Len(v.val)) + items
       [] v.type \in {"object", "stored"} ->
            ObjectSize(Len(v.val)) + items
            + FoldLeft(LAMBDA n, pair : n + StringSize(pair.name.val), 0, v.val)
       [] OTHER -> 0

-----------------------------------------------------------------------------
(* Writing.  The store is the bytes taken so far and the parts, each with  *)
(* the offset it starts at; a slot is what is written where a value is     *)
(* kept: an immediate value, or the offset of a part.                      *)

Store0(offset) == [next |-> offset, parts |-> {}]
Part(store, size, content) ==
  [next |-> store.next + size,
   parts |-> store.parts \cup {[at |-> store.next, size |-> size, content |-> content]}]
Place(type, offset) == V(type, <<offset, 1>>)

\* Mutant: the terminator of a text is not counted
MarshalStringShort(store, text) == Part(store, HeaderSize + Len(text), text)
MarshalString(store, text) == Part(store, StringSize(text), text)

\* the part of a container is taken before those of what it holds; the count of
\* an array is never written into it
RECURSIVE MarshalValue(_, _)
Written(store, v) ==
  LET size == IF v.type = "array" THEN ArraySizeOf(Len(v.val)) ELSE ObjectSize(Len(v.val))
      MarshalItem(acc, i) ==
        LET named == IF v.type = "array" THEN acc.store ELSE MarshalString(acc.store, v.val[i].name.val)
            nameAt == IF v.type = "array" THEN Undef ELSE Place("string", acc.store.next)
            item == MarshalValue(named, Items(v)[i])
        IN [store |-> item.store, slots |-> Append(acc.slots, [name |-> nameAt, value |-> item.slot])]
      all == FoldLeft(MarshalItem, [store |-> [store EXCEPT !.next = @ + size], slots |-> <<>>],
                      [i \in 1..Len(v.val) |-> i])
      content == [slots |-> all.slots, cnt |-> IF v.type = "array" THEN 0 ELSE Len(v.val)]
  IN [all.store EXCEPT !.parts = @ \cup {[at |-> store.next, size |-> size, content |-> content]}]

MarshalValue(store, v) ==
  CASE v.type \in TextTypes ->
         [store |-> MarshalString(store, v.val), slot |-> Place(v.type, store.next)]
    [] v.type \in Containers ->
         [store |-> Written(store, v),
          slot |-> Place(IF v.type = "array" THEN "array" ELSE "object", store.next)]
    [] OTHER -> [store |-> store, slot |-> v]

\* the overflow is looked for on the way back to a container
MarshalDoc(v, offset, docSize) ==
  LET written == MarshalValue(Store0(offset), v)
      past == written.store.next - offset > docSize
  IN CASE Crashes(v) \/ Levels(v) > MaxLevels -> [outcome |-> "undefined"]
       [] past -> [outcome |-> IF v.type \in Containers THEN "exit" ELSE "overrun"]
       [] OTHER -> [outcome |-> "stored", parts |-> written.store.parts, root |-> written.slot,
                    next |-> written.store.next]

\* the document follows the header and the root
RootOffset == 100
WriteRawDoc(v) == MarshalDoc(v, RootOffset, CalcSize(v))

-----------------------------------------------------------------------------
(* Reading.                                                                *)

DbAddr(parts, slot) == CHOOSE p \in parts : p.at = slot.val[1]

RECURSIVE Retrieved(_, _)
Retrieved(parts, slot) ==
  LET content == DbAddr(parts, slot).content
  IN CASE slot.type \in TextTypes -> V(slot.type, content)
       [] slot.type = "array" ->
            ArrayOf([i \in 1..content.cnt |-> Retrieved(parts, content.slots[i].value)])
       [] slot.type = "object" ->
            ObjectOf([i \in 1..content.cnt |->
                        [name |-> Retrieved(parts, content.slots[i].name),
                         value |-> Retrieved(parts, content.slots[i].value)]])
       [] OTHER -> slot
=============================================================================
