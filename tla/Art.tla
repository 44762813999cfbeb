-------------------------------- MODULE Art --------------------------------
(***************************************************************************)
(* The adaptive radix tree: adding keys (src/oldjsdb/jsdb_dbartinsert.c,   *)
(* jsdb_dbartindex.c), seeking (jsdb_dbartfind.c) and cursors              *)
(* (jsdb_dbartcursor.c), operations one at a time, a cursor's next key     *)
(* after any additions.                                                    *)
(*                                                                         *)
(* A tree is its root slot and its nodes, by number.  A slot is the type   *)
(* and the number of the node it leads to, and whether it is dead.  A node *)
(* has slots, and bytes: those it spans, or those that its slots stand for,*)
(* in the order the slots were taken.  A place is a slot of a node, the    *)
(* root that of node 0.  A span is as long as its bytes: the types that    *)
(* the code gives to spans of 249 bytes and more are left out.             *)
(***************************************************************************)
EXTENDS Integers, Sequences, SequencesExt, FiniteSetsExt, Functions

CONSTANT RadixSizes    \* the slots of the four kinds of radix node: {4, 14, 64, 256}

NoNode == [type |-> "UnusedSlot", node |-> 0, dead |-> FALSE]
SlotTo(type, node) == [type |-> type, node |-> node, dead |-> FALSE]
RootPlace == <<0, 1>>
Spans == {"SpanNode"}
Ends == {"FldEnd", "Suffix"}
Radices == <<"Array4", "Array14", "Array64", "Array256">>
IsRadix(slot) == slot.type \in ToSet(Radices)
LevelOf(slot) == CHOOSE k \in DOMAIN Radices : Radices[k] = slot.type
SizeOf(slot) == CHOOSE n \in RadixSizes : Cardinality({m \in RadixSizes : m <= n}) = LevelOf(slot)

EmptyTree == [root |-> NoNode, nodes |-> <<>>, clock |-> 0, waiting |-> <<>>]

SlotAt(tree, place) == IF place = RootPlace THEN tree.root ELSE tree.nodes[place[1]].slots[place[2]]
NodeAt(tree, place) == tree.nodes[SlotAt(tree, place).node]
PutSlot(tree, place, slot) ==
  IF place = RootPlace THEN [tree EXCEPT !.root = slot] ELSE [tree EXCEPT !.nodes[place[1]].slots[place[2]] = slot]
AddNode(tree, bytes, slots, timestamp) ==
  [tree EXCEPT !.nodes = Append(@, [bytes |-> bytes, slots |-> slots, timestamp |-> timestamp])]
NewestSlot(tree, type) == SlotTo(type, Len(tree.nodes))
KillSlots(tree, node) ==
  LET Dead(slots, slot) == Append(slots, [slot EXCEPT !.dead = TRUE])
  IN [tree EXCEPT !.nodes[node].slots = FoldLeft(Dead, <<>>, @)]

\* readers have the even times and writers the odd ones
AllocateTimestamp(tree, parity) ==
  LET ts == Max({tree.clock, 1}) IN [tree EXCEPT !.clock = IF ts % 2 = parity THEN ts ELSE ts + 1]
Reader == 0
Writer == 1

\* the slot that was replaced, or was looked at to find no room, waits to be reused
AddSlotToWaitList(tree, slot) == IF slot.type = "UnusedSlot" THEN tree ELSE [tree EXCEPT !.waiting = Append(@, slot)]

-----------------------------------------------------------------------------
(* Adding.  The result of an addition is the tree and the place at the end *)
(* of the key.                                                             *)

FillKey(tree, place, bytes) ==
  LET later == AllocateTimestamp(tree, Writer)
      added == AddNode(later, bytes, <<NoNode>>, later.clock)
  IN IF bytes = <<>> THEN [tree |-> PutSlot(tree, place, NoNode), at |-> place]
     ELSE [tree |-> PutSlot(added, place, NewestSlot(added, "SpanNode")), at |-> <<Len(added.nodes), 1>>]

InsertKeyNode(tree, place, bytes) ==
  LET slot == SlotAt(tree, place)
      node == NodeAt(tree, place)
      room == [tree EXCEPT !.nodes[slot.node] =
                 [@ EXCEPT !.bytes = Append(@, bytes[1]), !.slots = Append(@, NoNode)]]
      larger == AddNode(tree, Append(node.bytes, bytes[1]), Append(node.slots, NoNode), node.timestamp)
      promoted == PutSlot(KillSlots(larger, slot.node), place, NewestSlot(larger, Radices[LevelOf(slot) + 1]))
  IN IF Len(node.bytes) < SizeOf(slot)
       THEN FillKey(room, <<slot.node, Len(node.bytes) + 1>>, Tail(bytes))
     ELSE FillKey(promoted, <<Len(larger.nodes), Len(node.bytes) + 1>>, Tail(bytes))

\* how many of the span's bytes the key has
Matched(span, bytes) ==
  Max({n \in 0..Len(span) : n <= Len(bytes) /\ SubSeq(span, 1, n) = SubSeq(bytes, 1, n)})

\* the span is cut behind the bytes that match: a span of those, if there are any, a radix node
\* for the next byte of each, if the key goes on, and a span of the rest, if there is any
InsertKeySpan(tree, place, bytes) ==
  LET slot == SlotAt(tree, place)
      node == NodeAt(tree, place)
      idx == Matched(node.bytes, bytes)
      longer == idx < Len(bytes)
      rest == SubSeq(node.bytes, idx + (IF longer THEN 2 ELSE 1), Len(node.bytes))
      over == IF rest = <<>> THEN tree ELSE AddNode(tree, rest, node.slots, node.timestamp)
      overSlot == IF rest = <<>> THEN node.slots[1] ELSE NewestSlot(over, "SpanNode")
      radix == IF longer THEN AddNode(over, <<node.bytes[idx + 1], bytes[idx + 1]>>, <<overSlot, NoNode>>, node.timestamp)
               ELSE over
      radixSlot == IF longer THEN NewestSlot(radix, "Array4") ELSE overSlot
      first == IF idx = 0 THEN radix ELSE AddNode(radix, SubSeq(node.bytes, 1, idx), <<radixSlot>>, node.timestamp)
      firstSlot == IF idx = 0 THEN radixSlot ELSE NewestSlot(first, "SpanNode")
      cut == PutSlot(KillSlots(first, slot.node), place, firstSlot)
  IN IF longer THEN FillKey(cut, <<radixSlot.node, 2>>, SubSeq(bytes, idx + 2, Len(bytes)))
     ELSE [tree |-> cut, at |-> <<firstSlot.node, 1>>]

Waited(result, slot) == [result EXCEPT !.tree = AddSlotToWaitList(@, slot)]

RECURSIVE ArtAppendKeyFld(_, _, _)
ArtAppendKeyFld(tree, place, bytes) ==
  LET slot == SlotAt(tree, place)
      node == NodeAt(tree, place)
      Known == IsRadix(slot) /\ bytes[1] \in ToSet(node.bytes)
      Spanned == slot.type \in Spans /\ Matched(node.bytes, bytes) = Len(node.bytes)
  IN CASE bytes = <<>> -> [tree |-> tree, at |-> place]
       [] bytes # <<>> /\ slot.type \in Ends -> ArtAppendKeyFld(tree, <<slot.node, 2>>, bytes)
       [] bytes # <<>> /\ slot.type = "KeyEnd" -> Waited([tree |-> tree, at |-> place], slot)
       [] bytes # <<>> /\ slot.type = "UnusedSlot" -> FillKey(tree, place, bytes)
       [] bytes # <<>> /\ Known ->
            ArtAppendKeyFld(tree, <<slot.node, CHOOSE k \in DOMAIN node.bytes : node.bytes[k] = bytes[1]>>, Tail(bytes))
       [] bytes # <<>> /\ Spanned ->
            ArtAppendKeyFld(tree, <<slot.node, 1>>, SubSeq(bytes, Len(node.bytes) + 1, Len(bytes)))
       [] bytes # <<>> /\ IsRadix(slot) /\ ~Known -> Waited(InsertKeyNode(tree, place, bytes), slot)
       [] OTHER -> Waited(InsertKeySpan(tree, place, bytes), slot)

\* as EndField, had it not passed on to what was there
EndFieldOnly(result) ==
  LET slot == SlotAt(result.tree, result.at)
      spliced == AddNode(result.tree, <<>>, <<NoNode, NoNode>>, 0)
  IN IF slot.type = "FldEnd" THEN [result EXCEPT !.at = <<slot.node, 1>>]
     ELSE [tree |-> PutSlot(spliced, result.at, NewestSlot(spliced, "FldEnd")), at |-> <<Len(spliced.nodes), 1>>]

\* the place after the end of the field, which is put in if it is not there; what the field goes
\* on with in longer ones is passed on to
EndField(result) ==
  LET slot == SlotAt(result.tree, result.at)
      spliced == AddNode(result.tree, <<>>, <<NoNode, slot>>, 0)
  IN IF slot.type = "FldEnd" THEN [result EXCEPT !.at = <<slot.node, 1>>]
     ELSE [tree |-> PutSlot(spliced, result.at, NewestSlot(spliced, "FldEnd")), at |-> <<Len(spliced.nodes), 1>>]

BeginSuffix(result) ==
  LET slot == SlotAt(result.tree, result.at)
      spliced == AddNode(result.tree, <<>>, <<slot, NoNode>>, 0)
  IN IF slot.type = "Suffix" THEN [result EXCEPT !.at = <<slot.node, 1>>]
     ELSE [tree |-> PutSlot(spliced, result.at, NewestSlot(spliced, "Suffix")), at |-> <<Len(spliced.nodes), 1>>]

\* the fields of the key and the document's id, as bytes
ArtIndexKey(tree, fields, docId) ==
  LET Field(result, bytes) == EndField(ArtAppendKeyFld(result.tree, result.at, bytes))
      suffix == BeginSuffix(FoldLeft(Field, [tree |-> tree, at |-> RootPlace], fields))
      tail == ArtAppendKeyFld(suffix.tree, suffix.at, docId)
  IN PutSlot(tail.tree, tail.at, [SlotAt(tail.tree, tail.at) EXCEPT !.type = "KeyEnd"])

-----------------------------------------------------------------------------
(* Cursors.  An entry of the stack is a copy of a slot, the size that the  *)
(* key had there, and how far the node has been walked: the last byte, -1  *)
(* before all and 256 behind all of them.                                  *)

Before == -1
Behind == 256
StackEntry(slot, off, ch) == [slot |-> slot, off |-> off, ch |-> ch]
SetCh(c, ch) == [c EXCEPT !.stack[Len(c.stack)].ch = ch]
PushSlot(c, slot, ch) == [c EXCEPT !.stack = Append(@, StackEntry(slot, Len(c.key), ch))]
PopSlot(c) == [c EXCEPT !.stack = Front(@)]

\* the least byte of the node after ch, and the greatest before it
NextByte(node, ch) == Min({b \in ToSet(node.bytes) : b > ch} \cup {Behind})
PrevByte(node, ch) == Max({b \in ToSet(node.bytes) : b < ch} \cup {Before})
SlotOf(node, byte) == node.slots[CHOOSE k \in DOMAIN node.bytes : node.bytes[k] = byte]

Compare(a, b) ==
  LET same == Matched(a, b)
  IN IF same = Len(a) \/ same = Len(b) THEN 0 ELSE IF a[same + 1] < b[same + 1] THEN -1 ELSE 1

\* what is left to find of the bytes is behind offset; a node that has not the next byte is
\* left as if its first had been walked
RECURSIVE ArtFindNxtFld(_, _, _, _)
ArtFindNxtFld(tree, c, place, bytes) ==
  LET slot == SlotAt(tree, place)
      node == NodeAt(tree, place)
      here == PushSlot(c, slot, Before)
      diff == Compare(bytes, node.bytes)
      short == Len(node.bytes) > Len(bytes)
      Known == bytes[1] \in ToSet(node.bytes)
  IN CASE bytes = <<>> -> [cursor |-> c, at |-> place]
       [] bytes # <<>> /\ slot.type = "UnusedSlot" ->
            [cursor |-> IF c.stack = <<>> THEN [c EXCEPT !.atRightEOF = TRUE] ELSE c, at |-> place]
       [] bytes # <<>> /\ slot.type = "KeyEnd" -> [cursor |-> here, at |-> place]
       [] bytes # <<>> /\ slot.type \in Ends -> ArtFindNxtFld(tree, SetCh(here, Behind), <<slot.node, 2>>, bytes)
       [] bytes # <<>> /\ slot.type \in Spans ->
            IF short \/ diff # 0
              THEN [cursor |-> SetCh(here, IF diff < 0 \/ (short /\ diff = 0) THEN Before ELSE Behind), at |-> place]
            ELSE ArtFindNxtFld(tree, [SetCh(here, 0) EXCEPT !.key = @ \o node.bytes], <<slot.node, 1>>,
                               SubSeq(bytes, Len(node.bytes) + 1, Len(bytes)))
       [] OTHER ->
            IF Known
              THEN ArtFindNxtFld(tree, [SetCh(here, bytes[1]) EXCEPT !.key = Append(@, bytes[1])],
                                 <<slot.node, CHOOSE k \in DOMAIN node.bytes : node.bytes[k] = bytes[1]>>, Tail(bytes))
            ELSE [cursor |-> SetCh(here, NextByte(node, Before)), at |-> place]

NewCursor(tree) ==
  [stack |-> <<>>, key |-> <<>>, suffix |-> 0, fields |-> <<>>, limits |-> <<>>,
   atLeftEOF |-> FALSE, atRightEOF |-> FALSE, timestamp |-> tree.clock]

\* every field of the key that is found to its end is sought with the first start value
RECURSIVE SeekFields(_, _, _, _)
SeekFields(tree, found, start, count) ==
  LET next == ArtFindNxtFld(tree, found.cursor, found.at, start[1])
  IN IF count = 0 \/ start = <<>> THEN found
     ELSE IF SlotAt(tree, next.at).type # "FldEnd" THEN next ELSE SeekFields(tree, next, start, count - 1)

ArtCursor(tree, keyCount, start, limits) ==
  LET later == AllocateTimestamp(tree, Reader)
      found == SeekFields(later, [cursor |-> NewCursor(later), at |-> RootPlace], start, keyCount)
  IN [tree |-> later, cursor |-> [PushSlot(found.cursor, SlotAt(tree, found.at), Before) EXCEPT !.limits = limits]]

\* the first field that is not the limit's decides
ArtLimitChk(c) ==
  LET Fld(k) == SubSeq(c.key, c.fields[k].off + 1, c.fields[k].off + c.fields[k].len)
      differ == {k \in DOMAIN c.fields \cap DOMAIN c.limits : Fld(k) # c.limits[k]}
      k == Min(differ)
      diff == Compare(Fld(k), c.limits[k])
  IN differ # {} /\ (diff > 0 \/ (diff = 0 /\ Len(c.limits[k]) < Len(Fld(k))))

\* where the field starts, for the first; a later one is given what is not its own
WithField(c) ==
  LET prev == IF c.fields = <<>> THEN 0 ELSE Len(c.key) - Last(c.fields).off
  IN [c EXCEPT !.fields = Append(@, [off |-> prev, len |-> Len(c.key) - prev])]

RECURSIVE ArtNextKey(_, _)
ArtNextKey(tree, cursor) ==
  LET top == Last(cursor.stack)
      c == [cursor EXCEPT !.key = SubSeq(@, 1, top.off)]
      node == tree.nodes[top.slot.node]
      field == IF top.slot.type = "FldEnd" THEN WithField(c) ELSE [c EXCEPT !.suffix = Len(c.key)]
      byte == NextByte(node, top.ch)
      Newer == node.timestamp > c.timestamp
      popped == PopSlot(c)
  IN CASE cursor.atRightEOF -> [cursor |-> cursor, found |-> FALSE]
       [] ~cursor.atRightEOF /\ top.slot.type \in Ends /\ top.ch = Before ->
            IF top.slot.type = "FldEnd" /\ ArtLimitChk(field) THEN [cursor |-> field, found |-> FALSE]
            ELSE ArtNextKey(tree, PushSlot(SetCh(field, 0), node.slots[1], Before))
       [] ~cursor.atRightEOF /\ top.slot.type \in Ends /\ top.ch = 0 ->
            LET passed == [PushSlot(SetCh(c, 1), node.slots[2], Before) EXCEPT
                             !.fields = IF top.slot.type = "FldEnd" THEN Front(@) ELSE @]
            IN ArtNextKey(tree, passed)
       [] ~cursor.atRightEOF /\ top.slot.type = "KeyEnd" /\ top.ch = Before -> [cursor |-> SetCh(c, 0), found |-> TRUE]
       [] ~cursor.atRightEOF /\ top.slot.type \in Spans /\ top.ch = Before /\ ~Newer ->
            ArtNextKey(tree, PushSlot([SetCh(c, 0) EXCEPT !.key = @ \o node.bytes], node.slots[1], Before))
       [] ~cursor.atRightEOF /\ IsRadix(top.slot) /\ ~Newer /\ byte # Behind ->
            ArtNextKey(tree, PushSlot([SetCh(c, byte) EXCEPT !.key = Append(@, byte)], SlotOf(node, byte), Before))
       [] OTHER -> IF popped.stack = <<>> THEN [cursor |-> [popped EXCEPT !.atRightEOF = TRUE], found |-> FALSE]
                   ELSE ArtNextKey(tree, popped)

RECURSIVE StepBack(_, _)
StepBack(tree, cursor) ==
  LET top == Last(cursor.stack)
      c == [cursor EXCEPT !.key = SubSeq(@, 1, top.off)]
      node == tree.nodes[top.slot.node]
      byte == PrevByte(node, top.ch)
      Newer == node.timestamp > c.timestamp
      Into(below, slot) == StepBack(tree, PushSlot(below, slot, Behind))
  IN CASE cursor.stack = <<>> -> [cursor |-> [cursor EXCEPT !.atLeftEOF = TRUE], found |-> FALSE]
       [] cursor.stack # <<>> /\ top.slot.type \in Ends /\ top.ch = Behind -> Into(SetCh(c, 0), node.slots[2])
       [] cursor.stack # <<>> /\ top.slot.type \in Ends /\ top.ch = 0 ->
            Into(SetCh(IF top.slot.type = "Suffix" THEN [c EXCEPT !.suffix = Len(c.key)] ELSE c, Before), node.slots[1])
       [] cursor.stack # <<>> /\ top.slot.type = "KeyEnd" /\ top.ch = 0 -> [cursor |-> SetCh(c, Before), found |-> TRUE]
       [] cursor.stack # <<>> /\ top.slot.type \in Spans /\ top.ch = Behind /\ ~Newer ->
            Into([SetCh(c, 0) EXCEPT !.key = @ \o node.bytes], node.slots[1])
       [] cursor.stack # <<>> /\ IsRadix(top.slot) /\ ~Newer /\ byte # Before ->
            Into([SetCh(c, byte) EXCEPT !.key = Append(@, byte)], SlotOf(node, byte))
       [] OTHER -> StepBack(tree, PopSlot(c))

\* from the right end the stack is given the root and taken for empty
ArtPrevKey(tree, cursor) ==
  IF cursor.atLeftEOF THEN [cursor |-> cursor, found |-> FALSE]
  ELSE StepBack(tree, IF cursor.atRightEOF THEN [cursor EXCEPT !.atRightEOF = FALSE, !.stack = <<>>] ELSE cursor)
=============================================================================
