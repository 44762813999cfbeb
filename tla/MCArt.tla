------------------------------- MODULE MCArt -------------------------------
(* Inputs and property of the radix tree. *)
EXTENDS Inputs, Art

\* a record is the fields of a key and the document's id and version
LOCAL Rec(bytes, suffix) == [bytes |-> bytes, suffix |-> suffix]
LOCAL One == <<1, 1>>
LOCAL Adds ==
  {Rec(bytes, One) : bytes \in {<<>>, <<1>>, <<1, 2>>, <<1, 2, 3>>, <<1, 2, 4>>, <<2>>, <<1, 3>>}}
  \cup {Rec(bytes, <<1, 2>>) : bytes \in {<<1>>, <<1, 2, 3>>}} \cup {Rec(<<1>>, <<2, 1>>)}
LOCAL Bases ==
  [fields : {1}, recs : {<<>>, <<Rec(<<1, 2, 3>>, One)>>, <<Rec(<<1>>, One), Rec(<<1>>, <<1, 3>>), Rec(<<1>>, <<1, 2>>)>>,
                         <<Rec(<<2>>, One), Rec(<<3>>, One), Rec(<<4>>, One), Rec(<<0>>, One)>>}]
  \cup [fields : {2}, recs : {<<Rec(<<2, 1>>, One)>>}]
LOCAL Opens ==
  [start : {<<>>, <<<<1>>>>, <<<<1, 2>>>>, <<<<2>>>>}, limits : {<<>>}]
  \cup [start : {<<>>}, limits : {<<<<1, 2>>>>}]

ArtChoices == <<Bases, {r \in Adds : r.suffix = One /\ Len(r.bytes) # 2}, Adds, Opens, Adds>>

LOCAL FieldsOf(rec, n) ==
  IF n = 1 THEN <<rec.bytes>> ELSE <<SubSeq(rec.bytes, 1, Min({1, Len(rec.bytes)})), SubSeq(rec.bytes, 2, Len(rec.bytes))>>
LOCAL Grown(tree, recs, n) == FoldLeft(LAMBDA t, r : ArtIndexKey(t, FieldsOf(r, n), r.suffix), tree, recs)

\* the cursor at each key that it gives, and the keys
RECURSIVE Stops(_, _)
Stops(tree, c) ==
  LET next == ArtNextKey(tree, c) IN IF next.found THEN <<next.cursor>> \o Stops(tree, next.cursor) ELSE <<>>
LOCAL Passed(stops) == [i \in DOMAIN stops |-> stops[i].key]
LOCAL Scanned(tree, c) == Passed(Stops(tree, c))

\* the end of a field comes before any byte
LOCAL Less2(a, b) == LET m == Matched(a, b) IN IF m = Len(a) \/ m = Len(b) THEN Len(a) < Len(b) ELSE a[m + 1] < b[m + 1]
LOCAL Comes(r, q, n) ==
  LET a == Append(FieldsOf(r, n), r.suffix)
      b == Append(FieldsOf(q, n), q.suffix)
  IN \E k \in DOMAIN a : a[k] # b[k] /\ Less2(a[k], b[k]) /\ \A i \in 1..k - 1 : a[i] = b[i]
RECURSIVE Sorted(_, _)
Sorted(recs, n) ==
  LET least == CHOOSE r \in recs : \A q \in recs \ {r} : Comes(r, q, n)
  IN IF recs = {} THEN <<>> ELSE <<least>> \o Sorted(recs \ {least}, n)
LOCAL KeyOf(rec) == rec.bytes \o rec.suffix
LOCAL Keys(recs) == [i \in DOMAIN recs |-> KeyOf(recs[i])]

\* slots that can be reached from a place
RECURSIVE Reached(_, _)
Reached(tree, slot) ==
  {slot} \cup (IF slot.node = 0 THEN {}
               ELSE UNION {Reached(tree, tree.nodes[slot.node].slots[k]) : k \in DOMAIN tree.nodes[slot.node].slots})

\* After any additions a new cursor gives every key once and in order, and no slot of the tree
\* is dead.  A cursor that was there before an addition gives every key that it found, in
\* order, whatever nodes were replaced under it, and a later one only if that differs from one
\* of them in its last byte alone.  A cursor started at a key that is in the tree gives what is
\* not before it, and a limit ends it behind the limit's keys.  Backwards from any
\* key there is nothing but that key again.
ArtFinds ==
  [][(Built("art", 5) =>
        LET n == input[1].fields
            early == input[1].recs \o SubSeq(input, 2, 3)
            opened == ArtCursor(Grown(EmptyTree, early, n), n, input[4].start, input[4].limits)
            tree == Grown(opened.tree, <<input[5]>>, n)
            old == ToSet(early)
            all == old \cup {input[5]}
            fresh == ArtCursor(tree, n, <<>>, <<>>)
            stops == Stops(tree, fresh.cursor)
            Started(r) == IF input[4].start = <<>> THEN TRUE ELSE ~Less2(r.bytes, input[4].start[1])
            Within(r) == IF input[4].limits = <<>> THEN TRUE ELSE ~Less2(input[4].limits[1], r.bytes)
            Meant(r) == Started(r) /\ Within(r)
            Phantom(r) == \E q \in old : Len(KeyOf(q)) = Len(KeyOf(r)) /\ Front(KeyOf(q)) = Front(KeyOf(r))
            seen == Scanned(tree, opened.cursor)
            Plain == n = 1 /\ (input[4].start = <<>> \/ \E r \in old : r.bytes = input[4].start[1])
        IN /\ Passed(stops) = Keys(Sorted(all, n))
           /\ \A slot \in Reached(tree, tree.root) : ~slot.dead
           /\ Plain \/ (n = 2 /\ input[4].start = <<>> /\ input[4].limits = <<>>) =>
                seen \in {Keys(SelectSeq(Sorted(recs, n), Meant)) : recs \in {old, all}}
                /\ (seen = Keys(SelectSeq(Sorted(old, n), Meant)) \/ Phantom(input[5]))
           /\ \A stop \in ToSet(stops) :
                LET again == ArtPrevKey(tree, stop)
                IN again.found /\ again.cursor.key = stop.key /\ ~ArtPrevKey(tree, again.cursor).found)]_vars
=============================================================================
