-------------------------------- MODULE Glue --------------------------------
(***************************************************************************)
(* The interpreter's side of the database: the native functions that bind  *)
(* a handle, latch a transaction, call the database library and answer.    *)
(* The library is external; a call says what the library comes to in it.   *)
(* One handle of each type, named for it; documents are values, their ids  *)
(* are their places in slots.                                              *)
(***************************************************************************)
EXTENDS Integers, Sequences, SequencesExt, FiniteSetsExt

CONSTANT Txns

HandleTypes == {"database", "store", "index", "cursor", "iterator"}

Opened(docType, room) ==
  [docType |-> docType, room |-> room, slots |-> <<>>, at |-> 0, stuck |-> FALSE,
   closed |-> {}, binds |-> [h \in HandleTypes |-> 0],
   txns |-> [t \in Txns |-> [latched |-> FALSE, reads |-> <<>>, writes |-> <<>>]]]

LOCAL Answer(g, v) == [g |-> g, error |-> FALSE, v |-> v]
LOCAL Failed(g) == [g |-> g, error |-> TRUE, v |-> <<>>]
NoSlot == "no document"

(***************************************************************************)
(* Handles.                                                                *)
(***************************************************************************)
BindHandle(g, h) == [g EXCEPT !.binds[h] = @ + 1]
ReleaseHandle(g, h) == [g EXCEPT !.binds[h] = @ - 1]
\* js_handle answers a handle: the value is one of that type, and it is open
JsHandle(g, hndl, type) == hndl = type /\ type \notin g.closed
CloseHandle(g, c) == Answer([g EXCEPT !.closed = @ \cup {c.on}], <<>>)

\* what a function does that binds its handle, and releases it where it gets to its end
LOCAL Throughout(g, c, type, done, v) ==
  CASE ~JsHandle(g, c.on, type) -> Failed(g)
    [] JsHandle(g, c.on, type) /\ ~done -> Failed(BindHandle(g, type))
    [] OTHER -> Answer(ReleaseHandle(BindHandle(g, type), type), v)
LOCAL Kept(g, c, type, done, v) ==
  CASE ~JsHandle(g, c.on, type) -> Failed(g)
    [] JsHandle(g, c.on, type) /\ ~done -> Failed(BindHandle(g, type))
    [] OTHER -> Answer(BindHandle(g, type), v)
LOCAL Open(r, h) == [r EXCEPT !.g.closed = IF r.error THEN @ ELSE @ \ {h}]

JsCreateIndex(g, c) == Open(Kept(g, c, "store", c.named /\ c.made, <<"index">>), "index")
JsCreateCursor(g, c) == Open(Throughout(g, c, "index", c.made, <<"cursor">>), "cursor")
JsOpenDocStore(g, c) == Open(Throughout(g, c, "database", c.named /\ c.made, <<"store">>), "store")
FcnStoreCreateIterator(g, c) == IF c.made THEN Open(Answer([g EXCEPT !.at = 0], <<"iterator">>), "iterator") ELSE Failed(g)

FcnCursorMove(g, c) == Throughout(g, c, "cursor", c.made, <<>>)
FcnCursorPos(g, c) == Kept(g, c, "cursor", c.made, <<>>)
FcnCursorDocIdAt(g, c) == Throughout(g, c, "cursor", TRUE, <<>>)
FcnCursorReset(g, c) == Throughout(g, c, "cursor", TRUE, <<>>)
FcnIdxKey(g, c) == Kept(g, c, "index", c.made, <<>>)
PropIdxCount(g, c) == Throughout(g, c, "index", TRUE, <<>>)

(***************************************************************************)
(* Documents.                                                              *)
(***************************************************************************)
\* the id is taken first: without room for a raw document it stays without one
WriteDoc(g, doc) ==
  LET full == g.docType = "raw" /\ g.room = 0
  IN [g EXCEPT !.slots = Append(@, IF full THEN NoSlot ELSE doc),
               !.room = IF full THEN @ ELSE @ - 1]
LOCAL Written(g) == Len(g.slots) > 0 /\ Last(g.slots) # NoSlot

\* an array stands for its elements; what fails ends the call, which answers the ids so far
LOCAL Elements(args) == FlattenSeq([k \in DOMAIN args |-> IF args[k].type = "array" THEN args[k].elems ELSE <<args[k].x>>])
LOCAL WriteNext(r, doc) ==
  IF r.stop THEN r
  ELSE LET g == WriteDoc(r.g, doc)
       IN [g |-> g, stop |-> ~Written(g), ids |-> IF Written(g) THEN Append(r.ids, Len(g.slots)) ELSE r.ids]
FcnStoreWrite(g, c) ==
  IF ~JsHandle(g, c.on, "store") THEN Failed(g)
  ELSE LET r == FoldLeft(WriteNext, [g |-> BindHandle(g, "store"), stop |-> FALSE, ids |-> <<>>], Elements(c.args))
       IN Answer(r.g, r.ids)

Stored(g) == SelectSeq([k \in DOMAIN g.slots |-> k], LAMBDA k : g.slots[k] # NoSlot)

\* next and prev with a count answer one more than it says; with none, or zero, one
LOCAL Wanted(count) == IF count = 0 THEN 1 ELSE count + 1
LOCAL IterMove(g, c, ahead, end) ==
  IF ~JsHandle(g, c.on, "iterator") THEN Failed(g)
  ELSE LET taken == SubSeq(ahead, 1, Min({Len(ahead), Wanted(c.count)}))
           left == [g EXCEPT !.at = IF Len(ahead) < Wanted(c.count) THEN end ELSE Last(taken)]
           freed == ReleaseHandle(BindHandle(left, "iterator"), "iterator")
       IN IF taken = <<>> THEN Failed(freed) ELSE Answer(freed, taken)
FcnIterNext(g, c) == IterMove(g, c, SelectSeq(Stored(g), LAMBDA k : k > g.at), Len(g.slots) + 1)
FcnIterPrev(g, c) == IterMove(g, c, Reverse(SelectSeq(Stored(g), LAMBDA k : k < g.at)), 0)
\* seek answers a status, not the document's id
FcnIterSeek(g, c) ==
  IF ~JsHandle(g, c.on, "iterator") THEN Failed(g)
  ELSE LET to == IF c.to = "begin" THEN 0 ELSE Len(g.slots) + 1
       IN Answer(ReleaseHandle(BindHandle([g EXCEPT !.at = to], "iterator"), "iterator"), <<>>)

(***************************************************************************)
(* Transactions.                                                           *)
(***************************************************************************)
\* fetching a transaction latches it: one that is latched already is waited for, for ever
JsFetchTxn(g, t) == [g EXCEPT !.stuck = @ \/ g.txns[t].latched, !.txns[t].latched = TRUE]
ReleaseTxn(g, t) == [g EXCEPT !.txns[t].latched = FALSE]
JsBeginTxn(g, c) == Answer([g EXCEPT !.txns[c.txn] = [latched |-> FALSE, reads |-> <<>>, writes |-> <<>>]], <<c.txn>>)
\* the library commits a transaction that is latched, and latches one to roll it back
FcnCommitTxn(g, c) == Answer(ReleaseTxn(JsFetchTxn(g, c.txn), c.txn), <<>>)
FcnRollbackTxn(g, c) == Answer(ReleaseTxn(JsFetchTxn(g, c.txn), c.txn), <<>>)

\* MUTANT: a version that is not visible is answered before the transaction is released
FcnDocIdRetreiveEarly(g, c) ==
  LET fetched == FoldLeft(JsFetchTxn, g, c.txns)
      released == IF c.txns = <<>> THEN fetched ELSE ReleaseTxn(fetched, Last(c.txns))
  IN CASE g.docType = "raw" -> Answer(fetched, <<g.slots[c.id]>>)
       [] g.docType = "mvcc" /\ c.made -> Answer(released, <<g.slots[c.id]>>)
       [] OTHER -> Failed(fetched)

\* every transaction among the arguments is fetched, the last is released, and none by a raw document
FcnDocIdRetreive(g, c) ==
  LET fetched == FoldLeft(JsFetchTxn, g, c.txns)
      released == IF c.txns = <<>> THEN fetched ELSE ReleaseTxn(fetched, Last(c.txns))
  IN CASE g.docType = "raw" -> Answer(fetched, <<g.slots[c.id]>>)
       [] g.docType = "mvcc" /\ c.made -> Answer(released, <<g.slots[c.id]>>)
       [] OTHER -> Failed(released)

\* one id of a transaction's documents: r.bad are those the library refuses
LOCAL TxnHelper(r, id) ==
  CASE r.stop \/ r.g.docType = "raw" -> [r EXCEPT !.ids = IF r.stop THEN @ ELSE Append(@, id)]
    [] ~r.stop /\ r.g.docType = "mvcc" /\ id \in r.bad -> [r EXCEPT !.stop = TRUE]
    [] OTHER -> [r EXCEPT !.ids = Append(@, id), !.g.txns[r.txn].writes = Append(@, id)]
\* the arguments after an array are left alone
LOCAL UpToArray(args) ==
  LET k == SelectInSeq(args, LAMBDA a : a.type = "array") IN IF k = 0 THEN args ELSE SubSeq(args, 1, k)
FcnWrtTxn(g, c) ==
  LET start == [g |-> JsFetchTxn(g, c.txn), txn |-> c.txn, bad |-> c.bad, stop |-> FALSE, ids |-> <<>>]
      r == FoldLeft(TxnHelper, start, Elements(UpToArray(c.args)))
      g2 == ReleaseTxn(r.g, c.txn)
  IN IF r.stop THEN Failed(g2) ELSE Answer(g2, r.ids)

\* the status is that of the last document of an argument; before any it is whatever it was.
\* The transaction is not released
LOCAL ReadOne(r, id) ==
  IF id \in r.bad THEN [r EXCEPT !.status = "error"]
  ELSE [r EXCEPT !.status = "ok", !.g.txns[r.txn].reads = Append(@, id)]
LOCAL ReadArgument(r, arg) ==
  IF r.stop THEN r
  ELSE LET read == FoldLeft(ReadOne, r, Elements(<<arg>>)) IN [read EXCEPT !.stop = read.status = "error"]
FcnRdrTxn(g, c) ==
  LET start == [g |-> JsFetchTxn(g, c.txn), txn |-> c.txn, bad |-> c.bad, stop |-> FALSE, status |-> c.unset]
      r == FoldLeft(ReadArgument, start, c.args)
  IN IF r.status = "error" THEN Failed(r.g) ELSE Answer(r.g, <<>>)
=============================================================================
