------------------------------- MODULE MCGlue -------------------------------
(* Calls and property of the database glue. *)
EXTENDS Inputs, Glue

LOCAL One(x) == [type |-> "one", x |-> x]
LOCAL Many(elems) == [type |-> "array", elems |-> elems]

LOCAL Writes == [op : {"write"}, on : {"store"},
                 args : {<<One("A")>>, <<Many(<<"A", "B">>), One("C")>>, <<Many(<<>>), One("C"), Many(<<"A", "B">>)>>}]
LOCAL OnHandles ==
  [op : {"createIndex"}, on : {"store", "index"}, named : BOOLEAN, made : {TRUE}]
  \cup [op : {"openDocStore"}, on : {"database"}, named : {TRUE}, made : BOOLEAN]
  \cup [op : {"createCursor"}, on : {"index", "store"}, made : BOOLEAN]
  \cup [op : {"move", "pos"}, on : {"cursor"}, made : BOOLEAN]
  \cup [op : {"docIdAt", "reset"}, on : {"cursor"}] \cup [op : {"count"}, on : {"index"}]
  \cup [op : {"key"}, on : {"index"}, made : {TRUE}]
  \cup [op : {"createIterator"}, made : BOOLEAN]
  \cup [op : {"close"}, on : {"store", "index"}]
  \cup [op : {"next", "prev"}, on : {"iterator"}, count : {0, 1}]
LOCAL OnTxns ==
  [op : {"retrieve"}, id : {1}, txns : {<<>>, <<"t">>, <<"t", "u">>, <<"t", "t">>}, made : BOOLEAN]
  \cup [op : {"commit", "rollback", "begin"}, txn : {"t"}]
  \cup [op : {"writeTxn"}, txn : {"t"}, bad : {{}, {1}, {2}}, args : {<<One(1), One(2)>>, <<One(3), Many(<<1, 2>>), One(1)>>}]
  \cup [op : {"readTxn"}, txn : {"t"}, bad : {{}, {1}, {2}}, args : {<<Many(<<1, 2>>), One(3)>>, <<>>}, unset : {"ok", "error"}]
LOCAL Calls == Writes \cup OnHandles \cup OnTxns

GlueChoices == <<{<<"raw", 2>>, <<"raw", 9>>, <<"mvcc", 9>>}, Writes, Calls, Calls>>

LOCAL Run(g, c) ==
  CASE c.op = "write" -> FcnStoreWrite(g, c) [] c.op = "createIndex" -> JsCreateIndex(g, c)
    [] c.op = "createCursor" -> JsCreateCursor(g, c) [] c.op = "openDocStore" -> JsOpenDocStore(g, c)
    [] c.op = "createIterator" -> FcnStoreCreateIterator(g, c) [] c.op = "close" -> CloseHandle(g, c)
    [] c.op = "move" -> FcnCursorMove(g, c) [] c.op = "pos" -> FcnCursorPos(g, c)
    [] c.op = "docIdAt" -> FcnCursorDocIdAt(g, c) [] c.op = "reset" -> FcnCursorReset(g, c)
    [] c.op = "key" -> FcnIdxKey(g, c) [] c.op = "count" -> PropIdxCount(g, c)
    [] c.op = "next" -> FcnIterNext(g, c) [] c.op = "prev" -> FcnIterPrev(g, c) [] c.op = "seek" -> FcnIterSeek(g, c)
    [] c.op = "retrieve" -> FcnDocIdRetreive(g, c) [] c.op = "begin" -> JsBeginTxn(g, c)
    [] c.op = "commit" -> FcnCommitTxn(g, c) [] c.op = "rollback" -> FcnRollbackTxn(g, c)
    [] c.op = "writeTxn" -> FcnWrtTxn(g, c) [] c.op = "readTxn" -> FcnRdrTxn(g, c)

\* the documents of a list of arguments, written out
LOCAL Documents(args) ==
  IF \E k \in DOMAIN args : args[k] = Many(<<>>) THEN <<"C", "A", "B">>
  ELSE IF Len(args) = 1 THEN <<"A">> ELSE <<"A", "B", "C">>
LOCAL TxnIds(c) == IF Len(c.args) = 2 THEN <<1, 2>> ELSE <<3, 1, 2>>

\* calls that leave their handle bound, and those that leave a transaction latched
LOCAL LeavesBound(c, error) ==
  error \/ c.op \in {"createIndex", "write", "pos", "key"}
LOCAL LeavesLatched(c, docType) ==
  c.op = "readTxn" \/ (c.op = "retrieve" /\ (docType = "raw" \/ Len(c.txns) > 1))
LOCAL Handles(c) == IF c.op = "openDocStore" THEN {"database"} ELSE IF "on" \in DOMAIN c THEN {c.on} ELSE {}

LOCAL StepKeeps(before, c, r) ==
  LET after == r.g
  IN /\ \A h \in HandleTypes :
          /\ after.binds[h] - before.binds[h] \in 0..1
          /\ after.binds[h] # before.binds[h] => h \in Handles(c) \ before.closed /\ LeavesBound(c, r.error)
     /\ \A t \in Txns : after.txns[t].latched => before.txns[t].latched \/ LeavesLatched(c, before.docType)
     /\ after.stuck => (\E t \in Txns : before.txns[t].latched) \/ (c.op = "retrieve" /\ ~IsInjective(c.txns))
     /\ \A k \in DOMAIN before.slots : after.slots[k] = before.slots[k]
     /\ c.op = "write" /\ ~r.error =>
          LET docs == Documents(c.args)
              stored == [k \in DOMAIN r.v |-> after.slots[r.v[k]]]
          IN /\ IsPrefix(stored, docs)
             /\ r.v = SelectSeq([k \in DOMAIN after.slots |-> k], LAMBDA k : k > Len(before.slots) /\ after.slots[k] # NoSlot)
             /\ Len(stored) < Len(docs) => before.docType = "raw" /\ before.room < Len(docs)
     /\ c.op = "writeTxn" /\ before.docType = "mvcc" =>
          LET old == before.txns["t"].writes  new == after.txns["t"].writes
          IN /\ r.error <=> c.bad \cap ToSet(TxnIds(c)) # {}
             /\ IF r.error THEN \E k \in DOMAIN TxnIds(c) : new = old \o SubSeq(TxnIds(c), 1, k - 1) /\ TxnIds(c)[k] \in c.bad
                ELSE <<new, r.v>> = <<old \o TxnIds(c), TxnIds(c)>>

\* what an iterator that is sent to one end answers on the way to the other
LOCAL Walk(g, op, to) ==
  LET open == [g EXCEPT !.closed = @ \ {"iterator"}]
  IN Run(Run(open, [op |-> "seek", on |-> "iterator", to |-> to]).g,
         [op |-> op, on |-> "iterator", count |-> Len(g.slots) + 1]).v

\* Whatever sequence of calls is made: a handle is bound as often after a call as before,
\* but for an error met with the handle bound and four functions that never release it; a
\* transaction is latched after a call only if it was before, but for readTxn and for
\* retrieving a raw document or with two transactions, and a call waits for ever only for
\* one left so.  The ids writeDocs answers are those of the documents given, in their order,
\* up to the first without room, and no other document changes.  A transaction's write set
\* grows by the documents answered, or up to the one refused.  An iterator meets every
\* stored document once, in both directions.
GlueKeeps ==
  [][(Built("glue", 4) =>
        LET g0 == Opened(input[1][1], input[1][2])
            r1 == Run(g0, input[2])  r2 == Run(r1.g, input[3])  r3 == Run(r2.g, input[4])
        IN /\ StepKeeps(g0, input[2], r1)
           /\ StepKeeps(r1.g, input[3], r2)
           /\ ~r2.g.stuck =>
                /\ StepKeeps(r2.g, input[4], r3)
                /\ Walk(r3.g, "next", "begin") = Stored(r3.g) /\ Walk(r3.g, "prev", "end") = Reverse(Stored(r3.g)))]_vars
=============================================================================
