------------------------------ MODULE Symbols -------------------------------
(***************************************************************************)
(* Symbols (src/js_symbols.c): before a script runs, its declarations are  *)
(* hoisted into the table of their function or block, and then every name  *)
(* in it is given the slot it is kept in and the number of functions out   *)
(* that the slot is.                                                       *)
(*                                                                         *)
(* A node of the parse tree is a record [kind, name, kids, flag]; a table  *)
(* is known by the path from the root to the node it belongs to.  A name   *)
(* counts as declared block-scoped by its flag.                            *)
(***************************************************************************)
EXTENDS Integers, Sequences, SequencesExt

Node(kind, name, kids) == [kind |-> kind, name |-> name, kids |-> kids, scoped |-> FALSE]
Ref(name) == Node("ref", name, <<>>)
Decl(name, scoped) == [Node("decl", name, <<>>) EXCEPT !.scoped = scoped]
NoName1 == 0

\* the tables of the script itself, of the block around it, and of nothing
GlobalTable == <<0>>
TopBlock == <<0, 0>>
NoTable == <<>>

Table0(depth, parent) ==
  [depth |-> depth, parent |-> parent, baseIdx |-> 0, frameIdx |-> 0, scopeCnt |-> 0, entries |-> <<>>]

\* the tables, the slots given, and whether a name was not found
Compiler0 ==
  [tables |-> (GlobalTable :> Table0(0, NoTable)) @@ (TopBlock :> Table0(0, NoTable)),
   refs |-> <<>>, failed |-> FALSE]

AddTable(st, table, depth, parent) == [st EXCEPT !.tables = (table :> Table0(depth, parent)) @@ @]

\* a second declaration takes a new slot
InsertSymbol(st, name, table, scoped) ==
  LET t == st.tables[table]
      sym == [frameIdx |-> t.frameIdx + 1, depth |-> t.depth, scoped |-> scoped, fixed |-> FALSE]
      others == SelectSeq(t.entries, LAMBDA e : e.name # name)
  IN [st EXCEPT !.tables[table].frameIdx = @ + 1,
                !.tables[table].entries = Append(others, [name |-> name, sym |-> sym])]

-----------------------------------------------------------------------------
(* Hoisting.  A node is hoisted into the table of its function and that of  *)
(* the innermost block, which functions inside the block go on with.       *)

\* the block around keeps the most variables of a block directly in it
WithScopeCnt(st, symbols, table) ==
  LET outer == IF st.tables[table].parent = NoTable THEN symbols ELSE st.tables[table].parent
      count == st.tables[table].frameIdx
  IN IF st.tables[outer].scopeCnt < count THEN [st EXCEPT !.tables[outer].scopeCnt = count] ELSE st

\* of each kind of node, the parts that are looked into
Hoisted(node) ==
  CASE node.kind \in {"list", "call", "assign", "return", "elem"} -> {1, 2, 3}
    [] node.kind = "if" -> {2, 3}
    [] node.kind = "while" -> {2}
    [] OTHER -> {}

RECURSIVE HoistSymbols(_, _, _, _, _)
HoistKids(st, node, at, symbols, block, parts) ==
  FoldLeft(LAMBDA s, i : IF i \in parts THEN HoistSymbols(s, node.kids[i], Append(at, i), symbols, block) ELSE s,
           st, [i \in 1..Len(node.kids) |-> i])

\* the parts of a block or loop that its count of variables is taken after
Scoped(st, node, at, symbols, block, before, after) ==
  LET entered == AddTable(st, at, st.tables[symbols].depth, block)
      counted == WithScopeCnt(HoistKids(entered, node, at, symbols, at, before), symbols, at)
  IN HoistKids(counted, node, at, symbols, at, after)

\* the kids of a function are its parameters and its body
HoistFunction(st, node, at, symbols, block) ==
  LET entered == AddTable(st, at, st.tables[symbols].depth + 1, symbols)
      params == HoistKids(entered, node, at, at, block, {1})
      named == IF node.kind = "fcnexpr" /\ node.name # NoName1
                 THEN InsertSymbol(params, node.name, at, FALSE) ELSE params
  IN HoistKids(named, node, at, at, block, {2})

HoistSymbols(st, node, at, symbols, block) ==
  CASE node.kind = "decl" ->
         IF node.scoped /\ block # NoTable THEN InsertSymbol(st, node.name, block, TRUE)
         ELSE InsertSymbol(st, node.name, symbols, FALSE)
    [] node.kind = "block" -> Scoped(st, node, at, symbols, block, {1}, {})
    [] node.kind = "for" -> Scoped(st, node, at, symbols, block, {1}, {4})
    [] node.kind = "forin" -> Scoped(st, node, at, symbols, block, {1}, {3})
    [] node.kind = "fcndef" ->
         HoistFunction(InsertSymbol(st, node.name, symbols, FALSE), node, at, symbols, block)
    [] node.kind = "fcnexpr" -> HoistFunction(st, node, at, symbols, block)
    [] OTHER -> HoistKids(st, node, at, symbols, block, Hoisted(node))

-----------------------------------------------------------------------------
(* Giving out slots.                                                       *)

Holds(st, table, name) == \E i \in DOMAIN st.tables[table].entries : st.tables[table].entries[i].name = name
EntryOf(st, table, name) ==
  CHOOSE i \in DOMAIN st.tables[table].entries : st.tables[table].entries[i].name = name

\* Mutant: the functions around are looked into before the blocks
RECURSIVE TableOf(_, _, _, _)
LookupOuter(st, name, symbols, block) == TableOf(st, name, symbols, symbols)

\* the table a name is found in, blocks first, all of them, and then functions
TableOf(st, name, symbols, block) ==
  IF block # NoTable
    THEN IF Holds(st, block, name) THEN block ELSE TableOf(st, name, symbols, st.tables[block].parent)
  ELSE IF symbols = NoTable THEN NoTable
  ELSE IF Holds(st, symbols, name) THEN symbols
  ELSE TableOf(st, name, st.tables[symbols].parent, NoTable)

LookupTable(st, name, symbols, block) == TableOf(st, name, symbols, block)

\* a block's variable is moved behind those around it when it is first looked up, those
\* of a block without a parent behind the variables of the function that asks
LookupSymbol(st, name, symbols, block) ==
  LET table == LookupTable(st, name, symbols, block)
      t == st.tables[table]
      sym == t.entries[EntryOf(st, table, name)].sym
      by == IF t.parent = NoTable THEN st.tables[symbols].frameIdx
            ELSE st.tables[t.parent].frameIdx + st.tables[t.parent].baseIdx
  IN IF table = NoTable THEN [table |-> NoTable, st |-> [st EXCEPT !.failed = TRUE]]
     ELSE IF sym.scoped /\ ~sym.fixed
       THEN [table |-> table,
             st |-> [st EXCEPT !.tables[table].entries[EntryOf(st, table, name)].sym =
                        [@ EXCEPT !.frameIdx = @ + by, !.fixed = TRUE]]]
     ELSE [table |-> table, st |-> st]

\* the flag that says where a slot is comes from the declaration, but not in a call
Resolved(st, node, at, symbols, block) ==
  LET found == LookupSymbol(st, node.name, symbols, block)
      sym == found.st.tables[found.table].entries[EntryOf(found.st, found.table, node.name)].sym
  IN IF found.table = NoTable THEN found.st
     ELSE [found.st EXCEPT !.refs = Append(@,
             [at |-> at, kind |-> node.kind, name |-> node.name, table |-> found.table,
              level |-> found.st.tables[symbols].depth - sym.depth, frameIdx |-> sym.frameIdx,
              scoped |-> sym.scoped /\ node.kind # "callee"])]

\* the parts that slots are given out in, in that order; a call's arguments come first
Assigned(node) ==
  CASE node.kind = "forin" -> <<1, 2, 3>>
    [] node.kind \in {"fcndef", "fcnexpr"} -> <<2>>
    [] node.kind = "call" -> <<2, 1>>
    [] OTHER -> [i \in 1..Len(node.kids) |-> i]

RECURSIVE AssignSlots(_, _, _, _, _)
AssignKids(st, node, at, symbols, block) ==
  FoldLeft(LAMBDA s, i : AssignSlots(s, node.kids[i], Append(at, i), symbols, block), st, Assigned(node))

\* a function that was not hoisted has no parent and no symbols
Known(st, at, depth) ==
  IF at \in DOMAIN st.tables THEN [st EXCEPT !.tables[at].depth = depth]
  ELSE AddTable(st, at, depth, NoTable)

AssignSlots(st, node, at, symbols, block) ==
  LET outer == IF at \in DOMAIN st.tables THEN st.tables[at].parent ELSE NoTable
      base == IF outer = NoTable THEN st.tables[symbols].frameIdx
              ELSE st.tables[outer].baseIdx + st.tables[outer].frameIdx
      entered == IF at \in DOMAIN st.tables THEN st ELSE AddTable(st, at, 0, NoTable)
  IN CASE st.failed -> st
       [] ~st.failed /\ node.kind \in {"ref", "decl", "callee"} -> Resolved(st, node, at, symbols, block)
       [] ~st.failed /\ node.kind \in {"block", "for", "forin"} ->
            AssignKids([entered EXCEPT !.tables[at].baseIdx = base], node, at, symbols, at)
       [] ~st.failed /\ node.kind \in {"fcndef", "fcnexpr"} ->
            AssignKids(Known(st, at, st.tables[symbols].depth + 1), node, at, at, block)
       [] OTHER -> AssignKids(st, node, at, symbols, block)

CompileScripts(script) ==
  LET root == <<1>>
      hoisted == HoistSymbols(Compiler0, script, root, GlobalTable, TopBlock)
  IN AssignSlots(hoisted, script, root, GlobalTable, TopBlock)
=============================================================================
