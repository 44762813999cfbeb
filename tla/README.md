# javascript-database: verification project

TLA+ modules for the database engine and the script interpreter of this
repository, the TLC configurations that check them on small instances, and
machine-checked proofs.  `PROJECT.json` holds the same facts for tools: the
components, the runs, the mutants that show each property can fail, the source
lines of every definition, the findings, the hazards, the theorems.

Contents: 1 the system, 2 the modules, 3 the runs, 4 fairness and deadlock,
5 what is proved, 6 what the code does otherwise than it says, 7 what is not
modelled, 8 the plan.

## 1. The system

The repository is a JavaScript interpreter with a database bound to it.

* **The interpreter** (`js*.c`, `js.y`, `js.l`) parses scripts into a node
  table, numbers their symbols, and evaluates the table recursively: `dispatch`
  calls the `eval_...` function of a node, which returns a tagged `value_t`.
* **The database glue** (`js_db*.c`) binds
  documents, indexes, cursors and transactions to a library in `database/`, a
  submodule whose sources are not in this tree.
* **The earlier engine** (`oldjsdb/`, about 6600 lines) is an in-tree version
  of that library: arenas of mapped memory, latches, free lists, a B-link tree, a
  radix tree, transactions and versions.  The present build line does not compile
  it and parts of it are half refactored.  It is nevertheless the only readable
  source of the concurrent algorithms the program stands on, and they are what is
  hardest to test, so most of the concurrent models here are of it.

### Inventory

Status: M modelled, P partly, - not.  Sources are under `src/`.

| Component | St. | State it keeps | Operations | What makes it correct |
|---|---|---|---|---|
| Reader/writer lock `oldjsdb/jsdb_rwlock.c` | M | two futex words, reader count, `type` byte | `writeLock`, `readLock`, `rwUnlock`, `bt_mutexlock`, `bt_releasemutex` | exclusion, no lost wake-up, exact counters, a waiting writer is not overtaken |
| B-link tree, insertion `oldjsdb/jsdb_dbbtreeutil.c`, `...index.c`, `...insert.c` | P | pages, sibling links, fences, page and parent locks | `btreeInsertKey` and all it calls | an ordered set at every instant, links and fences agree, every insertion returns |
| Object allocator `oldjsdb/jsdb_dbframe.c`, `jsdb_dbarena.c` | P | latched lists of frames, a chain of empty frames | `allocObj`, `addSlotToFrame`, `getNodeFromFrame`, `allocFrame`, `returnFreeFrame` | an object has one owner, a frame is in one chain |
| Transaction steps `oldjsdb/jsdb_dbtxn.c` | M | a chain of frames of steps per transaction | `txnBegin`, `txnStep`, `txnCommit`, `txnRollback` | steps and frames come back once; the end ends |
| Page-latch table `oldjsdb/jsdb_dbbtreelatch.c` | P | hash buckets of pinned entries, a mutex bit in the bucket's word | `btreePinLatch`, `btreeUnpinLatch` | one entry per pinned page, exact pin counts, exclusive write locks |
| Radix tree `oldjsdb/jsdb_dbart*.c` | P | nodes of four sizes, spans, suffixes | insert, seek, next, previous | every key once and in order, also for a cursor opened before an insertion |
| Object properties `js_object.c`, `js_vector.c`, parts of `js_eval.c`, `js_values.c`, `js_dbdoc.c`, `js_marshal.c` | P | vector of pairs and the hash table behind it | literal, read, assignment, growth, marshal, clone | a dictionary, whichever table it is in |
| Property lookup, builtins `js_object.c`, `js_props.c`, `js_fcns.c`, `systemBase.js` | P | prototypes, tables of builtins, base values | `lookupAttribute`, `evalBuiltin`, `new`, `setValue`, `valueOf` | the first holder in the chain, on reads and on writes |
| Arrays `js_vector.c`, `js_object.c`, `js_eval.c`, `systemObj.js` | M | a vector, an object of named properties | literal, index, store, `length`, `slice`, `concat`, `push`, `sort`, constructor | a sequence |
| Values and counts `js_values.c`, `js_malloc.c` | P | counts, the list of literals of an environment | store, abandon, delete | the count is the number of slots; nothing stored is freed |
| Functions and closures `js_fcns.c` | P | frames, environments, closures | call, return, function expression | a frame lasts as long as it can be referred to |
| Evaluation `js_eval.c`, `js.y` | P | the stack of evaluations | one function for each kind of node | the statements the language means run, in order; every value is stored, returned or abandoned once |
| Symbols `js_symbols.c` | M | symbol tables, slot numbers, block depth | `compileScripts`, `hoistSymbols`, `assignSlots` | a use is given the variable the language means, in a slot of its own |
| Numbers `js_math.c`, `js_strtod.c`, `js_values.c` | P | none | conversion, comparison, arithmetic | what arithmetic says, at the width of the integers |
| Dates `js_date.c` | M | none | constructor, accessors, the reader of dates in words | a text names one second; fields come back |
| Strings `js_string.c` | M | none | the methods of strings | they agree with one another, at every bound |
| JSON `js_jsonparse.c`, `js_object.c`, `js_props.c` | M | parser state and stack | `jsonParse`, `toString` | what is written is read back |
| BSON `js_bson.c` | M | chunks of a reply, stack of documents | `bson_read`, `bson_response` | lengths say what is there; what is sent is read |
| Marshaling `js_marshal.c`, `js_dbver.c` | P | explicit stack of levels | `calcSize`, `marshalDoc`, `writeRawDoc` | both walks visit the same bytes |
| Index keys `js_dbindex.c` | P | compiled key specification | `compileKey`, `keyFld`, `idxBldKeyHelper`, `installKey` | byte order is value order, every document has its keys |
| Database glue `js_db.c`, `js_dbtxn.c`, `js_dbcursor.c`, `js_dbiterator.c`, `js_dbver.c` | P | handle binds, transaction latches, iterator positions | open, move, begin, read, write, commit | what is bound or latched is given back on every path |
| Documents `js_dbdoc.c` | P | document slots, versions | write, retrieve, update | ids and documents correspond |
| B-tree cursors `oldjsdb/jsdb_dbbtreecursor.c` | - | page copy, slot | next, previous, start | every key once, in order |
| Wait queue, timestamps `oldjsdb/jsdb_dbframe.c`, `jsdb_dbpq.c` | - | frames of deleted nodes, queue of readers | `getNodeWait`, `addNodeToWait` | no reuse under a reader |
| Arena `oldjsdb/jsdb_dbarena.c` | - | mapped segments, next free offset | `allocMap`, `newSeg`, `openMap` | disjoint allocations |
| Latches, helpers `oldjsdb/jsdb_util.c` | - | bits in words | `lockLatch`, `get64`, `compareKeys` | round trips, order |
| Red/black tree `oldjsdb/jsdb_redblack.c` | - | colours, path | insert, find | balance |
| Old documents and versions `oldjsdb/jsdb_dbdocs.c`, `...col*.c`, `...update.c`, `...cursor.c` | - | version chains | find version | visibility |
| Second rwlock `oldjsdb/jsdb_rwlock2.c` | - | phase-fair tickets | unused | - |
| Builtin tables, files `js_builtins.c`, `js_lib.c`, `js_file.c`, `js_error.c` | - | tables | dispatch, I/O | - |
| Parser `js.y`, `js.l`, `js_parse.c` | - | node table | parse | - |
| Program, servers `js_main.c`, `js_tcp.c`, `apache/` | - | connections | start, serve | threads do not share an environment |
| Mongo layer `mongo/` | - | an older front end | query | - |
| Scripts, benchmarks, vendored `jsscripts/`, `sunspider/`, `data/` | - | none | - | - |

### How the parts interact

* Tree operations **call** the latch table to pin a page, then take the page's
  reader/writer locks; both take memory from the allocator, which latches its
  lists with bits in the words that hold their addresses.  All of this is **shared
  state** between threads; there are no messages.
* A transaction keeps its steps with the allocator's frames.
* The interpreter calls itself: every evaluation step may **re-enter** the whole
  interpreter (an argument, a right side, a property function), with pointers
  into vectors, the literals list and frames held across that call.  This is the
  sequential part's equivalent of interleaving.
* Documents pass between the two halves as marshaled copies, whose property
  table is probed by the same code as a script object's.

### Behaviours that are hard

Interleavings at the granularity of one atomic access (lock, latch table);
operations that release a page and use what they read (tree); a half finished
split visible to others; wake-ups; a latch bit in the word that is stored;
memory running out between two steps of one operation (allocator); pointers held
over re-entry (properties, closures); values freed at the end of a statement
while others still refer to them; early returns of the glue that skip the release
at the end; two walks over one document, or a writer and a reader of one format,
that must agree on every byte; a cursor over a tree whose nodes are replaced under
it.  `PROJECT.json` lists 40 hazards, each at its
line, with the property that would show it going wrong, or why none does yet.

## 2. The modules

Each model keeps the control of the code (every branch, early return and order
of writes) and reduces its data to what the properties tell apart.

| Module | Models | Depends on |
|---|---|---|
| `RWLockSpec` | abstract: writers and readers of a lock | |
| `RWLock` | the futex lock | implements `RWLockSpec` |
| `RWLockProofs` | theorems about `RWLock` | `RWLock` |
| `BtreeSpec` | abstract: a set of keys, insertion atomic between call and return | |
| `Btree` | concurrent insertion into the B-link tree | page locks as in `RWLockSpec`; implements `BtreeSpec` |
| `BtreeProofs` | theorems about `Btree` | `Btree`, `Lemmas` |
| `PoolSpec` | abstract: an allocator | |
| `Frames` | free lists and frames | implements `PoolSpec` |
| `FramesProofs` | theorems about `Frames` | `Frames`, `Lemmas` |
| `TxnSteps` | the steps of transactions | composed with `Frames` (extends it) |
| `TxnProofs` | theorems about `TxnSteps` | `TxnSteps`, an instance of `FramesProofs` |
| `LatchTable` | one bucket of pinned pages | entries as in `PoolSpec`, write locks as in `RWLockSpec` |
| `LatchProofs` | theorems about `LatchTable` | `LatchTable`, `Lemmas` |
| `ObjectSpec` | abstract: a dictionary with nested assignments | |
| `PropHash` | properties of a script object | implements `ObjectSpec` |
| `PropHashProofs` | theorems about `PropHash` | `PropHash`, `Lemmas` |
| `Lemmas` | for the proofs: induction over numbers, recursive functions, chains | |
| `RefCount` | values, frames and closures of the interpreter | |
| `RefCountProofs` | theorems about `RefCount` | `RefCount`, `Lemmas` |
| `Dates` | the Date object | |
| `Numbers` | conversions and operators on values | |
| `Strings` | the methods of strings | extends `Numbers` |
| `Json` | values as text and back | extends `Strings` |
| `Bson` | documents on the wire | extends `Json` |
| `Marshal` | the bytes of a stored document | extends `Json` |
| `IndexKeys` | compiling key specifications, keys of documents | extends `Json` |
| `Arrays` | vectors and arrays | extends `Json` |
| `Symbols` | hoisting and slots | |
| `Members` | what a property name stands for | |
| `Statements` | statements of a function body | |
| `Glue` | the interpreter's side of the database | the library external |
| `Art` | the radix tree and its cursors | |
| `MCPrimitives`, `MCDocuments`, `MCScripts`, `MCArrays`, `MCArt`, `MCGlue` | the inputs of the thirteen modules above | `Inputs` |
| `Inputs`, `MCAlgorithms` | the same, in one run | the six above |
| other `MC...` | instances for TLC: constants, symmetry, workloads | |

**RWLock.**  The functions `xcl` and `waiters` are the two halves of each futex
word; `pc` is the place in `writeLock`, `readLock` or `rwUnlock`, `step` the place
in `bt_mutexlock` or `bt_releasemutex`, `waited` and `prev` the locals of
`bt_mutexlock`.  One action is one atomic instruction or one futex call.
`FutexWait` re-reads the word as the kernel does and returns at once if it
changed; `Interrupt` is a spurious return.  `type` is an ordinary shared byte,
written where the code writes it.

**Btree.**  A thread's stack holds one record per activation of
`btreeInsertKey`/`btreeFixKey`; a split posts its fences by re-entering one level
up, and may split there again.  A page is its sequence of active slots; librarian
slots, which only reserve room, are left out.  `wlock` and `plock` are the write
and the parent lock; a read lock covers one look, so it is inside `Visit`.

**Frames.**  `head` is a list's `DbAddr` (frame and `nslot`), `latch` its mutex
bit, `freeFrame` the chain of empty frames.  A call is a `job` whose `at` is the
place in the code.  Memory fails after `Room` requests, in each of the places a
request is made; what then becomes unreachable is kept in `lostFrames` and
`lostObjects`, so that the properties still account for every frame and object.

**TxnSteps** extends Frames: `StepList` is the shared free list of steps, and each
transaction's chain is one more list.  The loops of `txnCommit` are `EndStep`,
`EndFrame` and `TxnClear`, and the variable `addr` is the code's.

**LatchTable.**  `mutex` and `first` are the two parts of one word, as in the code:
`Drop` stores the address of the next entry and with it a clear mutex bit, and
`DropUnlock` clears the bit again.

**PropHash.**  `pairs`, `cap`, `table` are the vector and the hash table in its tail;
`lvals` are the left sides of assignments in progress with the pair they point
at, and whether its vector is still alive.  The four places that build a table
(literal, growth, marshaling, cloning) each use the size the code uses there.

**RefCount.**  `heap` has kind, count and slots of every cell; an environment has its
frame, its closure, its list of literals and the evaluations that wait for a
value.  A program is not given: every step may evaluate any expression, so a
run covers all programs within the bounds.  Freed cells are not used again; the
first use of one sets `heap.bad` and ends the behaviour, since what the program
does then is undefined.  `installFcns` counts a declared function twice, as the
code does.  `eval_list` abandons an environment's literals at the end of a list that the
grammar marked (`js_eval.c:356`), and it marks the lists of blocks only (`js.y:511`), not those
of function bodies: a call whose last statement or return is in the body's own list
(`BodyEnded`, `Return`) leaves its literals behind in `leaked`, one that ends inside
a block (`BlockEndsBody`, `ReturnEndsBlock`) does not.

### The sequential parts

The thirteen modules from `Dates` to `Art` model code that runs to its end without
another thread in it.  Their functions are operators: one takes the arguments and
the state the C function reads and answers what it returns and the state it leaves.
Loops are folds or recursion; undefined results (`Garbage`), calls that never return
(`Hang`, `stuck`) and uses of unset memory are values of their own, so that a
property must account for them.

`MCAlgorithms` is a state machine over inputs: `Init` names an algorithm, `Build` adds
one choice to its input, `Answer` takes the whole input.  A property is an
action property of that last step, guarded by `Built(name, n)`; it compares what the
code computes with a reference written from the meaning of the input, or with the way
back.  TLC so visits every input of bounded shape, and the inputs are made by the
`MC` modules.  An exemption in a property is a divergence that was
met, and its comment says so.

**Dates.**  A date is `date / 1000` and `date % 1000`, as C truncates them.
`GetDates` is the reader of dates in words: phrases tried in the code's order, with the
number they share; it answers every date the uninitialised fields of the code allow.

**Numbers, Strings.**  A value is its type and a payload; doubles are exact fractions,
integers wrap at `IntMax`.  Characters are small numbers, so that digits and signs
have values.

**Json, Bson, Marshal.**  `Json` has the reader's states and stack a character at a time
and the `toString` methods; `Bson` counts every byte, and fills chunks as the code
does; `Marshal` has `calcSize` and `marshalDoc` as two walks over one value and keeps
where each part is written, so that overlap and overrun can be seen.

**IndexKeys.**  Key specifications compiled from options, the bytes of each type of
field, with a length in front or without, keys of documents with arrays and several
fields, and the walk over arguments and arrays of arguments of `buildKey` (`Taken`).

**Arrays.**  A vector keeps its cells apart from its size, so that what growth clears
and what lies behind the size are part of the state.

**Symbols.**  The parse tree is a tree of records; `hoistSymbols` fills tables,
`assignSlots` resolves names by climbing them.  The reference is lexical scoping,
computed from where each declaration stands.

**Members.**  A world is the objects, functions and tables of builtins after the
start-up scripts; operations are literals, `new`, assignment, `setValue`.

**Statements.**  A body is a list of statements with conditions whose answers are
input; a run records which statements ran, which values were abandoned and what is
handed back.  The reference reads the same body as the language does.

**Glue.**  A call takes the state of handles, transactions and documents, and says
what the library comes to in it; each native function binds, latches, calls, and
leaves by the early returns of the code.

**Art.**  Nodes, slots and spans of the radix tree.  Additions are whole operations; a
cursor keeps its stack of places while the tree goes on growing.  A span has the length of
its bytes, as in the code up to 248 of them; the keys of the run have five at most, so that what
happens beyond is not seen.

## 3. The runs

| Run | Shows | Bounds, and why they are enough |
|---|---|---|
| `rwlock` | exclusion, exact counters, no lost wake-up, writers not overtaken, implements the lock, progress | 3 threads: a holder and two contenders, or two readers and a writer, is what every branch of the code distinguishes |
| `btree_inserts` | the tree is one ordered set in every interleaving, links and fences agree, every insertion returns | leaf of 2 and node of 3 slots, two threads; from the empty tree until the root splits, and at the left edge of three levels, where posting a fence splits the page above |
| `btree_race` (violation) | the right fence of a split redirects the slot of another key | the same at the right edge, node of 4 |
| `frames` | the allocator gives each object and frame once, also when memory runs out anywhere | frames of 2 slots filled one object at a time, 5 requests, two threads with 6 calls each |
| `txn_small` | steps and frames come back once, and transactions end | two threads, at most one frame of steps each |
| `latch_one` | the chain of a bucket holds the pinned pages with their counts | one thread, three pages, five pins in any order |
| `latch_two` (violation) | two writers on one page | two threads, one page |
| `objects` | the property table is a dictionary through literals, growth, marshaling, cloning | four names of which three collide in some table, capacities from 2 through two growths, literals of up to 3 pairs with repeated names |
| `objects_nested` (violation) | an assignment is lost when its right side grows the object | one assignment inside another |
| `refcount` | counts are exact, nothing stored is freed, frames last as long as calls | 5 cells: the script's frame, a declared function, and one call with an argument list, a frame and one more value; 2 evaluations inside one another in each environment |
| `closures` (violation) | a function's outer variables are freed before it runs | 7 cells: a second call |
| `algorithms` | the sequential parts compute what they promise, on every input of bounded shape | the table below |

The inputs of `algorithms`, 423 000 states, one for each input and each beginning of one:

| Input | Property | Bounds, and why they are enough |
|---|---|---|
| `dates`, `fields` | `DatesAgree` | five years on both sides of leap days and centuries, three months with and without a 29th and 31st, eight ways to write a day, three a time, four offsets; fields at both ends of their ranges, before and after 1970; `LocalZone` 5 hours west |
| `numbers`, `texts` | `NumbersAgree` | 13 operators on 16 operands each side: both ends of the integers (`IntMax` = 128 for 2^63), halves, zero, infinities, undefined, texts; texts with every part of a literal present and absent |
| `strings` | `StringsAgree` | every string up to 4 of three characters (two letters and a blank), every pattern up to 2, offsets from -1 past the end |
| `json` | `JsonRoundTrip` | five nestings of arrays and objects, the leaves of every type, a blank in four places, the last character lost |
| `bson` | `BsonRoundTrip` | three shapes, two to four documents in a reply; `BodySize` = 60 so that some levels fill their chunk |
| `marshal` | `DocumentsKept` | four shapes; `MaxLevels` = 3, which the shapes just reach |
| `keys` | `KeysOrdered` | every way and type of option, 12 kinds of field in two documents, a second field, with and without binary fields; documents alone, in arrays of one and two, and arrays behind each other; `MaxKey` = 64 for 4096 |
| `symbols` | `ScopesResolve` | three parts inside one another, each a block, loop or one of three kinds of function, with lets and vars of two names |
| `arrays` | `ArraysKeep` | three operations after a literal; `FirstCapacity` = 3, so that vectors grow once or twice |
| `members` | `MembersFound` | four operations on functions, literals, instances and a primitive |
| `statements` | `StatementsRun` | one form of statement inside another, a way out of it, five answers for the conditions |
| `glue` | `GlueKeeps` | three calls of any kind with each outcome of the library, room for 2 or 9 documents, two transactions |
| `art` | `ArtFinds` | up to seven keys over trees with one and two fields; `RadixSizes` = {2, 3, 4, 5}, so that nodes are promoted at the third byte |
The properties, and the questions they answer:

* *Can two threads both believe they own something?*  `MutualExclusion`,
  `ObjectsOnce`, `FramesOnce`, `StepsOnce`, `WriteExclusive`; `IInv` is the inductive
  invariant of the proofs, checked before it is proved.
* *Is what one structure says consistent with another?*  `WaiterCountExact`,
  `SearchAgreesWithScan` (search from the root against the leaf chain),
  `LeafLinksMatch`, `FencesPosted`, `FullBehind`, `ChainIsPinned`, `LookupExact` (table
  against pairs), `CountsExact`, `NothingDangles`, `FramesRun`.
* *Is everything given back?*  `StepsReturned` (steps and their frames), `GlueKeeps`
  (handles and transactions), `StatementsRun` (values).
* *Does it do what callers rely on?*  The refinements `Implements` of RWLock, Btree,
  Frames and PropHash; of the sequential parts `DatesAgree`, `NumbersAgree`,
  `StringsAgree`, `KeysOrdered`, `ScopesResolve`, `ArraysKeep`, `MembersFound`,
  `ArtFinds`, and the round trips `JsonRoundTrip`, `BsonRoundTrip`, `DocumentsKept`.
* *Does it end?*  `GateHolderGetsIn`, `SomebodyGetsIn`, `InsertsReturn`, `TxnsEnd`,
  `ProbesEnd`; and `NoLostWakeup`, `WriterBarrier` as their safety parts.

The type invariants are conjuncts: of `LeafLinksMatch` in Btree, `ObjectsOnce` in Frames,
`LookupExact` in PropHash, `CountsExact` in RefCount, and of `IInv` in RWLock.

`CountsExact`, `NothingDangles` and `FramesRun` hold only until freed memory is
used: that the program can come to use it is not excluded by them but shown by
`closures`, and listed as hazards.

`TxnsEnd` holds for transactions of one frame of steps.  With `MaxSteps` one more than
`FrameSlots` TLC finds the lasso of a commit that hands the first frame's steps back
again and again (`txnFrame` is never advanced).

## 4. Fairness and deadlock

Liveness is stated under weak fairness of `Run(t)`: a thread that is *inside* a call and able to
move is scheduled again and again, which is what a preemptive kernel gives.
Nothing is assumed of callers: no thread has to call a lock, an insertion or a
transaction.  `Run` of RWLock includes `rwUnlock`, so that whoever gets the lock
gives it back; the tree model discharges that for its own use (`InsertsReturn`
includes all waiting for locks).  `Interrupt`, the spurious return of a futex
wait, is never assumed to happen.  No strong fairness is used anywhere: locks
handed to whichever contender wins are not fair, and `SomebodyGetsIn` claims only
that somebody does.

Deadlock is checked except in `frames` (out of memory leaves a list latched, so
callers may wait for ever: a hazard listed), in `objects` and
`objects_nested` (the program may exit in a probe; the number of literals is
bounded) and in `refcount` and `closures` (the cells run out, or the behaviour
ends with a use of freed memory).  `algorithms` has no end: an input is followed by the next.

## 5. What is proved

The proofs have no assumptions but those the modules name: on `RWLock`, that there are
finitely many threads; on `Frames` (`FramesAssumption`), that frames have slots, that a
batch fits a frame, and that no thread is a list; on `TxnSteps`
(`TxnStepsAssumption`), that every thread's transaction has a list of its own;
on `PropHash`, that a hash is a number, that the undefined value is none that is stored
and that a vector has room for two pairs at first; on `RefCount` (`BoundAssumption`), that
there is memory for the script's frame and the function it declares; on `Btree`, that a
page has room for two slots, that a page of two slots or more can be split, that the two
first pages are allowed for (`BtreeAssumption`), and that no key is inserted twice
(`ClientsAssumption`: `btreeIndexKey` ends every key with the number of its document); on `LatchTable` (`LatchTableAssumption`), that there are finitely
many threads and entries enough for all they may pin.  TLC evaluates each of them in its runs.

### The reader/writer lock (`RWLockProofs`)

`RWLockProofs` proves, for every finite set of threads:

| Theorem | States |
|---|---|
| `Invariance` | `Spec => []IInv` |
| `TypeCorrect` | `Spec => []TypeOK` |
| `CountsExact` | `Spec => []WaiterCountExact` |
| `Exclusion` | `Spec => []MutualExclusion` |
| `Wakeups` | `Spec => []NoLostWakeup` |
| `Barrier` | `WriterBarrier`: no reader joins the group a writer waits for |
| `Refinement` | `Spec` implements the abstract lock of `RWLockSpec` |

The only assumption is `ThreadsFinite`: there are finitely many threads.

*The argument.*  `MutualExclusion` is not inductive: it speaks of threads that
hold the lock, while exclusion is decided earlier, by who owns the gate `xcl` and
who owns `wrt`.  `IInv` adds what the code relies on without saying:

* `ControlInv` ties the place in the mutex code to the place in the lock code;
* `GateInv`: `xcl` is set exactly when one thread is between taking and
  releasing the gate;
* `WrtInv`: `wrt` is set exactly when a writer owns it, or the group of counted
  readers does, which begins when the first reader gets in, *not* when it counts
  itself; and there is at most one such first reader;
* `TypeByteInv`: the shared byte `type` still tells every holder which lock it has.
  This is where the unsynchronised byte is justified: it is only written by a
  thread that owns `wrt` or the gate;
* `CountInv`: `waiters` and `readers` count exactly who they should.

Each step is shown to preserve each conjunct it can disturb, one lemma per
conjunct and one case per action; cardinality lemmas on adding and removing one
thread carry the counters.  `NoLostWakeup` is itself preserved
by each step under `IInv` (`WakeupStep`): a thread that takes a mutex and has yet to
leave the count owns it, and whoever releases it with waiters counted wakes one.  `Refinement` maps holders to the abstract sets: only the
return of `writeLock` and `readLock` and the entry of `rwUnlock` are abstract
steps.

### The tree (`BtreeProofs`)

| Theorem | States |
|---|---|
| `LinksAreMutual` | `Spec => []LeafLinksMatch`, the type invariant in it |
| `ScanSeesReturned` | the walk along the leaves meets every key whose insertion has returned |
| `LocksReturned` | which thread holds which lock of which page; none when nobody is inside |
| `NewPageIsFree` | nobody else knows the new page of a split before its fences are posted |
| `WritersHoldTheLock` | slots and right links change only under the page's write lock, no key leaves the leaves, no page but the root changes its level |

| `OrderInvariant` | `OInv`, the order of the tree (below) |
| `AlwaysAgrees` | `SearchAgreesWithScan`: a search ends, and finds the keys of the leaf chain, which ascend |
| `AlwaysPosted` | `FencesPosted`: no split stays half posted |
| `FencesAreFixed` | `FixesItsFence`: `btreeFixKey` redirects the slot of its fence |
| `TreeIsASet` | `Implements`: the tree implements the set of keys of `BtreeSpec` |

for any number of threads, page sizes, split points and keys to insert.  The first five hold
without a condition.  The last five cannot: the instance of `btree_race`, which refutes
`FixesItsFence`, refutes the other three properties too when they are put in its place.  Each
has two parts:

* `Spec /\ []StoppersFixed => ...`: in every behaviour in which `btreeFixKey` of the *stopper*
  key finds the slot of the stopper.  That is all that may go wrong (`FencesAreFixed`):
  every other fence is found wherever splits have moved it, so that the defect `btree_race`
  shows is the only one of its kind;
* `Spec => [](SmallTree => ...)`: without that condition in every state in which the root has
  not been split yet, the levels being two.  (Of the refinement, `Spec /\ []SmallTree`.)

The condition is not one that deep trees never meet: with `FixesItsFence`, which implies
it, added to its invariants, `btree_inserts` passes too, splits of the interior pages of
three levels included.

*The argument.*  `LeafLinksMatch` says that a split of leaf `p` finds itself as the left link
of the page beyond; nothing in it says that `p` is a leaf when the thread comes to it, nor that
the page at hand is the one it locked.  `IInv` says what a thread relies on:

* `PagesOK`: slots, children, siblings and levels of the pages; only the root is on its level,
  and no page is its own right sibling, without which the changes `SplitPage` makes to the
  page and to the one beyond could not be told apart;
* `StacksOK`: a thread is on its way to a page of its level, or has that page write-locked; the
  frames under the top one wait with the parent locks, each one level below the one above
  it.  `Grown` is what other threads may do meanwhile, `Same` what the write lock rules out;
* `ChainOK`: every leaf is on the chain from the leftmost one.  *On the chain* is said of
  every set of pages closed under right links (`OnChain`), which needs no recursion;
* `ReturnedOK`: a returned key is in a leaf.

Every step does to the pages one of three things, `Edit` (a slot is inserted or redirected),
`SplitOf` or `RootSplitOf`, and one lemma says of each what it keeps.  The locks have an
invariant of their own, `LInv`: who holds them (`WriteLocks`, `ParentLocks`), and that the new
page of a split is `Private`, which is why `btreeSplitPage` may take its parent lock while it
holds a write lock.  `LockTurn` lists what a step of one thread must do for the others'
part of `LInv` to stay.

*The order.*  `SearchAgreesWithScan` says nothing of the splits under way, which is what it
depends on.  `OInv` does:

* `Ordered`: the pages of a level are ordered by their highest keys, as their right links are,
  and every slot of a page is beyond the page before it;
* `Fenced`: which slots lead to which pages.  A split is *hidden* until it has its parent
  locks, then *waits* for its fences; given the hidden pages and the waiting splits, a slot with
  key `x` leads to page `c` exactly when it is expected to: for a page at rest with its fence, for
  the left page of a waiting split with the old fence until it is switched, and with the new
  one as soon as it is posted.  Two waiting splits have no page in common, which the parent locks
  see to (`LInv`), and their fences are neighbours;
* `FramesAim`: no frame is past its key (`NotPast`), so that sliding right is all it ever has
  to do; and a frame posts what the frame under it waits for;
* `KeysFresh`: a key that is being inserted is in no leaf before.

The changes to the pages have one lemma each for the order (`AddedOrder`, `SplitOrder`,
`RootSplitOrder`) and for the fences (`LowPostedBy`, `FenceSwitchedBy`, `HalfShownBy`, `RootHalves`).
That a search ends (`SearchArrives`) is shown with the set of pages `Ahead` of it, which gets
smaller with every turn.  For the refinement, `StoredInLeaves` says that what searches find is
what the leaves have, and `StepStores` that one action only adds to that.

### The allocator (`FramesProofs`)

| Theorem | States |
|---|---|
| `Invariance` | `Spec => []IInv` |
| `Objects` | `Spec => []ObjectsOnce`, the type invariant in it |
| `FrameOwners` | `Spec => []FramesOnce` |
| `Behind` | `Spec => []FullBehind` |
| `Allocator` | `Spec` implements the allocator of `PoolSpec` |

for all threads and lists, frames and batches of any size, and wherever memory runs out.

*The argument.*  `ObjectsOnce` counts places; nothing in a count says that a chain ends
or that two chains stay apart.  `IInv` says where everything is:

* `FramesPart`: the frames are split into the chains of the lists and of the empty frames,
  the slots of that last chain (a frame kept in a slot is empty too), the hands of
  threads, and what was lost when memory ran out; and every chain ends;
* `HandsApart`: no two threads have the same frame in hand;
* `ObjectsPart`: the objects are split likewise into the lists' used slots and the threads;
* `JobsPart`: what a place in `allocObj`, `addSlotToFrame` or `returnFreeFrame` implies:
  who holds the latch, whether the list is empty, what is in hand.

A chain in the model is computed by as many turns as there are frames; the proofs speak of
`Reach`, the least set closed under the links, and `ChainOfReach` shows the two equal.
Lemmas say what pushing, popping and relinking a frame does to one
chain and leaves of the others; each action of `Frames` is then one of a few moves on the
partitions (`Parts`, `Spread`).

### Transactions (`TxnProofs`)

| Theorem | States |
|---|---|
| `TxnInvariance` | `MaxSteps <= FrameSlots => (TxnSpec => []TInv)` |
| `Steps` | `MaxSteps <= FrameSlots => (TxnSpec => [](room > 0 => StepsOnce))` |
| `Returned` | the same of `StepsReturned` |

The two hypotheses are the truth about the code: with more steps than a frame holds, a commit
hands the same frame back for ever, and when memory runs out a step may stay in a
thread's hand.  Both hold in all of `txn_small`.

*The argument.*  While a frame goes back, the transaction still names it, so that the
allocator's invariant is false of the state as it is.  It is true of `LiveHead`, where the
transactions that are done with their frame have none: `TxnProofs` takes an instance
of `FramesProofs` with `LiveHead` in the place of `head`.  Steps inside a call are steps of that
allocator (`RunSame`); the two steps of the loops of `txnCommit` are two new moves
on its invariant (`TakesOffInv`, `GivesUpInv`).  `TxnPlace` says where a transaction is and
bounds the steps on its list by those it asked for, which is why its frame is the only one.

### The page-latch table (`LatchProofs`)

| Theorem | States |
|---|---|
| `AlwaysIInv` | `Spec /\ []ReleasedOnce => []IInv` |
| `ChainKept` | `Spec /\ []ReleasedOnce => []ChainIsPinned` |
| `WritersExclude` | `Spec /\ []ReleasedOnce => []WriteExclusive` |
| `OneThread` | with one thread, `Spec => []ChainIsPinned` |

for any number of threads, pages, entries and pins.  `ReleasedOnce` says that nobody enters the
bucket between the two releases of `btreeUnpinLatch`: the store of the next link, which clears the
mutex bit, and `unlockLatch`.  That is a hypothesis because the code does not see to it (run
`latch_two`), and the theorems say that nothing else is wrong: a repair that takes the second
release away, or keeps the bit in the first, makes the table right.  One thread alone
cannot be hit.

*The argument.*  While a thread is in the bucket its entry and its pin are in between: `Held`
counts the pins a thread has and the one it is about to hold or to give up, and `IInv` says
that an entry is linked exactly when it is held and that its count is theirs (`CountsOK`), that
the chain has no cycle and one entry for a page (`ChainOK`), what each place of a thread
implies for the entry in its hand (`HandOK`), and that the bit keeps all but one thread out
(`Exclusive`), which is where the hypothesis is used.  `HeldTaken` is a bijection: giving up a pin
moves those behind it down.

### Reference counts (`RefCountProofs`)

| Theorem | States |
|---|---|
| `CountingInvariance` | `Spec => []IInv` |
| `CountsAreExact` | `Spec => []CountsExact`, the type invariant in it |
| `NothingLiveDangles` | `Spec => []NothingDangles` |
| `FramesAreCalls` | `Spec => []FramesRun` |

for any number of cells, evaluations inside one another and calls inside calls.  All three say what
holds until freed memory is used (`heap.bad`), which the code does not exclude: a
closure that outlives the call it was made in reads the freed frame (run `closures`).  Up to
that use every count is accounted for and no live slot dangles.  What accounts for a count
includes `leaked`: the theorem says which literals the code never frees, not that there are none.

*The argument.*  `CountsExact` alone is not inductive.  An operation frees a value because its
count is zero, and that is right only if nothing stores it: the counts must be those of
*all* slots, also in the middle of `deleteValue`, where a cell is freed before
what it held is let go of.  `IInv` has

* `Well(h, D, X)`: a cell's count is the number of slots of `D` that hold it and, in `X`, what
  counts it elsewhere (literals, the ones left behind by a body, the declaration).  Between
  steps `D` is all slots; inside a step it lacks the slot that is being replaced or deleted;
* `Places`: only live objects and argument lists have something in `p`, only frames in the others;
* `EnvsOK`: the frames, literals and cells under construction of the environments are
  apart; a cell that an `eval_obj` or `eval_fcncall` is still filling is at zero and holds nothing,
  so that no `abandonValue` may reach it;
* `FramesOK`: the frames are those of the environments, none of them with a return value yet;
* `ValueOK`: the value in flight is not a cell under construction.

`DeleteWell` is the induction along the chain of a deletion, turn by turn.  `DecrWell`, `AbandonWell`, `ReplaceSlotWell`,
`ReplaceValueWell`, `DropWell`, `ScopeWell` and `LeftWell` say what the counting operations do
to a heap; `Later` and `Ages` say what they leave alone.  With these one lemma for each kind of step
(`OnNew`, `OnAddress`, ..., `OnReturned`) does the environments.

### Properties of objects (`PropHashProofs`)

| Theorem | States |
|---|---|
| `Invariance` | `Spec => []IInv` |
| `Lookup` | `Spec => []LookupExact` |
| `Probes` | `Spec => []ProbesEnd` |
| `Dictionary` | without an assignment inside another, `Spec` implements `ObjectSpec` |
| `LiveLeftSides` | an assignment whose left side still points into the vector lands |
| `FlatAssigns` | without an assignment inside another every one lands |

for every hash of the names.  `IInv` relates the table to the pairs: every pair's probe
sequence meets its number before an empty slot, no number is there twice, and there
is an empty slot unless the table is that of a document's object of one pair.  A new
table is shown to have this by induction over the pairs entered, a table that is added
to by one step of it.

### Induction and chains (`Lemmas`)

The library's theorems of induction take an operator, which no installed prover can
instantiate.  `Lemmas` has the same facts for a *set* of numbers (`SetInduction`) and what
follows for functions defined by recursion on an interval (`RecursiveFunction`); each is
proved from the least number that is not in the set.  `Reach` is the least set closed under
links, and what adding successors turn by turn comes to (`TurnsReach`); what becomes of it when an entry is put in front (`ReachPushed`) or taken out from
anywhere (`ReachUnlinked`) is shared by the allocator and the latch table.

### Only model-checked

Everything under fairness (`GateHolderGetsIn`, `SomebodyGetsIn`, `InsertsReturn`,
`TxnsEnd`), which is beyond the prover; the properties of the sequential parts, whose
operators are recursive or use bitwise operations; transactions of more steps
than a frame holds.

Of `Btree`, whether stoppers are found in a tree whose root has been split depends on the
schedule: in `btree_inserts` they are, in `btree_race` they are not, and a search may then
miss keys that a scan still finds.  What is proved without the condition,
`ScanSeesReturned`, the links and the locks, survives that.

## 6. What the code does otherwise than it says

| Run | Property | Where | What |
|---|---|---|---|
| `btree_race` | `FixesItsFence` | `oldjsdb/jsdb_dbbtreeutil.c:491` | the stopper's slot is looked for on a page another thread has split, and the last slot of the left half is redirected |
| `latch_two` | `WriteExclusive` | `oldjsdb/jsdb_dbbtreelatch.c:120` | storing the chain's head releases the bucket before `unlockLatch` releases it again |
| `objects_nested` | `AssignLands` | `js_values.c:106` | the pointer of the left side is used after the right side has freed the vector it points into |
| `closures` | `CapturedLives` | `js_fcns.c:18` | a closure's frame is not counted and is freed when its call returns |

Met while reading or modelling, and not the subject of a run that fails.  Those of the
sequential parts are visible in the exemptions of the properties, or as the values
`Garbage`, `Hang` and `stuck` of the modules.

* *Engine.*  A commit of more steps than a frame holds never ends (`jsdb_dbtxn.c:90`).
  `btreeLoadPage` pins every page it slides past; cursors copy pages without a lock
  (`jsdb_dbbtreecursor.c:83`) and walk backwards one slot off.  A radix-tree node that
  stays in use is put on the wait list (`jsdb_dbartinsert.c:218`); a second field's
  search that meets a dead slot never ends; spans of 249 to 255 bytes get the wrong
  length; a seek pushes entries for a byte that is not there; `artDeleteKey` removes
  nothing.  `rbAdd` crashes at its first call.
* *Counts.*  `js_values.c:338` says "abandon literals at end of statement"; they are
  abandoned at the end of a block.  A function whose literals are in its own list, as
  in `function () { o = {}; }` or `return {};`, leaves them in memory at every call.
* *Objects.*  The first of two equal names in a literal wins; a read of a missing name
  of a document's object with one pair exits the program (`js_object.c:384`, the
  exception in `ProbesEnd`); one prototype only is looked in; an assignment to a
  property of a primitive value lands on its type's prototype; `new Object(5) + 1`
  reads a number as an address; `call` and `apply` pass no parameters.
* *Statements.*  The grammar leaves the kind of `break` and `continue` in `flag`, and
  `eval_return` reads `aux`: inside a loop break, continue and return each only end the
  turn.  A bare one clears the value a constructor returns.  `for-in`, and `for`
  without an increment, hand the last turn's control value to the list around them.
  `throw` and `try` are parsed and never run.  The last value of a block is abandoned
  after the block freed its literals (`js_eval.c:353`); `for-in` holds a vector over
  its body (`js_eval.c:536`); blocks clear the wrong slots on exit (`js_eval.c:331`).
* *Symbols.*  Functions go on with the block around them; top-level and nested lets
  can share a slot; the scope counts of functions are always 0; function expressions in
  operands and conditions are not hoisted.
* *Arrays.*  A slice has its elements and the length 0; `setValue` on an array replaces
  the object its properties are kept in.
* *Numbers.*  `>` and `>=` are wrong with infinities, an infinity times a negative
  number is positive, `===` and `!==` index past their table.  `"1.5 "` is read as 15,
  `"1.5e3"` as NaN.  `Math.sign` is `acos`, `log1p` is `log(x) - 1`; `toFixed` and
  `toPrecision` use `%e`.
* *Dates.*  Milliseconds before 1970 are cut to the wrong second; a sign after a time
  of day is taken for a zone; `new Date().getTime()` reads the object's address.
* *JSON, BSON.*  The infinities' names are swapped, escapes keep the letter, `true` or
  `null` alone is refused, trailing commas are accepted.  A chunk after a full one is
  never linked; booleans and nulls are dropped from replies.
* *Stored documents.*  The count of an array is never written, so arrays come back
  empty; a key is counted by only one of the two walks; the 64th level is written past
  the stack (`js_marshal.c:288`); copying a stored object with pairs dereferences NULL.
* *Index keys.*  A field with an array of two elements, or an object, never ends; a number
  under a text type is taken for an address.  Of an array of documents only the first gets
  keys, and an array behind it has arguments passed over or read past the last
  (`js_dbindex.c:438`); every key is inserted twice (`js_dbindex.c:614`).  With binary fields
  a double's sign is looked for behind a length it has not got, texts lose two bytes and reversed
  integers keep their sign.
* *Database glue.*  `createIndex`, `writeDocs`, `cursor.pos` and the two functions that
  build keys never release their handle, and neither does any error return; `readTxn` and
  the retrieval of a raw document leave the transaction latched (`js_dbtxn.c:235`,
  `js_dbdoc.c:155`), and of two transactions only the last is released; `writeTxn`
  ignores what follows an array; `writeDocs` hides a failure and leaves an id without a
  document; `iterator.next(n)` answers n + 1 ids; `doc.update` takes the document's
  address for its id.

## 7. What is not modelled, and why

* `database/`: its sources are not in the tree.  `Glue`, `Marshal` and `IndexKeys` use it
  as external: each call says which of its outcomes the library comes to.
* Builtin tables, files, sockets, printing, the parser's own code: no state or order that
  a property is about.  What the grammar puts in the nodes of statements is in `Statements`.
* B-tree cursors: at the grain of a whole copied page their steps are simple, at the grain
  of `memcpy` they read torn pages (hazard).
* The wait queue: the timestamp of the oldest reader, which decides when a node may be
  used again, is never computed.  Nothing can be said of when reuse is safe.
* The arena: `openMap` uses members its structures no longer have, and the rest maps
  files.  What `allocMap` supplies is the `Room` of `Frames`.
* `jsdb_redblack.c`: its insertion crashes at the first call.  `jsdb_dbdocs.c`,
  `jsdb_dbcursor.c` do not compile against their headers; `jsdb_dbcolindex.c`,
  `jsdb_dbupdate.c` are stubs; `jsdb_rwlock2.c` is used nowhere; `mongo/` needs a library
  that is not in the tree.
* Threads of `js_tcp.c` over one environment (hazard).
* Windows branches of `#ifdef`s.
* Memory order weaker than sequential consistency: the code's atomics are full
  barriers (`__sync_...`), and its plain accesses (`type`, the latch word) are
  modelled as single accesses of their own.
* Inside the modelled parts: out-of-memory returns of the tree, the latch table and the
  radix tree; key bytes and librarian slots of B-tree pages; concurrent writers of the radix
  tree and its slot latches; what `update` does with a document's address; the C library's
  functions behind `Math`; texts of more than 18 digits, literals of more than 64
  characters; calls, blocks and `this` in `RefCount` beyond one level of nesting.

## 8. The plan

Twelve runs, and as many properties of passing runs as there are now, are the budget of
the project: something new takes the place of something shallower.

Modelled: RWLock, Btree, Frames, TxnSteps, LatchTable, PropHash, RefCount, the
thirteen sequential modules.

Proofs done: `RWLock`, `Btree` and `Frames` with their refinements, `TxnSteps`, `PropHash` with its
refinement, `RefCount`, `LatchTable`.

Models after that, each instead of a property that says less: two writers on the radix tree
with its slot latches; cursors over `Btree` while pages split; blocks and several levels of
functions in `RefCount`.
