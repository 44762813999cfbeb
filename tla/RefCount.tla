------------------------------ MODULE RefCount ------------------------------
(***************************************************************************)
(* Reference counts of the interpreter (js_values.c, js_fcns.c, and the    *)
(* parts of js_eval.c that produce and store values).                      *)
(*                                                                         *)
(* A script is any program of expression statements, blocks and returns    *)
(* over object literals, variables, one property p, assignments, function  *)
(* expressions and calls with one argument.  It runs as the code's         *)
(* recursive dispatch does, one evaluation step at a time: a stack of      *)
(* pending evaluations, a stack of environments, one for each call, and    *)
(* the value in flight between two of them.  A value without a count (a    *)
(* number, undefined) is Nil.  An assignment is a statement of its own.    *)
(*                                                                         *)
(* Cells of freed memory are not used again, so that a use of one is seen. *)
(***************************************************************************)
EXTENDS Integers, Sequences, FiniteSetsExt, Functions

CONSTANTS
  MaxCells,   \* bound: allocations of a run
  MaxPending  \* bound: evaluations inside one another, in each environment

ASSUME BoundAssumption == MaxCells \in Nat /\ MaxCells >= 2 /\ MaxPending \in Nat

Nil == 0

Cell == 1..MaxCells

Kinds == {"unused", "object", "args", "closure", "frame", "freed"}

\* The slots of a cell: a frame has two variables (the first its parameter),
\* the return value and the argument list; an object and an argument list p.
Slots == {"x", "y", "ret", "args", "p"}

VARIABLES
  heap,     \* kind, count and held of every cell; bad once freed memory is used
  captured, \* the frame of a closure's scope[0]
  envs,     \* the environments, innermost first: the frame, the closure that
            \* runs, the literals and the evaluations that wait for a value
  mode,     \* what happens next: an "expression" is evaluated, a "value" arrives
  value,    \* the value in flight
  leaked    \* the literals of environments left without abandoning them

vars == <<heap, captured, envs, mode, value, leaked>>

Global == 1       \* the frame of the script
Declared == 2     \* the closure of a function the script declares

env == Head(envs)

-----------------------------------------------------------------------------
(* Counting: each takes a heap and returns one *)

Allocated(h, c) == h.kind[c] \notin {"unused", "freed"}

Nothing == [s \in Slots |-> Nil]

Free(h, c) == [h EXCEPT !.kind[c] = "freed", !.count[c] = 0, !.held[c] = Nothing]

Bad(h) == [h EXCEPT !.bad = TRUE]

Incr(h, v) ==
  CASE v = Nil -> h
    [] v # Nil /\ Allocated(h, v) -> [h EXCEPT !.count[v] = @ + 1]
    [] OTHER -> Bad(h)

\* decrRefCnt where nothing is deleted after it.
Uncount(h, v) ==
  CASE v = Nil -> h
    [] v # Nil /\ Allocated(h, v) -> [h EXCEPT !.count[v] = @ - 1]
    [] OTHER -> Bad(h)

\* deleteValue: an object or an argument list lets go of what it holds, which
\* is deleted too when that was the last reference, and so on down the chain.
Delete(h, v) ==
  LET down[k \in 0..MaxCells] ==
        IF k = 0 THEN [to |-> h, next |-> v]
        ELSE LET c == down[k - 1].next
                 q == down[k - 1].to.held[c]["p"]
                 g == Uncount(Free(down[k - 1].to, c), q)
             IN IF c = Nil THEN down[k - 1]
                ELSE [to   |-> g,
                      next |-> IF q # Nil /\ Allocated(g, q) /\ g.count[q] = 0
                               THEN q ELSE Nil]
  IN down[MaxCells].to

\* decrRefCnt and deleteValue at zero.
Decr(h, v) ==
  LET g == Uncount(h, v)
  IN IF v # Nil /\ Allocated(g, v) /\ g.count[v] = 0 THEN Delete(g, v) ELSE g

\* replaceValue without one of its counts; a frame that outlives its call.
ReplaceKeepsOld(h, c, s, v) ==
  IF Allocated(h, c) THEN [Incr(h, v) EXCEPT !.held[c][s] = v] ELSE Bad(h)

ReplaceUncounted(h, c, s, v) ==
  IF Allocated(h, c) THEN [Decr(h, h.held[c][s]) EXCEPT !.held[c][s] = v] ELSE Bad(h)

ScopeKept(h, f) == Decr(Decr(Decr(h, h.held[f]["x"]), h.held[f]["y"]), h.held[f]["args"])

\* abandonValue: a value that nobody stored is deleted.
Abandon(h, v) ==
  CASE v = Nil -> h
    [] v # Nil /\ ~Allocated(h, v) -> Bad(h)
    [] OTHER -> IF h.count[v] = 0 THEN Delete(h, v) ELSE h

\* replaceSlot: the value before is not let go of.
ReplaceSlot(h, c, s, v) == [Incr(h, v) EXCEPT !.held[c][s] = v]

\* replaceValue through a pointer to slot s of cell c.
ReplaceValue(h, c, s, v) ==
  IF ~Allocated(h, c) THEN Bad(h)
  ELSE LET g == Decr(Incr(h, v), h.held[c][s])
       IN IF Allocated(g, c) THEN [g EXCEPT !.held[c][s] = v] ELSE Bad(g)

\* abandonLiterals: from the last literal to the first.
DropLiterals(h, lits) ==
  LET drop[k \in 0..Len(lits)] ==
        IF k = 0 THEN h ELSE Decr(drop[k - 1], lits[Len(lits) - k + 1])
  IN drop[Len(lits)]

\* abandonScope: the variables and the argument list of a frame, and the frame.
AbandonScope(h, f) ==
  Free(Decr(Decr(Decr(h, h.held[f]["x"]), h.held[f]["y"]), h.held[f]["args"]), f)

Fresh(h) == Min({c \in Cell : h.kind[c] = "unused"})

CanAllocate(n) == Cardinality({c \in Cell : heap.kind[c] = "unused"}) >= n

Alloc(h, k) == [h EXCEPT !.kind[Fresh(h)] = k]

-----------------------------------------------------------------------------
(* Where a variable is: in the frame that runs or in the one its closure captured.
   A function may let go of its own closure while it runs; its outer variables are
   then left alone, and its return finds the closure freed. *)

Frames ==
  {env.frame} \union
  (IF env.closure # Nil /\ Allocated(heap, env.closure)
   THEN {captured[env.closure]} \ {Nil} ELSE {})

Variables == {<<f, s>> : f \in Frames, s \in {"x", "y"}}

Objects(v) == v # Nil /\ heap.kind[v] = "object"

\* eval_var and eval_access read freed memory, or follow a pointer into it.
Unsafe(f) == ~Allocated(heap, f)

\* The environment that runs is replaced; or waits behind a new one.
Now(e) == envs' = <<e>> \o Tail(envs)

Pushed(op, c, s) ==
  [env EXCEPT !.pending = <<[op |-> op, cell |-> c, slot |-> s]>> \o @]

Popped(e) == [e EXCEPT !.pending = Tail(@)]

Top == Head(env.pending)

Deliver(h, v) ==
  /\ heap' = h
  /\ value' = v
  /\ mode' = IF h.bad THEN "stopped" ELSE "value"

Resume(h) ==
  /\ heap' = h
  /\ value' = Nil
  /\ mode' = IF h.bad THEN "stopped" ELSE "expression"

WithLiteral(e, o) == [e EXCEPT !.lits = Append(@, o)]

Init ==
  /\ heap = [kind  |-> [c \in Cell |-> CASE c = Global -> "frame"
                                         [] c = Declared -> "closure"
                                         [] OTHER -> "unused"],
             \* installFcns counts a declared function twice
             count |-> [c \in Cell |-> IF c = Declared THEN 2 ELSE 0],
             held  |-> [c \in Cell |->
                          IF c = Global THEN [Nothing EXCEPT !["y"] = Declared] ELSE Nothing],
             bad   |-> FALSE]
  /\ captured = [c \in Cell |-> IF c = Declared THEN Global ELSE Nil]
  /\ envs = <<[frame |-> Global, closure |-> Nil, lits |-> <<>>, pending |-> <<>>]>>
  /\ mode = "expression"
  /\ value = Nil
  /\ leaked = {}

-----------------------------------------------------------------------------
(* Expressions: one is to be evaluated; without pending ones, for a statement *)

Expression == mode = "expression" /\ Len(env.pending) <= MaxPending

\* eval_num
Number ==
  /\ Expression
  /\ Deliver(heap, Nil)
  /\ UNCHANGED <<captured, envs, leaked>>

\* eval_var
Variable(w) ==
  /\ Expression
  /\ IF Unsafe(w[1]) THEN Deliver(Bad(heap), Nil) ELSE Deliver(heap, heap.held[w[1]][w[2]])
  /\ UNCHANGED <<captured, envs, leaked>>

\* eval_access of property p of the object in a variable
Access(w) ==
  /\ Expression
  /\ ~Unsafe(w[1])
  /\ Objects(heap.held[w[1]][w[2]])
  /\ Deliver(heap, heap.held[heap.held[w[1]][w[2]]]["p"])
  /\ UNCHANGED <<captured, envs, leaked>>

\* eval_obj of a literal without properties
EmptyLiteral ==
  /\ Expression
  /\ CanAllocate(1)
  /\ LET o == Fresh(heap)
     IN /\ Deliver(Incr(Alloc(heap, "object"), o), o)
        /\ Now(WithLiteral(env, o))
  /\ UNCHANGED <<captured, leaked>>

\* eval_obj of a literal whose property p is another expression
Literal ==
  /\ Expression
  /\ CanAllocate(1)
  /\ heap' = Alloc(heap, "object")
  /\ Now(Pushed("literal", Fresh(heap), "p"))
  /\ UNCHANGED <<captured, mode, value, leaked>>

\* eval_assign to a variable: the left side is the address of its slot.
AssignVariable(w) ==
  /\ Expression
  /\ env.pending = <<>>
  /\ ~Unsafe(w[1])
  /\ Now(Pushed("assign", w[1], w[2]))
  /\ UNCHANGED <<heap, captured, mode, value, leaked>>

\* eval_assign to property p: the address is inside the object.
AssignProperty(w) ==
  /\ Expression
  /\ env.pending = <<>>
  /\ ~Unsafe(w[1])
  /\ Objects(heap.held[w[1]][w[2]])
  /\ Now(Pushed("assign", heap.held[w[1]][w[2]], "p"))
  /\ UNCHANGED <<heap, captured, mode, value, leaked>>

\* newClosure: the frame that runs is remembered, and not counted.
Function ==
  /\ Expression
  /\ CanAllocate(1)
  /\ captured' = [captured EXCEPT ![Fresh(heap)] = env.frame]
  /\ Deliver(Alloc(heap, "closure"), Fresh(heap))
  /\ UNCHANGED <<envs, leaked>>

\* eval_fcncall: the argument list is made before the argument is evaluated.
Call ==
  /\ Expression
  /\ CanAllocate(2)
  /\ heap' = Alloc(heap, "args")
  /\ Now(Pushed("call", Fresh(heap), "p"))
  /\ UNCHANGED <<captured, mode, value, leaked>>

-----------------------------------------------------------------------------
(* A value arrives at the evaluation that waits for it *)

Arrives(op) == mode = "value" /\ env.pending # <<>> /\ Top.op = op

\* A statement has its value.  Whether it was the last of its list or a return
\* is chosen now: its evaluation does not depend on it.
Evaluated == mode = "value" /\ env.pending = <<>>

InCall == Len(envs) > 1

Assigned ==
  /\ Arrives("assign")
  /\ Deliver(ReplaceValue(heap, Top.cell, Top.slot, value), value)
  /\ Now(Popped(env))
  /\ UNCHANGED <<captured, leaked>>

LiteralMade ==
  /\ Arrives("literal")
  /\ Deliver(Incr(ReplaceSlot(heap, Top.cell, "p", value), Top.cell), Top.cell)
  /\ Now(WithLiteral(Popped(env), Top.cell))
  /\ UNCHANGED <<captured, leaked>>

\* fcnCall: a frame with the argument list and the argument, the body begins.
Called(w) ==
  /\ Arrives("call")
  /\ ~Unsafe(w[1])
  /\ CanAllocate(1)
  /\ LET callee == heap.held[w[1]][w[2]]
         list == ReplaceSlot(heap, Top.cell, "p", value)
         f == Fresh(list)
         frame == ReplaceSlot(ReplaceSlot(Alloc(list, "frame"), f, "args", Top.cell), f, "x", value)
     IN /\ callee # Nil /\ heap.kind[callee] = "closure"
        /\ Resume(frame)
        /\ envs' = <<[frame |-> f, closure |-> callee, lits |-> <<>>, pending |-> <<>>]>>
                     \o <<Popped(env)>> \o Tail(envs)
  /\ UNCHANGED <<captured, leaked>>

\* eval_list: the value of a statement before the last is abandoned.
Discarded ==
  /\ Evaluated
  /\ Resume(Abandon(heap, value))
  /\ UNCHANGED <<captured, envs, leaked>>

\* eval_list: after the last statement of a block its literals are abandoned,
\* and then, in the list the block is in, the value the block ended with.
BlockEnded ==
  /\ Evaluated
  /\ Resume(Abandon(DropLiterals(heap, env.lits), value))
  /\ Now([env EXCEPT !.lits = <<>>])
  /\ UNCHANGED <<captured, leaked>>

\* fcnCall after the body: the scope is abandoned, the return value uncounted
\* and the function expression abandoned.
Returned(h) ==
  LET v == h.held[env.frame]["ret"]
  IN /\ Deliver(Abandon(Uncount(AbandonScope(h, env.frame), v), env.closure), v)
     /\ envs' = Tail(envs)
     /\ UNCHANGED captured

\* The list of a body is not one of a block: its literals keep their counts for ever.
LiteralsKept == leaked' = leaked \union Range(env.lits)

\* The body ends without a return.
BodyEnded ==
  /\ Evaluated
  /\ InCall
  /\ Returned(heap)
  /\ LiteralsKept

\* It ends with a block, whose list abandons the literals; nothing abandons its value.
BlockEndsBody ==
  /\ Evaluated
  /\ InCall
  /\ Returned(DropLiterals(heap, env.lits))
  /\ UNCHANGED leaked

\* eval_return in the body's own list, or before other statements of a block.
Return ==
  /\ Evaluated
  /\ InCall
  /\ Returned(ReplaceSlot(heap, env.frame, "ret", value))
  /\ LiteralsKept

\* eval_return in the last statement of a block.
ReturnEndsBlock ==
  /\ Evaluated
  /\ InCall
  /\ Returned(DropLiterals(ReplaceSlot(heap, env.frame, "ret", value), env.lits))
  /\ UNCHANGED leaked

Next ==
  \/ Number \/ EmptyLiteral \/ Literal \/ Function \/ Call
  \/ \E w \in Variables :
       Variable(w) \/ Access(w) \/ AssignVariable(w) \/ AssignProperty(w) \/ Called(w)
  \/ Assigned \/ LiteralMade \/ Discarded \/ BlockEnded
  \/ BodyEnded \/ BlockEndsBody \/ Return \/ ReturnEndsBlock

Spec == Init /\ [][Next]_vars

-----------------------------------------------------------------------------
(* What is promised *)

\* Cells, environments and pending evaluations have the shapes of the code.
TypeOK ==
  /\ heap \in [kind : [Cell -> Kinds], count : [Cell -> Int],
               held : [Cell -> [Slots -> Cell \union {Nil}]], bad : BOOLEAN]
  /\ heap.bad \/ heap.count \in [Cell -> Nat]
  /\ captured \in [Cell -> Cell \union {Nil}]
  /\ \A k \in DOMAIN envs :
       /\ envs[k].frame \in Cell /\ envs[k].closure \in Cell \union {Nil}
       /\ envs[k].lits \in Seq(Cell)
  /\ mode \in {"expression", "value", "stopped"}
  /\ value \in Cell \union {Nil}
  /\ heap.bad <=> mode = "stopped"

\* The stored references to cell v: slots of allocated cells and literals.
SlotsOf(v) == {p \in Cell \X Slots : Allocated(heap, p[1]) /\ heap.held[p[1]][p[2]] = v}

LiteralsOf(v) ==
  UNION {{<<k, i>> : i \in {j \in DOMAIN envs[k].lits : envs[k].lits[j] = v}} : k \in DOMAIN envs}

Stored(v) ==
  Cardinality(SlotsOf(v)) + Cardinality(LiteralsOf(v)) + (IF v \in leaked THEN 1 ELSE 0)

\* The count of a value is the number of slots and lists of literals it is in, a declared
\* function counting one more, and so does a literal that a body left behind: nothing is
\* deleted while stored, and no count is gained but by such a literal.  And the heap and
\* the environments are well formed.
CountsExact ==
  /\ TypeOK
  /\ \A v \in Cell : ~heap.bad /\ heap.kind[v] \in {"object", "args", "closure"} =>
       heap.count[v] = Stored(v) + (IF v = Declared THEN 1 ELSE 0)

\* No slot of live memory refers to freed memory.
NothingDangles ==
  ~heap.bad => \A c \in Cell, s \in Slots :
    Allocated(heap, c) /\ heap.held[c][s] # Nil => Allocated(heap, heap.held[c][s])

\* A frame is freed when its call returns, and no sooner.
FramesRun ==
  ~heap.bad => \A f \in Cell :
    heap.kind[f] = "frame" <=> \E k \in DOMAIN envs : envs[k].frame = f

\* While a function runs, the variables of the function it was made in last.
CapturedLives ==
  \A k \in DOMAIN envs : envs[k].closure # Nil /\ Allocated(heap, envs[k].closure)
    => Allocated(heap, captured[envs[k].closure])
=============================================================================
