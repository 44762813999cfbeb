---------------------------- MODULE MCScripts -----------------------------
(* Inputs and properties of the symbols, of property lookup and of the statements. *)
EXTENDS Inputs, Symbols, Members, Statements

(* Inputs and property of the symbols. *)

LOCAL Empty == Node("empty", NoName1, <<>>)
LOCAL Names == {1, 2}
LOCAL Declared == [name : Names, scoped : BOOLEAN]
LOCAL Surrounds == {"block", "for", "fcndef", "fcnexpr", "operand"}

\* what the script, a part of it and a part of that declare
SymbolChoices == <<Declared, Declared, Surrounds, Declared, Surrounds, Declared>>

LOCAL DeclOf(d) == Decl(d.name, d.scoped)
LOCAL List(kids) == Node("list", NoName1, kids)
LOCAL Uses == <<Ref(1), Ref(2), Node("call", NoName1, <<Node("callee", 2, <<>>), Empty>>)>>
LOCAL Fcn(kind, body) == Node(kind, 3, <<Empty, body>>)

\* a part of the script: what it declares, what it is around, and uses of both names
LOCAL Part(kind, d, inner) ==
  LET body == List(<<DeclOf(d)>> \o inner \o Uses)
  IN CASE kind = "block" -> Node("block", NoName1, <<body>>)
       [] kind = "for" -> Node("for", NoName1, <<DeclOf(d), Empty, Ref(1), List(inner \o Uses)>>)
       [] kind = "fcndef" -> Fcn("fcndef", body)
       [] kind = "fcnexpr" -> Node("return", NoName1, <<Fcn("fcnexpr", body)>>)
       [] kind = "operand" -> Node("math", NoName1, <<Ref(1), Fcn("fcnexpr", body)>>)

LOCAL IsFcn(kind) == kind \in {"fcndef", "fcnexpr", "operand"}

\* the parts of the script, its outermost one 0, and where in the language a
\* declaration of one belongs: a let there, a var in the nearest function around
LOCAL Parts == 0..2
LOCAL InFcn(i) == i = 0 \/ IsFcn(input[2 * i + 1])
LOCAL DeclsOf(i) == IF i = 0 THEN {input[1], input[2]} ELSE {input[2 * i + 2]}
LOCAL FcnOf(i) == CHOOSE j \in 0..i : InFcn(j) /\ \A k \in (j + 1)..i : ~InFcn(k)
LOCAL Declares(i, name, scoped) == \E d \in DeclsOf(i) : d.name = name /\ d.scoped = scoped
LOCAL Home(name) ==
  {j \in Parts : Declares(j, name, TRUE)} \cup {FcnOf(j) : j \in {k \in Parts : Declares(k, name, FALSE)}}
LOCAL Nearest(i, name) == Max({-1} \cup (Home(name) \cap 0..i))

\* the part a node or a table is in
LOCAL PartOf(st, at) ==
  Cardinality({t \in DOMAIN st.tables \ {GlobalTable, TopBlock} : IsPrefix(t, at)})

\* no name is both a let and a var of the same place, which the language refuses
LOCAL Legal ==
  \A i \in Parts, name \in Names :
    Declares(i, name, TRUE) => ~\E k \in Parts : FcnOf(k) = i /\ Declares(k, name, FALSE)

\* a let of the name around the function whose var is meant, and one directly in a function
LOCAL Shadowed(i, name) ==
  LET home == Nearest(i, name)
  IN ~Declares(home, name, TRUE) /\ \E j \in 0..home : Declares(j, name, TRUE)
LOCAL Leaks(name) == \E i \in Parts \ {0} : InFcn(i) /\ Declares(i, name, TRUE)

LOCAL LeavesFunctions == \E d \in DeclsOf(0) : d.scoped \/ \E name \in Names : Leaks(name)

\* Every use of a name is given the variable the language means and the number of
\* functions between, except where a let around a function hides what the function itself
\* declares and where a let directly in a function belongs to the block around it.
\* Without lets of those two places, two variables used in one part have two slots.
ScopesResolve ==
  [][(Built("symbols", 6) /\ Legal =>
        LET inner == Part(input[5], input[6], <<>>)
            outer == Part(input[3], input[4], <<inner>>)
            st == CompileScripts(List(<<DeclOf(input[1]), DeclOf(input[2]), outer>> \o Uses))
            Hops(from, to) == Cardinality({k \in (from + 1)..to : InFcn(k)})
            Plain == {ref \in Range(st.refs) : ref.kind = "ref"}
        IN ~st.failed =>
             /\ \A ref \in Range(st.refs) :
                  LET i == PartOf(st, ref.at)
                      found == PartOf(st, ref.table)
                  IN /\ ~Leaks(ref.name) => (Shadowed(i, ref.name) <=> found # Nearest(i, ref.name))
                     /\ ref.level = Hops(found, i)
             /\ ~LeavesFunctions =>
                  \A p, q \in Plain :
                    (PartOf(st, p.at) = PartOf(st, q.at) /\ p.name # q.name)
                      => <<p.level, p.scoped, p.frameIdx>> # <<q.level, q.scoped, q.frameIdx>>)]_vars

---------------------------------------------------------------------------
(* Inputs and property of property lookup. *)

\* the three functions of the scripts have six objects; the program's own has the next two
LOCAL World0 == NewClosure(SystemWorld)
LOCAL Own == Function(4)

LOCAL Targets == {Own, Object(8), Object(2), Object(6), Object(9), Number(5)}
LOCAL Made ==
  [op : {"literal", "new", "number"}]
  \cup [op : {"assign"}, to : {Own}, name : {"prototype"}, x : {Object(2), Object(9), Object(10), Number(7)}]
LOCAL Steps ==
  Made \cup [op : {"assign"}, to : Targets, name : {"a"}, x : {Number(7), Undefined}]
  \cup [op : {"assign"}, to : {Object(2), Object(9)}, name : {"valueOf"}, x : {Number(7)}]
  \cup [op : {"value"}, to : {Own, Object(9), Object(10)}, x : {Number(3)}]
LOCAL LastSteps == [op : {"assign"}, to : Targets, name : {"a", "length"}, x : {Number(8)}]

MemberChoices == <<Made, Steps, Steps, LastSteps>>

LOCAL There(world, v) == IsObject(v) => v.val[1] <= Len(world.objects)
LOCAL Applied(world, s) ==
  CASE s.op = "literal" -> EvalLiteral(world)
    [] s.op = "new" -> EvalNew(world, Own)
    [] s.op = "number" -> NewNumber(world, 5)
    [] s.op = "assign" -> IF There(world, s.to) /\ There(world, s.x) THEN EvalAssignName(world, s.to, s.name, s.x) ELSE world
    [] s.op = "value" -> IF There(world, s.to) THEN FcnObjectSetValue(world, s.to, s.x) ELSE world

LOCAL Everything(world) == {Object(k) : k \in DOMAIN world.objects} \cup {Function(k) : k \in 1..4} \cup {Number(5)}

\* the chain of the language, to as many prototypes as there are objects, and what ends it
RECURSIVE Chain(_, _, _)
Chain(world, obj, n) ==
  LET proto == ObjectAt(world, obj).proto
  IN <<obj>> \o IF n > 0 /\ IsObject(proto) THEN Chain(world, proto, n - 1) ELSE <<>>
LOCAL Whole(world, v) ==
  Chain(world, Start(world, v), Len(world.objects)) \o <<world.builtinProto[IF v.type = "closure" THEN "closure" ELSE "object"], Object(2)>>
LOCAL HasOwn(world, obj, name) == PairValue(world, obj, name).type # "undef"
LOCAL Reads(world, v, name) == EvalAccessName(world, v, name)
LOCAL Same(x, y) == x.type = y.type /\ x.val = y.val

\* the holder is what the code can reach: the object, its prototype or the builtins of the type
LOCAL Reachable(world, v, obj) ==
  LET chain == Chain(world, Start(world, v), 1)
  IN obj \in ToSet(chain) \/ obj = world.builtinProto[IF v.type = "closure" THEN "closure" ELSE "object"]

\* A property reads as the first holder in the chain of the language has it, if that is the
\* object itself, its prototype or the builtins of its type, and as undefined if only a
\* prototype's prototype has it.  An assignment is read back, on a primitive value too, and
\* what another value reads changes only if it finds the property where the assignment put
\* it.  A wrapped number counts as its number, though its valueOf() gives the object.
MembersFound ==
  [][(Built("members", 4) =>
        LET w1 == Applied(World0, input[1])  w2 == Applied(w1, input[2])  world == Applied(w2, input[3])
            last == input[4]
            after == Applied(world, last)
            place == Start(world, last.to)
            Found(v, name) == SelectSeq(Whole(after, v), LAMBDA obj : HasOwn(after, obj, name))
        IN /\ \A v \in Everything(after) :
                LET reached == SelectSeq(Found(v, "a"), LAMBDA obj : Reachable(after, v, obj))
                IN Same(Reads(after, v, "a"), IF reached = <<>> THEN Undefined ELSE PairValue(after, Head(reached), "a"))
           /\ There(world, last.to) =>
                /\ Same(Reads(after, last.to, last.name), last.x)
                /\ \A v \in Everything(world), name \in {"a", "length"} :
                     Same(Reads(after, v, name), Reads(world, v, name))
                       \/ (name = last.name /\ Reachable(world, v, place))
           /\ \A v \in Everything(world) :
                LET base == ObjectAt(world, v).baseVal
                IN IsObject(v) /\ base.type = "int" /\ Same(Reads(world, v, "valueOf"), Builtin("propfcn", "num", "valueOf")) =>
                     Same(CallObjFcn(world, v), base) /\ Same(CallValueOf(world, v), v))]_vars

---------------------------------------------------------------------------
(* Programs and property of the statements. *)

LOCAL Mark(name) == [kind |-> "mark", name |-> name]
LOCAL EmptyStmt == [kind |-> "empty"]
LOCAL ListOf(stmts) == [kind |-> "list", stmts |-> stmts]
LOCAL WayOut(flow, expr) == [kind |-> "return", flow |-> flow, expr |-> expr, name |-> "result"]

LOCAL Forms == {"block", "if", "ifelse", "while", "dowhile", "for", "forno", "forin", "forof"}
LOCAL Leaves == {Mark("m"), WayOut("return", TRUE), WayOut("return", FALSE), WayOut("break", FALSE), WayOut("continue", FALSE)}
                  \cup {[kind |-> "tern", cond |-> cond, yes |-> Mark("y"), no |-> Mark("n")] : cond \in {"and", "or"}}
LOCAL Answers == [1..5 -> BOOLEAN]
StatementChoices == <<Forms, Forms, Leaves, {<<FALSE, "plain">>, <<FALSE, "and">>, <<TRUE, "or">>}, Answers>>

LOCAL Around(form, cond, body) ==
  CASE form = "block" -> [kind |-> "block", body |-> body]
    [] form = "if" -> [kind |-> "if", cond |-> cond, yes |-> body, no |-> EmptyStmt]
    [] form = "ifelse" -> [kind |-> "if", cond |-> cond, yes |-> EmptyStmt, no |-> body]
    [] form \in {"while", "dowhile"} -> [kind |-> form, cond |-> cond, body |-> body]
    [] form \in {"for", "forno"} -> [kind |-> "for", init |-> Mark("i"), cond |-> cond,
                                     incr |-> IF form = "for" THEN Mark("+") ELSE EmptyStmt, body |-> body]
    [] form \in {"forin", "forof"} -> [kind |-> "forin", skips |-> form = "forin", values |-> <<"1", "undef", "2">>, body |-> body]
\* a statement of the inner form between two marks, inside one of the outer form
LOCAL Program ==
  LET inner == Around(input[2], "plain", ListOf(<<input[3], Mark("b")>>))
      outer == Around(input[1], input[4][2], ListOf(<<Mark("a"), inner, Mark("c")>>))
  IN ListOf(<<outer, Mark("d")>>)

(***************************************************************************)
(* The language: what is left to do, as a stack.  A loop leaves a sign on  *)
(* it to come back to, that continue goes to and break goes past.          *)
(***************************************************************************)
LOCAL Again(s) == [kind |-> "again", loop |-> s]
LOCAL Test(s) == [kind |-> "test", loop |-> s]
LOCAL From(work, k) == SubSeq(work, k, Len(work))
LOCAL NextSign(work) == SelectInSeq(work, LAMBDA w : w.kind = "again")

\* the answers a condition takes, and what it comes to
LOCAL Took(cond, answers) ==
  LET a == answers \o <<FALSE, FALSE>>
      n == IF cond = "plain" \/ a[1] = (cond = "or") THEN 1 ELSE 2
  IN [yes |-> a[n], rest |-> IF n <= Len(answers) THEN From(answers, n + 1) ELSE <<>>]

\* one thing done: what takes its place on the stack
LOCAL Does(st) ==
  LET s == Head(st.work)  rest == Tail(st.work)
      cond == IF s.kind = "test" THEN s.loop.cond ELSE s.cond
      took == Took(cond, st.answers)
      Then(work) == [st EXCEPT !.work = work \o rest]
      Asked(work) == [st EXCEPT !.work = work \o rest, !.answers = took.rest]
      Left(work, v) == [st EXCEPT !.work = work, !.ret = v]
      sign == NextSign(rest)
  IN CASE s.kind = "mark" -> [st EXCEPT !.work = rest, !.trace = Append(@, s.name)]
       [] s.kind = "list" -> Then(s.stmts)
       [] s.kind = "block" -> Then(<<s.body>>)
       [] s.kind \in {"if", "tern"} ->
            LET stmt == IF took.yes THEN s.yes ELSE s.no IN Asked(IF stmt = EmptyStmt THEN <<>> ELSE <<stmt>>)
       [] s.kind = "while" -> Then(<<Test(s)>>)
       [] s.kind = "dowhile" -> Then(<<s.body, Again(s)>>)
       [] s.kind = "for" -> Then(<<s.init, Test(s)>>)
       [] s.kind = "forin" -> Then(<<Again(s)>>)
       [] s.kind = "test" -> Asked(IF took.yes THEN <<s.loop.body, Again(s.loop)>> ELSE <<>>)
       [] s.kind = "again" ->
            LET values == IF s.loop.kind # "forin" THEN <<>>
                          ELSE SelectSeq(s.loop.values, LAMBDA v : ~(s.loop.skips /\ v = "undef"))
            IN CASE s.loop.kind = "forin" ->
                      Then(IF values = <<>> THEN <<>>
                           ELSE <<Mark(Head(values)), s.loop.body,
                                  Again([s.loop EXCEPT !.values = Tail(values)])>>)
                 [] s.loop.kind = "for" -> Then((IF s.loop.incr = EmptyStmt THEN <<>> ELSE <<s.loop.incr>>) \o <<Test(s.loop)>>)
                 [] OTHER -> Then(<<Test(s.loop)>>)
       [] s.kind = "return" /\ s.flow = "continue" -> [st EXCEPT !.work = From(rest, sign)]
       [] s.kind = "return" /\ s.flow = "break" -> [st EXCEPT !.work = From(rest, sign + 1)]
       [] s.kind = "return" /\ s.flow = "return" ->
            IF s.expr THEN [st EXCEPT !.work = <<>>, !.trace = Append(@, s.name), !.ret = NewValue(Len(st.trace) + 1)]
            ELSE [st EXCEPT !.work = <<>>]
RECURSIVE Meaning(_)
Meaning(st) == IF st.work = <<>> THEN st ELSE Meaning(Does(st))
LOCAL Means(program, isNew, answers) ==
  Meaning([work |-> <<program>>, answers |-> answers, trace |-> <<>>, ret |-> IF isNew THEN This ELSE NoResult])

LOCAL IsLoop(form) == form \in {"while", "dowhile", "for", "forno", "forin", "forof"}
LOCAL Looping == IsLoop(input[1]) \/ IsLoop(input[2])
LOCAL Innermost == IF IsLoop(input[2]) THEN input[2] ELSE input[1]
\* a way out the code follows as the language means it: a return that leaves no loop, and a
\* continue of a loop that ends each turn with something other than the body's own value
LOCAL Followed ==
  input[3].kind = "return" =>
    CASE input[3].flow = "return" -> ~Looping
      [] input[3].flow = "break" -> FALSE
      [] input[3].flow = "continue" -> Innermost \in {"while", "dowhile", "for"}

\* A function body runs the statements of the language's reading in its order and asks its
\* conditions as often, and hands back the same value, as long as every way out it takes
\* is one the code can tell; a continue, and a return without a value, clear the value a
\* constructor hands back.  A value a statement leaves is abandoned, but those of for-in's
\* turns and the last of the body, and no value twice, but the last of a for loop.
StatementsRun ==
  [][(Built("statements", 5) =>
        LET isNew == input[4][1]
            done == FcnCall(Program, isNew, input[5])
            meant == Means(Program, isNew, input[5])
            cleared == input[3].kind = "return" /\ ~input[3].expr
            made == {k \in DOMAIN done.run.trace : done.run.trace[k] \notin {"1", "2", "undef", "result"}}
            forms == {input[1], input[2]}
        IN Looping \/ (input[3].kind = "return" => input[3].flow = "return") =>
             /\ Followed => /\ <<done.run.trace, done.run.answers>> = <<meant.trace, meant.answers>>
                            /\ done.run.ret = IF isNew /\ cleared /\ done.run.ret = NoResult THEN NoResult ELSE meant.ret
             /\ forms \cap {"for", "forno"} = {} => IsInjective(done.run.dropped)
             /\ forms \cap {"forin", "forof"} = {} =>
                  made \ {done.v.n} \subseteq ToSet(done.run.dropped) /\ ToSet(done.run.dropped) \subseteq made)]_vars
===========================================================================
