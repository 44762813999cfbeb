----------------------------- MODULE Statements -----------------------------
(***************************************************************************)
(* The statements of a function body as js_eval.c runs them: lists,        *)
(* blocks, conditions, loops and the three ways out of them.               *)
(* A statement is a tree of records.  What its expressions compute is left *)
(* out: a "mark" is an expression statement that makes a new value, known  *)
(* by its place in the trace, and a condition takes its answer from the    *)
(* answers that are left; without any it is false.                         *)
(***************************************************************************)
EXTENDS Integers, Sequences, SequencesExt

NoResult == [type |-> "undef", n |-> 0]
This == [type |-> "this", n |-> 0]
Collection == [type |-> "collection", n |-> 0]
Control(ctl) == [type |-> "control", n |-> 0, ctl |-> ctl]
NewValue(n) == [type |-> "fresh", n |-> n]

\* a run: the answers left, the statements run so far, the values abandoned, values[0] of the frame
LOCAL Value(run, v) == [run |-> run, v |-> v]
Abandon(run, v) == IF v.type = "fresh" THEN [run EXCEPT !.dropped = Append(@, v.n)] ELSE run
EvalMark(s, run) ==
  LET r == [run EXCEPT !.trace = Append(@, s.name)] IN Value(r, NewValue(Len(r.trace)))

LOCAL Ask(run) ==
  IF run.answers = <<>> THEN [run |-> run, yes |-> FALSE]
  ELSE [run |-> [run EXCEPT !.answers = Tail(@)], yes |-> Head(run.answers)]
Either(run) == LET left == Ask(run) IN IF left.yes THEN left ELSE Ask(left.run)
Both(run) == LET left == Ask(run) IN IF left.yes THEN Ask(left.run) ELSE left
Condition(cond, run) ==
  CASE cond = "plain" -> Ask(run)
    [] cond = "or" -> Either(run)
    [] cond = "and" -> Both(run)

EvalTern(s, run) ==
  LET cond == Condition(s.cond, run) IN EvalMark(IF cond.yes THEN s.yes ELSE s.no, cond.run)

\* js.y puts ctl_break and ctl_continue into the node's flag: aux, which the control value
\* is made from, is zero for all three
AuxOf(s) == "none"
EvalReturn(s, run) ==
  LET result == IF s.expr THEN EvalMark([name |-> s.name], run) ELSE Value(run, NoResult)
  IN Value([result.run EXCEPT !.ret = result.v], Control(AuxOf(s)))

RECURSIVE Dispatch(_, _)
RECURSIVE EvalList(_, _)
RECURSIVE EvalWhile(_, _)
RECURSIVE EvalDoWhile(_, _)
RECURSIVE ForTurns(_, _)
RECURSIVE ForInTurns(_, _, _, _)

\* MUTANT: a list goes on after a statement that ended in a control value
EvalListGoesOn(stmts, run) ==
  IF stmts = <<>> THEN Value(run, NoResult)
  ELSE LET first == Dispatch(Head(stmts), run)
       IN IF Len(stmts) = 1 THEN first
          ELSE EvalList(Tail(stmts), Abandon(first.run, first.v))

EvalList(stmts, run) ==
  IF stmts = <<>> THEN Value(run, NoResult)
  ELSE LET first == Dispatch(Head(stmts), run)
       IN IF first.v.type = "control" \/ Len(stmts) = 1 THEN first
          ELSE EvalList(Tail(stmts), Abandon(first.run, first.v))

EvalBlock(s, run) == Dispatch(s.body, run)

EvalIfThen(s, run) ==
  LET cond == Condition(s.cond, run)
      stmt == IF cond.yes THEN s.yes ELSE s.no
  IN IF stmt.kind = "empty" THEN Value(cond.run, NoResult) ELSE Dispatch(stmt, cond.run)

\* what a turn's value does to the loop around it
LOCAL Breaks(v) == v.type = "control" /\ v.ctl = "break"
LOCAL Leaves(v) == v.type = "control" /\ v.ctl = "return"

EvalWhile(s, run) ==
  LET cond == Condition(s.cond, run)
      turn == Dispatch(s.body, cond.run)
  IN CASE ~cond.yes -> Value(cond.run, NoResult)
       [] cond.yes /\ Leaves(turn.v) -> turn
       [] cond.yes /\ Breaks(turn.v) -> Value(turn.run, NoResult)
       [] OTHER -> EvalWhile(s, Abandon(turn.run, turn.v))

EvalDoWhile(s, run) ==
  LET turn == Dispatch(s.body, run)
      cond == Condition(s.cond, Abandon(turn.run, turn.v))
  IN CASE Leaves(turn.v) -> turn
       [] Breaks(turn.v) -> Value(turn.run, NoResult)
       [] OTHER -> IF cond.yes THEN EvalDoWhile(s, cond.run) ELSE Value(cond.run, NoResult)

\* the value of the last thing a for loop ran is abandoned, and then it is the loop's value
ForTurns(s, before) ==
  LET cond == Condition(s.cond, before.run)
      turn == Dispatch(s.body, cond.run)
      left == Abandon(turn.run, turn.v)
      incr == EvalMark(s.incr, left)
  IN CASE ~cond.yes -> Value(cond.run, before.v)
       [] cond.yes /\ (Leaves(turn.v) \/ Breaks(turn.v)) -> turn
       [] OTHER -> ForTurns(s, IF s.incr.kind = "empty" THEN Value(left, turn.v)
                               ELSE Value(Abandon(incr.run, incr.v), incr.v))
EvalFor(s, run) ==
  LET init == EvalMark(s.init, run) IN ForTurns(s, Value(Abandon(init.run, init.v), init.v))

\* a collection without elements is its loop's value; values holds the elements of the array or the pairs of the object; the turns' values are
\* not abandoned, and for in over an array passes by the elements that are undefined
ForInTurns(s, values, run, val) ==
  LET turn == Dispatch(s.body, [run EXCEPT !.trace = Append(@, Head(values))])
  IN CASE values = <<>> -> Value(run, val)
       [] values # <<>> /\ s.skips /\ Head(values) = "undef" -> ForInTurns(s, Tail(values), run, val)
       [] OTHER -> IF Leaves(turn.v) \/ Breaks(turn.v) THEN turn
                   ELSE ForInTurns(s, Tail(values), turn.run, turn.v)
EvalForIn(s, run) == ForInTurns(s, s.values, run, Collection)

Dispatch(s, run) ==
  CASE s.kind = "mark" -> EvalMark(s, run)
    [] s.kind = "tern" -> EvalTern(s, run)
    [] s.kind = "return" -> EvalReturn(s, run)
    [] s.kind = "list" -> EvalList(s.stmts, run)
    [] s.kind = "block" -> EvalBlock(s, run)
    [] s.kind = "if" -> EvalIfThen(s, run)
    [] s.kind = "while" -> EvalWhile(s, run)
    [] s.kind = "dowhile" -> EvalDoWhile(s, run)
    [] s.kind = "for" -> EvalFor(s, run)
    [] s.kind = "forin" -> EvalForIn(s, run)

\* new loads the return value with the object it made; the value of the body is dropped
FcnCall(body, isNew, answers) ==
  LET start == [answers |-> answers, trace |-> <<>>, dropped |-> <<>>, ret |-> IF isNew THEN This ELSE NoResult]
  IN Dispatch(body, start)
=============================================================================
