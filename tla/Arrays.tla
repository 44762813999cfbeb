------------------------------- MODULE Arrays -------------------------------
(***************************************************************************)
(* Arrays: the vector of their elements (src/js_vector.c), access by index *)
(* (src/js_eval.c), their methods (src/js_object.c) and those written in   *)
(* JavaScript (src/systemObj.js).                                          *)
(*                                                                         *)
(* A vector is its cells, as many as it has room for, and its size.  An    *)
(* array is a vector and the object of its named properties.               *)
(***************************************************************************)
EXTENDS Json, FiniteSetsExt

CONSTANT FirstCapacity   \* cells of a vector's first allocation, 10 in the code

NoVector == [cells |-> <<>>, size |-> 0]

\* memory is cleared past the size, whatever was there
VecGrow(vec, increment) ==
  LET cap == Max({2 * Len(vec.cells), vec.size + increment, FirstCapacity})
  IN [vec EXCEPT !.cells = SubSeq(@, 1, vec.size) \o [i \in 1..cap - vec.size |-> Undef]]

VecAdd(vec, n) ==
  LET room == IF vec.cells = <<>> \/ vec.size + n > Len(vec.cells) THEN VecGrow(vec, n) ELSE vec
  IN [room EXCEPT !.size = @ + n]

VecPush(vec, x) == LET v == VecAdd(vec, 1) IN [v EXCEPT !.cells[v.size] = x]

Elements(vec) == SubSeq(vec.cells, 1, vec.size)

-----------------------------------------------------------------------------

NewArray(initSize) ==
  [vec |-> IF initSize > 0 THEN VecGrow(NoVector, initSize) ELSE NoVector,
   names |-> <<>>]

\* every element is counted as it is evaluated, in room made for all of them
EvalArray(values) ==
  [NewArray(Len(values)) EXCEPT
     !.vec.cells = values \o SubSeq(@, Len(values) + 1, Len(@)),
     !.vec.size = Len(values)]

\* an integer not below 0, or what can be read as one, is an index, and anything else a name
Index(field) == LET idx == Conv2Int(field) IN IF idx.type = "int" /\ Count(idx) >= 0 THEN Count(idx) ELSE -1

NameOf(field) == IF field.type = "string" THEN field.val ELSE FcnNumToString(field)

\* Mutant: one cell short
StoreShort(array, idx, x) ==
  LET diff == idx - array.vec.size
      vec == IF diff > 0 THEN VecAdd(array.vec, diff) ELSE array.vec
  IN [array EXCEPT !.vec = IF idx < vec.size THEN [vec EXCEPT !.cells[idx + 1] = x] ELSE vec]

\* the cell is made before the value is known
Store(array, idx, x) ==
  LET diff == idx - array.vec.size + 1
      vec == IF diff > 0 THEN VecAdd(array.vec, diff) ELSE array.vec
  IN [array EXCEPT !.vec = [vec EXCEPT !.cells[idx + 1] = x]]

WithName(names, name, x) == Append(SelectSeq(names, LAMBDA p : p.name # name), [name |-> name, value |-> x])
NamedValue(names, name) ==
  LET found == SelectSeq(names, LAMBDA p : p.name = name) IN IF found = <<>> THEN Undef ELSE found[1].value

\* a[field] = x
EvalStore(array, field, x) ==
  IF Index(field) >= 0 THEN Store(array, Index(field), x)
  ELSE [array EXCEPT !.names = WithName(@, NameOf(field), x)]

LengthName == <<21, 22>>
PropArrayLength(array) == IntV(array.vec.size)

EvalAccess(array, field) ==
  LET idx == Index(field)
      own == NamedValue(array.names, NameOf(field))
  IN IF idx >= 0 THEN IF idx < array.vec.size THEN array.vec.cells[idx + 1] ELSE Undef
     ELSE IF own = Undef /\ NameOf(field) = LengthName THEN PropArrayLength(array) ELSE own

\* the elements are put in the room of the new array and not counted; from the end, the
\* second argument is not looked at
FcnArraySlice(array, args) ==
  LET cnt == array.vec.size
      first == Count(IntArg(args, 1, IntV(0)))
      given == Count(IntArg(args, 2, IntV(cnt)))
      wrapped == IF given < 0 THEN given + cnt ELSE given
      end == IF wrapped > cnt \/ wrapped = 0 THEN cnt ELSE wrapped
      start == IF first < 0 THEN first + cnt ELSE first
      count == IF first < 0 THEN -first ELSE end - start
      slice == NewArray(count)
  IN IF start < 0 \/ count < 0 \/ start + count > Len(array.vec.cells) THEN Garbage
     ELSE [slice EXCEPT !.vec.cells =
             SubSeq(array.vec.cells, start + 1, start + count) \o SubSeq(@, count + 1, Len(@))]

FcnArrayConcat(array, args) ==
  LET Spread(arg) == IF arg.type = "array" THEN arg.val ELSE <<arg>>
      all == Elements(array.vec) \o FlattenSeq([i \in 1..Len(args) |-> Spread(args[i])])
  IN [NewArray(0) EXCEPT !.vec = FoldLeft(VecPush, NoVector, all)]

-----------------------------------------------------------------------------
(* The methods in JavaScript.                                              *)

\* a single number is a length, unless it is 0
ArrayConstructor(args) ==
  IF Len(args) = 1 /\ args[1].type \in {"int", "dbl"}
    THEN IF args[1].val[1] # 0 THEN EvalStore(NewArray(0), EvalMath("sub", args[1], IntV(1)), Undef) ELSE NewArray(0)
  ELSE FoldLeft(LAMBDA a, i : EvalStore(a, IntV(i - 1), args[i]), NewArray(0), [i \in 1..Len(args) |-> i])

Push(array, args) ==
  FoldLeft(LAMBDA a, i : EvalStore(a, IntV(array.vec.size + i - 1), args[i]), array, [i \in 1..Len(args) |-> i])

Exchange(array, i, j) ==
  EvalStore(EvalStore(array, IntV(i), EvalAccess(array, IntV(j))), IntV(j), EvalAccess(array, IntV(i)))

IsLess(p, q) == EvalMath("lt", p, q).val[1] = 1

\* the nearest elements from i up and from j down that are on the wrong side of the pivot
Climb(array, pv, i) == Min({k \in i..array.vec.size : ~IsLess(EvalAccess(array, IntV(k)), pv)})
Descend(array, pv, j) == Max({k \in -1..j : ~IsLess(pv, EvalAccess(array, IntV(k)))})

RECURSIVE Parted(_, _, _, _)
Parted(array, pv, i, j) ==
  LET up == Climb(array, pv, i)
      down == Descend(array, pv, j)
  IN IF i > j THEN [array |-> array, at |-> i]
     ELSE IF up <= down THEN Parted(Exchange(array, up, down), pv, up + 1, down - 1)
     ELSE [array |-> array, at |-> up]

RECURSIVE QSort(_, _, _)
QSort(array, left, right) ==
  LET parted == Parted(array, EvalAccess(array, IntV((left + right) \div 2)), left, right)
      lower == IF left < parted.at - 1 THEN QSort(parted.array, left, parted.at - 1) ELSE parted.array
  IN IF left >= right THEN array
     ELSE IF parted.at < right THEN QSort(lower, parted.at, right) ELSE lower

Sort(array) == IF array.vec.size > 1 THEN QSort(array, 0, array.vec.size - 1) ELSE array
=============================================================================
