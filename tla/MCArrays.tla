------------------------------ MODULE MCArrays ------------------------------
(* Inputs and property of arrays. *)
EXTENDS Inputs, Arrays

LOCAL Literals == {<<>>, <<IntV(3)>>, <<IntV(3), IntV(1)>>, <<IntV(2), IntV(3), IntV(1)>>}
LOCAL Stores == [op : {"store"}, field : {IntV(0), IntV(2), IntV(5), Text(<<1>>), DblV(<<3, 2>>), IntV(-1), Text(<<21>>)}]
LOCAL Args == {<<>>, <<IntV(4)>>, <<ArrayOf(<<IntV(4), IntV(0)>>), IntV(5)>>}
LOCAL Methods ==
  [op : {"concat"}, args : Args]
  \cup [op : {"push"}, args : {<<IntV(4)>>, <<IntV(4), IntV(0)>>}]
  \cup [op : {"array"}, args : {<<>>, <<IntV(0)>>, <<IntV(3)>>, <<DblV(<<5, 2>>)>>, <<IntV(3), IntV(2)>>}]
  \cup [op : {"sort"}]
LOCAL Slices == {<<>>, <<IntV(1)>>, <<IntV(-1)>>, <<IntV(1), IntV(2)>>, <<IntV(0), IntV(-1)>>, <<IntV(2), IntV(1)>>}

ArrayChoices == <<Literals, Stores \cup Methods, Stores \cup Methods, Stores \cup Methods, Slices>>

LOCAL NewValue == IntV(7)
LOCAL Apply(array, m) ==
  CASE m.op = "store" -> EvalStore(array, m.field, NewValue)
    [] m.op = "concat" -> FcnArrayConcat(array, m.args)
    [] m.op = "push" -> Push(array, m.args)
    [] m.op = "array" -> ArrayConstructor(m.args)
    [] m.op = "sort" -> Sort(array)

\* the same on the sequence of elements alone
LOCAL Padded(s, n) == s \o [i \in 1..(n - Len(s)) |-> Undef]
LOCAL Expected(s, m) ==
  CASE m.op = "store" ->
         IF Index(m.field) < 0 THEN s ELSE [Padded(s, Index(m.field) + 1) EXCEPT ![Index(m.field) + 1] = NewValue]
    [] m.op = "concat" -> s \o (IF m.args = <<>> THEN <<>> ELSE IF m.args[1].type = "array" THEN m.args[1].val \o Tail(m.args) ELSE m.args)
    [] m.op = "push" -> s \o m.args
    [] m.op = "array" ->
         IF Len(m.args) = 1 THEN Padded(<<>>, Trunc(m.args[1].val)) ELSE m.args
    [] m.op = "sort" -> SortSeq(s, LAMBDA a, b : Less(a.val, b.val))

LOCAL Sorts(s, m) == m.op = "sort" => \A i \in 1..Len(s) : s[i] # Undef

\* An array reads like the sequence of its elements after any methods and assignments, as
\* far as an index can reach, and its length is the sequence's; a slice with its ends in
\* order holds the elements that it was asked for in its cells, and has no length.
ArraysKeep ==
  [][(Built("arrays", 5) =>
        LET a1 == Apply(EvalArray(input[1]), input[2])  s1 == Expected(input[1], input[2])
            a2 == Apply(a1, input[3])  s2 == Expected(s1, input[3])
            a3 == Apply(a2, input[4])  s3 == Expected(s2, input[4])
            slice == FcnArraySlice(a3, input[5])
            Bound(i, default) == IF Len(input[5]) < i THEN default ELSE input[5][i].val[1] + (IF input[5][i].val[1] < 0 THEN Len(s3) ELSE 0)
            from == Bound(1, 0)
            upto == Bound(2, Len(s3))
            Valid == Sorts(input[1], input[2]) /\ Sorts(s1, input[3]) /\ Sorts(s2, input[4])
        IN Valid =>
             /\ \A i \in 0..Len(s3) + 1 : EvalAccess(a3, IntV(i)) = (IF i < Len(s3) THEN s3[i + 1] ELSE Undef)
             /\ EvalAccess(a3, Text(LengthName)) = IntV(Len(s3))
             /\ (0 <= from /\ from <= upto /\ upto <= Len(s3)) =>
                  /\ SubSeq(slice.vec.cells, 1, upto - from) = SubSeq(s3, from + 1, upto)
                  /\ PropArrayLength(slice) = IntV(0))]_vars
=============================================================================
