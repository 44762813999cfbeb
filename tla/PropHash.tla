------------------------------ MODULE PropHash ------------------------------
(***************************************************************************)
(* The properties of one script object (js_object.c, js_vector.c): a       *)
(* vector of name/value pairs followed by an open-addressed hash table     *)
(* of pair numbers, and the copy of both that a document keeps.            *)
(*                                                                         *)
(* The object is written as a literal (eval_obj), assigned to (eval_access *)
(* and eval_assign), stored in a document and read back marshaled          *)
(* (marshalDoc), and made modifiable again by the next assignment          *)
(* (cloneObject).  A name is a member of Names with its hash in HashOf; a  *)
(* pointer to a value is the pair it points at and whether the vector that *)
(* held the pair has been freed since.                                     *)
(***************************************************************************)
EXTENDS Integers, Sequences, FiniteSetsExt

CONSTANTS
  Names,      \* property names
  HashOf,     \* hashStr of each name
  Values,     \* values the script assigns
  Undef,      \* vt_undef
  FirstCap,   \* firstCapacity, the least capacity of a vector
  MaxLiteral, \* bound: pairs of the literal the object starts as
  MaxNest     \* bound: assignments inside one another

ASSUME HashAssumption == HashOf \in [Names -> Nat]
ASSUME UndefAssumption == Undef \notin Values
ASSUME CapAssumption == FirstCap \in Nat /\ FirstCap >= 2
ASSUME BoundsAssumption == MaxLiteral \in Nat /\ MaxNest \in Nat

VARIABLES
  pairs,      \* the pairs, oldest first
  cap,        \* vec_max of the vector; the number of pairs when marshaled
  table,      \* the hash table: a pair's number, 0 when free
  marshaled,  \* the object is the copy in a document
  lvals,      \* the left sides evaluated and not yet assigned, innermost first
  running     \* FALSE once a probe has found the table full and exited

vars == <<pairs, cap, table, marshaled, lvals, running>>

\* Mutant: no slots beyond one for each pair.
TightMod(c) == c

HashMod(c) == (3 * c) \div 2

Larger(a, b) == IF a > b THEN a ELSE b

-----------------------------------------------------------------------------
(* lookupValue: from the name's own slot to the first that is free or, when
   find is asked for, holds the name. *)

Slot(tab, n, d) ==
  LET mod == Cardinality(DOMAIN tab) IN ((HashOf[n] % mod) + d) % mod

Stops(tab, held, n) ==
  {d \in DOMAIN tab : tab[Slot(tab, n, d)] \in held \union {0}}

StopSlot(tab, held, n) == Slot(tab, n, Min(Stops(tab, held, n)))

\* The pairs a probe for name n compares equal.
Held(ps, n) == {i \in DOMAIN ps : ps[i].name = n}

\* A probe for n comes back to its start: "hash table overflow", exit.
Overflows(n) ==
  DOMAIN table # {} /\ Stops(table, Held(pairs, n), n) = {}

\* The pair number of n, 0 when the probe ends at a free slot.
Index(n) ==
  IF DOMAIN table = {} THEN 0 ELSE table[StopSlot(table, Held(pairs, n), n)]

\* What a read of property n returns.
Prop(n) ==
  IF Overflows(n) \/ Index(n) = 0 THEN Undef ELSE pairs[Index(n)].value

-----------------------------------------------------------------------------
(* Building a table *)

FreeTable(c) == [s \in 0..(HashMod(c) - 1) |-> 0]

Entered(tab, n, i) == [tab EXCEPT ![StopSlot(tab, {}, n)] = i]

\* Mutant: the pair just appended is left out.
HashedOld(ps, c) ==
  LET upTo[k \in 0..Len(ps)] ==
        IF k = 0 \/ k = Len(ps) THEN FreeTable(c) ELSE Entered(upTo[k - 1], ps[k].name, k)
  IN upTo[Larger(0, Len(ps) - 1)]

\* Every pair entered in the order of the vector, in a table for c pairs.
Hashed(ps, c) ==
  LET upTo[k \in 0..Len(ps)] ==
        IF k = 0 THEN FreeTable(c) ELSE Entered(upTo[k - 1], ps[k].name, k)
  IN upTo[Len(ps)]

\* vec_grow: the capacity after room for increment more was asked for.
Grown(c, cnt, increment) == Larger(FirstCap, Larger(2 * c, cnt + increment))

Pair == [name : Names, value : Values \union {Undef}]

\* eval_obj: the pairs in the order written, a name perhaps more than once.
Init ==
  /\ pairs \in UNION {[1..k -> [name : Names, value : Values]] : k \in 0..MaxLiteral}
  /\ cap = IF pairs = <<>> THEN 0 ELSE Larger(FirstCap, Len(pairs))
  /\ table = Hashed(pairs, cap)
  /\ marshaled = FALSE
  /\ lvals = <<>>
  /\ running = TRUE

-----------------------------------------------------------------------------
(* Evaluating the left side of an assignment to property n *)

\* cloneObject: the capacity of the modifiable copy of a marshaled object.
CloneCap == Larger(FirstCap, Len(pairs) + Len(pairs) \div 4)

WorkCap == IF marshaled THEN CloneCap ELSE cap

WorkTable == IF marshaled THEN Hashed(pairs, CloneCap) ELSE table

Point(n, i, stack) == lvals' = <<[name |-> n, pair |-> i, live |-> TRUE]>> \o stack

\* lookup of a name the object has: the address of its value.
LeftHeld(n) ==
  /\ Held(pairs, n) # {}
  /\ Point(n, WorkTable[StopSlot(WorkTable, Held(pairs, n), n)], lvals)
  /\ cap' = WorkCap
  /\ table' = WorkTable
  /\ UNCHANGED pairs

\* setAttribute of a new name while the vector has room.
LeftAppended(n) ==
  /\ Held(pairs, n) = {}
  /\ Len(pairs) + 1 < WorkCap
  /\ pairs' = Append(pairs, [name |-> n, value |-> Undef])
  /\ cap' = WorkCap
  /\ table' = Entered(WorkTable, n, Len(pairs) + 1)
  /\ Point(n, Len(pairs) + 1, lvals)

\* setAttribute of a new name in a full vector: vec_grow frees the old one.
LeftGrown(n) ==
  /\ Held(pairs, n) = {}
  /\ Len(pairs) + 1 >= WorkCap
  /\ pairs' = Append(pairs, [name |-> n, value |-> Undef])
  /\ cap' = Grown(WorkCap, Len(pairs), WorkCap)
  /\ table' = Hashed(pairs', cap')
  /\ Point(n, Len(pairs) + 1, [k \in DOMAIN lvals |-> [lvals[k] EXCEPT !.live = FALSE]])

LVal(n) ==
  /\ running
  /\ Len(lvals) < MaxNest
  /\ LeftHeld(n) \/ LeftAppended(n) \/ LeftGrown(n)
  /\ marshaled' = FALSE
  /\ UNCHANGED running

-----------------------------------------------------------------------------
\* Mutant: the value goes to the newest pair.
AssignNewest(v) ==
  /\ running
  /\ lvals # <<>>
  /\ pairs' = [pairs EXCEPT ![Len(pairs)].value = v]
  /\ lvals' = Tail(lvals)
  /\ UNCHANGED <<cap, table, marshaled, running>>

\* replaceValue: the right side is known and goes where the left side points,
\* which is the object's vector or one that vec_grow has freed.
Assign(v) ==
  /\ running
  /\ lvals # <<>>
  /\ pairs' = IF Head(lvals).live
              THEN [pairs EXCEPT ![Head(lvals).pair].value = v]
              ELSE pairs
  /\ lvals' = Tail(lvals)
  /\ UNCHANGED <<cap, table, marshaled, running>>

\* A read that finds the table full exits; every other read is Prop(n) and
\* changes nothing.
Read(n) ==
  /\ running
  /\ Overflows(n)
  /\ running' = FALSE
  /\ UNCHANGED <<pairs, cap, table, marshaled, lvals>>

\* marshalDoc: the object is stored in a document and read back from it.
Marshal ==
  /\ running
  /\ ~marshaled
  /\ lvals = <<>>
  /\ cap' = Len(pairs)
  /\ table' = Hashed(pairs, Len(pairs))
  /\ marshaled' = TRUE
  /\ UNCHANGED <<pairs, lvals, running>>

Next ==
  \/ \E n \in Names : LVal(n) \/ Read(n)
  \/ \E v \in Values : Assign(v)
  \/ Marshal

Spec == Init /\ [][Next]_vars

-----------------------------------------------------------------------------
(* What is promised *)

\* The pairs, the table and the left sides have the shapes the code gives them.
TypeOK ==
  /\ pairs \in Seq(Pair)
  /\ cap \in Nat /\ Len(pairs) <= cap
  /\ table \in [0..(HashMod(cap) - 1) -> 0..Len(pairs)]
  /\ marshaled \in BOOLEAN /\ running \in BOOLEAN
  /\ \A k \in DOMAIN lvals :
       lvals[k] \in [name : Names, pair : DOMAIN pairs, live : BOOLEAN]

\* A pair is in one slot of the table.
PairsOnce ==
  \A i \in DOMAIN pairs : \E s \in DOMAIN table :
    \A r \in DOMAIN table : table[r] = i <=> r = s

\* lookupValue finds the oldest pair of a name through the table, and none for
\* a name the object lacks, whichever tables the pairs were hashed into since; the
\* table leads to each pair once.
LookupExact ==
  /\ TypeOK
  /\ PairsOnce
  /\ \A n \in Names : ~Overflows(n) =>
       Index(n) = IF Held(pairs, n) = {} THEN 0 ELSE Min(Held(pairs, n))

\* A probe ends at a free slot, so the exit in lookupValue is never taken,
\* except for a document's object of exactly one pair: its table is one slot.
ProbesEnd ==
  (\E n \in Names : Overflows(n)) => marshaled /\ Len(pairs) = 1

\* The object is a dictionary: no table, growth, clone or marshaling shows.
Object == INSTANCE ObjectSpec
  WITH props <- [n \in Names |-> Prop(n)],
       lefts <- [k \in DOMAIN lvals |-> lvals[k].name]

Implements == Object!Dict

\* eval_assign gives the property on its left the value of its right side,
\* whatever the right side assigns on the way.
AssignLands ==
  [][\A v \in Values : Assign(v) =>
       \A n \in Names : n = Head(lvals).name => Prop(n)' = v]_vars
=============================================================================
