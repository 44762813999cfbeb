------------------------------ MODULE Members ------------------------------
(***************************************************************************)
(* What a property name stands for: the search through an object, its      *)
(* prototype and the builtins (src/js_object.c lookupAttribute), the       *)
(* builtin tables (src/js_props.c), and the operations that change what is *)
(* found: assignment, new, a function's prototype and setValue             *)
(* (src/js_eval.c, src/js_fcns.c).                                         *)
(*                                                                         *)
(* A world is the objects that there are, by number, the functions, and    *)
(* for each type the object its values share and the table of its builtins.*)
(* A value is its type and what it holds: the number of an object or of a  *)
(* function, the table and the name of a builtin, or an integer.           *)
(* An array looks in an object of its own, as a function does.             *)
(***************************************************************************)
EXTENDS Integers, Sequences, SequencesExt, Functions

Held(type, val) == [type |-> type, val |-> val]
Undefined == Held("undef", <<>>)
Number(n) == Held("int", <<n>>)
Object(k) == Held("object", <<k>>)
Function(k) == Held("closure", <<k>>)
Builtin(kind, table, name) == Held(kind, <<table, name>>)
BadAddress == Held("crash", <<>>)

IsObject(v) == v.type = "object"
ObjectAt(world, v) == world.objects[v.val[1]]
FunctionAt(world, v) == world.functions[v.val[1]]

\* an object with no properties and no prototype; its base is the type whose builtins it has
NewObject(world, base, proto) ==
  [world EXCEPT !.objects = Append(@, [pairs |-> <<>>, proto |-> proto, base |-> base, baseVal |-> Undefined])]
Newest(world) == Object(Len(world.objects))

NewClosure(world) ==
  LET withObj == NewObject(world, "closure", Undefined)
      withProto == NewObject(withObj, "object", Undefined)
  IN [withProto EXCEPT !.functions = Append(@, [obj |-> Newest(withObj), protoObj |-> Newest(withProto)])]

Pairs(world, obj) == ObjectAt(world, obj).pairs
PairValue(world, obj, name) ==
  LET found == SelectSeq(Pairs(world, obj), LAMBDA p : p.name = name)
  IN IF found = <<>> THEN Undefined ELSE found[1].value

SetPair(world, obj, name, x) ==
  LET others == SelectSeq(Pairs(world, obj), LAMBDA p : p.name # name)
  IN [world EXCEPT !.objects[obj.val[1]].pairs = Append(others, [name |-> name, value |-> x])]

-----------------------------------------------------------------------------
(* Builtins.                                                               *)

\* the properties and the functions of three tables, as many as are told apart here;
\* "prototype" is never looked up in one
PropTable == [obj |-> <<"length">>, fcn |-> <<"length">>, num |-> <<>>]
FcnTable == [obj |-> <<"valueOf", "setValue">>, fcn |-> <<"valueOf">>, num |-> <<"valueOf">>]

\* function fcn gets the table's builtins in its prototype, which the types share from now on
InstallProps(world, fcn, table, types) ==
  LET proto == FunctionAt(world, fcn).protoObj
      Install(w, kind, names) == FoldLeft(LAMBDA x, name : SetPair(x, proto, name, Builtin(kind, table, name)), w, names)
      installed == Install(Install(world, "propval", PropTable[table]), "propfcn", FcnTable[table])
  IN [installed EXCEPT !.builtinProto = [t \in DOMAIN @ |-> IF t \in types THEN proto ELSE @[t]],
                       !.builtinMap = [t \in DOMAIN @ |-> IF t \in types THEN table ELSE @[t]]]

Types == {"undef", "int", "object", "closure", "propfcn", "propval"}
NoBuiltins == [objects |-> <<>>, functions |-> <<>>,
               builtinProto |-> [t \in Types |-> Undefined], builtinMap |-> [t \in Types |-> "str"]]

\* the scripts that every program starts with: Object, Function and Number
SystemWorld ==
  LET first == InstallProps(NewClosure(NoBuiltins), Function(1), "obj", {"object"})
      second == InstallProps(NewClosure(first), Function(2), "fcn", {"closure"})
  IN InstallProps(NewClosure(second), Function(3), "num", {"int"})

ParamCount == 0

\* a builtin property reads as undefined on a value whose type has another table
CallFcnProp(world, prop, original) ==
  IF prop.val[1] # world.builtinMap[original.type] THEN Undefined
  ELSE IF prop.val[1] = "obj" THEN Number(1) ELSE Number(ParamCount)

\* where the object functions look for the primitive value
Boxed(world, this) == IF this.type = "closure" THEN FunctionAt(world, this).obj ELSE this

FcnObjectValueOf(world, this) ==
  LET obj == Boxed(world, this)
      base == ObjectAt(world, obj).baseVal
  IN IF ~IsObject(obj) THEN BadAddress ELSE IF base.type = "undef" THEN this ELSE base

FcnObjectSetValue(world, this, x) == [world EXCEPT !.objects[Boxed(world, this).val[1]].baseVal = x]

\* valueOf of the object table looks inside; the others give back what they are called on
ValueOfBuiltin(world, fcn, this) == IF fcn.val[1] = "obj" THEN FcnObjectValueOf(world, this) ELSE this

\* the primitive value stands for the object, in a builtin that is not made for it as well
EvalBuiltin(world, v, original, eval) ==
  LET base == ObjectAt(world, original).baseVal
      self == IF IsObject(original) /\ base.type # "undef" THEN base ELSE original
  IN CASE eval /\ v.type = "closure" -> Undefined    \* the program's functions do nothing
       [] eval /\ v.type = "propfcn" -> ValueOfBuiltin(world, v, self)
       [] v.type = "propval" -> CallFcnProp(world, v, self)
       [] OTHER -> v

-----------------------------------------------------------------------------
(* The search.                                                             *)

\* where it starts: the object, a function's own, or what the values of the type share
Start(world, v) ==
  LET own == Boxed(world, v) IN IF IsObject(own) THEN own ELSE world.builtinProto[own.type]

\* Mutant: the builtins before the prototype
PathBuiltinsFirst(world, obj, original) ==
  LET base == world.builtinProto[ObjectAt(world, obj).base]
      proto == ObjectAt(world, obj).proto
  IN SelectSeq(<<obj, base, proto, world.builtinProto[original.type]>>, IsObject)

\* the objects examined: obj, its prototype, the builtins of the last one's base, and those of
\* the type of the value that the search is for, unless the base has none
Path(world, obj, original) ==
  LET first == SelectSeq(<<obj, ObjectAt(world, obj).proto>>, IsObject)
      base == world.builtinProto[ObjectAt(world, Last(first)).base]
  IN IF ~IsObject(base) THEN first
     ELSE first \o SelectSeq(<<base, world.builtinProto[original.type]>>, IsObject)

\* a property whose value is undefined is as good as none
LookupAttribute(world, v, name, eval) ==
  LET Has(obj) == PairValue(world, obj, name).type # "undef"
      holders == SelectSeq(Path(world, Start(world, v), v), Has)
  IN CASE v.type = "closure" /\ name = "prototype" -> FunctionAt(world, v).protoObj
       [] v.type # "closure" /\ ~IsObject(Start(world, v)) -> Undefined
       [] OTHER -> IF holders = <<>> THEN Undefined
                   ELSE EvalBuiltin(world, PairValue(world, Head(holders), name), v, eval)

EvalAccessName(world, v, name) == LookupAttribute(world, v, name, FALSE)

\* what arithmetic and conditions take an object for
CallObjFcn(world, v) == LookupAttribute(world, v, "valueOf", TRUE)

-----------------------------------------------------------------------------
(* Operations.                                                             *)

\* v.name = x: the search for a place ends where it starts, and there it makes one
EvalAssignName(world, v, name, x) ==
  IF v.type = "closure" /\ name = "prototype" THEN [world EXCEPT !.functions[v.val[1]].protoObj = x]
  ELSE SetPair(world, Start(world, v), name, x)

EvalLiteral(world) == NewObject(world, "object", Undefined)

\* new fcn, for a function that does nothing
EvalNew(world, fcn) == NewObject(world, "object", FunctionAt(world, fcn).protoObj)

\* new Number(n)
NewNumber(world, n) == LET w == EvalNew(world, Function(3)) IN FcnObjectSetValue(w, Newest(w), Number(n))

\* v.valueOf(): called on v itself, not on its primitive value
CallValueOf(world, v) ==
  LET fcn == EvalAccessName(world, v, "valueOf")
  IN IF fcn.type = "propfcn" THEN ValueOfBuiltin(world, fcn, v) ELSE BadAddress
=============================================================================
