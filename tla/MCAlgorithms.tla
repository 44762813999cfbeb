---------------------------- MODULE MCAlgorithms ----------------------------
(***************************************************************************)
(* The pure algorithms, checked on every input of bounded shape.  A        *)
(* behaviour picks an algorithm and then builds its input one choice at a  *)
(* time; the step after the last choice runs the algorithm on it, and each *)
(* property speaks of that step of one algorithm.                          *)
(***************************************************************************)
EXTENDS MCPrimitives, MCDocuments, MCScripts, MCArrays, MCGlue, MCArt

CONSTANT Algorithms

\* per algorithm, what each of its choices is taken from
ChoicesOf ==
  [name \in Algorithms |->
     CASE name = "dates" -> DateChoices [] name = "fields" -> DateFieldChoices
       [] name = "numbers" -> NumberChoices [] name = "texts" -> TextChoices
       [] name = "strings" -> StringChoices [] name = "json" -> JsonChoices
       [] name = "bson" -> BsonChoices [] name = "marshal" -> MarshalChoices [] name = "keys" -> KeyChoices
       [] name = "symbols" -> SymbolChoices
       [] name = "arrays" -> ArrayChoices [] name = "members" -> MemberChoices
       [] name = "statements" -> StatementChoices [] name = "glue" -> GlueChoices [] name = "art" -> ArtChoices]

Init == algorithm \in Algorithms /\ input = <<>>

Build ==
  /\ Len(input) < Len(ChoicesOf[algorithm])
  /\ \E x \in ChoicesOf[algorithm][Len(input) + 1] : input' = Append(input, x)
  /\ UNCHANGED algorithm

\* the algorithm is run on the input, and the next one begins
Answer ==
  /\ Len(input) = Len(ChoicesOf[algorithm])
  /\ input' = <<>>
  /\ UNCHANGED algorithm

Spec == Init /\ [][Build \/ Answer]_vars
=============================================================================
