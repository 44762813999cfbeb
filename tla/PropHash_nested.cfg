\* The same object with one assignment inside another.
CONSTANTS
  n1 = n1
  n2 = n2
  n3 = n3
  n4 = n4
  v1 = v1
  v2 = v2
  Undef = Undef
  Names = {n1, n2, n3, n4}
  HashOf <- Hashes
  Values = {v1, v2}
  FirstCap = 2
  MaxLiteral = 3
  MaxNest = 2
SYMMETRY Symmetry
SPECIFICATION Spec
CHECK_DEADLOCK FALSE
PROPERTIES AssignLands
