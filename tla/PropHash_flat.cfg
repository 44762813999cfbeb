\* One assignment at a time; literals of three pairs, two growths, clones.
CONSTANTS
  n1 = n1
  n2 = n2
  n3 = n3
  n4 = n4
  v1 = v1
  v2 = v2
  Undef = Undef
  Names = {n1, n2, n3, n4}
  HashOf <- Hashes
  Values = {v1, v2}
  FirstCap = 2
  MaxLiteral = 3
  MaxNest = 1
SYMMETRY Symmetry
SPECIFICATION Spec
CHECK_DEADLOCK FALSE
INVARIANTS LookupExact ProbesEnd
PROPERTIES Implements
