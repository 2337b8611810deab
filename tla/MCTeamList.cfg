SPECIFICATION Spec
CONSTANTS
  Names = {a, b, c}
  Values = {1, 2}
  Nodes = {n1, n2, n3, n4, n5}
  NULL = NULL
SYMMETRY Symmetry
CHECK_DEADLOCK FALSE
INVARIANTS
  TypeOK
  EveryNodeOnOneList
  ListsInOrder
PROPERTIES
  ImplementsTeam
