SPECIFICATION Spec
CONSTANTS
  Byte = 4
  START = 5
  Numbers <- MCNumbers
  NoNumber = NoNumber
  MaxTyped = 2
  MaxWire = 2
CHECK_DEADLOCK FALSE
INVARIANTS
  TypeOK
  LastShownIsZero
PROPERTIES
  ShownFollows
  Explodes
  BothEnd
