SPECIFICATION Spec
CONSTANTS
  CAP = 7
  MESSAGE = 4
  TIMES = 3
  MINCHARS = 2
  MAXCHARS = 3
  LineLengths = {2, 9}
  DirtyCells = {3}
  MaxConnections = 2
CHECK_DEADLOCK FALSE
INVARIANTS
  TypeOK
  PrintedInOrder
  NoLineWaits
  CalmNeverCrashes
PROPERTIES
  ClosedEarlyOnlyForLongLine
  EachLinePrinted
