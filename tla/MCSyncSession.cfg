SPECIFICATION Spec
CONSTANTS
  Names = {a, b}
  NoName = NoName
  Sizes = {0, 2, 6}
  CHUNKSIZE = 5
  SizeMod = 16
  Networks = {"prompt", "merging"}
  MaxSkew = 0
  MaxClock = 2
  MaxEdits = 2
  MaxCrashes = 1
CHECK_DEADLOCK FALSE
INVARIANTS
  TypeOK
  Framed
  RoundAgrees
  LiveClientKept
PROPERTIES
  RoundEnds
  GoneClientDropped
