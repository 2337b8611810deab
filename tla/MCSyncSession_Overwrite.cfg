SPECIFICATION Spec
CONSTANTS
  Names = {a}
  NoName = NoName
  Sizes = {1, 2, 5, 6}
  CHUNKSIZE = 5
  SizeMod = 16
  Networks = {"prompt"}
  MaxSkew = 1
  MaxClock = 3
  MaxEdits = 2
  MaxCrashes = 0
CHECK_DEADLOCK FALSE
INVARIANT
  FilesOverwritten
