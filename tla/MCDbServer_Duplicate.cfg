SPECIFICATION Spec
CONSTANTS
  MAXCLIENTS = 2
  MAXFILES = 1
  MaxFd = 6
  Users = {u1, u2}
  Dirs = {d1}
  Names = {n1}
  NoUser = NoUser
  NoDir = NoDir
  NoName = NoName
CHECK_DEADLOCK FALSE
INVARIANT
  OneEntryPerClient
