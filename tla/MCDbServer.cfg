SPECIFICATION Spec
CONSTANTS
  MAXCLIENTS = 2
  MAXFILES = 1
  MaxFd = 6
  Users = {u1}
  Dirs = {d1, d2}
  Names = {n1}
  NoUser = NoUser
  NoDir = NoDir
  NoName = NoName
SYMMETRY Symmetry
CHECK_DEADLOCK FALSE
INVARIANTS
  TypeOK
  SessionSockets
  NoInvalidState
  UploadAnnounced
  EveryConnectionWatched
  ReadyStillOpen
  ShutdownClosesAll
PROPERTIES
  OnlyOwnSessionTaken
  ImplementsPromise
