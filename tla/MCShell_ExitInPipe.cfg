SPECIFICATION Spec
CONSTANTS
  Lines <- MCLines
  MaxPid = 9
  MaxPipe = 3
  MaxFails = 1
  MaxLater = 1
  LaterLines <- MCLaterLines
CHECK_DEADLOCK FALSE
PROPERTY
  BuiltinsIgnored
