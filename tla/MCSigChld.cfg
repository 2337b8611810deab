SPECIFICATION Spec
CONSTANTS
  N = 4
  MaxStops = 2
CHECK_DEADLOCK FALSE
INVARIANTS
  TypeOK
  DoneMeansReaped
  HandlerFindsZombie
PROPERTIES
  EndsWhenPaced
