SPECIFICATION FairSpec
CONSTANTS
  flight = flight
  operator = operator
  arming = arming
  Callers = {flight, operator}
  Commands = {arming}
  MaxCalls = 2
  MaxSpurious = 1
INVARIANTS
  TypeOK
  SuccessIsOwn
  StopPreventsArming
  StopEndsTargets
PROPERTIES
  StopLands
CHECK_DEADLOCK FALSE
