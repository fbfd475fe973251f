SPECIFICATION FairSpec
CONSTANTS
  MaxAge = 3
  MaxFuture = 1
  Timeout = 5
  Jump = 3
  HealthyLimit = 10
  HealthDebounce = 5
  TicksPerUnit = 2
INVARIANTS
  TypeOK
  OutageNoticed
PROPERTIES
  Recovers
