SPECIFICATION FairSpec
CONSTANTS
  AllowRepeat = FALSE
  RetryCount = 1
  WireBound = 2
INVARIANTS
  TypeOK
  RepeatMeansThere
  DriveEnds
  MovesOnce
PROPERTIES
  ImplementsDelivery
  StartsLoaded
  Reconnects
  CallsEnd
