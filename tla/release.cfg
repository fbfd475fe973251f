SPECIFICATION Spec
CONSTANTS
  Cruise <- YamlCruise
  Descend <- HalfDescend
  Tolerance <- YamlTolerance
  Step <- YamlStep
  HoldTicks <- YamlHoldTicks
  RetryCount = 1
  PayloadEnable = TRUE
  Wobble = 5
  Timeouts = TRUE
INVARIANTS
  TypeOK
  ReturnsReleased
PROPERTIES
  ReleasesLow
CHECK_DEADLOCK FALSE
