SPECIFICATION FairSpec
CONSTANTS
  Cruise <- YamlCruise
  Descend <- YamlDescend
  Tolerance <- YamlTolerance
  Step <- YamlStep
  HoldTicks <- YamlHoldTicks
  RetryCount = 1
  PayloadEnable = TRUE
  Wobble = 0
  Timeouts = FALSE
PROPERTIES
  ReturnsAfterRelease
CHECK_DEADLOCK FALSE
