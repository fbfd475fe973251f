SPECIFICATION Spec
CONSTANTS
  FlightEnabled = TRUE
  RouteOnly = TRUE
  PayloadEnable = FALSE
  DryRun = FALSE
  ModeRetryCount = 1
  ConfirmSamples = 2
  QueueSize = 3
  Faults <- PilotFault
PROPERTIES
  LandedMeansGrounded
