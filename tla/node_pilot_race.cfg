SPECIFICATION Spec
CONSTANTS
  FlightEnabled = TRUE
  RouteOnly = FALSE
  PayloadEnable = TRUE
  DryRun = FALSE
  ModeRetryCount = 2
  ConfirmSamples = 2
  QueueSize = 1
  Faults <- EveryFault
PROPERTIES
  PilotKeepsControl
