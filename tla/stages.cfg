SPECIFICATION Spec
CONSTANTS
  Places <- Line
  StableSamples = 2
  StableTime = 2
  JumpLimit = 1
  TagTimeout = 2
  Modes = {"tag", "fixed", "route"}
  Route <- MCRoute
  Goals <- MCGoals
  Homeward <- MCHomeward
  Delivery = 5
  SearchRadius = 1
  Tolerance = 1
  WaypointHold = 2
  AlignHold = 2
  StageTimeout = 6
  Move = 1
  Late = 2
INVARIANTS
  TypeOK
PROPERTIES
  HeldBeforeLeaving
  FreshMeansStable
CHECK_DEADLOCK FALSE
