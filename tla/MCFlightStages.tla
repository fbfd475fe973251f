--------------------------- MODULE MCFlightStages ---------------------------
(* A line of seven places.  The first two waypoints of TRANSIT lie within   *)
(* reach of one another, and so do the two mission points.                  *)
EXTENDS FlightStages

Line == 0 .. 6
MCRoute == <<1, 2, 6>>
MCGoals == <<5, 6>>
MCHomeward == <<3, 0>>
=============================================================================
