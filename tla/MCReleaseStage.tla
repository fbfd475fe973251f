--------------------------- MODULE MCReleaseStage ---------------------------
(***************************************************************************)
(* Values of config/mission.yaml, in centimetres and in ticks of 50 ms.    *)
(***************************************************************************)
EXTENDS ReleaseStage

YamlCruise    == 55   \* the height of the waypoints
YamlDescend   == 25   \* payload.release_descend 0.25
YamlTolerance == 15   \* control.position_tolerance 0.15
YamlStep      == 1    \* limits.max_speed 0.2 / control.rate_hz 20
YamlHoldTicks == 20   \* timing.release_hold 1.0

\* Deep enough for the arrival to matter, and not so deep that an aircraft
\* that strays from its setpoint can never come back (see release_deep).
HalfDescend == 18
=============================================================================
