---------------------------- MODULE MCMissionNode ----------------------------
(***************************************************************************)
(* The sets of faults of the runs.                                         *)
(***************************************************************************)
EXTENDS MissionNode

EveryFault == AllFaults

\* Only the answers of the MAVROS services are lost.
ServiceFault == {"service"}

\* The pilot alone, who may cut the motors in the air.
PilotFault == {"pilot"}
=============================================================================
