-------------------------- MODULE MissionLifecycle --------------------------
(***************************************************************************)
(* What the mission node promises to an operator who only sees the state   *)
(* and the result topics: a mission goes from ready through flying and     *)
(* landing to ended, it never flies on once it has begun to land, it ends  *)
(* with a result, and that result is the first thing that went wrong.      *)
(* MissionNode implements this specification.                              *)
(***************************************************************************)

VARIABLES phase, cause

vars == <<phase, cause>>

Phase == {"booting", "ready", "flying", "landing", "ended", "failed"}
Cause == {"none", "invalid", "aborted", "safe", "takeover"}

FirstCause(c) == IF cause = "none" THEN c ELSE cause

\* What a boot may leave behind.
BootOutcome == {<<"booting", "none">>, <<"ready", "none">>, <<"failed", "invalid">>}

Init == vars \in BootOutcome \ {<<"booting", "none">>}

Reboot  == phase \in {"booting", "failed"} /\ vars' \in BootOutcome
Restart == vars' \in BootOutcome \ {<<"booting", "none">>}

Start    == phase = "ready"  /\ phase' = "flying"  /\ cause' = "none"
Descend  == phase = "flying" /\ phase' = "landing" /\ cause' = cause
Abort    == phase \in {"flying", "landing"} /\ phase' = "landing" /\ cause' = FirstCause("aborted")
Land     == phase = "landing" /\ phase' = "ended" /\ cause' = FirstCause("safe")
Takeover == phase \in {"flying", "landing"} /\ phase' = "ended" /\ cause' = FirstCause("takeover")
Rearm    == phase = "ended" /\ phase' = "ready" /\ cause' = "none"

Next == Reboot \/ Restart \/ Start \/ Descend \/ Abort \/ Land \/ Takeover \/ Rearm

Spec == Init /\ [][Next]_vars
=============================================================================
