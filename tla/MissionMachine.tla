--------------------------- MODULE MissionMachine ---------------------------
(***************************************************************************)
(* The mission state machine (robotac_mission/state_machine.py) as         *)
(* operators on a record: one operator per method of MissionStateMachine,  *)
(* taking the machine before the call and returning the machine after it.  *)
(* The node calls several methods inside one critical section, so its      *)
(* actions compose these operators.  The reason string and the transition  *)
(* log are wording and are left out; a result is named by its kind.        *)
(***************************************************************************)

PreStart == {"BOOT", "WAIT_READY", "WAIT_START"}

Flight == {"TAKEOFF", "TRANSIT", "SEARCH_TAG", "ALIGN_TAG", "RELEASE",
           "RETURN", "LAND"}

Terminal == {"ABORT_LAND", "COMPLETE", "ERROR"}

MissionState == PreStart \cup Flight \cup Terminal

\* The states in which the mission, and not the operator, flies the aircraft.
Commanding == Flight \cup {"ABORT_LAND"}

\* The states in which the AUTO.LAND handshake runs.
Descending == {"LAND", "ABORT_LAND"}

NextStage == [TAKEOFF    |-> "TRANSIT",
              TRANSIT    |-> "SEARCH_TAG",
              SEARCH_TAG |-> "ALIGN_TAG",
              ALIGN_TAG  |-> "RELEASE",
              RELEASE    |-> "RETURN",
              RETURN     |-> "LAND",
              LAND       |-> "COMPLETE"]

\* "none" is the empty string: no final result yet.
MissionResult == {"none", "invalid", "aborted", "safe", "takeover"}

Machine == [state : MissionState, result : MissionResult,
            active : BOOLEAN, preconditionsOk : BOOLEAN]

NewMachine == [state |-> "BOOT", result |-> "none",
               active |-> FALSE, preconditionsOk |-> FALSE]

Enter(m, s) == [m EXCEPT !.state = s]

\* Mutant: the last cause is kept.
SetResult_Overwrites(m, r) == [m EXCEPT !.result = r]

\* Only the first cause is kept.
SetResult(m, r) == IF m.result = "none" THEN [m EXCEPT !.result = r] ELSE m

ClearResult(m) == [m EXCEPT !.result = "none"]

-----------------------------------------------------------------------------

HandleBootParams(m, ok) ==
  IF ok THEN Enter(m, "WAIT_READY") ELSE SetResult(Enter(m, "ERROR"), "invalid")

HandlePreconditions(m, ok) ==
  [m EXCEPT !.preconditionsOk = ok,
            !.state = CASE m.state = "WAIT_READY" /\ ok  -> "WAIT_START"
                        [] m.state = "WAIT_START" /\ ~ok -> "WAIT_READY"
                        [] OTHER                         -> m.state]

StartAccepted(m) == m.state = "WAIT_START" /\ m.preconditionsOk

\* The accepted start of an enabled flight.
RequestStart(m) == Enter([ClearResult(m) EXCEPT !.active = TRUE], "TAKEOFF")

Abort(m) ==
  IF m.state \in Terminal THEN m
  ELSE IF m.active THEN SetResult(Enter(m, "ABORT_LAND"), "aborted")
  ELSE Enter(m, "ABORT_LAND")

RequestStop(m) ==
  CASE m.state = "WAIT_START" -> Enter(m, "WAIT_READY")
    [] m.state \in Flight     -> Abort(m)
    [] OTHER                  -> m

\* Mutant: an ABORT_LAND may be reset.
ResetAccepted_InAbort(m) == m.state \notin Flight

ResetAccepted(m) == m.state \notin Commanding

\* Mutant: the result outlives the mission.
RequestReset_KeepsResult(m) ==
  CASE m.state = "COMPLETE" -> Enter(m, "WAIT_READY")
    [] m.state = "ERROR"    -> Enter(m, "BOOT")
    [] OTHER                -> m

RequestReset(m) ==
  CASE m.state = "COMPLETE" -> Enter(ClearResult(m), "WAIT_READY")
    [] m.state = "ERROR"    -> Enter(ClearResult(m), "BOOT")
    [] OTHER                -> m

\* Called in a flight state only: the next stage, or the end after LAND.
StageDone(m) ==
  IF m.state = "LAND"
  THEN [SetResult(Enter(m, "COMPLETE"), "safe") EXCEPT !.active = FALSE]
  ELSE Enter(m, NextStage[m.state])

SkipToReturn(m) == Enter(m, "RETURN")

ConfirmLanded(m) ==
  IF m.state # "ABORT_LAND" THEN m
  ELSE [SetResult(Enter(m, "COMPLETE"), "safe") EXCEPT !.active = FALSE]

ConfirmManualTakeover(m) ==
  IF m.state \notin Commanding THEN m
  ELSE [SetResult(Enter(m, "COMPLETE"), "takeover") EXCEPT !.active = FALSE]
=============================================================================
