---------------------------- MODULE ReleaseStage ----------------------------
(***************************************************************************)
(* The RELEASE stage (_flight_stages.py, _stage_release) with the arrival  *)
(* test and the step limit it is built on (flight_driver.py, _arrived and  *)
(* _send; coordinates.py, limit_step): descend, release the payload, wait  *)
(* for the confirmation, climb back, go on to RETURN.                      *)
(*                                                                         *)
(* Heights are whole centimetres; the horizontal target is the point at    *)
(* which SEARCH_TAG ended, so the step limit acts on the height alone.     *)
(* The flight controller follows the last setpoint it has received, and    *)
(* the flight timer keeps its rate: the hold time is a number of ticks.    *)
(***************************************************************************)
EXTENDS Integers

CONSTANTS
  Cruise,         \* height at which the stage is entered
  Descend,        \* payload.release_descend
  Tolerance,      \* control.position_tolerance
  Step,           \* limits.max_speed / control.rate_hz
  HoldTicks,      \* timing.release_hold * control.rate_hz
  RetryCount,     \* payload.retry_count
  PayloadEnable,  \* payload.enable
  Wobble,         \* how far the aircraft strays from the setpoint
  Timeouts        \* does the stage run into its timeout?

ASSUME ReleaseAssumption ==
  /\ {Cruise, Descend, Tolerance, Step, HoldTicks, RetryCount, Wobble} \subseteq Nat
  /\ Descend <= Cruise /\ Step > 0
  /\ {PayloadEnable, Timeouts} \subseteq BOOLEAN

VARIABLES
  state,       \* machine.state: RELEASE, and RETURN or ABORT_LAND after it
  descended,   \* _release_descended
  servoCalled, \* _servo_called
  reached,     \* looks since _reached_since, 0 if that is None
  target,      \* _last_target
  pose,        \* the height of the aircraft
  confirmed,   \* payload_confirmed_after(_release_sequence)
  calls        \* history: calls of the servo service

vars == <<state, descended, servoCalled, reached, target, pose, confirmed, calls>>

Low == Cruise - Descend

Distance(a, b) == IF a > b THEN a - b ELSE b - a

TypeOK ==
  /\ state \in {"RELEASE", "RETURN", "ABORT_LAND"}
  /\ {descended, servoCalled, confirmed} \subseteq BOOLEAN
  /\ reached \in 0..(HoldTicks + 1)
  /\ target \in (Low - Wobble)..(Cruise + Wobble)
  /\ pose \in Int
  /\ calls \in Nat

\* The base height of the stage is the pose at its first tick; the last
\* setpoint of SEARCH_TAG lies near it.
Init ==
  /\ state = "RELEASE" /\ descended = FALSE /\ servoCalled = FALSE
  /\ reached = 0
  /\ pose = Cruise /\ target \in (Cruise - Wobble)..(Cruise + Wobble)
  /\ confirmed = FALSE /\ calls = 0

-----------------------------------------------------------------------------
(* The helpers.                                                            *)

\* Mutant: the step goes away from the goal.
LimitStep_Away(current, goal) ==
  IF Distance(current, goal) <= Step THEN goal
  ELSE IF goal > current THEN current - Step ELSE current + Step

\* limit_step in one dimension
LimitStep(current, goal) ==
  IF Distance(current, goal) <= Step THEN goal
  ELSE IF goal > current THEN current + Step ELSE current - Step

\* _arrived: near the goal, and has been for the hold time.
Near(goal) == Distance(pose, goal) <= Tolerance
Look(goal) ==
  reached' = IF ~Near(goal) THEN 0 ELSE IF reached > HoldTicks THEN reached ELSE reached + 1
\* Mutant: the first look within the tolerance is an arrival.
Arrived_AtOnce(goal) == Near(goal)

Arrived(goal) == Near(goal) /\ reached >= HoldTicks

\* Mutant: nobody asks for the confirmation.
PayloadConfirmed_Assumed == TRUE

\* payload_confirmed_after(_release_sequence)
PayloadConfirmed == confirmed

Late == IF Timeouts THEN BOOLEAN ELSE {FALSE}

\* A stage that has not arrived goes on, or runs into its timeout.
WaitOrAbort == \E late \in Late : state' = IF late THEN "ABORT_LAND" ELSE state

-----------------------------------------------------------------------------
(* One tick of the flight timer in the stage, in its four forms.           *)

DescendTick ==
  /\ state = "RELEASE" /\ ~descended
  /\ target' = LimitStep(target, Low)
  /\ Look(Low)
  /\ IF Arrived(Low)
     THEN descended' = TRUE /\ UNCHANGED state
     ELSE WaitOrAbort /\ UNCHANGED descended
  /\ UNCHANGED <<servoCalled, pose, confirmed, calls>>

Attempts == 1..(RetryCount + 1)

\* At the low height, waiting for the payload to come off.
Await ==
  /\ target' = LimitStep(target, Low)
  /\ WaitOrAbort /\ UNCHANGED reached

\* The low target is published in this tick too, before the cruise target.
Climb ==
  /\ target' = LimitStep(LimitStep(target, Low), Cruise)
  /\ Look(Cruise)
  /\ IF Arrived(Cruise) THEN state' = "RETURN" ELSE WaitOrAbort

\* The service is tried until it succeeds; the tick goes on, and may find that
\* the confirmation has come during the call.
ServoTick(ok, attempts) ==
  /\ state = "RELEASE" /\ descended /\ ~servoCalled
  /\ servoCalled' = TRUE
  /\ ~ok => attempts = RetryCount + 1
  /\ calls' = IF PayloadEnable THEN calls + attempts ELSE calls
  /\ IF PayloadEnable /\ ok
     THEN \/ Await /\ UNCHANGED confirmed
          \/ Climb /\ confirmed' = TRUE
     ELSE state' = "ABORT_LAND" /\ UNCHANGED <<target, reached, confirmed>>
  /\ UNCHANGED <<descended, pose>>

ConfirmTick ==
  /\ state = "RELEASE" /\ servoCalled /\ ~PayloadConfirmed
  /\ Await
  /\ UNCHANGED <<descended, servoCalled, pose, confirmed, calls>>

ClimbTick ==
  /\ state = "RELEASE" /\ servoCalled /\ PayloadConfirmed
  /\ Climb
  /\ UNCHANGED <<descended, servoCalled, pose, confirmed, calls>>

Tick ==
  \/ DescendTick
  \/ \E ok \in BOOLEAN, attempts \in Attempts : ServoTick(ok, attempts)
  \/ ConfirmTick
  \/ ClimbTick

\* The confirmation of the servo node arrives once it has been called.
Confirmation ==
  /\ servoCalled /\ calls > 0 /\ ~confirmed
  /\ confirmed' = TRUE
  /\ UNCHANGED <<state, descended, servoCalled, reached, target, pose, calls>>

\* The aircraft closes in on the setpoint, and strays at most Wobble from it.
Follow ==
  /\ state = "RELEASE"
  /\ pose' \in (pose - Step)..(pose + Step)
  /\ \/ Distance(pose', target) <= Wobble
     \/ Distance(pose', target) < Distance(pose, target)
  /\ UNCHANGED <<state, descended, servoCalled, reached, target, confirmed, calls>>

Next == Tick \/ Confirmation \/ Follow

Spec == Init /\ [][Next]_vars

\* The timer keeps ticking and the aircraft follows.
FairSpec ==
  /\ Spec
  /\ WF_vars(Tick)
  /\ WF_vars(Follow /\ Distance(pose', target) < Distance(pose, target))

-----------------------------------------------------------------------------
(* Properties.                                                             *)

\* The payload is released at the low height, not on the way to it, although
\* the aircraft moves on between the tick that arrives and the tick that calls.
ReleasesLow == [][calls' > calls => Near(Low)]_vars

\* The mission returns only with a release that was asked for and confirmed.
ReturnsReleased == state = "RETURN" => calls > 0 /\ confirmed

\* Given a timeout that is long enough, a confirmed release is followed by
\* the climb and the return (comments of _stage_release and of
\* payload.release_descend in mission.yaml).
ReturnsAfterRelease == state = "RELEASE" /\ confirmed ~> state = "RETURN"
=============================================================================
