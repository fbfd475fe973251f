--------------------------- MODULE ExampleFlight ---------------------------
(***************************************************************************)
(* The flight examples (robotac_examples: flight.py with the scripts       *)
(* 06_hover.py, 07_move_relative.py, 08_waypoints.py and                   *)
(* 12_move_cardinal.py) on the command plugin of MAVROS.  The flight is    *)
(* one thread; the start and stop services run in threads of their own     *)
(* and share its fields without a lock, so that each of their checks and   *)
(* assignments is a step.  What the sensors say, and whether a time is     *)
(* over, are inputs of the step that asks.                                 *)
(***************************************************************************)
EXTENDS CommandPlugin

CONSTANTS
  flight, operator,   \* the callers of the command plugin
  arming              \* COMPONENT_ARM_DISARM

ASSUME ExampleAssumption ==
  /\ Callers = {flight, operator} /\ flight # operator
  /\ arming \in Commands

VARIABLES
  script,            \* the example that runs
  pc,                \* where its thread is
  looked,            \* inside a turn of a loop: past the health check
  next,              \* where it goes after finish
  start_requested, stop_requested, used, active, landing,
  starting,          \* a start service has passed its checks
  stopping,          \* a stop service has passed its check
  landRequests,      \* calls of set_mode with AUTO.LAND
  stoppedEarly,      \* stop_requested was set before the targets were streamed
  lateTargets        \* targets published after stop_requested was set

services == <<start_requested, stop_requested, starting, stopping>>
flags == <<used, active, landing>>
history == <<landRequests, stoppedEarly, lateTargets>>
flightVars == <<script, pc, looked, next, services, flags, history>>
vars == <<pluginVars, flightVars>>

\* "hover" stands for the scripts 06, 07 and 08, which return when a target is
\* missed, "cardinal" for 12, which flies home.
Scripts == {"hover", "cardinal"}
BeforeStreaming == {"start", "claimed", "used", "ground"}
Loops == {"prestream", "takeoff", "leg", "home"}
Places == BeforeStreaming \cup Loops \cup
  {"mode", "arm", "armcall", "finish", "land", "landed", "over"}

Init ==
  /\ PluginInit
  /\ script \in Scripts
  /\ pc = "start" /\ looked = FALSE /\ next = "over"
  /\ start_requested = FALSE /\ stop_requested = FALSE
  /\ used = FALSE /\ active = FALSE /\ landing = FALSE
  /\ starting = FALSE /\ stopping = FALSE
  /\ landRequests = 0 /\ stoppedEarly = FALSE /\ lateTargets = 0

-----------------------------------------------------------------------------
(* The services.  Any number of clients may pass a check before the first  *)
(* of them assigns, so that an assignment may come whenever a check has    *)
(* been passed: starting and stopping are never reset.                     *)

ThreadStays == UNCHANGED <<pluginVars, script, pc, looked, next, flags, landRequests, lateTargets>>

\* ~start goes on if the readiness checks pass.
StartPasses ==
  /\ ~used /\ ~start_requested
  /\ starting' = TRUE
  /\ UNCHANGED <<start_requested, stop_requested, stopping, stoppedEarly>> /\ ThreadStays

StartSets ==
  /\ starting
  /\ start_requested' = TRUE
  /\ UNCHANGED <<stop_requested, starting, stopping, stoppedEarly>> /\ ThreadStays

StopPasses ==
  /\ (active \/ start_requested) /\ ~landing
  /\ stopping' = TRUE
  /\ UNCHANGED <<start_requested, stop_requested, starting, stoppedEarly>> /\ ThreadStays

StopSets ==
  /\ stopping
  /\ stop_requested' = TRUE
  /\ stoppedEarly' = (stoppedEarly \/ (~stop_requested /\ pc \in BeforeStreaming))
  /\ UNCHANGED <<start_requested, starting, stopping>> /\ ThreadStays

Services == StartPasses \/ StartSets \/ StopPasses \/ StopSets

-----------------------------------------------------------------------------
(* The flight thread.                                                      *)

Goes(from, to) == pc = from /\ pc' = to

\* wait_for_start, line by line: the services may run in between.
TakesStart ==
  /\ start_requested
  /\ Goes("start", "claimed")
  /\ start_requested' = FALSE
  /\ UNCHANGED <<pluginVars, script, looked, next, stop_requested, starting, stopping, flags, history>>

SetsUsed ==
  /\ Goes("claimed", "used")
  /\ used' = TRUE
  /\ UNCHANGED <<pluginVars, script, looked, next, services, active, landing, history>>

\* Mutant: the flight becomes active with its take-off only.
SetsActive_Late ==
  /\ Goes("used", "ground")
  /\ UNCHANGED <<pluginVars, script, looked, next, services, flags, history>>

SetsActive ==
  /\ Goes("used", "ground")
  /\ active' = TRUE
  /\ UNCHANGED <<pluginVars, script, looked, next, services, used, landing, history>>

\* fail and finish end the flight: what the thread does next is finish's.
Ends(after) == pc' = "finish" /\ next' = after

\* check_ground_stable waits for two seconds and does not ask for a stop.
ChecksGround ==
  /\ \/ Goes("ground", "prestream") /\ UNCHANGED next
     \/ pc = "ground" /\ Ends("over")
  /\ UNCHANGED <<pluginVars, script, looked, services, flags, history>>

\* health_issue looks at the operator's stop first.
\* Mutant: the stop is looked at after take-off only.
Issue_Airborne == stop_requested /\ pc \in {"takeoff", "leg", "home"}

\* Mutant: the stop has been dealt with when the landing begins.
Issue_UntilLanding == stop_requested /\ ~landing

Issue == stop_requested

\* A turn of a loop asks for an issue first ...
Looks(from) ==
  /\ pc = from /\ ~looked /\ ~Issue
  /\ looked' = TRUE
  /\ UNCHANGED <<pluginVars, script, pc, next, services, flags, history>>

\* ... and publishes its target then: the loop goes on, or is over.
Publishes(from, to, failed) ==
  /\ pc = from /\ looked
  /\ looked' = FALSE
  /\ lateTargets' = IF stop_requested THEN lateTargets + 1 ELSE lateTargets
  /\ (pc' \in {from, to} /\ UNCHANGED next) \/ Ends(failed)
  /\ UNCHANGED <<pluginVars, script, services, flags, landRequests, stoppedEarly>>

\* The stop, a sensor, a target outside the bounds, an estimate that jumps: a turn
\* may fail before it has published.
Misses(from, failed) ==
  /\ pc = from
  /\ looked' = FALSE
  /\ Ends(failed)
  /\ UNCHANGED <<pluginVars, script, services, flags, history>>

Turn(from, to, failed) == Looks(from) \/ Publishes(from, to, failed) \/ Misses(from, failed)

\* _publish_for, and the request of OFFBOARD, which is refused or sent.
Prestreams == Turn("prestream", "mode", "over")

RequestsMode ==
  /\ \/ Goes("mode", "arm") /\ UNCHANGED next
     \/ pc = "mode" /\ Ends("over")
  /\ UNCHANGED <<pluginVars, script, looked, services, flags, history>>

Arms ==
  /\ Goes("arm", "armcall")
  /\ Sends(flight, arming) \/ Refuses(flight, arming)
  /\ UNCHANGED <<script, looked, next, services, flags, history>>

ArmAnswered ==
  /\ pc = "armcall" /\ at[flight] = "idle"
  /\ IF reply[flight] = "success" THEN pc' = "takeoff" /\ UNCHANGED next ELSE Ends("over")
  /\ UNCHANGED <<pluginVars, script, looked, services, flags, history>>

\* wait_target: the climb; then the targets of the script, the last of which is
\* followed by finish.  The cross flies home when a leg has failed, too.
TakesOff == Turn("takeoff", "leg", "over")
Hovers == script = "hover" /\ Turn("leg", "finish", "over")
FliesLegs == script = "cardinal" /\ Turn("leg", "home", "home")
FliesHome == Turn("home", "finish", "over")

\* Mutant: finish is not guarded.
MayLand_Always == TRUE

\* finish does nothing when it has been called before, and neither does fail.
MayLand == active /\ ~landing

BeginsLanding ==
  /\ pc = "finish"
  /\ IF MayLand THEN landing' = TRUE /\ pc' = "land" ELSE pc' = "over" /\ UNCHANGED landing
  /\ UNCHANGED <<pluginVars, script, looked, next, services, used, active, history>>

\* The answer of set_mode is not looked at, an exception is caught.
RequestsLanding ==
  /\ Goes("land", "landed")
  /\ landRequests' = landRequests + 1
  /\ UNCHANGED <<pluginVars, script, looked, next, services, flags, stoppedEarly, lateTargets>>

\* The aircraft reports ON_GROUND, or 30 seconds are over.
StopsWaiting ==
  /\ Goes("landed", next)
  /\ active' = FALSE
  /\ UNCHANGED <<pluginVars, script, looked, next, services, used, landing, history>>

Flight ==
  \/ TakesStart \/ SetsUsed \/ SetsActive
  \/ ChecksGround \/ Prestreams \/ RequestsMode \/ Arms \/ ArmAnswered
  \/ TakesOff \/ Hovers \/ FliesLegs \/ FliesHome
  \/ BeginsLanding \/ RequestsLanding \/ StopsWaiting

-----------------------------------------------------------------------------

FlightStays == UNCHANGED flightVars

\* The operator arms or disarms by hand; one request is left for the flight.
Operates ==
  /\ \/ calls < MaxCalls - 1 /\ Sends(operator, arming)
     \/ Refuses(operator, arming)
  /\ FlightStays

Commanded(c) == Callback(c) /\ FlightStays

Next ==
  \/ Flight \/ Services \/ Operates
  \/ \E c \in Callers : Commanded(c) \/ (WakesUp(c) /\ FlightStays)
  \/ Link /\ FlightStays

\* The thread runs and the callbacks of the plugin return; nothing is asked of
\* the operator, the services or the link.
Fairness == WF_vars(Flight) /\ \A c \in Callers : WF_vars(Commanded(c))

Spec == Init /\ [][Next]_vars
FairSpec == Spec /\ Fairness

-----------------------------------------------------------------------------
(* Properties.                                                             *)

TypeOK ==
  /\ PluginTypeOK
  /\ script \in Scripts /\ pc \in Places /\ next \in {"home", "over"}
  /\ looked \in BOOLEAN
  /\ start_requested \in BOOLEAN /\ stop_requested \in BOOLEAN
  /\ used \in BOOLEAN /\ active \in BOOLEAN /\ landing \in BOOLEAN
  /\ starting \in BOOLEAN /\ stopping \in BOOLEAN
  /\ landRequests \in 0 .. 1
  /\ stoppedEarly \in BOOLEAN
  /\ lateTargets \in Nat

\* A stop that is set before the targets are streamed leaves the aircraft disarmed.
\* (One that comes after the last look of _publish_for does not: begin requests
\* OFFBOARD and arms without looking again.)
StopPreventsArming ==
  stoppedEarly => request[flight].id = 0

\* docs/06: after a stop the example updates its target no more.  One target may
\* still follow, that of a turn which had looked before the stop was set, wherever
\* the stop comes: in a leg, in the cross's flight home after a failed leg, or when
\* the landing has begun between the stop's check and its assignment.
StopEndsTargets == lateTargets <= 1

\* The inductive invariant of the flight behind the three.
FlightInv ==
  /\ TypeOK
  /\ looked => pc \in Loops
  /\ landing => pc \in {"finish", "land", "landed", "home", "over"}
  /\ pc = "land" => landing
  /\ landRequests > 0 => landing /\ pc # "land"
  /\ pc = "home" \/ next = "home" => script = "cardinal"
  /\ lateTargets > 0 => stop_requested /\ ~looked
  /\ StopEndsTargets
  /\ pc \in BeforeStreaming \cup {"prestream", "mode", "arm"} =>
       request[flight].id = 0 /\ next = "over"
  /\ stoppedEarly =>
       /\ stop_requested /\ ~looked /\ next = "over" /\ request[flight].id = 0
       /\ pc \in BeforeStreaming \cup {"prestream", "finish", "land", "landed", "over"}

\* docs/04 and docs/06: a stop that is accepted leads to a request of AUTO.LAND,
\* wherever it comes and whatever the arming call meets.
StopLands == stop_requested ~> landRequests > 0
=============================================================================
