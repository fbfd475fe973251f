---------------------------- MODULE VisionBridge ----------------------------
(***************************************************************************)
(* The vision pose bridge (robotac_localization: vision_pose_bridge.py)    *)
(* and the mission that watches it in flight (robotac_mission:             *)
(* mission_node.py, guards.py, flight_health.py).  Time goes on in units   *)
(* of the bridge's timer; ages are counted in units and all periodic work  *)
(* of a unit is done before it ends, in any order.  The callback and the   *)
(* timer of the bridge are threads that share fields without a lock, and   *)
(* publish health and state on two topics, one after the other.            *)
(***************************************************************************)
EXTENDS Integers

CONSTANTS
  MaxAge, MaxFuture,     \* limits on the age of a stamp
  Timeout,               \* of the bridge
  Jump,                  \* units in which max_speed allows the way between two places
  HealthyLimit,          \* topic_timeout.vision_healthy of the mission
  HealthDebounce,        \* health_debounce
  TicksPerUnit           \* flight timer ticks in a unit

ASSUME BridgeAssumption ==
  /\ MaxAge \in Nat /\ MaxFuture \in Nat
  /\ Timeout \in Nat \ {0} /\ Jump \in Nat \ {0}
  /\ HealthyLimit \in Nat \ {0} /\ HealthDebounce \in Nat \ {0} /\ TicksPerUnit \in Nat \ {0}

VARIABLES
  \* the bridge
  last_position,         \* or "none"
  stampAge,              \* the age of last_stamp
  receiveAge,            \* the age of last_receive, or Never
  odom, timer,           \* where the callback and the timer are
  crashed,
  \* the topics: the newest message, and whether it is on its way
  healthy, state, healthyOnWay, stateOnWay,
  \* the mission
  vision_healthy, vision_state, healthyAge, soft_bad, flying, aborted, ticks,
  \* the odometry
  heard,                 \* a message has come in this unit
  fine                   \* from now on one comes in every unit, and is good

bridge == <<last_position, stampAge, receiveAge>>
topics == <<healthy, state, healthyOnWay, stateOnWay>>
cache == <<vision_healthy, vision_state, healthyAge>>
mission == <<cache, soft_bad, flying, aborted, ticks>>
odometry == <<heard, fine>>
vars == <<bridge, odom, timer, crashed, topics, mission, odometry>>

Places == {"here", "there"}

\* The longest an outage goes unnoticed: while the bridge lives, its timeout and
\* the units of its timer, of the message and of the tick; when it has died, the
\* limit on its messages and the ticks of the debounce.
LivingBound == Timeout + 2
SilentBound == HealthyLimit + (HealthDebounce + TicksPerUnit - 1) \div TicksPerUnit

Never == -1

\* Ages beyond these are all alike.
Oldest == (IF LivingBound > SilentBound THEN LivingBound ELSE SilentBound) + 1
OldestStamp == Jump + MaxAge + 1
Older(age, cap) == IF age < cap THEN age + 1 ELSE cap

\* The bridge starts; nothing has been received.
Init ==
  /\ last_position = "none" /\ stampAge = 0 /\ receiveAge = Never
  /\ odom = "idle" /\ timer = "due" /\ crashed = FALSE
  /\ healthy = FALSE /\ state = "WAITING" /\ healthyOnWay = TRUE /\ stateOnWay = TRUE
  /\ vision_healthy = FALSE /\ vision_state = "none" /\ healthyAge = HealthyLimit + 1
  /\ soft_bad = 0 /\ flying = FALSE /\ aborted = FALSE /\ ticks = 0
  /\ heard = FALSE /\ fine = FALSE

PublishHealthy(h) == healthy' = h /\ healthyOnWay' = TRUE /\ UNCHANGED <<state, stateOnWay>>
PublishState(s) == state' = s /\ stateOnWay' = TRUE /\ UNCHANGED <<healthy, healthyOnWay>>

-----------------------------------------------------------------------------
(* The bridge's odometry callback.                                         *)

\* _valid_message: `sound` stands for frame, numbers, quaternion and radius.
Valid(age, place, sound) ==
  LET elapsed == stampAge - age
  IN  /\ sound
      /\ age \in -MaxFuture .. MaxAge
      /\ last_position # "none" =>
           elapsed > 0 /\ (place = last_position \/ elapsed >= Jump)

\* Mutant: a rejected message is remembered as the newest.
StampAfter_Rejected(age) == age

\* A rejected message leaves last_stamp and last_position alone.
StampAfter(age) == stampAge

Receives(age, place, sound) ==
  /\ odom = "idle" /\ ~heard /\ ~crashed
  /\ heard' = TRUE
  /\ IF Valid(age, place, sound)
     THEN last_position' = place /\ stampAge' = age /\ odom' = "stored"
     ELSE stampAge' = StampAfter(age) /\ odom' = "rejected" /\ UNCHANGED last_position
  /\ UNCHANGED <<receiveAge, timer, crashed, topics, mission, fine>>

\* last_receive is written after last_stamp.
Stores ==
  /\ odom = "stored" /\ odom' = "received"
  /\ receiveAge' = 0
  /\ UNCHANGED <<last_position, stampAge, timer, crashed, topics, mission, odometry>>

\* _publish_health: the two topics, one after the other.
Publishes(from, h, to) ==
  /\ odom = from /\ odom' = to
  /\ PublishHealthy(h)
  /\ UNCHANGED <<bridge, timer, crashed, mission, odometry>>

Names(from, s) ==
  /\ odom = from /\ odom' = "idle"
  /\ PublishState(s)
  /\ UNCHANGED <<bridge, timer, crashed, mission, odometry>>

OdomStep ==
  /\ ~crashed
  /\ \/ Stores
     \/ Publishes("received", TRUE, "ok") \/ Names("ok", "OK")
     \/ Publishes("rejected", FALSE, "reason") \/ Names("reason", "REJECTED")

-----------------------------------------------------------------------------
(* The bridge's timer.                                                     *)

TimedOut == receiveAge # Never /\ receiveAge > Timeout

TimerLooks ==
  /\ timer = "due"
  /\ timer' = IF TimedOut THEN "late" ELSE "done"
  /\ UNCHANGED <<bridge, odom, crashed, topics, mission, odometry>>

TimerPublishes ==
  /\ \/ timer = "late" /\ timer' = "named" /\ PublishHealthy(FALSE)
     \/ timer = "named" /\ timer' = "done" /\ PublishState("TIMEOUT")
  /\ UNCHANGED <<bridge, odom, crashed, mission, odometry>>

TimerStep == ~crashed /\ (TimerLooks \/ TimerPublishes)

\* Whatever it is at, it stops.
Crashes ==
  /\ ~crashed /\ ~fine
  /\ crashed' = TRUE
  /\ UNCHANGED <<bridge, odom, timer, topics, mission, odometry>>

-----------------------------------------------------------------------------
(* The mission.                                                            *)

HearsHealthy ==
  /\ healthyOnWay /\ healthyOnWay' = FALSE
  /\ vision_healthy' = healthy /\ healthyAge' = 0
  /\ UNCHANGED <<bridge, odom, timer, crashed, healthy, state, stateOnWay, vision_state,
                 soft_bad, flying, aborted, ticks, odometry>>

HearsState ==
  /\ stateOnWay /\ stateOnWay' = FALSE
  /\ vision_state' = state
  /\ UNCHANGED <<bridge, odom, timer, crashed, healthy, state, healthyOnWay, vision_healthy,
                 healthyAge, soft_bad, flying, aborted, ticks, odometry>>

VisionLost == ~vision_healthy \/ healthyAge > HealthyLimit

\* The start gate asks for both topics.  (The age of the state topic is not
\* modelled: the state comes right after the health, and its limit is longer.)
Starts ==
  /\ ~flying /\ ~VisionLost /\ vision_state = "OK"
  /\ flying' = TRUE
  /\ soft_bad' = 0
  /\ UNCHANGED <<bridge, odom, timer, crashed, topics, cache, aborted, ticks, odometry>>

\* Mutants: a tick that has found a fault starts to count again; one tick too many.
SoftBad_Restarts == IF VisionLost THEN 1 ELSE 0
Enough_OneMore(n) == n > HealthDebounce

SoftBad == IF VisionLost THEN soft_bad + 1 ELSE 0

Enough(n) == n >= HealthDebounce

\* flight_health.check, for what it looks at in the two topics: any state but OK
\* aborts at once, lost health after health_debounce ticks.
FlightTick ==
  /\ flying /\ ~aborted /\ ticks < TicksPerUnit
  /\ ticks' = ticks + 1
  /\ IF vision_state # "OK"
     THEN aborted' = TRUE /\ UNCHANGED soft_bad
     ELSE soft_bad' = SoftBad /\ aborted' = Enough(SoftBad)
  /\ UNCHANGED <<bridge, odom, timer, crashed, topics, cache, flying, odometry>>

-----------------------------------------------------------------------------

\* A unit is over when everything periodic has been done and every message has
\* been delivered.
Tick ==
  /\ crashed \/ (odom = "idle" /\ timer = "done")
  /\ ~healthyOnWay /\ ~stateOnWay
  /\ flying /\ ~aborted => ticks = TicksPerUnit
  /\ fine => heard
  /\ stampAge' = Older(stampAge, OldestStamp)
  /\ receiveAge' = IF receiveAge = Never THEN Never ELSE Older(receiveAge, Oldest)
  /\ healthyAge' = Older(healthyAge, HealthyLimit + 1)
  /\ timer' = "due" /\ heard' = FALSE /\ ticks' = 0
  /\ UNCHANGED <<last_position, odom, crashed, topics, vision_healthy, vision_state, soft_bad,
                 flying, aborted, fine>>

\* The odometry works from now on: in order, in time, without a jump.
BecomesFine ==
  /\ ~fine /\ ~crashed
  /\ fine' = TRUE
  /\ UNCHANGED <<bridge, odom, timer, crashed, topics, mission, heard>>

Odometry ==
  \E age \in -MaxFuture .. MaxAge + 1, place \in Places, sound \in BOOLEAN :
    /\ fine => age = 0 /\ place = "here" /\ sound
    /\ Receives(age, place, sound)

Step ==
  \/ OdomStep \/ TimerStep \/ HearsHealthy \/ HearsState \/ FlightTick \/ Tick
  \/ (fine /\ Odometry)

Next == Step \/ Odometry \/ Crashes \/ Starts \/ BecomesFine

\* The threads run and time goes on.
Spec == Init /\ [][Next]_vars
FairSpec == Spec /\ WF_vars(Step)

-----------------------------------------------------------------------------

\* Types: the publications, ages and counters stay in their ranges; soft_bad never
\* passes the debounce, because the tick that reaches it is the last one.
TypeOK ==
  /\ last_position \in Places \cup {"none"}
  /\ stampAge \in -MaxFuture .. OldestStamp /\ receiveAge \in Never .. Oldest
  /\ odom \in {"idle", "stored", "received", "ok", "rejected", "reason"}
  /\ timer \in {"due", "late", "named", "done"} /\ crashed \in BOOLEAN
  /\ healthy \in BOOLEAN /\ state \in {"WAITING", "OK", "REJECTED", "TIMEOUT"}
  /\ healthyOnWay \in BOOLEAN /\ stateOnWay \in BOOLEAN
  /\ vision_healthy \in BOOLEAN
  /\ vision_state \in {"none", "WAITING", "OK", "REJECTED", "TIMEOUT"}
  /\ healthyAge \in 0 .. HealthyLimit + 1 /\ soft_bad \in 0 .. HealthDebounce
  /\ flying \in BOOLEAN /\ aborted \in BOOLEAN /\ ticks \in 0 .. TicksPerUnit
  /\ heard \in BOOLEAN /\ fine \in BOOLEAN

\* A flight whose odometry has stopped, or has become bad, is aborted in time (both
\* bounds are the least ones), also when the bridge itself has died - although the
\* state topic, which says OK to the end, has no age limit in flight.
OutageNoticed ==
  flying /\ ~aborted => receiveAge <= IF crashed THEN SilentBound ELSE LivingBound

\* When the odometry works again the bridge says so, and goes on saying so, also
\* after a jump: a rejected message does not stand in the way of the next.
Recovers == <>[]fine => <>[](healthy /\ state = "OK")
=============================================================================
