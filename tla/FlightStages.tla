---------------------------- MODULE FlightStages ----------------------------
(***************************************************************************)
(* The stages between take-off and landing that steer by position          *)
(* (flight_driver.py: _follow, _arrived, _advance; _flight_stages.py:      *)
(* _stage_search, _follow_mission_points, _stage_align): waypoints, each   *)
(* held for a while, and the search for the tag and the alignment with it. *)
(*                                                                         *)
(* Fly lets time pass, the aircraft move and the camera speak; Tick is the *)
(* flight timer.  Where the aircraft goes is free - wind, a slow or a lost *)
(* controller - as long as flight_health does not see a jump; so setpoints *)
(* are not modelled.  RELEASE is ReleaseStage's.                           *)
(***************************************************************************)
EXTENDS MissionMachine, TagTracker, Sequences

CONSTANTS
  Modes,                 \* "tag", "fixed" (fixed_point_drop), "route" (route_only)
  Route, Goals, Homeward, \* the waypoints of TRANSIT, SEARCH_TAG and RETURN
  Delivery,              \* tables.delivery_center
  SearchRadius,
  Tolerance,             \* control.position_tolerance
  WaypointHold, AlignHold,
  StageTimeout,          \* the same for every stage
  Move,                  \* control.pose_jump_limit
  Late                   \* the longest time between two ticks

ASSUME StagesAssumption ==
  /\ Modes \subseteq {"tag", "fixed", "route"}
  /\ {Route, Goals, Homeward} \subseteq Seq(Places) \ {<<>>}
  /\ Delivery \in Places
  /\ {SearchRadius, Tolerance, WaypointHold, AlignHold, StageTimeout, Move} \subseteq Nat
  /\ Late \in Nat \ {0}

VARIABLES
  mode,      \* what mission.yaml says of the mission
  machine,   \* the mission state machine
  index,     \* _index, and in SEARCH_TAG _mission_index, counted from 1
  reached,   \* the age of _reached_since
  age,       \* the age of _stage_start
  tag,       \* self.tag
  message,   \* the newest message of the camera
  pose,      \* where the aircraft is
  due,       \* the flight timer is about to tick
  visit,     \* history: how long every look has found the aircraft at its target
  answer,    \* history: what the tracker said when it took the newest message
  series     \* history: the tag in the camera since it last jumped or went silent

vars == <<mode, machine, index, reached, age, tag, message, pose, due, visit, answer, series>>

stage == machine.state

LongestHold == IF WaypointHold < AlignHold THEN AlignHold ELSE WaypointHold

Older(t, d, cap) == IF t = None THEN None ELSE IF t + d < cap THEN t + d ELSE cap

Series == [since : None .. StableTime, places : SUBSET Places, last : Places \cup {None}]
NoSeries == [since |-> None, places |-> {}, last |-> None]

Init ==
  /\ mode \in Modes
  /\ machine = Enter(RequestStart(NewMachine), "TRANSIT")
  /\ index = 1 /\ reached = None /\ age = 0
  /\ tag = NewTracker
  /\ message = [sight |-> "nothing", place |-> None, unread |-> TRUE, age |-> TagTimeout + 1]
  /\ pose \in Places /\ due = FALSE
  /\ visit = None /\ answer = FALSE /\ series = NoSeries

-----------------------------------------------------------------------------
(* Time, the aircraft and the camera.                                      *)

Looking == stage \in {"SEARCH_TAG", "ALIGN_TAG"} /\ mode = "tag"

NewMessages ==
  [sight : {"nothing", "unplaced"}, place : {None}, unread : {TRUE}, age : {0}]
    \cup [sight : {"tag"}, place : Places, unread : {TRUE}, age : {0}]

Goes(s, d) == [s EXCEPT !.since = Older(@, d, StableTime)]

Ends(s) == [s EXCEPT !.since = None, !.places = {}]

GoesOn(s, place) ==
  IF s.since # None /\ Distance(place, s.last) <= JumpLimit
  THEN [s EXCEPT !.places = @ \cup {place}, !.last = place]
  ELSE [since |-> 0, places |-> {place}, last |-> place]

\* No message, or a new one.  The camera is slower than the flight timer, so every
\* message meets a tick; while nobody looks the camera is left out.
CameraSilent(d) ==
  /\ message' = [message EXCEPT !.age = Older(@, d, TagTimeout + 1)]
  /\ series' = IF message'.age > TagTimeout THEN Ends(series) ELSE Goes(series, d)
  /\ UNCHANGED answer

CameraSpeaks(d) ==
  /\ Looking
  /\ message' \in NewMessages
  /\ series' = IF message'.sight = "tag" THEN GoesOn(Goes(series, d), message'.place)
               ELSE Goes(series, d)
  /\ answer' = FALSE

Fly ==
  /\ ~due /\ due' = TRUE
  /\ stage \in Flight \ {"LAND"}
  /\ \E d \in 1 .. Late :
       /\ age' = Older(age, d, StageTimeout + 1)
       /\ reached' = Older(reached, d, LongestHold)
       /\ visit' = Older(visit, d, LongestHold)
       /\ tag' = [tag EXCEPT !.since = Older(@, d, StableTime)]
       /\ CameraSilent(d) \/ CameraSpeaks(d)
  /\ pose' \in {p \in Places : Distance(p, pose) <= Move}
  /\ UNCHANGED <<mode, machine, index>>

-----------------------------------------------------------------------------
(* The flight timer.                                                       *)

\* _stage_timeout
TimedOut == age > StageTimeout

Near(p) == Distance(pose, p) <= Tolerance

Since(there, t) == IF ~there THEN None ELSE IF t = None THEN 0 ELSE t

\* What _arrived makes of _reached_since, and its answer.
ReachedAt(p) == Since(Near(p), reached)
Arrived(p) == ReachedAt(p) # None /\ ReachedAt(p) >= WaypointHold

Watches(r, v) == reached' = r /\ visit' = v

\* Mutant: the stage goes on at the waypoint number of the last.
ResetStage_KeepsIndex == index' = index /\ reached' = None /\ age' = 0 /\ visit' = None

\* _reset_stage
ResetStage == index' = 1 /\ reached' = None /\ age' = 0 /\ visit' = None

\* _advance.
AdvanceStage ==
  /\ machine' = IF stage = "SEARCH_TAG" /\ mode = "route" THEN SkipToReturn(machine)
                ELSE StageDone(machine)
  /\ ResetStage

\* _abort, also for a fault of flight_health.
AbortStage ==
  /\ machine' = Abort(machine)
  /\ UNCHANGED <<index, reached, age, visit>>

Points == CASE stage = "TRANSIT" -> Route [] stage = "RETURN" -> Homeward [] OTHER -> Goals

\* Mutant: the hold time goes on to the next mission point.
ReachedAfter_Keeps(p) == ReachedAt(p)

\* _follow keeps _reached_since for the next waypoint, _follow_mission_points not.
ReachedAfter(p) == IF stage = "SEARCH_TAG" THEN None ELSE ReachedAt(p)

\* _follow and _follow_mission_points.
FollowPoints ==
  LET p == Points[index]
  IN  \/ /\ Arrived(p) /\ index < Len(Points)
         /\ index' = index + 1
         /\ Watches(ReachedAfter(p), None)
         /\ UNCHANGED <<machine, age>>
      \/ Arrived(p) /\ index = Len(Points) /\ AdvanceStage
      \/ ~Arrived(p) /\ TimedOut /\ AbortStage
      \/ /\ ~Arrived(p) /\ ~TimedOut
         /\ Watches(ReachedAt(p), Since(Near(p), visit))
         /\ UNCHANGED <<machine, index, age>>

Follow ==
  /\ stage \in {"TRANSIT", "RETURN"} \/ (stage = "SEARCH_TAG" /\ mode # "tag")
  /\ FollowPoints
  /\ UNCHANGED <<tag, message, answer>>

\* tag.update with the newest message.
Look ==
  \E mean \in Places :
    /\ message.sight = "tag" => mean \in Between(WindowAfter(tag, message))
    /\ tag' = Update(tag, message, mean)
    /\ message' = [message EXCEPT !.unread = @ /\ ~Readable(message)]
    /\ answer' = IF Readable(message) /\ message.unread THEN tag'.fresh ELSE answer

Search ==
  /\ stage = "SEARCH_TAG" /\ mode = "tag"
  /\ Look
  /\ \/ /\ tag'.fresh /\ Distance(tag'.pose, Delivery) <= SearchRadius
        /\ AdvanceStage
     \/ /\ tag'.fresh => Distance(tag'.pose, Delivery) > SearchRadius
        /\ IF TimedOut THEN AbortStage ELSE UNCHANGED <<machine, index, reached, age, visit>>

AlignFixed ==
  /\ stage = "ALIGN_TAG" /\ mode = "fixed"
  /\ AdvanceStage
  /\ UNCHANGED <<tag, message, answer>>

\* The tag is lost: the last setpoint is repeated, _reached_since is kept.
AlignLost ==
  /\ ~tag'.fresh
  /\ IF TimedOut THEN AbortStage ELSE UNCHANGED <<machine, index, reached, age, visit>>

\* The timeout is asked for after _advance has set the stage's clock anew.
AlignSeen ==
  LET r == ReachedAt(tag'.pose)
      held == r # None /\ r >= AlignHold
  IN  /\ tag'.fresh
      /\ \/ held /\ AdvanceStage
         \/ ~held /\ TimedOut /\ AbortStage
         \/ /\ ~held /\ ~TimedOut
            /\ Watches(r, Since(Near(tag'.pose), visit))
            /\ UNCHANGED <<machine, index, age>>

Align ==
  /\ stage = "ALIGN_TAG" /\ mode = "tag"
  /\ Look
  /\ AlignLost \/ AlignSeen

\* RELEASE, which is not modelled here.
Release ==
  /\ stage = "RELEASE"
  /\ AdvanceStage \/ AbortStage
  /\ UNCHANGED <<tag, message, answer>>

Unhealthy == stage \in Flight /\ AbortStage /\ UNCHANGED <<tag, message, answer>>

Tick ==
  /\ due /\ due' = FALSE
  /\ Follow \/ Search \/ AlignFixed \/ Align \/ Release \/ Unhealthy
  /\ UNCHANGED <<mode, pose, series>>

Next == Fly \/ Tick

Spec == Init /\ [][Next]_vars

-----------------------------------------------------------------------------

\* Types: indexes stay within the waypoints, ages within their ranges.
TypeOK ==
  /\ mode \in Modes
  /\ machine \in Machine /\ stage \in Flight \cup {"ABORT_LAND"}
  /\ index \in Nat \ {0} /\ (stage \in Flight => index <= Len(Points))
  /\ reached \in None .. LongestHold /\ age \in 0 .. StageTimeout + 1
  /\ tag \in Tracker /\ message \in Message
  /\ pose \in Places /\ due \in BOOLEAN
  /\ visit \in None .. LongestHold
  /\ answer \in BOOLEAN /\ series \in Series

Following == stage \in {"TRANSIT", "RETURN"} \/ (stage = "SEARCH_TAG" /\ mode # "tag")

\* The aircraft goes on: to the next waypoint or to the next stage.
GoesAhead == index' > index \/ stage' \notin {stage, "ABORT_LAND"}

HeldHere(p, hold) == Since(Near(p), visit) # None /\ Since(Near(p), visit) >= hold

\* One step leads from the neighbourhood of the last waypoint into this one's.
CloseBehind ==
  /\ stage # "SEARCH_TAG" /\ index > 1
  /\ Distance(Points[index - 1], Points[index]) <= 2 * Tolerance + Move

\* A waypoint is left behind only when every look of the last hold time has found
\* the aircraft there, and the alignment when every look that has seen the tag has
\* found it over the tag.  (_follow keeps _reached_since: but for waypoints of
\* TRANSIT and RETURN that lie close behind another.)
HeldBeforeLeaving ==
  [][GoesAhead =>
       /\ Following => HeldHere(Points[index], WaypointHold) \/ CloseBehind
       /\ stage = "ALIGN_TAG" /\ mode = "tag" => HeldHere(tag'.pose, AlignHold)]_vars

\* The position that a tick takes as fresh is where the camera has seen the tag, without a jump and
\* without silence, for the stable time - unless it repeats the position of an
\* earlier window for a message that itself was not found stable.
FreshMeansStable ==
  [][due /\ Looking /\ stage' # "ABORT_LAND" /\ tag'.fresh /\ answer' =>
       series.since >= StableTime /\ tag'.pose \in Between(series.places)]_vars
=============================================================================
