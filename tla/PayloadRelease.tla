--------------------------- MODULE PayloadRelease ---------------------------
(***************************************************************************)
(* The release of the payload between the mission and the servo node: the  *)
(* start gate on the confirmation, the calls of _stage_release with their  *)
(* retries, the answer and the confirmation message, which travel apart,   *)
(* and an operator who loads and tries the mechanism on the ground.        *)
(*                                                                         *)
(* The answer of a request and its confirmation may each be lost; either   *)
(* node may be restarted on the ground.  The launch files do not respawn   *)
(* the servo node, so in flight it may only end.                           *)
(*                                                                         *)
(* With repeated actions refused this implements PayloadDelivery.          *)
(***************************************************************************)
EXTENDS ServoNode, Sequences

CONSTANTS
  RetryCount,  \* payload.retry_count
  WireBound    \* confirmation messages kept on the way to the mission

ASSUME ReleaseAssumption == RetryCount \in Nat /\ WireBound \in Nat \ {0}

VARIABLES
  stage,       \* where the mission is, as far as the release is concerned
  attempts,    \* attempts of _stage_release
  confirmed,   \* payload_release_confirmed of the mission node
  fresh,       \* payload_release_sequence > _release_sequence
  wire,        \* confirmation messages on their way
  moved,       \* history: releases carried out since the stage began
  unreported   \* history: the mechanism has released and the mission node,
               \* or the one before it, has not been told

missionVars == <<stage, attempts, confirmed, fresh, wire, moved, unreported>>
vars == <<servoVars, missionVars>>

Stages == {"ground", "flight", "calling", "waiting", "returned", "aborted"}

TypeOK ==
  /\ ServoTypeOK
  /\ stage \in Stages
  /\ attempts \in 0..RetryCount
  /\ {confirmed, fresh, unreported} \subseteq BOOLEAN
  /\ wire \in Seq(BOOLEAN) /\ Len(wire) <= WireBound
  /\ moved \in Nat

Init ==
  /\ ServoInit
  /\ stage = "ground" /\ attempts = 0
  /\ confirmed = FALSE /\ fresh = FALSE /\ wire = << >>
  /\ moved = 0 /\ unreported = (mechanism = "released")

-----------------------------------------------------------------------------
(* The mission.                                                            *)

\* Mutant: the start gate does not ask.
MayStart_Always == TRUE

\* _on_start: no start with a mechanism that is known to have released.
MayStart == ~confirmed

Start ==
  /\ stage = "ground" /\ MayStart
  /\ stage' = "flight"
  /\ UNCHANGED <<servoVars, attempts, confirmed, fresh, wire, moved, unreported>>

\* The stages before RELEASE reach it, or abort.
ReachRelease ==
  /\ stage = "flight"
  /\ stage' = "calling" /\ attempts' = 0 /\ fresh' = FALSE /\ moved' = 0
  /\ UNCHANGED <<servoVars, confirmed, wire, unreported>>

AbortBefore ==
  /\ stage = "flight"
  /\ stage' = "aborted"
  /\ UNCHANGED <<servoVars, attempts, confirmed, fresh, wire, moved, unreported>>

\* Mutant: the attempts are not counted.
Answered_Forever(ok) ==
  /\ stage' = IF ok THEN "waiting" ELSE stage
  /\ UNCHANGED attempts

\* Mutant: one attempt more than retry_count allows.
Answered_OnceMore(ok) ==
  IF ok \/ attempts > RetryCount
  THEN stage' = (IF ok THEN "waiting" ELSE "aborted") /\ UNCHANGED attempts
  ELSE attempts' = attempts + 1 /\ UNCHANGED stage

\* The loop of _stage_release goes on after an answer, or after an exception.
Answered(ok) ==
  IF ok \/ attempts = RetryCount
  THEN stage' = (IF ok THEN "waiting" ELSE "aborted") /\ UNCHANGED attempts
  ELSE attempts' = attempts + 1 /\ UNCHANGED stage

\* An answer to somebody else.
Ignored == UNCHANGED <<stage, attempts>>

Call ==
  /\ stage = "calling" /\ handler = "none"
  /\ \/ Repeat("released") /\ Answered(RepeatAnswer)
     \/ (NoPort("released") \/ WriteFails("released")) /\ Answered(FALSE)
     \/ Begin("released", "mission") /\ Ignored
     \/ ~up /\ Answered(FALSE) /\ UNCHANGED servoVars
  /\ UNCHANGED <<confirmed, fresh, wire, moved, unreported>>

\* payload_confirmed_after, or the timeout of the stage.  The climb that comes
\* before RETURN is in ReleaseStage.
Return ==
  /\ stage = "waiting" /\ confirmed /\ fresh
  /\ stage' = "returned"
  /\ UNCHANGED <<servoVars, attempts, confirmed, fresh, wire, moved, unreported>>

GiveUp ==
  /\ stage = "waiting"
  /\ stage' = "aborted"
  /\ UNCHANGED <<servoVars, attempts, confirmed, fresh, wire, moved, unreported>>

\* Landed and reset: nothing of the confirmation is cleared.
NextFlight ==
  /\ stage \in {"returned", "aborted"}
  /\ stage' = "ground"
  /\ UNCHANGED <<servoVars, attempts, confirmed, fresh, wire, moved, unreported>>

\* The mission node is started again; the topic is not latched.
RestartMission ==
  /\ stage = "ground"
  /\ confirmed' = FALSE /\ wire' = << >>
  /\ unreported' = (mechanism = "released")
  /\ UNCHANGED <<servoVars, stage, attempts, fresh, moved>>

\* _cb_payload_release_confirmed
Deliver ==
  /\ wire # << >>
  /\ confirmed' = Head(wire) /\ fresh' = TRUE /\ wire' = Tail(wire)
  /\ UNCHANGED <<servoVars, stage, attempts, moved, unreported>>

-----------------------------------------------------------------------------
(* The servo node, seen from its callers.                                  *)

\* Of more messages than the queues hold the oldest is dropped.
Published(message) ==
  IF Len(wire) < WireBound THEN Append(wire, message) ELSE Append(Tail(wire), message)

\* The confirmation is published before the answer is given.
Finish ==
  /\ Complete
  /\ \E heard \in BOOLEAN :
       /\ wire' = IF heard THEN Published(handler = "released") ELSE wire
       /\ unreported' = (handler = "released" /\ ~heard)
  /\ moved' = IF handler = "released" /\ stage = "calling" THEN moved + 1 ELSE moved
  /\ IF caller = "mission" THEN \E ok \in BOOLEAN : Answered(ok) ELSE Ignored
  /\ UNCHANGED <<confirmed, fresh>>

\* The request ends without success, in the node or with it.
Break ==
  /\ Fail \/ Exit
  /\ unreported' = (mechanism' = "released" /\ (unreported \/ mechanism = "blocked"))
  /\ IF caller = "mission" THEN Answered(FALSE) ELSE Ignored
  /\ UNCHANGED <<confirmed, fresh, wire, moved>>

\* The operator loads the mechanism or tries it, on the ground.
Operate ==
  /\ stage = "ground"
  /\ \/ \E to \in Positions :
          Repeat(to) \/ NoPort(to) \/ WriteFails(to) \/ Begin(to, "operator")
     \/ Boot
  /\ UNCHANGED missionVars

Environment == (HealthCheck \/ Unplug \/ Plug) /\ UNCHANGED missionVars

Next ==
  \/ Start \/ ReachRelease \/ AbortBefore \/ Call \/ Return \/ GiveUp
  \/ NextFlight \/ RestartMission \/ Deliver
  \/ Finish \/ Break \/ Operate \/ Environment

Spec == Init /\ [][Next]_vars

\* The timer of the servo node ticks, its handler comes to its end, and the
\* mission's timer makes its calls.
FairSpec ==
  /\ Spec
  /\ WF_vars(HealthCheck /\ UNCHANGED missionVars)
  /\ WF_vars(Finish \/ (Fail /\ Break))
  /\ WF_vars(Call)

-----------------------------------------------------------------------------
(* What the two nodes promise together.                                    *)

PhaseOf(where) == IF where \in {"calling", "waiting"} THEN "release" ELSE where

Delivery == INSTANCE PayloadDelivery
              WITH phase <- PhaseOf(stage),
                   bench <- IF caller = "operator" THEN handler ELSE "none",
                   openings <- moved

\* Whatever is lost, late, repeated or started again: in a flight the mission
\* opens the mechanism in the RELEASE stage only, not again once it has been
\* opened there, and never closes it; and it returns only with the mechanism open
\* and opened in this very stage - no confirmation of an earlier release can
\* stand in for it (_stage_release, payload_confirmed_after).
ImplementsDelivery == Delivery!Spec

-----------------------------------------------------------------------------
(* Properties.                                                             *)

\* A release is carried out at most once in a RELEASE stage, although a lost
\* answer makes the mission ask again (docs/10-servo-release-calibration.md:
\* repeated actions are refused).
MovesOnce == moved <= 1

\* The mission returns only with a release that was carried out in this very
\* stage; no confirmation of an earlier one can stand in for it.
ReturnsMoved == stage = "returned" => moved = 1 /\ mechanism = "released"

\* A flight starts with a mechanism that has released only when the mission
\* could not know: the confirmation is on its way, was lost, or belongs to a
\* move that was cut off.
StartsLoaded ==
  [][stage = "ground" /\ stage' = "flight"
       => mechanism = "blocked" \/ wire # << >> \/ unreported]_vars

\* The calls come to an end, whatever becomes of node, device and answers.
CallsEnd == stage = "calling" ~> stage # "calling"
=============================================================================
