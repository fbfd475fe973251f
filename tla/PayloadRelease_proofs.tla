----------------------- MODULE PayloadRelease_proofs ------------------------
(***************************************************************************)
(* Proofs about the release between mission and servo node, for every      *)
(* number of retries and every length of the queues: the servo node's      *)
(* memory of its position is right and its drive bounded; a stage releases *)
(* at most once, if repeated actions are refused; a flight starts loaded   *)
(* as far as the mission can know; the implementation of PayloadDelivery.  *)
(***************************************************************************)
EXTENDS PayloadRelease, SequenceTheorems, TLAPS

-----------------------------------------------------------------------------
(* The strengthening.                                                      *)

\* The mission has one request at a time, and makes it in its stage.
MissionRequest == caller = "mission" => stage = "calling" /\ handler = "released"

\* What has been carried out is remembered, so that it will be refused if
\* repeated actions are.
DoneIsRemembered ==
  ~AllowRepeat /\ stage = "calling" /\ moved # 0
    => handler = "none" /\ lastState = "released"

OnceIfRefused == ~AllowRepeat => MovesOnce

\* A success answer means that it has been carried out.
AnswerIsTrue ==
  stage \in {"waiting", "returned"}
    => moved # 0 /\ mechanism = "released" /\ handler = "none"

IInv ==
  /\ TypeOK
  /\ RepeatMeansThere
  /\ OnceIfRefused
  /\ MissionRequest
  /\ DoneIsRemembered
  /\ AnswerIsTrue

LEMMA InitIInv == Init => IInv
<1> SUFFICES ASSUME Init PROVE IInv
  OBVIOUS
<1>1. ServoTypeOK
  BY DEF Init, ServoInit, ServoTypeOK, Positions
<1>2. wire \in Seq(BOOLEAN) /\ Len(wire) <= WireBound
  BY ReleaseAssumption DEF Init, ReleaseAssumption
<1>3. {confirmed, fresh, unreported} \subseteq BOOLEAN
  BY Zenon DEF Init
<1>4. stage \in Stages /\ attempts \in 0..RetryCount /\ moved \in Nat
  BY ReleaseAssumption DEF Init, Stages, ReleaseAssumption
<1>5. TypeOK
  BY <1>1, <1>2, <1>3, <1>4 DEF TypeOK
<1>6. RepeatMeansThere /\ OnceIfRefused /\ MissionRequest /\ DoneIsRemembered /\ AnswerIsTrue
  BY DEF Init, ServoInit, RepeatMeansThere, MovesOnce, OnceIfRefused, MissionRequest, DoneIsRemembered,
     AnswerIsTrue
<1> QED BY <1>5, <1>6 DEF IInv

-----------------------------------------------------------------------------
(* The steps, grouped by whose they are.                                   *)

\* The types survive each step of the servo node.
LEMMA ServoTypes ==
  ASSUME ServoTypeOK, RepeatAssumption,
         \/ \E to \in Positions :
              \/ Repeat(to) \/ NoPort(to) \/ WriteFails(to)
              \/ Begin(to, "mission") \/ Begin(to, "operator")
         \/ Complete \/ Fail \/ Exit \/ HealthCheck \/ Boot \/ Unplug \/ Plug
         \/ UNCHANGED servoVars
  PROVE  ServoTypeOK'
<1> USE DEF ServoTypeOK, Positions
<1>1. CASE \E to \in Positions : Repeat(to) \/ NoPort(to) \/ WriteFails(to)
  BY <1>1 DEF Repeat, NoPort, WriteFails, servoVars
<1>2. CASE \E to \in Positions : Begin(to, "mission") \/ Begin(to, "operator")
  BY <1>2 DEF Begin
<1>3. CASE Complete
  BY <1>3 DEF Complete
<1>4. CASE Fail
  BY <1>4 DEF Fail, CutOff
<1>5. CASE Exit
  <2>1. CASE handler = "none"
    BY <1>5, <2>1 DEF Exit
  <2>2. CASE handler # "none"
    BY <1>5, <2>2 DEF Exit, CutOff
  <2> QED BY <2>1, <2>2
<1>6. CASE HealthCheck
  BY <1>6 DEF HealthCheck, Connect
<1>7. CASE Boot \/ Unplug \/ Plug
  BY <1>7 DEF Boot, Unplug, Plug, Connect
<1>8. CASE UNCHANGED servoVars
  BY <1>8 DEF servoVars
<1> QED BY <1>1, <1>2, <1>3, <1>4, <1>5, <1>6, <1>7, <1>8

\* An answer leaves the types alone.
LEMMA AnsweredTypes ==
  ASSUME stage = "calling", attempts \in 0..RetryCount, NEW ok \in BOOLEAN, Answered(ok)
  PROVE  /\ stage' \in {"calling", "waiting", "aborted"} /\ attempts' \in 0..RetryCount
         /\ ~ok => stage' # "waiting"
  BY ReleaseAssumption DEF Answered, ReleaseAssumption

\* A step of the servo node that moves nothing to its end, next to a mission
\* that stays where it is, disturbs nothing.
LEMMA QuietServo ==
  ASSUME IInv, UNCHANGED missionVars,
         \/ \E to \in Positions :
              \/ Repeat(to) \/ NoPort(to) \/ WriteFails(to)
              \/ stage = "ground" /\ Begin(to, "operator")
         \/ stage = "ground" /\ Boot
         \/ HealthCheck \/ Unplug \/ Plug
         \/ UNCHANGED servoVars
  PROVE  IInv'
<1>1. TypeOK'
  BY ServoTypes, RepeatAssumption DEF IInv, TypeOK, missionVars
<1> USE DEF IInv, missionVars, RepeatMeansThere, MovesOnce, OnceIfRefused, MissionRequest, DoneIsRemembered,
            AnswerIsTrue
<1>2. CASE \E to \in Positions : Repeat(to) \/ NoPort(to) \/ WriteFails(to)
  BY <1>1, <1>2 DEF Repeat, NoPort, WriteFails, servoVars
<1>3. CASE \E to \in Positions : stage = "ground" /\ Begin(to, "operator")
  BY <1>1, <1>3 DEF Begin, Idle
<1>4. CASE stage = "ground" /\ Boot
  BY <1>1, <1>4 DEF Boot
<1>5. CASE HealthCheck
  BY <1>1, <1>5 DEF HealthCheck
<1>6. CASE Unplug \/ Plug
  BY <1>1, <1>6 DEF Unplug, Plug
<1>7. CASE UNCHANGED servoVars
  BY <1>1, <1>7 DEF servoVars
<1> QED BY <1>2, <1>3, <1>4, <1>5, <1>6, <1>7

\* The mission's own steps, with the servo node where it is.
LEMMA MissionStep ==
  ASSUME IInv,
         \/ Start \/ ReachRelease \/ AbortBefore \/ Return \/ GiveUp
         \/ NextFlight \/ RestartMission \/ Deliver
  PROVE  IInv'
<1> UNCHANGED servoVars
  BY DEF Start, ReachRelease, AbortBefore, Return, GiveUp, NextFlight, RestartMission, Deliver
<1>1. ServoTypeOK'
  BY ServoTypes, RepeatAssumption DEF IInv, TypeOK
<1>2. wire' \in Seq(BOOLEAN) /\ Len(wire') <= WireBound
  <2> wire \in Seq(BOOLEAN) /\ Len(wire) <= WireBound
    BY DEF IInv, TypeOK
  <2>1. CASE UNCHANGED wire
    BY <2>1
  <2>2. CASE RestartMission
    BY <2>2, ReleaseAssumption DEF RestartMission, ReleaseAssumption
  <2>3. CASE Deliver
    BY <2>3, ReleaseAssumption DEF Deliver, ReleaseAssumption
  <2> QED BY <2>1, <2>2, <2>3 DEF Start, ReachRelease, AbortBefore, Return, GiveUp, NextFlight
<1>3. {confirmed, fresh, unreported}' \subseteq BOOLEAN
  <2>1. CASE Deliver
    <3>1. Head(wire) \in BOOLEAN
      BY <2>1 DEF Deliver, IInv, TypeOK
    <3> QED BY <2>1, <3>1, Zenon DEF Deliver, IInv, TypeOK
  <2>2. CASE RestartMission
    BY <2>2, Zenon DEF RestartMission, IInv, TypeOK
  <2>3. CASE ReachRelease
    BY <2>3, Zenon DEF ReachRelease, IInv, TypeOK
  <2>4. CASE UNCHANGED <<confirmed, fresh, unreported>>
    BY <2>4 DEF IInv, TypeOK
  <2> QED BY <2>1, <2>2, <2>3, <2>4 DEF Start, AbortBefore, Return, GiveUp, NextFlight
<1>4. (stage \in Stages /\ attempts \in 0..RetryCount /\ moved \in Nat)'
  BY ReleaseAssumption
  DEF IInv, TypeOK, Stages, ReleaseAssumption, Start, ReachRelease, AbortBefore, Return,
      GiveUp, NextFlight, RestartMission, Deliver
<1>5. TypeOK'
  BY <1>1, <1>2, <1>3, <1>4 DEF TypeOK
<1>6. (RepeatMeansThere /\ OnceIfRefused /\ MissionRequest /\ DoneIsRemembered /\ AnswerIsTrue)'
  BY DEF IInv, servoVars, Start, ReachRelease, AbortBefore, Return, GiveUp, NextFlight,
         RestartMission, Deliver, RepeatMeansThere, MovesOnce, OnceIfRefused, MissionRequest,
         DoneIsRemembered, AnswerIsTrue
<1> QED BY <1>5, <1>6 DEF IInv

\* A call.
LEMMA CallStep ==
  ASSUME IInv, Call
  PROVE  IInv'
<1> UNCHANGED <<confirmed, fresh, wire, moved, unreported>> /\ stage = "calling"
  BY DEF Call
<1> USE DEF IInv
<1>1. CASE Begin("released", "mission") /\ Ignored
  <2>1. ServoTypeOK'
    BY <1>1, ServoTypes, RepeatAssumption DEF TypeOK, Positions
  <2>2. TypeOK'
    BY <1>1, <2>1 DEF TypeOK, Ignored
  <2>3. AllowRepeat \/ moved = 0
    BY <1>1 DEF Begin, Repeated, DoneIsRemembered
  <2> QED
    BY <1>1, <2>2, <2>3
    DEF Begin, Ignored, RepeatMeansThere, MovesOnce, OnceIfRefused, MissionRequest, DoneIsRemembered,
        AnswerIsTrue
<1>2. CASE /\ Answered(FALSE)
           /\ \/ Repeat("released") \/ NoPort("released") \/ WriteFails("released")
              \/ UNCHANGED servoVars
  <2>1. ServoTypeOK'
    BY <1>2, ServoTypes, RepeatAssumption DEF TypeOK, Positions
  <2>2. /\ stage' \in {"calling", "aborted"} /\ attempts' \in 0..RetryCount
    BY <1>2, AnsweredTypes DEF TypeOK
  <2>3. TypeOK'
    BY <2>1, <2>2 DEF TypeOK, Stages
  <2>4. UNCHANGED <<up, lastState, handler, caller, mechanism, doubt>>
    BY <1>2 DEF Repeat, NoPort, WriteFails, servoVars
  <2> HIDE DEF IInv
  <2>5. caller # "mission"
    BY DEF IInv, TypeOK, ServoTypeOK, Call
  <2> QED
    BY <2>2, <2>3, <2>4, <2>5
    DEF IInv, RepeatMeansThere, MovesOnce, OnceIfRefused, MissionRequest, DoneIsRemembered, AnswerIsTrue
<1> QED BY <1>1, <1>2 DEF Call, RepeatAnswer

\* The end of a move.
LEMMA FinishStep ==
  ASSUME IInv, Finish
  PROVE  IInv'
<1> /\ UNCHANGED <<confirmed, fresh>> /\ Complete
  BY DEF Finish
<1>1. ServoTypeOK'
  BY ServoTypes, RepeatAssumption DEF IInv, TypeOK
<1>2. wire' \in Seq(BOOLEAN) /\ Len(wire') <= WireBound
  <2> DEFINE message == handler = "released"
  <2>1. message \in BOOLEAN
    OBVIOUS
  <2> HIDE DEF message
  <2>2. wire \in Seq(BOOLEAN) /\ Len(wire) \in Nat /\ Len(wire) <= WireBound
    BY DEF IInv, TypeOK
  <2>3. Published(message) \in Seq(BOOLEAN) /\ Len(Published(message)) <= WireBound
    <3>1. CASE Len(wire) < WireBound
      BY <2>1, <2>2, <3>1, ReleaseAssumption DEF Published, ReleaseAssumption
    <3>2. CASE ~(Len(wire) < WireBound)
      <4>1. wire # << >>
        BY <2>2, <3>2, ReleaseAssumption DEF ReleaseAssumption
      <4>2. Tail(wire) \in Seq(BOOLEAN) /\ Len(Tail(wire)) = Len(wire) - 1
        BY <2>2, <4>1
      <4> QED BY <2>1, <2>2, <3>2, <4>2, ReleaseAssumption DEF Published, ReleaseAssumption
    <3> QED BY <3>1, <3>2
  <2>4. wire' = wire \/ wire' = Published(message)
    BY DEF Finish, message
  <2> QED BY <2>2, <2>3, <2>4
<1>3. {confirmed, fresh, unreported}' \subseteq BOOLEAN
  BY Zenon DEF Finish, IInv, TypeOK
<1>4. moved' \in Nat /\ stage' \in Stages /\ attempts' \in 0..RetryCount
  <2>1. moved' \in Nat
    BY DEF Finish, IInv, TypeOK
  <2>2. CASE caller # "mission"
    BY <2>1, <2>2 DEF Finish, Ignored, IInv, TypeOK
  <2>3. CASE caller = "mission"
    BY <2>1, <2>3, AnsweredTypes DEF Finish, IInv, TypeOK, MissionRequest, Stages
  <2> QED BY <2>2, <2>3
<1>5. TypeOK'
  BY <1>1, <1>2, <1>3, <1>4 DEF TypeOK
<1>6. RepeatMeansThere' /\ handler' = "none" /\ caller' = "none"
  BY DEF Complete, RepeatMeansThere
<1>7. stage # "calling" => UNCHANGED <<stage, moved>> /\ stage \notin {"waiting", "returned"}
  <2>1. handler # "none"
    BY DEF Complete
  <2> QED BY <2>1 DEF Finish, Ignored, IInv, MissionRequest, AnswerIsTrue
<1>8. stage = "calling" => AllowRepeat \/ moved = 0
  BY DEF Complete, IInv, DoneIsRemembered
<1>9. stage = "calling" /\ handler = "released" => moved' # 0 /\ (AllowRepeat \/ moved' = 1)
  BY <1>8 DEF Finish, IInv, TypeOK
<1>10. stage = "calling" /\ handler # "released" => (AllowRepeat \/ moved' = 0) /\ UNCHANGED stage
  BY <1>8 DEF Finish, Ignored, IInv, MissionRequest
<1>11. stage = "calling" => stage' \in {"calling", "waiting", "aborted"}
  BY AnsweredTypes DEF Finish, Ignored, IInv, TypeOK
<1>12. (OnceIfRefused /\ MissionRequest /\ DoneIsRemembered /\ AnswerIsTrue)'
  <2>1. CASE stage # "calling"
    BY <1>6, <1>7, <2>1
    DEF IInv, MovesOnce, OnceIfRefused, MissionRequest, DoneIsRemembered, AnswerIsTrue
  <2>2. CASE stage = "calling" /\ handler = "released"
    BY <1>6, <1>9, <1>11, <2>2
    DEF Complete, MovesOnce, OnceIfRefused, MissionRequest, DoneIsRemembered, AnswerIsTrue
  <2>3. CASE stage = "calling" /\ handler # "released"
    BY <1>6, <1>10, <2>3
    DEF MovesOnce, OnceIfRefused, MissionRequest, DoneIsRemembered, AnswerIsTrue
  <2> QED BY <2>1, <2>2, <2>3
<1> QED BY <1>5, <1>6, <1>12 DEF IInv

\* A request that ends without success, or the end of the node.
LEMMA BreakStep ==
  ASSUME IInv, Break
  PROVE  IInv'
<1> UNCHANGED <<confirmed, fresh, wire, moved>> /\ (Fail \/ Exit)
  BY DEF Break
<1>1. ServoTypeOK'
  BY ServoTypes, RepeatAssumption DEF IInv, TypeOK
<1>2. unreported' \in BOOLEAN
  BY Zenon DEF Break, IInv, TypeOK
<1>3. {confirmed, fresh, unreported}' \subseteq BOOLEAN
  BY <1>2 DEF IInv, TypeOK
<1>4. stage' \in Stages /\ attempts' \in 0..RetryCount
  <2>1. CASE caller # "mission"
    BY <2>1 DEF Break, Ignored, IInv, TypeOK
  <2>2. CASE caller = "mission"
    BY <2>2, AnsweredTypes DEF Break, IInv, TypeOK, MissionRequest, Stages
  <2> QED BY <2>1, <2>2
<1>5. TypeOK'
  BY <1>1, <1>3, <1>4 DEF TypeOK, IInv
<1>6. CASE handler = "none"
  <2>1. UNCHANGED <<lastState, handler, caller, mechanism, doubt>> /\ ~up'
    BY <1>6 DEF Fail, Exit
  <2>2. UNCHANGED stage
    BY <1>6 DEF Break, Ignored, IInv, MissionRequest
  <2> QED
    BY <1>5, <2>1, <2>2
    DEF IInv, RepeatMeansThere, MovesOnce, OnceIfRefused, MissionRequest, DoneIsRemembered, AnswerIsTrue
<1>7. CASE handler # "none"
  <2>1. doubt' = TRUE /\ handler' = "none" /\ caller' = "none" /\ UNCHANGED lastState
    BY <1>7 DEF Fail, Exit, CutOff
  <2>2. \/ UNCHANGED stage
        \/ stage = "calling" /\ stage' \in {"calling", "aborted"}
    BY AnsweredTypes DEF Break, Ignored, IInv, TypeOK, MissionRequest
  <2> QED
    BY <1>5, <1>7, <2>1, <2>2
    DEF IInv, RepeatMeansThere, MovesOnce, OnceIfRefused, MissionRequest, DoneIsRemembered, AnswerIsTrue
<1> QED BY <1>6, <1>7

-----------------------------------------------------------------------------
(* What the mission has been told of the mechanism.                        *)

\* The newest message: the last one on its way, or the one that has come.
LastTold == IF wire = << >> THEN confirmed ELSE wire[Len(wire)]

\* A mechanism that has released has been reported so, last of all, or it has
\* not been reported.
ReleaseIsTold == mechanism = "released" => LastTold \/ unreported

\* The last element of a sequence, after an element has been added and after one
\* has been taken from the front.
LEMMA LastOfAppend ==
  ASSUME NEW S, NEW seq \in Seq(S), NEW e \in S
  PROVE  Append(seq, e) # << >> /\ Append(seq, e)[Len(Append(seq, e))] = e
<1>1. Len(Append(seq, e)) = Len(seq) + 1 /\ Append(seq, e)[Len(seq) + 1] = e
  OBVIOUS
<1> QED BY <1>1

LEMMA LastOfTail ==
  ASSUME NEW S, NEW seq \in Seq(S), seq # << >>
  PROVE  IF Tail(seq) = << >>
         THEN Head(seq) = seq[Len(seq)]
         ELSE Tail(seq)[Len(Tail(seq))] = seq[Len(seq)]
<1>1. /\ Tail(seq) \in Seq(S) /\ Len(Tail(seq)) = Len(seq) - 1 /\ Head(seq) = seq[1]
      /\ \A i \in 1..Len(Tail(seq)) : Tail(seq)[i] = seq[i + 1]
  BY HeadTailProperties
<1>2. Len(seq) \in Nat \ {0}
  BY EmptySeq, LenProperties
<1>3. CASE Tail(seq) = << >>
  <2>1. Len(Tail(seq)) = 0
    BY <1>3, EmptySeq
  <2>2. Len(seq) - 1 = 0
    BY <1>1, <2>1, Zenon
  <2>3. Len(seq) = 1
    BY <1>2, <2>2
  <2> QED BY <1>1, <1>3, <2>3, Zenon
<1>4. CASE Tail(seq) # << >>
  <2>1. Len(Tail(seq)) \in Nat \ {0}
    BY <1>1, <1>4, EmptySeq, LenProperties
  <2> QED BY <1>1, <1>2, <1>4, <2>1
<1> QED BY <1>3, <1>4

\* A message that is published is the newest one, also when it pushes out the
\* oldest.
LEMMA PublishedIsLast ==
  ASSUME wire \in Seq(BOOLEAN), NEW message \in BOOLEAN
  PROVE  /\ Published(message) # << >>
         /\ Published(message)[Len(Published(message))] = message
<1>1. CASE Len(wire) < WireBound
  BY <1>1, LastOfAppend, Zenon DEF Published
<1>2. CASE ~(Len(wire) < WireBound)
  <2>1. wire # << >>
    BY <1>2, ReleaseAssumption DEF ReleaseAssumption
  <2>2. Tail(wire) \in Seq(BOOLEAN)
    BY <2>1
  <2> QED BY <1>2, <2>2, LastOfAppend, Zenon DEF Published
<1> QED BY <1>1, <1>2

\* A delivery changes where the newest message is, not what it says.
LEMMA DeliveryKeepsLastTold ==
  ASSUME wire \in Seq(BOOLEAN), Deliver
  PROVE  LastTold' = LastTold
<1>1. wire # << >> /\ confirmed' = Head(wire) /\ wire' = Tail(wire)
  BY DEF Deliver
<1> QED BY <1>1, LastOfTail, Zenon DEF LastTold

\* One step per kind of step that can move the mechanism or a message.
LEMMA NextReleaseIsTold ==
  ASSUME TypeOK, ReleaseIsTold, [Next]_vars
  PROVE  ReleaseIsTold'
<1> wire \in Seq(BOOLEAN)
  BY DEF TypeOK
<1>1. CASE UNCHANGED <<mechanism, wire, confirmed, unreported>>
  BY <1>1 DEF ReleaseIsTold, LastTold
<1>2. CASE Start \/ ReachRelease \/ AbortBefore \/ Return \/ GiveUp \/ NextFlight
  BY <1>1, <1>2
  DEF Start, ReachRelease, AbortBefore, Return, GiveUp, NextFlight, servoVars
<1>3. CASE RestartMission
  BY <1>3 DEF RestartMission, ReleaseIsTold, servoVars
<1>4. CASE Deliver
  <2>1. UNCHANGED <<mechanism, unreported>>
    BY <1>4 DEF Deliver, servoVars
  <2> QED BY <1>4, <2>1, DeliveryKeepsLastTold DEF ReleaseIsTold
<1>5. CASE Finish
  <2> SUFFICES ASSUME mechanism' = "released" PROVE LastTold' \/ unreported'
    BY DEF ReleaseIsTold
  <2>1. handler = "released"
    BY <1>5 DEF Finish, Complete
  <2>2. PICK heard \in BOOLEAN :
           /\ wire' = IF heard THEN Published(TRUE) ELSE wire
           /\ unreported' = ~heard
    BY <1>5, <2>1 DEF Finish
  <2>3. CASE heard
    BY <2>2, <2>3, PublishedIsLast DEF LastTold
  <2>4. CASE ~heard
    BY <2>2, <2>4
  <2> QED BY <2>3, <2>4
<1>6. CASE Break
  <2>1. UNCHANGED LastTold
    BY <1>6, Zenon DEF Break, LastTold
  <2>2. unreported' <=> mechanism' = "released" /\ (unreported \/ mechanism = "blocked")
    BY <1>6 DEF Break
  <2>3. mechanism \in Positions
    BY DEF TypeOK, ServoTypeOK
  <2> QED BY <2>1, <2>2, <2>3 DEF ReleaseIsTold, Positions
<1>7. CASE Call \/ Operate \/ Environment
  BY <1>1, <1>7
  DEF Call, Operate, Environment, Repeat, NoPort, WriteFails, Begin, Boot, HealthCheck,
      Unplug, Plug, servoVars, missionVars
<1>8. CASE UNCHANGED vars
  BY <1>1, <1>8 DEF vars, servoVars, missionVars
<1> QED BY <1>2, <1>3, <1>4, <1>5, <1>6, <1>7, <1>8 DEF Next

\* The drive is switched on with a move and off with its end.
LEMMA NextDriveEnds ==
  ASSUME DriveEnds, [Next]_vars
  PROVE  DriveEnds'
<1> USE DEF DriveEnds
<1>1. CASE UNCHANGED <<driven, handler, doubt>>
  BY <1>1
<1>2. CASE \/ Start \/ ReachRelease \/ AbortBefore \/ Return \/ GiveUp
           \/ NextFlight \/ RestartMission \/ Deliver \/ UNCHANGED vars
  BY <1>1, <1>2
  DEF Start, ReachRelease, AbortBefore, Return, GiveUp, NextFlight, RestartMission, Deliver,
      vars, servoVars
<1>3. CASE Call \/ Operate \/ Environment
  <2>1. CASE \E to \in {"blocked", "released"}, who \in {"mission", "operator"} : Begin(to, who)
    BY <2>1 DEF Begin
  <2> QED
    BY <1>1, <1>3, <2>1
    DEF Call, Operate, Environment, Positions, Repeat, NoPort, WriteFails, Boot, HealthCheck,
        Unplug, Plug, servoVars
<1>4. CASE Finish
  BY <1>4 DEF Finish, Complete
<1>5. CASE Break
  BY <1>5 DEF Break, Fail, Exit, CutOff
<1> QED BY <1>2, <1>3, <1>4, <1>5 DEF Next

-----------------------------------------------------------------------------
(* The theorems.                                                           *)

LEMMA NextIInv == IInv /\ [Next]_vars => IInv'
<1> SUFFICES ASSUME IInv, [Next]_vars PROVE IInv'
  OBVIOUS
<1>1. CASE \/ Start \/ ReachRelease \/ AbortBefore \/ Return \/ GiveUp
           \/ NextFlight \/ RestartMission \/ Deliver
  BY <1>1, MissionStep
<1>2. CASE Call
  BY <1>2, CallStep
<1>3. CASE Finish
  BY <1>3, FinishStep
<1>4. CASE Break
  BY <1>4, BreakStep
<1>5. CASE Operate
  BY <1>5, QuietServo DEF Operate
<1>6. CASE Environment
  BY <1>6, QuietServo DEF Environment
<1>7. CASE UNCHANGED vars
  BY <1>7, QuietServo DEF vars
<1> QED BY <1>1, <1>2, <1>3, <1>4, <1>5, <1>6, <1>7 DEF Next

\* The invariant holds in every state, whether the servo node refuses repeated
\* actions or not.
THEOREM Invariance == Spec => []IInv
<1>1. Init => IInv
  BY InitIInv
<1>2. IInv /\ [Next]_vars => IInv'
  BY NextIInv
<1> QED BY <1>1, <1>2, PTL DEF Spec

\* TypeOK: every variable keeps the type its declaration in the code gives it.
THEOREM TypeCorrect == Spec => []TypeOK
<1>1. IInv => TypeOK
  BY DEF IInv
<1> QED BY <1>1, Invariance, PTL

\* A lost answer never makes the mission release twice, for every retry_count.
THEOREM ReleasesOnce ==
  ASSUME ~AllowRepeat
  PROVE  Spec => []MovesOnce
<1>1. IInv => MovesOnce
  BY DEF IInv, OnceIfRefused
<1> QED BY <1>1, Invariance, PTL

\* The mission returns only with a release carried out in this stage.
THEOREM ReturnsAfterMove ==
  ASSUME ~AllowRepeat
  PROVE  Spec => []ReturnsMoved
<1>1. IInv => ReturnsMoved
  BY DEF IInv, TypeOK, AnswerIsTrue, OnceIfRefused, MovesOnce, ReturnsMoved
<1> QED BY <1>1, Invariance, PTL

\* What the servo node remembers of the mechanism is so, or in doubt.
THEOREM MemoryIsTrue == Spec => []RepeatMeansThere
<1>1. IInv => RepeatMeansThere
  BY DEF IInv
<1> QED BY <1>1, Invariance, PTL

\* Whatever the callers, the device and the node do, the servo is driven against
\* its stop only during a move or after one that was cut off; the repetition of
\* an action may be allowed or not.
THEOREM DriveIsBounded == Spec => []DriveEnds
<1>1. Init => DriveEnds
  BY DEF Init, ServoInit, DriveEnds
<1>2. DriveEnds /\ [Next]_vars => DriveEnds'
  BY NextDriveEnds
<1> QED BY <1>1, <1>2, PTL DEF Spec

\* A flight starts with a released mechanism only when the mission could not
\* know: no delivery, loss, overflow of the queue, restart of either node or try
\* of the operator leaves the gate with an older word.
THEOREM StartGate == Spec => StartsLoaded
<1> DEFINE Inv == IInv /\ ReleaseIsTold
           Loaded == stage = "ground" /\ stage' = "flight"
                       => mechanism = "blocked" \/ wire # << >> \/ unreported
<1>1. Init => Inv
  BY InitIInv DEF Init, ReleaseIsTold
<1>2. Inv /\ [Next]_vars => Inv'
  BY NextIInv, NextReleaseIsTold DEF IInv
<1>3. Inv /\ [Next]_vars => [Loaded]_vars
  <2> SUFFICES ASSUME Inv, Next, stage = "ground", stage' = "flight"
               PROVE  mechanism = "blocked" \/ wire # << >> \/ unreported
    BY Zenon
  <2>1. Start
    BY AnsweredTypes
    DEF Next, ReachRelease, AbortBefore, Call, Return, GiveUp, NextFlight, RestartMission,
        Deliver, Finish, Break, Operate, Environment, missionVars, Ignored, IInv, TypeOK,
        MissionRequest
  <2>2. ~confirmed
    BY <2>1 DEF Start, MayStart
  <2>3. mechanism \in Positions
    BY DEF IInv, TypeOK, ServoTypeOK
  <2> QED BY <2>2, <2>3 DEF ReleaseIsTold, LastTold, Positions
<1> QED BY <1>1, <1>2, <1>3, PTL DEF Spec, StartsLoaded
-----------------------------------------------------------------------------
(* The refinement.                                                         *)
(*                                                                         *)
(* PayloadRelease implements PayloadDelivery: what mission and servo node  *)
(* do together are steps of it, and what they do behind each other's back  *)
(* leaves it alone.                                                        *)

\* A step of the abstract specification, or none.
DeliveryStep == Delivery!Next \/ UNCHANGED Delivery!vars

Bench(who, to) == IF who = "operator" THEN to ELSE "none"

\* Where the abstract specification sees nothing.
LEMMA DeliveryStutters ==
  ASSUME UNCHANGED <<stage, mechanism, moved>>,
         Bench(caller', handler') = Bench(caller, handler)
  PROVE  DeliveryStep
  BY DEF DeliveryStep, Delivery!vars, PhaseOf, Bench

\* An answer without success leaves the mission calling, or makes it give up.
LEMMA DeliveryUnanswered ==
  ASSUME stage = "calling", Answered(FALSE), UNCHANGED <<mechanism, moved>>,
         Bench(caller', handler') = Bench(caller, handler)
  PROVE  DeliveryStep
<1>1. CASE stage' = "calling"
  BY <1>1, DeliveryStutters
<1>2. CASE stage' = "aborted"
  BY <1>2 DEF DeliveryStep, Delivery!Next, Delivery!Abort, PhaseOf, Bench
<1> QED BY <1>1, <1>2 DEF Answered

\* The mission's own steps.
LEMMA MissionDelivers ==
  ASSUME IInv, ~AllowRepeat,
         \/ Start \/ ReachRelease \/ AbortBefore \/ Return \/ GiveUp
         \/ NextFlight \/ RestartMission \/ Deliver
  PROVE  DeliveryStep
<1>1. UNCHANGED <<mechanism, caller, handler>>
  BY DEF Start, ReachRelease, AbortBefore, Return, GiveUp, NextFlight, RestartMission,
         Deliver, servoVars
<1>2. CASE Start
  BY <1>1, <1>2 DEF Start, DeliveryStep, Delivery!Next, Delivery!TakeOff, PhaseOf
<1>3. CASE ReachRelease
  BY <1>1, <1>3 DEF ReachRelease, DeliveryStep, Delivery!Next, Delivery!Arrive, PhaseOf
<1>4. CASE AbortBefore \/ GiveUp
  BY <1>1, <1>4
  DEF AbortBefore, GiveUp, DeliveryStep, Delivery!Next, Delivery!Abort, PhaseOf
<1>5. CASE Return
  <2>1. moved = 1 /\ mechanism = "released" /\ caller = "none"
    BY <1>5
    DEF Return, IInv, TypeOK, ServoTypeOK, AnswerIsTrue, OnceIfRefused, MovesOnce
  <2> QED BY <1>1, <1>5, <2>1
          DEF Return, DeliveryStep, Delivery!Next, Delivery!Return, PhaseOf
<1>6. CASE NextFlight
  BY <1>1, <1>6 DEF NextFlight, DeliveryStep, Delivery!Next, Delivery!Land, PhaseOf
<1>7. CASE RestartMission \/ Deliver
  BY <1>1, <1>7, DeliveryStutters DEF RestartMission, Deliver
<1> QED BY <1>2, <1>3, <1>4, <1>5, <1>6, <1>7

\* A call is not seen before the move it asks for ends.
LEMMA CallDelivers ==
  ASSUME IInv, Call
  PROVE  DeliveryStep
<1>1. stage = "calling" /\ handler = "none" /\ caller = "none" /\ UNCHANGED moved
  BY DEF Call, IInv, TypeOK, ServoTypeOK
<1>2. CASE Begin("released", "mission") /\ Ignored
  BY <1>1, <1>2, DeliveryStutters DEF Begin, Ignored, Bench
<1>3. CASE /\ Answered(FALSE)
           /\ \/ Repeat("released") \/ NoPort("released") \/ WriteFails("released")
              \/ UNCHANGED servoVars
  BY <1>1, <1>3, DeliveryUnanswered DEF Repeat, NoPort, WriteFails, servoVars
<1> QED BY <1>2, <1>3 DEF Call, RepeatAnswer

\* The end of a move: the mission's opens, the operator's does what it began.
LEMMA FinishDelivers ==
  ASSUME IInv, ~AllowRepeat, Finish
  PROVE  DeliveryStep
<1>1. /\ handler \in Positions /\ caller \in {"mission", "operator"} /\ moved \in Nat
      /\ mechanism' = handler /\ handler' = "none" /\ caller' = "none"
  BY DEF Finish, Complete, IInv, TypeOK, ServoTypeOK
<1>2. stage = "calling" => moved = 0
  BY <1>1 DEF IInv, DoneIsRemembered, Positions
<1>3. CASE caller = "mission"
  <2>1. stage = "calling" /\ handler = "released"
    BY <1>3 DEF IInv, MissionRequest
  <2>2. moved = 0 /\ moved' = 1 /\ mechanism' = "released"
    BY <1>1, <1>2, <2>1 DEF Finish
  <2>3. stage' \in {"calling", "waiting", "aborted"}
    BY <1>3, <2>1 DEF Finish, Answered
  <2> QED BY <1>1, <1>3, <2>1, <2>2, <2>3
          DEF DeliveryStep, Delivery!Next, Delivery!Open, PhaseOf
<1>4. CASE caller = "operator"
  <2>1. UNCHANGED stage
    BY <1>4 DEF Finish, Ignored
  <2>2. CASE handler = "released" /\ stage = "calling"
    <3>1. moved = 0 /\ moved' = 1
      BY <1>2, <2>2 DEF Finish
    <3> QED BY <1>1, <1>4, <2>1, <2>2, <3>1
            DEF DeliveryStep, Delivery!Next, Delivery!BenchEnds, PhaseOf, Positions
  <2>3. CASE ~(handler = "released" /\ stage = "calling")
    <3>1. UNCHANGED moved
      BY <2>3 DEF Finish
    <3> QED BY <1>1, <1>4, <2>1, <3>1
            DEF DeliveryStep, Delivery!Next, Delivery!BenchEnds, PhaseOf, Positions
  <2> QED BY <2>2, <2>3
<1> QED BY <1>1, <1>3, <1>4

\* A move that is cut off: the mission's may have opened without an answer.
LEMMA BreakDelivers ==
  ASSUME IInv, ~AllowRepeat, Break
  PROVE  DeliveryStep
<1>1. /\ UNCHANGED moved /\ mechanism \in Positions
      /\ caller \in {"none", "mission", "operator"} /\ (caller = "none" <=> handler = "none")
  BY DEF Break, IInv, TypeOK, ServoTypeOK
<1>2. CASE handler = "none"
  <2>1. UNCHANGED <<mechanism, handler, caller, stage>>
    BY <1>1, <1>2 DEF Break, Fail, Exit, Ignored
  <2> QED BY <1>1, <2>1, DeliveryStutters
<1>3. CASE handler # "none"
  <2>1. mechanism' \in {mechanism, handler} /\ handler' = "none" /\ caller' = "none"
    BY <1>3 DEF Break, Fail, Exit, CutOff
  <2>2. CASE caller = "mission"
    <3>1. stage = "calling" /\ handler = "released" /\ Answered(FALSE)
      BY <2>2 DEF Break, IInv, MissionRequest
    <3>2. moved = 0
      BY <3>1 DEF IInv, DoneIsRemembered
    <3>3. CASE mechanism' = mechanism
      BY <1>1, <2>1, <2>2, <3>1, <3>3, DeliveryUnanswered DEF Bench
    <3>4. CASE mechanism' = "released"
      <4>1. stage' \in {"calling", "aborted"}
        BY <3>1 DEF Answered
      <4> QED BY <1>1, <2>1, <2>2, <3>1, <3>2, <3>4, <4>1
              DEF DeliveryStep, Delivery!Next, Delivery!Open, PhaseOf
    <3> QED BY <2>1, <3>1, <3>3, <3>4
  <2>3. CASE caller = "operator"
    <3>1. UNCHANGED stage
      BY <2>3 DEF Break, Ignored
    <3> QED BY <1>1, <1>3, <2>1, <2>3, <3>1
            DEF DeliveryStep, Delivery!Next, Delivery!BenchEnds, PhaseOf
  <2> QED BY <1>1, <1>3, <2>2, <2>3
<1> QED BY <1>2, <1>3

\* The operator and the device.
LEMMA OthersDeliver ==
  ASSUME IInv, Operate \/ Environment \/ UNCHANGED vars
  PROVE  DeliveryStep
<1>1. CASE \E to \in Positions : stage = "ground" /\ Begin(to, "operator") /\ UNCHANGED missionVars
  <2>1. caller = "none" /\ stage = "ground" /\ UNCHANGED <<stage, moved, mechanism>>
    BY <1>1 DEF Begin, Idle, missionVars, IInv, TypeOK, ServoTypeOK
  <2>2. caller' = "operator" /\ handler' \in Positions
    BY <1>1 DEF Begin
  <2> QED BY <2>1, <2>2
          DEF DeliveryStep, Delivery!Next, Delivery!BenchBegins, Delivery!Positions,
              Positions, PhaseOf
<1>2. CASE UNCHANGED <<stage, moved, mechanism, caller, handler>>
  BY <1>2, DeliveryStutters DEF Bench
<1> QED BY <1>1, <1>2
        DEF Operate, Environment, Repeat, NoPort, WriteFails, Boot, HealthCheck, Unplug, Plug,
            vars, servoVars, missionVars

\* ImplementsDelivery: in a flight the mission opens the mechanism in the RELEASE
\* stage only and once, and returns only with it; for every retry_count and queue.
THEOREM ReleaseImplementsDelivery ==
  ASSUME ~AllowRepeat
  PROVE  Spec => ImplementsDelivery
<1>1. Init => Delivery!Init
  BY DEF Init, ServoInit, Delivery!Init, Delivery!Positions, Positions, PhaseOf
<1>2. IInv /\ [Next]_vars => [Delivery!Next]_Delivery!vars
  <2> SUFFICES ASSUME IInv, [Next]_vars PROVE DeliveryStep
    BY DEF DeliveryStep
  <2> QED BY MissionDelivers, CallDelivers, FinishDelivers, BreakDelivers, OthersDeliver
          DEF Next
<1> QED BY <1>1, <1>2, Invariance, PTL DEF Spec, ImplementsDelivery, Delivery!Spec
=============================================================================
