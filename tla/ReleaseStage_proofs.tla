------------------------ MODULE ReleaseStage_proofs -------------------------
(***************************************************************************)
(* The RELEASE stage calls the servo only near the low height and returns  *)
(* only with a confirmed release: for every height, tolerance, speed,      *)
(* number of retries and hold time, as long as the hold time is long       *)
(* enough for the way the aircraft strays from its setpoint.  And from a   *)
(* release that is deep enough it does not return at all.                  *)
(***************************************************************************)
EXTENDS ReleaseStage, TLAPS

-----------------------------------------------------------------------------
(* Types.                                                                  *)

\* The distance is one of the two differences, and the larger one.
LEMMA DistanceIs ==
  ASSUME NEW a \in Int, NEW b \in Int
  PROVE  /\ Distance(a, b) \in Nat
         /\ a - b <= Distance(a, b) /\ b - a <= Distance(a, b)
         /\ Distance(a, b) = a - b \/ Distance(a, b) = b - a
BY DEF Distance

\* One step leads towards the goal and not past it.
LEMMA LimitStepApproaches ==
  ASSUME NEW current \in Int, NEW goal \in Int
  PROVE  /\ LimitStep(current, goal) \in Int
         /\ current <= goal => current <= LimitStep(current, goal) /\ LimitStep(current, goal) <= goal
         /\ goal <= current => goal <= LimitStep(current, goal) /\ LimitStep(current, goal) <= current
         /\ \/ LimitStep(current, goal) = goal
            \/ Distance(LimitStep(current, goal), goal) = Distance(current, goal) - Step
BY ReleaseAssumption DEF ReleaseAssumption, LimitStep, Distance

LEMMA HeightTypes ==
  /\ Low \in Int /\ Cruise \in Int /\ Low <= Cruise
  /\ Wobble \in Nat /\ Step \in Nat \ {0} /\ Tolerance \in Nat
  /\ HoldTicks \in Nat /\ RetryCount \in Nat
BY ReleaseAssumption DEF ReleaseAssumption, Low

\* The target stays in the range in which a step from it stays.
LEMMA StepStays ==
  ASSUME NEW t \in (Low - Wobble)..(Cruise + Wobble), NEW goal \in {Low, Cruise}
  PROVE  LimitStep(t, goal) \in (Low - Wobble)..(Cruise + Wobble)
<1>1. t \in Int /\ goal \in Int /\ Low - Wobble <= t /\ t <= Cruise + Wobble
  BY HeightTypes
<1> DEFINE next == LimitStep(t, goal)
<1>2. /\ next \in Int
      /\ t <= goal => t <= next /\ next <= goal
      /\ goal <= t => goal <= next /\ next <= t
  BY <1>1, LimitStepApproaches
<1>3. Low <= goal /\ goal <= Cruise
  BY HeightTypes
<1> HIDE DEF next
<1>4. Low - Wobble <= next /\ next <= Cruise + Wobble
  BY <1>1, <1>2, <1>3, HeightTypes
<1>5. next \in (Low - Wobble)..(Cruise + Wobble)
  BY <1>2, <1>4, HeightTypes
<1> QED BY <1>5 DEF next

LEMMA LookTypes ==
  ASSUME NEW goal \in {Low, Cruise}, Look(goal), reached \in 0..(HoldTicks + 1)
  PROVE  reached' \in 0..(HoldTicks + 1)
BY HeightTypes DEF Look

\* The confirmation is an answer to a call.
ConfirmedCall == confirmed => calls > 0

ReturnInv == TypeOK /\ ConfirmedCall /\ ReturnsReleased

LEMMA InitReturnInv == Init => ReturnInv
<1> SUFFICES ASSUME Init PROVE ReturnInv
  OBVIOUS
<1>1. {descended, servoCalled, confirmed} \subseteq BOOLEAN
  BY Zenon DEF Init
<1>2. reached \in 0..(HoldTicks + 1) /\ target \in (Low - Wobble)..(Cruise + Wobble)
  BY HeightTypes DEF Init
<1>3. pose \in Int /\ calls \in Nat /\ state = "RELEASE"
  BY HeightTypes DEF Init
<1>4. TypeOK
  BY <1>1, <1>2, <1>3 DEF TypeOK
<1> QED BY <1>4 DEF Init, ReturnInv, ConfirmedCall, ReturnsReleased

LEMMA WaitTypes ==
  ASSUME WaitOrAbort, state = "RELEASE"
  PROVE  state' \in {"RELEASE", "ABORT_LAND"}
BY DEF WaitOrAbort

LEMMA NextReturnInv ==
  ASSUME ReturnInv, [Next]_vars
  PROVE  ReturnInv'
<1> USE DEF ReturnInv, ConfirmedCall, ReturnsReleased
<1>1. CASE DescendTick
  <2>1. target' \in (Low - Wobble)..(Cruise + Wobble) /\ reached' \in 0..(HoldTicks + 1)
    BY <1>1, StepStays, LookTypes DEF DescendTick, TypeOK
  <2>2. state' \in {"RELEASE", "ABORT_LAND"}
    BY <1>1, WaitTypes DEF DescendTick
  <2>3. descended' \in BOOLEAN
    BY <1>1 DEF DescendTick, TypeOK
  <2> QED BY <1>1, <2>1, <2>2, <2>3 DEF DescendTick, TypeOK
<1>2. ASSUME NEW ok \in BOOLEAN, NEW attempts \in Attempts, ServoTick(ok, attempts)
      PROVE  ReturnInv'
  <2>1. attempts \in Nat \ {0}
    BY HeightTypes DEF Attempts
  <2>2. calls' \in Nat /\ calls' >= calls /\ (PayloadEnable => calls' > 0)
    BY <1>2, <2>1 DEF ServoTick, TypeOK
  <2>3. CASE PayloadEnable /\ ok /\ Await /\ UNCHANGED confirmed
    <3>1. target' \in (Low - Wobble)..(Cruise + Wobble) /\ UNCHANGED reached
      BY <2>3, StepStays DEF Await, TypeOK
    <3>2. state' \in {"RELEASE", "ABORT_LAND"}
      BY <1>2, <2>3, WaitTypes DEF Await, ServoTick
    <3> QED BY <1>2, <2>2, <2>3, <3>1, <3>2 DEF ServoTick, TypeOK
  <2>4. CASE PayloadEnable /\ ok /\ Climb /\ confirmed' = TRUE
    <3>1. target' \in (Low - Wobble)..(Cruise + Wobble) /\ reached' \in 0..(HoldTicks + 1)
      BY <2>4, StepStays, LookTypes DEF Climb, TypeOK
    <3>2. state' \in {"RELEASE", "ABORT_LAND", "RETURN"}
      BY <1>2, <2>4, WaitTypes DEF Climb, ServoTick
    <3> QED BY <1>2, <2>2, <2>4, <3>1, <3>2 DEF ServoTick, TypeOK
  <2>5. CASE state' = "ABORT_LAND" /\ UNCHANGED <<target, reached, confirmed>>
    BY <1>2, <2>2, <2>5 DEF ServoTick, TypeOK
  <2> QED BY <1>2, <2>3, <2>4, <2>5 DEF ServoTick
<1>3. CASE ConfirmTick
  <2>1. target' \in (Low - Wobble)..(Cruise + Wobble) /\ UNCHANGED reached
    BY <1>3, StepStays DEF ConfirmTick, Await, TypeOK
  <2>2. state' \in {"RELEASE", "ABORT_LAND"}
    BY <1>3, WaitTypes DEF ConfirmTick, Await
  <2> QED BY <1>3, <2>1, <2>2 DEF ConfirmTick, TypeOK
<1>4. CASE ClimbTick
  <2>1. target' \in (Low - Wobble)..(Cruise + Wobble) /\ reached' \in 0..(HoldTicks + 1)
    BY <1>4, StepStays, LookTypes DEF ClimbTick, Climb, TypeOK
  <2>2. state' \in {"RELEASE", "ABORT_LAND", "RETURN"}
    BY <1>4, WaitTypes DEF ClimbTick, Climb
  <2> QED BY <1>4, <2>1, <2>2 DEF ClimbTick, PayloadConfirmed, TypeOK
<1>5. CASE Confirmation
  BY <1>5 DEF Confirmation, TypeOK
<1>6. CASE Follow
  BY <1>6, HeightTypes DEF Follow, TypeOK
<1>7. CASE UNCHANGED vars
  BY <1>7 DEF vars, TypeOK
<1> QED BY <1>1, <1>2, <1>3, <1>4, <1>5, <1>6, <1>7 DEF Next, Tick

-----------------------------------------------------------------------------
(* The way down.                                                           *)

\* How far the aircraft can be past its setpoint, twice: it strays, or overshoots
\* by less than half a step, because it must end closer than it was.
TwiceStray == IF 2 * Wobble < Step THEN Step ELSE 2 * Wobble

\* The hold time outlasts the straying: while the aircraft waits for it near the
\* low height, the setpoint comes down too, and far enough that the aircraft
\* stays near.  Without either conjunct TLC finds a call away from the low height.
HoldSuffices ==
  /\ Wobble <= Tolerance
  /\ 2 * Wobble <= (HoldTicks + 1) * Step

\* An aircraft at p is not further along than the setpoint at t by more than that.
NotPast(t, p) ==
  /\ t > Low => 2 * (t - p) <= TwiceStray
  /\ t < Low => 2 * (p - t) <= TwiceStray

\* The setpoint at t has come down by n steps, or all the way, since the aircraft
\* came near the low height.
Lowered(t, n) ==
  t = Low \/ 2 * Distance(t, Low) + 2 * (n * Step) <= 2 * Tolerance + TwiceStray

\* A setpoint at t keeps the aircraft near the low height.
Keeps(t) == t = Low \/ 2 * Distance(t, Low) + TwiceStray <= 2 * Tolerance

\* On the way down each look that counts for the hold time has brought the
\* setpoint a step down; from the arrival to the call the aircraft stays.
DescentInv ==
  /\ servoCalled => descended
  /\ ~descended => /\ NotPast(target, pose)
                   /\ reached <= HoldTicks
                   /\ reached > 0 => Lowered(target, reached)
  /\ descended /\ ~servoCalled => Near(Low) /\ Keeps(target)

LEMMA StrayTypes ==
  /\ TwiceStray \in Nat /\ 2 * Wobble <= TwiceStray /\ Step <= TwiceStray
  /\ TwiceStray = Step \/ TwiceStray = 2 * Wobble
BY HeightTypes DEF TwiceStray

LEMMA InitDescentInv == Init => DescentInv
BY HeightTypes DEF Init, DescentInv, NotPast, TwiceStray

\* The setpoint of the descent after one more tick.
LEMMA DescentStep ==
  ASSUME NEW t \in Int
  PROVE  /\ LimitStep(t, Low) \in Int
         /\ LimitStep(t, Low) > Low => LimitStep(t, Low) = t - Step
         /\ LimitStep(t, Low) < Low => LimitStep(t, Low) = t + Step
BY HeightTypes DEF LimitStep, Distance

\* A step of the setpoint does not leave the aircraft further past it.
LEMMA StepNotPast ==
  ASSUME NEW t \in Int, NEW p \in Int, NotPast(t, p)
  PROVE  NotPast(LimitStep(t, Low), p)
<1> DEFINE u == LimitStep(t, Low)
<1>1. u \in Int /\ (u > Low => u = t - Step) /\ (u < Low => u = t + Step)
  BY DescentStep
<1> HIDE DEF u
<1>2. NotPast(u, p)
  BY <1>1, HeightTypes, StrayTypes DEF NotPast
<1> QED BY <1>2 DEF u

\* One more look near the low height is one more step down.
LEMMA LookLowers ==
  ASSUME NEW t \in Int, NEW p \in Int, NEW n \in Nat,
         Distance(p, Low) <= Tolerance, NotPast(t, p), n > 0 => Lowered(t, n)
  PROVE  Lowered(LimitStep(t, Low), n + 1)
<1> DEFINE u == LimitStep(t, Low)
           used == n * Step
           more == (n + 1) * Step
<1>1. u \in Int /\ (u > Low => u = t - Step) /\ (u < Low => u = t + Step)
  BY DescentStep
<1>2. used \in Nat /\ more = used + Step /\ (n = 0 => used = 0)
  BY HeightTypes
<1>3. t = Low \/ 2 * Distance(t, Low) + 2 * used <= 2 * Tolerance + TwiceStray
  <2>1. CASE n = 0
    <3>1. used = 0
      BY <1>2, <2>1
    <3> HIDE DEF used
    <3>2. 2 * Distance(t, Low) <= 2 * Tolerance + TwiceStray
      BY HeightTypes, StrayTypes DEF NotPast, Distance
    <3>3. Distance(t, Low) \in Nat
      BY DistanceIs, HeightTypes
    <3> QED BY <3>1, <3>2, <3>3, HeightTypes, StrayTypes
  <2>2. CASE n > 0
    BY <2>2 DEF Lowered
  <2> QED BY <2>1, <2>2
<1> HIDE DEF u, used, more
<1>4. u = Low \/ 2 * Distance(u, Low) + 2 * more <= 2 * Tolerance + TwiceStray
  <2>1. CASE u > Low
    BY <1>1, <1>2, <1>3, <2>1, HeightTypes, StrayTypes DEF Distance
  <2>2. CASE u < Low
    BY <1>1, <1>2, <1>3, <2>2, HeightTypes, StrayTypes DEF Distance
  <2> QED BY <1>1, <2>1, <2>2, HeightTypes
<1> QED BY <1>4 DEF Lowered, u, more

\* When the hold time has been used the setpoint is low enough.
LEMMA HoldKeeps ==
  ASSUME HoldSuffices, NEW t \in Int, Lowered(t, HoldTicks + 1)
  PROVE  Keeps(t)
<1> DEFINE used == (HoldTicks + 1) * Step
<1>1. used \in Nat /\ Step <= used
  <2>1. HoldTicks * Step \in Nat /\ used = HoldTicks * Step + Step
    BY HeightTypes
  <2> HIDE DEF used
  <2> QED BY <2>1, HeightTypes
<1>2. 2 * Wobble <= used
  BY DEF HoldSuffices
<1>3. t = Low \/ 2 * Distance(t, Low) + 2 * used <= 2 * Tolerance + TwiceStray
  BY DEF Lowered
<1> HIDE DEF used
<1>4. TwiceStray <= used
  BY <1>1, <1>2, StrayTypes
<1>5. Distance(t, Low) \in Nat
  BY DistanceIs, HeightTypes
<1>6. t = Low \/ 2 * Distance(t, Low) + TwiceStray <= 2 * Tolerance
  BY <1>1, <1>3, <1>4, <1>5, HeightTypes, StrayTypes
<1> QED BY <1>6 DEF Keeps

\* An aircraft at p that moves to q on its way to a setpoint at t is near it
\* then, or has come closer without overshooting by more than half a step.
LEMMA ClosingIn ==
  ASSUME NEW p \in Int, NEW q \in Int, NEW t \in Int, q \in (p - Step)..(p + Step),
         Distance(q, t) <= Wobble \/ Distance(q, t) < Distance(p, t)
  PROVE  \/ q - t <= Wobble /\ t - q <= Wobble
         \/ p > t /\ q < p /\ 2 * (t - q) <= Step
         \/ p < t /\ p < q /\ 2 * (q - t) <= Step
<1>1. Step \in Nat /\ Wobble \in Nat /\ q <= p + Step /\ p - Step <= q
  BY HeightTypes
<1>2. CASE Distance(q, t) <= Wobble
  BY <1>1, <1>2 DEF Distance
<1>3. CASE Distance(q, t) < Distance(p, t)
  BY <1>1, <1>3 DEF Distance
<1> QED BY <1>2, <1>3

\* On the way down the aircraft does not get further past the setpoint, and once
\* the setpoint keeps it near it stays near.
LEMMA FollowStays ==
  ASSUME NEW p \in Int, NEW q \in Int, NEW t \in Int, q \in (p - Step)..(p + Step),
         Distance(q, t) <= Wobble \/ Distance(q, t) < Distance(p, t)
  PROVE  /\ NotPast(t, p) => NotPast(t, q)
         /\ HoldSuffices /\ Keeps(t) /\ Distance(p, Low) <= Tolerance
              => Distance(q, Low) <= Tolerance
<1>1. \/ q - t <= Wobble /\ t - q <= Wobble
      \/ p > t /\ q < p /\ 2 * (t - q) <= Step
      \/ p < t /\ p < q /\ 2 * (q - t) <= Step
  BY ClosingIn
<1>2. NotPast(t, p) => NotPast(t, q)
  BY <1>1, HeightTypes, StrayTypes DEF NotPast
<1>3. ASSUME HoldSuffices, Keeps(t), Distance(p, Low) <= Tolerance
      PROVE  Distance(q, Low) <= Tolerance
  <2>1. p - Low <= Tolerance /\ Low - p <= Tolerance
    BY <1>3, HeightTypes DEF Distance
  <2>2. \/ t = Low
        \/ /\ 2 * (t - Low) + TwiceStray <= 2 * Tolerance
           /\ 2 * (Low - t) + TwiceStray <= 2 * Tolerance
    BY <1>3, HeightTypes, StrayTypes DEF Keeps, Distance
  <2>3. 2 * Wobble <= TwiceStray /\ Step <= TwiceStray /\ TwiceStray \in Nat
    BY StrayTypes
  <2>4. Wobble <= Tolerance
    BY <1>3 DEF HoldSuffices
  <2>5. t = Low => Distance(q, Low) <= Tolerance
    <3>1. Distance(p, Low) \in Nat /\ Distance(q, Low) \in Nat
      BY DistanceIs, HeightTypes
    <3> QED BY <1>3, <2>4, <3>1, HeightTypes
  <2>6. t # Low => q - Low <= Tolerance /\ Low - q <= Tolerance
    <3>1. CASE q - t <= Wobble /\ t - q <= Wobble
      BY <2>2, <2>3, <3>1, HeightTypes
    <3>2. CASE p > t /\ q < p /\ 2 * (t - q) <= Step
      BY <2>1, <2>2, <2>3, <3>2, HeightTypes
    <3>3. CASE p < t /\ p < q /\ 2 * (q - t) <= Step
      BY <2>1, <2>2, <2>3, <3>3, HeightTypes
    <3> QED BY <1>1, <3>1, <3>2, <3>3
  <2> QED BY <2>5, <2>6, HeightTypes DEF Distance
<1> QED BY <1>2, <1>3

\* The tick that does not arrive keeps count; the one that does arrive has
\* brought the setpoint down far enough.
LEMMA DescendTickKeeps ==
  ASSUME HoldSuffices, TypeOK, DescentInv, DescendTick
  PROVE  DescentInv'
<1>1. /\ target \in Int /\ pose \in Int /\ reached \in Nat /\ HoldTicks \in Nat
      /\ ~descended /\ ~servoCalled /\ UNCHANGED <<pose, servoCalled>>
      /\ target' = LimitStep(target, Low) /\ Look(Low)
  BY HeightTypes DEF TypeOK, DescendTick, DescentInv
<1>2. /\ NotPast(target, pose) /\ reached <= HoldTicks
      /\ reached > 0 => Lowered(target, reached)
  BY <1>1 DEF DescentInv
<1>3. NotPast(target, pose)'
  BY <1>1, <1>2, StepNotPast
<1>4. Near(Low) => Lowered(target', reached + 1)
  BY <1>1, <1>2, LookLowers DEF Near
<1>5. CASE Arrived(Low)
  <2>1. reached = HoldTicks /\ Near(Low)
    BY <1>1, <1>2, <1>5 DEF Arrived
  <2>2. target' \in Int
    BY <1>1, DescentStep
  <2>3. Keeps(target')
    BY <1>4, <2>1, <2>2, HoldKeeps
  <2>4. Near(Low)' /\ Keeps(target)'
    BY <1>1, <2>1, <2>3 DEF Near, Keeps
  <2> QED BY <1>1, <1>5, <2>4 DEF DescentInv, DescendTick
<1>6. CASE ~Arrived(Low)
  <2>1. ~descended' /\ ~servoCalled'
    BY <1>1, <1>6 DEF DescendTick
  <2>2. CASE ~Near(Low)
    BY <1>1, <1>3, <2>1, <2>2 DEF Look, DescentInv
  <2>3. CASE Near(Low)
    <3>1. reached' = reached + 1 /\ reached' <= HoldTicks
      BY <1>1, <1>2, <1>6, <2>3 DEF Look, Arrived
    <3>2. Lowered(target, reached)'
      BY <1>4, <2>3, <3>1 DEF Lowered
    <3> QED BY <1>3, <2>1, <3>1, <3>2 DEF DescentInv
  <2> QED BY <2>2, <2>3
<1> QED BY <1>5, <1>6

\* The aircraft moves, and stays where the descent needs it.
LEMMA FollowKeeps ==
  ASSUME HoldSuffices, TypeOK, DescentInv, Follow
  PROVE  DescentInv'
<1>1. /\ target \in Int /\ pose \in Int /\ pose' \in Int
      /\ UNCHANGED <<target, reached, descended, servoCalled>>
      /\ pose' \in (pose - Step)..(pose + Step)
      /\ \/ Distance(pose', target) <= Wobble
         \/ Distance(pose', target) < Distance(pose, target)
  BY HeightTypes DEF TypeOK, Follow
<1>2. /\ NotPast(target, pose) => NotPast(target, pose')
      /\ Keeps(target) /\ Distance(pose, Low) <= Tolerance => Distance(pose', Low) <= Tolerance
  BY <1>1, FollowStays
<1>3. NotPast(target, pose') <=> NotPast(target, pose)'
  BY <1>1 DEF NotPast
<1>4. (Keeps(target) <=> Keeps(target)') /\ (Lowered(target, reached) <=> Lowered(target, reached)')
  BY <1>1 DEF Keeps, Lowered
<1>5. Near(Low)' <=> Distance(pose', Low) <= Tolerance
  BY DEF Near
<1> QED BY <1>1, <1>2, <1>3, <1>4, <1>5 DEF DescentInv, Near

\* From the call on, nothing is claimed of the height any more.
LEMMA NextDescentInv ==
  ASSUME HoldSuffices, TypeOK, DescentInv, [Next]_vars
  PROVE  DescentInv'
<1>1. CASE DescendTick
  BY <1>1, DescendTickKeeps
<1>2. CASE Follow
  BY <1>2, FollowKeeps
<1>3. CASE UNCHANGED <<descended, servoCalled, reached, target, pose>>
  BY <1>3 DEF DescentInv, NotPast, Lowered, Keeps, Near
<1>4. CASE descended /\ servoCalled' /\ UNCHANGED descended
  BY <1>4 DEF DescentInv
<1>5. CASE Confirmation \/ UNCHANGED vars
  BY <1>3, <1>5 DEF Confirmation, vars
<1>6. CASE ConfirmTick \/ ClimbTick \/ \E ok \in BOOLEAN, attempts \in Attempts :
                                          ServoTick(ok, attempts)
  BY <1>4, <1>6 DEF ConfirmTick, ClimbTick, ServoTick, DescentInv
<1> QED BY <1>1, <1>2, <1>5, <1>6 DEF Next, Tick

-----------------------------------------------------------------------------
(* The theorems.                                                           *)

LEMMA ReturnInvariance == Spec => []ReturnInv
<1>1. ReturnInv /\ [Next]_vars => ReturnInv'
  BY NextReturnInv
<1> QED BY <1>1, InitReturnInv, PTL DEF Spec

\* TypeOK: the setpoint stays between the low and the cruise height, give or
\* take how far the aircraft strays, and the hold counter in its range.
THEOREM TypeCorrect == Spec => []TypeOK
<1>1. ReturnInv => TypeOK
  BY DEF ReturnInv
<1> QED BY <1>1, ReturnInvariance, PTL

\* The mission returns only with a release that was asked for and confirmed, for
\* every payload.retry_count and whether or not the payload is enabled.
THEOREM ReturnsConfirmed == Spec => []ReturnsReleased
<1>1. ReturnInv => ReturnsReleased
  BY DEF ReturnInv
<1> QED BY <1>1, ReturnInvariance, PTL

\* The servo is called near the low height: for every descent, tolerance, speed
\* and hold time of mission.yaml for which the hold outlasts the straying.
THEOREM CallsLow ==
  ASSUME HoldSuffices
  PROVE  Spec => ReleasesLow
<1> DEFINE Inv == TypeOK /\ DescentInv
           CallIsLow == calls' > calls => Near(Low)
<1>1. Init /\ TypeOK => Inv
  BY InitDescentInv
<1>2. Inv /\ [Next]_vars /\ TypeOK' => Inv'
  BY NextDescentInv
<1>3. Inv /\ [Next]_vars => [CallIsLow]_vars
  <2> SUFFICES ASSUME Inv, Next, calls' > calls PROVE Near(Low)
    BY Zenon
  <2>1. calls \in Nat
    BY DEF TypeOK
  <2>2. PICK ok \in BOOLEAN, attempts \in Attempts : ServoTick(ok, attempts)
    BY <2>1 DEF Next, Tick, DescendTick, ConfirmTick, ClimbTick, Confirmation, Follow
  <2>3. descended /\ ~servoCalled
    BY <2>2 DEF ServoTick
  <2> QED BY <2>3 DEF DescentInv
<1> QED BY <1>1, <1>2, <1>3, TypeCorrect, PTL DEF Spec, ReleasesLow
-----------------------------------------------------------------------------
(* The climb that does not climb.                                          *)
(*                                                                         *)
(* The low target is sent in every tick of the climb too.  So the setpoint *)
(* that has come down never leaves the low height by more than one step,   *)
(* and an aircraft that has followed it down stays out of reach of the     *)
(* cruise height: all that is left for the stage is its timeout.           *)

\* The setpoint is at the low height when the hold time is over.
HoldReachesLow == 2 * Tolerance + TwiceStray < 2 * ((HoldTicks + 1) * Step)

\* The descent is deeper than the tolerance of the cruise height, one step of the
\* setpoint and the straying make up for.
DeepDescent == 2 * Step + 2 * Tolerance + TwiceStray < 2 * Descend

SetpointStaysLow == descended => target \in {Low, Low + Step}

\* As high as an aircraft comes that follows such a setpoint.
Beneath(p) == 2 * (p - Low) <= 2 * Step + TwiceStray

\* The aircraft has followed the setpoint down, and the stage goes on.
Down == descended /\ state # "RETURN" /\ Beneath(pose)

LEMMA DepthTypes ==
  /\ Low \in Int /\ Cruise \in Int /\ Descend \in Nat /\ Cruise = Low + Descend
BY ReleaseAssumption DEF ReleaseAssumption, Low

\* The two targets of one tick of the climb, and the one of a tick that waits.
LEMMA LowSteps ==
  ASSUME DeepDescent, NEW t \in {Low, Low + Step}
  PROVE  /\ LimitStep(t, Low) = Low
         /\ LimitStep(LimitStep(t, Low), Cruise) = Low + Step
<1>1. LimitStep(t, Low) = Low
  BY HeightTypes DEF LimitStep, Distance
<1>2. Cruise > Low + Step
  BY DepthTypes, HeightTypes, StrayTypes DEF DeepDescent
<1>3. LimitStep(Low, Cruise) = Low + Step
  BY <1>2, HeightTypes DEF LimitStep, Distance
<1> QED BY <1>1, <1>3

\* A hold that has been used up has brought the setpoint all the way down.
LEMMA LoweredAllTheWay ==
  ASSUME HoldReachesLow, NEW t \in Int, Lowered(t, HoldTicks + 1)
  PROVE  t = Low
<1> DEFINE used == (HoldTicks + 1) * Step
<1>1. used \in Nat
  BY HeightTypes
<1>2. t = Low \/ 2 * Distance(t, Low) + 2 * used <= 2 * Tolerance + TwiceStray
  BY DEF Lowered
<1>3. 2 * Tolerance + TwiceStray < 2 * used
  BY DEF HoldReachesLow
<1>4. Distance(t, Low) \in Nat
  BY DistanceIs, HeightTypes
<1> HIDE DEF used
<1> QED BY <1>1, <1>2, <1>3, <1>4, HeightTypes, StrayTypes

LEMMA NextSetpointStaysLow ==
  ASSUME HoldReachesLow, DeepDescent, TypeOK, DescentInv, SetpointStaysLow, [Next]_vars
  PROVE  SetpointStaysLow'
<1>1. CASE DescendTick
  <2>1. CASE Arrived(Low)
    <3>1. /\ target \in Int /\ pose \in Int /\ reached \in Nat /\ HoldTicks \in Nat
          /\ ~descended /\ target' = LimitStep(target, Low)
      BY <1>1, HeightTypes DEF TypeOK, DescendTick
    <3>2. NotPast(target, pose) /\ reached = HoldTicks /\ (reached > 0 => Lowered(target, reached))
      BY <2>1, <3>1 DEF DescentInv, Arrived
    <3>3. Lowered(target', HoldTicks + 1)
      BY <2>1, <3>1, <3>2, LookLowers DEF Arrived, Near
    <3>4. target' = Low
      BY <3>1, <3>3, DescentStep, LoweredAllTheWay
    <3> QED BY <3>4 DEF SetpointStaysLow
  <2>2. CASE ~Arrived(Low)
    BY <1>1, <2>2 DEF DescendTick, SetpointStaysLow
  <2> QED BY <2>1, <2>2
<1>2. CASE descended /\ (Await \/ Climb)
  BY <1>2, LowSteps DEF Await, Climb, SetpointStaysLow
<1>3. ASSUME NEW ok \in BOOLEAN, NEW attempts \in Attempts, ServoTick(ok, attempts)
      PROVE  SetpointStaysLow'
  BY <1>2, <1>3 DEF ServoTick, SetpointStaysLow
<1>4. CASE ConfirmTick \/ ClimbTick
  BY <1>2, <1>4 DEF ConfirmTick, ClimbTick, DescentInv
<1>5. CASE Confirmation \/ Follow \/ UNCHANGED vars
  BY <1>5 DEF Confirmation, Follow, vars, SetpointStaysLow
<1> QED BY <1>1, <1>3, <1>4, <1>5 DEF Next, Tick

\* Out of reach of the cruise height, ...
LEMMA BeneathIsFar ==
  ASSUME DeepDescent, NEW p \in Int, Beneath(p)
  PROVE  Distance(p, Cruise) > Tolerance
<1>1. Cruise - p > Tolerance
  BY DepthTypes, HeightTypes, StrayTypes DEF DeepDescent, Beneath
<1> QED BY <1>1, DepthTypes, HeightTypes DEF Distance

\* ... and so it remains, wherever the wind takes the aircraft.
LEMMA FollowStaysBeneath ==
  ASSUME NEW p \in Int, NEW q \in Int, NEW t \in {Low, Low + Step},
         q \in (p - Step)..(p + Step),
         Distance(q, t) <= Wobble \/ Distance(q, t) < Distance(p, t), Beneath(p)
  PROVE  Beneath(q)
<1>1. t \in Int /\ t <= Low + Step
  BY HeightTypes
<1>2. \/ q - t <= Wobble /\ t - q <= Wobble
      \/ p > t /\ q < p /\ 2 * (t - q) <= Step
      \/ p < t /\ p < q /\ 2 * (q - t) <= Step
  BY <1>1, ClosingIn
<1> QED BY <1>1, <1>2, HeightTypes, StrayTypes DEF Beneath

LEMMA StaysDown ==
  ASSUME DeepDescent, TypeOK, DescentInv, SetpointStaysLow, Down, [Next]_vars
  PROVE  Down'
<1>1. descended /\ pose \in Int /\ Beneath(pose) /\ state # "RETURN"
  BY DEF Down, TypeOK
<1>2. ~Arrived(Cruise)
  <2>1. Distance(pose, Cruise) > Tolerance
    BY <1>1, BeneathIsFar
  <2>2. Distance(pose, Cruise) \in Nat
    BY <1>1, DistanceIs, HeightTypes
  <2> QED BY <2>1, <2>2, HeightTypes DEF Arrived, Near
<1>3. CASE Tick
  <2>1. pose' = pose /\ descended'
    BY <1>1, <1>3 DEF Tick, DescendTick, ServoTick, ConfirmTick, ClimbTick
  <2>2. ASSUME Await \/ Climb PROVE state' # "RETURN"
    BY <1>1, <1>2, <2>2 DEF Await, Climb, WaitOrAbort
  <2>3. state' # "RETURN"
    BY <1>1, <1>3, <2>2 DEF Tick, DescendTick, ServoTick, ConfirmTick, ClimbTick
  <2> QED BY <1>1, <2>1, <2>3 DEF Down, Beneath
<1>4. CASE Follow
  <2>1. /\ target \in {Low, Low + Step} /\ pose' \in (pose - Step)..(pose + Step)
        /\ Distance(pose', target) <= Wobble \/ Distance(pose', target) < Distance(pose, target)
        /\ pose' \in Int
    BY <1>1, <1>4, HeightTypes DEF SetpointStaysLow, Follow
  <2>2. Beneath(pose')
    BY <1>1, <2>1, FollowStaysBeneath
  <2> QED BY <1>1, <1>4, <2>2 DEF Follow, Down, Beneath
<1>5. CASE Confirmation \/ UNCHANGED vars
  BY <1>1, <1>5 DEF Confirmation, vars, Down, Beneath
<1> QED BY <1>3, <1>4, <1>5 DEF Next

\* A deep enough release - mission.yaml's is - never returns from the low height,
\* whatever the servo node confirms: the comments of _stage_release and of
\* payload.release_descend say that it climbs back and goes on.
THEOREM DeepReleaseStalls ==
  ASSUME HoldSuffices, HoldReachesLow, DeepDescent
  PROVE  Spec => [](Down => [](state # "RETURN"))
<1> DEFINE Inv == TypeOK /\ DescentInv /\ SetpointStaysLow
<1>1. Init /\ TypeOK => Inv
  BY InitDescentInv DEF Init, SetpointStaysLow
<1>2. Inv /\ [Next]_vars /\ TypeOK' => Inv'
  BY NextDescentInv, NextSetpointStaysLow
<1>3. Inv /\ Down /\ [Next]_vars => Down'
  BY StaysDown
<1>4. Down => state # "RETURN"
  BY DEF Down
<1> QED BY <1>1, <1>2, <1>3, <1>4, TypeCorrect, PTL DEF Spec
=============================================================================
