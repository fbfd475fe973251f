------------------------- MODULE VisionBridge_proofs -------------------------
(***************************************************************************)
(* An outage of the odometry is noticed in time, whether the bridge lives  *)
(* to report it or not: for every limit, timeout and debounce and every    *)
(* order in which the threads of a unit do their work.                     *)
(***************************************************************************)
EXTENDS VisionBridge, TLAPS

-----------------------------------------------------------------------------
(* The strengthening.                                                      *)

\* Between last_receive and the publication nothing ages in a living bridge.
JustReceived == ~crashed /\ odom \in {"received", "ok"} => receiveAge = 0

\* What is not on its way has arrived.
StateHeard == ~stateOnWay => vision_state = state

\* A good word is on its way only in the unit of the message it speaks of.
HealthyIsNews == healthyOnWay /\ healthy => receiveAge = 0

\* When the timer has looked at an age beyond the timeout, the state is not OK,
\* although a callback may have named its own reason since.
TimeoutNamed ==
  ~crashed /\ receiveAge > Timeout /\ (timer = "done" \/ receiveAge > Timeout + 1)
    => state # "OK"

\* One unit later the mission has heard of it, and its first tick aborts.
TimeoutHeard == ~crashed /\ receiveAge > Timeout + 1 => vision_state # "OK"

FirstTickAborts ==
  ~crashed /\ flying /\ ~aborted /\ receiveAge > Timeout + 1
    => ticks = 0 /\ receiveAge = Timeout + 2

\* The last good word is at least as old as the last good message.
WordIsOlder ==
  vision_healthy =>
    IF receiveAge <= HealthyLimit THEN healthyAge >= receiveAge ELSE healthyAge > HealthyLimit

\* Ticks in the units after the limit, up to one with this age.
TicksSince(age) == (age - HealthyLimit - 1) * TicksPerUnit

\* Every tick since the limit has been counted as a bad one.
BadTicksCount ==
  flying /\ ~aborted /\ receiveAge > HealthyLimit => soft_bad >= TicksSince(receiveAge) + ticks

DebounceEnds == ~aborted => soft_bad < HealthDebounce

IInv ==
  /\ TypeOK
  /\ JustReceived
  /\ StateHeard
  /\ HealthyIsNews
  /\ TimeoutNamed
  /\ TimeoutHeard
  /\ FirstTickAborts
  /\ WordIsOlder
  /\ BadTicksCount
  /\ DebounceEnds

-----------------------------------------------------------------------------
(* Arithmetic.                                                             *)

LEMMA Limits ==
  /\ MaxAge \in Nat /\ MaxFuture \in Nat /\ Timeout \in Nat \ {0} /\ Jump \in Nat \ {0}
  /\ HealthyLimit \in Nat \ {0} /\ HealthDebounce \in Nat \ {0} /\ TicksPerUnit \in Nat \ {0}
BY BridgeAssumption DEF BridgeAssumption

\* SilentBound is the limit and as many units as the debounce needs.
LEMMA DebounceUnits ==
  \E units \in Nat :
    /\ SilentBound = HealthyLimit + units
    /\ units > 0
    /\ HealthDebounce <= units * TicksPerUnit
<1> DEFINE units == (HealthDebounce + TicksPerUnit - 1) \div TicksPerUnit
<1>1. /\ units \in Int
      /\ units * TicksPerUnit + TicksPerUnit > HealthDebounce + TicksPerUnit - 1
  BY Limits
<1>2. HealthDebounce <= units * TicksPerUnit
  BY <1>1, Limits
<1>3. units > 0
  BY <1>1, <1>2, Limits
<1> QED BY <1>1, <1>2, <1>3 DEF SilentBound

LEMMA Bounds ==
  /\ LivingBound \in Nat /\ SilentBound \in Nat /\ Oldest \in Nat
  /\ LivingBound = Timeout + 2 /\ SilentBound > HealthyLimit
  /\ Oldest > LivingBound /\ Oldest > SilentBound
  /\ OldestStamp \in Nat /\ MaxAge <= OldestStamp
<1>1. SilentBound \in Nat /\ SilentBound > HealthyLimit
  BY DebounceUnits, Limits
<1>2. LivingBound \in Nat /\ LivingBound = Timeout + 2
  BY Limits DEF LivingBound
<1>3. Oldest \in Nat /\ Oldest > LivingBound /\ Oldest > SilentBound
  BY <1>1, <1>2 DEF Oldest
<1> QED BY <1>1, <1>2, <1>3, Limits DEF OldestStamp

\* One unit has TicksPerUnit ticks.
LEMMA OneUnitMore ==
  ASSUME NEW age \in Int
  PROVE  TicksSince(age) \in Int /\ TicksSince(age + 1) = TicksSince(age) + TicksPerUnit
<1> DEFINE since == age - HealthyLimit - 1
<1>1. since \in Int /\ (age + 1) - HealthyLimit - 1 = since + 1
  BY Limits
<1> HIDE DEF since
<1>2. since * TicksPerUnit \in Int /\ (since + 1) * TicksPerUnit = since * TicksPerUnit + TicksPerUnit
  BY <1>1, Limits
<1> QED BY <1>1, <1>2 DEF TicksSince, since

LEMMA FirstUnit == TicksSince(HealthyLimit + 1) = 0
BY Limits DEF TicksSince

\* After the units of the debounce there have been enough ticks.
LEMMA DebounceIsOver ==
  ASSUME NEW age \in Int, age > SilentBound
  PROVE  TicksSince(age) >= HealthDebounce
<1>1. PICK units \in Nat :
         SilentBound = HealthyLimit + units /\ HealthDebounce <= units * TicksPerUnit
  BY DebounceUnits
<1> DEFINE since == age - HealthyLimit - 1
<1>2. since \in Int /\ since >= units
  BY <1>1, Limits, Bounds
<1> HIDE DEF since
<1>3. PICK more \in Nat : since = units + more
  <2>1. since - units \in Nat /\ since = units + (since - units)
    BY <1>2
  <2> QED BY <2>1
<1>4. since * TicksPerUnit = units * TicksPerUnit + more * TicksPerUnit
  BY <1>3, Limits
<1>5. more * TicksPerUnit \in Nat /\ units * TicksPerUnit \in Nat
  BY Limits
<1>6. since * TicksPerUnit >= HealthDebounce
  BY <1>1, <1>4, <1>5, Limits
<1> QED BY <1>6 DEF TicksSince, since

LEMMA OlderIs ==
  ASSUME NEW cap \in Nat, NEW age \in Int, age <= cap
  PROVE  /\ Older(age, cap) \in Int /\ Older(age, cap) <= cap
         /\ Older(age, cap) = age + 1 \/ (age = cap /\ Older(age, cap) = cap)
BY DEF Older

-----------------------------------------------------------------------------
(* The invariant gives the property.                                       *)

LEMMA InvariantNotices == IInv => OutageNoticed
<1> SUFFICES ASSUME IInv, flying, ~aborted
             PROVE  receiveAge <= IF crashed THEN SilentBound ELSE LivingBound
  BY DEF OutageNoticed
<1>1. receiveAge \in Int /\ soft_bad \in Nat /\ ticks \in Nat
  BY Bounds, Limits DEF IInv, TypeOK, Never
<1>2. CASE crashed
  <2> SUFFICES ASSUME receiveAge > SilentBound PROVE FALSE
    BY <1>1, <1>2, Bounds
  <2>1. soft_bad >= TicksSince(receiveAge) + ticks
    BY <1>1, Bounds, Limits DEF IInv, BadTicksCount
  <2>2. TicksSince(receiveAge) >= HealthDebounce /\ TicksSince(receiveAge) \in Int
    BY <1>1, DebounceIsOver, OneUnitMore
  <2>3. soft_bad < HealthDebounce
    BY DEF IInv, DebounceEnds
  <2> QED BY <1>1, <2>1, <2>2, <2>3, Limits
<1>3. CASE ~crashed
  BY <1>1, <1>3, Bounds, Limits DEF IInv, FirstTickAborts
<1> QED BY <1>2, <1>3

LEMMA InitIInv == Init => IInv
<1> SUFFICES ASSUME Init PROVE IInv
  OBVIOUS
<1>1. /\ stampAge \in -MaxFuture .. OldestStamp /\ receiveAge \in Never .. Oldest
      /\ healthyAge \in 0 .. HealthyLimit + 1 /\ soft_bad \in 0 .. HealthDebounce
      /\ ticks \in 0 .. TicksPerUnit
  BY Limits, Bounds DEF Init, Never
<1>2. TypeOK
  BY <1>1 DEF Init, TypeOK
<1>3. receiveAge = -1 /\ soft_bad = 0 /\ ~flying /\ ~vision_healthy /\ stateOnWay
      /\ odom = "idle" /\ ~healthy
  BY DEF Init, Never
<1> QED BY <1>2, <1>3, Limits
        DEF IInv, JustReceived, StateHeard, HealthyIsNews, TimeoutNamed, TimeoutHeard,
            FirstTickAborts, WordIsOlder, BadTicksCount, DebounceEnds

-----------------------------------------------------------------------------
(* The steps.                                                              *)

\* The odometry callback.
LEMMA OdometryKeeps ==
  ASSUME IInv, Odometry
  PROVE  IInv'
<1>1. PICK age \in -MaxFuture .. MaxAge + 1, place \in Places, sound \in BOOLEAN :
         Receives(age, place, sound)
  BY DEF Odometry
<1>2. /\ UNCHANGED <<receiveAge, timer, crashed, topics, mission, fine>>
      /\ odom' \in {"stored", "rejected"} /\ heard' = TRUE
  BY <1>1 DEF Receives
<1>3. last_position' \in Places \cup {"none"}
  BY <1>1 DEF Receives, IInv, TypeOK
<1>4. stampAge' \in -MaxFuture .. OldestStamp
  <2>1. CASE Valid(age, place, sound)
    <3>1. age \in -MaxFuture .. MaxAge /\ stampAge' = age
      BY <1>1, <2>1 DEF Receives, Valid
    <3> QED BY <3>1, Bounds, Limits
  <2>2. CASE ~Valid(age, place, sound)
    BY <1>1, <2>2 DEF Receives, StampAfter, IInv, TypeOK
  <2> QED BY <2>1, <2>2
<1>5. TypeOK'
  BY <1>2, <1>3, <1>4 DEF IInv, TypeOK, topics, mission, cache
<1> QED BY <1>2, <1>5
        DEF IInv, JustReceived, StateHeard, HealthyIsNews, TimeoutNamed, TimeoutHeard,
            FirstTickAborts, WordIsOlder, BadTicksCount, DebounceEnds, topics, mission, cache

LEMMA StoresKeeps ==
  ASSUME IInv, ~crashed, Stores
  PROVE  IInv'
<1>1. /\ receiveAge' = 0 /\ odom' = "received"
      /\ UNCHANGED <<last_position, stampAge, timer, crashed, topics, mission, odometry>>
  BY DEF Stores
<1>2. TypeOK'
  BY <1>1, Bounds DEF IInv, TypeOK, Never, topics, mission, cache, odometry
<1>3. healthyAge \in Nat
  BY Limits DEF IInv, TypeOK
<1> QED BY <1>1, <1>2, <1>3, Limits
        DEF IInv, JustReceived, StateHeard, HealthyIsNews, TimeoutNamed, TimeoutHeard,
            FirstTickAborts, WordIsOlder, BadTicksCount, DebounceEnds, topics, mission, cache

\* A publication on the topic of the health, by the callback or by the timer.
LEMMA HealthyKeeps ==
  ASSUME IInv, ~crashed, NEW h \in BOOLEAN, PublishHealthy(h),
         h => odom = "received",
         timer' = timer \/ (timer = "late" /\ timer' = "named"),
         odom' \in {odom, "reason"} \/ (odom = "received" /\ odom' = "ok"),
         UNCHANGED <<bridge, crashed, mission, odometry>>
  PROVE  IInv'
<1>1. /\ healthy' = h /\ healthyOnWay' = TRUE /\ UNCHANGED <<state, stateOnWay>>
      /\ UNCHANGED <<last_position, stampAge, receiveAge, crashed, mission, odometry>>
  BY DEF PublishHealthy, bridge
<1>2. TypeOK'
  BY <1>1 DEF IInv, TypeOK, mission, cache, odometry
<1> QED BY <1>1, <1>2
        DEF IInv, JustReceived, StateHeard, HealthyIsNews, TimeoutNamed, TimeoutHeard,
            FirstTickAborts, WordIsOlder, BadTicksCount, DebounceEnds, mission, cache

\* A publication on the topic of the state.
LEMMA StateKeeps ==
  ASSUME IInv, ~crashed, NEW s \in {"OK", "REJECTED", "TIMEOUT"}, PublishState(s),
         s = "OK" => odom = "ok",
         timer' = timer \/ (s = "TIMEOUT" /\ timer' = "done"),
         odom' \in {odom, "idle"},
         UNCHANGED <<bridge, crashed, mission, odometry>>
  PROVE  IInv'
<1>1. /\ state' = s /\ stateOnWay' = TRUE /\ UNCHANGED <<healthy, healthyOnWay>>
      /\ UNCHANGED <<last_position, stampAge, receiveAge, crashed, mission, odometry>>
  BY DEF PublishState, bridge
<1>2. TypeOK'
  BY <1>1 DEF IInv, TypeOK, mission, cache, odometry
<1>3. s = "OK" => receiveAge = 0
  BY DEF IInv, JustReceived
<1> QED BY <1>1, <1>2, <1>3, Limits
        DEF IInv, JustReceived, StateHeard, HealthyIsNews, TimeoutNamed, TimeoutHeard,
            FirstTickAborts, WordIsOlder, BadTicksCount, DebounceEnds, mission, cache

LEMMA OdomStepKeeps ==
  ASSUME IInv, OdomStep
  PROVE  IInv'
<1> ~crashed
  BY DEF OdomStep
<1>1. CASE Stores
  BY <1>1, StoresKeeps
<1>2. CASE Publishes("received", TRUE, "ok")
  BY <1>2, HealthyKeeps DEF Publishes
<1>3. CASE Publishes("rejected", FALSE, "reason")
  BY <1>3, HealthyKeeps DEF Publishes
<1>4. CASE Names("ok", "OK")
  BY <1>4, StateKeeps DEF Names
<1>5. CASE Names("reason", "REJECTED")
  BY <1>5, StateKeeps DEF Names
<1> QED BY <1>1, <1>2, <1>3, <1>4, <1>5 DEF OdomStep

LEMMA TimerStepKeeps ==
  ASSUME IInv, TimerStep
  PROVE  IInv'
<1> ~crashed
  BY DEF TimerStep
<1>1. CASE TimerLooks
  <2>1. /\ timer = "due" /\ timer' \in {"late", "done"} /\ (timer' = "done" => ~TimedOut)
        /\ UNCHANGED <<bridge, odom, crashed, topics, mission, odometry>>
    BY <1>1 DEF TimerLooks
  <2>2. timer' = "done" => ~(receiveAge > Timeout)
    BY <2>1, Limits DEF TimedOut, Never
  <2>3. TypeOK'
    BY <2>1 DEF IInv, TypeOK, bridge, topics, mission, cache, odometry
  <2>4. receiveAge \in Int
    BY Bounds DEF IInv, TypeOK, Never
  <2> QED BY <2>1, <2>2, <2>3, <2>4, Limits
          DEF IInv, JustReceived, StateHeard, HealthyIsNews, TimeoutNamed, TimeoutHeard,
              FirstTickAborts, WordIsOlder, BadTicksCount, DebounceEnds, bridge, topics,
              mission, cache
<1>2. CASE timer = "late" /\ timer' = "named" /\ PublishHealthy(FALSE)
           /\ UNCHANGED <<bridge, odom, crashed, mission, odometry>>
  BY <1>2, HealthyKeeps
<1>3. CASE timer = "named" /\ timer' = "done" /\ PublishState("TIMEOUT")
           /\ UNCHANGED <<bridge, odom, crashed, mission, odometry>>
  BY <1>3, StateKeeps
<1> QED BY <1>1, <1>2, <1>3 DEF TimerStep, TimerPublishes

LEMMA HearsKeeps ==
  ASSUME IInv, HearsHealthy \/ HearsState
  PROVE  IInv'
<1>1. CASE HearsHealthy
  <2>1. TypeOK'
    <3>1. vision_healthy' \in BOOLEAN /\ healthyOnWay' \in BOOLEAN
      BY <1>1, Zenon DEF HearsHealthy, IInv, TypeOK
    <3>2. healthyAge' \in 0 .. HealthyLimit + 1
      BY <1>1, Limits DEF HearsHealthy
    <3> QED BY <1>1, <3>1, <3>2 DEF HearsHealthy, IInv, TypeOK, bridge, odometry
  <2>2. healthy /\ healthyOnWay => receiveAge = 0
    BY DEF IInv, HealthyIsNews
  <2> QED BY <1>1, <2>1, <2>2, Limits
          DEF HearsHealthy, IInv, JustReceived, StateHeard, HealthyIsNews, TimeoutNamed,
              TimeoutHeard, FirstTickAborts, WordIsOlder, BadTicksCount, DebounceEnds, bridge
<1>2. CASE HearsState
  <2>1. TypeOK'
    <3>1. stateOnWay' \in BOOLEAN
      BY <1>2, Zenon DEF HearsState
    <3>2. vision_state' \in {"none", "WAITING", "OK", "REJECTED", "TIMEOUT"}
      BY <1>2 DEF HearsState, IInv, TypeOK
    <3> QED BY <1>2, <3>1, <3>2 DEF HearsState, IInv, TypeOK, bridge, odometry
  <2>2. ~crashed /\ receiveAge > Timeout + 1 => state # "OK"
    BY Bounds, Limits DEF IInv, TimeoutNamed, TypeOK, Never
  <2> QED BY <1>2, <2>1, <2>2
          DEF HearsState, IInv, JustReceived, StateHeard, HealthyIsNews, TimeoutNamed,
              TimeoutHeard, FirstTickAborts, WordIsOlder, BadTicksCount, DebounceEnds, bridge
<1> QED BY <1>1, <1>2

\* The mission may start only with fresh news.
LEMMA StartsKeeps ==
  ASSUME IInv, Starts
  PROVE  IInv'
<1>1. TypeOK'
  BY Limits DEF Starts, IInv, TypeOK, bridge, topics, cache, odometry
<1>2. ~(~crashed /\ receiveAge > Timeout + 1)
  BY DEF Starts, IInv, TimeoutHeard
<1>3. ~(receiveAge > HealthyLimit)
  BY Bounds, Limits DEF Starts, VisionLost, IInv, WordIsOlder, TypeOK, Never
<1> QED BY <1>1, <1>2, <1>3, Limits
        DEF Starts, IInv, JustReceived, StateHeard, HealthyIsNews, TimeoutNamed, TimeoutHeard,
            FirstTickAborts, WordIsOlder, BadTicksCount, DebounceEnds, bridge, topics, cache

LEMMA FlightTickKeeps ==
  ASSUME IInv, FlightTick
  PROVE  IInv'
<1>1. /\ flying /\ ~aborted /\ ticks < TicksPerUnit /\ ticks' = ticks + 1
      /\ UNCHANGED <<bridge, odom, timer, crashed, topics, cache, flying, odometry>>
  BY DEF FlightTick
<1>2. soft_bad \in Nat /\ soft_bad < HealthDebounce /\ ticks \in Nat /\ receiveAge \in Int
  BY <1>1, Limits, Bounds DEF IInv, TypeOK, DebounceEnds, Never
<1>3. CASE vision_state # "OK"
  <2>1. aborted' = TRUE /\ UNCHANGED soft_bad
    BY <1>3 DEF FlightTick
  <2>2. TypeOK'
    BY <1>1, <1>2, <2>1, Limits DEF IInv, TypeOK, bridge, topics, cache, odometry
  <2> QED BY <1>1, <2>1, <2>2
          DEF IInv, JustReceived, StateHeard, HealthyIsNews, TimeoutNamed, TimeoutHeard,
              FirstTickAborts, WordIsOlder, BadTicksCount, DebounceEnds, bridge, topics, cache
<1>4. CASE vision_state = "OK"
  <2>1. soft_bad' = SoftBad /\ aborted' = Enough(SoftBad)
    BY <1>4 DEF FlightTick
  <2>2. soft_bad' \in Nat /\ soft_bad' <= soft_bad + 1 /\ aborted' \in BOOLEAN
        /\ (~aborted' => soft_bad' < HealthDebounce)
    <3>1. soft_bad' \in {0, soft_bad + 1}
      BY <2>1 DEF SoftBad
    <3>2. aborted' <=> soft_bad' >= HealthDebounce
      BY <2>1 DEF Enough
    <3>3. soft_bad' \in Nat /\ soft_bad' <= soft_bad + 1
      BY <1>2, <3>1
    <3>4. aborted' \in BOOLEAN
      <4>1. Enough(SoftBad) \in BOOLEAN
        BY DEF Enough
      <4> QED BY <2>1, <4>1
    <3> QED BY <3>2, <3>3, <3>4, Limits
  <2>3. TypeOK'
    BY <1>1, <1>2, <2>2, Limits DEF IInv, TypeOK, bridge, topics, cache, odometry
  <2>4. ~(~crashed /\ receiveAge > Timeout + 1)
    BY <1>4 DEF IInv, TimeoutHeard
  <2>5. BadTicksCount'
    <3> SUFFICES ASSUME receiveAge > HealthyLimit
                 PROVE  soft_bad' >= TicksSince(receiveAge) + ticks'
      BY <1>1 DEF BadTicksCount, TicksSince, bridge
    <3>1. VisionLost
      BY <1>2, Limits DEF IInv, WordIsOlder, VisionLost
    <3>2. soft_bad' = soft_bad + 1
      BY <2>1, <3>1 DEF SoftBad
    <3>3. soft_bad >= TicksSince(receiveAge) + ticks /\ TicksSince(receiveAge) \in Int
      BY <1>1, <1>2, OneUnitMore DEF IInv, BadTicksCount
    <3> QED BY <1>1, <1>2, <3>2, <3>3
  <2> QED BY <1>1, <2>2, <2>3, <2>4, <2>5
          DEF IInv, JustReceived, StateHeard, HealthyIsNews, TimeoutNamed, TimeoutHeard,
              FirstTickAborts, WordIsOlder, DebounceEnds, bridge, topics, cache
<1> QED BY <1>3, <1>4

\* A unit of time: everything ages by one, and all that was due has been done.
LEMMA TickKeeps ==
  ASSUME IInv, Tick
  PROVE  IInv'
<1>1. /\ crashed \/ (odom = "idle" /\ timer = "done")
      /\ ~healthyOnWay /\ ~stateOnWay
      /\ flying /\ ~aborted => ticks = TicksPerUnit
      /\ timer' = "due" /\ heard' = FALSE /\ ticks' = 0
      /\ UNCHANGED <<last_position, odom, crashed, healthy, state, healthyOnWay, stateOnWay,
                     vision_healthy, vision_state, soft_bad, flying, aborted, fine>>
  BY DEF Tick, topics
<1>2. /\ receiveAge \in Int /\ -1 <= receiveAge /\ receiveAge <= Oldest
      /\ healthyAge \in Nat /\ healthyAge <= HealthyLimit + 1
      /\ stampAge \in Int /\ -MaxFuture <= stampAge /\ stampAge <= OldestStamp
      /\ soft_bad \in Nat
  BY Bounds, Limits DEF IInv, TypeOK, Never
<1>3. stampAge' \in -MaxFuture .. OldestStamp
  BY <1>2, Bounds, Limits DEF Tick, Older
<1>4. /\ receiveAge' \in Int /\ -1 <= receiveAge' /\ receiveAge' <= Oldest
      /\ \/ receiveAge = -1 /\ receiveAge' = -1
         \/ receiveAge = Oldest /\ receiveAge' = Oldest
         \/ receiveAge' = receiveAge + 1
  BY <1>2, Bounds DEF Tick, Older, Never
<1>5. /\ healthyAge' \in Nat /\ healthyAge' <= HealthyLimit + 1
      /\ \/ healthyAge = HealthyLimit + 1 /\ healthyAge' = HealthyLimit + 1
         \/ healthyAge' = healthyAge + 1
  BY <1>2, Limits DEF Tick, Older
<1>6. TypeOK'
  <2>1. /\ receiveAge' \in Never .. Oldest /\ healthyAge' \in 0 .. HealthyLimit + 1
        /\ ticks' \in 0 .. TicksPerUnit
    BY <1>1, <1>4, <1>5, Bounds, Limits DEF Never
  <2>2. /\ last_position' \in Places \cup {"none"}
        /\ odom' \in {"idle", "stored", "received", "ok", "rejected", "reason"}
        /\ crashed' \in BOOLEAN /\ flying' \in BOOLEAN /\ aborted' \in BOOLEAN /\ fine' \in BOOLEAN
    BY <1>1 DEF IInv, TypeOK
  <2>3. /\ healthy' \in BOOLEAN /\ state' \in {"WAITING", "OK", "REJECTED", "TIMEOUT"}
        /\ healthyOnWay' \in BOOLEAN /\ stateOnWay' \in BOOLEAN
        /\ vision_healthy' \in BOOLEAN
        /\ vision_state' \in {"none", "WAITING", "OK", "REJECTED", "TIMEOUT"}
        /\ soft_bad' \in 0 .. HealthDebounce
    BY <1>1 DEF IInv, TypeOK
  <2>4. timer' \in {"due", "late", "named", "done"} /\ heard' \in BOOLEAN
    BY <1>1
  <2> QED BY <1>3, <2>1, <2>2, <2>3, <2>4 DEF TypeOK
<1>7. JustReceived' /\ StateHeard' /\ HealthyIsNews' /\ DebounceEnds'
  BY <1>1 DEF IInv, JustReceived, StateHeard, HealthyIsNews, DebounceEnds
<1>8. ~crashed /\ receiveAge' > Timeout + 1 => receiveAge > Timeout
  BY <1>2, <1>4, Bounds, Limits
<1>9. ~crashed /\ receiveAge' > Timeout + 1 => state # "OK"
  BY <1>1, <1>8 DEF IInv, TimeoutNamed
<1>10. TimeoutNamed' /\ TimeoutHeard'
  BY <1>1, <1>9 DEF IInv, TimeoutNamed, TimeoutHeard, StateHeard
<1>11. FirstTickAborts'
  <2> SUFFICES ASSUME ~crashed, flying, ~aborted, receiveAge' > Timeout + 1
               PROVE  receiveAge' = Timeout + 2
    BY <1>1 DEF FirstTickAborts
  <2>1. ~(receiveAge > Timeout + 1)
    BY <1>1, Limits DEF IInv, FirstTickAborts
  <2> QED BY <1>2, <1>4, <2>1, Bounds, Limits
<1>12. WordIsOlder'
  <2> SUFFICES ASSUME vision_healthy
               PROVE  IF receiveAge' <= HealthyLimit THEN healthyAge' >= receiveAge'
                                                     ELSE healthyAge' > HealthyLimit
    BY <1>1 DEF WordIsOlder
  <2>1. IF receiveAge <= HealthyLimit THEN healthyAge >= receiveAge
                                      ELSE healthyAge > HealthyLimit
    BY DEF IInv, WordIsOlder
  <2> QED BY <1>2, <1>4, <1>5, <2>1, Bounds, Limits
<1>13. BadTicksCount'
  <2> SUFFICES ASSUME flying, ~aborted, receiveAge' > HealthyLimit
               PROVE  soft_bad >= TicksSince(receiveAge')
    <3>1. TicksSince(receiveAge') \in Int
      BY <1>4, OneUnitMore
    <3> QED BY <1>1, <3>1 DEF BadTicksCount, TicksSince
  <2>1. CASE receiveAge > HealthyLimit
    <3>1. soft_bad >= TicksSince(receiveAge) + TicksPerUnit
      BY <1>1, <2>1 DEF IInv, BadTicksCount
    <3>2. \/ TicksSince(receiveAge') = TicksSince(receiveAge)
          \/ TicksSince(receiveAge') = TicksSince(receiveAge) + TicksPerUnit
      <4>1. receiveAge' = receiveAge \/ receiveAge' = receiveAge + 1
        BY <1>4
      <4>2. TicksSince(receiveAge + 1) = TicksSince(receiveAge) + TicksPerUnit
        BY <1>2, OneUnitMore
      <4> QED BY <4>1, <4>2
    <3>3. TicksSince(receiveAge') \in Int /\ TicksSince(receiveAge) \in Int
      BY <1>2, <1>4, OneUnitMore
    <3> QED BY <1>2, <3>1, <3>2, <3>3, Limits
  <2>2. CASE ~(receiveAge > HealthyLimit)
    <3>1. receiveAge' = HealthyLimit + 1
      BY <1>2, <1>4, <2>2, Bounds, Limits
    <3>2. TicksSince(receiveAge') = 0
      BY <3>1, FirstUnit
    <3> QED BY <1>2, <3>2
  <2> QED BY <2>1, <2>2
<1> QED BY <1>6, <1>7, <1>10, <1>11, <1>12, <1>13 DEF IInv

LEMMA NextIInv == IInv /\ [Next]_vars => IInv'
<1> SUFFICES ASSUME IInv, [Next]_vars PROVE IInv'
  OBVIOUS
<1>1. CASE Crashes
  <2>1. crashed' = TRUE /\ UNCHANGED <<bridge, odom, timer, topics, mission, odometry>>
    BY <1>1 DEF Crashes
  <2>2. TypeOK'
    BY <2>1 DEF IInv, TypeOK, bridge, topics, mission, cache, odometry
  <2> QED BY <2>1, <2>2
          DEF IInv, JustReceived, StateHeard, HealthyIsNews, TimeoutNamed, TimeoutHeard,
              FirstTickAborts, WordIsOlder, BadTicksCount, DebounceEnds, bridge, topics,
              mission, cache
<1>2. CASE BecomesFine \/ UNCHANGED vars
  <2>1. /\ UNCHANGED <<bridge, odom, timer, crashed, topics, mission, heard>>
        /\ fine' \in {fine, TRUE}
    BY <1>2 DEF BecomesFine, vars, odometry
  <2>2. TypeOK'
    <3>1. fine' \in BOOLEAN
      BY <2>1, Zenon DEF IInv, TypeOK
    <3> QED BY <2>1, <3>1 DEF IInv, TypeOK, bridge, topics, mission, cache
  <2> QED BY <2>1, <2>2
          DEF IInv, JustReceived, StateHeard, HealthyIsNews, TimeoutNamed, TimeoutHeard,
              FirstTickAborts, WordIsOlder, BadTicksCount, DebounceEnds, bridge, topics,
              mission, cache
<1> QED BY <1>1, <1>2, OdometryKeeps, OdomStepKeeps, TimerStepKeeps, HearsKeeps, StartsKeeps,
           FlightTickKeeps, TickKeeps
        DEF Next, Step

-----------------------------------------------------------------------------
(* The theorems.                                                           *)

\* The invariant holds in every state.
THEOREM Invariance == Spec => []IInv
BY InitIInv, NextIInv, PTL DEF Spec

\* TypeOK: also the counter of bad ticks never passes the debounce.
THEOREM TypeCorrect == Spec => []TypeOK
<1>1. IInv => TypeOK
  BY DEF IInv
<1> QED BY <1>1, Invariance, PTL

\* A flight without odometry is aborted within the bounds, for every timeout of
\* the bridge and every limit and debounce of the mission: the bounds are
\* formulas over the configuration, not numbers of one.
THEOREM NoticesOutage == Spec => []OutageNoticed
BY InvariantNotices, Invariance, PTL
=============================================================================
