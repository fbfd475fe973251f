# RoboTAC mission: TLA+ models, model checking and proofs

This directory holds a verification project for the first-party flight code of
the repository - the ROS nodes that fly a delivery mission with a PX4 aircraft -
and for two pieces of vendored code it rests on whose correctness is a matter of
threads: the command plugin of MAVROS and the thread pool of the tag detector.
Source paths below are relative to the repository root; `mission/` abbreviates
`src/robotac_mission/` and `lib/` abbreviates
`src/robotac_mission/src/robotac_mission/`.

## 1. The system

### 1.1 Components

| Component | Source | State it keeps | Operations | Modelled |
|---|---|---|---|---|
| Mission state machine | `lib/state_machine.py` | state, result, active, preconditions | boot, preconditions, start, stop, reset, stage done, skip, abort, landed, takeover | `MissionMachine` |
| Mission node | `mission/scripts/mission_node.py` | the machine, caches of a dozen topics, the landing context, the driver | 4 services, a 5 Hz and a 20 Hz timer, subscriber callbacks | `MissionNode` |
| Landing confirmation | `lib/landing.py` | sequence numbers, consecutive count | reset, begin, observe | `LandingConfirmation`, `SampleGate` |
| Flight driver and stages | `lib/flight_driver.py`, `lib/_flight_stages.py` | take-off handshake, waypoint index, hold timer, last setpoint | one tick per stage | TAKEOFF, LAND in `MissionNode`; RELEASE in `ReleaseStage`; the others in `FlightStages` |
| Safety gates | `lib/guards.py`, `lib/flight_health.py` | debounce counter, previous pose | readiness, in-flight check | FCU and landed state in `MissionNode`, vision and its debounce in `VisionBridge`; the rest as input |
| MAVROS interfaces | `lib/interfaces.py` | dry_run | set_mode, arm, send_position, release_payload | in `MissionNode`, `ReleaseStage`, `PayloadRelease` |
| Tag tracker | `lib/tag_tracker.py` | sample window, stable since, stable pose | update | `TagTracker` in `FlightStages` |
| Configuration | `lib/config.py`, `mission/config/*.yaml` | - | load, validate | as outcomes and assumptions |
| Coordinates | `lib/coordinates.py` | home pose, yaw | transforms, limit_step | limit_step in `ReleaseStage` |
| Servo node | `src/robotac_servo` | port, last position | set_released, health check, shutdown | `ServoNode` |
| Vision pose bridge | `src/robotac_localization` | last position, stamp, receive time | odometry callback, timeout check | `VisionBridge` |
| Example flight controller and scripts | `src/robotac_examples` | start/stop flags, target, landing flag | start, stop, flight thread | `ExampleFlight` |
| Bring-up, tools, docs site | `src/robotac_bringup`, `tools`, `docs-site` | - | - | no: declarative or build scripts |
| MAVROS | `src/mavros` (vendored) | list of transactions | command services, acknowledgements | the command plugin in `CommandPlugin`; the rest as the node sees it |
| AprilTag detection | `src/apriltag` (vendored) | array of tasks, counters | create, add task, run, destroy | the thread pool in `WorkerPool` |
| FAST-LIO, Livox, web camera | `src/fast_lio` ... (vendored) | - | - | no |

### 1.2 How they interact

The node owns everything.  An operator calls `start`, `stop`, `reset` and
`manual_takeover`.  The 5 Hz timer evaluates the start gates; the 20 Hz timer
runs the flight driver and then the AUTO.LAND handshake.  The driver calls back
into the node (`begin_landing`, `cancel_landing`) and calls MAVROS and the servo
node through `MissionInterfaces`; the servo node answers a release, and also
publishes its confirmation on a topic that is not latched.  Sensor topics arrive
in callbacks that fill caches: tag detections from the AprilTag node, whose
detector spreads its work over a pool of threads, and the health and the state of
the vision bridge, which checks FAST-LIO's odometry on its way to PX4.

The flight examples are nodes of their own that replace the mission: one flight
thread, start and stop services in threads of rospy, and the same MAVROS services.
The link to PX4 is shared with a ground station (`gcs_url` in
`src/robotac_bringup/scripts/start_mavros.sh:10`), whose commands PX4 acknowledges, too.

Services and timers take one `RLock` for the whole handler.  **Subscriber
callbacks take no lock**, so a cached report may be replaced between two reads
of one handler.  MAVROS answers a mode request when it has sent it
(`src/mavros/mavros/src/plugins/sys_status.cpp:1214-1246`) and an arming request
with the flight controller's acknowledgement (`command.cpp:180-199`).

### 1.3 What is hard, and what makes each component correct

* *Machine*: only forward; ends once, with the first cause.
  (`ResultMatchesState`, `ImplementsLifecycle`)
* *Node*: an aircraft in the air always has somebody who acts for it, and never
  two: `FlightHasDriver`, `LandingMatchesState`, `CommandsOnlyWhileFlying`,
  `PilotOverruledOnce`, `AutoLandCallsBounded`, `StreamUntilAutoLand`,
  `MissionEndsOnceConfirmed`.  That a pilot in a manual mode hears no request at all,
  `PilotKeepsControl`, does not hold (section 3.2).
* *Landing confirmation*: a count of consecutive looks is worth something whatever
  falls between the halves of a callback or waits in a queue: `CountIsBacked`,
  `ImplementsGate`, `LandedMeansGrounded`.
* *Stages*: nothing is left before it has been held, and no tag is believed that
  has not been stable: `HeldBeforeLeaving`, `FreshMeansStable`.
* *Release*: low, once, confirmed, and back: `ReleasesLow`, `ReturnsReleased`,
  `ReturnsAfterRelease`.
* *Servo and mission together*: one release per stage whatever is lost, and no
  belief in a position the mechanism is not in: `MovesOnce`, `ImplementsDelivery`,
  `StartsLoaded`, `RepeatMeansThere`, `DriveEnds`, `Reconnects`, `CallsEnd`.
* *Vision*: an outage is noticed in time, wherever the chain breaks, and a
  recovery is reported: `OutageNoticed`, `Recovers`.
* *Examples*: a stop always lands, an early one does not even arm, and it ends the
  targets: `StopLands`, `StopPreventsArming`, `StopEndsTargets`.
* *Command plugin*: success means one's own request, or an acknowledgement that the
  missing check of its addressee lets through: `SuccessIsOwn`.
* *Thread pool*: a run does each job once and leaves nobody at work:
  `NoneLeftBehind`, `JobsDoneOnce`, `PoolEnds`.

`PROJECT.json` lists the hazards one by one, at their lines, with the property
that would catch each or the reason why none does yet.

## 2. The modules

```
MissionMachine   SampleGate          MissionLifecycle (abstract)
        \         /      \                 ^ implemented by
        MissionNode       LandingGate ---- | ----------.
            |             (abstract)  MissionNode      | implemented by
       MCMissionNode, MissionNode_proofs         LandingConfirmation
                                                       |
                       MCLandingConfirmation, LandingConfirmation_proofs

   ServoNode <- PayloadRelease <- PayloadRelease_proofs
                     | implements
              PayloadDelivery (abstract)

   ReleaseStage <- MCReleaseStage, ReleaseStage_proofs

   MissionMachine, TagTracker <- FlightStages <- MCFlightStages, FlightStages_proofs

   CommandPlugin <- ExampleFlight <- ExampleFlight_proofs

   WorkerPool <- WorkerPool_proofs          VisionBridge <- VisionBridge_proofs
```

* **MissionMachine** - `MissionStateMachine` as operators on a record, one per
  method.  A handler that calls several methods under the lock composes them.
  The free-text reason is left out and the result is named by its kind
  (`none` is the empty string, `aborted` any text that starts 任务中止).
* **SampleGate** - what the node relies on in `LandingConfirmation`: consecutive
  valid looks at new samples.  **LandingGate** is the same as a specification
  with actions, and **LandingConfirmation** the sequence numbers of the code,
  with the callback in its two halves (store, count).
* **MissionNode** - the node with the flight controller and the pilot around it.
  Each service and the 5 Hz timer is one action, as they hold the lock.  The
  20 Hz timer is cut where it reads the cached FCU report: `TimerStarts`
  (the node's manual mode check), `TickChecksMode` (the driver's),
  `TickChecksHealth`, `TickRunsStage`, `DriveLanding`; `pc` is the place it has
  reached.  A callback may run at each of these places, as callbacks take no lock.
  `fcu`, `ext` are the caches; `counting` is the place between the two lines of
  `_cb_extended`; `wire` is the queue of extended_state, which drops its oldest message
  when it holds `QueueSize` (`queue_size=5` in the code); `cmd` is the one mode
  request on its way to the flight controller.  `landCalls`, `overruled`, `grounded`
  and `flooded` are history: the AUTO.LAND requests of the flight, those sent against
  the present manual report, whether the aircraft has been on the ground since the
  confirmation began, and whether enough messages for it were under way then.
* **MissionLifecycle** - the mission as an operator sees it on the state and
  result topics: booting, ready, flying, landing, ended, failed, with the first
  cause.  `PhaseOf` is the refinement mapping.
* **ReleaseStage** - `_stage_release` with `_arrived`, `_send` and `limit_step`,
  heights in centimetres, hold times in ticks.
* **ServoNode** - the servo node, its serial port and the mechanism.  A request
  holds the node's lock from check to answer, so the health check and other
  requests wait; it is cut at the sleep of the move (`Begin`, then `Complete` or
  `Fail`) because the device and the node may go in between.  A port is `stale`
  when its device has gone and nobody has noticed.  `library` is what
  `transport.py` found: without pyserial a probe fails with `termios.error`,
  which no handler catches.
* **PayloadRelease** - the servo node with its two callers.  The mission side has
  the start gate on the confirmation, the retry loop, the sequence number (as
  `fresh`: has a message come since it was taken?) and the confirmation queue; the
  heights are in `ReleaseStage`.  Answer and confirmation can be lost separately.
  The operator and restarts act on the ground only: `docs/10` keeps bench checks
  apart from flights, and the launch file sets `respawn="false"`.
* **PayloadDelivery** - what the two promise together: in a flight the mechanism is
  opened by the mission in the RELEASE stage only and once, and the mission returns
  only with it; a bench move may end in the air if it was begun on the ground.
  The mapping forgets requests, retries, messages, ports and memories.
* **TagTracker** - `update()` of the tracker as operators on a record, with the
  number of samples and the places they lie at for the list of samples.
* **FlightStages** - the four stages that steer by position, on top of the mission
  machine and the tracker.  `Fly` lets time pass, the aircraft move and the camera
  speak; `Tick` is the flight timer with `_follow`, `_follow_mission_points`,
  `_stage_search` and `_stage_align`.  `reached` is the age of `_reached_since`;
  `visit`, `answer` and `series` are history: what a hold and a stable tag ought to
  be, recorded from what happens outside the code.
* **VisionBridge** - the bridge's callback and timer as two threads, cut where they
  share `last_receive` and between the two topics they publish; the mission's two
  caches, start gate and debounce.  All in units of the bridge's timer.
* **CommandPlugin** - `send_command_long_and_wait`, `wait_ack_for` and
  `handle_command_ack`, with the link and PX4 behind it.  A callback is cut where
  it gives up the mutex.  Request ids belong to the model: the code has none, which
  is what `SuccessIsOwn` is about.  An acknowledgement of another station's request
  (`Foreign`) may arrive at any time.
* **ExampleFlight** - `FlightController` with the flying scripts that need no camera, on
  `CommandPlugin` for its arming call: `hover` stands for 06, 07 and 08, which fly their
  targets one after the other and return when one is missed, `cardinal` for 12, which
  flies home even then.  `wait_for_start` is cut at every line that writes a field the
  services read, a turn of a loop between its health check and its target (`Looks`,
  `Publishes`), and each service between its check and its assignment (`StartPasses`,
  `StartSets`, `StopPasses`, `StopSets`).
* **WorkerPool** - the pool with the detector as its client; one step for each
  critical section and for each thing done outside the mutex: the task is read
  through the pointer after the unlock (`Calls`, `Exits`), the array is cleared after
  the unlock (`ClearTasks`).  A pool of one thread runs its jobs in the caller and is
  left out.
* **MC...** - the values of the runs.
* **..._proofs** - the theorems.

*Mutants.*  Operators named `X_Something` with a comment "Mutant" are plausible
bugs of `X`.  They are used by nothing; replacing `X` by one of them makes the
property that `PROJECT.json` names fail, which shows that the property looks at
the code.

### 2.1 Abstractions that matter

* **Time.**  Clocks are not in the state.  Whether a timeout has elapsed, a
  retry is due or a message is fresh is an input of the step that asks.  This
  gives every behaviour of a real clock, and some more: a report may be older
  than MAVROS's heartbeat allows and still be called fresh.  No safety property
  depends on it, and `MissionEndsOnceConfirmed` states the exclusion of stale
  confirmations as its hypothesis (`GenuineConfirmations`).
* **Gates.**  Pose, estimator, time sync, vision, pose jump and boundary are one
  Boolean input each time they are asked (`others`, `healthy`, `steady`).
* **Stages.**  In `MissionNode` TRANSIT, SEARCH_TAG, ALIGN_TAG, RELEASE and RETURN
  go on, succeed, or abort (`StageEnRoute`); `FlightStages` and `ReleaseStage` say
  when.  In `FlightStages` places are on a line, the aircraft moves as the wind
  likes but never by more than `pose_jump_limit` between two ticks, the camera
  speaks at most once a tick, and one stage timeout stands for all.
* **Vision.**  The callback of the bridge ends within a unit of 0.1 s (rospy calls it
  once per message and it does not wait); the age of the state topic is left out of
  the start gate, as the state is published right after the health.
* **Command plugin.**  Broadcasts, `command_int` and flight controllers that send no
  acknowledgement are left out; `is_ack_required` is TRUE for PX4.
* **Examples.**  Sensors and clocks may end any turn of a loop in a failure.
* **Modes.**  MANUAL is any of `guards.MANUAL_MODES`, HOLD any other mode, LOST
  the empty mode MAVROS reports while it is disconnected.
* **Messages.**  Of the FCU's state the newest message is on its way (the node keeps
  one report, and only the newest one matters); of extended_state, which is counted, a
  queue is.

## 3. The runs

The delivery runs of the node use `ModeRetryCount = 2` and `ConfirmSamples = 2`: two
requests are the smallest number with a retry and a last one, two samples the smallest
with "consecutive" (and the smallest `config.py` accepts); `mission.yaml` has 3 and 3.
They have a queue of one message: none of their properties speaks of old samples.
`node_landing` is about them.  It has a queue of three and two required samples, so that
a queue may hold fewer, as many and more than are required (5 against 3 in the
repository); one AUTO.LAND request and the rehearsal without payload keep it small, and
its faults are those of the pilot, who can cut the motors in the air and so make a
disarmed aircraft that flies.  The only unbounded quantities are counters that these
constants bound.

| Run | Expect | What it asks |
|---|---|---|
| `node_safety` | pass | the delivery mission, callbacks inside the timer, all eight kinds of fault at once; 3.4 million states |
| `node_landing` | pass | what a confirmed landing is worth with a queue of old samples; 3.9 million states |
| `node_mission_ends` | pass | liveness, with lost service answers |
| `node_pilot_race` | violation | `PilotKeepsControl` with callbacks as they are |
| `landing` | pass | the gate refinement, and the messages behind the count, with callbacks cut in two |
| `release` | pass | the safety of the release stage |
| `release_deep` | violation | its liveness at the heights of `mission.yaml` |
| `payload` | pass | mission and servo node with every loss and restart, the delivery promise and liveness |
| `stages` | pass | holds and stable tags in all three modes; 2.5 million states |
| `vision` | pass | outages, crashes and recovery of the vision chain, safety and liveness |
| `example` | pass | the flights without a camera with operator, services, ground station and link, safety and liveness; 3 million states |
| `workerpool` | pass | the pool's whole life, safety and liveness |

`LandedMeansGrounded` has one exception, `flooded`: when the confirmation began in the
air, the messages in the queue and the one in the hand of `_cb_extended` were as many
as `confirm_samples`.  The exception happens in `node_landing`: samples from the ground
are queued, the aircraft lifts off, a stop begins the landing, the pilot disarms in
the air, and the queue completes the confirmation.  With 5 messages and 3 samples the
repository's values leave room for it, if the subscriber's thread falls behind by three
messages of a topic that comes about once a second.

Bounds of the others: `landing` allows 6 messages with 3 required, which is room
for a message on its way at `begin`, a count that is broken, and a full one
afterwards.  `release` and `release_deep` use the values of `mission.yaml` (step
1 cm, tolerance 15 cm, hold 20 ticks) with one servo retry; `release` descends
18 cm instead of 25, because at 25 no behaviour reaches RETURN (that is the
finding of `release_deep`), and lets the aircraft stray 5 cm from its setpoint.
`payload` has one retry (`mission.yaml` has none, and then a lost answer cannot
meet a second request) and two confirmations on the way, the smallest number that
can be out of date by one; all else in it is finite.
`stages` has a line of seven places with routes that contain waypoints near and far
(the exception of `HeldBeforeLeaving` happens, and so does its opposite), a move of
one place a tick, holds, windows and stamps of two units, ticks one or two units
apart: every comparison of the code comes out both ways, and a hold can be broken
off and begun again before the timeout of six.  `vision` has the constants of
`vision_pose.yaml` and `mission.yaml` in units of 0.1 s; ages beyond the longest
limit are alike.  `example` leaves one call of the plugin for the flight and one for
the operator, enough for a late acknowledgement of one to meet the other; ground
station and services have no bound.
`workerpool` has three threads - with two, the one that waits and the one that works
are always the same pair - three jobs and two wake-ups.
Deadlock is checked in every run except `release`, `release_deep`, `stages` and
`example`, whose systems end: a release, a flight that has landed.

### 3.1 Fairness

`MissionNode!Fairness` says that the timers keep running and the callbacks are
called (rospy's timer thread and spin), that time passes - the stage does not
wait for ever, the next request becomes due (strong fairness on the steps that
consult a clock, as the input "not yet" is always possible too) - and that the
flight controller takes a mode it was sent, publishes its state, descends in
AUTO.LAND and disarms on the ground.  Nothing is assumed of the pilot or of
services: they never have to act.  `ReleaseStage!FairSpec` says that the timer
ticks and that the aircraft closes in on its setpoint.  `PayloadRelease!FairSpec`
says that the servo node's timer ticks, that a move comes to an end (a sleep of
`drive_seconds`) and that the mission's timer makes its calls; neither device nor
operator nor topic has to do anything.

`VisionBridge!FairSpec`: the threads and timers run, and an odometry that works
(`fine`) keeps coming; nothing else.  `ExampleFlight!FairSpec`: the flight thread runs
- weakly fair as a whole, as each of its loops has a turn that ends it by the clock -
and a callback of the plugin goes on, if only by its timeout; the link may lose
everything.  `WorkerPool!Fairness`: each thread is scheduled, jobs end, and a client
inside `workerpool_run` or `workerpool_destroy` is too; nobody has to wake up by
itself or to use the pool.

### 3.2 What the violations show

1. **Unlocked FCU callback** (`node_pilot_race`).  A report of a manual mode that
   arrives between the mode check of a tick and `_drive_landing` is answered with
   an AUTO.LAND request, against `guards.py:19-20`.  `PilotOverruledOnce` in
   `node_safety` is what remains: the next tick sees the report and ends the mission.
2. **The climb that does not climb** (`release_deep`).  The low target is sent in
   every tick of stage C too, so the limited setpoint moves one step up and one
   step down in every tick and the stage ends in its timeout.  `DeepReleaseStalls` in
   section 4 is the same for every release that deep.

The servo node shows two more, which `payload` states as the exceptions of its
properties and not as runs of their own.  `doubt` in `RepeatMeansThere`: a move
that fails at the probe (`servo_node.py:115`) leaves `last_state` at the old
position, so after a release that was cut off a request to block is refused as a
repeated action although the mechanism stands released, and the health check
publishes the old position again (135).  `library = "pyserial"` in `Reconnects`:
without pyserial an unplugged device ends the timer thread of the health check.

**Divergences seen while modelling, without a run.**  The models have the behaviour
of the code in each case; where a property would fail by it, its comment names it as
the exception.

*Mission node.*  While the OFFBOARD request is unconfirmed the mode check is off by
design (`flight_driver.py:224`), so an abort in that window requests AUTO.LAND
against a pilot who has armed in a manual mode; `guards.py:19-20` knows no exception.
The landing timeout reports that the position setpoint is held
(`mission_node.py:519`), but after a confirmed AUTO.LAND none is sent.
`request_reset`'s docstring (`state_machine.py:132`) asks for a confirmed landing, the
code resets every COMPLETE, also that of a takeover in the air; the start gates still
ask for a disarmed aircraft on the ground.  `landing.py:3` and 20 promise that
only samples from after the AUTO.LAND request count and cached ones are refused.
`_cb_extended` stores a message before it counts it (`mission_node.py:166-168`): `begin`
in between lets the cached message through once, and two looks in between and after
count one message twice (`CountIsBacked` is what remains).  Messages that wait in the
subscriber's queue at `begin` (`queue_size=5`, line 93) count as new, which is the
exception of `LandedMeansGrounded`.  `mission/README.md:54` says manual_takeover
works in ABORT_LAND only, the code takes it in every flight state
(`mission_node.py:398`); `mission/README.md:53` says reset leaves ABORT_LAND, the code
refuses (`state_machine.py:145`); the docstring of `landing.py:4` lists a height limit
that lines 41-42 have removed; `window_ok` is documented as a start gate and is never
called.

*Stages.*  A repeated camera message is answered as fresh with the old position, also
when the message itself was a jump, had another tag or could not be placed
(`tag_tracker.py:43-45`; its docstring 3-6 and `docs/04:91` speak of a stable
position); messages without detections do not break the window.  `_follow` keeps
`_reached_since` for the next waypoint, which matters for waypoints closer than twice
the tolerance and a step - `mission.yaml` has none on its routes - and is handled for
mission points (`_flight_stages.py:119`).  The hold of ALIGN_TAG runs on while the tag
is lost (138).  Message and age are read separately (97, 133).

*Vision.*  The timer may decide TIMEOUT, the callback accept a message, and the timer
then publish its verdict: one state other than OK aborts the flight at once, where the
comment of `flight_health.py:31` says “持续非 OK”, lasting.  The bridge publishes its
first state after it has created its callbacks (`vision_pose_bridge.py:46-50`), so
WAITING may overwrite a first verdict; the next message or timer corrects it, and the
model begins with WAITING published.

*Examples.*  `docs/06:73` says that after a stop, or a failure, the example updates
its target no more and requests AUTO.LAND (“示例不再更新飞行目标，并请求 AUTO.LAND”).  A
turn that has looked before the stop was set still publishes, in every script, and in
12 even after the landing request, when the stop had passed its check (`flight.py:79`)
before: one target, as `StopEndsTargets` says.  And script 12 flies home after a failed
leg, with the landing requested (`12_move_cardinal.py:61-70`): without a stop its
targets go on until home is reached, missed or out of time.
Between lines 94 and 96 of `flight.py` a second start is accepted and a
stop refused.  After the last health check of the prestream a stop is only looked at
when OFFBOARD and arming have been requested (145-150).  `finish` accepts an ON_GROUND
report from before take-off (207) and does not look at the answer to AUTO.LAND (200).
After a failed leg script 12 leaves `~active` latched TRUE; its targets have the height
of the ground against its comment in line 50.

*Command plugin.*  An acknowledgement between the unlock (192) and the wait (141)
notifies nobody; the condition has no predicate, so a spurious wake-up or an
IN_PROGRESS ends the call as a failure; a late acknowledgement, and one that PX4 sends
to a ground station, is taken for the answer to the pending request of its command (the
XXX of line 123), so that a flight may be told of an arming that was not its own.

*Thread pool.*  A thread that wakes up by itself adds to `end_count` once more
(`workerpool.c:75-79`), and `workerpool_run` may return while another works, or still
holds a pointer into the array, which the next `zarray_add` may move; a failed
`pthread_create` leaves the threads that have been created (113-117).

## 4. The proofs

TLC checks the instances above; TLAPS proves the following for every value of
the constants the modules' assumptions allow.  `ConfigAssumption` and
`LandingAssumption` say what `config.py` guarantees: at least one request, at least
two samples; and a queue that holds a message.  `PoolAssumption` has more than one thread; `StagesAssumption` and
`TrackerAssumption` have waypoints that are not empty and numbers that are not
negative; `ExampleAssumption` names the two callers.

**MissionNode_proofs.**  `TypeOK`, `ActiveMatchesState`, `FlightHasDriver`,
`LandingMatchesState`, `ResultMatchesState`, `AutoLandCallsBounded` and
`StreamUntilAutoLand` are invariants.  None but the first is inductive alone.  The invariant is

    IInv == TypeOK /\ ActiveMatchesState /\ ResultMatchesState /\ FlightHasDriver
            /\ LandingMatchesState /\ TimerMatchesState /\ CallsMatchRequests

* `TimerMatchesState` - where the running timer is, the machine is in a state
  that allows it.  It is needed because the timer's steps rely on the check at its
  start, and holds because nobody else changes the state while `pc # "idle"`.
* `CallsMatchRequests` - while a landing context exists the calls of this flight
  are the requests it has counted, and before it there were none: this carries
  the retry budget from LAND into ABORT_LAND.

The proof has one lemma per operation of the machine (`MachineOK`: result and
active agree with the state), one per handler, and one step per action of `Next`.

The module goes on with what rests on this invariant:

* *The pilot.*  `SilentAfterTheEnd`: `CommandsOnlyWhileFlying`.
  `OneRequestAgainstThePilot`: `PilotOverruledOnce`, with callbacks as they are.  Its
  invariant `OverruledFresh` says that a request sent against a manual report belongs to
  the tick that is running or to a descent whose next tick will see the report.
* *The landing.*  `LandedOnGround`: `LandedMeansGrounded`, for every queue length and
  every number of samples.  As long as the aircraft has not been on the ground since
  the confirmation began, and that did not begin with a flood of old samples, the
  aircraft is in the air, the samples that speak for a landing are all of before, and
  those counted, cached and queued in front of any of them are too few
  (`GroundEvidence`, `TooFew`): a look uses up a sample, a delivery moves one from the
  queue to the cache, a new message comes from the air.
* *The lifecycle.*  `NodeImplementsLifecycle`: under `IInv` each step of the node is a
  step of `MissionLifecycle` or leaves phase and cause alone.

**LandingConfirmation_proofs.**  The sequence numbers implement the gate with callbacks
that may be cut in two by any operation (the gate counts numbers, not messages).
`EvidenceBehindTheCount`: `CountIsBacked`, by an invariant that gives the newest message
its weight - it may be counted once more while its callback has not counted it.

**PayloadRelease_proofs.**  For every retry count and queue length, and whether
repeated actions are allowed or not: `TypeOK`, `RepeatMeansThere`, `DriveEnds`,
`StartsLoaded`.  With `allow_repeat` off, as `servo.yaml:20` has it, also `MovesOnce`,
`ReturnsMoved` and the implementation of `PayloadDelivery`.  The invariant adds
`DoneIsRemembered` (what this stage has carried out is in `last_state`, so a retry
is refused; the part that needs `allow_repeat` off, and `OnceIfRefused` is what follows
from it), `AnswerIsTrue` (a success answer means it was carried out) and
`MissionRequest` (a request of the mission is a release made in its stage).
`StartGate` adds `ReleaseIsTold`: when the mechanism has released, the newest message,
on its way or taken note of, says so, or none has been sent.
`ReleaseImplementsDelivery` goes step by step: what the servo node does for the mission
is `Open`, what it does for the operator `BenchEnds`, and all traffic is a stutter.

**ReleaseStage_proofs.**  `TypeOK` and `ReturnsReleased` hold for all heights, speeds
and retry counts.  `CallsLow`, that the servo is called only near the low height, has
the hypothesis `HoldSuffices`: the straying is not more than the tolerance, and its
double not more than the setpoint covers in a hold.  Without either TLC finds a call
made too high; `mission.yaml` and the run satisfy it (5 <= 15, 10 <= 21).  The
invariant `DescentInv` says why: an aircraft that comes near the low height is past its
setpoint by no more than it strays, and each look that counts for the hold time has
brought the setpoint another step down, so that in the end it keeps the aircraft near.
`DeepReleaseStalls` turns the finding of `release_deep` into a statement about all
depths: if the descent is deeper than tolerance, one step and straying make up for
(`DeepDescent`), an aircraft that has followed the setpoint down never reaches RETURN.
Its core is that the setpoint never leaves `{Low, Low + Step}` again.  The numbers of
`mission.yaml` satisfy the hypotheses with room to spare (30 + 10 < 42 and
2 + 30 + 10 < 50, in centimetres).

**VisionBridge_proofs.**  `TypeOK` and `OutageNoticed`, for every limit, timeout and
debounce and every order of callback and timer.  The invariant relates the clocks to
what the mission has heard: beyond the timeout the state is not OK, and a unit later
the mission knows (`TimeoutNamed`, `TimeoutHeard`, `FirstTickAborts`); if the bridge
has died, the mission's last good word is at least as old as the last good message
(`WordIsOlder`), and each tick since the limit has been counted as a bad one
(`BadTicksCount`), until the debounce is full (`DebounceEnds`).

**WorkerPool_proofs.**  `PoolTypes`, `RunLeavesNoneBehind` and `RunDoesJobsOnce` for
any number of threads, jobs, runs and wake-ups.  The invariant has four parts beside
the types: `ClientMatchesPool` (what the client has set up where it is),
`CountMatchesWaiting` (`end_count` is the number of threads that wait, which is why a
full count means an empty pool; it is the part that a wake-up by itself destroys, hence
`extra`), `ArrayInOrder` (the array holds the jobs of this run in order, then the empty
tasks) and `JobsAccounted` (each job is not yet taken, with exactly one thread, or
done).

**ExampleFlight_proofs.**  `PluginAnswersOwn`: `SuccessIsOwn` of the plugin, for any
callers and commands.  Its invariant follows a request through the link: at most one
transaction of a command is in the list (`OneTransaction`), each request or its last
acknowledgement is on its way once and its call waits for it or is over
(`MessagesOwned`), and what a transaction holds is its own result, that of a call that
went unheard, or another station's (`ResultsTrue`).  `ExampleUsesPlugin`: the example is
a client of the plugin, so `ExampleAnswersOwn` follows.  `ExampleTypes`,
`EarlyStopPreventsArming` and `StopSilencesTargets` follow from `FlightInv`, which says
where the thread can be after a landing request and after an early stop, and that a
target published late was the last one.

**FlightStages_proofs.**  `StageTypesHold`, `HoldsBeforeLeaving` and `FreshTagIsStable`,
the two last as action properties from inductive invariants that compare the code's
memory with the history outside it.  `HoldInv`: `_reached_since` is as old as the visit
that the looks have seen, or was carried over from a waypoint close behind.
`TrackInv`: the window of the tracker is the series in front of the camera, as far as
the newest message has been taken note of.  Both rest on `TypeInv`, which includes that
index and tracker fit their stages.

Only model-checked: the liveness properties (`MissionEndsOnceConfirmed`,
`ReturnsAfterRelease`, `Reconnects`, `CallsEnd`, `PoolEnds`, `StopLands`, `Recovers`),
which rest on fairness and ENABLED and are outside the prover.  Every safety property
of the passing runs is a theorem.  Three have a hypothesis: `ReleasesOnce`,
`ReleaseImplementsDelivery` and `CallsLow` a bound on the configuration, which the files
of the repository satisfy and the code does not check.

## 5. What is left

The plan was: 1. machine, node, lifecycle, landing gate; 2. the landing confirmation
and its refinement; 3. the release stage; 4. the inductive invariant, the refinements
and the pilot; 5. the servo node composed with the mission, and its proofs; 6. the
stages with the tag tracker; 7. the vision bridge; 8. the examples on the command
plugin; 9. the thread pool.  All of it is done, and after it 10. the proofs of `VisionBridge` and
`ReleaseStage`, of `StartsLoaded`, `DriveEnds` and `LandedMeansGrounded`, and the
abstract specification of the delivery.  Left for a team that goes on: an abstract
specification of the thread pool (a run as one step) and of the stages (a route as a
sequence of held places), with their refinements; the tag centering flight
(`10_...py`); the age of the cached armed flag in the landing confirmation.

### Not modelled

* `config.py`'s validation and the frame transforms: checks and arithmetic on single
  values, without state.
* Bring-up, launch files, tools, docs site, the servo tuner, the examples that only
  read topics: declarative, or without shared state.
* FAST-LIO, the Livox driver and SDK, the web camera, the rest of MAVROS and of
  AprilTag: vendored, and for the most part numerical.

All C and C++ of the repository is vendored, and two thirds of its lines
are the generated code tables of the tag families; the first-party program is the
Python of `robotac_*`.  Of the vendored code the two parts are modelled whose
correctness depends on interleavings and which the flight relies on; the image
processing and the filters are sequential computations on real numbers, for which a
finite-state model would say nothing.  The share of all lines of the repository that the
models stand for is therefore small, while that of the mission's own code is not.

## 6. Running

    tlc -config node_safety.cfg MCMissionNode.tla
    tlc -config stages.cfg MCFlightStages.tla
    tlapm MissionNode_proofs.tla

Each run is a `.cfg` of its own; `PROJECT.json` names the module it goes with.
