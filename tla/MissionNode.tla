----------------------------- MODULE MissionNode -----------------------------
(***************************************************************************)
(* The mission node (scripts/mission_node.py) with the part of its flight  *)
(* driver that talks to the flight controller (flight_driver.py,           *)
(* _flight_stages.py), and the flight controller and pilot around it.      *)
(*                                                                         *)
(* Services and timers hold the node's lock for the whole handler, so each *)
(* of them is one action - except the 20 Hz flight timer, which reads the  *)
(* cached FCU report several times: subscriber callbacks do not take the   *)
(* lock and may replace the report between two reads.  pc is the place     *)
(* the running flight timer has reached; the lock is free when pc="idle".  *)
(* The messages of extended_state wait for their callback in the queue of  *)
(* the subscription.                                                       *)
(*                                                                         *)
(* Time is kept out of the state.  Whether a timeout has elapsed or a      *)
(* cached message is fresh is an input of the step that asks: each clock   *)
(* is consulted once per step, and after it has fired the code never asks  *)
(* it again, so a free choice gives the behaviours of a clock with         *)
(* arbitrary delays between the steps.                                     *)
(***************************************************************************)
EXTENDS MissionMachine, SampleGate, Sequences

CONSTANTS
  FlightEnabled,    \* mission.flight_enabled
  RouteOnly,        \* mission.route_only
  PayloadEnable,    \* payload.enable
  DryRun,           \* mission.dry_run
  ModeRetryCount,   \* landing.mode_retry_count
  ConfirmSamples,   \* landing.confirm_samples
  QueueSize,        \* queue_size of the extended_state subscription
  Faults            \* what may go wrong around the node, a subset of AllFaults

AllFaults == {"config",    \* mission.yaml is missing, invalid or malformed
              "restart",   \* the node process dies and is started again
              "sensors",   \* stale or unhealthy localisation, late samples
              "service",   \* a MAVROS service call fails or times out
              "drop",      \* the FCU rejects or never receives a command
              "link",      \* MAVROS reports the FCU as disconnected
              "pilot",     \* the pilot arms, disarms, takes a manual mode
              "failsafe"}  \* the FCU leaves the requested mode by itself

ASSUME ConfigAssumption ==
  /\ {FlightEnabled, RouteOnly, PayloadEnable, DryRun} \subseteq BOOLEAN
  /\ ModeRetryCount \in Nat \ {0}          \* config.py requires at least 1
  /\ ConfirmSamples \in Nat \ {0, 1}       \* config.py requires at least 2
  /\ QueueSize \in Nat \ {0}
  /\ Faults \subseteq AllFaults

VARIABLES
  machine,     \* the mission state machine
  loaded,      \* self.config is not None
  driver,      \* progress of self.driver within TAKEOFF, or "absent"
  landing,     \* the _landing_* fields and the landing confirmation
  fcu,         \* cached /mavros/state
  ext,         \* cached /mavros/extended_state
  counting,    \* its callback has stored the message, not yet counted it
  pc,          \* where the running flight timer is
  setpoint,    \* did the last flight timer publish a setpoint?
  px4,         \* the flight controller itself
  wire,        \* extended_state messages waiting for their callback
  cmd,         \* mode request on its way to the flight controller
  landCalls,   \* history: AUTO.LAND requests of this flight
  overruled,   \* history: those sent since the FCU has reported a manual mode
  grounded,    \* history: on the ground since the confirmation began
  flooded      \* history: samples enough to confirm were under way then

nodeVars == <<machine, loaded, driver, landing, pc, setpoint>>
cacheVars == <<fcu, ext, counting>>
fcuVars == <<px4, wire, cmd>>
history == <<landCalls, overruled, grounded, flooded>>
vars == <<nodeVars, cacheVars, fcuVars, history>>

\* MANUAL is any of guards.MANUAL_MODES, HOLD any mode that is none of the
\* others, LOST the empty mode MAVROS reports while it is disconnected.
Mode == {"OFFBOARD", "AUTO.LAND", "MANUAL", "HOLD"}
Report == [mode : Mode \cup {"LOST"}, armed : BOOLEAN]
NoReport == [mode |-> "NONE", armed |-> FALSE]
Lost == [mode |-> "LOST", armed |-> FALSE]

Px4 == [mode : Mode, armed : BOOLEAN, airborne : BOOLEAN]

DriverStep == {"prestream", "await_offboard", "request_arm", "await_armed", "climb"}

Landing == [active : BOOLEAN, requests : 0..ModeRetryCount, confirmed : BOOLEAN,
            reported : BOOLEAN, gate : Gate]

NoLanding == [active |-> FALSE, requests |-> 0, confirmed |-> FALSE,
              reported |-> FALSE, gate |-> GateReset]

\* Mutant: every call begins the landing again.
BeginLanding_Again(l) == [NoLanding EXCEPT !.active = TRUE]

\* begin_landing: a landing that is already running is not begun again.
BeginLanding(l) == IF l.active THEN l ELSE [NoLanding EXCEPT !.active = TRUE]

Bit(b) == IF b THEN 1 ELSE 0

\* An input the environment may spoil: good, or anything if the fault exists.
Maybe(fault) == IF fault \in Faults THEN BOOLEAN ELSE {TRUE}

TypeOK ==
  /\ machine \in Machine
  /\ loaded \in BOOLEAN
  /\ driver \in DriverStep \cup {"absent"}
  /\ landing \in Landing
  /\ fcu \in Report \cup {NoReport}
  /\ ext \in {"NONE", "GROUND", "AIR"}
  /\ counting \in BOOLEAN
  /\ pc \in {"idle", "tick", "health", "stage", "land"}
  /\ setpoint \in BOOLEAN
  /\ px4 \in Px4
  /\ wire \in Seq({"GROUND", "AIR"}) /\ Len(wire) <= QueueSize
  /\ cmd \in {"none", "OFFBOARD", "AUTO.LAND"}
  /\ landCalls \in Nat /\ overruled \in Nat
  /\ grounded \in BOOLEAN /\ flooded \in BOOLEAN
-----------------------------------------------------------------------------
(* Boot.                                                                   *)

LoadOutcome == {"valid"} \cup IF "config" \in Faults THEN {"invalid", "raises"} ELSE {}

\* _boot on a machine in BOOT.  An exception other than ConfigError leaves
\* the machine in BOOT without a configuration.
Boot(m, load) ==
  /\ loaded' = (load = "valid")
  /\ machine' = IF load = "raises" THEN m ELSE HandleBootParams(m, load = "valid")
  /\ driver' = "absent"
  /\ landing' = NoLanding

\* The first boot of a process; one whose _boot raises does not come up.
FirstBoot == LoadOutcome \ {"raises"}
Booted(load) == HandleBootParams(NewMachine, load = "valid")

Init ==
  /\ \E load \in FirstBoot : loaded = (load = "valid") /\ machine = Booted(load)
  /\ driver = "absent" /\ landing = NoLanding
  /\ fcu = NoReport /\ ext = "NONE" /\ counting = FALSE
  /\ pc = "idle" /\ setpoint = FALSE
  /\ px4 \in [mode : {"MANUAL", "HOLD"}, armed : {FALSE}, airborne : {FALSE}]
  /\ wire = <<>> /\ cmd = "none"
  /\ landCalls = 0 /\ overruled = 0 /\ grounded = FALSE /\ flooded = FALSE

\* The process dies, wherever it was, and is launched again; the messages of
\* its subscription are lost with it.
Restart ==
  /\ "restart" \in Faults
  /\ \E load \in FirstBoot : loaded' = (load = "valid") /\ machine' = Booted(load)
  /\ driver' = "absent" /\ landing' = NoLanding
  /\ fcu' = NoReport /\ ext' = "NONE" /\ counting' = FALSE /\ wire' = <<>>
  /\ pc' = "idle" /\ setpoint' = FALSE
  /\ landCalls' = 0 /\ overruled' = 0 /\ grounded' = FALSE /\ flooded' = FALSE
  /\ UNCHANGED <<px4, cmd>>

-----------------------------------------------------------------------------
(* Services and the 5 Hz timer: they wait for the lock.                    *)

LockFree == pc = "idle"

\* _evaluate_preconditions; others stands for the pose, estimator, timesync
\* and vision gates and for the age of every cached message.
Preconditions(others) ==
  fcu \notin {NoReport, Lost} /\ ~fcu.armed /\ ext = "GROUND" /\ others

Evaluated(others) ==
  IF machine.state \in PreStart
  THEN HandlePreconditions(machine, Preconditions(others)) ELSE machine

\* What the node itself refuses before asking the machine.
NodeRefusesStart(others, released) ==
  /\ machine.state \in PreStart /\ Preconditions(others) /\ FlightEnabled
  /\ (~PayloadEnable /\ ~RouteOnly) \/ released

FlightAccepted(others, released) ==
  FlightEnabled /\ ~NodeRefusesStart(others, released) /\ StartAccepted(Evaluated(others))

\* A start that is refused, or accepted without flight_enabled.
StartWithoutFlight(others, released) ==
  /\ LockFree /\ loaded /\ ~FlightAccepted(others, released)
  /\ machine' = Evaluated(others)
  /\ UNCHANGED <<loaded, driver, landing, pc, setpoint, cacheVars, fcuVars, history>>

StartFlight(others, released) ==
  /\ LockFree /\ loaded /\ FlightAccepted(others, released)
  /\ machine' = RequestStart(Evaluated(others))
  /\ driver' = "prestream"
  /\ landCalls' = 0
  /\ UNCHANGED <<loaded, landing, pc, setpoint, cacheVars, fcuVars>>
  /\ UNCHANGED <<overruled, grounded, flooded>>

Stop ==
  /\ LockFree
  /\ machine' = RequestStop(machine)
  /\ landing' = IF machine'.state = "ABORT_LAND" THEN BeginLanding(landing) ELSE landing
  /\ UNCHANGED <<loaded, driver, pc, setpoint, cacheVars, fcuVars, history>>

Reset(load) ==
  /\ LockFree /\ ResetAccepted(machine)
  /\ LET m == RequestReset(machine)
     IN  IF m.state = "BOOT" THEN Boot(m, load)
         ELSE /\ machine' = m
              /\ driver' = "absent"
              /\ landing' = NoLanding
              /\ UNCHANGED loaded
  /\ landCalls' = 0 /\ grounded' = FALSE /\ flooded' = FALSE
  /\ UNCHANGED <<pc, setpoint, cacheVars, fcuVars, overruled>>

\* Mutant: the service forgets cancel_landing.
ManualTakeover_KeepsLanding ==
  /\ LockFree /\ machine.state \in Commanding
  /\ machine' = ConfirmManualTakeover(machine)
  /\ UNCHANGED <<loaded, driver, landing, pc, setpoint, cacheVars, fcuVars, history>>

\* The manual_takeover service.
ManualTakeover ==
  /\ LockFree /\ machine.state \in Commanding
  /\ machine' = ConfirmManualTakeover(machine)
  /\ landing' = NoLanding
  /\ UNCHANGED <<loaded, driver, pc, setpoint, cacheVars, fcuVars, history>>

StatusTimer(others) ==
  /\ LockFree /\ loaded /\ machine.state \in PreStart
  /\ machine' = Evaluated(others)
  /\ UNCHANGED <<loaded, driver, landing, pc, setpoint, cacheVars, fcuVars, history>>

Service ==
  \/ \E others \in Maybe("sensors"), released \in BOOLEAN :
       StartWithoutFlight(others, released) \/ StartFlight(others, released)
  \/ Stop
  \/ \E load \in LoadOutcome : Reset(load)
  \/ ManualTakeover
  \/ \E others \in Maybe("sensors") : StatusTimer(others)

-----------------------------------------------------------------------------
(* The 20 Hz flight timer.                                                 *)

ManualMode(report) == report.armed /\ report.mode = "MANUAL"

\* Mutant: the check stays suspended when the wait has been given up.
AwaitingOffboard_Aborted == driver = "await_offboard"

\* The OFFBOARD request is out and the FCU has not confirmed it: the timer
\* does not take a manual mode for a takeover.
AwaitingOffboard == machine.state = "TAKEOFF" /\ driver = "await_offboard"

\* Mutant: an aborted flight is not driven to the ground.
AfterDriver_LandOnly(m) == IF m.state = "LAND" THEN "land" ELSE "idle"

\* Where the timer goes once the driver has had its turn.
AfterDriver(m) == IF m.state \in Descending THEN "land" ELSE "idle"

\* Mutant: the timer does not return after the takeover.
ModeTakeover_GoesOn ==
  /\ machine' = ConfirmManualTakeover(machine)
  /\ landing' = NoLanding
  /\ pc' = "land"
  /\ UNCHANGED <<loaded, driver, cacheVars, fcuVars, history>>

\* A manual mode takes the aircraft out of the mission's hands.
ModeTakeover ==
  /\ machine' = ConfirmManualTakeover(machine)
  /\ landing' = NoLanding
  /\ pc' = "idle"
  /\ UNCHANGED <<loaded, driver, cacheVars, fcuVars, history>>

\* _on_flight_timer takes the lock and makes its own manual mode check.
TimerStarts ==
  /\ LockFree /\ loaded /\ machine.state \in Commanding
  /\ setpoint' = FALSE
  /\ \/ ManualMode(fcu) /\ ~AwaitingOffboard /\ ModeTakeover
     \/ /\ ~ManualMode(fcu) \/ AwaitingOffboard
        /\ pc' = IF driver # "absent" /\ machine.state \in Flight
                 THEN "tick" ELSE AfterDriver(machine)
        /\ UNCHANGED <<machine, loaded, driver, landing, cacheVars, fcuVars, history>>

\* FlightDriver.tick repeats the check on the report it reads itself.
TickChecksMode ==
  /\ pc = "tick"
  /\ UNCHANGED setpoint
  /\ \/ ManualMode(fcu) /\ ~AwaitingOffboard /\ ModeTakeover
     \/ /\ ~ManualMode(fcu) \/ AwaitingOffboard
        /\ pc' = "health"
        /\ UNCHANGED <<machine, loaded, driver, landing, cacheVars, fcuVars, history>>

\* FlightDriver._abort
AbortFlight ==
  /\ machine' = Abort(machine)
  /\ landing' = BeginLanding(landing)
  /\ pc' = "land"
  /\ UNCHANGED <<loaded, driver, cacheVars, history>>

\* guards.mode_ok
ModeOk(report) == report.armed => report.mode \in {"OFFBOARD", "AUTO.LAND"}

\* flight_health.check; healthy stands for the pose, estimator, vision,
\* timesync, jump and boundary gates.
TickChecksHealth ==
  /\ pc = "health"
  /\ UNCHANGED <<setpoint, fcuVars>>
  /\ \E healthy \in Maybe("sensors") :
       IF fcu.mode # "LOST" /\ ModeOk(fcu) /\ healthy
       THEN /\ pc' = "stage"
            /\ UNCHANGED <<machine, loaded, driver, landing, cacheVars, history>>
       ELSE AbortFlight

NextStageOf(m) ==
  IF m.state = "SEARCH_TAG" /\ RouteOnly THEN SkipToReturn(m) ELSE StageDone(m)

\* FlightDriver._advance, with _reset_stage
Advance ==
  LET m == NextStageOf(machine)
  IN  /\ machine' = m
      /\ driver' = "prestream"
      /\ landing' = IF m.state = "LAND" THEN BeginLanding(landing) ELSE landing
      /\ pc' = AfterDriver(m)
      /\ UNCHANGED <<loaded, cacheVars, history>>

\* The stage goes on; its driver may move one step within TAKEOFF.
Continue(step) ==
  /\ driver' = step
  /\ pc' = "idle"
  /\ UNCHANGED <<machine, loaded, landing, cacheVars, history>>

\* interfaces: a request that dry_run keeps off the wire always "succeeds".
\* MAVROS answers a mode request when it has sent it.
Request(command) == cmd' = IF DryRun THEN cmd ELSE command
Replies == IF DryRun THEN {TRUE} ELSE Maybe("service")

\* _stage_takeoff from the end of the prestream to the climb.
TakeoffRequestsOffboard ==
  /\ driver = "prestream"
  /\ Request("OFFBOARD")
  /\ \E ok \in Replies : IF ok THEN Continue("await_offboard") ELSE AbortFlight

TakeoffSeesOffboard ==
  /\ driver = "await_offboard" /\ fcu.mode = "OFFBOARD"
  /\ Continue("request_arm") /\ UNCHANGED cmd

\* MAVROS answers an arming request with an acknowledgement of its command:
\* the FCU's answer, or one to somebody else's request (CommandPlugin).
\* Without one the aircraft may be armed or not.
TakeoffRequestsArm ==
  /\ driver = "request_arm" /\ UNCHANGED cmd
  /\ LET armed == IF DryRun THEN px4 ELSE [px4 EXCEPT !.armed = TRUE]
     IN  \/ /\ px4' \in {armed} \cup IF "drop" \in Faults THEN {px4} ELSE {}
            /\ Continue("await_armed")
         \/ /\ ~DryRun /\ Faults \cap {"service", "drop"} # {}
            /\ px4' \in {px4, armed} /\ AbortFlight

TakeoffSeesArmed ==
  /\ driver = "await_armed" /\ fcu.mode = "OFFBOARD" /\ fcu.armed
  /\ Continue("climb") /\ UNCHANGED cmd

TakeoffReached ==
  /\ driver = "climb" /\ ext = "AIR"
  /\ Advance /\ UNCHANGED cmd

\* The stage timeout is looked at only while waiting for the FCU.
TakeoffWaits ==
  /\ \/ driver = "await_offboard" /\ fcu.mode # "OFFBOARD"
     \/ driver = "await_armed" /\ ~(fcu.mode = "OFFBOARD" /\ fcu.armed)
     \/ driver = "climb"
  /\ Continue(driver) \/ AbortFlight
  /\ UNCHANGED cmd

StageTakeoff ==
  /\ setpoint' = TRUE
  /\ \/ TakeoffRequestsArm
     \/ /\ UNCHANGED px4
        /\ \/ driver = "prestream" /\ Continue("prestream") /\ UNCHANGED cmd
           \/ TakeoffRequestsOffboard \/ TakeoffSeesOffboard
           \/ TakeoffSeesArmed \/ TakeoffReached \/ TakeoffWaits

\* The stages between TAKEOFF and LAND go on, succeed, or abort on a timeout
\* or a refused release.  Not every step of ALIGN_TAG and RELEASE publishes a
\* setpoint; RELEASE never succeeds with the payload disabled.
StageEnRoute ==
  /\ setpoint' \in IF machine.state \in {"ALIGN_TAG", "RELEASE"} THEN BOOLEAN ELSE {TRUE}
  /\ UNCHANGED <<cmd, px4>>
  /\ \/ Continue(driver)
     \/ (machine.state = "RELEASE" => PayloadEnable) /\ Advance
     \/ AbortFlight

\* _stage_land
StageLand ==
  /\ landing' = BeginLanding(landing)
  /\ pc' = "land"
  /\ UNCHANGED <<machine, loaded, driver, setpoint, cacheVars, cmd, px4, history>>

TickRunsStage ==
  /\ pc = "stage"
  /\ UNCHANGED wire
  /\ IF machine.state \notin {"TAKEOFF", "LAND"} /\ ~fcu.armed
     THEN AbortFlight /\ UNCHANGED <<setpoint, cmd, px4>>
     ELSE CASE machine.state = "TAKEOFF" -> StageTakeoff
            [] machine.state = "LAND"    -> StageLand
            [] OTHER                     -> StageEnRoute

-----------------------------------------------------------------------------
(* _drive_landing.                                                         *)

\* _landing_timeout_if_needed: reported once; a LAND that is late becomes an
\* ABORT_LAND.
LandingTimeout(l, late) ==
  IF late /\ ~l.reported
  THEN /\ landing' = [l EXCEPT !.reported = TRUE]
       /\ machine' = IF machine.state = "LAND" THEN Abort(machine) ELSE machine
  ELSE /\ landing' = l
       /\ UNCHANGED machine

\* Mutant: every look begins the confirmation again.
BeginGate_Again(l) == [l EXCEPT !.gate = GateBegin]

\* The confirmation begins with the first request, or with AUTO.LAND itself.
BeginGate(l) == IF l.gate.started THEN l ELSE [l EXCEPT !.gate = GateBegin]
MarkBegin(l) ==
  IF l.gate.started THEN UNCHANGED <<grounded, flooded>>
  ELSE /\ grounded' = ~px4.airborne
       /\ flooded' = (px4.airborne /\ Len(wire) + Bit(counting) >= ConfirmSamples)

\* Mutant: one request too many.
MayRequest_OneMore(l, due) == (l.requests = 0 \/ due) /\ l.requests <= ModeRetryCount

MayRequest(l, due) == (l.requests = 0 \/ due) /\ l.requests < ModeRetryCount

\* AUTO.LAND not confirmed: hold the position, request the mode when due.
SeekAutoLand(l, due, late) ==
  /\ setpoint' = TRUE
  /\ IF MayRequest(l, due)
     THEN /\ LandingTimeout([BeginGate(l) EXCEPT !.requests = l.requests + 1], late)
          /\ MarkBegin(l)
          /\ Request("AUTO.LAND")
          /\ landCalls' = landCalls + 1
          /\ overruled' = overruled + Bit(ManualMode(fcu))
     ELSE /\ LandingTimeout(l, late)
          /\ UNCHANGED <<cmd, history>>

ConfirmLanding(m) == IF m.state = "LAND" THEN StageDone(m) ELSE ConfirmLanded(m)

\* AUTO.LAND confirmed once: wait for the landing.
WatchLanding(l, steady, late) ==
  LET begun == BeginGate(l)
      valid == ext = "GROUND" /\ ~fcu.armed /\ steady
  IN  /\ MarkBegin(l)
      /\ UNCHANGED <<setpoint, cmd, landCalls, overruled>>
      /\ IF GateOpens(begun.gate, valid, ConfirmSamples)
         THEN /\ machine' = ConfirmLanding(machine)
              /\ landing' = NoLanding
         ELSE LandingTimeout([begun EXCEPT !.gate = GateObserve(begun.gate, valid)], late)

\* fresh: the cached report is recent; steady: the sample and the velocity
\* are, and the aircraft does not move vertically.
DriveLanding(fresh, due, late, steady) ==
  /\ pc = "land"
  /\ LET begun == BeginLanding(landing)
         l == [begun EXCEPT !.confirmed =
                 begun.confirmed \/ (fresh /\ fcu.mode = "AUTO.LAND")]
     IN  IF l.confirmed THEN WatchLanding(l, steady, late) ELSE SeekAutoLand(l, due, late)
  /\ pc' = "idle"
  /\ UNCHANGED <<loaded, driver, cacheVars, px4, wire>>

FlightTimer ==
  \/ TimerStarts \/ TickChecksMode \/ TickChecksHealth \/ TickRunsStage
  \/ \E fresh, steady \in Maybe("sensors"), due, late \in BOOLEAN :
       DriveLanding(fresh, due, late, steady)

-----------------------------------------------------------------------------
(* Subscriber callbacks: they do not take the lock.                        *)

CbFcuState ==
  /\ fcu' \in {[mode |-> px4.mode, armed |-> px4.armed]}
              \cup IF "link" \in Faults THEN {Lost} ELSE {}
  /\ overruled' = IF ManualMode(fcu)' THEN overruled ELSE 0
  /\ UNCHANGED <<nodeVars, ext, counting, fcuVars, landCalls, grounded, flooded>>

\* _cb_extended takes the oldest message and stores it before it counts it.
CbStoresExtended ==
  /\ wire # <<>> /\ ~counting
  /\ ext' = Head(wire) /\ wire' = Tail(wire) /\ counting' = TRUE
  /\ UNCHANGED <<nodeVars, fcu, px4, cmd, history>>

CbCountsExtended ==
  /\ counting
  /\ landing' = [landing EXCEPT !.gate = GateSample(landing.gate)]
  /\ counting' = FALSE
  /\ UNCHANGED <<machine, loaded, driver, pc, setpoint, fcu, ext, fcuVars, history>>

Callback == CbFcuState \/ CbStoresExtended \/ CbCountsExtended

-----------------------------------------------------------------------------
(* The flight controller and the pilot.                                    *)

FcuObeys ==
  /\ cmd # "none"
  /\ px4' = [px4 EXCEPT !.mode = cmd]
  /\ cmd' = "none"
  /\ UNCHANGED <<nodeVars, cacheVars, wire, history>>

FcuDropsCommand ==
  /\ "drop" \in Faults /\ cmd # "none"
  /\ cmd' = "none"
  /\ UNCHANGED <<nodeVars, cacheVars, px4, wire, history>>

\* extended_state is sampled now and delivered later, in order; when the
\* subscription's queue is full, its oldest message is dropped.
FcuPublishes ==
  /\ wire' = Append(IF Len(wire) < QueueSize THEN wire ELSE Tail(wire),
                    IF px4.airborne THEN "AIR" ELSE "GROUND")
  /\ UNCHANGED <<nodeVars, cacheVars, px4, cmd, history>>

\* What the aircraft does under the mode it is in.
LiftsOff ==
  /\ px4.armed /\ ~px4.airborne /\ px4.mode \in {"OFFBOARD", "MANUAL"}
  /\ px4' = [px4 EXCEPT !.airborne = TRUE]
  /\ UNCHANGED grounded

TouchesDown ==
  /\ px4.airborne /\ px4.mode \in {"AUTO.LAND", "MANUAL"}
  /\ px4' = [px4 EXCEPT !.airborne = FALSE]
  /\ grounded' = (grounded \/ landing.gate.started)

DisarmsOnGround ==
  /\ px4.armed /\ ~px4.airborne /\ px4.mode = "AUTO.LAND"
  /\ px4' = [px4 EXCEPT !.armed = FALSE]
  /\ UNCHANGED grounded

\* The pilot may switch to a manual mode, arm, or cut the motors.
PilotActs ==
  /\ "pilot" \in Faults
  /\ px4' \in {[px4 EXCEPT !.mode = "MANUAL"], [px4 EXCEPT !.armed = ~px4.armed]}
  /\ UNCHANGED grounded

FcuFailsafe ==
  /\ "failsafe" \in Faults
  /\ px4' = [px4 EXCEPT !.mode = "HOLD"]
  /\ UNCHANGED grounded

Aircraft ==
  /\ LiftsOff \/ TouchesDown \/ DisarmsOnGround \/ PilotActs \/ FcuFailsafe
  /\ UNCHANGED <<nodeVars, cacheVars, wire, cmd, landCalls, overruled, flooded>>

Environment == FcuObeys \/ FcuDropsCommand \/ FcuPublishes \/ Aircraft

Next == Restart \/ Service \/ FlightTimer \/ Callback \/ Environment

Spec == Init /\ [][Next]_vars

\* The timers keep running, the callbacks are called, time passes (a stage
\* does not wait for ever, the next AUTO.LAND request becomes due), and the
\* FCU carries out what it was asked for.
Fairness ==
  /\ WF_vars(FlightTimer)
  /\ SF_vars(TickRunsStage /\ <<machine, driver>>' # <<machine, driver>>)
  /\ SF_vars(\E late \in BOOLEAN : DriveLanding(TRUE, TRUE, late, TRUE))
  /\ SF_vars(CbFcuState) /\ SF_vars(CbStoresExtended) /\ WF_vars(CbCountsExtended)
  /\ WF_vars(FcuObeys) /\ WF_vars(FcuPublishes)
  /\ WF_vars(TouchesDown /\ Aircraft) /\ WF_vars(DisarmsOnGround /\ Aircraft)

FairSpec == Spec /\ Fairness

-----------------------------------------------------------------------------
(* The lifecycle the node implements.                                      *)

PhaseOf(state) ==
  CASE state = "BOOT"                        -> "booting"
    [] state \in {"WAIT_READY", "WAIT_START"} -> "ready"
    [] state \in Flight \ {"LAND"}           -> "flying"
    [] state \in Descending                  -> "landing"
    [] state = "COMPLETE"                    -> "ended"
    [] state = "ERROR"                       -> "failed"

Lifecycle == INSTANCE MissionLifecycle
               WITH phase <- PhaseOf(machine.state), cause <- machine.result

\* Every behaviour of the node is one of the abstract lifecycle: the mission
\* lands once it has begun to land, and its result is the first cause.
ImplementsLifecycle == Lifecycle!Spec

-----------------------------------------------------------------------------
(* Invariants.                                                             *)

\* The active topic says exactly whether the mission flies the aircraft.
ActiveMatchesState == machine.active <=> machine.state \in Commanding

\* A flight state without a driver or a configuration would hang in the air:
\* the flight timer returns early and nothing ever aborts.
FlightHasDriver == machine.state \in Commanding => loaded /\ driver # "absent"

\* A landing context exists exactly during a descent: one left over from an
\* earlier flight would make the next begin_landing a no-op, and a missing
\* one would lose the request count.
LandingMatchesState == landing.active <=> machine.state \in Descending

\* The result topic agrees with the state: nothing while the mission is
\* ready or flying, a cause in every state that ends it.
ResultMatchesState ==
  CASE machine.state \in PreStart \cup Flight -> machine.result = "none"
    [] machine.state = "ABORT_LAND"           -> machine.result = "aborted"
    [] machine.state = "COMPLETE" -> machine.result \in {"aborted", "safe", "takeover"}
    [] machine.state = "ERROR"    -> machine.result = "invalid"

\* AUTO.LAND is requested at most mode_retry_count times in a flight, even
\* when a LAND turns into an ABORT_LAND half way or the operator stops it.
AutoLandCallsBounded == landCalls <= ModeRetryCount

\* From the first AUTO.LAND request until the mode is confirmed every run of the
\* flight timer publishes the position setpoint, on whatever way it came to the
\* landing: without the stream a flight controller that is still in OFFBOARD
\* leaves it by itself.
StreamUntilAutoLand ==
  pc = "idle" /\ machine.state \in Descending /\ landing.requests > 0 /\ ~landing.confirmed
    => setpoint

\* The callbacks do not take the lock, so a pilot's switch to a manual mode may
\* come between the mode check of a tick and its AUTO.LAND request.  That
\* happens once: no second request goes out against the same manual report.
PilotOverruledOnce == overruled <= 1

-----------------------------------------------------------------------------
(* The inductive invariant behind the theorems of MissionNode_proofs.      *)

\* The running flight timer is where the machine allows it to be: nobody
\* else changes the state while the timer has the lock.
TimerMatchesState ==
  /\ pc \in {"tick", "health", "stage"} => machine.state \in Flight
  /\ pc = "land" => machine.state \in Descending

\* The request counter of the landing counts the requests of the flight.
CallsMatchRequests ==
  /\ landing.active => landCalls = landing.requests
  /\ machine.state \in Flight \ {"LAND"} => landCalls = 0
  /\ AutoLandCallsBounded

\* No tick that reaches an AUTO.LAND request has one sent against a manual mode
\* behind it: the check at its start was passed on another report.
OverruledFresh ==
  /\ ~ManualMode(fcu) \/ pc # "idle" \/ machine.state \in Flight \ {"LAND"}
       => overruled = 0
  /\ PilotOverruledOnce

IInv ==
  /\ TypeOK
  /\ ActiveMatchesState
  /\ ResultMatchesState
  /\ FlightHasDriver
  /\ LandingMatchesState
  /\ TimerMatchesState
  /\ CallsMatchRequests

-----------------------------------------------------------------------------
(* Action properties.                                                      *)

\* A landing is confirmed only if the aircraft has been on the ground since
\* the confirmation began - or enough samples for it were already under way
\* then.  An ON_GROUND that was cached and counted before never speaks for it.
LandedMeansGrounded ==
  [][pc = "land" /\ machine.state # "COMPLETE" /\ machine'.state = "COMPLETE"
     => grounded \/ flooded]_vars

\* Commands leave the node only while the mission flies the aircraft; after
\* the end, a takeover or a restart the FCU hears nothing from it.
CommandsOnlyWhileFlying ==
  [][cmd' \notin {cmd, "none"} => machine'.state \in Commanding]_vars

\* While the FCU reports a manual mode the mission requests neither OFFBOARD
\* nor AUTO.LAND (guards.py) - except for the first AUTO.LAND request of a tick
\* that gives up waiting for OFFBOARD: in that window the timer does not check
\* the mode.
PilotKeepsControl ==
  [][cmd' \in {"OFFBOARD", "AUTO.LAND"} /\ cmd' # cmd
     => ~ManualMode(fcu) \/ (driver = "await_offboard" /\ landing.requests = 0)]_vars

-----------------------------------------------------------------------------
(* Liveness.                                                               *)

\* A started mission ends by itself (README of the package, mission flow).
MissionEnds == machine.state \in Commanding ~> machine.state = "COMPLETE"

\* It does so in every behaviour in which no stale report is taken for the
\* confirmation of AUTO.LAND.
GenuineConfirmations == [](landing.confirmed => px4.mode = "AUTO.LAND")
MissionEndsOnceConfirmed == GenuineConfirmations => MissionEnds
=============================================================================
