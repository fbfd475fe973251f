-------------------------- MODULE MissionNode_proofs --------------------------
(***************************************************************************)
(* Proofs about MissionNode, for every configuration and every set of      *)
(* faults: the inductive invariant IInv and the invariants it implies; the *)
(* setpoint stream of a descent; that the pilot is overruled once at most; *)
(* what a confirmed landing is worth; and the implementation of            *)
(* MissionLifecycle.                                                       *)
(***************************************************************************)
EXTENDS MissionNode, TLAPS

\* What every method of the machine preserves: its type, and the agreement of
\* the active flag and of the result with the state.
ResultFits(m) ==
  CASE m.state \in PreStart \cup Flight -> m.result = "none"
    [] m.state = "ABORT_LAND"           -> m.result = "aborted"
    [] m.state = "COMPLETE" -> m.result \in {"aborted", "safe", "takeover"}
    [] m.state = "ERROR"    -> m.result = "invalid"

MachineOK(m) ==
  /\ m \in Machine
  /\ m.active <=> m.state \in Commanding
  /\ ResultFits(m)

-----------------------------------------------------------------------------
(* The methods of the machine.                                             *)

\* The first boot of a process ends in WAIT_READY or ERROR.
LEMMA BootMachine ==
  ASSUME NEW ok \in BOOLEAN, NEW m, MachineOK(m), m.state = "BOOT"
  PROVE  /\ MachineOK(HandleBootParams(m, ok))
         /\ HandleBootParams(m, ok).state = IF ok THEN "WAIT_READY" ELSE "ERROR"
  BY DEF MachineOK, ResultFits, HandleBootParams, SetResult, Enter, Machine, MissionState,
         MissionResult, PreStart, Flight, Terminal, Commanding

LEMMA NewMachineOK == MachineOK(NewMachine) /\ NewMachine.state = "BOOT"
  BY DEF MachineOK, ResultFits, NewMachine, Machine, MissionState, MissionResult, PreStart,
         Flight, Terminal, Commanding

\* The preconditions move the machine between WAIT_READY and WAIT_START only.
LEMMA PreconditionsMachine ==
  ASSUME NEW ok \in BOOLEAN, NEW m, MachineOK(m), m.state \in PreStart
  PROVE  /\ MachineOK(HandlePreconditions(m, ok))
         /\ HandlePreconditions(m, ok).state \in PreStart
         /\ HandlePreconditions(m, ok).result = m.result
         /\ m.state = "BOOT" <=> HandlePreconditions(m, ok).state = "BOOT"
  BY DEF MachineOK, ResultFits, HandlePreconditions, Machine, MissionState, MissionResult,
         PreStart, Flight, Terminal, Commanding

LEMMA StartMachine ==
  ASSUME NEW m, MachineOK(m), StartAccepted(m)
  PROVE  MachineOK(RequestStart(m)) /\ RequestStart(m).state = "TAKEOFF"
  BY DEF MachineOK, ResultFits, StartAccepted, RequestStart, ClearResult, Enter, Machine,
         MissionState, MissionResult, PreStart, Flight, Terminal, Commanding

\* An abort in flight ends in ABORT_LAND with the cause "aborted".
LEMMA AbortMachine ==
  ASSUME NEW m, MachineOK(m), m.state \in Flight
  PROVE  MachineOK(Abort(m)) /\ Abort(m).state = "ABORT_LAND"
  BY DEF MachineOK, ResultFits, Abort, SetResult, Enter, Machine, MissionState,
         MissionResult, PreStart, Flight, Terminal, Commanding

LEMMA StopMachine ==
  ASSUME NEW m, MachineOK(m)
  PROVE  /\ MachineOK(RequestStop(m))
         /\ m.state \in Flight => RequestStop(m).state = "ABORT_LAND"
         /\ m.state \notin Flight => RequestStop(m).result = m.result
         /\ m.state = "WAIT_START" => RequestStop(m).state = "WAIT_READY"
         /\ m.state \notin Flight \cup {"WAIT_START"} => RequestStop(m) = m
  <1>1. CASE m.state \in Flight
    BY <1>1, AbortMachine DEF RequestStop, Flight
  <1>2. CASE m.state \notin Flight
    BY <1>2 DEF MachineOK, ResultFits, RequestStop, Enter, Machine, MissionState,
                MissionResult, PreStart, Flight, Terminal, Commanding
  <1> QED BY <1>1, <1>2

LEMMA ResetMachine ==
  ASSUME NEW m, MachineOK(m), ResetAccepted(m)
  PROVE  /\ MachineOK(RequestReset(m))
         /\ RequestReset(m).state \notin Commanding
         /\ m.state = "COMPLETE" => RequestReset(m).state = "WAIT_READY"
         /\ m.state = "ERROR" => RequestReset(m).state = "BOOT"
         /\ m.state \notin {"COMPLETE", "ERROR"} => RequestReset(m) = m
  BY DEF MachineOK, ResultFits, ResetAccepted, RequestReset, ClearResult, Enter, Machine,
         MissionState, MissionResult, PreStart, Flight, Terminal, Commanding

\* A stage that is done leads to the next one, LAND to COMPLETE.
LEMMA StageDoneMachine ==
  ASSUME NEW m, MachineOK(m), m.state \in Flight
  PROVE  /\ MachineOK(StageDone(m))
         /\ m.state = "LAND" =>
              StageDone(m).state = "COMPLETE" /\ StageDone(m).result = "safe"
         /\ m.state # "LAND" => StageDone(m).state \in Flight
  <1>1. CASE m.state = "LAND"
    BY <1>1 DEF MachineOK, ResultFits, StageDone, SetResult, Enter, Machine,
                MissionState, MissionResult, PreStart, Flight, Terminal, Commanding
  <1>2. CASE m.state # "LAND"
    <2>1. NextStage[m.state] \in Flight
      BY <1>2 DEF NextStage, Flight
    <2>2. StageDone(m) = [m EXCEPT !.state = NextStage[m.state]]
      BY <1>2 DEF StageDone, Enter
    <2> QED BY <1>2, <2>1, <2>2 DEF MachineOK, ResultFits, Machine, MissionState,
               MissionResult, PreStart, Flight, Terminal, Commanding
  <1> QED BY <1>1, <1>2

LEMMA SkipMachine ==
  ASSUME NEW m, MachineOK(m), m.state \in Flight
  PROVE  MachineOK(SkipToReturn(m)) /\ SkipToReturn(m).state = "RETURN"
  BY DEF MachineOK, ResultFits, SkipToReturn, Enter, Machine, MissionState, MissionResult,
         PreStart, Flight, Terminal, Commanding

LEMMA LandedMachine ==
  ASSUME NEW m, MachineOK(m), m.state = "ABORT_LAND"
  PROVE  /\ MachineOK(ConfirmLanded(m))
         /\ ConfirmLanded(m).state = "COMPLETE"
         /\ ConfirmLanded(m).result = m.result
  BY DEF MachineOK, ResultFits, ConfirmLanded, SetResult, Enter, Machine, MissionState,
         MissionResult, PreStart, Flight, Terminal, Commanding

LEMMA TakeoverMachine ==
  ASSUME NEW m, MachineOK(m), m.state \in Commanding
  PROVE  /\ MachineOK(ConfirmManualTakeover(m))
         /\ ConfirmManualTakeover(m).state = "COMPLETE"
         /\ ConfirmManualTakeover(m).result =
              IF m.result = "none" THEN "takeover" ELSE m.result
  BY DEF MachineOK, ResultFits, ConfirmManualTakeover, SetResult, Enter, Machine,
         MissionState, MissionResult, PreStart, Flight, Terminal, Commanding

-----------------------------------------------------------------------------
(* The landing context and the invariant.                                  *)

\* A landing that begins is active and starts counting its requests, one
\* that runs already is left alone.
LEMMA BeginLandingContext ==
  ASSUME NEW l \in Landing
  PROVE  /\ BeginLanding(l) \in Landing
         /\ BeginLanding(l).active
         /\ BeginLanding(l).requests = IF l.active THEN l.requests ELSE 0
  <1>1. CASE l.active
    BY <1>1 DEF BeginLanding
  <1>2. CASE ~l.active
    <2>1. BeginLanding(l) = [active |-> TRUE, requests |-> 0, confirmed |-> FALSE,
                             reported |-> FALSE, gate |-> GateReset]
      BY <1>2 DEF BeginLanding, NoLanding
    <2>2. GateReset \in Gate /\ 0 \in 0..ModeRetryCount
      BY ConfigAssumption DEF Gate, GateReset
    <2> QED BY <1>2, <2>1, <2>2 DEF Landing
  <1> QED BY <1>1, <1>2

LEMMA NoLandingContext == NoLanding \in Landing /\ ~NoLanding.active
  BY ConfigAssumption DEF Landing, NoLanding, Gate, GateReset

\* The gate stays a gate.
LEMMA GateTypes ==
  ASSUME NEW g \in Gate, NEW valid \in BOOLEAN
  PROVE  GateSample(g) \in Gate /\ GateObserve(g, valid) \in Gate /\ GateBegin \in Gate
  <1>1. GateSample(g) \in Gate
    BY DEF Gate, GateSample
  <1>2. GateObserve(g, valid) \in Gate
    <2>1. (IF valid THEN g.count + 1 ELSE 0) \in Nat
      BY DEF Gate
    <2> QED BY <2>1 DEF Gate, GateObserve
  <1> QED BY <1>1, <1>2 DEF Gate, GateBegin

LEMMA BeginGateContext ==
  ASSUME NEW l \in Landing
  PROVE  /\ BeginGate(l) \in Landing
         /\ BeginGate(l).active = l.active
         /\ BeginGate(l).requests = l.requests
  BY DEF BeginGate, Landing, GateBegin, Gate

\* The two machine invariants together are MachineOK.
LEMMA MachineInvariants ==
  machine \in Machine =>
    (MachineOK(machine) <=> ActiveMatchesState /\ ResultMatchesState)
  BY DEF MachineOK, ResultFits, ActiveMatchesState, ResultMatchesState

LEMMA MachineInvariantsNext ==
  machine' \in Machine =>
    (MachineOK(machine') <=> ActiveMatchesState' /\ ResultMatchesState')
  BY DEF MachineOK, ResultFits, ActiveMatchesState, ResultMatchesState

\* The history variables that no conjunct of IInv looks at.
HistoryTypes == overruled \in Nat /\ grounded \in BOOLEAN /\ flooded \in BOOLEAN

\* What remains of IInv once the machine is dealt with.
NodeOK ==
  /\ TypeOK
  /\ FlightHasDriver
  /\ LandingMatchesState
  /\ TimerMatchesState
  /\ CallsMatchRequests

LEMMA InvariantParts == IInv <=> MachineOK(machine) /\ NodeOK
  BY MachineInvariants DEF IInv, NodeOK, TypeOK, MachineOK

LEMMA InvariantPartsNext == IInv' <=> MachineOK(machine') /\ NodeOK'
  BY MachineInvariantsNext DEF IInv, NodeOK, TypeOK, MachineOK

-----------------------------------------------------------------------------
(* Init, restart and the services.                                         *)

LEMMA BootedMachine ==
  ASSUME NEW load
  PROVE  /\ MachineOK(Booted(load))
         /\ Booted(load).state = IF load = "valid" THEN "WAIT_READY" ELSE "ERROR"
  BY BootMachine, NewMachineOK DEF Booted

LEMMA EmptyQueue == <<>> \in Seq({"GROUND", "AIR"}) /\ Len(<<>>) <= QueueSize
  BY ConfigAssumption

LEMMA InitInvariant == Init => IInv
  <1> SUFFICES ASSUME Init PROVE IInv
    OBVIOUS
  <1>1. PICK load \in FirstBoot : loaded = (load = "valid") /\ machine = Booted(load)
    BY DEF Init
  <1>2. MachineOK(machine) /\ machine.state \in {"WAIT_READY", "ERROR"}
    BY <1>1, BootedMachine
  <1>3. TypeOK
    <2>1. px4 \in Px4
      BY DEF Init, Mode, Px4
    <2>2. /\ wire \in Seq({"GROUND", "AIR"}) /\ Len(wire) <= QueueSize
          /\ driver \in DriverStep \cup {"absent"} /\ fcu \in Report \cup {NoReport}
      BY EmptyQueue DEF Init
    <2> QED BY <1>1, <1>2, <2>1, <2>2, NoLandingContext DEF Init, TypeOK, MachineOK
  <1>4. NodeOK
    BY <1>2, <1>3, NoLandingContext, ConfigAssumption
    DEF Init, NodeOK, FlightHasDriver, LandingMatchesState, TimerMatchesState,
        CallsMatchRequests, AutoLandCallsBounded, Commanding, Flight, Descending
  <1> QED BY <1>2, <1>4, InvariantParts

LEMMA RestartInvariant == ASSUME IInv, Restart PROVE IInv'
  <1>1. PICK load \in FirstBoot : loaded' = (load = "valid") /\ machine' = Booted(load)
    BY DEF Restart
  <1>2. MachineOK(machine') /\ machine'.state \in {"WAIT_READY", "ERROR"}
    BY <1>1, BootedMachine
  <1>3. TypeOK'
    <2>1. /\ wire' \in Seq({"GROUND", "AIR"}) /\ Len(wire') <= QueueSize
          /\ driver' \in DriverStep \cup {"absent"} /\ fcu' \in Report \cup {NoReport}
      BY EmptyQueue DEF Restart
    <2> QED BY <1>1, <1>2, <2>1, NoLandingContext DEF Restart, IInv, TypeOK, MachineOK
  <1>4. NodeOK'
    BY <1>2, <1>3, NoLandingContext, ConfigAssumption
    DEF Restart, NodeOK, FlightHasDriver, LandingMatchesState, TimerMatchesState,
        CallsMatchRequests, AutoLandCallsBounded, Commanding, Flight, Descending
  <1> QED BY <1>2, <1>4, InvariantPartsNext

\* The preconditions are evaluated in a state before the start only.
LEMMA EvaluatedMachine ==
  ASSUME MachineOK(machine), NEW others \in BOOLEAN
  PROVE  /\ MachineOK(Evaluated(others))
         /\ Evaluated(others).state = machine.state
              \/ {machine.state, Evaluated(others).state} \subseteq {"WAIT_READY", "WAIT_START"}
         /\ Evaluated(others).result = machine.result
  <1>1. Preconditions(others) \in BOOLEAN
    BY DEF Preconditions
  <1>2. CASE machine.state \in PreStart
    BY <1>1, <1>2, PreconditionsMachine DEF Evaluated, PreStart
  <1>3. CASE machine.state \notin PreStart
    BY <1>3 DEF Evaluated
  <1> QED BY <1>2, <1>3

\* A service that changes the machine, but neither enters nor leaves a
\* flying state, keeps the rest of the invariant.
LEMMA GroundStep ==
  ASSUME IInv, LockFree, MachineOK(machine'),
         machine.state = machine'.state
           \/ {machine.state, machine'.state} \cap Commanding = {},
         UNCHANGED <<loaded, driver, landing, pc, setpoint, cacheVars, fcuVars, history>>
  PROVE  IInv'
  <1>1. TypeOK'
    BY DEF IInv, TypeOK, MachineOK, cacheVars, fcuVars, history
  <1>2. CASE machine'.state = machine.state
    BY <1>1, <1>2, InvariantPartsNext
    DEF IInv, NodeOK, FlightHasDriver, LandingMatchesState, TimerMatchesState,
        CallsMatchRequests, AutoLandCallsBounded, history
  <1>3. CASE {machine.state, machine'.state} \cap Commanding = {}
    <2>1. machine.state \notin Commanding /\ machine'.state \notin Commanding
      BY <1>3
    <2> QED BY <1>1, <2>1, InvariantPartsNext
            DEF IInv, NodeOK, FlightHasDriver, LandingMatchesState, TimerMatchesState,
                CallsMatchRequests, AutoLandCallsBounded, Commanding, Flight, Descending,
                LockFree, history
  <1> QED BY <1>2, <1>3

LEMMA StartWithoutFlightInvariant ==
  ASSUME IInv, NEW others \in BOOLEAN, NEW released \in BOOLEAN,
         StartWithoutFlight(others, released)
  PROVE  IInv'
  <1>1. MachineOK(machine)
    BY InvariantParts
  <1> QED BY <1>1, EvaluatedMachine, GroundStep
          DEF StartWithoutFlight, Commanding, Flight

LEMMA StatusTimerInvariant ==
  ASSUME IInv, NEW others \in BOOLEAN, StatusTimer(others)
  PROVE  IInv'
  <1>1. MachineOK(machine)
    BY InvariantParts
  <1> QED BY <1>1, EvaluatedMachine, GroundStep DEF StatusTimer, Commanding, Flight

LEMMA StartFlightInvariant ==
  ASSUME IInv, NEW others \in BOOLEAN, NEW released \in BOOLEAN,
         StartFlight(others, released)
  PROVE  IInv'
  <1>1. MachineOK(machine') /\ machine'.state = "TAKEOFF"
    BY InvariantParts, EvaluatedMachine, StartMachine DEF StartFlight, FlightAccepted
  <1>2. machine.state \in PreStart
    BY InvariantParts, EvaluatedMachine
    DEF StartFlight, FlightAccepted, StartAccepted, PreStart
  <1>3. NodeOK'
    BY <1>1, <1>2, ConfigAssumption
    DEF StartFlight, IInv, NodeOK, TypeOK, MachineOK, FlightHasDriver,
        LandingMatchesState, TimerMatchesState, CallsMatchRequests,
        AutoLandCallsBounded, Commanding, Flight, Descending, PreStart, DriverStep,
        LockFree, cacheVars, fcuVars
  <1> QED BY <1>1, <1>3, InvariantPartsNext

LEMMA StopInvariant == ASSUME IInv, Stop PROVE IInv'
  <1>1. MachineOK(machine) /\ MachineOK(machine')
    BY InvariantParts, StopMachine DEF Stop
  <1>2. CASE machine.state \in Flight
    <2>1. machine'.state = "ABORT_LAND" /\ landing' = BeginLanding(landing)
      BY <1>1, <1>2, StopMachine DEF Stop
    <2>2. TypeOK'
      BY <1>1, <2>1, BeginLandingContext
      DEF Stop, IInv, TypeOK, MachineOK, cacheVars, fcuVars, history
    <2>3. NodeOK'
      BY <1>2, <2>1, <2>2, BeginLandingContext
      DEF Stop, IInv, NodeOK, TypeOK, FlightHasDriver, LandingMatchesState,
          TimerMatchesState, CallsMatchRequests, AutoLandCallsBounded, Commanding,
          Flight, Descending, LockFree, history
    <2> QED BY <1>1, <2>3, InvariantPartsNext
  <1>3. CASE machine.state \notin Flight
    <2>1. machine'.state = machine.state
            \/ {machine.state, machine'.state} \subseteq {"WAIT_START", "WAIT_READY"}
      BY <1>1, <1>3, StopMachine DEF Stop
    <2>2. landing' = landing
      <3>1. machine'.state = "ABORT_LAND" => landing.active
        BY <1>1, <2>1 DEF IInv, LandingMatchesState, Descending
      <3> QED BY <3>1 DEF Stop, BeginLanding
    <2>3. machine.state = machine'.state \/ {machine.state, machine'.state} \cap Commanding = {}
      BY <2>1 DEF Commanding, Flight
    <2> QED BY <1>1, <2>2, <2>3, GroundStep DEF Stop
  <1> QED BY <1>2, <1>3

LEMMA ResetInvariant ==
  ASSUME IInv, NEW load \in LoadOutcome, Reset(load)
  PROVE  IInv'
  <1> DEFINE m == RequestReset(machine)
  <1>1. MachineOK(m) /\ m.state \notin Commanding
    BY InvariantParts, ResetMachine DEF Reset
  <1>2. landing' = NoLanding /\ driver' = "absent"
    BY DEF Reset, Boot
  <1>3. MachineOK(machine') /\ machine'.state \notin Commanding
    <2>1. CASE m.state = "BOOT"
      <3>1. machine' = m \/ machine' = HandleBootParams(m, TRUE)
                        \/ machine' = HandleBootParams(m, FALSE)
        BY <2>1 DEF Reset, Boot
      <3> QED BY <1>1, <2>1, <3>1, BootMachine DEF Commanding, Flight
    <2>2. CASE m.state # "BOOT"
      BY <1>1, <2>2 DEF Reset
    <2> QED BY <2>1, <2>2
  <1>4. TypeOK'
    <2>1. loaded' \in BOOLEAN
      BY DEF Reset, Boot, IInv, TypeOK
    <2> QED BY <1>2, <1>3, <2>1, NoLandingContext
            DEF Reset, IInv, TypeOK, MachineOK, cacheVars, fcuVars
  <1>5. NodeOK'
    BY <1>2, <1>3, <1>4, NoLandingContext, ConfigAssumption
    DEF Reset, IInv, NodeOK, FlightHasDriver, LandingMatchesState, TimerMatchesState,
        CallsMatchRequests, AutoLandCallsBounded, Commanding, Flight, Descending,
        LockFree
  <1> QED BY <1>3, <1>5, InvariantPartsNext

\* Ending a flight by a takeover, whoever notices it.
LEMMA TakeoverStep ==
  ASSUME IInv, machine.state \in Commanding,
         machine' = ConfirmManualTakeover(machine), landing' = NoLanding,
         pc' = "idle", setpoint' \in BOOLEAN,
         UNCHANGED <<loaded, driver, cacheVars, fcuVars, history>>
  PROVE  IInv'
  <1>1. MachineOK(machine') /\ machine'.state = "COMPLETE"
    BY InvariantParts, TakeoverMachine
  <1>2. TypeOK'
    BY <1>1, NoLandingContext
    DEF IInv, TypeOK, MachineOK, cacheVars, fcuVars, history
  <1>3. NodeOK'
    BY <1>1, <1>2, NoLandingContext
    DEF IInv, NodeOK, FlightHasDriver, LandingMatchesState, TimerMatchesState,
        CallsMatchRequests, AutoLandCallsBounded, Commanding, Flight, Descending, history
  <1> QED BY <1>1, <1>3, InvariantPartsNext

LEMMA ManualTakeoverInvariant == ASSUME IInv, ManualTakeover PROVE IInv'
  BY TakeoverStep DEF ManualTakeover, LockFree, IInv, TypeOK

-----------------------------------------------------------------------------
(* The flight timer.                                                       *)

\* The timer goes on to a place its state allows and changes nothing else.
LEMMA TimerStep ==
  ASSUME IInv, pc' \in {"idle", "tick", "health", "stage", "land"},
         setpoint' \in BOOLEAN, TimerMatchesState',
         UNCHANGED <<machine, loaded, driver, landing, cacheVars, fcuVars, history>>
  PROVE  IInv'
  <1>1. MachineOK(machine')
    BY InvariantParts
  <1>2. TypeOK'
    BY DEF IInv, TypeOK, cacheVars, fcuVars, history
  <1> QED BY <1>1, <1>2, InvariantPartsNext
          DEF IInv, NodeOK, FlightHasDriver, LandingMatchesState, CallsMatchRequests,
              AutoLandCallsBounded, history

LEMMA TimerStartsInvariant == ASSUME IInv, TimerStarts PROVE IInv'
  <1>1. CASE ManualMode(fcu) /\ ~AwaitingOffboard /\ ModeTakeover
    BY <1>1, TakeoverStep DEF TimerStarts, ModeTakeover
  <1>2. CASE ~(ManualMode(fcu) /\ ~AwaitingOffboard /\ ModeTakeover)
    <2>1. pc' \in {"idle", "tick", "land"} /\ setpoint' \in BOOLEAN /\ TimerMatchesState'
      BY <1>2 DEF TimerStarts, AfterDriver, TimerMatchesState
    <2> QED BY <1>2, <2>1, TimerStep DEF TimerStarts
  <1> QED BY <1>1, <1>2

LEMMA TickChecksModeInvariant == ASSUME IInv, TickChecksMode PROVE IInv'
  <1>1. machine.state \in Commanding /\ setpoint' \in BOOLEAN
    BY DEF TickChecksMode, IInv, TypeOK, TimerMatchesState, Commanding
  <1>2. CASE ManualMode(fcu) /\ ~AwaitingOffboard /\ ModeTakeover
    BY <1>1, <1>2, TakeoverStep DEF TickChecksMode, ModeTakeover
  <1>3. CASE ~(ManualMode(fcu) /\ ~AwaitingOffboard /\ ModeTakeover)
    <2>1. pc' = "health" /\ TimerMatchesState'
      BY <1>3 DEF TickChecksMode, IInv, TimerMatchesState
    <2> QED BY <1>1, <1>3, <2>1, TimerStep DEF TickChecksMode
  <1> QED BY <1>2, <1>3

\* An abort of the driver: the landing begins, or goes on with its count.
LEMMA AbortStep ==
  ASSUME IInv, machine.state \in Flight, AbortFlight,
         setpoint' \in BOOLEAN, cmd' \in {cmd, "OFFBOARD"},
         px4' \in Px4, UNCHANGED wire
  PROVE  IInv'
  <1>1. MachineOK(machine') /\ machine'.state = "ABORT_LAND"
    BY InvariantParts, AbortMachine DEF AbortFlight
  <1>2. TypeOK'
    BY <1>1, BeginLandingContext
    DEF AbortFlight, IInv, TypeOK, MachineOK, cacheVars, history
  <1>3. NodeOK'
    BY <1>1, <1>2, BeginLandingContext
    DEF AbortFlight, IInv, NodeOK, TypeOK, FlightHasDriver, LandingMatchesState,
        TimerMatchesState, CallsMatchRequests, AutoLandCallsBounded, Commanding, Flight,
        Descending, history
  <1> QED BY <1>1, <1>3, InvariantPartsNext

LEMMA TickChecksHealthInvariant == ASSUME IInv, TickChecksHealth PROVE IInv'
  <1>1. machine.state \in Flight /\ setpoint' \in BOOLEAN
    BY DEF TickChecksHealth, IInv, TypeOK, TimerMatchesState
  <1>2. CASE AbortFlight
    BY <1>1, <1>2, AbortStep DEF TickChecksHealth, fcuVars, IInv, TypeOK
  <1>3. CASE ~AbortFlight
    <2>1. pc' = "stage" /\ UNCHANGED <<machine, loaded, driver, landing, cacheVars, history>>
      BY <1>3 DEF TickChecksHealth
    <2>2. TimerMatchesState'
      BY <1>1, <2>1 DEF TimerMatchesState
    <2> QED BY <1>1, <2>1, <2>2, TimerStep DEF TickChecksHealth
  <1> QED BY <1>2, <1>3

\* The end of a stage: the next one, or the landing.
LEMMA AdvanceStep ==
  ASSUME IInv, machine.state \in Flight \ {"LAND"}, Advance,
         setpoint' \in BOOLEAN, UNCHANGED <<cmd, px4, wire>>
  PROVE  IInv'
  <1>1. MachineOK(machine') /\ machine'.state \in Flight
    BY InvariantParts, StageDoneMachine, SkipMachine DEF Advance, NextStageOf, Flight
  <1>2. driver' = "prestream" /\ loaded' = loaded /\ UNCHANGED <<cacheVars, history>>
    BY DEF Advance, NextStageOf
  <1>3. /\ landing' = IF machine'.state = "LAND" THEN BeginLanding(landing) ELSE landing
        /\ pc' = IF machine'.state \in Descending THEN "land" ELSE "idle"
    BY DEF Advance, NextStageOf, AfterDriver
  <1>4. TypeOK'
    BY <1>1, <1>2, <1>3, BeginLandingContext
    DEF IInv, TypeOK, MachineOK, DriverStep, cacheVars, history
  <1>5. ~landing.active /\ landCalls = 0
    BY DEF IInv, LandingMatchesState, CallsMatchRequests, Descending, Flight
  <1>6. NodeOK'
    BY <1>1, <1>2, <1>3, <1>4, <1>5, BeginLandingContext
    DEF IInv, NodeOK, TypeOK, FlightHasDriver, LandingMatchesState, TimerMatchesState,
        CallsMatchRequests, AutoLandCallsBounded, Commanding, Flight, Descending, history
  <1> QED BY <1>1, <1>6, InvariantPartsNext

\* A stage that goes on.
LEMMA ContinueStep ==
  ASSUME IInv, machine.state \in Flight, NEW step \in DriverStep, Continue(step),
         setpoint' \in BOOLEAN, cmd' \in {cmd, "OFFBOARD"},
         px4' \in Px4, UNCHANGED wire
  PROVE  IInv'
  <1>1. MachineOK(machine')
    BY InvariantParts DEF Continue
  <1>2. TypeOK'
    BY DEF Continue, IInv, TypeOK, DriverStep, cacheVars, history
  <1>3. NodeOK'
    BY <1>2
    DEF Continue, IInv, NodeOK, FlightHasDriver, LandingMatchesState, TimerMatchesState,
        CallsMatchRequests, AutoLandCallsBounded, DriverStep, history
  <1> QED BY <1>1, <1>3, InvariantPartsNext

\* In a flight the driver is at one of its steps.
LEMMA DriverPresent ==
  ASSUME IInv, machine.state \in Flight
  PROVE  driver \in DriverStep
  BY DEF IInv, TypeOK, FlightHasDriver, Commanding

LEMMA TickRunsStageInvariant == ASSUME IInv, TickRunsStage PROVE IInv'
  <1>1. machine.state \in Flight /\ setpoint \in BOOLEAN /\ px4 \in Px4 /\ UNCHANGED wire
    BY DEF TickRunsStage, IInv, TypeOK, TimerMatchesState
  <1>2. CASE AbortFlight /\ UNCHANGED <<setpoint, cmd, px4>>
    BY <1>1, <1>2, AbortStep
  <1>3. CASE machine.state = "TAKEOFF" /\ StageTakeoff
    <2>1. /\ setpoint' = TRUE
          /\ cmd' \in {cmd, "OFFBOARD"}
          /\ px4' \in {px4, [px4 EXCEPT !.armed = TRUE]}
          /\ \/ \E step \in DriverStep : Continue(step)
             \/ AbortFlight
             \/ Advance /\ UNCHANGED <<cmd, px4>>
      BY <1>1, <1>3, DriverPresent
      DEF StageTakeoff, TakeoffRequestsOffboard, TakeoffSeesOffboard, TakeoffRequestsArm,
          TakeoffSeesArmed, TakeoffReached, TakeoffWaits, Request, DriverStep
    <2>2. px4' \in Px4
      BY <1>1, <2>1 DEF Px4
    <2> QED BY <1>1, <1>3, <2>1, <2>2, ContinueStep, AbortStep, AdvanceStep
  <1>4. CASE machine.state = "LAND" /\ StageLand
    <2>1. landing' = landing
      BY <1>4 DEF StageLand, BeginLanding, IInv, LandingMatchesState, Descending
    <2>2. pc' = "land" /\ TimerMatchesState'
      BY <1>4 DEF StageLand, TimerMatchesState, Descending
    <2> QED BY <1>1, <1>4, <2>1, <2>2, TimerStep DEF StageLand, fcuVars
  <1>5. CASE machine.state \notin {"TAKEOFF", "LAND"} /\ StageEnRoute
    <2>1. setpoint' \in BOOLEAN /\ UNCHANGED <<cmd, px4>> /\ (Continue(driver) \/ Advance \/ AbortFlight)
      BY <1>5 DEF StageEnRoute
    <2> QED BY <1>1, <1>5, <2>1, ContinueStep, AbortStep, AdvanceStep, DriverPresent
  <1> QED BY <1>2, <1>3, <1>4, <1>5 DEF TickRunsStage

-----------------------------------------------------------------------------
(* The landing.                                                            *)

\* Looking at the landing timeout keeps the context and the machine in order.
LEMMA LandingTimeoutStep ==
  ASSUME IInv, machine.state \in Descending,
         NEW l \in Landing, NEW late \in BOOLEAN, LandingTimeout(l, late)
  PROVE  /\ MachineOK(machine')
         /\ machine'.state \in Descending
         /\ landing' \in Landing
         /\ landing'.active = l.active
         /\ landing'.requests = l.requests
  <1>1. /\ landing' = l \/ landing' = [l EXCEPT !.reported = TRUE]
        /\ machine' = machine \/ (machine.state = "LAND" /\ machine' = Abort(machine))
    BY DEF LandingTimeout
  <1>2. MachineOK(machine') /\ machine'.state \in Descending
    BY <1>1, InvariantParts, AbortMachine DEF Descending, Flight
  <1>3. landing' \in Landing /\ landing'.active = l.active /\ landing'.requests = l.requests
    BY <1>1 DEF Landing
  <1> QED BY <1>2, <1>3

\* One step of a landing that is not over yet.
LEMMA LandingStep ==
  ASSUME IInv, pc = "land", NEW l \in Landing, l.active, NEW late \in BOOLEAN,
         LandingTimeout(l, late),
         landCalls' = l.requests, HistoryTypes', setpoint' \in BOOLEAN,
         cmd' \in {cmd, "AUTO.LAND"}, pc' = "idle",
         UNCHANGED <<loaded, driver, cacheVars, px4, wire>>
  PROVE  IInv'
  <1>1. machine.state \in Descending
    BY DEF IInv, TimerMatchesState
  <1>2. /\ MachineOK(machine') /\ machine'.state \in Descending
        /\ landing' \in Landing /\ landing'.active /\ landing'.requests = l.requests
    BY <1>1, LandingTimeoutStep
  <1>3. l.requests \in 0..ModeRetryCount
    BY DEF Landing
  <1>4. TypeOK'
    BY <1>2, <1>3, ConfigAssumption
    DEF IInv, TypeOK, HistoryTypes, MachineOK, cacheVars
  <1>5. NodeOK'
    BY <1>1, <1>2, <1>3, <1>4, ConfigAssumption
    DEF IInv, NodeOK, FlightHasDriver, LandingMatchesState, TimerMatchesState,
        CallsMatchRequests, AutoLandCallsBounded, Commanding, Flight, Descending
  <1> QED BY <1>2, <1>5, InvariantPartsNext

\* A confirmed landing ends the flight.
LEMMA LandedStep ==
  ASSUME IInv, pc = "land", machine' = ConfirmLanding(machine), landing' = NoLanding,
         HistoryTypes', pc' = "idle",
         UNCHANGED <<loaded, driver, setpoint, cacheVars, px4, wire, cmd, landCalls>>
  PROVE  IInv'
  <1>1. machine.state \in Descending
    BY DEF IInv, TimerMatchesState
  <1>2. MachineOK(machine') /\ machine'.state = "COMPLETE"
    BY <1>1, InvariantParts, StageDoneMachine, LandedMachine
    DEF ConfirmLanding, Descending, Flight
  <1>3. TypeOK'
    BY <1>2, NoLandingContext DEF IInv, TypeOK, HistoryTypes, MachineOK, cacheVars
  <1>4. NodeOK'
    BY <1>2, <1>3, NoLandingContext
    DEF IInv, NodeOK, FlightHasDriver, LandingMatchesState, TimerMatchesState,
        CallsMatchRequests, AutoLandCallsBounded, Commanding, Flight, Descending
  <1> QED BY <1>2, <1>4, InvariantPartsNext

LEMMA DriveLandingInvariant ==
  ASSUME IInv, NEW fresh \in BOOLEAN, NEW due \in BOOLEAN, NEW late \in BOOLEAN,
         NEW steady \in BOOLEAN, DriveLanding(fresh, due, late, steady)
  PROVE  IInv'
  <1> DEFINE begun == BeginLanding(landing)
  <1> DEFINE l == [begun EXCEPT !.confirmed =
                     begun.confirmed \/ (fresh /\ fcu.mode = "AUTO.LAND")]
  <1>1. landing.active /\ landing \in Landing /\ begun = landing
    BY DEF DriveLanding, IInv, TypeOK, TimerMatchesState, LandingMatchesState, BeginLanding
  <1>2. l \in Landing /\ l.active /\ l.requests = landing.requests
    BY <1>1 DEF Landing
  <1>3. landCalls = l.requests
    BY <1>1, <1>2 DEF IInv, CallsMatchRequests
  <1>4. /\ pc = "land" /\ pc' = "idle" /\ UNCHANGED <<loaded, driver, cacheVars, px4, wire>>
        /\ setpoint \in BOOLEAN /\ HistoryTypes
    BY DEF DriveLanding, IInv, TypeOK, HistoryTypes
  <1>4a. MarkBegin(l) => grounded' \in BOOLEAN /\ flooded' \in BOOLEAN
    BY <1>4 DEF MarkBegin, HistoryTypes
  <1>5. CASE SeekAutoLand(l, due, late)
    <2>1. CASE MayRequest(l, due)
      <3> DEFINE m == [BeginGate(l) EXCEPT !.requests = l.requests + 1]
      <3>1. l.requests + 1 \in 0..ModeRetryCount
        BY <1>2, <2>1, ConfigAssumption DEF Landing, MayRequest
      <3>2. m \in Landing /\ m.active /\ m.requests = l.requests + 1
        BY <1>2, <3>1, BeginGateContext DEF Landing
      <3>3. LandingTimeout(m, late) /\ landCalls' = m.requests /\ setpoint' = TRUE
        BY <1>3, <1>5, <2>1, <3>2 DEF SeekAutoLand
      <3>4. HistoryTypes' /\ cmd' \in {cmd, "AUTO.LAND"}
        BY <1>4, <1>4a, <1>5, <2>1 DEF SeekAutoLand, HistoryTypes, Bit, Request
      <3> HIDE DEF m
      <3> QED BY <1>4, <3>2, <3>3, <3>4, LandingStep
    <2>2. CASE ~MayRequest(l, due)
      <3>1. /\ LandingTimeout(l, late) /\ setpoint' = TRUE
            /\ UNCHANGED <<cmd, landCalls>> /\ HistoryTypes'
        BY <1>4, <1>5, <2>2 DEF SeekAutoLand, history, HistoryTypes
      <3> HIDE DEF l
      <3> QED BY <1>2, <1>3, <1>4, <3>1, LandingStep
    <2> QED BY <2>1, <2>2
  <1>6. CASE WatchLanding(l, steady, late)
    <2> DEFINE valid == ext = "GROUND" /\ ~fcu.armed /\ steady
    <2>1. HistoryTypes' /\ UNCHANGED <<setpoint, cmd, landCalls>>
      BY <1>4, <1>4a, <1>6 DEF WatchLanding, HistoryTypes
    <2>2. CASE GateOpens(BeginGate(l).gate, valid, ConfirmSamples)
      <3>1. machine' = ConfirmLanding(machine) /\ landing' = NoLanding
        BY <1>6, <2>2 DEF WatchLanding
      <3> QED BY <1>4, <2>1, <3>1, LandedStep
    <2>3. CASE ~GateOpens(BeginGate(l).gate, valid, ConfirmSamples)
      <3> DEFINE m == [BeginGate(l) EXCEPT !.gate = GateObserve(BeginGate(l).gate, valid)]
      <3>1. BeginGate(l) \in Landing /\ BeginGate(l).gate \in Gate
        BY <1>2, BeginGateContext DEF Landing
      <3>2. GateObserve(BeginGate(l).gate, valid) \in Gate
        BY <3>1, GateTypes
      <3>3. m \in Landing /\ m.active /\ m.requests = l.requests
        BY <1>2, <3>1, <3>2, BeginGateContext DEF Landing
      <3>4. LandingTimeout(m, late)
        BY <1>6, <2>3 DEF WatchLanding
      <3> HIDE DEF m, l
      <3> QED BY <1>3, <1>4, <2>1, <3>3, <3>4, LandingStep
    <2> QED BY <2>2, <2>3
  <1> QED BY <1>5, <1>6 DEF DriveLanding

-----------------------------------------------------------------------------
(* Callbacks and environment: they touch neither the machine nor the       *)
(* landing, except that a counted message reaches the gate.                *)

LEMMA OutsideStep ==
  ASSUME IInv, UNCHANGED <<machine, loaded, driver, pc, setpoint, landCalls>>,
         landing' \in Landing, landing'.active = landing.active,
         landing'.requests = landing.requests, TypeOK'
  PROVE  IInv'
  <1>1. MachineOK(machine')
    BY InvariantParts
  <1> QED BY <1>1, InvariantPartsNext
          DEF IInv, NodeOK, FlightHasDriver, LandingMatchesState, TimerMatchesState,
              CallsMatchRequests, AutoLandCallsBounded

LEMMA CallbackInvariant == ASSUME IInv, Callback PROVE IInv'
  <1>1. CASE CbFcuState
    <2>1. fcu' \in Report \cup {NoReport}
      <3>1. px4.mode \in Mode /\ px4.armed \in BOOLEAN
        BY DEF IInv, TypeOK, Px4
      <3>2. [mode |-> px4.mode, armed |-> px4.armed] \in Report /\ Lost \in Report
        BY <3>1 DEF Report, Lost
      <3> QED BY <1>1, <3>2 DEF CbFcuState
    <2>2. TypeOK'
      BY <1>1, <2>1 DEF CbFcuState, IInv, TypeOK, nodeVars, fcuVars
    <2> QED BY <1>1, <2>2, OutsideStep DEF CbFcuState, nodeVars, IInv, TypeOK
  <1>2. CASE CbStoresExtended
    <2>1. /\ ext' \in {"GROUND", "AIR"} /\ counting' = TRUE
          /\ wire' \in Seq({"GROUND", "AIR"}) /\ Len(wire') <= QueueSize
          /\ UNCHANGED <<nodeVars, fcu, px4, cmd, history>>
      <3>1. wire \in Seq({"GROUND", "AIR"}) /\ wire # <<>> /\ Len(wire) <= QueueSize
        BY <1>2 DEF CbStoresExtended, IInv, TypeOK
      <3>2. Head(wire) \in {"GROUND", "AIR"} /\ Tail(wire) \in Seq({"GROUND", "AIR"})
            /\ Len(Tail(wire)) = Len(wire) - 1 /\ Len(wire) \in Nat
        BY <3>1
      <3> QED BY <1>2, <3>1, <3>2, ConfigAssumption DEF CbStoresExtended
    <2>2. TypeOK'
      BY <2>1 DEF IInv, TypeOK, nodeVars, history
    <2> QED BY <2>1, <2>2, OutsideStep DEF nodeVars, history, IInv, TypeOK
  <1>3. CASE CbCountsExtended
    <2>1. landing \in Landing /\ GateSample(landing.gate) \in Gate
      BY GateTypes DEF IInv, TypeOK, Landing
    <2>2. /\ landing' \in Landing /\ landing'.active = landing.active
          /\ landing'.requests = landing.requests
      BY <1>3, <2>1 DEF CbCountsExtended, Landing
    <2>3. /\ counting' = FALSE
          /\ UNCHANGED <<machine, loaded, driver, pc, setpoint, fcu, ext, fcuVars, history>>
      BY <1>3 DEF CbCountsExtended
    <2>4. TypeOK'
      <3>1. counting' \in BOOLEAN /\ landing' \in Landing
        BY <2>2, <2>3
      <3>2. UNCHANGED <<machine, loaded, driver, pc, setpoint, fcu, ext, px4, wire, cmd,
                        landCalls, overruled, grounded, flooded>>
        BY <2>3 DEF fcuVars, history
      <3> QED BY <3>1, <3>2 DEF IInv, TypeOK
    <2> QED BY <2>2, <2>3, <2>4, OutsideStep DEF history
  <1> QED BY <1>1, <1>2, <1>3 DEF Callback

\* A message that joins the queue leaves it in its bound.
LEMMA QueueKept ==
  ASSUME NEW q \in Seq({"GROUND", "AIR"}), Len(q) <= QueueSize, NEW m \in {"GROUND", "AIR"}
  PROVE  LET p == Append(IF Len(q) < QueueSize THEN q ELSE Tail(q), m)
         IN  p \in Seq({"GROUND", "AIR"}) /\ Len(p) <= QueueSize
  <1> DEFINE r == IF Len(q) < QueueSize THEN q ELSE Tail(q)
  <1>1. Len(q) \in Nat /\ QueueSize \in Nat \ {0}
    BY ConfigAssumption
  <1>2. r \in Seq({"GROUND", "AIR"}) /\ Len(r) < QueueSize /\ Len(r) \in Nat
    <2>1. CASE Len(q) < QueueSize
      BY <1>1, <2>1
    <2>2. CASE Len(q) = QueueSize
      <3>1. q # <<>>
        BY <1>1, <2>2
      <3>2. Tail(q) \in Seq({"GROUND", "AIR"}) /\ Len(Tail(q)) = Len(q) - 1
        BY <3>1
      <3> QED BY <1>1, <2>2, <3>2
    <2> QED BY <1>1, <2>1, <2>2
  <1> HIDE DEF r
  <1>3. Append(r, m) \in Seq({"GROUND", "AIR"}) /\ Len(Append(r, m)) = Len(r) + 1
    BY <1>2
  <1>4. Append(r, m) \in Seq({"GROUND", "AIR"}) /\ Len(Append(r, m)) <= QueueSize
    BY <1>1, <1>2, <1>3
  <1> QED BY <1>4 DEF r

LEMMA EnvironmentInvariant == ASSUME IInv, Environment PROVE IInv'
  <1>1. px4' \in Px4
    <2>1. px4 \in Px4
      BY DEF IInv, TypeOK
    <2>2. CASE FcuObeys
      <3>1. cmd \in Mode
        BY <2>2 DEF FcuObeys, Mode, IInv, TypeOK
      <3> QED BY <2>1, <2>2, <3>1 DEF FcuObeys, Px4
    <2>3. CASE FcuDropsCommand \/ FcuPublishes
      BY <2>1, <2>3 DEF FcuDropsCommand, FcuPublishes
    <2>4. CASE Aircraft
      BY <2>1, <2>4
      DEF Aircraft, LiftsOff, TouchesDown, DisarmsOnGround, PilotActs, FcuFailsafe, Mode, Px4
    <2> QED BY <2>2, <2>3, <2>4 DEF Environment
  <1>2. /\ cmd' \in {"none", "OFFBOARD", "AUTO.LAND"}
        /\ grounded' \in BOOLEAN
        /\ UNCHANGED <<nodeVars, cacheVars, landCalls, overruled, flooded>>
    BY DEF Environment, FcuObeys, FcuDropsCommand, FcuPublishes, Aircraft, LiftsOff,
           TouchesDown, DisarmsOnGround, PilotActs, FcuFailsafe, IInv, TypeOK, Landing,
           Gate, history
  <1>2a. wire' \in Seq({"GROUND", "AIR"}) /\ Len(wire') <= QueueSize
    <2>1. wire \in Seq({"GROUND", "AIR"}) /\ Len(wire) <= QueueSize
      BY DEF IInv, TypeOK
    <2>2. CASE FcuPublishes
      BY <2>1, <2>2, QueueKept DEF FcuPublishes
    <2>3. CASE FcuObeys \/ FcuDropsCommand \/ Aircraft
      BY <2>1, <2>3 DEF FcuObeys, FcuDropsCommand, Aircraft
    <2> QED BY <2>2, <2>3 DEF Environment
  <1>3. TypeOK'
    BY <1>1, <1>2, <1>2a DEF IInv, TypeOK, nodeVars, cacheVars
  <1> QED BY <1>2, <1>3, OutsideStep DEF nodeVars, IInv, TypeOK

-----------------------------------------------------------------------------
(* The theorems.                                                           *)

\* The environment may spoil an input, but it stays a Boolean.
LEMMA Inputs == ASSUME NEW fault PROVE Maybe(fault) \subseteq BOOLEAN
  BY DEF Maybe

LEMMA ServiceInvariant == ASSUME IInv, Service PROVE IInv'
  <1>1. CASE \E others \in Maybe("sensors"), released \in BOOLEAN :
               StartWithoutFlight(others, released) \/ StartFlight(others, released)
    BY <1>1, Inputs, StartWithoutFlightInvariant, StartFlightInvariant
  <1>2. CASE Stop
    BY <1>2, StopInvariant
  <1>3. CASE \E load \in LoadOutcome : Reset(load)
    BY <1>3, ResetInvariant
  <1>4. CASE ManualTakeover
    BY <1>4, ManualTakeoverInvariant
  <1>5. CASE \E others \in Maybe("sensors") : StatusTimer(others)
    BY <1>5, Inputs, StatusTimerInvariant
  <1> QED BY <1>1, <1>2, <1>3, <1>4, <1>5 DEF Service

LEMMA FlightTimerInvariant == ASSUME IInv, FlightTimer PROVE IInv'
  <1>1. CASE \E fresh, steady \in Maybe("sensors"), due, late \in BOOLEAN :
               DriveLanding(fresh, due, late, steady)
    BY <1>1, Inputs, DriveLandingInvariant
  <1> QED BY <1>1, TimerStartsInvariant, TickChecksModeInvariant,
             TickChecksHealthInvariant, TickRunsStageInvariant DEF FlightTimer

LEMMA StutterInvariant == ASSUME IInv, UNCHANGED vars PROVE IInv'
  <1>1. TypeOK'
    BY DEF vars, nodeVars, cacheVars, fcuVars, history, IInv, TypeOK
  <1> QED BY <1>1, OutsideStep DEF vars, nodeVars, history, IInv, TypeOK

\* IInv holds in every reachable state, in every configuration, under every
\* interleaving of services, timers and callbacks and every set of faults.
THEOREM InductiveInvariant == Spec => []IInv
  <1>1. IInv /\ [Next]_vars => IInv'
    BY RestartInvariant, ServiceInvariant, FlightTimerInvariant, CallbackInvariant,
       EnvironmentInvariant, StutterInvariant DEF Next
  <1> QED BY <1>1, InitInvariant, PTL DEF Spec

\* Every variable keeps its type; no AUTO.LAND request number, machine record
\* or timer position outside the declared ones is ever produced.
THEOREM TypeCorrect == Spec => []TypeOK
  <1>1. IInv => TypeOK
    BY DEF IInv
  <1> QED BY <1>1, InductiveInvariant, PTL

\* The active topic says exactly whether the mission flies the aircraft.
THEOREM ActiveIsFlying == Spec => []ActiveMatchesState
  <1>1. IInv => ActiveMatchesState
    BY DEF IInv
  <1> QED BY <1>1, InductiveInvariant, PTL

\* No flight state without a driver and a configuration.
THEOREM FlightIsDriven == Spec => []FlightHasDriver
  <1>1. IInv => FlightHasDriver
    BY DEF IInv
  <1> QED BY <1>1, InductiveInvariant, PTL

\* A landing context exists exactly during a descent: none leaks into the
\* next flight, and none is lost when LAND turns into ABORT_LAND.
THEOREM LandingContextIsOwned == Spec => []LandingMatchesState
  <1>1. IInv => LandingMatchesState
    BY DEF IInv
  <1> QED BY <1>1, InductiveInvariant, PTL

\* The result topic agrees with the state topic.
THEOREM ResultIsConsistent == Spec => []ResultMatchesState
  <1>1. IInv => ResultMatchesState
    BY DEF IInv
  <1> QED BY <1>1, InductiveInvariant, PTL

\* The AUTO.LAND retry budget is one for the whole flight.
THEOREM RetryBudget == Spec => []AutoLandCallsBounded
  <1>1. IInv => AutoLandCallsBounded
    BY DEF IInv, CallsMatchRequests
  <1> QED BY <1>1, InductiveInvariant, PTL

-----------------------------------------------------------------------------
(* The stream of setpoints.                                                *)

\* The services do not touch setpoint and the requests of a running landing.
LEMMA StreamService ==
  ASSUME IInv, StreamUntilAutoLand, Service PROVE StreamUntilAutoLand'
  <1>1. MachineOK(machine)
    BY InvariantParts
  <1>2. ASSUME NEW others \in BOOLEAN, machine' = Evaluated(others),
               UNCHANGED <<landing, pc, setpoint>>
        PROVE  StreamUntilAutoLand'
    <2>1. machine'.state = machine.state \/ machine'.state \in {"WAIT_READY", "WAIT_START"}
      BY <1>1, <1>2, EvaluatedMachine
    <2> QED BY <1>2, <2>1 DEF StreamUntilAutoLand, Descending
  <1>3. ASSUME NEW others \in BOOLEAN, NEW released \in BOOLEAN,
               StartWithoutFlight(others, released)
        PROVE  StreamUntilAutoLand'
    BY <1>2, <1>3 DEF StartWithoutFlight
  <1>4. ASSUME NEW others \in BOOLEAN, NEW released \in BOOLEAN,
               StartFlight(others, released)
        PROVE  StreamUntilAutoLand'
    <2>1. machine'.state = "TAKEOFF"
      <3>1. MachineOK(Evaluated(others))
        BY <1>1, EvaluatedMachine
      <3> QED BY <1>4, <3>1, StartMachine DEF StartFlight, FlightAccepted
    <2> QED BY <2>1 DEF StreamUntilAutoLand, Descending
  <1>5. CASE Stop
    <2>1. machine'.state = machine.state \/ machine'.state \in {"ABORT_LAND", "WAIT_READY"}
      BY <1>1, <1>5, StopMachine DEF Stop
    <2>2. CASE machine.state \in Descending
      <3>1. landing' = landing
        BY <1>5, <2>2 DEF Stop, IInv, LandingMatchesState, BeginLanding
      <3> QED BY <1>5, <2>2, <3>1 DEF Stop, StreamUntilAutoLand
    <2>3. CASE machine.state \notin Descending
      <3>1. ~landing.active
        BY <2>3 DEF IInv, LandingMatchesState
      <3>2. machine'.state = "ABORT_LAND" => landing'.requests = 0
        BY <1>5, <3>1 DEF Stop, BeginLanding, NoLanding
      <3> QED BY <2>1, <2>3, <3>2 DEF StreamUntilAutoLand, Descending
    <2> QED BY <2>2, <2>3
  <1>6. CASE \E load \in LoadOutcome : Reset(load)
    BY <1>6 DEF Reset, Boot, NoLanding, StreamUntilAutoLand
  <1>7. CASE ManualTakeover
    BY <1>7 DEF ManualTakeover, NoLanding, StreamUntilAutoLand
  <1>8. CASE \E others \in Maybe("sensors") : StatusTimer(others)
    BY <1>2, <1>8, Inputs DEF StatusTimer
  <1>9. CASE \E others \in Maybe("sensors"), released \in BOOLEAN :
               StartWithoutFlight(others, released) \/ StartFlight(others, released)
    BY <1>3, <1>4, <1>9, Inputs
  <1> QED BY <1>5, <1>6, <1>7, <1>8, <1>9 DEF Service

\* A run of the flight timer that ends before the landing is driven ends in
\* another state than a descent.
LEMMA StreamDriver ==
  ASSUME IInv, TimerStarts \/ TickChecksMode \/ TickChecksHealth \/ TickRunsStage
  PROVE  pc' = "idle" => machine'.state \notin Descending
  <1>1. MachineOK(machine)
    BY InvariantParts
  <1>2. CASE machine.state \in Commanding /\ ModeTakeover
    <2>1. machine'.state = "COMPLETE"
      BY <1>1, <1>2, TakeoverMachine DEF ModeTakeover
    <2> QED BY <2>1 DEF Descending
  <1>3. CASE TimerStarts
    <2>1. CASE ~ModeTakeover
      BY <1>3, <2>1 DEF TimerStarts, AfterDriver, Descending
    <2> QED BY <1>2, <1>3, <2>1 DEF TimerStarts
  <1>4. CASE TickChecksMode
    <2>1. machine.state \in Commanding
      BY <1>4 DEF TickChecksMode, IInv, TimerMatchesState, Commanding
    <2> QED BY <1>2, <1>4, <2>1 DEF TickChecksMode
  <1>5. CASE TickChecksHealth
    BY <1>5 DEF TickChecksHealth, AbortFlight
  <1>6. CASE TickRunsStage
    <2>1. machine.state \in Flight /\ pc = "stage"
      BY <1>6 DEF TickRunsStage, IInv, TimerMatchesState
    <2>2. CASE AbortFlight \/ Advance
      BY <2>2 DEF AbortFlight, Advance, AfterDriver
    <2>3. CASE machine.state \notin Descending /\ UNCHANGED machine
      BY <2>3
    <2>4. CASE machine.state = "TAKEOFF" /\ StageTakeoff
      <3>1. AbortFlight \/ Advance \/ \E step : Continue(step)
        BY <2>4
        DEF StageTakeoff, TakeoffRequestsOffboard, TakeoffSeesOffboard, TakeoffRequestsArm,
            TakeoffSeesArmed, TakeoffReached, TakeoffWaits
      <3> QED BY <2>2, <2>3, <2>4, <3>1 DEF Continue, Descending
    <2>5. CASE machine.state \notin {"TAKEOFF", "LAND"} /\ StageEnRoute
      <3>1. AbortFlight \/ Advance \/ Continue(driver)
        BY <2>5 DEF StageEnRoute
      <3>2. machine.state \notin Descending
        BY <2>1, <2>5 DEF Descending, Flight
      <3> QED BY <2>2, <2>3, <3>1, <3>2 DEF Continue
    <2>6. CASE StageLand
      BY <2>6 DEF StageLand
    <2> QED BY <1>6, <2>2, <2>4, <2>5, <2>6 DEF TickRunsStage
  <1> QED BY <1>3, <1>4, <1>5, <1>6

\* A landing that is driven publishes, or has seen AUTO.LAND, or is over.
LEMMA StreamLanding ==
  ASSUME IInv, NEW fresh \in BOOLEAN, NEW due \in BOOLEAN, NEW late \in BOOLEAN,
         NEW steady \in BOOLEAN, DriveLanding(fresh, due, late, steady)
  PROVE  StreamUntilAutoLand'
  <1> DEFINE begun == BeginLanding(landing)
  <1> DEFINE l == [begun EXCEPT !.confirmed =
                     begun.confirmed \/ (fresh /\ fcu.mode = "AUTO.LAND")]
  <1>1. landing.active /\ landing \in Landing /\ begun = landing
    BY DEF DriveLanding, IInv, TypeOK, TimerMatchesState, LandingMatchesState, BeginLanding
  <1>2. l \in Landing
    BY <1>1 DEF Landing
  <1>3. CASE ~l.confirmed
    <2>1. SeekAutoLand(l, due, late)
      BY <1>3 DEF DriveLanding
    <2> QED BY <2>1 DEF SeekAutoLand, StreamUntilAutoLand
  <1>4. CASE l.confirmed
    <2>1. WatchLanding(l, steady, late)
      BY <1>4 DEF DriveLanding
    <2>2. CASE landing' = NoLanding
      BY <2>2 DEF NoLanding, StreamUntilAutoLand
    <2>3. ASSUME NEW k \in Landing, k.confirmed, LandingTimeout(k, late)
          PROVE  landing'.confirmed
      BY <2>3 DEF LandingTimeout, Landing
    <2>4. BeginGate(l) \in Landing /\ BeginGate(l).confirmed
      BY <1>2, <1>4, GateTypes DEF BeginGate, Landing
    <2>5. ASSUME NEW valid \in BOOLEAN
          PROVE  LET b == BeginGate(l)
                     k == [b EXCEPT !.gate = GateObserve(b.gate, valid)]
                 IN  k \in Landing /\ k.confirmed
      BY <2>4, GateTypes DEF Landing
    <2>6. CASE landing' # NoLanding
      <3> DEFINE valid == ext = "GROUND" /\ ~fcu.armed /\ steady
      <3>1. valid \in BOOLEAN
        OBVIOUS
      <3>2. LandingTimeout([BeginGate(l) EXCEPT !.gate = GateObserve(BeginGate(l).gate, valid)], late)
        BY <2>1, <2>6 DEF WatchLanding
      <3>3. landing'.confirmed
        BY <2>3, <2>5, <3>1, <3>2
      <3> QED BY <3>3 DEF StreamUntilAutoLand
    <2> QED BY <2>2, <2>6
  <1> QED BY <1>3, <1>4

\* Restarts, callbacks and the flight controller.
LEMMA StreamOutside ==
  ASSUME IInv, StreamUntilAutoLand, Restart \/ Callback \/ Environment \/ UNCHANGED vars
  PROVE  StreamUntilAutoLand'
  <1>1. CASE Restart
    BY <1>1 DEF Restart, NoLanding, StreamUntilAutoLand
  <1>2. CASE CbCountsExtended
    <2>1. landing'.requests = landing.requests /\ landing'.confirmed = landing.confirmed
      BY <1>2 DEF CbCountsExtended, IInv, TypeOK, Landing
    <2> QED BY <1>2, <2>1 DEF CbCountsExtended, StreamUntilAutoLand
  <1>3. CASE UNCHANGED nodeVars
    BY <1>3 DEF nodeVars, StreamUntilAutoLand
  <1>4. CASE CbFcuState \/ CbStoresExtended \/ Environment \/ UNCHANGED vars
    BY <1>3, <1>4
    DEF CbFcuState, CbStoresExtended, Environment, FcuObeys, FcuDropsCommand, FcuPublishes,
        Aircraft, vars
  <1> QED BY <1>1, <1>2, <1>4 DEF Callback

\* From its first AUTO.LAND request until it has seen the mode the node
\* publishes a setpoint in every run of the flight timer.
THEOREM StreamGoesOn == Spec => []StreamUntilAutoLand
  <1>1. Init => StreamUntilAutoLand
    BY DEF Init, NoLanding, StreamUntilAutoLand
  <1>2. IInv /\ StreamUntilAutoLand /\ [Next]_vars => StreamUntilAutoLand'
    <2> SUFFICES ASSUME IInv, StreamUntilAutoLand, [Next]_vars PROVE StreamUntilAutoLand'
      OBVIOUS
    <2>1. CASE FlightTimer
      <3>1. CASE \E fresh, steady \in Maybe("sensors"), due, late \in BOOLEAN :
                   DriveLanding(fresh, due, late, steady)
        BY <3>1, Inputs, StreamLanding
      <3> QED BY <2>1, <3>1, StreamDriver DEF FlightTimer, StreamUntilAutoLand
    <2> QED BY <2>1, StreamService, StreamOutside DEF Next
  <1> QED BY <1>1, <1>2, InductiveInvariant, PTL DEF Spec

-----------------------------------------------------------------------------
(* The pilot.                                                              *)
(*                                                                         *)
(* A subscriber callback may run between the mode check of a tick and the  *)
(* request the tick sends (run node_pilot_race).  The tick after that sees *)
(* the manual mode at its start, so nothing more goes out against it.      *)

\* A step that leaves the report and the count alone needs a tick that runs,
\* or a flight that has not come to its landing, to end in one.
LEMMA OverruledKept ==
  ASSUME OverruledFresh, UNCHANGED <<overruled, fcu>>,
         pc' # "idle" \/ machine'.state \in Flight \ {"LAND"}
           => \/ pc # "idle" \/ machine.state \in Flight \ {"LAND"}
              \/ ~ManualMode(fcu)
  PROVE  OverruledFresh'
  BY DEF OverruledFresh, PilotOverruledOnce, ManualMode

LEMMA OverruledInit == Init => OverruledFresh
  BY DEF Init, OverruledFresh, PilotOverruledOnce

\* A start needs a disarmed aircraft, which is in no manual mode.
LEMMA OverruledService == ASSUME IInv, OverruledFresh, Service PROVE OverruledFresh'
  <1>1. MachineOK(machine) /\ UNCHANGED <<overruled, fcu, pc>>
    BY InvariantParts
    DEF Service, StartWithoutFlight, StartFlight, Stop, Reset, ManualTakeover, StatusTimer,
        cacheVars, history
  <1>2. machine'.state \in Flight \ {"LAND"}
          => machine.state \in Flight \ {"LAND"} \/ ~ManualMode(fcu)
    <2>1. ASSUME NEW others \in BOOLEAN, machine' = Evaluated(others),
                 machine'.state \in Flight
          PROVE  machine'.state = machine.state
      BY <1>1, <2>1, EvaluatedMachine DEF Flight
    <2>2. ASSUME NEW others \in BOOLEAN, NEW released \in BOOLEAN,
                 StartFlight(others, released)
          PROVE  ~ManualMode(fcu)
      <3>1. StartAccepted(Evaluated(others))
        BY <2>2 DEF StartFlight, FlightAccepted
      <3>2. machine.state \in PreStart
        BY <1>1, <3>1, EvaluatedMachine DEF StartAccepted, PreStart
      <3>3. Preconditions(others)
        BY <1>1, <3>1, <3>2 DEF Evaluated, HandlePreconditions, StartAccepted, MachineOK,
                                Machine
      <3> QED BY <3>3 DEF Preconditions, ManualMode
    <2>3. CASE Stop
      BY <1>1, <2>3, StopMachine DEF Stop, Flight
    <2>4. CASE \E load \in LoadOutcome : Reset(load)
      <3>1. IInv' /\ driver' = "absent"
        BY <2>4, ResetInvariant DEF Reset, Boot
      <3> QED BY <3>1 DEF IInv, FlightHasDriver, Commanding
    <2>5. CASE ManualTakeover
      BY <1>1, <2>5, TakeoverMachine DEF ManualTakeover, Flight
    <2>6. CASE \E others \in Maybe("sensors") : StatusTimer(others)
      BY <2>1, <2>6, Inputs DEF StatusTimer
    <2>7. CASE \E others \in Maybe("sensors"), released \in BOOLEAN :
                 StartWithoutFlight(others, released) \/ StartFlight(others, released)
      BY <2>1, <2>2, <2>7, Inputs DEF StartWithoutFlight
    <2> QED BY <2>3, <2>4, <2>5, <2>6, <2>7 DEF Service
  <1> QED BY <1>1, <1>2, OverruledKept DEF OverruledFresh

\* A tick begins without a manual mode in the report, or in the handshake
\* that comes before the first landing request.
LEMMA OverruledDriver ==
  ASSUME IInv, OverruledFresh,
         TimerStarts \/ TickChecksMode \/ TickChecksHealth \/ TickRunsStage
  PROVE  OverruledFresh'
  <1>1. CASE TimerStarts
    <2>1. CASE ModeTakeover
      <3>1. machine'.state = "COMPLETE" /\ pc' = "idle" /\ UNCHANGED <<overruled, fcu>>
        BY <1>1, <2>1, InvariantParts, TakeoverMachine
        DEF TimerStarts, ModeTakeover, cacheVars, history
      <3> QED BY <3>1, OverruledKept DEF Flight
    <2>2. CASE ~ModeTakeover
      <3>1. /\ ~ManualMode(fcu) \/ AwaitingOffboard
            /\ UNCHANGED <<overruled, fcu>>
        BY <1>1, <2>2 DEF TimerStarts, cacheVars, history
      <3>2. AwaitingOffboard => machine.state \in Flight \ {"LAND"}
        BY DEF AwaitingOffboard, Flight
      <3> QED BY <3>1, <3>2, OverruledKept
    <2> QED BY <2>1, <2>2
  <1>2. CASE TickChecksMode \/ TickChecksHealth \/ TickRunsStage
    <2>1. pc # "idle"
      BY <1>2 DEF TickChecksMode, TickChecksHealth, TickRunsStage
    <2>2. UNCHANGED <<overruled, fcu>>
      BY <1>2
      DEF TickChecksMode, TickChecksHealth, TickRunsStage, StageTakeoff, StageEnRoute,
          StageLand, AbortFlight, Advance, NextStageOf, Continue, TakeoffRequestsOffboard,
          TakeoffSeesOffboard, TakeoffRequestsArm, TakeoffSeesArmed, TakeoffReached,
          TakeoffWaits, ModeTakeover, cacheVars, history
    <2> QED BY <2>1, <2>2, OverruledKept
  <1> QED BY <1>1, <1>2

\* The landing sends its one request of the tick at most.
LEMMA OverruledLanding ==
  ASSUME IInv, OverruledFresh, NEW fresh \in BOOLEAN, NEW due \in BOOLEAN,
         NEW late \in BOOLEAN, NEW steady \in BOOLEAN, DriveLanding(fresh, due, late, steady)
  PROVE  OverruledFresh'
  <1>1. /\ pc = "land" /\ pc' = "idle" /\ UNCHANGED fcu
        /\ machine.state \in Descending /\ MachineOK(machine)
    BY InvariantParts DEF DriveLanding, cacheVars, IInv, TimerMatchesState
  <1>2. overruled = 0
    BY <1>1 DEF OverruledFresh
  <1>3. overruled' \in {0, Bit(ManualMode(fcu))}
    BY <1>2 DEF DriveLanding, SeekAutoLand, WatchLanding, Bit, history
  <1>4. machine'.state \notin Flight \ {"LAND"}
    <2>1. (\E l : LandingTimeout(l, late)) \/ machine' = ConfirmLanding(machine)
      BY DEF DriveLanding, SeekAutoLand, WatchLanding
    <2>2. CASE \E l : LandingTimeout(l, late)
      BY <1>1, <2>2, AbortMachine DEF LandingTimeout, Flight, Descending
    <2>3. CASE machine' = ConfirmLanding(machine)
      BY <1>1, <2>3, StageDoneMachine, LandedMachine DEF ConfirmLanding, Descending, Flight
    <2> QED BY <2>1, <2>2, <2>3
  <1> QED BY <1>1, <1>3, <1>4 DEF OverruledFresh, PilotOverruledOnce, ManualMode, Bit

LEMMA OverruledOutside ==
  ASSUME IInv, OverruledFresh, Restart \/ Callback \/ Environment \/ UNCHANGED vars
  PROVE  OverruledFresh'
  <1>1. CASE Restart
    BY <1>1 DEF Restart, OverruledFresh, PilotOverruledOnce
  <1>2. CASE CbFcuState
    BY <1>2 DEF CbFcuState, nodeVars, OverruledFresh, PilotOverruledOnce
  <1>3. CASE CbStoresExtended \/ CbCountsExtended \/ Environment \/ UNCHANGED vars
    <2>1. UNCHANGED <<machine, pc, fcu, overruled>>
      BY <1>3 DEF CbStoresExtended, CbCountsExtended, Environment, FcuObeys,
                  FcuDropsCommand, FcuPublishes, Aircraft, vars, nodeVars, cacheVars, history
    <2> QED BY <2>1, OverruledKept DEF OverruledFresh
  <1> QED BY <1>1, <1>2, <1>3 DEF Callback

\* Against a manual mode the pilot has taken, at most one AUTO.LAND request
\* goes out before the node notices it, whatever the callbacks do to a tick.
THEOREM OneRequestAgainstThePilot == Spec => []PilotOverruledOnce
  <1>1. IInv /\ OverruledFresh /\ [Next]_vars => OverruledFresh'
    BY Inputs, OverruledService, OverruledDriver, OverruledLanding, OverruledOutside
    DEF Next, FlightTimer
  <1>2. OverruledFresh => PilotOverruledOnce
    BY DEF OverruledFresh
  <1> QED BY <1>1, <1>2, OverruledInit, InductiveInvariant, PTL DEF Spec

-----------------------------------------------------------------------------
(* The steps that send a request.                                          *)

\* The steps that put a request on its way: the flight timer at the stage or
\* at the landing, in a state in which the mission flies the aircraft.
LEMMA RequestsComeFromTheTimer ==
  ASSUME IInv, [Next]_vars, cmd' \notin {cmd, "none"}
  PROVE  /\ fcu' = fcu
         /\ \/ /\ machine.state \in Flight
               /\ pc = "stage" /\ cmd' = "OFFBOARD"
               /\ machine'.state \in Commanding
            \/ /\ pc = "land" /\ cmd' = "AUTO.LAND"
               /\ machine'.state \in Commanding
  <1>1. CASE TickRunsStage
    <2>1. machine.state \in Flight /\ pc = "stage" /\ MachineOK(machine)
      BY <1>1, InvariantParts DEF TickRunsStage, IInv, TimerMatchesState
    <2>2. machine.state = "TAKEOFF" /\ TakeoffRequestsOffboard
      BY <1>1
      DEF TickRunsStage, StageTakeoff, StageEnRoute, StageLand, AbortFlight, fcuVars,
          TakeoffRequestsArm, TakeoffSeesOffboard, TakeoffSeesArmed, TakeoffReached, TakeoffWaits
    <2>3. (Continue("await_offboard") \/ AbortFlight) /\ cmd' = "OFFBOARD"
      BY <2>2 DEF TakeoffRequestsOffboard, Request
    <2>4. machine'.state \in Commanding /\ fcu' = fcu
      BY <2>1, <2>3, AbortMachine DEF Continue, AbortFlight, cacheVars, Commanding
    <2> QED BY <2>1, <2>3, <2>4
  <1>2. ASSUME NEW fresh, NEW due, NEW late \in BOOLEAN, NEW steady,
               DriveLanding(fresh, due, late, steady)
        PROVE  /\ fcu' = fcu /\ pc = "land" /\ cmd' = "AUTO.LAND"
               /\ machine'.state \in Commanding
    <2>1. machine.state \in Descending /\ pc = "land" /\ fcu' = fcu /\ MachineOK(machine)
      BY <1>2, InvariantParts DEF DriveLanding, IInv, TimerMatchesState, cacheVars
    <2>2. PICK l : SeekAutoLand(l, due, late) \/ WatchLanding(l, steady, late)
      BY <1>2 DEF DriveLanding
    <2>3. cmd' = "AUTO.LAND" /\ \E k : LandingTimeout(k, late)
      BY <2>2 DEF SeekAutoLand, WatchLanding, Request
    <2> QED BY <2>1, <2>3, AbortMachine DEF LandingTimeout, Descending, Commanding, Flight
  <1>3. CASE \E fresh, steady \in Maybe("sensors"), due, late \in BOOLEAN :
               DriveLanding(fresh, due, late, steady)
    BY <1>2, <1>3
  <1>4. CASE TimerStarts \/ TickChecksMode \/ TickChecksHealth
    BY <1>4
    DEF TimerStarts, TickChecksMode, TickChecksHealth, ModeTakeover, AbortFlight, fcuVars
  <1>5. CASE Restart \/ Callback
    BY <1>5 DEF Restart, Callback, CbFcuState, CbStoresExtended, CbCountsExtended, fcuVars
  <1>6. CASE Service
    BY <1>6
    DEF Service, StartWithoutFlight, StartFlight, Stop, Reset, ManualTakeover, StatusTimer,
        fcuVars
  <1>7. CASE Environment \/ UNCHANGED vars
    BY <1>7 DEF Environment, FcuObeys, FcuDropsCommand, FcuPublishes, Aircraft, vars, fcuVars
  <1> QED BY <1>1, <1>3, <1>4, <1>5, <1>6, <1>7 DEF Next, FlightTimer

\* After the end of a mission, a takeover, or a restart, the flight
\* controller hears nothing from the node.
THEOREM SilentAfterTheEnd == Spec => CommandsOnlyWhileFlying
  <1>1. IInv /\ [Next]_vars => (cmd' \notin {cmd, "none"} => machine'.state \in Commanding)
    BY RequestsComeFromTheTimer
  <1> QED BY <1>1, InductiveInvariant, PTL DEF Spec, CommandsOnlyWhileFlying

-----------------------------------------------------------------------------
(* What a confirmed landing is worth.                                      *)
(*                                                                         *)
(* What the gate may take for a landing while the aircraft is still in the *)
(* air are the samples that were under way when the confirmation began:    *)
(* those in the queue, and one whose callback has stored but not counted   *)
(* it.  If they are fewer than ConfirmSamples, none of them is the last    *)
(* one needed.                                                             *)

\* The samples the gate has counted, and those it may count next.
Looks(g, c) == g.count + Bit(g.unseen) + Bit(c)

\* The ground samples that the gate has or may still get do not suffice.
TooFew(g, c, w, e) ==
  /\ e = "GROUND" => Looks(g, c) < ConfirmSamples
  /\ \A i \in 1..Len(w) : w[i] = "GROUND" => Looks(g, c) + i < ConfirmSamples

\* Without ground contact or a flood of old samples, the aircraft is in the
\* air and the evidence for a landing does not suffice.
GroundEvidence ==
  landing.gate.started /\ ~grounded /\ ~flooded =>
    px4.airborne /\ TooFew(landing.gate, counting, wire, ext)

-----------------------------------------------------------------------------

\* A look uses up a sample and counts it once.
LEMMA LookOnce ==
  ASSUME NEW g \in Gate, NEW valid \in BOOLEAN, NEW c \in BOOLEAN
  PROVE  /\ Looks(g, c) \in Nat /\ Looks(GateObserve(g, valid), c) \in Nat
         /\ Looks(GateObserve(g, valid), c) <= Looks(g, c)
  BY DEF Looks, Bit, Gate, GateObserve

\* A stored sample that is counted becomes the unseen one.
LEMMA CountOnce ==
  ASSUME NEW g \in Gate
  PROVE  /\ Looks(g, TRUE) \in Nat /\ Looks(GateSample(g), FALSE) \in Nat
         /\ Looks(GateSample(g), FALSE) <= Looks(g, TRUE)
  BY DEF Looks, Bit, Gate, GateSample

\* Fewer looks leave fewer samples.
LEMMA FewerLooks ==
  ASSUME NEW g, NEW c, NEW g2, NEW c2, NEW w \in Seq({"GROUND", "AIR"}), NEW e,
         Looks(g, c) \in Nat, Looks(g2, c2) \in Nat, Looks(g2, c2) <= Looks(g, c),
         TooFew(g, c, w, e)
  PROVE  TooFew(g2, c2, w, e)
  <1> DEFINE a == Looks(g, c)
  <1> DEFINE b == Looks(g2, c2)
  <1>1. /\ a \in Nat /\ b \in Nat /\ b <= a /\ ConfirmSamples \in Nat
        /\ e = "GROUND" => a < ConfirmSamples
        /\ \A i \in 1..Len(w) : w[i] = "GROUND" => a + i < ConfirmSamples
    BY ConfigAssumption DEF TooFew
  <1>2. /\ e = "GROUND" => b < ConfirmSamples
        /\ \A i \in 1..Len(w) : w[i] = "GROUND" => b + i < ConfirmSamples
    <2> HIDE DEF a, b
    <2> QED BY <1>1
  <1> QED BY <1>2 DEF TooFew

\* The oldest message becomes the cached one and waits to be counted.
LEMMA MessageReceived ==
  ASSUME NEW g \in Gate, NEW w \in Seq({"GROUND", "AIR"}), w # <<>>, NEW e,
         TooFew(g, FALSE, w, e)
  PROVE  TooFew(g, TRUE, Tail(w), Head(w))
  <1>1. Looks(g, FALSE) \in Nat /\ Looks(g, TRUE) = Looks(g, FALSE) + 1
    BY DEF Looks, Bit, Gate
  <1>2. /\ Len(w) \in Nat /\ Len(w) >= 1 /\ Head(w) = w[1] /\ Len(Tail(w)) = Len(w) - 1
        /\ \A i \in 1..Len(Tail(w)) : Tail(w)[i] = w[i + 1]
    OBVIOUS
  <1>3. Head(w) = "GROUND" => Looks(g, TRUE) < ConfirmSamples
    <2>1. 1 \in 1..Len(w)
      BY <1>2
    <2>2. w[1] = "GROUND" => Looks(g, FALSE) + 1 < ConfirmSamples
      BY <2>1 DEF TooFew
    <2> QED BY <1>1, <1>2, <2>2
  <1>4. ASSUME NEW i \in 1..Len(Tail(w)), Tail(w)[i] = "GROUND"
        PROVE  Looks(g, TRUE) + i < ConfirmSamples
    <2>1. i + 1 \in 1..Len(w) /\ w[i + 1] = "GROUND"
      BY <1>2, <1>4
    <2>2. Looks(g, FALSE) + (i + 1) < ConfirmSamples
      BY <2>1 DEF TooFew
    <2> DEFINE a == Looks(g, FALSE)
    <2> DEFINE b == Looks(g, TRUE)
    <2>3. a \in Nat /\ b = a + 1 /\ a + (i + 1) < ConfirmSamples
      BY <1>1, <2>2
    <2> HIDE DEF a, b
    <2>4. b + i < ConfirmSamples
      BY <2>3, ConfigAssumption
    <2> QED BY <2>4 DEF b
  <1> QED BY <1>3, <1>4 DEF TooFew

\* A sample taken in the air says so, and where it pushes the oldest one out
\* of the queue the others come nearer.
LEMMA AirMessageQueued ==
  ASSUME NEW g \in Gate, NEW c \in BOOLEAN, NEW w \in Seq({"GROUND", "AIR"}),
         Len(w) <= QueueSize, NEW e, TooFew(g, c, w, e)
  PROVE  TooFew(g, c, Append(IF Len(w) < QueueSize THEN w ELSE Tail(w), "AIR"), e)
  <1> DEFINE r == IF Len(w) < QueueSize THEN w ELSE Tail(w)
  <1>1. Looks(g, c) \in Nat /\ ConfirmSamples \in Nat
    BY ConfigAssumption DEF Looks, Bit, Gate
  <1>2. r \in Seq({"GROUND", "AIR"})
        /\ \A i \in 1..Len(r) : r[i] = "GROUND" => Looks(g, c) + i < ConfirmSamples
    <2>1. CASE Len(w) < QueueSize
      BY <2>1 DEF TooFew
    <2>2. CASE ~(Len(w) < QueueSize)
      <3>1. w # <<>>
        BY <2>2, ConfigAssumption
      <3>2. /\ Tail(w) \in Seq({"GROUND", "AIR"}) /\ Len(Tail(w)) = Len(w) - 1
            /\ Len(w) \in Nat /\ \A i \in 1..Len(Tail(w)) : Tail(w)[i] = w[i + 1]
        BY <3>1
      <3>3. ASSUME NEW i \in 1..Len(Tail(w)), Tail(w)[i] = "GROUND"
            PROVE  Looks(g, c) + i < ConfirmSamples
        <4>1. i + 1 \in 1..Len(w) /\ w[i + 1] = "GROUND"
          BY <3>2, <3>3
        <4>2. Looks(g, c) + (i + 1) < ConfirmSamples
          BY <4>1 DEF TooFew
        <4> QED BY <1>1, <4>2
      <3> QED BY <2>2, <3>2, <3>3
    <2> QED BY <2>1, <2>2
  <1> HIDE DEF r
  <1>3. ASSUME NEW i \in 1..Len(Append(r, "AIR")), Append(r, "AIR")[i] = "GROUND"
        PROVE  i \in 1..Len(r) /\ r[i] = "GROUND"
    BY <1>2, <1>3
  <1>4. TooFew(g, c, Append(r, "AIR"), e)
    BY <1>2, <1>3 DEF TooFew
  <1> QED BY <1>4 DEF r

\* A confirmation begins without a look behind it.
LEMMA FewSamplesBegin ==
  ASSUME NEW c \in BOOLEAN, NEW w \in Seq({"GROUND", "AIR"}), NEW e,
         Len(w) + Bit(c) < ConfirmSamples
  PROVE  TooFew(GateBegin, c, w, e)
  <1>1. Looks(GateBegin, c) = Bit(c) /\ Bit(c) \in {0, 1}
    BY DEF Looks, Bit, GateBegin
  <1>2. Len(w) \in Nat /\ ConfirmSamples \in Nat
    BY ConfigAssumption
  <1>3. \A i \in 1..Len(w) : Bit(c) + i < ConfirmSamples
    BY <1>1, <1>2
  <1> QED BY <1>1, <1>2, <1>3 DEF TooFew

\* Too few samples do not open the gate.
LEMMA TooFewDoNotOpen ==
  ASSUME NEW g \in Gate, NEW c \in BOOLEAN, NEW w, NEW valid \in BOOLEAN,
         NEW e, valid => e = "GROUND", TooFew(g, c, w, e)
  PROVE  ~GateOpens(g, valid, ConfirmSamples)
  <1> SUFFICES ASSUME GateOpens(g, valid, ConfirmSamples) PROVE FALSE
    OBVIOUS
  <1>1. g.unseen /\ g.count \in Nat /\ ConfirmSamples \in Nat /\ ConfirmSamples > 1
    BY ConfigAssumption DEF Gate, GateOpens
  <1>2. valid /\ g.count + 1 >= ConfirmSamples
    BY <1>1 DEF GateOpens, GateObserve, Gate
  <1>3. g.count + 1 + Bit(c) < ConfirmSamples
    BY <1>1, <1>2 DEF TooFew, Looks, Bit
  <1> QED BY <1>1, <1>2, <1>3 DEF Bit

-----------------------------------------------------------------------------

\* A step that neither moves a message nor looks at one, and at most ends
\* the confirmation.
LEMMA EvidenceKept ==
  ASSUME GroundEvidence, UNCHANGED <<ext, counting, wire, grounded, flooded>>,
         px4'.airborne = px4.airborne,
         landing'.gate = landing.gate \/ ~landing'.gate.started
  PROVE  GroundEvidence'
  BY DEF GroundEvidence, TooFew

LEMMA BeginLandingGate ==
  ASSUME NEW l
  PROVE  BeginLanding(l).gate = l.gate \/ ~BeginLanding(l).gate.started
  BY DEF BeginLanding, NoLanding, GateReset

LEMMA NoLandingGate == ~NoLanding.gate.started
  BY DEF NoLanding, GateReset

LEMMA EvidenceInit == Init => GroundEvidence
  BY DEF Init, GroundEvidence, NoLanding, GateReset

\* Only the landing touches the gate inside the timer, and only a callback
\* outside it.
LEMMA EvidenceService ==
  ASSUME IInv, GroundEvidence, Service PROVE GroundEvidence'
  <1>1. CASE \E load \in LoadOutcome : Reset(load)
    BY <1>1, NoLandingGate DEF Reset, Boot, GroundEvidence
  <1>2. CASE ~\E load \in LoadOutcome : Reset(load)
    <2>1. /\ UNCHANGED <<ext, counting, wire, grounded, flooded, px4>>
          /\ landing' \in {landing, NoLanding, BeginLanding(landing)}
      BY <1>2 DEF Service, StartWithoutFlight, StartFlight, Stop, ManualTakeover,
                  StatusTimer, cacheVars, fcuVars, history
    <2> QED BY <2>1, EvidenceKept, BeginLandingGate, NoLandingGate
  <1> QED BY <1>1, <1>2

LEMMA EvidenceDriver ==
  ASSUME IInv, GroundEvidence,
         TimerStarts \/ TickChecksMode \/ TickChecksHealth \/ TickRunsStage
  PROVE  GroundEvidence'
  <1>1. px4 \in Px4
    BY DEF IInv, TypeOK
  <1>2. ASSUME AbortFlight \/ Advance \/ (\E step : Continue(step)) \/ StageLand
               \/ ModeTakeover
        PROVE  /\ UNCHANGED <<ext, counting, grounded, flooded>>
               /\ landing' \in {landing, NoLanding, BeginLanding(landing)}
    BY <1>2 DEF AbortFlight, Advance, Continue, StageLand, ModeTakeover, cacheVars, history
  <1>3. CASE TimerStarts \/ TickChecksMode
    <2>1. /\ UNCHANGED <<ext, counting, wire, grounded, flooded, px4>>
          /\ landing' \in {landing, NoLanding, BeginLanding(landing)}
      BY <1>3 DEF TimerStarts, TickChecksMode, ModeTakeover, cacheVars, fcuVars, history
    <2> QED BY <2>1, EvidenceKept, BeginLandingGate, NoLandingGate
  <1>4. CASE TickChecksHealth
    <2>1. /\ UNCHANGED <<ext, counting, wire, grounded, flooded, px4>>
          /\ landing' \in {landing, NoLanding, BeginLanding(landing)}
      BY <1>2, <1>4 DEF TickChecksHealth, cacheVars, fcuVars, history
    <2> QED BY <2>1, EvidenceKept, BeginLandingGate, NoLandingGate
  <1>5. CASE TickRunsStage
    <2>1. CASE AbortFlight /\ UNCHANGED <<setpoint, cmd, px4>>
      <3>1. landing' \in {landing, NoLanding, BeginLanding(landing)}
        BY <1>2, <2>1
      <3> QED BY <1>2, <1>5, <2>1, <3>1, EvidenceKept, BeginLandingGate, NoLandingGate
              DEF TickRunsStage
    <2>2. CASE StageTakeoff
      <3>1. AbortFlight \/ Advance \/ \E step : Continue(step)
        BY <2>2
        DEF StageTakeoff, TakeoffRequestsOffboard, TakeoffSeesOffboard, TakeoffRequestsArm,
            TakeoffSeesArmed, TakeoffReached, TakeoffWaits
      <3>2. px4'.airborne = px4.airborne
        BY <1>1, <2>2 DEF StageTakeoff, TakeoffRequestsArm, Px4
      <3> QED BY <1>2, <1>5, <3>1, <3>2, EvidenceKept, BeginLandingGate, NoLandingGate
              DEF TickRunsStage
    <2>3. CASE StageLand \/ StageEnRoute
      <3>1. AbortFlight \/ Advance \/ (\E step : Continue(step)) \/ StageLand
        BY <2>3 DEF StageEnRoute
      <3>2. UNCHANGED px4
        BY <2>3 DEF StageLand, StageEnRoute
      <3> QED BY <1>2, <1>5, <3>1, <3>2, EvidenceKept, BeginLandingGate, NoLandingGate
              DEF TickRunsStage
    <2> QED BY <1>5, <2>1, <2>2, <2>3 DEF TickRunsStage
  <1> QED BY <1>3, <1>4, <1>5

\* The confirmation a run of the landing works on: the one that runs, or one
\* that begins now and, on the ground, has its evidence.
LEMMA EvidenceBegins ==
  ASSUME IInv, GroundEvidence, NEW l \in Landing, l.gate = landing.gate, MarkBegin(l)
  PROVE  ~grounded' /\ ~flooded' =>
           px4.airborne /\ TooFew(BeginGate(l).gate, counting, wire, ext)
  <1>1. CASE l.gate.started
    BY <1>1 DEF MarkBegin, BeginGate, GroundEvidence
  <1>2. CASE ~l.gate.started
    <2>1. BeginGate(l).gate = GateBegin
      BY <1>2 DEF BeginGate, Landing
    <2>2. /\ px4.airborne \in BOOLEAN /\ counting \in BOOLEAN
          /\ wire \in Seq({"GROUND", "AIR"})
      BY DEF IInv, TypeOK, Px4
    <2> DEFINE n == Len(wire) + Bit(counting)
    <2>3. n \in Nat /\ ConfirmSamples \in Nat
      BY <2>2, ConfigAssumption DEF Bit
    <2>4. ~grounded' /\ ~flooded' => px4.airborne /\ ~(n >= ConfirmSamples)
      BY <1>2, <2>2, Zenon DEF MarkBegin
    <2>5. ~(n >= ConfirmSamples) => n < ConfirmSamples
      <3> HIDE DEF n
      <3> QED BY <2>3
    <2> QED BY <2>1, <2>2, <2>4, <2>5, FewSamplesBegin
  <1> QED BY <1>1, <1>2

LEMMA TimeoutKeepsGate ==
  ASSUME NEW l \in Landing, NEW late, LandingTimeout(l, late)
  PROVE  landing'.gate = l.gate
  BY DEF LandingTimeout, Landing

LEMMA EvidenceLanding ==
  ASSUME IInv, GroundEvidence, NEW fresh \in BOOLEAN, NEW due \in BOOLEAN,
         NEW late \in BOOLEAN, NEW steady \in BOOLEAN, DriveLanding(fresh, due, late, steady)
  PROVE  /\ GroundEvidence'
         /\ machine'.state = "COMPLETE" => grounded \/ flooded
  <1> DEFINE begun == BeginLanding(landing)
  <1> DEFINE l == [begun EXCEPT !.confirmed =
                     begun.confirmed \/ (fresh /\ fcu.mode = "AUTO.LAND")]
  <1>1. landing.active /\ landing \in Landing /\ begun = landing
    BY DEF DriveLanding, IInv, TypeOK, TimerMatchesState, LandingMatchesState, BeginLanding
  <1>2. l \in Landing /\ l.gate = landing.gate
    BY <1>1 DEF Landing
  <1>3. /\ pc = "land" /\ machine.state \in Descending /\ machine \in Machine
        /\ counting \in BOOLEAN /\ wire \in Seq({"GROUND", "AIR"})
        /\ UNCHANGED <<ext, counting, px4, wire>>
    BY DEF DriveLanding, IInv, TypeOK, TimerMatchesState, cacheVars
  <1>5. BeginGate(l) \in Landing
    BY <1>2, BeginGateContext
  <1>6. ASSUME NEW k \in Landing, LandingTimeout(k, late)
        PROVE  machine'.state # "COMPLETE" /\ landing'.gate = k.gate
    <2>1. machine'.state \in Descending
      BY <1>3, <1>6, LandingTimeoutStep
    <2> QED BY <1>6, <2>1, TimeoutKeepsGate DEF Descending
  <1>7. SeekAutoLand(l, due, late) \/ WatchLanding(l, steady, late)
    BY DEF DriveLanding
  <1> HIDE DEF l
  <1>8. CASE SeekAutoLand(l, due, late)
    <2>1. CASE MayRequest(l, due)
      <3> DEFINE k == [BeginGate(l) EXCEPT !.requests = l.requests + 1]
      <3>1. l.requests + 1 \in 0..ModeRetryCount
        BY <1>2, <2>1, ConfigAssumption DEF Landing, MayRequest
      <3>2. k \in Landing /\ k.gate = BeginGate(l).gate
        BY <1>5, <3>1 DEF Landing
      <3>3. LandingTimeout(k, late) /\ MarkBegin(l)
        BY <1>8, <2>1 DEF SeekAutoLand
      <3> HIDE DEF k
      <3>4. machine'.state # "COMPLETE" /\ landing'.gate = BeginGate(l).gate
        BY <1>6, <3>2, <3>3
      <3>5. ~grounded' /\ ~flooded' =>
              px4.airborne /\ TooFew(BeginGate(l).gate, counting, wire, ext)
        BY <1>2, <3>3, EvidenceBegins
      <3> QED BY <1>3, <3>4, <3>5 DEF GroundEvidence, TooFew
    <2>2. CASE ~MayRequest(l, due)
      <3>1. LandingTimeout(l, late) /\ UNCHANGED <<grounded, flooded>>
        BY <1>8, <2>2 DEF SeekAutoLand, history
      <3>2. machine'.state # "COMPLETE" /\ landing'.gate = landing.gate
        BY <1>2, <1>6, <3>1
      <3> QED BY <1>3, <3>1, <3>2, EvidenceKept
    <2> QED BY <2>1, <2>2
  <1>9. CASE WatchLanding(l, steady, late)
    <2> DEFINE g == BeginGate(l).gate
    <2> DEFINE valid == ext = "GROUND" /\ ~fcu.armed /\ steady
    <2>1. g \in Gate /\ valid \in BOOLEAN /\ MarkBegin(l)
      BY <1>5, <1>9 DEF WatchLanding, Landing
    <2>2. ~grounded' /\ ~flooded' => px4.airborne /\ TooFew(g, counting, wire, ext)
      BY <1>2, <2>1, EvidenceBegins
    <2>3. CASE GateOpens(g, valid, ConfirmSamples)
      <3>1. landing' = NoLanding
        BY <1>9, <2>3 DEF WatchLanding
      <3>2. l.gate.started
        <4>1. g.unseen
          BY <2>3 DEF GateOpens
        <4> QED BY <1>2, <4>1 DEF BeginGate, GateBegin, Landing
      <3>3. UNCHANGED <<grounded, flooded>>
        BY <2>1, <3>2 DEF MarkBegin
      <3>4. grounded \/ flooded
        <4> SUFFICES ASSUME ~grounded, ~flooded PROVE FALSE
          OBVIOUS
        <4>1. TooFew(g, counting, wire, ext)
          BY <2>2, <3>3
        <4> HIDE DEF g
        <4> QED BY <1>3, <2>1, <2>3, <4>1, TooFewDoNotOpen
      <3> QED BY <3>1, <3>4, NoLandingGate DEF GroundEvidence
    <2>4. CASE ~GateOpens(g, valid, ConfirmSamples)
      <3> DEFINE k == [BeginGate(l) EXCEPT !.gate = GateObserve(g, valid)]
      <3>1. GateObserve(g, valid) \in Gate
        BY <2>1, GateTypes
      <3>2. k \in Landing /\ k.gate = GateObserve(g, valid)
        BY <1>5, <3>1 DEF Landing
      <3>3. LandingTimeout(k, late)
        BY <1>9, <2>4 DEF WatchLanding
      <3> HIDE DEF k, g, valid
      <3>4. machine'.state # "COMPLETE" /\ landing'.gate = GateObserve(g, valid)
        BY <1>6, <3>2, <3>3
      <3>5. ~grounded' /\ ~flooded' =>
              px4.airborne /\ TooFew(GateObserve(g, valid), counting, wire, ext)
        BY <1>3, <2>1, <2>2, LookOnce, FewerLooks
      <3> QED BY <1>3, <3>4, <3>5 DEF GroundEvidence, TooFew
    <2> QED BY <2>3, <2>4
  <1> QED BY <1>7, <1>8, <1>9

LEMMA EvidenceCallback ==
  ASSUME IInv, GroundEvidence, Callback PROVE GroundEvidence'
  <1>1. landing \in Landing /\ landing.gate \in Gate
    BY DEF IInv, TypeOK, Landing
  <1>2. CASE CbFcuState
    BY <1>2, EvidenceKept DEF CbFcuState, nodeVars, fcuVars
  <1>3. CASE CbStoresExtended
    <2>1. /\ ext' = Head(wire) /\ wire' = Tail(wire) /\ counting = FALSE /\ counting' = TRUE
          /\ wire # <<>> /\ wire \in Seq({"GROUND", "AIR"})
          /\ UNCHANGED <<landing, px4, grounded, flooded>>
      BY <1>3 DEF CbStoresExtended, nodeVars, history, IInv, TypeOK
    <2> QED BY <1>1, <2>1, MessageReceived DEF GroundEvidence
  <1>4. CASE CbCountsExtended
    <2>1. /\ landing'.gate = GateSample(landing.gate) /\ counting = TRUE /\ counting' = FALSE
          /\ UNCHANGED <<ext, wire, px4, grounded, flooded>>
          /\ wire \in Seq({"GROUND", "AIR"})
      BY <1>1, <1>4 DEF CbCountsExtended, fcuVars, history, Landing, IInv, TypeOK
    <2>2. landing'.gate.started = landing.gate.started
      BY <1>1, <2>1 DEF GateSample, Gate
    <2>3. TooFew(landing.gate, TRUE, wire, ext)
            => TooFew(GateSample(landing.gate), FALSE, wire, ext)
      BY <1>1, <2>1, CountOnce, FewerLooks
    <2> QED BY <2>1, <2>2, <2>3 DEF GroundEvidence
  <1> QED BY <1>2, <1>3, <1>4 DEF Callback

\* The aircraft comes to the ground only by touching down, which is the
\* evidence; the samples taken in the air say so.
LEMMA EvidenceEnvironment ==
  ASSUME IInv, GroundEvidence, Environment PROVE GroundEvidence'
  <1>1. px4 \in Px4 /\ cmd \in {"none", "OFFBOARD", "AUTO.LAND"}
    BY DEF IInv, TypeOK
  <1>2. CASE FcuObeys
    <2>1. px4'.airborne = px4.airborne
      BY <1>1, <1>2 DEF FcuObeys, Px4
    <2> QED BY <1>2, <2>1, EvidenceKept DEF FcuObeys, nodeVars, cacheVars, history
  <1>3. CASE FcuDropsCommand
    BY <1>3, EvidenceKept DEF FcuDropsCommand, nodeVars, cacheVars, history
  <1>4. CASE FcuPublishes
    <2>1. /\ UNCHANGED <<landing, ext, counting, px4, grounded, flooded>>
          /\ px4.airborne =>
               wire' = Append(IF Len(wire) < QueueSize THEN wire ELSE Tail(wire), "AIR")
      BY <1>4 DEF FcuPublishes, nodeVars, cacheVars, history
    <2>2. /\ landing.gate \in Gate /\ counting \in BOOLEAN
          /\ wire \in Seq({"GROUND", "AIR"}) /\ Len(wire) <= QueueSize
      BY DEF IInv, TypeOK, Landing
    <2> QED BY <2>1, <2>2, AirMessageQueued DEF GroundEvidence
  <1>5. CASE Aircraft
    <2>1. UNCHANGED <<landing, ext, counting, wire, flooded>>
      BY <1>5 DEF Aircraft, nodeVars, cacheVars
    <2>2. CASE TouchesDown
      BY <2>1, <2>2 DEF TouchesDown, GroundEvidence
    <2>3. CASE LiftsOff
      <3>1. px4'.airborne
        BY <1>1, <2>3 DEF LiftsOff, Px4
      <3> QED BY <2>1, <2>3, <3>1 DEF LiftsOff, GroundEvidence, TooFew
    <2>4. CASE DisarmsOnGround \/ PilotActs \/ FcuFailsafe
      <3>1. px4'.airborne = px4.airborne /\ UNCHANGED grounded
        BY <1>1, <2>4 DEF DisarmsOnGround, PilotActs, FcuFailsafe, Px4
      <3> QED BY <2>1, <3>1, EvidenceKept
    <2> QED BY <1>5, <2>2, <2>3, <2>4 DEF Aircraft
  <1> QED BY <1>2, <1>3, <1>4, <1>5 DEF Environment

LEMMA EvidenceInvariant == Spec => []GroundEvidence
  <1>1. IInv /\ GroundEvidence /\ [Next]_vars => GroundEvidence'
    <2> SUFFICES ASSUME IInv, GroundEvidence, [Next]_vars
                 PROVE  GroundEvidence'
      OBVIOUS
    <2>1. CASE Restart
      BY <2>1, NoLandingGate DEF Restart, GroundEvidence
    <2>2. CASE FlightTimer
      BY <2>2, Inputs, EvidenceDriver, EvidenceLanding DEF FlightTimer
    <2>3. CASE UNCHANGED vars
      BY <2>3, EvidenceKept DEF vars, nodeVars, cacheVars, fcuVars, history
    <2> QED BY <2>1, <2>2, <2>3, EvidenceService, EvidenceCallback, EvidenceEnvironment
            DEF Next
  <1> QED BY <1>1, EvidenceInit, InductiveInvariant, PTL DEF Spec

\* A landing is confirmed only if the aircraft has been on the ground since the
\* confirmation began, or enough samples to confirm it were already under way
\* then - for every size of the queue, every number of samples and every fault.
THEOREM LandedOnGround == Spec => LandedMeansGrounded
  <1>1. ASSUME IInv, GroundEvidence, [Next]_vars, pc = "land",
               machine.state # "COMPLETE", machine'.state = "COMPLETE"
        PROVE  grounded \/ flooded
    <2>1. ~Restart
      <3>1. \A load \in FirstBoot : Booted(load).state # "COMPLETE"
        BY BootedMachine
      <3> QED BY <1>1, <3>1 DEF Restart
    <2>2. ~Service
      <3>1. ~(Stop \/ ManualTakeover) /\ (\A load \in LoadOutcome : ~Reset(load))
        BY <1>1 DEF Stop, ManualTakeover, Reset, LockFree
      <3> QED BY <1>1, <3>1 DEF Service, StartWithoutFlight, StartFlight, StatusTimer, LockFree
    <2>3. ~(Callback \/ Environment \/ UNCHANGED vars)
      BY <1>1 DEF Callback, CbFcuState, CbStoresExtended, CbCountsExtended, Environment,
                  FcuObeys, FcuDropsCommand, FcuPublishes, Aircraft, nodeVars, vars
    <2>4. ~(TimerStarts \/ TickChecksMode \/ TickChecksHealth \/ TickRunsStage)
      BY <1>1 DEF TimerStarts, TickChecksMode, TickChecksHealth, TickRunsStage, LockFree
    <2>5. PICK fresh \in BOOLEAN, steady \in BOOLEAN, due \in BOOLEAN, late \in BOOLEAN :
            DriveLanding(fresh, due, late, steady)
      BY <1>1, <2>1, <2>2, <2>3, <2>4, Inputs DEF Next, FlightTimer
    <2> QED BY <1>1, <2>5, EvidenceLanding
  <1>2. IInv /\ GroundEvidence /\ [Next]_vars =>
          (pc = "land" /\ machine.state # "COMPLETE" /\ machine'.state = "COMPLETE"
             => grounded \/ flooded)
    BY <1>1
  <1> QED BY <1>2, EvidenceInvariant, InductiveInvariant, PTL DEF Spec, LandedMeansGrounded

-----------------------------------------------------------------------------
(* The refinement.                                                         *)
(*                                                                         *)
(* MissionNode implements MissionLifecycle, for every configuration: every *)
(* step of the node is a step of the lifecycle or leaves it alone.         *)

\* The lifecycle phase of each state.
LEMMA Phases ==
  /\ PhaseOf("BOOT") = "booting"
  /\ PhaseOf("WAIT_READY") = "ready" /\ PhaseOf("WAIT_START") = "ready"
  /\ \A s \in Flight \ {"LAND"} : PhaseOf(s) = "flying"
  /\ PhaseOf("LAND") = "landing" /\ PhaseOf("ABORT_LAND") = "landing"
  /\ PhaseOf("COMPLETE") = "ended"
  /\ PhaseOf("ERROR") = "failed"
  BY DEF PhaseOf, Flight, Descending

\* What the machine's state says of its result.
LEMMA Results ==
  ASSUME NEW m, MachineOK(m)
  PROVE  /\ m.state \in PreStart \cup Flight => m.result = "none"
         /\ m.state = "ABORT_LAND" => m.result = "aborted"
         /\ m.state = "ERROR" => m.result = "invalid"
         /\ m.state = "COMPLETE" => m.result \in {"aborted", "safe", "takeover"}
  BY DEF MachineOK, ResultFits, PreStart, Flight

-----------------------------------------------------------------------------
(* The transitions of the machine, as steps of the lifecycle.              *)

\* A machine that keeps its phase and its result does not move the lifecycle.
LEMMA SamePhase ==
  ASSUME PhaseOf(machine'.state) = PhaseOf(machine.state), machine'.result = machine.result
  PROVE  UNCHANGED Lifecycle!vars
  BY DEF Lifecycle!vars, PhaseOf

LEMMA BootIsReboot ==
  ASSUME MachineOK(machine'), machine'.state \in {"BOOT", "WAIT_READY", "ERROR"}
  PROVE  /\ Lifecycle!vars' \in Lifecycle!BootOutcome
         /\ machine'.state # "BOOT" =>
              Lifecycle!vars' \in Lifecycle!BootOutcome \ {<<"booting", "none">>}
  <1>1. CASE machine'.state = "BOOT"
    BY <1>1, Results, Phases DEF Lifecycle!vars, Lifecycle!BootOutcome, PreStart
  <1>2. CASE machine'.state = "WAIT_READY"
    BY <1>2, Results, Phases DEF Lifecycle!vars, Lifecycle!BootOutcome, PreStart
  <1>3. CASE machine'.state = "ERROR"
    BY <1>3, Results, Phases DEF Lifecycle!vars, Lifecycle!BootOutcome
  <1> QED BY <1>1, <1>2, <1>3

LEMMA AbortIsAbort ==
  ASSUME MachineOK(machine), MachineOK(machine'),
         machine.state \in Flight, machine'.state = "ABORT_LAND"
  PROVE  Lifecycle!Abort
  <1>1. PhaseOf(machine.state) \in {"flying", "landing"} /\ machine.result = "none"
    BY Phases, Results DEF Flight
  <1>2. PhaseOf(machine'.state) = "landing" /\ machine'.result = "aborted"
    BY Phases, Results
  <1> QED BY <1>1, <1>2 DEF Lifecycle!Abort, Lifecycle!FirstCause

LEMMA TakeoverIsTakeover ==
  ASSUME MachineOK(machine), machine.state \in Commanding,
         machine' = ConfirmManualTakeover(machine)
  PROVE  Lifecycle!Takeover
  <1>1. PhaseOf(machine.state) \in {"flying", "landing"}
    BY Phases DEF Commanding, Flight
  <1>2. /\ PhaseOf(machine'.state) = "ended"
        /\ machine'.result = IF machine.result = "none" THEN "takeover" ELSE machine.result
    BY Phases, TakeoverMachine
  <1> QED BY <1>1, <1>2 DEF Lifecycle!Takeover, Lifecycle!FirstCause

LEMMA AdvanceIsProgress ==
  ASSUME MachineOK(machine), machine.state \in Flight \ {"LAND"}, Advance
  PROVE  Lifecycle!Descend \/ UNCHANGED Lifecycle!vars
  <1>1. MachineOK(machine') /\ machine'.state \in Flight
    BY StageDoneMachine, SkipMachine DEF Advance, NextStageOf, Flight
  <1>2. PhaseOf(machine.state) = "flying" /\ machine.result = "none" /\ machine'.result = "none"
    BY <1>1, Phases, Results
  <1>3. CASE machine'.state = "LAND"
    BY <1>2, <1>3, Phases DEF Lifecycle!Descend
  <1>4. CASE machine'.state # "LAND"
    BY <1>1, <1>2, <1>4, Phases, SamePhase
  <1> QED BY <1>3, <1>4

LEMMA TimeoutIsAbort ==
  ASSUME MachineOK(machine), machine.state \in Descending,
         NEW l, NEW late \in BOOLEAN, LandingTimeout(l, late)
  PROVE  Lifecycle!Abort \/ UNCHANGED Lifecycle!vars
  <1>1. machine' = machine \/ (machine.state = "LAND" /\ machine' = Abort(machine))
    BY DEF LandingTimeout
  <1>2. CASE machine.state = "LAND" /\ machine' = Abort(machine)
    BY <1>2, AbortMachine, AbortIsAbort DEF Flight
  <1> QED BY <1>1, <1>2, SamePhase

LEMMA LandedIsLand ==
  ASSUME MachineOK(machine), machine.state \in Descending,
         machine' = ConfirmLanding(machine)
  PROVE  Lifecycle!Land
  <1>1. CASE machine.state = "LAND"
    <2>1. machine.result = "none" /\ machine'.result = "safe" /\ machine'.state = "COMPLETE"
      BY <1>1, StageDoneMachine, Results DEF ConfirmLanding, Flight
    <2> QED BY <1>1, <2>1, Phases DEF Lifecycle!Land, Lifecycle!FirstCause
  <1>2. CASE machine.state = "ABORT_LAND"
    <2>1. /\ machine.result = "aborted" /\ machine'.result = machine.result
          /\ machine'.state = "COMPLETE"
      BY <1>2, LandedMachine, Results DEF ConfirmLanding
    <2> QED BY <1>2, <2>1, Phases DEF Lifecycle!Land, Lifecycle!FirstCause
  <1> QED BY <1>1, <1>2 DEF Descending

-----------------------------------------------------------------------------
(* The actions of the node.                                                *)

LifecycleStep == Lifecycle!Next \/ UNCHANGED Lifecycle!vars

LEMMA EvaluationKeepsPhase ==
  ASSUME MachineOK(machine), NEW others \in BOOLEAN, machine' = Evaluated(others)
  PROVE  UNCHANGED Lifecycle!vars
  <1>1. PhaseOf(machine'.state) = PhaseOf(machine.state) /\ machine'.result = machine.result
    BY EvaluatedMachine, Phases
  <1> QED BY <1>1, SamePhase

LEMMA InitImplements == Init => Lifecycle!Init
  <1> SUFFICES ASSUME Init PROVE Lifecycle!Init
    OBVIOUS
  <1>1. PICK load \in FirstBoot : machine = Booted(load)
    BY DEF Init
  <1>2. MachineOK(machine) /\ machine.state \in {"WAIT_READY", "ERROR"}
    BY <1>1, BootedMachine
  <1>3. \/ PhaseOf(machine.state) = "ready" /\ machine.result = "none"
        \/ PhaseOf(machine.state) = "failed" /\ machine.result = "invalid"
    BY <1>2, Phases, Results DEF PreStart
  <1> QED BY <1>3 DEF Lifecycle!Init, Lifecycle!vars, Lifecycle!BootOutcome

LEMMA RestartImplements == ASSUME Restart PROVE LifecycleStep
  <1>1. PICK load \in FirstBoot : machine' = Booted(load)
    BY DEF Restart
  <1>2. MachineOK(machine') /\ machine'.state \in {"WAIT_READY", "ERROR"}
    BY <1>1, BootedMachine
  <1> QED BY <1>2, BootIsReboot DEF LifecycleStep, Lifecycle!Next, Lifecycle!Restart

LEMMA StartImplements ==
  ASSUME MachineOK(machine), NEW others \in BOOLEAN, NEW released \in BOOLEAN,
         StartFlight(others, released)
  PROVE  LifecycleStep
  <1>1. MachineOK(machine') /\ machine'.state = "TAKEOFF"
    BY EvaluatedMachine, StartMachine DEF StartFlight, FlightAccepted
  <1>2. machine.state \in {"WAIT_READY", "WAIT_START"}
    BY EvaluatedMachine DEF StartFlight, FlightAccepted, StartAccepted
  <1>3. /\ PhaseOf(machine.state) = "ready"
        /\ PhaseOf(machine'.state) = "flying" /\ machine'.result = "none"
    BY <1>1, <1>2, Phases, Results DEF Flight
  <1> QED BY <1>3 DEF LifecycleStep, Lifecycle!Next, Lifecycle!Start

LEMMA StopImplements == ASSUME MachineOK(machine), Stop PROVE LifecycleStep
  <1>1. CASE machine.state \in Flight
    BY <1>1, StopMachine, AbortIsAbort DEF Stop, LifecycleStep, Lifecycle!Next
  <1>2. CASE machine.state \notin Flight
    <2>1. machine'.result = machine.result /\ PhaseOf(machine'.state) = PhaseOf(machine.state)
      BY <1>2, StopMachine, Phases DEF Stop
    <2> QED BY <2>1, SamePhase DEF LifecycleStep
  <1> QED BY <1>1, <1>2

LEMMA ResetImplements ==
  ASSUME MachineOK(machine), NEW load \in LoadOutcome, Reset(load)
  PROVE  LifecycleStep
  <1> DEFINE m == RequestReset(machine)
  <1>1. MachineOK(m) /\ ResetAccepted(machine)
    BY ResetMachine DEF Reset
  <1>2. CASE m.state = "BOOT"
    <2>1. machine.state \in {"BOOT", "ERROR"}
      BY <1>1, <1>2, ResetMachine
    <2>2. machine' = m \/ machine' = HandleBootParams(m, TRUE)
                      \/ machine' = HandleBootParams(m, FALSE)
      BY <1>2 DEF Reset, Boot
    <2>3. MachineOK(machine') /\ machine'.state \in {"BOOT", "WAIT_READY", "ERROR"}
      BY <1>1, <1>2, <2>2, BootMachine
    <2> QED BY <2>1, <2>3, BootIsReboot, Phases
            DEF LifecycleStep, Lifecycle!Next, Lifecycle!Reboot
  <1>3. CASE m.state # "BOOT"
    <2>1. machine' = m
      BY <1>3 DEF Reset
    <2>2. CASE machine.state = "COMPLETE"
      <3>1. machine'.state = "WAIT_READY" /\ machine'.result = "none"
        BY <1>1, <2>1, <2>2, ResetMachine, Results DEF PreStart
      <3> QED BY <2>2, <3>1, Phases DEF LifecycleStep, Lifecycle!Next, Lifecycle!Rearm
    <2>3. CASE machine.state # "COMPLETE"
      <3>1. machine' = machine
        BY <1>1, <1>3, <2>1, <2>3, ResetMachine
      <3> QED BY <3>1, SamePhase DEF LifecycleStep
    <2> QED BY <2>2, <2>3
  <1> QED BY <1>2, <1>3

LEMMA ServiceImplements == ASSUME IInv, Service PROVE LifecycleStep
  <1>1. MachineOK(machine)
    BY InvariantParts
  <1>2. CASE \E others \in Maybe("sensors"), released \in BOOLEAN :
               StartWithoutFlight(others, released) \/ StartFlight(others, released)
    BY <1>1, <1>2, Inputs, EvaluationKeepsPhase, StartImplements
    DEF StartWithoutFlight, LifecycleStep
  <1>3. CASE Stop
    BY <1>1, <1>3, StopImplements
  <1>4. CASE \E load \in LoadOutcome : Reset(load)
    BY <1>1, <1>4, ResetImplements
  <1>5. CASE ManualTakeover
    BY <1>1, <1>5, TakeoverIsTakeover DEF ManualTakeover, LifecycleStep, Lifecycle!Next
  <1>6. CASE \E others \in Maybe("sensors") : StatusTimer(others)
    BY <1>1, <1>6, Inputs, EvaluationKeepsPhase DEF StatusTimer, LifecycleStep
  <1> QED BY <1>2, <1>3, <1>4, <1>5, <1>6 DEF Service

LEMMA FlightTimerImplements == ASSUME IInv, FlightTimer PROVE LifecycleStep
  <1>1. MachineOK(machine)
    BY InvariantParts
  <1>2. ASSUME machine' = machine PROVE LifecycleStep
    BY <1>2, SamePhase DEF LifecycleStep
  <1>3. ASSUME machine.state \in Commanding, ModeTakeover PROVE LifecycleStep
    BY <1>1, <1>3, TakeoverIsTakeover DEF ModeTakeover, LifecycleStep, Lifecycle!Next
  <1>4. ASSUME machine.state \in Flight, AbortFlight PROVE LifecycleStep
    BY <1>1, <1>4, AbortMachine, AbortIsAbort DEF AbortFlight, LifecycleStep, Lifecycle!Next
  <1>5. ASSUME machine.state \in Flight \ {"LAND"}, Advance PROVE LifecycleStep
    BY <1>1, <1>5, AdvanceIsProgress DEF LifecycleStep, Lifecycle!Next
  <1>6. ASSUME NEW step, Continue(step) PROVE LifecycleStep
    BY <1>2, <1>6 DEF Continue
  <1>7. CASE TimerStarts
    BY <1>2, <1>3, <1>7 DEF TimerStarts
  <1>8. CASE TickChecksMode
    BY <1>2, <1>3, <1>8 DEF TickChecksMode, IInv, TimerMatchesState, Commanding
  <1>9. CASE TickChecksHealth
    BY <1>2, <1>4, <1>9 DEF TickChecksHealth, IInv, TimerMatchesState
  <1>10. CASE TickRunsStage
    <2>1. machine.state \in Flight
      BY <1>10 DEF TickRunsStage, IInv, TimerMatchesState
    <2>2. CASE machine.state = "TAKEOFF" /\ StageTakeoff
      <3>1. (\E step : Continue(step)) \/ AbortFlight \/ Advance
        BY <2>2
        DEF StageTakeoff, TakeoffRequestsOffboard, TakeoffSeesOffboard,
            TakeoffRequestsArm, TakeoffSeesArmed, TakeoffReached, TakeoffWaits
      <3> QED BY <2>1, <2>2, <3>1, <1>4, <1>5, <1>6
    <2>3. CASE machine.state \notin {"TAKEOFF", "LAND"} /\ StageEnRoute
      <3>1. Continue(driver) \/ AbortFlight \/ Advance
        BY <2>3 DEF StageEnRoute
      <3> QED BY <2>1, <2>3, <3>1, <1>4, <1>5, <1>6
    <2>4. CASE StageLand
      <3>1. machine' = machine
        BY <2>4 DEF StageLand
      <3> QED BY <3>1, <1>2
    <2>5. CASE AbortFlight
      BY <2>1, <2>5, <1>4
    <2>6. \/ machine.state = "TAKEOFF" /\ StageTakeoff
          \/ machine.state \notin {"TAKEOFF", "LAND"} /\ StageEnRoute
          \/ StageLand \/ AbortFlight
      BY <1>10 DEF TickRunsStage
    <2> QED BY <2>2, <2>3, <2>4, <2>5, <2>6
  <1>11. ASSUME NEW fresh \in BOOLEAN, NEW due \in BOOLEAN, NEW late \in BOOLEAN,
                NEW steady \in BOOLEAN, DriveLanding(fresh, due, late, steady)
         PROVE  LifecycleStep
    <2>1. machine.state \in Descending
      BY <1>11 DEF DriveLanding, IInv, TimerMatchesState
    <2>2. (\E l : LandingTimeout(l, late)) \/ machine' = ConfirmLanding(machine)
      BY <1>11 DEF DriveLanding, SeekAutoLand, WatchLanding
    <2> QED BY <1>1, <2>1, <2>2, TimeoutIsAbort, LandedIsLand
            DEF LifecycleStep, Lifecycle!Next
  <1>12. CASE \E fresh, steady \in Maybe("sensors"), due, late \in BOOLEAN :
                DriveLanding(fresh, due, late, steady)
    BY <1>12, <1>11, Inputs
  <1> QED BY <1>7, <1>8, <1>9, <1>10, <1>12 DEF FlightTimer

LEMMA StepImplements == ASSUME IInv, [Next]_vars PROVE LifecycleStep
  <1>1. ASSUME machine' = machine PROVE LifecycleStep
    BY <1>1, SamePhase DEF LifecycleStep
  <1>2. CASE Callback
    <2>1. machine' = machine
      BY <1>2 DEF Callback, CbFcuState, CbStoresExtended, CbCountsExtended, nodeVars
    <2> QED BY <1>1, <2>1
  <1>3. CASE Environment
    <2>1. machine' = machine
      BY <1>3 DEF Environment, FcuObeys, FcuDropsCommand, FcuPublishes, Aircraft, nodeVars
    <2> QED BY <1>1, <2>1
  <1>4. CASE UNCHANGED vars
    <2>1. machine' = machine
      BY <1>4 DEF vars, nodeVars
    <2> QED BY <1>1, <2>1
  <1> QED BY <1>2, <1>3, <1>4, RestartImplements, ServiceImplements,
             FlightTimerImplements DEF Next

-----------------------------------------------------------------------------

\* The node implements the lifecycle: it lands once it has begun to land, it
\* ends with a result, and that result is the first cause - for every number
\* of retries and samples, every option and every set of faults.
THEOREM NodeImplementsLifecycle == Spec => ImplementsLifecycle
  <1>1. IInv /\ [Next]_vars => [Lifecycle!Next]_(Lifecycle!vars)
    BY StepImplements DEF LifecycleStep
  <1> QED BY <1>1, InitImplements, InductiveInvariant, PTL
          DEF Spec, ImplementsLifecycle, Lifecycle!Spec
=============================================================================
