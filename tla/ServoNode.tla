----------------------------- MODULE ServoNode ------------------------------
(***************************************************************************)
(* The servo node (servo_node.py) with its serial port and the mechanism   *)
(* behind it.  A request holds the node's lock from its check to its       *)
(* answer; it is cut in two where it sleeps while the servo moves, because *)
(* the device may go and the node may end meanwhile.                       *)
(*                                                                         *)
(* The topics connected, state and command_ok are left out: no node of the *)
(* repository listens to them.                                             *)
(***************************************************************************)
EXTENDS Naturals

CONSTANT
  AllowRepeat  \* allow_repeat of servo.yaml

ASSUME RepeatAssumption == AllowRepeat \in BOOLEAN

VARIABLES
  library,    \* what transport.py is built on: pyserial, or termios without it
  up,         \* the node is running
  timer,      \* the thread of the health check is alive
  device,     \* the device is there and no other process holds it
  port,       \* self.port; "stale" is an open port whose device has gone
  lastState,  \* self.last_state
  handler,    \* the position to which the request being handled moves
  caller,     \* who made that request
  mechanism,  \* where the mechanism is
  driven,     \* the servo controller drives the servo
  doubt       \* history: the last move has not been carried to its end

servoVars ==
  <<library, up, timer, device, port, lastState, handler, caller,
    mechanism, driven, doubt>>

Positions == {"blocked", "released"}

ServoTypeOK ==
  /\ library \in {"pyserial", "posix"}
  /\ {up, timer, device, driven, doubt} \subseteq BOOLEAN
  /\ port \in {"none", "good", "stale"}
  /\ lastState \in Positions \cup {"unknown"}
  /\ handler \in Positions \cup {"none"}
  /\ caller \in {"none", "mission", "operator"}
  /\ caller = "none" <=> handler = "none"
  /\ mechanism \in Positions

\* _connect: an open port is taken as it is.
Connect == IF port # "none" THEN port ELSE IF device THEN "good" ELSE "none"

ServoInit ==
  /\ library \in {"pyserial", "posix"}
  /\ up = TRUE /\ timer = TRUE
  /\ device \in BOOLEAN /\ port = IF device THEN "good" ELSE "none"
  /\ lastState = "unknown" /\ handler = "none" /\ caller = "none"
  /\ mechanism \in Positions /\ driven = FALSE /\ doubt = FALSE

-----------------------------------------------------------------------------
(* _set_released, up to the sleep.                                         *)

Idle == up /\ handler = "none"

\* Mutant: a repeated action is carried out again.
Repeated_Never(to) == FALSE

Repeated(to) == to = lastState /\ ~AllowRepeat

\* Mutant: the answer to a repeated action is that it is done.
RepeatAnswer_Done == TRUE

\* The success field of the answer to a repeated action.
RepeatAnswer == FALSE

Repeat(to) == Idle /\ Repeated(to) /\ UNCHANGED servoVars

\* Mutant: the request is remembered before it is carried out.
NoPort_Remembers(to) ==
  /\ Idle /\ ~Repeated(to) /\ Connect = "none"
  /\ lastState' = to
  /\ UNCHANGED <<library, up, timer, device, port, handler, caller, mechanism, driven, doubt>>

NoPort(to) == Idle /\ ~Repeated(to) /\ Connect = "none" /\ UNCHANGED servoVars

WriteFails(to) ==
  /\ Idle /\ ~Repeated(to) /\ Connect = "stale"
  /\ port' = "none"
  /\ UNCHANGED <<library, up, timer, device, lastState, handler, caller, mechanism, driven, doubt>>

Begin(to, who) ==
  /\ Idle /\ ~Repeated(to) /\ Connect = "good"
  /\ port' = "good"
  /\ handler' = to /\ caller' = who /\ driven' = TRUE
  /\ UNCHANGED <<library, up, timer, device, lastState, mechanism, doubt>>

-----------------------------------------------------------------------------
(* _set_released, after the sleep.                                         *)

\* Mutant: the drive is not switched off after the move.
Complete_KeepsDriving ==
  /\ handler # "none" /\ port = "good"
  /\ mechanism' = handler /\ lastState' = handler
  /\ doubt' = FALSE /\ handler' = "none" /\ caller' = "none"
  /\ UNCHANGED <<library, up, timer, device, port, driven>>

Complete ==
  /\ handler # "none" /\ port = "good"
  /\ mechanism' = handler /\ lastState' = handler
  /\ driven' = FALSE /\ doubt' = FALSE
  /\ handler' = "none" /\ caller' = "none"
  /\ UNCHANGED <<library, up, timer, device, port>>

\* A move that was cut off has been made or not.
CutOff ==
  /\ mechanism' \in {mechanism, handler}
  /\ doubt' = TRUE /\ handler' = "none" /\ caller' = "none"

\* The device has gone: the probe or the write of the idle duty fails.  The
\* error of a probe through termios is none of those the handler catches.
Fail ==
  /\ handler # "none" /\ port = "stale"
  /\ \E caught \in {TRUE, library = "pyserial"} : port' = IF caught THEN "none" ELSE port
  /\ CutOff
  /\ UNCHANGED <<library, up, timer, device, lastState, driven>>

-----------------------------------------------------------------------------
(* The health check, the end of the node and its start, the device.        *)

\* Mutant: a port that fails its probe is kept.
HealthCheck_KeepsPort ==
  /\ Idle /\ timer /\ port = "none"
  /\ port' = Connect
  /\ UNCHANGED <<library, up, timer, device, lastState, handler, caller, mechanism, driven, doubt>>

\* The error of a termios probe ends the timer's thread.
HealthCheck ==
  /\ Idle /\ timer /\ port # "good"
  /\ IF port = "stale" /\ library = "posix"
     THEN timer' = FALSE /\ UNCHANGED port
     ELSE port' = (IF port = "stale" THEN "none" ELSE Connect) /\ UNCHANGED timer
  /\ UNCHANGED <<library, up, device, lastState, handler, caller, mechanism, driven, doubt>>

\* The node ends: by its shutdown hook, which writes the idle duty, or not.
Exit ==
  /\ up
  /\ up' = FALSE /\ port' = "none"
  /\ \E hook \in BOOLEAN : driven' = (driven /\ ~(hook /\ port = "good"))
  /\ IF handler = "none" THEN UNCHANGED <<mechanism, doubt, handler, caller>> ELSE CutOff
  /\ UNCHANGED <<library, timer, device, lastState>>

\* Nothing moves at the start, and nothing is known of the position.
Boot ==
  /\ ~up
  /\ up' = TRUE /\ timer' = TRUE /\ port' = Connect /\ lastState' = "unknown"
  /\ UNCHANGED <<library, device, handler, caller, mechanism, driven, doubt>>

Unplug ==
  /\ device
  /\ device' = FALSE
  /\ port' = IF port = "good" THEN "stale" ELSE port
  /\ UNCHANGED <<library, up, timer, lastState, handler, caller, mechanism, driven, doubt>>

Plug ==
  /\ ~device
  /\ device' = TRUE
  /\ UNCHANGED <<library, up, timer, port, lastState, handler, caller, mechanism, driven, doubt>>

-----------------------------------------------------------------------------
(* Properties.                                                             *)

\* The position by which the node refuses a request as a repeated one is the
\* position of the mechanism, unless the last move was cut off (last_state of
\* _set_released, over failures and restarts).
RepeatMeansThere ==
  lastState # "unknown" /\ up /\ handler = "none" => mechanism = lastState \/ doubt

\* The servo is driven against its stop only during a move, or after one that
\* was cut off (servo.yaml, idle_after_move).
DriveEnds == driven => handler # "none" \/ doubt

\* A device that stays is used again, however often it has gone before: the
\* health check reopens the port.  Only with pyserial: see HealthCheck.
Reconnects ==
  library = "pyserial" => (<>[](up /\ device) => <>[](port = "good"))
=============================================================================
