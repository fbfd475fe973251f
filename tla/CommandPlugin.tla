--------------------------- MODULE CommandPlugin ---------------------------
(***************************************************************************)
(* The command plugin of MAVROS (mavros/src/plugins/command.cpp): service  *)
(* callbacks that send a COMMAND_LONG and wait for its COMMAND_ACK, the    *)
(* handler of acknowledgements, and the flight controller behind a link    *)
(* that loses, delays and reorders.  One mutex guards the list of          *)
(* transactions, but a callback waits with the mutex of its transaction    *)
(* only, and its condition variable has no predicate.  An acknowledgement  *)
(* names the command, not the request, and the flight controller answers a *)
(* ground station on the same link, too: ids are known to the model alone. *)
(***************************************************************************)
EXTENDS Naturals

CONSTANTS
  Callers,       \* clients of the services; each makes one call at a time
  Commands,      \* MAV_CMD values
  MaxCalls,      \* bound of the model: requests sent
  MaxSpurious    \* bound of the model: wake-ups nobody asked for

ASSUME PluginAssumption == MaxCalls \in Nat /\ MaxSpurious \in Nat

VARIABLES
  at,            \* where the callback of each caller is
  request,       \* the last request of each caller
  result,        \* what its transaction holds
  reply,         \* the answer of its last call
  calls,         \* requests sent so far
  wakeups,       \* spurious wake-ups so far
  onLink,        \* requests on their way to the flight controller
  acks,          \* acknowledgements on their way back
  accepted,      \* the requests the flight controller has carried out
  unheard        \* requests whose call returned before their final acknowledgement came

answered == <<request, reply>>
link == <<onLink, acks, accepted>>
pluginVars == <<at, request, result, reply, calls, wakeups, onLink, acks, accepted, unheard>>

Ids == 0 .. MaxCalls
Request == [id : Ids, command : Commands]
AckResult == {"ACCEPTED", "IN_PROGRESS", "DENIED"}
Ack == [id : Ids, command : Commands, result : AckResult]

\* The request of another station: no caller of the plugin has made it.
Foreign == MaxCalls + 1

\* A transaction holds FAILED, of no request, until an acknowledgement is stored.
\* Mutant: a transaction begins with ACCEPTED.
NewTransaction_Accepted == [result |-> "ACCEPTED", of |-> 0]

NewTransaction == [result |-> "FAILED", of |-> 0]

PluginInit ==
  /\ at = [c \in Callers |-> "idle"]
  /\ request \in [Callers -> [id : {0}, command : Commands]]
  /\ result = [c \in Callers |-> NewTransaction]
  /\ reply = [c \in Callers |-> "none"]
  /\ calls = 0 /\ wakeups = 0
  /\ onLink = {} /\ acks = {} /\ accepted = {} /\ unheard = {}

\* The transactions in ack_waiting_list are those of the callers in a call.
InList(c, k) == at[c] # "idle" /\ request[c].command = k

-----------------------------------------------------------------------------
(* The service callback: send_command_long_and_wait.                       *)

\* A command in progress is refused; rospy raises a ServiceException.
Refuses(c, k) ==
  /\ at[c] = "idle"
  /\ \E d \in Callers : InList(d, k)
  /\ reply' = [reply EXCEPT ![c] = "refused"]
  /\ UNCHANGED <<at, request, result, calls, wakeups, link, unheard>>

Sends(c, k) ==
  /\ at[c] = "idle" /\ calls < MaxCalls
  /\ \A d \in Callers : ~InList(d, k)
  /\ calls' = calls + 1
  /\ at' = [at EXCEPT ![c] = "sent"]
  /\ request' = [request EXCEPT ![c] = [id |-> calls + 1, command |-> k]]
  /\ result' = [result EXCEPT ![c] = NewTransaction]
  /\ reply' = [reply EXCEPT ![c] = "none"]
  /\ onLink' = onLink \cup {request'[c]}
  /\ UNCHANGED <<wakeups, acks, accepted, unheard>>

\* wait_ack_for.  The mutex has been released: an acknowledgement that came
\* before this step has notified nobody.
BeginsToWait(c) ==
  /\ at[c] = "sent"
  /\ at' = [at EXCEPT ![c] = "waiting"]
  /\ UNCHANGED <<answered, result, calls, wakeups, link, unheard>>

TimesOut(c) ==
  /\ at[c] = "waiting"
  /\ at' = [at EXCEPT ![c] = "timedout"]
  /\ UNCHANGED <<answered, result, calls, wakeups, link, unheard>>

WakesUp(c) ==
  /\ at[c] = "waiting" /\ wakeups < MaxSpurious
  /\ at' = [at EXCEPT ![c] = "woken"]
  /\ wakeups' = wakeups + 1
  /\ UNCHANGED <<answered, result, calls, link, unheard>>

\* The final acknowledgements under way.
Final == {a \in acks : a.result # "IN_PROGRESS"}

\* With the mutex again: the answer, and the transaction leaves the list.
Returns(c) ==
  /\ at[c] \in {"woken", "timedout"}
  /\ reply' = [reply EXCEPT ![c] =
                IF at[c] = "woken" /\ result[c].result = "ACCEPTED" THEN "success" ELSE "failure"]
  /\ at' = [at EXCEPT ![c] = "idle"]
  /\ unheard' = IF \E m \in onLink \cup Final : m.id = request[c].id
                THEN unheard \cup {request[c]} ELSE unheard
  /\ UNCHANGED <<request, result, calls, wakeups, link>>

Callback(c) == BeginsToWait(c) \/ TimesOut(c) \/ Returns(c)

-----------------------------------------------------------------------------
(* The flight controller and the acknowledgements.  A message that is lost *)
(* is one that is never handled.                                           *)

FcuAnswers(m) ==
  \E r \in {"ACCEPTED", "DENIED"} :
    /\ onLink' = onLink \ {m}
    /\ accepted' = IF r = "ACCEPTED" THEN accepted \cup {m.id} ELSE accepted
    /\ acks' = acks \cup {[id |-> m.id, command |-> m.command, result |-> r]}
    /\ UNCHANGED <<at, answered, result, calls, wakeups, unheard>>

FcuIsBusy(m) ==
  /\ acks' = acks \cup {[id |-> m.id, command |-> m.command, result |-> "IN_PROGRESS"]}
  /\ UNCHANGED <<at, answered, result, calls, wakeups, onLink, accepted, unheard>>

\* handle_command_ack: the transaction of the command, if there is one, gets the
\* result, and its callback wakes up if it waits already.  Neither the sender nor
\* the addressee is looked at: the source has a note for it (XXX) and no check.
HandlesAck(a) ==
  /\ acks' = acks \ {a}
  /\ \/ /\ \A c \in Callers : ~InList(c, a.command)
        /\ UNCHANGED <<at, result>>
     \/ \E c \in Callers :
          /\ InList(c, a.command)
          /\ result' = [result EXCEPT ![c] =
               [result |-> a.result, of |-> IF a.result = "IN_PROGRESS" THEN 0 ELSE a.id]]
          /\ at' = [at EXCEPT ![c] = IF @ = "waiting" THEN "woken" ELSE @]
  /\ UNCHANGED <<answered, calls, wakeups, onLink, accepted, unheard>>

Link ==
  \/ \E m \in onLink : FcuAnswers(m) \/ FcuIsBusy(m)
  \/ \E a \in acks : HandlesAck(a)
  \/ \E k \in Commands, r \in AckResult :
       HandlesAck([id |-> Foreign, command |-> k, result |-> r])

-----------------------------------------------------------------------------
(* The plugin alone, with callers that call when they like.                *)

PluginNext ==
  \/ \E c \in Callers :
       \/ \E k \in Commands : Sends(c, k) \/ Refuses(c, k)
       \/ Callback(c) \/ WakesUp(c)
  \/ Link

PluginSpec == PluginInit /\ [][PluginNext]_pluginVars

PluginTypeOK ==
  /\ at \in [Callers -> {"idle", "sent", "waiting", "woken", "timedout"}]
  /\ request \in [Callers -> Request]
  /\ result \in [Callers -> [result : AckResult \cup {"FAILED"}, of : Ids \cup {Foreign}]]
  /\ reply \in [Callers -> {"none", "refused", "success", "failure"}]
  /\ calls \in 0 .. MaxCalls /\ wakeups \in 0 .. MaxSpurious
  /\ onLink \subseteq Request /\ acks \subseteq Ack
  /\ accepted \subseteq Ids /\ unheard \subseteq Request

\* A caller that is told of success has had its own request carried out, or the
\* acknowledgement it was given is that of an accepted request of the same command
\* which a call returned too early to hear of, or which another station made.  Both
\* exceptions are the code's: line 123 says that sources are not checked.
SuccessIsOwn ==
  \A c \in Callers : reply[c] = "success" =>
    \/ request[c].id \in accepted
    \/ result[c].of = Foreign
    \/ \E u \in unheard : /\ u.command = request[c].command
                          /\ u.id = result[c].of /\ u.id \in accepted

-----------------------------------------------------------------------------
(* The inductive invariant behind SuccessIsOwn.                            *)

\* At most one transaction of a command is in the list; it has no answer yet, and
\* every call of the command that went unheard was an earlier one.
OneTransaction ==
  /\ \A c, d \in Callers : at[c] # "idle" /\ InList(d, request[c].command) => c = d
  /\ \A c \in Callers : at[c] # "idle" =>
       /\ request[c].id > 0 /\ reply[c] = "none"
       /\ \A u \in unheard : u.command = request[c].command => u.id < request[c].id

IdsAreNew ==
  /\ \A c \in Callers : request[c].id <= calls
  /\ \A u \in unheard : u.id <= calls
  /\ \A c, d \in Callers : request[c].id = request[d].id => c = d \/ request[c].id = 0

\* A request, or its final acknowledgement, is on its way once; its call waits for
\* it or is over.
MessagesOwned ==
  /\ \A m \in onLink \cup Final :
       /\ m.id > 0
       /\ \/ \E c \in Callers : /\ at[c] # "idle"
                                /\ request[c].id = m.id /\ request[c].command = m.command
          \/ \E u \in unheard : u.id = m.id /\ u.command = m.command
  /\ \A m, n \in onLink : m.id = n.id => m = n
  /\ \A m \in onLink : \A a \in Final : m.id # a.id
  /\ \A a, b \in Final : a.id = b.id => a = b

\* What a transaction holds: its own result, that of an unheard call, or that of
\* another station.
ResultsTrue ==
  /\ \A a \in acks : a.result = "ACCEPTED" => a.id \in accepted
  /\ \A c \in Callers : result[c].of # Foreign =>
       /\ result[c].result = "ACCEPTED" => result[c].of \in accepted /\ result[c].of > 0
       /\ result[c].of > 0 =>
            \/ result[c].of = request[c].id
            \/ \E u \in unheard : u.command = request[c].command /\ u.id = result[c].of

PluginInv ==
  PluginTypeOK /\ OneTransaction /\ IdsAreNew /\ MessagesOwned /\ ResultsTrue /\ SuccessIsOwn
=============================================================================
