------------------------ MODULE ExampleFlight_proofs ------------------------
(***************************************************************************)
(* The command plugin and the example flight, for any number of callers,   *)
(* commands, requests and spurious wake-ups.  First the plugin alone: an   *)
(* answer of success is about the caller's own request, a call of its      *)
(* command that went unheard, or a request of another station.  The        *)
(* example's steps are steps of the plugin, so the same holds with the     *)
(* example as a caller.  Then what a stop promises.                        *)
(***************************************************************************)
EXTENDS ExampleFlight, TLAPS

LEMMA PluginInitInv == PluginInit => PluginInv
BY PluginAssumption
DEF PluginInit, PluginInv, PluginTypeOK, OneTransaction, IdsAreNew, MessagesOwned, ResultsTrue,
    SuccessIsOwn, InList, Final, NewTransaction, Request, Ack, AckResult, Ids, Foreign

\* What handle_command_ack may be given.
ForeignAck == [id : {Foreign}, command : Commands, result : AckResult]

LEMMA LinkSteps ==
  Link => \/ \E m \in onLink : FcuAnswers(m) \/ FcuIsBusy(m)
          \/ \E a \in acks \cup ForeignAck : HandlesAck(a)
BY DEF Link, ForeignAck

LEMMA PluginTypePreserved ==
  ASSUME PluginTypeOK, [PluginNext]_pluginVars PROVE PluginTypeOK'
<1> USE PluginAssumption DEF PluginTypeOK, Request, Ack, AckResult, Ids, Foreign, answered, link
<1>1. ASSUME NEW c \in Callers, NEW k \in Commands, Sends(c, k) PROVE PluginTypeOK'
  BY <1>1 DEF Sends, NewTransaction
<1>2. ASSUME NEW c \in Callers, NEW k \in Commands, Refuses(c, k) PROVE PluginTypeOK'
  BY <1>2 DEF Refuses
<1>3. ASSUME NEW c \in Callers, Callback(c) \/ WakesUp(c) PROVE PluginTypeOK'
  <2>1. CASE BeginsToWait(c) \/ TimesOut(c) \/ WakesUp(c)
    <3>1. /\ at' = [at EXCEPT ![c] = "waiting"] \/ at' = [at EXCEPT ![c] = "timedout"]
             \/ at' = [at EXCEPT ![c] = "woken"]
          /\ wakeups' \in 0 .. MaxSpurious
          /\ UNCHANGED <<request, result, reply, calls, onLink, acks, accepted, unheard>>
      BY <2>1 DEF BeginsToWait, TimesOut, WakesUp
    <3>2. at' \in [Callers -> {"idle", "sent", "waiting", "woken", "timedout"}]
      BY <3>1
    <3>3. QED
      BY <3>1, <3>2
  <2>2. CASE Returns(c)
    <3>1. unheard' \subseteq Request
      BY <2>2 DEF Returns
    <3>2. reply' \in [Callers -> {"none", "refused", "success", "failure"}]
      BY <2>2 DEF Returns
    <3>3. at' \in [Callers -> {"idle", "sent", "waiting", "woken", "timedout"}]
      BY <2>2 DEF Returns
    <3>4. QED
      BY <2>2, <3>1, <3>2, <3>3 DEF Returns
  <2>3. QED
    BY <1>3, <2>1, <2>2 DEF Callback
<1>4. ASSUME NEW m \in onLink, FcuAnswers(m) PROVE PluginTypeOK'
  <2>1. PICK r \in {"ACCEPTED", "DENIED"} :
          /\ onLink' = onLink \ {m}
          /\ accepted' = IF r = "ACCEPTED" THEN accepted \cup {m.id} ELSE accepted
          /\ acks' = acks \cup {[id |-> m.id, command |-> m.command, result |-> r]}
          /\ UNCHANGED <<at, answered, result, calls, wakeups, unheard>>
    BY <1>4 DEF FcuAnswers
  <2>2. m.id \in 0 .. MaxCalls /\ m.command \in Commands
    OBVIOUS
  <2>3. accepted' \subseteq 0 .. MaxCalls
    BY <2>1, <2>2
  <2>4. QED
    BY <2>1, <2>2, <2>3
<1>5. ASSUME NEW m \in onLink, FcuIsBusy(m) PROVE PluginTypeOK'
  BY <1>5 DEF FcuIsBusy
<1>6. ASSUME NEW a \in acks \cup ForeignAck, HandlesAck(a) PROVE PluginTypeOK'
  <2>1. /\ at' \in [Callers -> {"idle", "sent", "waiting", "woken", "timedout"}]
        /\ result' \in [Callers -> [result : AckResult \cup {"FAILED"}, of : Ids \cup {Foreign}]]
    BY <1>6 DEF HandlesAck, ForeignAck
  <2>2. acks' \subseteq Ack
    BY <1>6 DEF HandlesAck
  <2>3. QED
    BY <1>6, <2>1, <2>2 DEF HandlesAck
<1>7. CASE UNCHANGED pluginVars
  BY <1>7 DEF pluginVars
<1>8. QED
  BY <1>1, <1>2, <1>3, <1>4, <1>5, <1>6, <1>7, LinkSteps DEF PluginNext

\* A request is sent: its id and its transaction are new.
LEMMA SendsInv ==
  ASSUME PluginInv, NEW c \in Callers, NEW k \in Commands, Sends(c, k), PluginTypeOK'
  PROVE  PluginInv'
<1> DEFINE m == [id |-> calls + 1, command |-> k]
<1> USE PluginAssumption DEF PluginTypeOK, Request, Ack, AckResult, Ids, Foreign
<1>1. /\ at[c] = "idle" /\ at' = [at EXCEPT ![c] = "sent"] /\ calls \in Nat /\ calls' = calls + 1
      /\ request' = [request EXCEPT ![c] = m] /\ result' = [result EXCEPT ![c] = NewTransaction]
      /\ reply' = [reply EXCEPT ![c] = "none"] /\ onLink' = onLink \cup {m}
      /\ UNCHANGED <<acks, accepted, unheard>> /\ Final' = Final
      /\ \A d \in Callers : at[d] # "idle" => request[d].command # k
  BY DEF PluginInv, Sends, InList, Final
<1>2. \A n \in onLink \cup Final : n.id <= calls /\ n.id \in Nat
  BY <1>1 DEF PluginInv, MessagesOwned, IdsAreNew, Final
<1>3. OneTransaction' /\ IdsAreNew'
  BY <1>1 DEF PluginInv, OneTransaction, IdsAreNew, InList
<1>4. MessagesOwned'
  <2>1. ASSUME NEW n \in onLink' \cup Final'
        PROVE /\ n.id > 0
              /\ \/ \E d \in Callers : /\ at'[d] # "idle"
                                       /\ request'[d].id = n.id /\ request'[d].command = n.command
                 \/ \E u \in unheard' : u.id = n.id /\ u.command = n.command
    <3>1. CASE n = m
      BY <1>1, <3>1 DEF PluginInv, NewTransaction
    <3>2. CASE n \in onLink \cup Final
      <4>1. \A d \in Callers : at[d] # "idle" => d # c
        BY <1>1
      <4>2. QED
        BY <1>1, <3>2, <4>1 DEF PluginInv, MessagesOwned
    <3>3. QED
      BY <1>1, <2>1, <3>1, <3>2
  <2>2. \A n \in onLink \cup Final : n.id # m.id
    BY <1>1, <1>2
  <2>3. QED
    BY <1>1, <2>1, <2>2 DEF PluginInv, MessagesOwned
<1>5. ResultsTrue'
  BY <1>1 DEF PluginInv, ResultsTrue, NewTransaction
<1>6. SuccessIsOwn'
  BY <1>1 DEF PluginInv, SuccessIsOwn
<1>7. QED
  BY <1>3, <1>4, <1>5, <1>6 DEF PluginInv

\* A callback begins to wait, times out or wakes up: only its place changes.
LEMMA MovesInv ==
  ASSUME PluginInv, NEW c \in Callers, PluginTypeOK',
         BeginsToWait(c) \/ TimesOut(c) \/ WakesUp(c)
  PROVE  PluginInv'
<1>1. /\ UNCHANGED <<request, reply, result, calls, onLink, acks, accepted, unheard>>
      /\ Final' = Final
      /\ \A d \in Callers : at'[d] = "idle" <=> at[d] = "idle"
  BY DEF BeginsToWait, TimesOut, WakesUp, answered, link, Final, PluginInv, PluginTypeOK
<1>2. QED
  BY <1>1 DEF PluginInv, OneTransaction, IdsAreNew, MessagesOwned, ResultsTrue, SuccessIsOwn, InList

\* A call returns: its transaction is gone, and if its final acknowledgement has
\* not come, it is among the unheard.
LEMMA ReturnsInv ==
  ASSUME PluginInv, NEW c \in Callers, Returns(c), PluginTypeOK'
  PROVE  PluginInv'
<1> USE PluginAssumption DEF PluginTypeOK, Request, Ack, AckResult, Ids, Foreign
<1>1. /\ at[c] # "idle" /\ at' = [at EXCEPT ![c] = "idle"]
      /\ UNCHANGED <<request, result, calls, onLink, acks, accepted>> /\ Final' = Final
      /\ unheard \subseteq unheard'
      /\ unheard' \subseteq unheard \cup {request[c]}
      /\ \A n \in onLink \cup Final : n.id = request[c].id => request[c] \in unheard'
      /\ reply' = [reply EXCEPT ![c] = reply'[c]]
      /\ reply'[c] = "success" => result[c].result = "ACCEPTED"
  BY DEF PluginInv, Returns, link, Final
<1>2. OneTransaction'
  <2>1. \A d \in Callers : at'[d] # "idle" => at[d] # "idle" /\ d # c
    BY <1>1 DEF PluginInv
  <2>2. \A d \in Callers : at'[d] # "idle" => request[d].command # request[c].command
    BY <1>1, <2>1 DEF PluginInv, OneTransaction, InList
  <2>3. QED
    BY <1>1, <2>1, <2>2 DEF PluginInv, OneTransaction, InList
<1>3. IdsAreNew'
  BY <1>1 DEF PluginInv, IdsAreNew
<1>4. MessagesOwned'
  <2>1. ASSUME NEW n \in onLink \cup Final
        PROVE \/ \E d \in Callers : /\ at'[d] # "idle"
                                    /\ request'[d].id = n.id /\ request'[d].command = n.command
              \/ \E u \in unheard' : u.id = n.id /\ u.command = n.command
    <3>1. CASE \E u \in unheard : u.id = n.id /\ u.command = n.command
      BY <1>1, <3>1
    <3>2. ASSUME NEW d \in Callers, at[d] # "idle",
                 request[d].id = n.id, request[d].command = n.command
          PROVE  \/ \E e \in Callers : /\ at'[e] # "idle"
                                       /\ request'[e].id = n.id /\ request'[e].command = n.command
                 \/ \E u \in unheard' : u.id = n.id /\ u.command = n.command
      <4>1. CASE d = c
        BY <1>1, <3>2, <4>1
      <4>2. CASE d # c
        BY <1>1, <3>2, <4>2 DEF PluginInv
      <4>3. QED
        BY <4>1, <4>2
    <3>3. QED
      BY <3>1, <3>2 DEF PluginInv, MessagesOwned
  <2>2. QED
    BY <1>1, <2>1 DEF PluginInv, MessagesOwned
<1>5. ResultsTrue'
  BY <1>1 DEF PluginInv, ResultsTrue
<1>6. SuccessIsOwn'
  <2>1. ASSUME reply'[c] = "success"
        PROVE  \/ request[c].id \in accepted
               \/ result[c].of = Foreign
               \/ \E u \in unheard : /\ u.command = request[c].command
                                     /\ u.id = result[c].of /\ u.id \in accepted
    BY <1>1, <2>1 DEF PluginInv, ResultsTrue
  <2>2. \A d \in Callers : d # c => reply'[d] = reply[d]
    BY <1>1 DEF PluginInv
  <2>3. QED
    BY <1>1, <2>1, <2>2 DEF PluginInv, SuccessIsOwn
<1>7. QED
  BY <1>2, <1>3, <1>4, <1>5, <1>6 DEF PluginInv

\* The flight controller answers: the request becomes its acknowledgement.
LEMMA FcuInv ==
  ASSUME PluginInv, NEW m \in onLink, FcuAnswers(m) \/ FcuIsBusy(m), PluginTypeOK'
  PROVE  PluginInv'
<1>1. CASE FcuIsBusy(m)
  <2>1. Final' = Final
    BY <1>1 DEF FcuIsBusy, Final
  <2>2. QED
    BY <1>1, <2>1 DEF FcuIsBusy, PluginInv, OneTransaction, IdsAreNew, MessagesOwned, ResultsTrue,
                      SuccessIsOwn, InList, answered
<1>2. CASE FcuAnswers(m)
  <2>1. PICK r \in {"ACCEPTED", "DENIED"} :
          /\ onLink' = onLink \ {m}
          /\ accepted' = IF r = "ACCEPTED" THEN accepted \cup {m.id} ELSE accepted
          /\ acks' = acks \cup {[id |-> m.id, command |-> m.command, result |-> r]}
          /\ UNCHANGED <<at, answered, result, calls, wakeups, unheard>>
    BY <1>2 DEF FcuAnswers
  <2> DEFINE a == [id |-> m.id, command |-> m.command, result |-> r]
  <2>2. Final' = Final \cup {a} /\ UNCHANGED <<request, reply>> /\ accepted \subseteq accepted'
    BY <2>1 DEF Final, answered
  <2>3. OneTransaction' /\ IdsAreNew' /\ SuccessIsOwn'
    BY <2>1, <2>2 DEF PluginInv, OneTransaction, IdsAreNew, SuccessIsOwn, InList
  <2>4. MessagesOwned'
    BY <2>1, <2>2 DEF PluginInv, MessagesOwned
  <2>5. ResultsTrue'
    BY <2>1, <2>2 DEF PluginInv, ResultsTrue
  <2>6. QED
    BY <2>3, <2>4, <2>5 DEF PluginInv
<1>3. QED
  BY <1>1, <1>2

\* An acknowledgement is handled: it belongs to the transaction that takes it, to
\* an unheard call, or to nobody here.
LEMMA AckInv ==
  ASSUME PluginInv, NEW a \in acks \cup ForeignAck, HandlesAck(a), PluginTypeOK'
  PROVE  PluginInv'
<1> USE PluginAssumption DEF PluginTypeOK, Request, Ack, AckResult, Ids, Foreign
<1>1. /\ acks' = acks \ {a} /\ Final' = Final \ {a}
      /\ UNCHANGED <<request, reply, calls, onLink, accepted, unheard>>
  BY DEF HandlesAck, answered, Final
<1>2. CASE UNCHANGED <<at, result>>
  <2>1. OneTransaction' /\ IdsAreNew' /\ SuccessIsOwn'
    BY <1>1, <1>2 DEF PluginInv, OneTransaction, IdsAreNew, SuccessIsOwn, InList
  <2>2. MessagesOwned'
    BY <1>1, <1>2 DEF PluginInv, MessagesOwned
  <2>3. ResultsTrue'
    BY <1>1, <1>2 DEF PluginInv, ResultsTrue
  <2>4. QED
    BY <2>1, <2>2, <2>3 DEF PluginInv
<1>3. ASSUME NEW c \in Callers, InList(c, a.command),
             result' = [result EXCEPT ![c] =
               [result |-> a.result, of |-> IF a.result = "IN_PROGRESS" THEN 0 ELSE a.id]],
             at' = [at EXCEPT ![c] = IF @ = "waiting" THEN "woken" ELSE @]
      PROVE  PluginInv'
  <2>1. /\ at[c] # "idle" /\ request[c].command = a.command
        /\ \A d \in Callers : at'[d] = "idle" <=> at[d] = "idle"
        /\ \A d \in Callers : d # c => result'[d] = result[d]
        /\ result'[c].result = a.result
        /\ result'[c].of = IF a.result = "IN_PROGRESS" THEN 0 ELSE a.id
    BY <1>3 DEF InList, PluginInv
  <2>2. OneTransaction' /\ IdsAreNew'
    BY <1>1, <2>1 DEF PluginInv, OneTransaction, IdsAreNew, InList
  <2>3. SuccessIsOwn'
    <3>1. reply[c] # "success"
      BY <2>1 DEF PluginInv, OneTransaction
    <3>2. QED
      BY <1>1, <2>1, <3>1 DEF PluginInv, SuccessIsOwn
  <2>4. MessagesOwned'
    BY <1>1, <2>1 DEF PluginInv, MessagesOwned
  <2>5. ResultsTrue'
    <3>1. CASE a.result = "IN_PROGRESS"
      <4>1. result'[c].of = 0 /\ result'[c].result # "ACCEPTED"
        BY <2>1, <3>1
      <4>2. QED
        BY <1>1, <2>1, <4>1 DEF PluginInv, ResultsTrue
    <3>2. CASE a \in ForeignAck /\ a.result # "IN_PROGRESS"
      <4>1. result'[c].of = Foreign
        BY <2>1, <3>2 DEF ForeignAck
      <4>2. QED
        BY <1>1, <2>1, <4>1 DEF PluginInv, ResultsTrue
    <3>3. CASE a \in Final
      <4>1. a.id > 0 /\ result'[c].of = a.id
        BY <2>1, <3>3 DEF PluginInv, MessagesOwned, Final
      <4>2. \/ \E d \in Callers : /\ at[d] # "idle"
                                  /\ request[d].id = a.id /\ request[d].command = a.command
            \/ \E u \in unheard : u.id = a.id /\ u.command = a.command
        BY <3>3 DEF PluginInv, MessagesOwned
      <4>3. \/ a.id = request[c].id
            \/ \E u \in unheard : u.command = request[c].command /\ u.id = a.id
        BY <2>1, <4>2 DEF PluginInv, OneTransaction, InList
      <4>4. result'[c].result = "ACCEPTED" => a.id \in accepted
        BY <2>1, <3>3 DEF PluginInv, ResultsTrue, Final
      <4>5. \A b \in acks' : b.result = "ACCEPTED" => b.id \in accepted'
        BY <1>1 DEF PluginInv, ResultsTrue
      <4>6. ASSUME NEW d \in Callers, result'[d].of # Foreign
            PROVE /\ result'[d].result = "ACCEPTED" => result'[d].of \in accepted' /\ result'[d].of > 0
                  /\ result'[d].of > 0 =>
                       \/ result'[d].of = request'[d].id
                       \/ \E u \in unheard' : u.command = request'[d].command /\ u.id = result'[d].of
        <5>1. CASE d = c
          BY <1>1, <4>1, <4>3, <4>4, <5>1
        <5>2. CASE d # c
          BY <1>1, <2>1, <4>6, <5>2 DEF PluginInv, ResultsTrue
        <5>3. QED
          BY <5>1, <5>2
      <4>7. QED
        BY <4>5, <4>6 DEF ResultsTrue
    <3>4. QED
      BY <3>1, <3>2, <3>3 DEF Final
  <2>6. QED
    BY <2>2, <2>3, <2>4, <2>5 DEF PluginInv
<1>4. QED
  BY <1>2, <1>3 DEF HandlesAck

LEMMA PluginStepInv == PluginInv /\ [PluginNext]_pluginVars => PluginInv'
<1> SUFFICES ASSUME PluginInv, [PluginNext]_pluginVars PROVE PluginInv'
  OBVIOUS
<1>1. PluginTypeOK'
  BY PluginTypePreserved DEF PluginInv
<1>2. ASSUME NEW c \in Callers, NEW k \in Commands, Refuses(c, k) PROVE PluginInv'
  <2>1. /\ UNCHANGED <<at, request, result, calls, onLink, acks, accepted, unheard>>
        /\ \A d \in Callers : \/ reply'[d] = reply[d]
                              \/ at[d] = "idle" /\ reply'[d] = "refused"
    BY <1>2 DEF Refuses, link, PluginInv, PluginTypeOK
  <2>2. QED
    BY <1>1, <2>1 DEF PluginInv, OneTransaction, IdsAreNew, MessagesOwned, ResultsTrue, SuccessIsOwn,
                      InList, Final
<1>3. CASE UNCHANGED pluginVars
  BY <1>1, <1>3 DEF pluginVars, PluginInv, OneTransaction, IdsAreNew, MessagesOwned, ResultsTrue,
                    SuccessIsOwn, InList, Final
<1>4. QED
  BY <1>1, <1>2, <1>3, SendsInv, MovesInv, ReturnsInv, FcuInv, AckInv, LinkSteps
  DEF PluginNext, Callback

\* The plugin, whoever calls it, and whoever else talks to the flight controller:
\* success is about the caller's own request, or the acknowledgement it was given
\* is that of an unheard call of its command or of another station's request.
THEOREM PluginAnswersOwn == PluginSpec => []SuccessIsOwn
<1>1. PluginInv => SuccessIsOwn
  BY DEF PluginInv
<1>2. QED
  BY <1>1, PluginInitInv, PluginStepInv, PTL DEF PluginSpec

LEMMA FlightStepIsPluginStep == [Next]_vars => [PluginNext]_pluginVars
<1>1. Flight => [PluginNext]_pluginVars
  BY ExampleAssumption
  DEF Flight, TakesStart, SetsUsed, SetsActive, ChecksGround, Prestreams, RequestsMode, Arms,
      ArmAnswered, TakesOff, Hovers, FliesLegs, FliesHome, Turn, Looks, Publishes, Misses,
      BeginsLanding, RequestsLanding, StopsWaiting, PluginNext
<1>2. Services => UNCHANGED pluginVars
  BY DEF Services, StartPasses, StartSets, StopPasses, StopSets, ThreadStays
<1>3. Operates => [PluginNext]_pluginVars
  BY ExampleAssumption DEF Operates, PluginNext
<1>4. UNCHANGED vars => UNCHANGED pluginVars
  BY DEF vars, pluginVars
<1>5. QED
  BY <1>1, <1>2, <1>3, <1>4 DEF Next, Commanded, PluginNext

\* The example with the plugin is a behaviour of the plugin.
THEOREM ExampleUsesPlugin == Spec => PluginSpec
BY FlightStepIsPluginStep, PTL DEF Spec, Init, PluginSpec

\* A take-off, in particular, follows an arming that the flight controller has
\* carried out, with the exceptions of SuccessIsOwn.
THEOREM ExampleAnswersOwn == Spec => []SuccessIsOwn
BY ExampleUsesPlugin, PluginAnswersOwn, PTL

-----------------------------------------------------------------------------

\* The Boolean variables of the flight: their type is a step of its own in each case.
Booleans ==
  /\ start_requested \in BOOLEAN /\ stop_requested \in BOOLEAN /\ used \in BOOLEAN
  /\ active \in BOOLEAN /\ landing \in BOOLEAN /\ looked \in BOOLEAN
  /\ starting \in BOOLEAN /\ stopping \in BOOLEAN /\ stoppedEarly \in BOOLEAN

LEMMA FlightInitInv == Init => FlightInv
<1> SUFFICES ASSUME Init PROVE FlightInv
  OBVIOUS
<1>1. Booleans
  BY DEF Init, Booleans
<1>2. PluginTypeOK /\ request[flight].id = 0
  BY PluginInitInv, ExampleAssumption DEF Init, PluginInv, PluginInit
<1>3. QED
  BY <1>1, <1>2
  DEF Init, FlightInv, TypeOK, Booleans, StopEndsTargets, Scripts, Places, BeforeStreaming, Loops

LEMMA FlightStepInv == FlightInv /\ [Next]_vars => FlightInv'
<1> SUFFICES ASSUME FlightInv, [Next]_vars PROVE FlightInv'
  OBVIOUS
<1>1. PluginTypeOK'
  BY PluginTypePreserved, FlightStepIsPluginStep DEF FlightInv, TypeOK
<1>2. ASSUME UNCHANGED pluginVars PROVE UNCHANGED request
  BY <1>2 DEF pluginVars
<1>3. Booleans
  BY DEF FlightInv, TypeOK, Booleans
<1> USE ExampleAssumption
    DEF FlightInv, TypeOK, StopEndsTargets, Scripts, Places, BeforeStreaming, Loops, services, flags,
        history, Goes, Ends
<1>4. CASE TakesStart
  <2>1. Booleans'
    BY <1>3, <1>4 DEF Booleans, TakesStart
  <2>2. QED
    BY <1>1, <1>2, <1>4, <2>1 DEF Booleans, TakesStart
<1>5. CASE SetsUsed
  <2>1. Booleans'
    BY <1>3, <1>5 DEF Booleans, SetsUsed
  <2>2. QED
    BY <1>1, <1>2, <1>5, <2>1 DEF Booleans, SetsUsed
<1>6. CASE SetsActive
  <2>1. Booleans'
    BY <1>3, <1>6 DEF Booleans, SetsActive
  <2>2. QED
    BY <1>1, <1>2, <1>6, <2>1 DEF Booleans, SetsActive
<1>7. CASE Services
  <2>1. Booleans'
    BY <1>3, <1>7 DEF Booleans, Services, StartPasses, StartSets, StopPasses, StopSets, ThreadStays
  <2>2. QED
    BY <1>1, <1>2, <1>7, <2>1 DEF Booleans, Services, StartPasses, StartSets, StopPasses, StopSets, ThreadStays
<1>8. CASE ChecksGround
  <2>1. Booleans'
    BY <1>3, <1>8 DEF Booleans, ChecksGround
  <2>2. QED
    BY <1>1, <1>2, <1>8, <2>1 DEF Booleans, ChecksGround
<1>9. CASE Prestreams
  <2>1. Booleans'
    BY <1>3, <1>9 DEF Booleans, Prestreams, Turn, Looks, Publishes, Misses, Issue
  <2>2. QED
    BY <1>1, <1>2, <1>9, <2>1 DEF Booleans, Prestreams, Turn, Looks, Publishes, Misses, Issue
<1>10. CASE RequestsMode
  <2>1. Booleans'
    BY <1>3, <1>10 DEF Booleans, RequestsMode
  <2>2. QED
    BY <1>1, <1>2, <1>10, <2>1 DEF Booleans, RequestsMode
<1>11. CASE Arms
  <2>1. Booleans'
    BY <1>3, <1>11 DEF Booleans, Arms
  <2>2. QED
    BY <1>1, <1>2, <1>11, <2>1 DEF Booleans, Arms
<1>12. CASE ArmAnswered
  <2>1. Booleans'
    BY <1>3, <1>12 DEF Booleans, ArmAnswered
  <2>2. QED
    BY <1>1, <1>2, <1>12, <2>1 DEF Booleans, ArmAnswered
<1>13. CASE TakesOff
  <2>1. Booleans'
    BY <1>3, <1>13 DEF Booleans, TakesOff, Turn, Looks, Publishes, Misses, Issue
  <2>2. QED
    BY <1>1, <1>2, <1>13, <2>1 DEF Booleans, TakesOff, Turn, Looks, Publishes, Misses, Issue
<1>14. CASE Hovers
  <2>1. Booleans'
    BY <1>3, <1>14 DEF Booleans, Hovers, Turn, Looks, Publishes, Misses, Issue
  <2>2. QED
    BY <1>1, <1>2, <1>14, <2>1 DEF Booleans, Hovers, Turn, Looks, Publishes, Misses, Issue
<1>15. CASE FliesLegs
  <2>1. Booleans'
    BY <1>3, <1>15 DEF Booleans, FliesLegs, Turn, Looks, Publishes, Misses, Issue
  <2>2. QED
    BY <1>1, <1>2, <1>15, <2>1 DEF Booleans, FliesLegs, Turn, Looks, Publishes, Misses, Issue
<1>16. CASE FliesHome
  <2>1. Booleans'
    BY <1>3, <1>16 DEF Booleans, FliesHome, Turn, Looks, Publishes, Misses, Issue
  <2>2. QED
    BY <1>1, <1>2, <1>16, <2>1 DEF Booleans, FliesHome, Turn, Looks, Publishes, Misses, Issue
<1>17. CASE BeginsLanding
  <2>1. Booleans'
    BY <1>3, <1>17 DEF Booleans, BeginsLanding, MayLand
  <2>2. QED
    BY <1>1, <1>2, <1>17, <2>1 DEF Booleans, BeginsLanding, MayLand
<1>18. CASE RequestsLanding
  <2>1. Booleans'
    BY <1>3, <1>18 DEF Booleans, RequestsLanding
  <2>2. QED
    BY <1>1, <1>2, <1>18, <2>1 DEF Booleans, RequestsLanding
<1>19. CASE StopsWaiting
  <2>1. Booleans'
    BY <1>3, <1>19 DEF Booleans, StopsWaiting
  <2>2. QED
    BY <1>1, <1>2, <1>19, <2>1 DEF Booleans, StopsWaiting
<1>20. ASSUME FlightStays, request'[flight] = request[flight] PROVE FlightInv'
  <2>1. Booleans'
    BY <1>3, <1>20 DEF Booleans, FlightStays, flightVars
  <2>2. QED
    BY <1>1, <1>20, <2>1 DEF Booleans, FlightStays, flightVars
<1>21. CASE Operates
  <2>1. request'[flight] = request[flight]
    BY <1>21 DEF Operates, Sends, Refuses, PluginTypeOK
  <2>2. QED
    BY <1>20, <1>21, <2>1 DEF Operates
<1>22. CASE \/ \E c \in Callers : Commanded(c) \/ (WakesUp(c) /\ FlightStays)
            \/ Link /\ FlightStays
  <2>1. UNCHANGED request
    BY <1>22 DEF Commanded, Callback, BeginsToWait, TimesOut, Returns, WakesUp, Link, FcuAnswers,
                 FcuIsBusy, HandlesAck, answered
  <2>2. QED
    BY <1>20, <1>22, <2>1 DEF Commanded
<1>23. CASE UNCHANGED vars
  <2>1. FlightStays /\ UNCHANGED request
    BY <1>23 DEF vars, pluginVars, FlightStays
  <2>2. QED
    BY <1>20, <2>1
<1>24. QED
  BY <1>4, <1>5, <1>6, <1>7, <1>8, <1>9, <1>10, <1>11, <1>12, <1>13,
     <1>14, <1>15, <1>16, <1>17, <1>18, <1>19, <1>21, <1>22, <1>23 DEF Next, Flight

LEMMA FlightInvariant == Spec => []FlightInv
BY FlightInitInv, FlightStepInv, PTL DEF Spec

\* The variables of the example stay in their sets; AUTO.LAND is requested once.
THEOREM ExampleTypes == Spec => []TypeOK
<1>1. FlightInv => TypeOK
  BY DEF FlightInv
<1>2. QED
  BY <1>1, FlightInvariant, PTL

\* A stop set before the targets are streamed leaves the aircraft disarmed.
THEOREM EarlyStopPreventsArming == Spec => []StopPreventsArming
<1>1. FlightInv => StopPreventsArming
  BY DEF FlightInv, StopPreventsArming
<1>2. QED
  BY <1>1, FlightInvariant, PTL

\* Wherever a stop is set, at most one target is published afterwards: that of a turn
\* which had looked before.
THEOREM StopSilencesTargets == Spec => []StopEndsTargets
<1>1. FlightInv => StopEndsTargets
  BY DEF FlightInv
<1>2. QED
  BY <1>1, FlightInvariant, PTL
=============================================================================
