------------------------- MODULE LandingConfirmation -------------------------
(***************************************************************************)
(* The landing confirmation (landing.py) with its sequence numbers, the    *)
(* extended_state callback that feeds it and the calls _drive_landing      *)
(* makes of it (scripts/mission_node.py).                                  *)
(*                                                                         *)
(* The callback stores the message and then counts it, without the lock    *)
(* under which _drive_landing reads both: begin and observe may run        *)
(* between the two.                                                        *)
(***************************************************************************)
EXTENDS Integers, FiniteSets

CONSTANTS
  Required,      \* landing.confirm_samples
  MaxSequence    \* bound on the number of messages

ASSUME LandingAssumption ==
  /\ Required \in Nat \ {0}
  /\ MaxSequence \in Nat

VARIABLES
  conf,       \* the fields of LandingConfirmation
  sequence,   \* self.extended_sequence
  stored,     \* self.extended_state: the number of the message, its content
  landed,     \* what the last observe returned
  begun,      \* history: the last message received before begin
  evidence    \* history: the messages behind the consecutive count

vars == <<conf, sequence, stored, landed, begun, evidence>>

Confirmation == [started : BOOLEAN, minimum : Nat, last : Nat, consecutive : Nat]

Message == [id : Nat, ground : BOOLEAN]

Cleared == [started |-> FALSE, minimum |-> 0, last |-> 0, consecutive |-> 0]

TypeOK ==
  /\ conf \in Confirmation
  /\ sequence \in Nat
  /\ stored \in Message
  /\ landed \in BOOLEAN
  /\ begun \in Nat
  /\ evidence \subseteq 1..stored.id

Init ==
  /\ conf = Cleared /\ sequence = 0
  /\ stored = [id |-> 0, ground |-> FALSE]
  /\ landed = FALSE /\ begun = 0 /\ evidence = {}

-----------------------------------------------------------------------------
(* _cb_extended                                                            *)

InCallback == stored.id > sequence

CbStores(ground) ==
  /\ ~InCallback /\ sequence < MaxSequence
  /\ stored' = [id |-> stored.id + 1, ground |-> ground]
  /\ UNCHANGED <<conf, sequence, landed, begun, evidence>>

CbCounts ==
  /\ InCallback
  /\ sequence' = sequence + 1
  /\ UNCHANGED <<conf, stored, landed, begun, evidence>>

-----------------------------------------------------------------------------
(* The methods, as begin_landing, cancel_landing and _drive_landing call    *)
(* them under the lock.                                                    *)

Reset ==
  /\ conf' = Cleared
  /\ landed' = FALSE /\ begun' = 0 /\ evidence' = {}
  /\ UNCHANGED <<sequence, stored>>

\* Mutants: the messages before begin count; a sequence number off by one.
BeginsAt_Zero == 0
BeginsAt_Before == sequence - 1

BeginsAt == sequence

Begin ==
  /\ ~conf.started
  /\ conf' = [started |-> TRUE, minimum |-> BeginsAt, last |-> BeginsAt, consecutive |-> 0]
  /\ landed' = FALSE /\ begun' = stored.id /\ evidence' = {}
  /\ UNCHANGED <<sequence, stored>>

\* Mutant: a message counts at every look.
IsNew_Again == sequence > conf.minimum /\ sequence >= conf.last

IsNew == sequence > conf.minimum /\ sequence > conf.last

\* healthy: disarmed, the sample and the velocity fresh, no vertical motion.
Valid(healthy) == stored.ground /\ healthy

\* Before begin, and for a message it has counted already, the answer is no.
ObserveStale ==
  /\ ~(conf.started /\ IsNew)
  /\ landed' = FALSE
  /\ UNCHANGED <<conf, sequence, stored, begun, evidence>>

ObserveNew(healthy) ==
  /\ conf.started /\ IsNew
  /\ conf' = [conf EXCEPT !.last = sequence,
                          !.consecutive = IF Valid(healthy) THEN conf.consecutive + 1 ELSE 0]
  /\ landed' = (conf'.consecutive >= Required)
  /\ evidence' = IF Valid(healthy) THEN evidence \cup {stored.id} ELSE {}
  /\ UNCHANGED <<sequence, stored, begun>>

Next ==
  \/ \E ground \in BOOLEAN : CbStores(ground)
  \/ CbCounts
  \/ Reset \/ Begin \/ ObserveStale
  \/ \E healthy \in BOOLEAN : ObserveNew(healthy)

Spec == Init /\ [][Next]_vars

-----------------------------------------------------------------------------
(* Properties.                                                             *)

\* The sequence numbers do what the node relies on: the code implements the
\* gate that MissionNode is written with.
Gate == INSTANCE LandingGate WITH
  gate <- [started |-> conf.started, unseen |-> conf.started /\ sequence > conf.last,
           count |-> conf.consecutive]

ImplementsGate == Gate!Spec

\* What a count is worth when looks fall between the halves of a callback: no
\* message from before begin counts, the one whose callback begin interrupted
\* counts once at most, and any later one twice at most.
CountIsBacked ==
  /\ \A id \in evidence : id >= begun
  /\ conf.consecutive <=
       2 * Cardinality(evidence \ {begun}) + Cardinality(evidence \cap {begun})
=============================================================================
