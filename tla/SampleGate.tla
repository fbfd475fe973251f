----------------------------- MODULE SampleGate -----------------------------
(***************************************************************************)
(* The landing confirmation as its callers need it: a gate that counts     *)
(* consecutive valid samples of extended_state taken after Begin.          *)
(* "unseen" says that a sample has arrived that the gate has not looked at *)
(* yet; LandingConfirmation shows that the sequence numbers of landing.py  *)
(* implement exactly this.                                                 *)
(***************************************************************************)
EXTENDS Naturals

Gate == [started : BOOLEAN, unseen : BOOLEAN, count : Nat]

GateReset == [started |-> FALSE, unseen |-> FALSE, count |-> 0]

\* Mutant: the sample cached before Begin counts.
GateBegin_CountsCached == [started |-> TRUE, unseen |-> TRUE, count |-> 0]

GateBegin == [started |-> TRUE, unseen |-> FALSE, count |-> 0]

\* A new sample arrives.
GateSample(g) == [g EXCEPT !.unseen = g.started]

\* The gate looks at the newest sample, once.
GateObserve(g, valid) ==
  IF ~g.unseen THEN g
  ELSE [g EXCEPT !.unseen = FALSE, !.count = IF valid THEN g.count + 1 ELSE 0]

\* Only a look at a new sample can answer "landed".
GateOpens(g, valid, required) == g.unseen /\ GateObserve(g, valid).count >= required
=============================================================================
