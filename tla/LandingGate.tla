----------------------------- MODULE LandingGate -----------------------------
(***************************************************************************)
(* What the landing confirmation promises to the node: after Begin it      *)
(* counts the consecutive valid looks at new samples, one look per sample, *)
(* and says "landed" only at a look that completes the required number.    *)
(* MissionNode uses these operators; LandingConfirmation, which has the    *)
(* sequence numbers of the code, implements this specification.            *)
(***************************************************************************)
EXTENDS SampleGate

CONSTANT Required    \* landing.confirm_samples

VARIABLES gate, landed

vars == <<gate, landed>>

Init == gate = GateReset /\ landed = FALSE

Reset  == gate' = GateReset /\ landed' = FALSE
Begin  == gate' = GateBegin /\ landed' = FALSE
Sample == gate' = GateSample(gate) /\ UNCHANGED landed

Observe(valid) ==
  /\ gate' = GateObserve(gate, valid)
  /\ landed' = GateOpens(gate, valid, Required)

Next == Reset \/ Begin \/ Sample \/ \E valid \in BOOLEAN : Observe(valid)

Spec == Init /\ [][Next]_vars
=============================================================================
