--------------------------- MODULE PayloadDelivery ---------------------------
(***************************************************************************)
(* What mission and servo node together promise of the payload: in a       *)
(* flight the mechanism is only ever opened, only in the RELEASE stage,    *)
(* and not again once it has been; the mission returns only with the       *)
(* mechanism open and opened in this stage.  Somebody else may move the    *)
(* mechanism too, but begins to do so on the ground.                       *)
(* PayloadRelease implements this specification.                           *)
(***************************************************************************)
EXTENDS Naturals

VARIABLES
  phase,      \* where the mission is
  mechanism,  \* "blocked" or "released"
  bench,      \* where an operator's move is going, or "none"
  openings    \* how often the mechanism has been opened in the stage

vars == <<phase, mechanism, bench, openings>>

Positions == {"blocked", "released"}

Init ==
  /\ phase = "ground" /\ mechanism \in Positions
  /\ bench = "none" /\ openings = 0

TakeOff == phase = "ground" /\ phase' = "flight" /\ UNCHANGED <<mechanism, bench, openings>>

Arrive ==
  /\ phase = "flight" /\ phase' = "release" /\ openings' = 0
  /\ UNCHANGED <<mechanism, bench>>

\* An opening that is cut off may have been made all the same, and is tried
\* again; with the last try the mission gives up.
Open ==
  /\ phase = "release" /\ bench = "none" /\ openings = 0
  /\ mechanism' = "released" /\ openings' \in {0, 1}
  /\ phase' \in {"release", "aborted"}
  /\ UNCHANGED bench

Return ==
  /\ phase = "release" /\ bench = "none" /\ openings = 1 /\ mechanism = "released"
  /\ phase' = "returned"
  /\ UNCHANGED <<mechanism, bench, openings>>

Abort ==
  /\ phase \in {"flight", "release"} /\ phase' = "aborted"
  /\ UNCHANGED <<mechanism, bench, openings>>

Land ==
  /\ phase \in {"returned", "aborted"} /\ phase' = "ground"
  /\ UNCHANGED <<mechanism, bench, openings>>

BenchBegins ==
  /\ phase = "ground" /\ bench = "none" /\ bench' \in Positions
  /\ UNCHANGED <<phase, mechanism, openings>>

\* A move that began on the ground may still end in the air; one that is cut
\* off has been made or not.
BenchEnds ==
  /\ bench # "none" /\ bench' = "none"
  /\ mechanism' \in {mechanism, bench}
  /\ \/ UNCHANGED openings
     \/ /\ phase = "release" /\ bench = "released" /\ mechanism' = "released"
        /\ openings = 0 /\ openings' = 1
  /\ UNCHANGED phase

Next ==
  \/ TakeOff \/ Arrive \/ Open \/ Return \/ Abort \/ Land \/ BenchBegins \/ BenchEnds

Spec == Init /\ [][Next]_vars
=============================================================================
