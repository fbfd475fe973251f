----------------------------- MODULE TagTracker -----------------------------
(***************************************************************************)
(* The tag tracker of the mission (robotac_mission/tag_tracker.py) as      *)
(* operators on a record: Update is one call of update().  Positions are   *)
(* places on a line; times are counted in units and are as old as the      *)
(* tracker asks for at most.  The list of samples is kept as the number of *)
(* samples and the places they lie at: their mean is somewhere between.    *)
(***************************************************************************)
EXTENDS Integers

CONSTANTS
  Places,         \* where a tag can be
  StableSamples,  \* tag.stable_samples
  StableTime,     \* tag.stable_time
  JumpLimit,      \* control.tag_jump_limit
  TagTimeout      \* timing.tag_timeout

ASSUME TrackerAssumption ==
  /\ Places \subseteq Nat
  /\ StableSamples \in Nat \ {0} /\ StableTime \in Nat
  /\ JumpLimit \in Nat /\ TagTimeout \in Nat

\* A place not known, a time that has not come.
None == -1

Distance(p, q) == IF p < q THEN q - p ELSE p - q

Between(places) == {p \in Places : \E a, b \in places : a <= p /\ p <= b}

\* The newest message on /tag_detections: what _to_map makes of it, its age, and
\* whether the tracker has still to take note of its stamp.
Message == [sight : {"nothing", "unplaced", "tag"}, place : Places \cup {None},
            unread : BOOLEAN, age : 0 .. TagTimeout + 1]

Tracker == [pose : Places \cup {None},             \* pose_map
            fresh : BOOLEAN,
            samples : 0 .. StableSamples,           \* len(_samples)
            window : SUBSET Places,                 \* where they lie
            last : Places \cup {None},              \* _last_sample
            since : None .. StableTime]             \* the age of _stable_since

NewTracker == [pose |-> None, fresh |-> FALSE, samples |-> 0, window |-> {},
               last |-> None, since |-> None]

Clear(t) == [t EXCEPT !.samples = 0, !.window = {}, !.since = None]

\* Mutant: a jump does not open a new window.
Reopen_Keeps(t, place) == t

\* A jump opens a new window.
Reopen(t, place) ==
  IF t.last # None /\ Distance(place, t.last) > JumpLimit THEN Clear(t) ELSE t

Take(t, place) ==
  [t EXCEPT !.since = IF t.samples = 0 THEN 0 ELSE @,
            !.samples = IF @ < StableSamples THEN @ + 1 ELSE @,
            !.window = @ \cup {place},
            !.last = place]

Stable(t) == t.samples = StableSamples /\ t.since >= StableTime

\* mean stands for the mean of the samples.
Settle(t, mean) == IF Stable(t) THEN [t EXCEPT !.pose = mean, !.fresh = TRUE] ELSE t

\* The window the tracker would look at after taking the message.
WindowAfter(t, m) == Take(Reopen(t, m.place), m.place).window

\* The messages that get as far as the stamp.
Readable(m) == m.age <= TagTimeout /\ m.sight # "nothing"

Ask(t) == [t EXCEPT !.fresh = FALSE]

\* A message the tracker has taken already is answered by the position it keeps.
Repeat(t) == IF t.pose = None THEN t ELSE [t EXCEPT !.fresh = TRUE]

Update(t, m, mean) ==
  LET asked == Ask(t)
  IN  IF m.age > TagTimeout THEN Clear(asked)
      ELSE IF m.sight = "nothing" THEN asked
      ELSE IF ~m.unread THEN Repeat(asked)
      ELSE IF m.sight = "unplaced" THEN asked
      ELSE Settle(Take(Reopen(asked, m.place), m.place), mean)
=============================================================================
