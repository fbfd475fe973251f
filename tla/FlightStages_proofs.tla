------------------------- MODULE FlightStages_proofs -------------------------
(***************************************************************************)
(* Proofs about the stages that steer by position, for every field,        *)
(* waypoints, hold time and camera: types, the hold before every departure *)
(* and the evidence behind a fresh tag.                                    *)
(***************************************************************************)
EXTENDS FlightStages, TLAPS

-----------------------------------------------------------------------------
(* The operators.                                                          *)

\* A time grows older up to its cap, and one that has not come does not come.
LEMMA OlderTime ==
  ASSUME NEW cap \in Nat, NEW t \in None .. cap, NEW d \in Nat
  PROVE  /\ Older(t, d, cap) \in None .. cap
         /\ Older(t, d, cap) = None <=> t = None
         /\ Older(t, d, cap) = cap \/ Older(t, d, cap) >= t
         /\ t # None => Older(t, d, cap) \in 0 .. cap
  BY DEF Older, None

LEMMA Holds == LongestHold \in Nat /\ WaypointHold <= LongestHold /\ AlignHold <= LongestHold
  BY StagesAssumption DEF LongestHold

\* An aborted stage.
LEMMA AbortMachine ==
  ASSUME machine \in Machine, stage \in Flight
  PROVE  Abort(machine) \in Machine /\ Abort(machine).state = "ABORT_LAND"
  <1>1. stage \notin Terminal
    BY DEF Flight, Terminal
  <1>2. {"aborted"} \subseteq MissionResult /\ "ABORT_LAND" \in MissionState
    BY DEF MissionResult, MissionState, Terminal
  <1> QED BY <1>1, <1>2 DEF Abort, SetResult, Enter, Machine, stage

\* A stage that is done.
LEMMA AdvanceMachine ==
  ASSUME machine \in Machine, stage \in Flight \ {"LAND"}, AdvanceStage
  PROVE  /\ machine' \in Machine
         /\ stage' = IF stage = "SEARCH_TAG" /\ mode = "route" THEN "RETURN"
                     ELSE NextStage[stage]
  <1>1. NextStage[stage] \in MissionState /\ "RETURN" \in MissionState
    BY DEF NextStage, MissionState, Flight
  <1> QED BY <1>1 DEF AdvanceStage, SkipToReturn, StageDone, Enter, Machine, stage

LEMMA NextIsFlight ==
  ASSUME NEW s \in Flight \ {"LAND"} PROVE NextStage[s] \in Flight /\ NextStage[s] # s
  BY DEF NextStage, Flight

\* The lists of waypoints are not empty.
LEMMA PointsType ==
  /\ Points \in Seq(Places) /\ Len(Points) \in Nat \ {0}
  /\ \A i \in 1 .. Len(Points) : Points[i] \in Places
  <1>1. \A s \in Seq(Places) \ {<<>>} : Len(s) \in Nat \ {0} /\ \A i \in 1 .. Len(s) : s[i] \in Places
    OBVIOUS
  <1>2. Points \in {Route, Goals, Homeward}
    BY DEF Points
  <1> QED BY <1>1, <1>2, StagesAssumption

LEMMA WaypointLists ==
  /\ Len(Points) \in Nat \ {0} /\ Len(Points') \in Nat \ {0}
  /\ \A i \in 1 .. Len(Points') : Points'[i] \in Places
  <1>1. \A s \in Seq(Places) \ {<<>>} : Len(s) \in Nat \ {0} /\ \A i \in 1 .. Len(s) : s[i] \in Places
    OBVIOUS
  <1>2. Points \in {Route, Goals, Homeward} /\ Points' \in {Route, Goals, Homeward}
    BY DEF Points
  <1> QED BY <1>1, <1>2, StagesAssumption

LEMMA DistanceType ==
  ASSUME NEW p \in Nat, NEW q \in Nat
  PROVE  Distance(p, q) \in Nat /\ Distance(p, q) = Distance(q, p)
  BY DEF Distance

\* What Since makes of a time.
LEMMA SinceType ==
  ASSUME NEW there \in BOOLEAN, NEW cap \in Nat, NEW t \in None .. cap
  PROVE  Since(there, t) \in None .. cap
  BY DEF Since, None

LEMMA NearType == ASSUME NEW p PROVE Near(p) \in BOOLEAN
  BY DEF Near

-----------------------------------------------------------------------------
(* The tracker.                                                            *)

\* The three that go together: no sample, no window, no time.
TrackerOK(t) ==
  /\ t \in Tracker
  /\ t.samples = 0 <=> t.since = None
  /\ t.samples = 0 <=> t.window = {}

LEMMA TrackerFields ==
  ASSUME NEW t \in Tracker
  PROVE  /\ t.pose \in Places \cup {None} /\ t.last \in Places \cup {None}
         /\ t.fresh \in BOOLEAN /\ t.samples \in 0 .. StableSamples
         /\ t.window \in SUBSET Places /\ t.since \in None .. StableTime
  BY DEF Tracker

LEMMA NewTrackerOK == TrackerOK(NewTracker)
  <1>1. None \in None .. StableTime /\ 0 \in 0 .. StableSamples
    BY TrackerAssumption DEF None
  <1>2. FALSE \in BOOLEAN /\ {} \in SUBSET Places
    OBVIOUS
  <1> QED BY <1>1, <1>2 DEF NewTracker, Tracker, TrackerOK

LEMMA ClearFields ==
  ASSUME NEW t \in Tracker
  PROVE  /\ TrackerOK(Clear(t))
         /\ LET r == Clear(t)
            IN  /\ r.pose = t.pose /\ r.fresh = t.fresh /\ r.last = t.last
                /\ r.samples = 0 /\ r.window = {} /\ r.since = None
  <1> DEFINE a == [t EXCEPT !.samples = 0]
             b == [a EXCEPT !.window = {}]
  <1>1. a \in Tracker
    <2>1. 0 \in 0 .. StableSamples
      BY TrackerAssumption
    <2> QED BY <2>1 DEF Tracker
  <1>2. b \in Tracker
    <2> HIDE DEF a
    <2>1. {} \in SUBSET Places
      OBVIOUS
    <2> QED BY <1>1, <2>1 DEF Tracker
  <1>3. [b EXCEPT !.since = None] \in Tracker
    <2> HIDE DEF b
    <2>1. None \in None .. StableTime
      BY TrackerAssumption DEF None
    <2> QED BY <1>2, <2>1 DEF Tracker
  <1>4. Clear(t) = [b EXCEPT !.since = None]
    BY DEF Clear
  <1>5. Clear(t).pose = t.pose /\ Clear(t).fresh = t.fresh /\ Clear(t).last = t.last
    BY DEF Clear, Tracker
  <1>6. Clear(t).samples = 0 /\ Clear(t).window = {} /\ Clear(t).since = None
    BY DEF Clear, Tracker
  <1> HIDE DEF b
  <1> QED BY <1>3, <1>4, <1>5, <1>6 DEF TrackerOK

LEMMA ReopenFields ==
  ASSUME NEW t, TrackerOK(t), NEW place \in Places
  PROVE  /\ TrackerOK(Reopen(t, place))
         /\ LET r == Reopen(t, place)
            IN  /\ r.pose = t.pose /\ r.last = t.last /\ r.fresh = t.fresh
                /\ IF t.last # None /\ Distance(place, t.last) > JumpLimit
                   THEN r.since = None /\ r.window = {}
                   ELSE r.since = t.since /\ r.window = t.window
  BY ClearFields DEF Reopen, TrackerOK

LEMMA TakeFields ==
  ASSUME NEW t, TrackerOK(t), NEW place \in Places
  PROVE  /\ TrackerOK(Take(t, place))
         /\ LET r == Take(t, place)
            IN  /\ r.pose = t.pose /\ r.last = place /\ r.fresh = t.fresh
                /\ r.since = IF t.since = None THEN 0 ELSE t.since
                /\ r.window = t.window \cup {place}
  <1> DEFINE n == IF t.samples < StableSamples THEN t.samples + 1 ELSE t.samples
             since == IF t.samples = 0 THEN 0 ELSE t.since
             a == [t EXCEPT !.since = since]
             b == [a EXCEPT !.samples = n]
             c == [b EXCEPT !.window = @ \cup {place}]
  <1>1. n \in 1 .. StableSamples /\ since \in 0 .. StableTime
    BY TrackerAssumption, TrackerFields DEF TrackerOK, None
  <1>2. n \in 0 .. StableSamples /\ since \in None .. StableTime /\ n # 0 /\ since # None
    BY <1>1, TrackerAssumption DEF None
  <1>3. since = IF t.since = None THEN 0 ELSE t.since
    BY DEF TrackerOK
  <1> HIDE DEF n, since
  <1>4. t.window \cup {place} \in SUBSET Places /\ t.window \cup {place} # {}
    BY TrackerFields DEF TrackerOK
  <1>5. Take(t, place) = [c EXCEPT !.last = place]
    <2>1. a.samples = t.samples
      BY DEF Tracker, TrackerOK
    <2> QED BY <2>1 DEF Take, n, since
  <1>6. a \in Tracker /\ a.window = t.window
    BY <1>2 DEF Tracker, TrackerOK
  <1>7. b \in Tracker /\ b.window = t.window
    <2> HIDE DEF a
    <2> QED BY <1>2, <1>6 DEF Tracker
  <1>8. c \in Tracker
    <2> HIDE DEF b
    <2> QED BY <1>4, <1>7 DEF Tracker
  <1>9. [c EXCEPT !.last = place] \in Tracker
    <2> HIDE DEF c
    <2>1. place \in Places \cup {None}
      OBVIOUS
    <2> QED BY <1>8, <2>1 DEF Tracker
  <1>10. /\ Take(t, place).pose = t.pose /\ Take(t, place).fresh = t.fresh
         /\ Take(t, place).last = place
    BY DEF Take, Tracker, TrackerOK
  <1>11. /\ Take(t, place).window = t.window \cup {place}
         /\ Take(t, place).samples = n /\ Take(t, place).since = since
    BY DEF Take, Tracker, TrackerOK, n, since
  <1> HIDE DEF c
  <1> QED BY <1>2, <1>3, <1>4, <1>5, <1>9, <1>10, <1>11 DEF TrackerOK

LEMMA SettleFields ==
  ASSUME NEW t, TrackerOK(t), NEW mean \in Places
  PROVE  /\ TrackerOK(Settle(t, mean))
         /\ LET r == Settle(t, mean)
            IN  /\ r.last = t.last /\ r.since = t.since /\ r.window = t.window
                /\ r.fresh /\ ~t.fresh => Stable(t) /\ r.pose = mean
                /\ ~r.fresh => r.pose = t.pose
  <1>1. CASE Stable(t)
    <2>1. Settle(t, mean) = [pose |-> mean, fresh |-> TRUE, samples |-> t.samples,
                             window |-> t.window, last |-> t.last, since |-> t.since]
      BY <1>1 DEF Settle, Tracker, TrackerOK
    <2>2. mean \in Places \cup {None} /\ TRUE \in BOOLEAN
      OBVIOUS
    <2>3. Settle(t, mean) \in Tracker
      BY <2>1, <2>2, TrackerFields DEF Tracker, TrackerOK
    <2> QED BY <1>1, <2>1, <2>3 DEF TrackerOK
  <1>2. CASE ~Stable(t)
    BY <1>2 DEF Settle
  <1> QED BY <1>1, <1>2

\* A message as the camera gives it.
MessageOK(m) == m \in Message /\ (m.sight = "tag" => m.place \in Places)

LEMMA MessageFields ==
  ASSUME NEW m \in Message
  PROVE  /\ m.sight \in {"nothing", "unplaced", "tag"} /\ m.place \in Places \cup {None}
         /\ m.unread \in BOOLEAN /\ m.age \in 0 .. TagTimeout + 1
  BY DEF Message

\* What is left of the window when the tag is seen at place.
Jumps(t, place) == t.last # None /\ Distance(place, t.last) > JumpLimit

\* One call of update(), case by case.
LEMMA UpdateFields ==
  ASSUME NEW t, TrackerOK(t), NEW m, MessageOK(m), NEW mean \in Places
  PROVE  /\ TrackerOK(Update(t, m, mean))
         /\ LET r == Update(t, m, mean)
            IN  /\ m.age > TagTimeout =>
                     ~r.fresh /\ r.since = None /\ r.window = {} /\ r.last = t.last
                /\ m.age <= TagTimeout /\ ~(m.sight = "tag" /\ m.unread) =>
                     r.since = t.since /\ r.window = t.window /\ r.last = t.last
                /\ m.age <= TagTimeout /\ m.sight = "tag" /\ m.unread =>
                     /\ r.last = m.place
                     /\ r.window = WindowAfter(t, m)
                     /\ r.window = IF Jumps(t, m.place) THEN {m.place}
                                                       ELSE t.window \cup {m.place}
                     /\ r.since = IF Jumps(t, m.place) \/ t.since = None THEN 0 ELSE t.since
                     /\ r.fresh => r.since >= StableTime /\ r.pose = mean
                /\ ~(Readable(m) /\ m.unread) => r.pose = t.pose
                /\ r.fresh => Readable(m) /\ (m.unread => m.sight = "tag")
  <1> DEFINE asked == Ask(t)
             r == Update(t, m, mean)
  <1>1. TrackerOK(asked) /\ ~asked.fresh
    BY DEF TrackerOK, Tracker, Ask
  <1>2. /\ asked.pose = t.pose /\ asked.last = t.last /\ asked.since = t.since
        /\ asked.window = t.window /\ asked.samples = t.samples
    BY DEF TrackerOK, Tracker, Ask
  <1> HIDE DEF asked
  <1>3. CASE m.age > TagTimeout
    <2>1. r = Clear(asked)
      BY <1>3 DEF Update, asked
    <2>2. asked \in Tracker
      BY <1>1 DEF TrackerOK
    <2> QED BY <1>1, <1>2, <1>3, <2>1, <2>2, ClearFields, MessageFields, TrackerAssumption
         DEF MessageOK, Readable
  <1>4. CASE m.age <= TagTimeout /\ m.sight = "nothing"
    <2>1. r = asked
      BY <1>4, MessageFields, TrackerAssumption DEF Update, asked, MessageOK
    <2> QED BY <1>1, <1>2, <1>4, <2>1, MessageFields, TrackerAssumption DEF MessageOK, Readable
  <1>5. CASE m.age <= TagTimeout /\ m.sight # "nothing" /\ ~m.unread
    <2>1. r = Repeat(asked)
      BY <1>5, MessageFields, TrackerAssumption DEF Update, asked, MessageOK
    <2>2. TrackerOK([asked EXCEPT !.fresh = TRUE])
      BY <1>1 DEF TrackerOK, Tracker
    <2>3. /\ TrackerOK(r) /\ r.pose = t.pose /\ r.last = t.last
          /\ r.since = t.since /\ r.window = t.window
      BY <1>1, <1>2, <2>1, <2>2 DEF TrackerOK, Tracker, Repeat
    <2> QED BY <1>5, <2>3, MessageFields, TrackerAssumption DEF MessageOK, Readable
  <1>6. CASE m.age <= TagTimeout /\ m.sight = "unplaced" /\ m.unread
    <2>1. r = asked
      BY <1>6, MessageFields, TrackerAssumption DEF Update, asked, MessageOK
    <2> QED BY <1>1, <1>2, <1>6, <2>1, MessageFields, TrackerAssumption DEF MessageOK, Readable
  <1>7. CASE m.age <= TagTimeout /\ m.sight = "tag" /\ m.unread
    <2> DEFINE q == Reopen(asked, m.place)
               w == Take(q, m.place)
    <2>1. r = Settle(w, mean)
      BY <1>7, MessageFields, TrackerAssumption DEF Update, asked, MessageOK
    <2>2. m.place \in Places
      BY <1>7 DEF MessageOK
    <2>3. /\ TrackerOK(q) /\ ~q.fresh /\ q.last = t.last
          /\ IF Jumps(t, m.place) THEN q.since = None /\ q.window = {}
             ELSE q.since = t.since /\ q.window = t.window
      BY <1>1, <1>2, <2>2, ReopenFields DEF Jumps
    <2>4. LET v == Reopen(t, m.place)
          IN  TrackerOK(v) /\ v.window = q.window
      BY <1>1, <1>2, <2>2, ReopenFields
    <2> HIDE DEF q
    <2>5. /\ TrackerOK(w) /\ ~w.fresh /\ w.last = m.place
          /\ w.since = IF q.since = None THEN 0 ELSE q.since
          /\ w.window = q.window \cup {m.place}
      BY <2>2, <2>3, TakeFields
    <2>6. WindowAfter(t, m) = w.window
      BY <2>2, <2>4, <2>5, TakeFields DEF WindowAfter
    <2> HIDE DEF w
    <2>7. /\ TrackerOK(r) /\ r.last = w.last /\ r.since = w.since /\ r.window = w.window
          /\ r.fresh => Stable(w) /\ r.pose = mean
      BY <2>1, <2>5, SettleFields
    <2>8. r.fresh => r.since >= StableTime
      BY <2>7 DEF Stable
    <2>9. r.window = IF Jumps(t, m.place) THEN {m.place} ELSE t.window \cup {m.place}
      BY <2>3, <2>5, <2>7
    <2>10. r.since = IF Jumps(t, m.place) \/ t.since = None THEN 0 ELSE t.since
      BY <2>3, <2>5, <2>7
    <2>11. r.window = WindowAfter(t, m) /\ r.last = m.place
      BY <2>5, <2>6, <2>7
    <2>12. Readable(m)
      BY <1>7 DEF Readable
    <2>13. ~(m.age > TagTimeout)
      BY <1>7, MessageFields, TrackerAssumption DEF MessageOK
    <2> HIDE DEF r
    <2> QED BY <1>7, <2>7, <2>8, <2>9, <2>10, <2>11, <2>12, <2>13 DEF r
  <1>8. m.sight \in {"nothing", "unplaced", "tag"} /\ m.unread \in BOOLEAN /\ m.age \in Nat
    BY MessageFields, TrackerAssumption DEF MessageOK
  <1>9. m.age > TagTimeout \/ m.age <= TagTimeout
    BY <1>8, TrackerAssumption
  <1> QED BY <1>3, <1>4, <1>5, <1>6, <1>7, <1>8, <1>9

\* What becomes of t with a new message that shows the tag.
TakesNews(t, m, mean, r) ==
  /\ r.last = m.place /\ r.window = WindowAfter(t, m)
  /\ r.window = IF Jumps(t, m.place) THEN {m.place} ELSE t.window \cup {m.place}
  /\ r.since = IF Jumps(t, m.place) \/ t.since = None THEN 0 ELSE t.since
  /\ r.fresh => r.since >= StableTime /\ r.pose = mean

LEMMA UpdateTakesNews ==
  ASSUME NEW t, TrackerOK(t), NEW m, MessageOK(m), NEW mean \in Places,
         m.age <= TagTimeout, m.sight = "tag", m.unread
  PROVE  TakesNews(t, m, mean, Update(t, m, mean))
  BY UpdateFields, Zenon DEF TakesNews

-----------------------------------------------------------------------------
(* Types.                                                                  *)

\* Where the mission is on its way.
CourseOK ==
  /\ machine \in Machine /\ stage \in Flight \cup {"ABORT_LAND"}
  /\ index \in Nat \ {0} /\ (stage \in Flight => index <= Len(Points))
  /\ stage \in {"ALIGN_TAG", "RELEASE"} => index = 1
  /\ reached \in None .. LongestHold /\ age \in 0 .. StageTimeout + 1
  /\ visit \in None .. LongestHold

\* What the camera has shown.
CameraOK ==
  /\ TrackerOK(tag) /\ MessageOK(message)
  /\ answer \in BOOLEAN /\ series \in Series

TypeInv == TypeOK /\ CourseOK /\ CameraOK

LEMMA StageTypes ==
  /\ StageTimeout \in Nat /\ LongestHold \in Nat /\ None \in None .. LongestHold
  /\ 0 \in None .. LongestHold /\ 0 \in 0 .. StageTimeout + 1
  BY StagesAssumption, Holds DEF None

LEMMA AdvanceCourse ==
  ASSUME CourseOK, stage \in Flight \ {"LAND"}, AdvanceStage
  PROVE  CourseOK' /\ stage' \in Flight \ {stage} /\ index' = 1
  <1>1. machine' \in Machine /\ stage' \in Flight \ {stage}
    <2>1. machine \in Machine
      BY DEF CourseOK
    <2>2. "RETURN" \in Flight
      BY DEF Flight
    <2> QED BY <2>1, <2>2, AdvanceMachine, NextIsFlight
  <1>2. index' = 1 /\ reached' = None /\ age' = 0 /\ visit' = None
    BY DEF AdvanceStage, ResetStage
  <1>3. Len(Points') \in Nat \ {0}
    BY WaypointLists
  <1>4. index' \in Nat \ {0} /\ index' <= Len(Points')
    BY <1>2, <1>3
  <1> QED BY <1>1, <1>2, <1>4, StageTypes DEF CourseOK

LEMMA AbortCourse ==
  ASSUME CourseOK, stage \in Flight, AbortStage
  PROVE  CourseOK' /\ stage' = "ABORT_LAND" /\ index' = index
  <1>1. machine' \in Machine /\ stage' = "ABORT_LAND"
    BY AbortMachine DEF CourseOK, AbortStage, stage
  <1>2. stage' \notin Flight /\ stage' \notin {"ALIGN_TAG", "RELEASE"}
    BY <1>1 DEF Flight
  <1> QED BY <1>1, <1>2 DEF CourseOK, AbortStage

\* Nothing but the two clocks of the hold.
LEMMA StayCourse ==
  ASSUME CourseOK, UNCHANGED <<machine, index, age>>,
         reached' \in None .. LongestHold, visit' \in None .. LongestHold
  PROVE  CourseOK' /\ stage' = stage /\ Points' = Points
  BY DEF CourseOK, stage, Points

LEMMA FollowCourse ==
  ASSUME CourseOK, Follow
  PROVE  CourseOK'
  <1>1. stage \in Flight \ {"LAND"}
    BY DEF Follow, Flight
  <1>2. CASE Arrived(Points[index]) /\ index < Len(Points)
               /\ index' = index + 1 /\ Watches(ReachedAfter(Points[index]), None)
               /\ UNCHANGED <<machine, age>>
    <2>1. ReachedAfter(Points[index]) \in None .. LongestHold
      BY StageTypes, SinceType, NearType DEF CourseOK, ReachedAfter, ReachedAt
    <2>2. reached' \in None .. LongestHold /\ visit' \in None .. LongestHold
      BY <1>2, <2>1, StageTypes DEF Watches
    <2>3. Points' = Points /\ stage' = stage
      BY <1>2 DEF Points, stage
    <2>4. index' \in Nat \ {0} /\ index' <= Len(Points)
      BY <1>2, PointsType DEF CourseOK
    <2>5. stage \notin {"ALIGN_TAG", "RELEASE"}
      BY DEF Follow
    <2> QED BY <1>2, <2>2, <2>3, <2>4, <2>5 DEF CourseOK
  <1>3. CASE AdvanceStage
    BY <1>1, <1>3, AdvanceCourse
  <1>4. CASE AbortStage
    BY <1>1, <1>4, AbortCourse
  <1>5. CASE Watches(ReachedAt(Points[index]), Since(Near(Points[index]), visit))
               /\ UNCHANGED <<machine, index, age>>
    BY <1>5, StageTypes, SinceType, NearType, StayCourse DEF CourseOK, ReachedAt, Watches
  <1> QED BY <1>2, <1>3, <1>4, <1>5 DEF Follow, FollowPoints

\* tag.update keeps the camera's records in order.
LEMMA LookCamera ==
  ASSUME CameraOK, Look, UNCHANGED series
  PROVE  CameraOK'
  <1> DEFINE b == message.unread /\ ~Readable(message)
  <1>1. b \in BOOLEAN
    OBVIOUS
  <1>2. message' = [message EXCEPT !.unread = b]
    BY DEF Look
  <1> HIDE DEF b
  <1>3. MessageOK(message')
    BY <1>1, <1>2 DEF CameraOK, MessageOK, Message
  <1>4. TrackerOK(tag')
    <2>1. PICK mean \in Places : tag' = Update(tag, message, mean)
      BY DEF Look
    <2> QED BY <2>1, UpdateFields DEF CameraOK
  <1>5. tag'.fresh \in BOOLEAN
    BY <1>4, TrackerFields DEF TrackerOK
  <1>6. answer' = tag'.fresh \/ answer' = answer
    BY DEF Look
  <1>7. answer' \in BOOLEAN
    BY <1>5, <1>6 DEF CameraOK
  <1> QED BY <1>3, <1>4, <1>7 DEF CameraOK

LEMMA SearchCourse ==
  ASSUME CourseOK, Search
  PROVE  CourseOK'
  <1>1. stage \in Flight \ {"LAND"}
    BY DEF Search, Flight
  <1>2. CASE AdvanceStage
    BY <1>1, <1>2, AdvanceCourse
  <1>3. CASE AbortStage
    BY <1>1, <1>3, AbortCourse
  <1>4. CASE UNCHANGED <<machine, index, reached, age, visit>>
    BY <1>4, StayCourse DEF CourseOK
  <1> QED BY <1>2, <1>3, <1>4 DEF Search

LEMMA AlignCourse ==
  ASSUME CourseOK, Align
  PROVE  CourseOK'
  <1>1. stage \in Flight \ {"LAND"}
    BY DEF Align, Flight
  <1>2. CASE AdvanceStage
    BY <1>1, <1>2, AdvanceCourse
  <1>3. CASE AbortStage
    BY <1>1, <1>3, AbortCourse
  <1>4. CASE UNCHANGED <<machine, index, reached, age, visit>>
    BY <1>4, StayCourse DEF CourseOK
  <1>5. CASE Watches(ReachedAt(tag'.pose), Since(Near(tag'.pose), visit))
               /\ UNCHANGED <<machine, index, age>>
    BY <1>5, StageTypes, SinceType, NearType, StayCourse DEF CourseOK, ReachedAt, Watches
  <1> QED BY <1>2, <1>3, <1>4, <1>5 DEF Align, AlignLost, AlignSeen

\* The flight timer keeps the types.
LEMMA TickTypes ==
  ASSUME TypeInv, Tick
  PROVE  TypeInv'
  <1>1. mode' \in Modes /\ pose' \in Places /\ due' \in BOOLEAN /\ series' = series
    BY DEF Tick, TypeInv, TypeOK
  <1>2. CourseOK /\ CameraOK
    BY DEF TypeInv
  <1>3. CASE Follow
    <2>1. CameraOK'
      BY <1>1, <1>2, <1>3 DEF Follow, CameraOK
    <2> QED BY <1>1, <1>2, <1>3, <2>1, FollowCourse DEF TypeInv, TypeOK, CourseOK, CameraOK,
              TrackerOK, MessageOK
  <1>4. CASE Search
    <2>1. CameraOK'
      BY <1>1, <1>2, <1>4, LookCamera DEF Search
    <2> QED BY <1>1, <1>2, <1>4, <2>1, SearchCourse DEF TypeInv, TypeOK, CourseOK, CameraOK,
              TrackerOK, MessageOK
  <1>5. CASE Align
    <2>1. CameraOK'
      BY <1>1, <1>2, <1>5, LookCamera DEF Align
    <2> QED BY <1>1, <1>2, <1>5, <2>1, AlignCourse DEF TypeInv, TypeOK, CourseOK, CameraOK,
              TrackerOK, MessageOK
  <1>6. CASE AlignFixed \/ Release \/ Unhealthy
    <2>1. CameraOK'
      BY <1>1, <1>2, <1>6 DEF AlignFixed, Release, Unhealthy, CameraOK
    <2>2. CASE stage \in Flight \ {"LAND"} /\ AdvanceStage
      BY <1>1, <1>2, <2>1, <2>2, AdvanceCourse DEF TypeInv, TypeOK, CourseOK, CameraOK,
         TrackerOK, MessageOK
    <2>3. CASE stage \in Flight /\ AbortStage
      BY <1>1, <1>2, <2>1, <2>3, AbortCourse DEF TypeInv, TypeOK, CourseOK, CameraOK,
         TrackerOK, MessageOK
    <2> QED BY <1>6, <2>2, <2>3 DEF AlignFixed, Release, Unhealthy, Flight
  <1> QED BY <1>3, <1>4, <1>5, <1>6 DEF Tick

\* A clock that has come goes on, up to its cap.
LEMMA AgeType ==
  ASSUME NEW cap \in Nat, NEW t \in 0 .. cap, NEW d \in Nat
  PROVE  Older(t, d, cap) \in 0 .. cap
  <1>1. t \in None .. cap /\ t # None
    BY DEF None
  <1> QED BY <1>1, OlderTime

LEMMA SeriesFields ==
  /\ NoSeries \in Series
  /\ \A s \in Series : /\ s.since \in None .. StableTime /\ s.places \in SUBSET Places
                       /\ s.last \in Places \cup {None}
  /\ \A t \in None .. StableTime, w \in SUBSET Places, l \in Places \cup {None} :
        [since |-> t, places |-> w, last |-> l] \in Series
  <1>1. None \in None .. StableTime /\ {} \in SUBSET Places
    BY TrackerAssumption DEF None
  <1> QED BY <1>1 DEF Series, NoSeries

LEMMA SameSeries ==
  ASSUME NEW a \in Series, NEW b \in Series,
         a.since = b.since, a.places = b.places, a.last = b.last
  PROVE  a = b
  BY DEF Series

LEMMA GoesFields ==
  ASSUME NEW s \in Series, NEW d \in Nat
  PROVE  /\ Goes(s, d) \in Series
         /\ Goes(s, d).since = Older(s.since, d, StableTime)
         /\ Goes(s, d).places = s.places /\ Goes(s, d).last = s.last
  <1> DEFINE n == Older(s.since, d, StableTime)
  <1>1. n \in None .. StableTime
    BY SeriesFields, OlderTime, TrackerAssumption
  <1> HIDE DEF n
  <1>2. Goes(s, d) = [s EXCEPT !.since = n]
    BY DEF Goes, Series, n
  <1>3. [s EXCEPT !.since = n] \in Series
    BY <1>1 DEF Series
  <1>4. /\ [s EXCEPT !.since = n].since = n
        /\ [s EXCEPT !.since = n].places = s.places /\ [s EXCEPT !.since = n].last = s.last
    BY DEF Series
  <1> QED BY <1>2, <1>3, <1>4 DEF n

LEMMA EndsFields ==
  ASSUME NEW s \in Series
  PROVE  /\ Ends(s) \in Series
         /\ Ends(s).since = None /\ Ends(s).places = {} /\ Ends(s).last = s.last
  <1>1. None \in None .. StableTime /\ {} \in SUBSET Places
    BY TrackerAssumption DEF None
  <1> QED BY <1>1 DEF Ends, Series

LEMMA GoesOnFields ==
  ASSUME NEW s \in Series, NEW place \in Places
  PROVE  /\ GoesOn(s, place) \in Series
         /\ GoesOn(s, place).last = place
         /\ IF s.since # None /\ Distance(place, s.last) <= JumpLimit
            THEN /\ GoesOn(s, place).since = s.since
                 /\ GoesOn(s, place).places = s.places \cup {place}
            ELSE GoesOn(s, place).since = 0 /\ GoesOn(s, place).places = {place}
  <1>1. 0 \in None .. StableTime /\ {place} \in SUBSET Places
    BY TrackerAssumption DEF None
  <1>2. s.places \cup {place} \in SUBSET Places /\ place \in Places \cup {None}
    BY SeriesFields
  <1>3. CASE s.since # None /\ Distance(place, s.last) <= JumpLimit
    BY <1>2, <1>3 DEF GoesOn, Series
  <1>4. CASE ~(s.since # None /\ Distance(place, s.last) <= JumpLimit)
    <2>1. GoesOn(s, place) = [since |-> 0, places |-> {place}, last |-> place]
      BY <1>4 DEF GoesOn
    <2> QED BY <1>1, <1>2, <1>4, <2>1 DEF Series
  <1> QED BY <1>3, <1>4

\* The tracker's clock goes on while the aircraft flies.
OlderTag(d) == [tag EXCEPT !.since = Older(@, d, StableTime)]

LEMMA OlderTagFields ==
  ASSUME TrackerOK(tag), NEW d \in Nat
  PROVE  /\ TrackerOK(OlderTag(d))
         /\ OlderTag(d).since = Older(tag.since, d, StableTime)
         /\ OlderTag(d).window = tag.window /\ OlderTag(d).last = tag.last
         /\ OlderTag(d).pose = tag.pose
  <1> DEFINE n == Older(tag.since, d, StableTime)
             t == [tag EXCEPT !.since = n]
  <1>1. n \in None .. StableTime /\ (n = None <=> tag.since = None)
    BY TrackerFields, OlderTime, TrackerAssumption DEF TrackerOK
  <1>2. OlderTag(d) = t
    BY DEF OlderTag, TrackerOK, Tracker
  <1> HIDE DEF n
  <1>3. t \in Tracker /\ t.since = n
    BY <1>1 DEF Tracker, TrackerOK
  <1>4. /\ t.window = tag.window /\ t.last = tag.last
        /\ t.pose = tag.pose /\ t.samples = tag.samples
    BY DEF Tracker, TrackerOK
  <1> HIDE DEF t
  <1>5. TrackerOK(t)
    BY <1>1, <1>3, <1>4 DEF TrackerOK
  <1> QED BY <1>2, <1>3, <1>4, <1>5 DEF n

\* An older message.
LEMMA OlderMessage ==
  ASSUME MessageOK(message), NEW d \in Nat,
         message' = [message EXCEPT !.age = Older(@, d, TagTimeout + 1)]
  PROVE  /\ MessageOK(message')
         /\ message'.age = Older(message.age, d, TagTimeout + 1)
         /\ message'.sight = message.sight /\ message'.place = message.place
         /\ message'.unread = message.unread
  <1> DEFINE n == Older(message.age, d, TagTimeout + 1)
  <1>1. n \in 0 .. TagTimeout + 1
    <2>1. TagTimeout + 1 \in Nat /\ message.age \in 0 .. TagTimeout + 1
      BY MessageFields, TrackerAssumption DEF MessageOK
    <2> QED BY <2>1, AgeType
  <1>2. message' = [message EXCEPT !.age = n]
    BY DEF MessageOK, Message
  <1> HIDE DEF n
  <1>3. message' \in Message
    BY <1>1, <1>2 DEF MessageOK, Message
  <1>4. /\ message'.sight = message.sight /\ message'.place = message.place
        /\ message'.unread = message.unread /\ message'.age = n
    BY <1>2 DEF MessageOK, Message
  <1> QED BY <1>3, <1>4 DEF MessageOK, n

LEMMA NewMessageFields ==
  ASSUME NEW m \in NewMessages
  PROVE  /\ MessageOK(m) /\ m.unread /\ m.age = 0
         /\ m.sight \in {"nothing", "unplaced", "tag"}
  <1>1. TRUE \in BOOLEAN /\ 0 \in 0 .. TagTimeout + 1
    BY TrackerAssumption
  <1> QED BY <1>1 DEF NewMessages, MessageOK, Message

LEMMA SilentCamera ==
  ASSUME CameraOK, NEW d \in Nat, CameraSilent(d), tag' = OlderTag(d)
  PROVE  CameraOK'
  <1>1. MessageOK(message')
    BY OlderMessage DEF CameraOK, CameraSilent
  <1>2. series' \in Series
    BY GoesFields, EndsFields DEF CameraOK, CameraSilent
  <1> QED BY <1>1, <1>2, OlderTagFields DEF CameraOK, CameraSilent

LEMMA SpeakingCamera ==
  ASSUME CameraOK, NEW d \in Nat, CameraSpeaks(d), tag' = OlderTag(d)
  PROVE  CameraOK'
  <1>1. MessageOK(message')
    BY NewMessageFields DEF CameraSpeaks
  <1>2. series' \in Series
    BY <1>1, GoesFields, GoesOnFields DEF CameraOK, CameraSpeaks, MessageOK
  <1> QED BY <1>1, <1>2, OlderTagFields DEF CameraOK, CameraSpeaks

\* Time, the aircraft and the camera keep the types.
LEMMA FlyTypes ==
  ASSUME TypeInv, Fly
  PROVE  TypeInv'
  <1>1. CourseOK /\ CameraOK
    BY DEF TypeInv
  <1>2. PICK d \in 1 .. Late :
          /\ age' = Older(age, d, StageTimeout + 1)
          /\ reached' = Older(reached, d, LongestHold)
          /\ visit' = Older(visit, d, LongestHold)
          /\ tag' = OlderTag(d)
          /\ CameraSilent(d) \/ CameraSpeaks(d)
    BY DEF Fly, OlderTag
  <1>3. d \in Nat
    BY StagesAssumption
  <1>4. CameraOK'
    BY <1>1, <1>2, <1>3, SilentCamera, SpeakingCamera
  <1>5. /\ age' \in 0 .. StageTimeout + 1
        /\ reached' \in None .. LongestHold /\ visit' \in None .. LongestHold
    <2>1. StageTimeout + 1 \in Nat /\ age \in 0 .. StageTimeout + 1
      BY <1>1, StageTypes DEF CourseOK
    <2>2. LongestHold \in Nat /\ reached \in None .. LongestHold /\ visit \in None .. LongestHold
      BY <1>1, StageTypes DEF CourseOK
    <2>3. age' \in 0 .. StageTimeout + 1
      BY <1>2, <1>3, <2>1, AgeType
    <2> QED BY <1>2, <1>3, <2>2, <2>3, OlderTime
  <1>6. Points' = Points /\ stage' = stage /\ machine' = machine /\ index' = index
    BY DEF Fly, Points, stage
  <1>7. CourseOK'
    BY <1>1, <1>5, <1>6 DEF CourseOK
  <1>8. mode' \in Modes /\ pose' \in Places /\ due' \in BOOLEAN
    BY DEF Fly, TypeInv, TypeOK
  <1> QED BY <1>4, <1>7, <1>8 DEF TypeInv, TypeOK, CourseOK, CameraOK, TrackerOK, MessageOK

LEMMA InitTypes == Init => TypeInv
  <1> SUFFICES ASSUME Init PROVE TypeInv
    OBVIOUS
  <1>1. machine \in Machine /\ stage = "TRANSIT"
    <2>1. "TRANSIT" \in MissionState /\ "none" \in MissionResult
      BY DEF MissionState, MissionResult, Flight
    <2>2. TRUE \in BOOLEAN /\ FALSE \in BOOLEAN
      OBVIOUS
    <2>3. machine = [state |-> "TRANSIT", result |-> "none", active |-> TRUE,
                     preconditionsOk |-> FALSE]
      BY DEF Init, Enter, RequestStart, ClearResult, NewMachine
    <2> QED BY <2>1, <2>2, <2>3 DEF Machine, stage
  <1>2. stage \in Flight /\ index = 1 /\ index <= Len(Points)
    BY <1>1, WaypointLists DEF Init, Flight
  <1>3. CourseOK
    BY <1>1, <1>2, StageTypes DEF Init, CourseOK
  <1>4. MessageOK(message)
    <2>1. TagTimeout + 1 \in 0 .. TagTimeout + 1 /\ TRUE \in BOOLEAN
      BY TrackerAssumption
    <2> QED BY <2>1 DEF Init, MessageOK, Message
  <1>5. CameraOK
    BY <1>4, NewTrackerOK, SeriesFields DEF Init, CameraOK
  <1>6. mode \in Modes /\ pose \in Places /\ due \in BOOLEAN
    BY DEF Init
  <1> QED BY <1>3, <1>5, <1>6 DEF TypeInv, TypeOK, CourseOK, CameraOK, TrackerOK, MessageOK

LEMMA StepTypes == TypeInv /\ [Next]_vars => TypeInv'
  <1> SUFFICES ASSUME TypeInv, [Next]_vars PROVE TypeInv'
    OBVIOUS
  <1>1. CASE Fly
    BY <1>1, FlyTypes
  <1>2. CASE Tick
    BY <1>2, TickTypes
  <1>3. CASE UNCHANGED vars
    <2>1. Points' = Points /\ stage' = stage
      BY <1>3 DEF vars, Points, stage
    <2>2. CourseOK' /\ CameraOK'
      BY <1>3, <2>1 DEF vars, TypeInv, CourseOK, CameraOK
    <2>3. mode' \in Modes /\ pose' \in Places /\ due' \in BOOLEAN
      BY <1>3 DEF vars, TypeInv, TypeOK
    <2> QED BY <2>2, <2>3 DEF TypeInv, TypeOK, CourseOK, CameraOK, TrackerOK, MessageOK
  <1> QED BY <1>1, <1>2, <1>3 DEF Next

LEMMA TypeInvariant == Spec => []TypeInv
  BY InitTypes, StepTypes, PTL DEF Spec

\* Types: indexes stay within the waypoints of every stage (flight_driver.py:
\* _follow, _advance), ages within their ranges, for every list of waypoints.
THEOREM StageTypesHold == Spec => []TypeOK
  <1>1. TypeInv => TypeOK
    BY DEF TypeInv
  <1> QED BY <1>1, TypeInvariant, PTL

-----------------------------------------------------------------------------
(* The hold before every departure.                                        *)

\* _follow has carried the hold time of the last waypoint over to this one, and no
\* look since has moved the aircraft from the last waypoint by more than a step.
Carried ==
  /\ stage \in {"TRANSIT", "RETURN"} /\ index > 1 /\ visit = None
  /\ Distance(pose, Points[index - 1]) <= IF due THEN Tolerance + Move ELSE Tolerance

HoldInv == stage \in Flight => reached = visit \/ CloseBehind \/ Carried

LEMMA Triangle ==
  ASSUME NEW p \in Nat, NEW q \in Nat, NEW r \in Nat, NEW a \in Nat, NEW b \in Nat,
         Distance(q, p) <= a, Distance(q, r) <= b
  PROVE  Distance(p, r) <= a + b /\ Distance(r, p) <= a + b
  BY DEF Distance

\* The waypoint now and the one before.
LEMMA Waypoint ==
  ASSUME CourseOK, stage \in Flight
  PROVE  /\ Points[index] \in Places /\ Points[index] \in Nat
         /\ index > 1 => Points[index - 1] \in Places /\ Points[index - 1] \in Nat
  <1>1. index \in 1 .. Len(Points) /\ (index > 1 => index - 1 \in 1 .. Len(Points))
    BY PointsType DEF CourseOK
  <1> QED BY <1>1, PointsType, TrackerAssumption

\* In the stages with the tag the two clocks agree.
LEMMA SameClock ==
  ASSUME CourseOK, HoldInv, stage \in {"SEARCH_TAG", "ALIGN_TAG"}
  PROVE  reached = visit
  <1>1. stage \in Flight /\ ~Carried
    BY DEF Flight, Carried
  <1>2. ~CloseBehind
    BY DEF CourseOK, CloseBehind
  <1> QED BY <1>1, <1>2 DEF HoldInv

\* An aircraft that is at its waypoint and has carried its hold time over is at
\* one that lies close behind the last.
LEMMA CarriedIsClose ==
  ASSUME TypeInv, Carried, due, Near(Points[index])
  PROVE  CloseBehind
  <1>1. CourseOK /\ pose \in Places /\ stage \in Flight /\ stage # "SEARCH_TAG" /\ index > 1
    BY DEF TypeInv, TypeOK, Carried, Flight
  <1>2. /\ Points[index] \in Nat /\ Points[index - 1] \in Nat
        /\ pose \in Nat /\ Tolerance \in Nat /\ Move \in Nat
    BY <1>1, Waypoint, TrackerAssumption, StagesAssumption
  <1>3. Distance(pose, Points[index - 1]) <= Tolerance + Move
    BY DEF Carried
  <1>4. Distance(pose, Points[index]) <= Tolerance
    BY DEF Near
  <1>5. Distance(Points[index - 1], Points[index]) <= (Tolerance + Move) + Tolerance
    BY <1>2, <1>3, <1>4, Triangle
  <1>6. Distance(Points[index - 1], Points[index]) <= 2 * Tolerance + Move
    BY <1>2, <1>5, DistanceType
  <1> QED BY <1>1, <1>6 DEF CloseBehind

LEMMA FlyHold ==
  ASSUME TypeInv, HoldInv, Fly
  PROVE  HoldInv'
  <1> SUFFICES ASSUME stage' \in Flight
               PROVE  (reached = visit \/ CloseBehind \/ Carried)'
    BY DEF HoldInv
  <1>1. Points' = Points /\ stage' = stage /\ index' = index /\ ~due /\ due'
    BY DEF Fly, Points, stage
  <1>2. PICK d \in 1 .. Late :
          reached' = Older(reached, d, LongestHold) /\ visit' = Older(visit, d, LongestHold)
    BY DEF Fly
  <1>3. CASE reached = visit
    BY <1>2, <1>3
  <1>4. CASE CloseBehind
    BY <1>1, <1>4 DEF CloseBehind
  <1>5. CASE Carried
    <2>1. visit' = None
      BY <1>2, <1>5 DEF Carried, Older
    <2>2. /\ pose \in Nat /\ pose' \in Nat /\ Points[index - 1] \in Nat
          /\ Tolerance \in Nat /\ Move \in Nat /\ index > 1
      BY <1>1, <1>5, Waypoint, TrackerAssumption, StagesAssumption
         DEF Carried, Fly, TypeInv, TypeOK
    <2>3. Distance(pose, Points[index - 1]) <= Tolerance /\ Distance(pose', pose) <= Move
      BY <1>1, <1>5 DEF Carried, Fly
    <2>4. Distance(pose, pose') <= Move
      BY <2>2, <2>3, DistanceType
    <2>5. Distance(pose', Points[index - 1]) <= Tolerance + Move
      BY <2>2, <2>3, <2>4, Triangle
    <2> QED BY <1>1, <1>5, <2>1, <2>5 DEF Carried
  <1> QED BY <1>1, <1>3, <1>4, <1>5 DEF HoldInv

LEMMA FollowHold ==
  ASSUME TypeInv, HoldInv, Tick, Follow
  PROVE  HoldInv'
  <1> SUFFICES ASSUME stage' \in Flight
               PROVE  (reached = visit \/ CloseBehind \/ Carried)'
    BY DEF HoldInv
  <1> DEFINE p == Points[index]
  <1>1. stage \in Flight \ {"LAND"} /\ CourseOK /\ due /\ ~due' /\ pose' = pose
    BY DEF Follow, Flight, TypeInv, Tick
  <1>2. CASE /\ Arrived(p) /\ index < Len(Points)
             /\ index' = index + 1 /\ Watches(ReachedAfter(p), None)
             /\ UNCHANGED <<machine, age>>
    <2>1. stage' = stage /\ Points' = Points
      BY <1>2 DEF stage, Points
    <2>2. CASE stage = "SEARCH_TAG"
      BY <1>2, <2>2 DEF Watches, ReachedAfter
    <2>3. CASE stage # "SEARCH_TAG"
      <3>1. stage \in {"TRANSIT", "RETURN"}
        BY <2>3 DEF Follow
      <3>2. Distance(pose, Points[index]) <= Tolerance
        BY <1>2 DEF Arrived, ReachedAt, Since, Near
      <3>3. index' > 1 /\ index' - 1 = index
        BY <1>1, <1>2 DEF CourseOK
      <3>4. Distance(pose', Points'[index' - 1]) <= Tolerance
        BY <1>1, <2>1, <3>2, <3>3
      <3>5. visit' = None
        BY <1>2 DEF Watches
      <3> QED BY <1>1, <2>1, <3>1, <3>3, <3>4, <3>5 DEF Carried
    <2> QED BY <2>2, <2>3
  <1>3. CASE AdvanceStage
    BY <1>3 DEF AdvanceStage, ResetStage
  <1>4. CASE AbortStage
    BY <1>1, <1>4, AbortCourse DEF Flight
  <1>5. CASE /\ Watches(ReachedAt(p), Since(Near(p), visit))
             /\ UNCHANGED <<machine, index, age>>
    <2>1. stage' = stage /\ Points' = Points /\ index' = index
      BY <1>5 DEF stage, Points
    <2>2. CASE reached = visit
      BY <1>5, <2>2 DEF Watches, ReachedAt
    <2>3. CASE CloseBehind
      BY <2>1, <2>3 DEF CloseBehind
    <2>4. CASE Carried /\ Near(p)
      <3>1. CloseBehind
        BY <1>1, <2>4, CarriedIsClose
      <3> QED BY <2>1, <3>1 DEF CloseBehind
    <2>5. CASE ~Near(p)
      BY <1>5, <2>5 DEF Watches, ReachedAt, Since
    <2> QED BY <1>1, <2>2, <2>3, <2>4, <2>5 DEF HoldInv
  <1> QED BY <1>2, <1>3, <1>4, <1>5 DEF Follow, FollowPoints

\* The stages with the tag, and those that end at once.
LEMMA OtherHold ==
  ASSUME TypeInv, HoldInv, Search \/ AlignFixed \/ Align \/ Release \/ Unhealthy
  PROVE  HoldInv'
  <1>1. CASE AdvanceStage
    BY <1>1 DEF AdvanceStage, ResetStage, HoldInv
  <1>2. CASE stage \in Flight /\ AbortStage
    <2>1. stage' = "ABORT_LAND"
      BY <1>2, AbortCourse DEF TypeInv
    <2> QED BY <2>1 DEF HoldInv, Flight
  <1>3. CASE /\ stage \in {"SEARCH_TAG", "ALIGN_TAG"}
             /\ UNCHANGED <<machine, index, reached, age, visit>>
    <2>1. reached = visit
      BY <1>3, SameClock DEF TypeInv
    <2> QED BY <1>3, <2>1 DEF HoldInv
  <1>4. CASE /\ stage = "ALIGN_TAG"
             /\ Watches(ReachedAt(tag'.pose), Since(Near(tag'.pose), visit))
    <2>1. reached = visit
      BY <1>4, SameClock DEF TypeInv
    <2> QED BY <1>4, <2>1 DEF HoldInv, Watches, ReachedAt
  <1>5. stage \in Flight
    BY DEF Search, AlignFixed, Align, Release, Unhealthy, Flight
  <1> QED BY <1>1, <1>2, <1>3, <1>4, <1>5
       DEF Search, AlignFixed, Align, AlignLost, AlignSeen, Release, Unhealthy

LEMMA HoldInvariant == Spec => []HoldInv
  <1>1. Init => HoldInv
    BY DEF Init, HoldInv
  <1>2. TypeInv /\ HoldInv /\ [Next]_vars => HoldInv'
    <2> SUFFICES ASSUME TypeInv, HoldInv, [Next]_vars PROVE HoldInv'
      OBVIOUS
    <2>1. CASE Fly
      BY <2>1, FlyHold
    <2>2. CASE Tick
      BY <2>2, FollowHold, OtherHold DEF Tick
    <2>3. CASE UNCHANGED vars
      BY <2>3 DEF vars, HoldInv, CloseBehind, Carried, Points, stage
    <2> QED BY <2>1, <2>2, <2>3 DEF Next
  <1> QED BY <1>1, <1>2, TypeInvariant, PTL DEF Spec

\* What HeldBeforeLeaving asks of a step.
LeavesHeld ==
  GoesAhead =>
    /\ Following => HeldHere(Points[index], WaypointHold) \/ CloseBehind
    /\ stage = "ALIGN_TAG" /\ mode = "tag" => HeldHere(tag'.pose, AlignHold)

LEMMA LeavingStep ==
  ASSUME TypeInv, HoldInv, Next
  PROVE  LeavesHeld
  <1> SUFFICES ASSUME GoesAhead
               PROVE  /\ Following => HeldHere(Points[index], WaypointHold) \/ CloseBehind
                      /\ stage = "ALIGN_TAG" /\ mode = "tag" => HeldHere(tag'.pose, AlignHold)
    BY DEF LeavesHeld
  <1>1. CourseOK
    BY DEF TypeInv
  <1>2. ~(UNCHANGED <<machine, index>>)
    BY <1>1 DEF GoesAhead, stage, CourseOK
  <1>3. Tick
    BY <1>2 DEF Next, Fly
  <1>4. ~(stage \in Flight /\ AbortStage)
    BY <1>1, AbortCourse DEF GoesAhead, CourseOK
  <1>5. CASE Follow
    <2>1. stage \in Flight /\ stage # "ALIGN_TAG"
      BY <1>5 DEF Follow, Flight
    <2>2. Arrived(Points[index])
      BY <1>2, <1>4, <1>5, <2>1 DEF Follow, FollowPoints
    <2>3. Near(Points[index]) /\ Since(TRUE, reached) >= WaypointHold
      BY <2>2 DEF Arrived, ReachedAt, Since
    <2>4. CASE reached = visit
      BY <2>1, <2>2, <2>4 DEF HeldHere, Arrived, ReachedAt
    <2>5. CASE Carried
      BY <1>3, <2>1, <2>3, <2>5, CarriedIsClose DEF Tick
    <2> QED BY <2>1, <2>4, <2>5 DEF HoldInv
  <1>6. CASE Align
    <2>1. reached = visit
      BY <1>1, <1>6, SameClock DEF Align
    <2>2. stage \in Flight /\ ~Following
      BY <1>6 DEF Align, Flight, Following
    <2>3. ReachedAt(tag'.pose) # None /\ ReachedAt(tag'.pose) >= AlignHold
      BY <1>2, <1>4, <1>6, <2>2 DEF Align, AlignLost, AlignSeen
    <2> QED BY <2>1, <2>2, <2>3 DEF HeldHere, ReachedAt
  <1>7. CASE Search \/ AlignFixed \/ Release
    BY <1>7 DEF Search, AlignFixed, Release, Following
  <1>8. ~Unhealthy
    BY <1>4 DEF Unhealthy
  <1> QED BY <1>3, <1>5, <1>6, <1>7, <1>8 DEF Tick

\* A waypoint is left behind only when every look of its hold time has found the
\* aircraft there (flight_driver.py: _arrived, _follow), and so is the tag: for
\* every list of waypoints, tolerance and hold time.
THEOREM HoldsBeforeLeaving == Spec => HeldBeforeLeaving
  <1>1. TypeInv /\ HoldInv /\ [Next]_vars => [LeavesHeld]_vars
    BY LeavingStep
  <1>2. Spec => [][LeavesHeld]_vars
    BY <1>1, TypeInvariant, HoldInvariant, PTL DEF Spec
  <1> QED BY <1>2 DEF HeldBeforeLeaving, LeavesHeld

-----------------------------------------------------------------------------
(* The evidence behind a fresh tag.                                        *)

UpToTag == mode = "tag" /\ stage \in {"TRANSIT", "SEARCH_TAG", "ALIGN_TAG"}

\* What the tracker has seen, and what it will have seen after the next look.
Seen == [since |-> tag.since, places |-> tag.window, last |-> tag.last]

Expected ==
  IF ~due THEN Seen
  ELSE IF message.age > TagTimeout THEN Ends(Seen)
  ELSE IF message.sight = "tag" /\ message.unread THEN GoesOn(Seen, message.place)
  ELSE Seen

\* The window of the tracker is the series in the camera.
Agrees ==
  /\ series.since = Expected.since /\ series.places = Expected.places
  /\ series.last = Expected.last

\* A tag is news for one tick only.
NewsIsFresh ==
  message.sight = "tag" /\ message.unread => due /\ message.age <= TagTimeout

\* The answer for the newest message holds as long as the message counts.
AnswerHolds ==
  answer /\ message.age <= TagTimeout =>
    /\ Readable(message)
    /\ series.since >= StableTime /\ tag.pose \in Between(series.places)

\* Before the search nothing has been seen.
Unseen == tag.since = None /\ tag.window = {} /\ message.sight = "nothing" /\ ~answer

TrackInv ==
  UpToTag => /\ Agrees /\ NewsIsFresh /\ AnswerHolds
             /\ tag.since # None => tag.last # None
             /\ stage = "TRANSIT" => Unseen

LEMMA SeenFields ==
  /\ CameraOK => Seen \in Series
  /\ Seen.since = tag.since /\ Seen.places = tag.window /\ Seen.last = tag.last
  /\ CameraOK' => Seen' \in Series
  /\ Seen'.since = tag'.since /\ Seen'.places = tag'.window /\ Seen'.last = tag'.last
  <1>1. CameraOK => Seen \in Series
    BY SeriesFields, TrackerFields DEF Seen, CameraOK, TrackerOK
  <1>2. CameraOK' => Seen' \in Series
    BY SeriesFields, TrackerFields DEF Seen, CameraOK, TrackerOK
  <1> QED BY <1>1, <1>2 DEF Seen

LEMMA InitTrack == Init => TrackInv
  <1> SUFFICES ASSUME Init PROVE TrackInv
    OBVIOUS
  <1>1. /\ tag.since = None /\ tag.window = {} /\ tag.last = None
        /\ series.since = None /\ series.places = {} /\ series.last = None
        /\ ~due /\ message.sight = "nothing" /\ ~answer
    BY DEF Init, NewTracker, NoSeries
  <1> QED BY <1>1, SeenFields
       DEF TrackInv, Agrees, Expected, NewsIsFresh, AnswerHolds, Unseen

\* No message: both records grow older, or the series ends.
LEMMA SilentTrack ==
  ASSUME CameraOK, CameraOK', UpToTag, TrackInv, ~due, due', NEW d \in Nat, CameraSilent(d),
         tag' = OlderTag(d)
  PROVE  /\ Agrees' /\ NewsIsFresh' /\ AnswerHolds'
         /\ tag'.since # None => tag'.last # None
         /\ Unseen => Unseen'
  <1>1. /\ MessageOK(message') /\ message'.sight = message.sight
        /\ message'.unread = message.unread
        /\ message'.age = Older(message.age, d, TagTimeout + 1)
    BY OlderMessage DEF CameraOK, CameraSilent
  <1>2. /\ tag'.since = Older(tag.since, d, StableTime) /\ tag'.window = tag.window
        /\ tag'.last = tag.last /\ tag'.pose = tag.pose
    BY OlderTagFields DEF CameraOK
  <1>3. /\ series.since = tag.since /\ series.places = tag.window /\ series.last = tag.last
    BY SeenFields DEF TrackInv, Agrees, Expected
  <1>4. ~(message'.sight = "tag" /\ message'.unread)
    BY <1>1 DEF TrackInv, NewsIsFresh
  <1>5. Agrees'
    <2>1. CASE message'.age > TagTimeout
      <3>1. /\ series'.since = None /\ series'.places = {} /\ series'.last = series.last
        BY <2>1, EndsFields DEF CameraSilent, CameraOK
      <3>2. /\ Ends(Seen').since = None /\ Ends(Seen').places = {}
            /\ Ends(Seen').last = tag'.last
        BY EndsFields, SeenFields
      <3>3. Expected' = Ends(Seen')
        BY <2>1 DEF Expected
      <3> QED BY <1>2, <1>3, <3>1, <3>2, <3>3 DEF Agrees
    <2>2. CASE ~(message'.age > TagTimeout)
      <3>1. /\ series'.since = Older(series.since, d, StableTime)
            /\ series'.places = series.places /\ series'.last = series.last
        BY <2>2, GoesFields DEF CameraSilent, CameraOK
      <3>2. Expected' = Seen'
        BY <1>4, <2>2 DEF Expected
      <3> QED BY <1>2, <1>3, <3>1, <3>2, SeenFields DEF Agrees
    <2> QED BY <2>1, <2>2
  <1>6. NewsIsFresh'
    BY <1>4 DEF NewsIsFresh
  <1>7. AnswerHolds'
    <2> SUFFICES ASSUME answer', message'.age <= TagTimeout
                 PROVE  /\ Readable(message')
                        /\ series'.since >= StableTime
                        /\ tag'.pose \in Between(series'.places)
      BY DEF AnswerHolds
    <2>1. message.age \in 0 .. TagTimeout + 1 /\ TagTimeout + 1 \in Nat
      BY MessageFields, TrackerAssumption DEF CameraOK, MessageOK
    <2>2. message.age <= TagTimeout
      BY <1>1, <2>1, TrackerAssumption DEF Older, None
    <2>3. answer
      BY DEF CameraSilent
    <2>4. /\ Readable(message) /\ series.since >= StableTime
          /\ tag.pose \in Between(series.places)
      BY <2>2, <2>3 DEF TrackInv, AnswerHolds
    <2>5. message'.age \in Nat
      BY <1>1, MessageFields, TrackerAssumption DEF MessageOK
    <2>6. ~(message'.age > TagTimeout)
      BY <2>5, TrackerAssumption
    <2>7. /\ series'.since = Older(series.since, d, StableTime)
          /\ series'.places = series.places
      BY <2>6, GoesFields DEF CameraSilent, CameraOK
    <2>8. series'.since >= StableTime
      BY <2>4, <2>7, SeriesFields, TrackerAssumption DEF Older, None, CameraOK
    <2> QED BY <1>1, <1>2, <2>4, <2>7, <2>8 DEF Readable
  <1>8. tag'.since # None => tag'.last # None
    BY <1>2 DEF TrackInv, Older
  <1>9. Unseen => Unseen'
    BY <1>1, <1>2 DEF Unseen, Older, CameraSilent
  <1> QED BY <1>5, <1>6, <1>7, <1>8, <1>9

\* A new message: the series goes on as the window will.
LEMMA SpeakingTrack ==
  ASSUME CameraOK, CameraOK', UpToTag, TrackInv, ~due, due', NEW d \in Nat, CameraSpeaks(d),
         tag' = OlderTag(d)
  PROVE  /\ Agrees' /\ NewsIsFresh' /\ AnswerHolds'
         /\ tag'.since # None => tag'.last # None
  <1>1. MessageOK(message') /\ message'.unread /\ message'.age = 0
    BY NewMessageFields DEF CameraSpeaks
  <1>2. /\ tag'.since = Older(tag.since, d, StableTime) /\ tag'.window = tag.window
        /\ tag'.last = tag.last
    BY OlderTagFields DEF CameraOK
  <1>3. /\ series.since = tag.since /\ series.places = tag.window /\ series.last = tag.last
    BY SeenFields DEF TrackInv, Agrees, Expected
  <1> DEFINE g == Goes(series, d)
  <1>4. /\ g \in Series /\ Seen' \in Series
        /\ g.since = Seen'.since /\ g.places = Seen'.places /\ g.last = Seen'.last
    BY <1>2, <1>3, GoesFields, SeenFields DEF CameraOK
  <1> HIDE DEF g
  <1>5. ~(message'.age > TagTimeout)
    BY <1>1, TrackerAssumption
  <1>6. Agrees'
    <2>1. CASE message'.sight = "tag"
      <3>1. series' = GoesOn(g, message'.place) /\ Expected' = GoesOn(Seen', message'.place)
        BY <1>1, <1>5, <2>1 DEF CameraSpeaks, Expected, g
      <3>2. message'.place \in Places
        BY <1>1, <2>1 DEF MessageOK
      <3>3. /\ GoesOn(g, message'.place).since = GoesOn(Seen', message'.place).since
            /\ GoesOn(g, message'.place).places = GoesOn(Seen', message'.place).places
            /\ GoesOn(g, message'.place).last = GoesOn(Seen', message'.place).last
        BY <1>4, SameSeries
      <3> QED BY <3>1, <3>3 DEF Agrees
    <2>2. CASE message'.sight # "tag"
      <3>1. series' = g /\ Expected' = Seen'
        BY <1>5, <2>2 DEF CameraSpeaks, Expected, g
      <3> QED BY <1>4, <3>1 DEF Agrees
    <2> QED BY <2>1, <2>2
  <1>7. NewsIsFresh' /\ AnswerHolds'
    BY <1>1, TrackerAssumption DEF NewsIsFresh, AnswerHolds, CameraSpeaks
  <1>8. tag'.since # None => tag'.last # None
    BY <1>2 DEF TrackInv, Older
  <1> QED BY <1>6, <1>7, <1>8

LEMMA FlyTrack ==
  ASSUME TypeInv, TypeInv', TrackInv, Fly
  PROVE  TrackInv'
  <1> SUFFICES ASSUME UpToTag'
               PROVE  TrackInv'
    BY DEF TrackInv
  <1>1. stage' = stage /\ UpToTag /\ ~due /\ due' /\ CameraOK /\ CameraOK'
    BY DEF Fly, UpToTag, stage, TypeInv
  <1>2. PICK d \in 1 .. Late : tag' = OlderTag(d) /\ (CameraSilent(d) \/ CameraSpeaks(d))
    BY DEF Fly, OlderTag
  <1>3. d \in Nat
    BY StagesAssumption
  <1>4. CASE CameraSilent(d)
    BY <1>1, <1>2, <1>3, <1>4, SilentTrack DEF TrackInv
  <1>5. CASE CameraSpeaks(d)
    <2>1. stage' # "TRANSIT"
      BY <1>1, <1>5 DEF CameraSpeaks, Looking
    <2> QED BY <1>1, <1>2, <1>3, <1>5, <2>1, SpeakingTrack DEF TrackInv
  <1> QED BY <1>2, <1>4, <1>5

\* One look brings the window up to the series.
LEMMA LookTrack ==
  ASSUME CameraOK, CameraOK', UpToTag, TrackInv, due, ~due', Look, UNCHANGED series
  PROVE  /\ Agrees' /\ NewsIsFresh' /\ AnswerHolds'
         /\ tag'.since # None => tag'.last # None
         /\ tag'.fresh => message'.age <= TagTimeout
  <1> DEFINE b == message.unread /\ ~Readable(message)
  <1>1. PICK mean \in Places :
          /\ message.sight = "tag" => mean \in Between(WindowAfter(tag, message))
          /\ tag' = Update(tag, message, mean)
          /\ message' = [message EXCEPT !.unread = b]
          /\ answer' = IF Readable(message) /\ message.unread THEN tag'.fresh ELSE answer
    BY DEF Look
  <1>2. /\ MessageOK(message) /\ TrackerOK(tag) /\ message.age \in Nat
        /\ message.unread \in BOOLEAN
        /\ tag.since \in None .. StableTime /\ tag.last \in Places \cup {None}
    BY MessageFields, TrackerFields, TrackerAssumption DEF CameraOK, MessageOK, TrackerOK
  <1>3. /\ message'.sight = message.sight /\ message'.age = message.age
        /\ (message'.unread <=> message.unread /\ ~Readable(message))
    <2>1. b \in BOOLEAN
      OBVIOUS
    <2> HIDE DEF b
    <2>2. /\ message'.sight = message.sight /\ message'.age = message.age
          /\ message'.unread = b
      BY <1>1, <1>2, <2>1 DEF MessageOK, Message
    <2> QED BY <2>2 DEF b
  <1>4. Agrees /\ NewsIsFresh /\ AnswerHolds /\ (tag.since # None => tag.last # None)
    BY DEF TrackInv
  <1>13. TrackerOK(tag) /\ MessageOK(message) /\ tag' = Update(tag, message, mean)
    BY <1>1, <1>2
  <1>5. /\ message.age > TagTimeout =>
             ~tag'.fresh /\ tag'.since = None /\ tag'.window = {} /\ tag'.last = tag.last
        /\ message.age <= TagTimeout /\ ~(message.sight = "tag" /\ message.unread) =>
             tag'.since = tag.since /\ tag'.window = tag.window /\ tag'.last = tag.last
    BY <1>13, UpdateFields, Zenon
  <1>6. message.age <= TagTimeout /\ message.sight = "tag" /\ message.unread =>
          /\ tag'.last = message.place /\ tag'.window = WindowAfter(tag, message)
          /\ tag'.window = IF Jumps(tag, message.place) THEN {message.place}
                                                       ELSE tag.window \cup {message.place}
          /\ tag'.since = IF Jumps(tag, message.place) \/ tag.since = None THEN 0 ELSE tag.since
          /\ tag'.fresh => tag'.since >= StableTime /\ tag'.pose = mean
    <2> SUFFICES ASSUME message.age <= TagTimeout, message.sight = "tag", message.unread
                 PROVE  TakesNews(tag, message, mean, tag')
      BY DEF TakesNews
    <2> QED BY <1>13, UpdateTakesNews
  <1>7. /\ ~(Readable(message) /\ message.unread) => tag'.pose = tag.pose
        /\ tag'.fresh => Readable(message) /\ (message.unread => message.sight = "tag")
    BY <1>13, UpdateFields
  <1>8. Expected' = Seen'
    BY DEF Expected
  <1>9. CASE message.age > TagTimeout
    <2>1. Expected = Ends(Seen)
      BY <1>9 DEF Expected
    <2>2. /\ series.since = None /\ series.places = {} /\ series.last = tag.last
      BY <1>4, <2>1, EndsFields, SeenFields DEF Agrees
    <2>3. Agrees'
      BY <1>5, <1>8, <1>9, <2>2, SeenFields DEF Agrees
    <2>4. ~(message.age <= TagTimeout)
      BY <1>2, <1>9, TrackerAssumption
    <2>5. NewsIsFresh' /\ AnswerHolds' /\ ~tag'.fresh
      BY <1>3, <1>4, <1>5, <1>9, <2>4 DEF NewsIsFresh, AnswerHolds
    <2> QED BY <1>5, <1>9, <2>3, <2>5
  <1>10. CASE message.age <= TagTimeout /\ ~(message.sight = "tag" /\ message.unread)
    <2>1. Expected = Seen
      BY <1>2, <1>10, TrackerAssumption DEF Expected
    <2>2. Agrees'
      BY <1>4, <1>5, <1>8, <1>10, <2>1, SeenFields DEF Agrees
    <2>3. NewsIsFresh'
      BY <1>3, <1>10 DEF NewsIsFresh
    <2>4. AnswerHolds'
      <3>1. CASE Readable(message) /\ message.unread
        <4>1. ~tag'.fresh
          BY <1>7, <1>10, <3>1
        <4> QED BY <1>1, <3>1, <4>1 DEF AnswerHolds
      <3>2. CASE ~(Readable(message) /\ message.unread)
        <4>1. answer' = answer /\ tag'.pose = tag.pose
          BY <1>1, <1>7, <3>2
        <4> QED BY <1>3, <1>4, <4>1 DEF AnswerHolds, Readable
      <3> QED BY <3>1, <3>2
    <2> QED BY <1>3, <1>4, <1>5, <1>10, <2>2, <2>3, <2>4
  <1>11. CASE message.age <= TagTimeout /\ message.sight = "tag" /\ message.unread
    <2>1. message.place \in Places /\ message.place # None
      BY <1>2, <1>11, TrackerAssumption DEF MessageOK, None
    <2>2. Expected = GoesOn(Seen, message.place)
      BY <1>2, <1>11, TrackerAssumption DEF Expected
    <2>3. /\ series.last = message.place
          /\ IF tag.since # None /\ Distance(message.place, tag.last) <= JumpLimit
             THEN series.since = tag.since /\ series.places = tag.window \cup {message.place}
             ELSE series.since = 0 /\ series.places = {message.place}
      BY <1>4, <2>1, <2>2, GoesOnFields, SeenFields DEF Agrees
    <2>4. Distance(message.place, tag.last) \in Nat \/ tag.last = None
      BY <1>2, <2>1, DistanceType, TrackerAssumption
    <2>5. series.since = tag'.since /\ series.places = tag'.window
      <3>1. CASE tag.since = None
        <4>1. tag.window = {}
          BY <1>2, <3>1 DEF TrackerOK
        <4> QED BY <1>6, <1>11, <2>3, <3>1, <4>1
      <3>2. CASE tag.since # None
        <4>1. Jumps(tag, message.place) <=> ~(Distance(message.place, tag.last) <= JumpLimit)
          BY <1>4, <2>4, <3>2, TrackerAssumption DEF Jumps
        <4> QED BY <1>6, <1>11, <2>3, <3>2, <4>1
      <3> QED BY <3>1, <3>2
    <2>6. Agrees'
      BY <1>6, <1>8, <1>11, <2>3, <2>5, SeenFields DEF Agrees
    <2>7. Readable(message) /\ Readable(message') /\ ~message'.unread
      BY <1>3, <1>11 DEF Readable
    <2>8. AnswerHolds'
      <3> SUFFICES ASSUME answer'
                   PROVE  /\ series'.since >= StableTime
                          /\ tag'.pose \in Between(series'.places)
        BY <2>7 DEF AnswerHolds
      <3>1. tag'.fresh
        BY <1>1, <1>11, <2>7
      <3>2. tag'.since >= StableTime /\ tag'.pose = mean /\ tag'.window = WindowAfter(tag, message)
        BY <1>6, <1>11, <3>1
      <3>3. mean \in Between(WindowAfter(tag, message))
        BY <1>1, <1>11
      <3> QED BY <2>5, <3>2, <3>3
    <2>9. NewsIsFresh'
      BY <2>7 DEF NewsIsFresh
    <2> QED BY <1>3, <1>6, <1>11, <2>1, <2>6, <2>8, <2>9
  <1>12. message.age > TagTimeout \/ message.age <= TagTimeout
    BY <1>2, TrackerAssumption
  <1> QED BY <1>9, <1>10, <1>11, <1>12

LEMMA TickTrack ==
  ASSUME TypeInv, TypeInv', TrackInv, Tick
  PROVE  TrackInv'
  <1> SUFFICES ASSUME UpToTag'
               PROVE  TrackInv'
    BY DEF TrackInv
  <1>1. /\ due /\ ~due' /\ mode' = mode /\ mode = "tag" /\ series' = series
        /\ stage' # "ABORT_LAND" /\ CameraOK /\ CameraOK' /\ CourseOK
    BY DEF Tick, UpToTag, TypeInv
  <1>2. ~AbortStage \/ stage \notin Flight
    BY <1>1, AbortCourse
  <1>3. CASE Search \/ Align
    <2>1. UpToTag /\ Look /\ stage \in {"SEARCH_TAG", "ALIGN_TAG"}
      BY <1>1, <1>3 DEF Search, Align, UpToTag
    <2>2. stage' # "TRANSIT"
      <3>1. CASE AdvanceStage
        <4>1. machine \in Machine /\ stage \in Flight \ {"LAND"}
          BY <1>1, <2>1 DEF CourseOK, Flight
        <4> QED BY <1>1, <2>1, <3>1, <4>1, AdvanceMachine DEF NextStage
      <3>2. CASE UNCHANGED machine
        BY <2>1, <3>2 DEF stage
      <3> QED BY <1>2, <1>3, <2>1, <3>1, <3>2
           DEF Search, Align, AlignLost, AlignSeen, Flight
    <2> QED BY <1>1, <2>1, <2>2, LookTrack DEF TrackInv
  <1>4. CASE Follow
    <2>1. UNCHANGED <<tag, message, answer>> /\ stage \in {"TRANSIT", "RETURN"}
      BY <1>1, <1>4 DEF Follow
    <2>2. CASE stage = "RETURN"
      <3>1. CASE AdvanceStage
        <4>1. machine \in Machine /\ stage \in Flight \ {"LAND"}
          BY <1>1, <2>2 DEF CourseOK, Flight
        <4> QED BY <1>1, <2>2, <3>1, <4>1, AdvanceMachine DEF NextStage, UpToTag
      <3>2. CASE UNCHANGED machine
        BY <2>2, <3>2 DEF stage, UpToTag
      <3> QED BY <1>2, <1>4, <2>2, <3>1, <3>2 DEF Follow, FollowPoints, Flight
    <2>3. CASE stage = "TRANSIT"
      <3>1. UpToTag /\ Unseen /\ Agrees
        BY <1>1, <2>3 DEF UpToTag, TrackInv
      <3>2. /\ tag.since = None /\ tag.window = {} /\ series.since = None
            /\ series.places = {} /\ series.last = tag.last
        BY <1>1, <3>1, EndsFields, SeenFields DEF Agrees, Unseen, Expected
      <3>3. Agrees'
        BY <1>1, <2>1, <3>2, SeenFields DEF Agrees, Expected
      <3>4. Unseen' /\ NewsIsFresh' /\ AnswerHolds'
        BY <2>1, <3>1 DEF Unseen, NewsIsFresh, AnswerHolds
      <3> QED BY <2>1, <3>2, <3>3, <3>4 DEF TrackInv
    <2> QED BY <2>1, <2>2, <2>3
  <1>5. CASE AlignFixed \/ Release
    <2>1. stage = "RELEASE" /\ AdvanceStage
      BY <1>1, <1>2, <1>5 DEF AlignFixed, Release, Flight
    <2>2. machine \in Machine /\ stage \in Flight \ {"LAND"}
      BY <1>1, <2>1 DEF CourseOK, Flight
    <2> QED BY <1>1, <2>1, <2>2, AdvanceMachine DEF NextStage, UpToTag
  <1>6. ~Unhealthy
    BY <1>2 DEF Unhealthy
  <1> QED BY <1>3, <1>4, <1>5, <1>6 DEF Tick

LEMMA TrackInvariant == Spec => []TrackInv
  <1>1. TypeInv /\ TypeInv' /\ TrackInv /\ [Next]_vars => TrackInv'
    <2> SUFFICES ASSUME TypeInv, TypeInv', TrackInv, [Next]_vars PROVE TrackInv'
      OBVIOUS
    <2>1. CASE UNCHANGED vars
      BY <2>1 DEF vars, TrackInv, UpToTag, Agrees, Expected, Seen, NewsIsFresh, AnswerHolds,
                  Unseen, stage
    <2> QED BY <2>1, FlyTrack, TickTrack DEF Next
  <1> QED BY <1>1, InitTrack, TypeInvariant, PTL DEF Spec

\* What FreshMeansStable asks of a step.
TakesStable ==
  due /\ Looking /\ stage' # "ABORT_LAND" /\ tag'.fresh /\ answer' =>
    series.since >= StableTime /\ tag'.pose \in Between(series.places)

LEMMA TakingStep ==
  ASSUME TypeInv, TypeInv', TrackInv, Next
  PROVE  TakesStable
  <1> SUFFICES ASSUME due, Looking, stage' # "ABORT_LAND", tag'.fresh, answer'
               PROVE  series.since >= StableTime /\ tag'.pose \in Between(series.places)
    BY DEF TakesStable
  <1>1. Tick /\ UpToTag /\ CameraOK /\ CameraOK' /\ CourseOK
    BY DEF Next, Fly, Looking, UpToTag, TypeInv
  <1>2. ~Unhealthy
    BY <1>1, AbortCourse DEF Unhealthy
  <1>3. Look /\ ~due' /\ series' = series
    BY <1>1, <1>2 DEF Tick, Follow, Search, AlignFixed, Align, Release, Looking
  <1>4. AnswerHolds' /\ message'.age <= TagTimeout
    BY <1>1, <1>3, LookTrack
  <1> QED BY <1>3, <1>4 DEF AnswerHolds

\* A fresh tag position is where the camera has seen the tag for the stable time
\* (tag_tracker.py: update), for every sequence of messages, lost or repeated.
THEOREM FreshTagIsStable == Spec => FreshMeansStable
  <1>1. TypeInv /\ TypeInv' /\ TrackInv /\ [Next]_vars => [TakesStable]_vars
    BY TakingStep
  <1>2. Spec => [][TakesStable]_vars
    BY <1>1, TypeInvariant, TrackInvariant, PTL DEF Spec
  <1> QED BY <1>2 DEF FreshMeansStable, TakesStable
=============================================================================
