---------------------- MODULE LandingConfirmation_proofs ----------------------
(***************************************************************************)
(* The sequence numbers of the landing confirmation implement the gate     *)
(* MissionNode is written with, whatever the callback and the flight timer *)
(* interleave; and every count has at least half as many messages behind   *)
(* it, all from after begin or interrupted by it.                          *)
(***************************************************************************)
EXTENDS LandingConfirmation, FiniteSetTheorems, TLAPS

\* The sequence numbers only grow, and the callback is at most one message
\* ahead of its count.
Ordered ==
  /\ conf.minimum <= conf.last
  /\ conf.last <= sequence
  /\ stored.id \in {sequence, sequence + 1}
  /\ conf.started \/ conf = Cleared

\* What the messages behind the count can carry.
Weight(e, b) == 2 * Cardinality(e \ {b}) + Cardinality(e \cap {b})

Bit(b) == IF b THEN 1 ELSE 0

\* A look at sequence s sees the message s, or s+1 if that is stored but not
\* counted.  The message after the last look may be counted once more; until
\* then the count is one below what its messages carry.
EvidenceCounted ==
  /\ IsFiniteSet(evidence)
  /\ \A id \in evidence : begun <= id /\ id <= conf.last + 1
  /\ conf.started => begun \in {conf.minimum, conf.minimum + 1}
  /\ conf.consecutive + Bit(conf.last + 1 \in evidence) <= Weight(evidence, begun)
  /\ ~conf.started => evidence = {}

-----------------------------------------------------------------------------

LEMMA ClearedConfirmation ==
  /\ Cleared \in Confirmation /\ ~Cleared.started
  /\ Cleared.minimum = 0 /\ Cleared.last = 0 /\ Cleared.consecutive = 0
  BY DEF Cleared, Confirmation

\* What a look at a new sample does to the confirmation.
LEMMA ObservedConfirmation ==
  ASSUME TypeOK, NEW healthy \in BOOLEAN, ObserveNew(healthy)
  PROVE  /\ conf' \in Confirmation
         /\ conf.started /\ conf'.started
         /\ conf'.minimum = conf.minimum /\ conf'.last = sequence
         /\ conf'.consecutive = IF Valid(healthy) THEN conf.consecutive + 1 ELSE 0
  <1> DEFINE count == IF Valid(healthy) THEN conf.consecutive + 1 ELSE 0
  <1>1. count \in Nat
    BY DEF TypeOK, Confirmation
  <1>2. conf' = [conf EXCEPT !.last = sequence, !.consecutive = count]
    BY DEF ObserveNew
  <1>3. conf.started
    BY DEF ObserveNew
  <1> HIDE DEF count
  <1>4. /\ conf' \in Confirmation /\ conf'.started
        /\ conf'.minimum = conf.minimum /\ conf'.last = sequence
        /\ conf'.consecutive = count
    BY <1>1, <1>2, <1>3 DEF TypeOK, Confirmation
  <1> QED BY <1>3, <1>4 DEF count

LEMMA TypeInit == Init => TypeOK
  <1> SUFFICES ASSUME Init PROVE TypeOK
    OBVIOUS
  <1>1. conf \in Confirmation
    BY ClearedConfirmation DEF Init
  <1>2. stored \in Message
    BY DEF Init, Message
  <1>3. evidence \subseteq 1..stored.id
    BY DEF Init
  <1> QED BY <1>1, <1>2, <1>3 DEF Init, TypeOK

LEMMA OrderedInit == Init => Ordered
  <1> SUFFICES ASSUME Init PROVE Ordered
    OBVIOUS
  <1>1. conf = Cleared /\ sequence = 0 /\ stored.id = 0
    BY DEF Init
  <1> QED BY <1>1, ClearedConfirmation DEF Ordered

LEMMA TypeNext == TypeOK /\ Ordered /\ [Next]_vars => TypeOK'
  <1> SUFFICES ASSUME TypeOK, Ordered, [Next]_vars PROVE TypeOK'
    OBVIOUS
  <1> USE DEF TypeOK
  <1>1. ASSUME NEW ground \in BOOLEAN, CbStores(ground)
        PROVE  TypeOK'
    <2>1. stored' \in Message /\ stored'.id = stored.id + 1 /\ stored.id \in Nat
      BY <1>1 DEF CbStores, Message
    <2> QED BY <1>1, <2>1 DEF CbStores
  <1>2. CASE CbCounts
    BY <1>2 DEF CbCounts
  <1>3. CASE Reset
    BY <1>3, ClearedConfirmation DEF Reset
  <1>4. CASE Begin
    BY <1>4 DEF Begin, BeginsAt, Confirmation, Message
  <1>5. CASE ObserveStale
    BY <1>5 DEF ObserveStale
  <1>6. ASSUME NEW healthy \in BOOLEAN, ObserveNew(healthy)
        PROVE  TypeOK'
    <2>1. conf' \in Confirmation
      BY <1>6, ObservedConfirmation
    <2>2. landed' \in BOOLEAN
      BY <1>6 DEF ObserveNew
    <2>3. stored.id \in 1..stored.id
      BY <1>6 DEF ObserveNew, IsNew, Ordered, Confirmation, Message
    <2>4. evidence' \subseteq 1..stored.id
      BY <1>6, <2>3 DEF ObserveNew
    <2> QED BY <1>6, <2>1, <2>2, <2>4 DEF ObserveNew
  <1>7. CASE UNCHANGED vars
    BY <1>7 DEF vars
  <1> QED BY <1>1, <1>2, <1>3, <1>4, <1>5, <1>6, <1>7 DEF Next

LEMMA OrderedNext == TypeOK /\ Ordered /\ [Next]_vars => Ordered'
  <1> SUFFICES ASSUME TypeOK, Ordered, [Next]_vars PROVE Ordered'
    OBVIOUS
  <1> USE DEF TypeOK, Ordered, Confirmation, Message
  <1>1. ASSUME NEW ground \in BOOLEAN, CbStores(ground)
        PROVE  Ordered'
    BY <1>1 DEF CbStores, InCallback
  <1>2. CASE CbCounts
    BY <1>2 DEF CbCounts, InCallback
  <1>3. CASE Reset
    BY <1>3, ClearedConfirmation DEF Reset
  <1>4. CASE Begin
    BY <1>4 DEF Begin, BeginsAt
  <1>5. CASE ObserveStale
    BY <1>5 DEF ObserveStale
  <1>6. ASSUME NEW healthy \in BOOLEAN, ObserveNew(healthy)
        PROVE  Ordered'
    <2>1. conf'.started /\ conf'.minimum = conf.minimum /\ conf'.last = sequence
      BY <1>6, ObservedConfirmation
    <2> QED BY <1>6, <2>1 DEF ObserveNew
  <1>7. CASE UNCHANGED vars
    BY <1>7 DEF vars
  <1> QED BY <1>1, <1>2, <1>3, <1>4, <1>5, <1>6, <1>7 DEF Next

LEMMA OrderInvariant == Spec => [](TypeOK /\ Ordered)
  BY TypeInit, OrderedInit, TypeNext, OrderedNext, PTL DEF Spec

\* The fields of the confirmation and the histories keep their types in every
\* interleaving.
THEOREM TypeCorrect == Spec => []TypeOK
  BY OrderInvariant, PTL

-----------------------------------------------------------------------------
(* The gate.                                                               *)

\* The gate the confirmation stands for, field by field.
Unseen == conf.started /\ sequence > conf.last

GateRecord(started, unseen, count) ==
  [started |-> started, unseen |-> unseen, count |-> count]

GateType == [started : BOOLEAN, unseen : BOOLEAN, count : Nat]

\* A gate is known by its fields.
LEMMA GateUnseen ==
  ASSUME NEW g \in GateType, NEW v \in BOOLEAN,
         NEW h \in GateType, h.started = g.started, h.unseen = v, h.count = g.count
  PROVE  h = [g EXCEPT !.unseen = v]
  BY DEF GateType

LEMMA GateUpdate ==
  ASSUME NEW g \in GateType, NEW n \in Nat,
         NEW h \in GateType, h.started = g.started, h.unseen = FALSE, h.count = n
  PROVE  h = [g EXCEPT !.unseen = FALSE, !.count = n]
  BY DEF GateType

GateOf == GateRecord(conf.started, Unseen, conf.consecutive)

LEMMA GateFields ==
  /\ GateOf.started = conf.started
  /\ GateOf.unseen = Unseen
  /\ GateOf.count = conf.consecutive
  BY DEF GateOf, GateRecord

LEMMA GateTyped ==
  ASSUME NEW s \in BOOLEAN, NEW u \in BOOLEAN, NEW c \in Nat
  PROVE  GateRecord(s, u, c) \in GateType
  BY DEF GateRecord, GateType

LEMMA GateInit == Init => Gate!Init
  <1> SUFFICES ASSUME Init PROVE Gate!Init
    OBVIOUS
  <1>1. conf.started = FALSE /\ Unseen = FALSE /\ conf.consecutive = 0 /\ landed = FALSE
    BY DEF Init, Cleared, Unseen
  <1>2. GateOf = GateRecord(FALSE, FALSE, 0)
    BY <1>1, Zenon DEF GateOf
  <1> QED BY <1>1, <1>2 DEF GateOf, GateRecord, Unseen, Gate!Init, Gate!GateReset

LEMMA GateNext == TypeOK /\ Ordered /\ [Next]_vars => [Gate!Next]_(Gate!vars)
  <1> SUFFICES ASSUME TypeOK, Ordered, [Next]_vars PROVE [Gate!Next]_(Gate!vars)
    OBVIOUS
  <1>1. ASSUME NEW ground \in BOOLEAN, CbStores(ground)
        PROVE  UNCHANGED Gate!vars
    BY <1>1 DEF CbStores, Gate!vars
  <1>2. CASE CbCounts
    <2>1. conf' = conf /\ landed' = landed /\ Unseen' = conf.started
      BY <1>2 DEF CbCounts, Unseen, TypeOK, Ordered, Confirmation
    <2>2. GateOf' = [GateOf EXCEPT !.unseen = conf.started]
      <3>1. GateOf'.started = GateOf.started /\ GateOf'.unseen = conf.started
            /\ GateOf'.count = GateOf.count
        BY <2>1, GateFields, Zenon DEF GateOf, GateRecord
      <3>2. conf.started \in BOOLEAN /\ Unseen \in BOOLEAN /\ conf.consecutive \in Nat
        BY DEF TypeOK, Confirmation, Unseen
      <3>3. GateOf \in GateType
        BY <3>2, GateTyped, Zenon DEF GateOf
      <3>4. GateOf' \in GateType
        BY <2>1, <3>2, GateTyped, Zenon DEF GateOf
      <3> QED BY <3>1, <3>2, <3>3, <3>4, GateUnseen
    <2> QED BY <2>1, <2>2
            DEF GateOf, GateRecord, Unseen, Gate!Next, Gate!Sample, Gate!GateSample
  <1>3. CASE Reset
    <2>1. conf'.started = FALSE /\ Unseen' = FALSE /\ conf'.consecutive = 0 /\ landed' = FALSE
      BY <1>3 DEF Reset, Unseen, Cleared
    <2>2. GateOf' = GateRecord(FALSE, FALSE, 0)
      BY <2>1, Zenon DEF GateOf
    <2> QED BY <2>1, <2>2 DEF GateOf, GateRecord, Unseen, Gate!Next, Gate!Reset, Gate!GateReset
  <1>4. CASE Begin
    <2>1. conf'.started = TRUE /\ Unseen' = FALSE /\ conf'.consecutive = 0 /\ landed' = FALSE
      BY <1>4 DEF Begin, BeginsAt, TypeOK, Unseen
    <2>2. GateOf' = GateRecord(TRUE, FALSE, 0)
      BY <2>1, Zenon DEF GateOf
    <2> QED BY <2>1, <2>2 DEF GateOf, GateRecord, Unseen, Gate!Next, Gate!Begin, Gate!GateBegin
  <1>5. CASE ObserveStale
    <2>1. ~Unseen /\ UNCHANGED <<conf, sequence>> /\ landed' = FALSE
      BY <1>5 DEF ObserveStale, IsNew, Unseen, TypeOK, Ordered, Confirmation
    <2>2. GateOf' = GateOf /\ ~GateOf.unseen
      BY <2>1 DEF GateOf, GateRecord, Unseen
    <2>3. Gate!Observe(FALSE)
      BY <2>1, <2>2 DEF GateOf, GateRecord, Unseen, Gate!Observe, Gate!GateObserve, Gate!GateOpens
    <2> QED BY <2>3 DEF Gate!Next
  <1>6. ASSUME NEW healthy \in BOOLEAN, ObserveNew(healthy)
        PROVE  Gate!Next
    <2> DEFINE valid == Valid(healthy)
    <2>1. Unseen = TRUE /\ conf.started = TRUE
      BY <1>6 DEF ObserveNew, IsNew, Unseen, TypeOK, Confirmation
    <2>2. valid \in BOOLEAN
      BY DEF Valid, TypeOK, Message
    <2>3. /\ conf'.started = TRUE /\ Unseen' = FALSE
          /\ conf'.consecutive = IF valid THEN conf.consecutive + 1 ELSE 0
          /\ landed' = (conf'.consecutive >= Required)
      <3>1. /\ conf' \in Confirmation /\ conf'.started /\ conf'.last = sequence
            /\ conf'.consecutive = IF valid THEN conf.consecutive + 1 ELSE 0
        BY <1>6, ObservedConfirmation
      <3>2. sequence' = sequence /\ landed' = (conf'.consecutive >= Required)
        BY <1>6 DEF ObserveNew
      <3>3. conf'.started = TRUE /\ Unseen' = FALSE
        BY <3>1, <3>2 DEF Unseen, TypeOK, Confirmation
      <3> QED BY <3>1, <3>2, <3>3
    <2> HIDE DEF valid
    <2>4. GateOf' = [GateOf EXCEPT !.unseen = FALSE,
                                   !.count = IF valid THEN GateOf.count + 1 ELSE 0]
      <3> DEFINE count == IF valid THEN conf.consecutive + 1 ELSE 0
      <3>1. count \in Nat /\ GateOf.count = conf.consecutive
        BY GateFields DEF TypeOK, Confirmation
      <3>2. GateOf'.started = TRUE /\ GateOf'.unseen = FALSE /\ GateOf'.count = count
        BY <2>3, Zenon DEF GateOf, GateRecord
      <3>3. conf.consecutive \in Nat /\ conf'.consecutive = count
        BY <2>3 DEF TypeOK, Confirmation
      <3>4. GateOf.started = TRUE /\ TRUE \in BOOLEAN /\ FALSE \in BOOLEAN
        BY <2>1, GateFields
      <3> HIDE DEF count
      <3>5. GateOf \in GateType
        BY <2>1, <3>3, <3>4, GateTyped, Zenon DEF GateOf
      <3>6. GateOf' \in GateType
        BY <2>3, <3>1, <3>3, <3>4, GateTyped, Zenon DEF GateOf
      <3>7. GateOf' = [GateOf EXCEPT !.unseen = FALSE, !.count = count]
        BY <3>1, <3>2, <3>4, <3>5, <3>6, GateUpdate
      <3> QED BY <3>1, <3>7, Zenon DEF count
    <2>5. Gate!GateObserve(GateOf, valid) = GateOf'
      BY <2>1, <2>4, Zenon DEF Gate!GateObserve, GateOf, GateRecord
    <2>6. GateOf'.count = conf'.consecutive /\ GateOf.unseen = TRUE
      BY <2>1 DEF GateOf, GateRecord
    <2>7. Gate!Observe(valid)
      BY <2>3, <2>5, <2>6 DEF Gate!Observe, Gate!GateOpens, GateOf, GateRecord, Unseen
    <2> QED BY <2>2, <2>7 DEF Gate!Next
  <1>7. CASE UNCHANGED vars
    BY <1>7 DEF vars, Gate!vars
  <1> QED BY <1>1, <1>2, <1>3, <1>4, <1>5, <1>6, <1>7 DEF Next

\* The landing confirmation implements the gate MissionNode uses, even with
\* a message that is stored but not yet counted.
THEOREM ConfirmationImplementsGate == Spec => ImplementsGate
  BY GateInit, GateNext, OrderInvariant, PTL DEF Spec, ImplementsGate, Gate!Spec

-----------------------------------------------------------------------------
(* The evidence.                                                           *)

LEMMA EmptyWeight == ASSUME NEW b PROVE Weight({}, b) = 0
  <1>1. {} \ {b} = {} /\ {} \cap {b} = {}
    OBVIOUS
  <1> QED BY <1>1, FS_EmptySet DEF Weight

LEMMA WeightType ==
  ASSUME NEW e, IsFiniteSet(e), NEW b
  PROVE  Weight(e, b) \in Nat
  <1>1. IsFiniteSet(e \ {b}) /\ IsFiniteSet(e \cap {b})
    BY FS_Subset
  <1>2. Cardinality(e \ {b}) \in Nat /\ Cardinality(e \cap {b}) \in Nat
    BY <1>1, FS_CardinalityType
  <1> QED BY <1>2 DEF Weight

\* Another message carries two looks, the one that begin interrupted one.
LEMMA MoreWeight ==
  ASSUME NEW e, IsFiniteSet(e), NEW b, NEW x, x \notin e
  PROVE  Weight(e \cup {x}, b) = Weight(e, b) + (IF x = b THEN 1 ELSE 2)
  <1>1. IsFiniteSet(e \ {b}) /\ IsFiniteSet(e \cap {b})
    BY FS_Subset
  <1>2. Cardinality(e \ {b}) \in Nat /\ Cardinality(e \cap {b}) \in Nat
    BY <1>1, FS_CardinalityType
  <1> DEFINE p == Cardinality(e \ {b})
  <1> DEFINE q == Cardinality(e \cap {b})
  <1>3. CASE x = b
    <2>1. (e \cup {x}) \ {b} = e \ {b} /\ (e \cup {x}) \cap {b} = {b} /\ e \cap {b} = {}
      BY <1>3
    <2>2. Cardinality({b}) = 1 /\ Cardinality({}) = 0
      BY FS_Singleton, FS_EmptySet
    <2>3. Weight(e \cup {x}, b) = 2 * p + 1 /\ Weight(e, b) = 2 * p + 0 /\ p \in Nat
      BY <1>2, <2>1, <2>2 DEF Weight
    <2> HIDE DEF p
    <2> QED BY <1>3, <2>3
  <1>4. CASE x # b
    <2>1. /\ (e \cup {x}) \ {b} = (e \ {b}) \cup {x} /\ x \notin e \ {b}
          /\ (e \cup {x}) \cap {b} = e \cap {b}
      BY <1>4
    <2>2. Cardinality((e \cup {x}) \ {b}) = Cardinality(e \ {b}) + 1
      BY <1>1, <2>1, FS_AddElement
    <2>3. /\ Weight(e \cup {x}, b) = 2 * (p + 1) + q /\ Weight(e, b) = 2 * p + q
          /\ p \in Nat /\ q \in Nat
      BY <1>2, <2>1, <2>2 DEF Weight
    <2> HIDE DEF p, q
    <2> QED BY <1>4, <2>3
  <1> QED BY <1>3, <1>4

LEMMA EvidenceInit == Init => EvidenceCounted
  <1> SUFFICES ASSUME Init PROVE EvidenceCounted
    OBVIOUS
  <1>1. evidence = {} /\ conf.consecutive = 0 /\ ~conf.started
    BY ClearedConfirmation DEF Init
  <1>2. Weight(evidence, begun) = 0 /\ IsFiniteSet(evidence)
    BY <1>1, EmptyWeight, FS_EmptySet
  <1> QED BY <1>1, <1>2 DEF EvidenceCounted, Bit

\* A valid look at a new sample.
LEMMA EvidenceGrows ==
  ASSUME TypeOK, Ordered, EvidenceCounted, NEW healthy \in BOOLEAN, ObserveNew(healthy),
         Valid(healthy)
  PROVE  EvidenceCounted'
  <1> DEFINE id == stored.id
  <1> DEFINE w == Weight(evidence, begun)
  <1>1. /\ conf.started /\ conf'.started /\ conf'.minimum = conf.minimum
        /\ conf'.last = sequence /\ conf'.consecutive = conf.consecutive + 1
        /\ evidence' = evidence \cup {id} /\ begun' = begun
    BY ObservedConfirmation DEF ObserveNew
  <1>2. /\ conf.minimum \in Nat /\ conf.last \in Nat /\ conf.consecutive \in Nat
        /\ sequence \in Nat /\ begun \in Nat /\ id \in Nat
        /\ id \in {sequence, sequence + 1} /\ sequence > conf.last
        /\ sequence > conf.minimum /\ begun \in {conf.minimum, conf.minimum + 1}
    BY <1>1 DEF TypeOK, Ordered, EvidenceCounted, Confirmation, Message, ObserveNew, IsNew
  <1>3. \A x \in evidence : x \in Nat /\ begun <= x /\ x <= conf.last + 1
    BY DEF EvidenceCounted, TypeOK
  <1>4. \A x \in evidence' : begun <= x /\ x <= sequence + 1
    BY <1>1, <1>2, <1>3
  <1>5. w \in Nat /\ IsFiniteSet(evidence)
        /\ conf.consecutive + Bit(conf.last + 1 \in evidence) <= w
    BY WeightType DEF EvidenceCounted
  <1>6. IsFiniteSet(evidence')
    BY <1>1, <1>5, FS_AddElement
  <1>7. sequence + 1 \in evidence' => id = sequence + 1
    BY <1>1, <1>2, <1>3
  <1>8. conf'.consecutive + Bit(sequence + 1 \in evidence') <= Weight(evidence', begun)
    <2>1. CASE id \in evidence
      <3>1. id = conf.last + 1 /\ id = sequence
        BY <1>2, <1>3, <2>1
      <3>2. evidence' = evidence /\ sequence + 1 \notin evidence' /\ conf.last + 1 \in evidence
        BY <1>1, <1>2, <1>7, <2>1, <3>1
      <3>3. Bit(conf.last + 1 \in evidence) = 1 /\ Bit(sequence + 1 \in evidence') = 0
        BY <3>2 DEF Bit
      <3>4. conf.consecutive + 1 <= w
        BY <1>5, <3>3
      <3> HIDE DEF w
      <3>5. (conf.consecutive + 1) + 0 <= w
        BY <1>2, <3>4
      <3> QED BY <1>1, <3>2, <3>3, <3>5 DEF w
    <2>2. CASE id \notin evidence
      <3>1. Weight(evidence', begun) = w + (IF id = begun THEN 1 ELSE 2)
        BY <1>1, <1>5, <2>2, MoreWeight
      <3>2. Bit(conf.last + 1 \in evidence) \in {0, 1} /\ Bit(sequence + 1 \in evidence') \in {0, 1}
        BY DEF Bit
      <3>3. id = begun => Bit(sequence + 1 \in evidence') = 0
        BY <1>2, <1>7 DEF Bit
      <3> DEFINE k == Bit(sequence + 1 \in evidence')
      <3> DEFINE j == Bit(conf.last + 1 \in evidence)
      <3>4. k \in {0, 1} /\ j \in {0, 1} /\ (id = begun => k = 0) /\ conf.consecutive + j <= w
        BY <1>5, <3>2, <3>3
      <3> HIDE DEF k, j, w
      <3>5. conf.consecutive + 1 + k <= w + (IF id = begun THEN 1 ELSE 2)
        BY <1>2, <1>5, <3>4
      <3> QED BY <1>1, <3>1, <3>5 DEF k
    <2> QED BY <2>1, <2>2
  <1> QED BY <1>1, <1>2, <1>4, <1>6, <1>8 DEF EvidenceCounted

LEMMA EvidenceNext ==
  ASSUME TypeOK, Ordered, EvidenceCounted, [Next]_vars
  PROVE  EvidenceCounted'
  <1>1. CASE UNCHANGED <<conf, begun, evidence>>
    BY <1>1 DEF EvidenceCounted
  <1>2. CASE Reset
    BY <1>2, ClearedConfirmation, FS_EmptySet, EmptyWeight DEF Reset, EvidenceCounted, Bit
  <1>3. CASE Begin
    <2>1. /\ conf'.started /\ conf'.minimum = sequence /\ conf'.consecutive = 0
          /\ evidence' = {} /\ begun' = stored.id
      BY <1>3 DEF Begin, BeginsAt
    <2>2. begun' \in {conf'.minimum, conf'.minimum + 1}
      BY <2>1 DEF Ordered
    <2>3. Weight(evidence', begun') = 0 /\ IsFiniteSet(evidence')
      BY <2>1, EmptyWeight, FS_EmptySet
    <2> QED BY <2>1, <2>2, <2>3 DEF EvidenceCounted, Bit
  <1>4. ASSUME NEW healthy \in BOOLEAN, ObserveNew(healthy)
        PROVE  EvidenceCounted'
    <2>1. CASE Valid(healthy)
      BY <1>4, <2>1, EvidenceGrows
    <2>2. CASE ~Valid(healthy)
      <3>1. /\ evidence' = {} /\ conf'.consecutive = 0 /\ begun' = begun
            /\ conf'.minimum = conf.minimum /\ conf.started /\ conf'.started
        BY <1>4, <2>2, ObservedConfirmation DEF ObserveNew
      <3>2. Weight(evidence', begun') = 0 /\ IsFiniteSet(evidence')
        BY <3>1, EmptyWeight, FS_EmptySet
      <3> QED BY <3>1, <3>2 DEF EvidenceCounted, Bit
    <2> QED BY <2>1, <2>2
  <1>5. UNCHANGED <<conf, begun, evidence>> \/ Reset \/ Begin
        \/ \E healthy \in BOOLEAN : ObserveNew(healthy)
    BY DEF Next, CbStores, CbCounts, ObserveStale, vars
  <1> QED BY <1>1, <1>2, <1>3, <1>4, <1>5

\* However the callback and the looks interleave, a count of n is backed by
\* at least n/2 messages, none of them from before begin but the one whose
\* callback it interrupted.
THEOREM EvidenceBehindTheCount == Spec => []CountIsBacked
  <1>1. TypeOK /\ Ordered /\ EvidenceCounted /\ [Next]_vars => EvidenceCounted'
    BY EvidenceNext
  <1>2. TypeOK /\ EvidenceCounted => CountIsBacked
    <2> SUFFICES ASSUME TypeOK, EvidenceCounted PROVE CountIsBacked
      OBVIOUS
    <2>1. \A id \in evidence : id >= begun
      BY DEF EvidenceCounted, TypeOK
    <2> DEFINE w == Weight(evidence, begun)
    <2> DEFINE j == Bit(conf.last + 1 \in evidence)
    <2>2. w \in Nat /\ j \in {0, 1} /\ conf.consecutive \in Nat /\ conf.consecutive + j <= w
      BY WeightType DEF EvidenceCounted, TypeOK, Confirmation, Bit
    <2>3. conf.consecutive <= w
      <3> HIDE DEF w, j
      <3> QED BY <2>2
    <2> QED BY <2>1, <2>3 DEF CountIsBacked, Weight
  <1> QED BY <1>1, <1>2, EvidenceInit, OrderInvariant, PTL DEF Spec
=============================================================================
