------------------------ MODULE OrderDispatcher_proofs ------------------------
(***************************************************************************)
(* Proofs about OrderDispatcher, for every set of slots and positions,     *)
(* every choice of modes and every number of arrivals.                     *)
(***************************************************************************)
EXTENDS OrderDispatcher, SequenceTheorems, FiniteSetTheorems, WellFoundedInduction, TLAPS

(***************************************************************************)
(* Naturals and finite sets                                                *)
(***************************************************************************)

\* A set of naturals that is not empty has a least element.
LEMMA LeastNat ==
  ASSUME NEW S, S \subseteq Nat, S # {}
  PROVE  \E n \in S : \A m \in S : n <= m
<1>1. PICK n \in S : \A m \in S : ~(<<m, n>> \in OpToRel(<, Nat))
  BY NatLessThanWellFounded, WFMin
<1>2. ASSUME NEW m \in S PROVE n <= m
  <2>1. m \in Nat /\ n \in Nat
    OBVIOUS
  <2>2. CASE m < n
    <3>1. <<m, n>> \in OpToRel(<, Nat)
      BY <2>1, <2>2 DEF OpToRel
    <3>2. QED
      BY <1>1, <3>1
  <2>3. QED
    BY <2>1, <2>2
<1>3. QED
  BY <1>2

\* T has an element that none of its elements exceeds.
HasMax(T) == \E x \in T : \A y \in T : x >= y

\* Finite sets of naturals have a greatest element: a smallest one without
\* would keep one after losing any of its elements.
LEMMA FiniteHasMax ==
  ASSUME NEW S, S \subseteq Nat, IsFiniteSet(S), S # {}
  PROVE  HasMax(S)
<1> DEFINE Bad  == {T \in SUBSET S : T # {} /\ ~HasMax(T)}
           Size == {Cardinality(T) : T \in Bad}
<1> SUFFICES ASSUME ~HasMax(S) PROVE FALSE
  OBVIOUS
<1>1. \A T \in SUBSET S : IsFiniteSet(T) /\ Cardinality(T) \in Nat
  BY FS_Subset, FS_CardinalityType
<1>2. S \in Bad
  OBVIOUS
<1>3. Size \subseteq Nat /\ Size # {}
  BY <1>1, <1>2
<1>4. PICK n \in Size : \A m \in Size : n <= m
  <2> HIDE DEF Size
  <2> QED
    BY <1>3, LeastNat
<1>5. PICK T \in Bad : Cardinality(T) = n
  OBVIOUS
<1>6. PICK x \in T : TRUE
  OBVIOUS
<1> DEFINE U == T \ {x}
<1>7. U \subseteq S /\ Cardinality(U) = n - 1 /\ n \in Nat
  BY <1>1, <1>3, <1>5, <1>6, FS_RemoveElement
<1>8. U \notin Bad
  <2> SUFFICES ASSUME U \in Bad PROVE FALSE
    OBVIOUS
  <2>1. Cardinality(U) \in Size
    OBVIOUS
  <2>2. n <= n - 1
    BY <1>4, <1>7, <2>1
  <2>3. QED
    BY <1>7, <2>2
<1>9. CASE U = {}
  BY <1>5, <1>6, <1>9 DEF HasMax
<1>10. CASE HasMax(U)
  <2>1. PICK u \in U : \A y \in U : u >= y
    BY <1>10 DEF HasMax
  <2>2. x \in Nat /\ u \in Nat /\ T \subseteq Nat
    BY <1>5, <1>6, <1>7, <2>1
  <2>3. CASE u >= x
    <3>1. \A y \in T : u >= y
      BY <2>1, <2>3
    <3>2. QED
      BY <1>5, <2>1, <3>1 DEF HasMax
  <2>4. CASE x > u
    <3>1. \A y \in T : x >= y
      BY <2>1, <2>2, <2>4
    <3>2. QED
      BY <1>5, <1>6, <3>1 DEF HasMax
  <2>5. QED
    BY <2>2, <2>3, <2>4
<1>11. QED
  BY <1>7, <1>8, <1>9, <1>10

\* So Max of FiniteSetsExt is what its name says.
LEMMA MaxOfFinite ==
  ASSUME NEW S, S \subseteq Nat, IsFiniteSet(S), S # {}
  PROVE  Max(S) \in S /\ \A y \in S : Max(S) >= y
BY FiniteHasMax DEF HasMax, Max

\* Indexes above e that come without a gap are the next ones, as many as there are.
LEMMA NoGap ==
  ASSUME NEW e \in Nat, NEW R, R \subseteq Nat, IsFiniteSet(R),
         \A i \in R : e < i /\ e + 1 .. i \subseteq R
  PROVE  Cardinality(R) \in Nat /\ R = e + 1 .. e + Cardinality(R)
<1>1. Cardinality(R) \in Nat
  BY FS_CardinalityType
<1> DEFINE Missing == {n \in Nat : n > e /\ n \notin R}
<1>2. Missing # {}
  <2> SUFFICES ASSUME Missing = {} PROVE FALSE
    OBVIOUS
  <2> DEFINE Long == e + 1 .. e + 1 + Cardinality(R)
  <2>1. Long \in SUBSET R
    BY <1>1
  <2>2. Cardinality(Long) = Cardinality(R) + 1
    BY <1>1, FS_Interval
  <2>3. Cardinality(Long) <= Cardinality(R)
    BY <2>1, FS_Subset
  <2>4. QED
    BY <1>1, <2>2, <2>3
<1>3. PICK n \in Missing : \A m \in Missing : n <= m
  <2>1. Missing \subseteq Nat
    OBVIOUS
  <2> HIDE DEF Missing
  <2>2. QED
    BY <1>2, <2>1, LeastNat
<1>4. R = e + 1 .. n - 1
  <2>1. ASSUME NEW i \in e + 1 .. n - 1 PROVE i \in R
    BY <1>3
  <2>2. ASSUME NEW i \in R PROVE i \in e + 1 .. n - 1
    <3>1. i \in Nat /\ e < i
      OBVIOUS
    <3>2. CASE i >= n
      <4>1. n \in e + 1 .. i
        BY <3>1, <3>2
      <4>2. QED
        BY <4>1
    <3>3. QED
      BY <3>1, <3>2
  <2>3. QED
    BY <2>1, <2>2
<1>5. Cardinality(R) = n - 1 - e
  BY <1>4, FS_Interval
<1>6. QED
  BY <1>1, <1>4, <1>5

\* Batches of different positions are as many as their positions, and a next
\* position above all of them exists.
LEMMA Positions ==
  ASSUME NEW S, S \subseteq Batches, IsFiniteSet(S)
  PROVE  LET P == {b.txIndex : b \in S}
         IN  /\ IsFiniteSet(P) /\ P \subseteq TxIndexes
             /\ (\A a, b \in S : a.txIndex = b.txIndex => a = b) => Cardinality(P) = Cardinality(S)
             /\ IsFiniteSet({i + 1 : i \in P})
<1> DEFINE P == {b.txIndex : b \in S}
           f == [b \in S |-> b.txIndex]
           N == {i + 1 : i \in P}
           g == [i \in P |-> i + 1]
<1>1. f \in Surjection(S, P)
  BY DEF Surjection
<1>2. IsFiniteSet(P)
  <2> HIDE DEF f, P
  <2> QED
    BY <1>1, FS_Surjection
<1>3. P \subseteq TxIndexes
  BY DEF Batches
<1>4. ASSUME \A a, b \in S : a.txIndex = b.txIndex => a = b PROVE Cardinality(P) = Cardinality(S)
  <2>1. f \in Injection(S, P)
    BY <1>1, <1>4 DEF Injection, IsInjective, Surjection
  <2> HIDE DEF f, P
  <2>2. QED
    BY <1>1, <2>1, FS_Surjection
<1>5. g \in Surjection(P, N)
  BY DEF Surjection
<1>6. IsFiniteSet(N)
  <2> HIDE DEF g, N, P
  <2> QED
    BY <1>2, <1>5, FS_Surjection
<1>7. QED
  BY <1>2, <1>3, <1>4, <1>6

LEMMA DisjointUnion ==
  ASSUME NEW A, NEW B, IsFiniteSet(A), IsFiniteSet(B), A \cap B = {}
  PROVE  /\ IsFiniteSet(A \cup B)
         /\ Cardinality(A) \in Nat /\ Cardinality(B) \in Nat
         /\ Cardinality(A \cup B) = Cardinality(A) + Cardinality(B)
<1>1. Cardinality(A) \in Nat /\ Cardinality(B) \in Nat
  BY FS_CardinalityType
<1>2. Cardinality(A \cup B) = Cardinality(A) + Cardinality(B) - Cardinality(A \cap B)
  BY FS_Union
<1>3. QED
  BY <1>1, <1>2, FS_Union, FS_EmptySet

(***************************************************************************)
(* Emission                                                                *)
(***************************************************************************)

\* compareBatch orders the batches strictly.
LEMMA BeforeStrict ==
  ASSUME NEW a \in Batches, NEW b \in Batches, Before(a, b)
  PROVE  ~Before(b, a) /\ a # b
<1>1. /\ a.slot \in Nat /\ a.txIndex \in Nat /\ a.seq \in Nat
      /\ b.slot \in Nat /\ b.txIndex \in Nat /\ b.seq \in Nat
  BY DispatcherAssumption DEF Batches
<1>2. QED
  BY <1>1 DEF Before, Earlier

\* A run lists every batch of its set, each once and in order.
LEMMA RunOf ==
  ASSUME NEW S, S \subseteq Batches, IsFiniteSet(S), NEW run \in SortedRuns(S)
  PROVE  /\ run \in Seq(Batches) /\ Len(run) = Cardinality(S) /\ Cardinality(S) \in Nat
         /\ \A i \in 1 .. Len(run) : run[i] \in S
         /\ \A b \in S : \E i \in 1 .. Len(run) : run[i] = b
         /\ \A i, j \in 1 .. Len(run) : i < j => Before(run[i], run[j])
<1> DEFINE n == Cardinality(S)
<1>1. n \in Nat
  BY FS_CardinalityType
<1>2. run \in [1 .. n -> S] /\ \A i, j \in 1 .. n : i < j => Before(run[i], run[j])
  BY DEF SortedRuns
<1>3. run \in Seq(S) /\ Len(run) = n
  BY <1>1, <1>2
<1>4. run \in Seq(Batches)
  BY <1>3, SeqMonotonic
<1>5. run \in Injection(1 .. n, S)
  <2>1. ASSUME NEW i \in 1 .. n, NEW j \in 1 .. n, i # j PROVE run[i] # run[j]
    <3>1. run[i] \in Batches /\ run[j] \in Batches
      BY <1>2
    <3>2. i < j \/ j < i
      BY <1>1, <2>1
    <3>3. QED
      BY <1>2, <3>1, <3>2, BeforeStrict
  <2>2. QED
    BY <1>2, <2>1 DEF Injection, IsInjective
<1>6. run \in Surjection(1 .. n, S)
  <2>1. Cardinality(1 .. n) = n
    BY <1>1, FS_Interval
  <2>2. QED
    BY <1>5, <2>1, FS_Injection
<1>7. QED
  BY <1>1, <1>2, <1>3, <1>4, <1>6 DEF Surjection

\* Where a batch stands is a position the watermark can name.
At(b) == [slot |-> b.slot, txIndex |-> b.txIndex]

\* Emit puts the batches of S behind what was emitted, in order; Ordered leaves
\* its watermark at the last of them.
LEMMA Emission ==
  ASSUME emitted \in Seq(Batches), NEW S, S \subseteq Batches, IsFiniteSet(S), Emit(S)
  PROVE  /\ emitted' \in Seq(Batches) /\ Cardinality(S) \in Nat
         /\ Len(emitted') = Len(emitted) + Cardinality(S)
         /\ \A i \in 1 .. Len(emitted) : emitted'[i] = emitted[i]
         /\ \A i \in Len(emitted) + 1 .. Len(emitted') : emitted'[i] \in S
         /\ \A i, j \in Len(emitted) + 1 .. Len(emitted') :
              i < j => Before(emitted'[i], emitted'[j])
         /\ mode # "Ordered" \/ S = {} => UNCHANGED orderedWatermark
         /\ mode = "Ordered" /\ S # {} =>
              \E last \in S : /\ orderedWatermark' = At(last)
                              /\ \A b \in S : b = last \/ Before(b, last)
<1>1. PICK run \in SortedRuns(S) :
        /\ emitted' = emitted \o run
        /\ orderedWatermark' =
             IF mode = "Ordered" /\ S # {} THEN At(run[Len(run)]) ELSE orderedWatermark
  BY DEF Emit, At
<1>2. /\ run \in Seq(Batches) /\ Len(run) = Cardinality(S) /\ Cardinality(S) \in Nat
      /\ \A i \in 1 .. Len(run) : run[i] \in S
      /\ \A b \in S : \E i \in 1 .. Len(run) : run[i] = b
      /\ \A i, j \in 1 .. Len(run) : i < j => Before(run[i], run[j])
  BY RunOf
<1>3. /\ emitted' \in Seq(Batches)
      /\ Len(emitted') = Len(emitted) + Len(run)
      /\ \A i \in 1 .. Len(emitted) + Len(run) :
           emitted'[i] = IF i <= Len(emitted) THEN emitted[i] ELSE run[i - Len(emitted)]
  BY <1>1, <1>2, ConcatProperties
<1>4. Len(emitted) \in Nat /\ Len(run) \in Nat
  BY <1>2, LenProperties
<1>5. \A i \in Len(emitted) + 1 .. Len(emitted') :
        i - Len(emitted) \in 1 .. Len(run) /\ emitted'[i] = run[i - Len(emitted)]
  BY <1>3, <1>4
<1>6. \A i \in 1 .. Len(emitted) : emitted'[i] = emitted[i]
  BY <1>3, <1>4
<1>7. ASSUME NEW i \in Len(emitted) + 1 .. Len(emitted'),
             NEW j \in Len(emitted) + 1 .. Len(emitted'), i < j
      PROVE  Before(emitted'[i], emitted'[j])
  <2>1. i - Len(emitted) < j - Len(emitted)
    BY <1>4, <1>7
  <2>2. QED
    BY <1>2, <1>5, <2>1
<1>8. ASSUME mode = "Ordered", S # {}
      PROVE  \E last \in S : /\ orderedWatermark' = At(last)
                             /\ \A b \in S : b = last \/ Before(b, last)
  <2>1. Len(run) \in 1 .. Len(run)
    BY <1>2, <1>4, <1>8
  <2>2. ASSUME NEW b \in S PROVE b = run[Len(run)] \/ Before(b, run[Len(run)])
    <3>1. PICK i \in 1 .. Len(run) : run[i] = b
      BY <1>2
    <3>2. i = Len(run) \/ i < Len(run)
      BY <1>4
    <3>3. QED
      BY <1>2, <2>1, <3>1, <3>2
  <2>3. QED
    BY <1>1, <1>2, <1>8, <2>1, <2>2
<1>9. QED
  BY <1>1, <1>2, <1>3, <1>5, <1>6, <1>7, <1>8

(***************************************************************************)
(* The inductive invariant                                                 *)
(***************************************************************************)

\* Watermarks of the current slot (and of slot 0, which the code takes for "no
\* slot yet") only.
MarksOf(marks, slot) ==
  /\ DOMAIN marks \subseteq {0, slot}
  /\ \A s \in DOMAIN marks : marks[s] \in Nat

\* Which buffer is in use follows from the mode; a batch is numbered before it is
\* held; nothing is held for a slot that has not started.
Modal ==
  /\ mode # "StreamingOrdered" => DOMAIN streamingWatermarks = {} /\ streamingPending = {}
  /\ slots # {} => mode \in {"Ordered", "StreamingOrdered"}
  /\ microBatch # {} => mode = "MicroBatch"
  /\ \A b \in Held : b.seq < seq
  /\ \A b \in slots : b.slot <= currentSlot

\* The batches of S that are of this slot.
Of(S, slot) == {b \in S : b.slot = slot}

\* StreamingOrdered holds transactions of this slot (and of slot 0), one for each
\* pending index, all behind a gap.
HeldFor(held, pending, marks, slot) ==
  /\ \A b \in held : b.slot \in {0, slot}
  /\ pending = {b.txIndex : b \in Of(held, slot)}
  /\ \A a, b \in Of(held, slot) : a.txIndex = b.txIndex => a = b
  /\ \A b \in Of(held, slot) : b.txIndex > NextIndex(marks, slot)

\* StreamingOrdered has emitted nothing beyond the watermark of this slot.
PassedBy(marks, slot) ==
  \A i \in 1 .. Len(emitted) :
    /\ emitted[i].slot <= slot
    /\ emitted[i].slot = slot => emitted[i].txIndex < NextIndex(marks, slot)

Streaming ==
  mode = "StreamingOrdered" =>
    /\ HeldFor(slots, streamingPending, streamingWatermarks, currentSlot)
    /\ PassedBy(streamingWatermarks, currentSlot)

\* The watermark of Ordered separates what was emitted from what is held.
Ordered ==
  mode = "Ordered" =>
    /\ \A i \in 1 .. Len(emitted) : ~Earlier(orderedWatermark, emitted[i])
    /\ \A b \in slots : Earlier(orderedWatermark, b)

\* What the user saw is sorted.  StreamingOrdered keeps this only on a chain whose
\* genesis slot is over: it never flushes slot 0 when a later slot begins.
SortedOut ==
  /\ mode = "Ordered" =>
       \A i, j \in 1 .. Len(emitted) : i < j => Before(emitted[i], emitted[j])
  /\ mode = "StreamingOrdered" /\ 0 \notin Slots =>
       \A i, j \in 1 .. Len(emitted) : i < j => Earlier(emitted[i], emitted[j])

IInv == TypeOK /\ Modal /\ Streaming /\ Ordered /\ SortedOut /\ Conservation

\* The facts about numbers and sets that most steps need.
LEMMA Basics ==
  ASSUME TypeOK
  PROVE  /\ Slots \subseteq Nat /\ TxIndexes \subseteq Nat
         /\ \A b \in Batches : /\ b.slot \in Slots /\ b.slot \in Nat /\ b.seq \in Nat
                               /\ b.txIndex \in TxIndexes /\ b.txIndex \in Nat
         /\ seq \in Nat /\ currentSlot \in Nat /\ orderedLateDrops \in Nat /\ ignored \in Nat
         /\ slots \subseteq Batches /\ microBatch \subseteq Batches
         /\ IsFiniteSet(slots) /\ IsFiniteSet(microBatch)
         /\ orderedWatermark.slot \in Int /\ orderedWatermark.txIndex \in Int
         /\ MarksOf(streamingWatermarks, currentSlot)
         /\ emitted \in Seq(Batches) /\ Len(emitted) \in Nat /\ DOMAIN emitted = 1 .. Len(emitted)
         /\ \A i \in 1 .. Len(emitted) : emitted[i] \in Batches
<1>1. Slots \subseteq Nat /\ TxIndexes \subseteq Nat
  BY DispatcherAssumption
<1>2. \A b \in Batches : /\ b.slot \in Slots /\ b.slot \in Nat /\ b.seq \in Nat
                         /\ b.txIndex \in TxIndexes /\ b.txIndex \in Nat
  BY <1>1 DEF Batches
<1>3. slots \subseteq Batches /\ microBatch \subseteq Batches
  BY DEF TypeOK, Held
<1>4. IsFiniteSet(slots) /\ IsFiniteSet(microBatch)
  BY FS_Subset DEF TypeOK, Held
<1>5. orderedWatermark.slot \in Int /\ orderedWatermark.txIndex \in Int
  <2>1. CASE orderedWatermark = NoWatermark
    BY <2>1 DEF NoWatermark
  <2>2. CASE orderedWatermark \in [slot : Slots, txIndex : TxIndexes]
    <3>1. orderedWatermark.slot \in Slots /\ orderedWatermark.txIndex \in TxIndexes
      BY <2>2
    <3>2. orderedWatermark.slot \in Nat /\ orderedWatermark.txIndex \in Nat
      BY <1>1, <3>1
    <3>3. QED
      BY <3>2
  <2>3. QED
    BY <2>1, <2>2 DEF TypeOK
<1>6. emitted \in Seq(Batches) /\ Len(emitted) \in Nat /\ DOMAIN emitted = 1 .. Len(emitted)
  BY LenProperties DEF TypeOK
<1>7. QED
  BY <1>1, <1>2, <1>3, <1>4, <1>5, <1>6, ElementOfSeq DEF TypeOK, MarksOf

\* What the code reads as the next index is a number.
LEMMA NextIndexNat ==
  ASSUME NEW marks, NEW s, NEW t, MarksOf(marks, s)
  PROVE  NextIndex(marks, t) \in Nat
BY DEF MarksOf, NextIndex

LEMMA InitIInv == Init => IInv
<1> SUFFICES ASSUME Init PROVE IInv
  OBVIOUS
<1>1. /\ emitted = <<>> /\ Len(emitted) = 0 /\ emitted \in Seq(Batches)
      /\ DOMAIN streamingWatermarks = {}
  BY EmptySeq DEF Init
<1>2. Held = {} /\ IsFiniteSet({}) /\ Cardinality({}) = 0
  BY FS_EmptySet DEF Init, Held
<1>3. TypeOK
  <2>1. {idle, windowOver} \subseteq BOOLEAN
    BY DEF Init
  <2>2. QED
    BY <1>1, <1>2, <2>1 DEF Init, TypeOK, Held
<1>4. Modal
  BY <1>1, <1>2 DEF Init, Modal
<1>5. Streaming
  BY <1>1 DEF Init, Streaming, HeldFor, PassedBy, Of
<1>6. Ordered /\ SortedOut
  BY <1>1 DEF Init, Ordered, SortedOut
<1>7. Conservation
  BY <1>1, <1>2 DEF Init, Conservation
<1>8. QED
  BY <1>3, <1>4, <1>5, <1>6, <1>7 DEF IInv

(***************************************************************************)
(* What a step does, branch by branch                                      *)
(***************************************************************************)

\* pushTransactionEvents around the branch of its mode.
Arrives(b) ==
  /\ b = Batch(b.slot, b.txIndex) /\ b \in Batches
  /\ arrived' = Append(arrived, At(b))
  /\ seq' = seq + 1
  /\ UNCHANGED mode

\* A batch of a later slot sends out what the earlier slots still hold.
Newer(b)     == b.slot > currentSlot
Flushing(b)  == Newer(b) /\ currentSlot > 0
Flushed(b)   == IF Flushing(b) THEN {x \in slots : x.slot < b.slot} ELSE {}
StillHeld(b) == slots \ Flushed(b)

MarksFor(b)   == IF Flushing(b) THEN Without(streamingWatermarks, 0 .. b.slot - 1)
                                ELSE streamingWatermarks
PendingFor(b) == IF Newer(b) THEN {} ELSE streamingPending
Expected(b)   == NextIndex(MarksFor(b), b.slot)
Freed(b)      == Released(StillHeld(b), b.slot, Expected(b))

OrderedLate(b) ==
  /\ mode = "Ordered" /\ Late(b)
  /\ orderedLateDrops' = orderedLateDrops + 1
  /\ UNCHANGED <<slots, streamingWatermarks, streamingPending, microBatch, currentSlot,
                 orderedWatermark, emitted, clock, ignored>>

OrderedKeeps(b) ==
  /\ mode = "Ordered" /\ ~Late(b)
  /\ Emit(Flushed(b))
  /\ slots' = StillHeld(b) \cup {b}
  /\ streamingWatermarks' = Without(streamingWatermarks, {x.slot : x \in Flushed(b)})
  /\ currentSlot' = IF Newer(b) THEN b.slot ELSE currentSlot
  /\ idle' = IF Flushing(b) THEN FALSE ELSE idle
  /\ UNCHANGED <<orderedLateDrops, streamingPending, microBatch, windowOver, ignored>>

LEMMA OrderedCases == ASSUME NEW b, PushOrdered(b) PROVE OrderedLate(b) \/ OrderedKeeps(b)
BY DEF PushOrdered, OrderedLate, OrderedKeeps, Newer, Flushing, Flushed, StillHeld, clock

StreamingLate(b) ==
  /\ mode = "StreamingOrdered" /\ b.slot < currentSlot
  /\ ignored' = ignored + 1
  /\ UNCHANGED <<slots, streamingWatermarks, streamingPending, microBatch, currentSlot,
                 orderedWatermark, orderedLateDrops, emitted, clock>>

StreamingJoins(b) ==
  /\ mode = "StreamingOrdered" /\ ~(b.slot < currentSlot)
  /\ currentSlot' = IF Newer(b) THEN b.slot ELSE currentSlot
  /\ idle' = IF Flushing(b) THEN FALSE ELSE idle
  /\ UNCHANGED <<microBatch, orderedLateDrops, windowOver>>

StreamingDue(b) ==
  /\ StreamingJoins(b) /\ b.txIndex = Expected(b)
  /\ Emit(Flushed(b) \cup {b} \cup Freed(b))
  /\ slots' = StillHeld(b) \ Freed(b)
  /\ streamingPending' = PendingFor(b) \ {x.txIndex : x \in Freed(b)}
  /\ streamingWatermarks' =
       WithMark(MarksFor(b), b.slot, Expected(b) + 1 + Cardinality(Freed(b)))
  /\ UNCHANGED ignored

StreamingEarly(b) ==
  /\ StreamingJoins(b) /\ b.txIndex > Expected(b) /\ b.txIndex \notin PendingFor(b)
  /\ Emit(Flushed(b))
  /\ slots' = StillHeld(b) \cup {b}
  /\ streamingPending' = PendingFor(b) \cup {b.txIndex}
  /\ streamingWatermarks' = MarksFor(b)
  /\ UNCHANGED ignored

StreamingRepeated(b) ==
  /\ StreamingJoins(b) /\ b.txIndex # Expected(b)
  /\ b.txIndex > Expected(b) => b.txIndex \in PendingFor(b)
  /\ Emit(Flushed(b))
  /\ slots' = StillHeld(b)
  /\ streamingPending' = PendingFor(b)
  /\ streamingWatermarks' = MarksFor(b)
  /\ ignored' = ignored + 1

LEMMA StreamingCases ==
  ASSUME NEW b, PushStreaming(b)
  PROVE  StreamingLate(b) \/ StreamingDue(b) \/ StreamingEarly(b) \/ StreamingRepeated(b)
BY DEF PushStreaming, StreamingLate, StreamingDue, StreamingEarly, StreamingRepeated,
       StreamingJoins, Newer, Flushing, Flushed, StillHeld, MarksFor, PendingFor, Expected,
       Freed, Holdable, clock

\* A position between two batches puts them in order.
LEMMA Divide ==
  ASSUME NEW w, w.slot \in Int, w.txIndex \in Int, NEW a \in Batches, NEW b \in Batches,
         ~Earlier(w, a), Earlier(w, b)
  PROVE  Earlier(a, b)
<1>1. /\ a.slot \in Nat /\ a.txIndex \in Nat
      /\ b.slot \in Nat /\ b.txIndex \in Nat
  BY DispatcherAssumption DEF Batches
<1>2. QED
  BY <1>1 DEF Earlier

\* The batch of an arrival is new and carries the last number given.
LEMMA ArrivalIsNew ==
  ASSUME IInv, NEW b, Arrives(b)
  PROVE  /\ b \in Batches /\ b.seq = seq /\ b \notin Held
         /\ \A x \in Held : x.seq < b.seq
         /\ seq' = seq + 1 /\ mode' = mode
<1>1. b \in Batches /\ b.seq = seq /\ seq' = seq + 1 /\ mode' = mode
  BY DEF Arrives, Batch
<1>2. \A x \in Held : x.seq < b.seq /\ x.seq \in Nat
  BY <1>1, Basics DEF IInv, Modal, Held
<1>3. b \notin Held
  BY <1>2
<1>4. QED
  BY <1>1, <1>2, <1>3

\* Nothing but the buffers and the emission can break the type invariant.
LEMMA TypeFrom ==
  ASSUME TypeOK, mode' = mode, seq' \in Nat, orderedLateDrops' \in Nat, ignored' \in Nat,
         slots' \subseteq Batches, microBatch' \subseteq Batches,
         IsFiniteSet(slots'), IsFiniteSet(microBatch'),
         currentSlot' \in Slots \cup {0},
         MarksOf(streamingWatermarks', currentSlot'),
         streamingPending' \subseteq TxIndexes,
         orderedWatermark' \in [slot : Slots, txIndex : TxIndexes] \cup {NoWatermark},
         idle' \in {idle, FALSE, TRUE}, windowOver' \in {windowOver, FALSE, TRUE},
         emitted' \in Seq(Batches)
  PROVE  TypeOK'
<1>1. {idle', windowOver'} \subseteq BOOLEAN
  BY DEF TypeOK
<1>2. Held' \subseteq Batches /\ IsFiniteSet(Held')
  BY FS_Union DEF Held
<1>3. QED
  BY <1>1, <1>2 DEF TypeOK, MarksOf

\* The watermark stays a position, whatever Emit emits.
LEMMA WatermarkFrom ==
  ASSUME TypeOK, NEW S, S \subseteq Batches, IsFiniteSet(S), Emit(S)
  PROVE  orderedWatermark' \in [slot : Slots, txIndex : TxIndexes] \cup {NoWatermark}
<1>1. CASE mode # "Ordered" \/ S = {}
  BY <1>1, Emission DEF TypeOK
<1>2. CASE mode = "Ordered" /\ S # {}
  <2>1. PICK last \in S : orderedWatermark' = At(last)
    BY <1>2, Emission DEF TypeOK
  <2>2. last.slot \in Slots /\ last.txIndex \in TxIndexes
    BY DEF Batches
  <2>3. QED
    BY <2>1, <2>2 DEF At
<1>3. QED
  BY <1>1, <1>2

\* Emitting batches ahead of the watermark in Ordered: the list stays sorted and
\* the watermark stays at its end.
LEMMA OrderedEmits ==
  ASSUME IInv, mode = "Ordered", mode' = mode,
         NEW S, S \subseteq slots, Emit(S)
  PROVE  /\ \A i \in 1 .. Len(emitted') : ~Earlier(orderedWatermark', emitted'[i])
         /\ \A i, j \in 1 .. Len(emitted') : i < j => Before(emitted'[i], emitted'[j])
         /\ \A c \in Batches : Earlier(orderedWatermark, c) /\ (\A x \in S : Earlier(x, c))
                                 => Earlier(orderedWatermark', c)
         /\ S = {} => orderedWatermark' = orderedWatermark
<1>1. /\ S \subseteq Batches /\ IsFiniteSet(S)
      /\ \A x \in S : Earlier(orderedWatermark, x)
  BY Basics, FS_Subset DEF IInv, Ordered
<1>2. TypeOK /\ \A i \in 1 .. Len(emitted) : ~Earlier(orderedWatermark, emitted[i])
  BY DEF IInv, Ordered
<1>3. \A i \in 1 .. Len(emitted) : emitted'[i] = emitted[i] /\ emitted[i] \in Batches
  BY <1>1, <1>2, Basics, Emission
<1>4. \A i \in 1 .. Len(emitted') : i \notin 1 .. Len(emitted) => emitted'[i] \in S
  BY <1>1, <1>2, Basics, Emission
<1>5. ASSUME NEW i \in 1 .. Len(emitted'), NEW j \in 1 .. Len(emitted'), i < j
      PROVE  Before(emitted'[i], emitted'[j])
  <2>1. CASE j \in 1 .. Len(emitted)
    <3>1. i \in 1 .. Len(emitted)
      BY <1>2, <1>5, <2>1, Basics
    <3>2. QED
      BY <1>3, <1>5, <2>1, <3>1 DEF IInv, SortedOut
  <2>2. CASE j \notin 1 .. Len(emitted) /\ i \in 1 .. Len(emitted)
    <3>1. emitted'[j] \in S /\ emitted'[i] = emitted[i]
      BY <1>3, <1>4, <2>2
    <3>2. Earlier(orderedWatermark, emitted'[j]) /\ ~Earlier(orderedWatermark, emitted'[i])
      BY <1>1, <1>2, <2>2, <3>1
    <3>3. emitted'[j] \in Batches /\ emitted'[i] \in Batches
      BY <1>1, <1>3, <2>2, <3>1
    <3>4. Earlier(emitted'[i], emitted'[j])
      BY <1>2, <3>2, <3>3, Basics, Divide
    <3>5. QED
      BY <3>4 DEF Before
  <2>3. CASE j \notin 1 .. Len(emitted) /\ i \notin 1 .. Len(emitted)
    <3>1. i \in Len(emitted) + 1 .. Len(emitted') /\ j \in Len(emitted) + 1 .. Len(emitted')
      BY <1>1, <1>2, <2>3, Basics, Emission
    <3>2. QED
      BY <1>1, <1>2, <1>5, <3>1, Basics, Emission
  <2>4. QED
    BY <2>1, <2>2, <2>3
<1>6. CASE S = {}
  <2>1. orderedWatermark' = orderedWatermark
    BY <1>1, <1>2, <1>6, Basics, Emission
  <2>2. QED
    BY <1>2, <1>3, <1>4, <1>5, <1>6, <2>1
<1>7. CASE S # {}
  <2>1. PICK last \in S : /\ orderedWatermark' = At(last)
                          /\ \A x \in S : x = last \/ Before(x, last)
    BY <1>1, <1>2, <1>7, Basics, Emission
  <2>2. orderedWatermark'.slot = last.slot /\ orderedWatermark'.txIndex = last.txIndex
    BY <2>1 DEF At
  <2>3. last \in Batches /\ Earlier(orderedWatermark, last)
    BY <1>1
  <2>4. ASSUME NEW x \in Batches, x = last \/ Before(x, last) \/ ~Earlier(orderedWatermark, x)
        PROVE  ~Earlier(orderedWatermark', x)
    <3>1. /\ x.slot \in Nat /\ x.txIndex \in Nat /\ x.seq \in Nat
          /\ last.slot \in Nat /\ last.txIndex \in Nat /\ last.seq \in Nat
          /\ orderedWatermark.slot \in Int /\ orderedWatermark.txIndex \in Int
      BY <1>2, <2>3, Basics
    <3>2. QED
      BY <2>2, <2>3, <2>4, <3>1 DEF Before, Earlier
  <2>5. ASSUME NEW i \in 1 .. Len(emitted') PROVE ~Earlier(orderedWatermark', emitted'[i])
    <3>1. CASE i \in 1 .. Len(emitted)
      BY <1>2, <1>3, <2>4, <3>1
    <3>2. CASE i \notin 1 .. Len(emitted)
      BY <1>1, <1>4, <2>1, <2>4, <3>2
    <3>3. QED
      BY <3>1, <3>2
  <2>6. ASSUME NEW c \in Batches, \A x \in S : Earlier(x, c) PROVE Earlier(orderedWatermark', c)
    BY <2>2, <2>6 DEF Earlier
  <2>7. QED
    BY <1>5, <1>7, <2>5, <2>6
<1>8. QED
  BY <1>6, <1>7

(***************************************************************************)
(* The invariant is inductive, branch by branch                            *)
(***************************************************************************)

\* An arrival leaves only numbered batches of slots that have started.
LEMMA HeldNumbered ==
  ASSUME IInv, NEW b, Arrives(b), Held' \subseteq Held \cup {b}
  PROVE  \A x \in Held' : x.seq < seq'
<1>1. b \in Batches /\ b.seq = seq /\ seq' = seq + 1 /\ seq \in Nat
  BY ArrivalIsNew, Basics DEF IInv
<1>2. ASSUME NEW x \in Held PROVE x.seq \in Nat /\ x.seq < seq
  BY Basics DEF IInv, Modal, Held
<1>3. QED
  BY <1>1, <1>2

LEMMA HeldStarted ==
  ASSUME IInv, NEW b \in Batches, slots' \subseteq slots \cup {b},
         currentSlot' \in Nat, currentSlot' >= currentSlot, currentSlot' >= b.slot
  PROVE  \A x \in slots' : x.slot <= currentSlot'
<1>1. ASSUME NEW x \in slots PROVE x.slot \in Nat /\ x.slot <= currentSlot /\ currentSlot \in Nat
  BY Basics DEF IInv, Modal
<1>2. b.slot \in Nat /\ currentSlot \in Nat
  BY Basics DEF IInv
<1>3. QED
  BY <1>1, <1>2

\* The accounts before a step, as numbers.
LEMMA Accounts ==
  ASSUME IInv
  PROVE  /\ seq = Len(emitted) + Cardinality(slots) + Cardinality(microBatch)
                    + orderedLateDrops + ignored
         /\ seq \in Nat /\ Len(emitted) \in Nat
         /\ Cardinality(slots) \in Nat /\ Cardinality(microBatch) \in Nat
         /\ orderedLateDrops \in Nat /\ ignored \in Nat
BY Basics, FS_CardinalityType DEF IInv, Conservation

LEMMA UnorderedStep == ASSUME IInv, NEW b, Arrives(b), PushUnordered(b) PROVE IInv'
<1> USE DEF PushUnordered, clock
<1>1. /\ TypeOK /\ mode = "Unordered" /\ mode' = mode /\ seq' = seq + 1 /\ b \in Batches
      /\ {b} \subseteq Batches /\ IsFiniteSet({b}) /\ Cardinality({b}) = 1 /\ Emit({b})
  BY ArrivalIsNew, FS_Singleton DEF IInv
<1>2. TypeOK'
  BY <1>1, Basics, Emission, WatermarkFrom, TypeFrom DEF TypeOK
<1>3. Modal'
  <2>1. \A x \in Held' : x.seq < seq'
    BY <1>1, HeldNumbered DEF Held
  <2>2. QED
    BY <1>1, <2>1 DEF IInv, Modal
<1>4. Streaming' /\ Ordered' /\ SortedOut'
  BY <1>1 DEF Streaming, Ordered, SortedOut
<1>5. Conservation'
  <2>1. Len(emitted') = Len(emitted) + 1
    BY <1>1, Emission, Basics
  <2>2. QED
    BY <1>1, <2>1, Accounts DEF Conservation
<1>6. QED
  BY <1>2, <1>3, <1>4, <1>5 DEF IInv

LEMMA OrderedLateStep == ASSUME IInv, NEW b, Arrives(b), OrderedLate(b) PROVE IInv'
<1> USE DEF OrderedLate, clock
<1>1. TypeOK /\ mode = "Ordered" /\ mode' = mode /\ seq' = seq + 1
  BY ArrivalIsNew DEF IInv
<1>2. TypeOK'
  BY <1>1, Basics, TypeFrom DEF TypeOK
<1>3. Modal'
  <2>1. \A x \in Held' : x.seq < seq'
    BY <1>1, HeldNumbered DEF Held
  <2>2. QED
    BY <1>1, <2>1 DEF IInv, Modal
<1>4. Streaming' /\ Ordered' /\ SortedOut'
  BY <1>1 DEF IInv, Streaming, Ordered, SortedOut
<1>5. Conservation'
  BY <1>1, Accounts DEF Conservation
<1>6. QED
  BY <1>2, <1>3, <1>4, <1>5 DEF IInv

\* What a later slot flushes is finite, held and counted once.
LEMMA FlushedIsHeld ==
  ASSUME IInv, NEW b
  PROVE  /\ Flushed(b) \subseteq slots /\ Flushed(b) \subseteq Batches /\ IsFiniteSet(Flushed(b))
         /\ StillHeld(b) \subseteq slots /\ IsFiniteSet(StillHeld(b))
         /\ Cardinality(Flushed(b)) \in Nat /\ Cardinality(StillHeld(b)) \in Nat
         /\ Cardinality(slots) = Cardinality(Flushed(b)) + Cardinality(StillHeld(b))
         /\ \A x \in Flushed(b) : x.slot < b.slot
<1>1. Flushed(b) \subseteq slots /\ StillHeld(b) \subseteq slots
  BY DEF Flushed, StillHeld
<1>2. slots \subseteq Batches /\ IsFiniteSet(slots)
  BY Basics DEF IInv
<1>3. IsFiniteSet(Flushed(b)) /\ IsFiniteSet(StillHeld(b))
  BY <1>1, <1>2, FS_Subset
<1>4. Cardinality(Flushed(b)) \in Nat /\ Cardinality(StillHeld(b)) \in Nat
  BY <1>3, FS_CardinalityType
<1>5. Flushed(b) \cup StillHeld(b) = slots /\ Flushed(b) \cap StillHeld(b) = {}
  BY <1>1 DEF StillHeld
<1>6. Cardinality(slots) = Cardinality(Flushed(b)) + Cardinality(StillHeld(b))
  BY <1>3, <1>4, <1>5, FS_Union, FS_EmptySet
<1>7. QED
  BY <1>1, <1>2, <1>3, <1>4, <1>6 DEF Flushed

LEMMA OrderedKeepsStep == ASSUME IInv, NEW b, Arrives(b), OrderedKeeps(b) PROVE IInv'
<1> DEFINE F == Flushed(b)
<1>1. /\ TypeOK /\ mode = "Ordered" /\ mode' = mode /\ seq' = seq + 1
      /\ b \in Batches /\ b.seq = seq /\ b \notin slots /\ b.slot \in Nat /\ b.slot >= currentSlot
      /\ Earlier(orderedWatermark, b) /\ microBatch' = microBatch
  BY ArrivalIsNew, Basics DEF IInv, OrderedKeeps, Late, Held
<1>2. slots' = StillHeld(b) \cup {b}
  BY DEF OrderedKeeps
<1>0. /\ F \subseteq slots /\ F \subseteq Batches /\ IsFiniteSet(F)
      /\ StillHeld(b) \subseteq slots /\ IsFiniteSet(StillHeld(b))
      /\ Cardinality(F) \in Nat /\ Cardinality(StillHeld(b)) \in Nat
      /\ Cardinality(slots) = Cardinality(F) + Cardinality(StillHeld(b))
      /\ \A x \in F : x.slot < b.slot
  BY FlushedIsHeld
<1> HIDE DEF F
<1>3. /\ currentSlot' \in Slots \cup {0} /\ currentSlot' >= currentSlot /\ currentSlot' >= b.slot
      /\ currentSlot' \in Nat
  BY <1>1, Basics DEF OrderedKeeps, Newer, TypeOK
<1>4. TypeOK'
  <2>1. slots' \subseteq Batches /\ IsFiniteSet(slots')
    BY <1>1, <1>2, Basics, <1>0, FS_AddElement
  <2>2. DOMAIN streamingWatermarks' = {}
    BY <1>1 DEF OrderedKeeps, Without, IInv, Modal
  <2>3. orderedWatermark' \in [slot : Slots, txIndex : TxIndexes] \cup {NoWatermark}
    BY <1>1, <1>0, WatermarkFrom DEF F, OrderedKeeps
  <2>4. emitted' \in Seq(Batches)
    BY <1>1, <1>0, Emission, Basics DEF F, OrderedKeeps
  <2>5. MarksOf(streamingWatermarks', currentSlot')
    BY <2>2 DEF MarksOf
  <2>6. idle' \in {idle, FALSE, TRUE} /\ windowOver' = windowOver
    BY DEF F, OrderedKeeps
  <2>7. /\ seq' \in Nat /\ orderedLateDrops' \in Nat /\ ignored' \in Nat
        /\ microBatch' \subseteq Batches /\ IsFiniteSet(microBatch')
        /\ streamingPending' \subseteq TxIndexes
    BY <1>1, Basics DEF OrderedKeeps, TypeOK
  <2>8. QED
    BY <1>1, <1>3, <2>1, <2>3, <2>4, <2>5, <2>6, <2>7, TypeFrom
<1>5. Modal'
  <2>1. \A x \in Held' : x.seq < seq'
    BY <1>1, <1>2, <1>0, HeldNumbered DEF Held
  <2>2. \A x \in slots' : x.slot <= currentSlot'
    BY <1>1, <1>2, <1>3, <1>0, HeldStarted
  <2>3. DOMAIN streamingWatermarks' = {} /\ streamingPending' = {}
    BY <1>1 DEF OrderedKeeps, Without, IInv, Modal
  <2>4. QED
    BY <1>1, <2>1, <2>2, <2>3 DEF IInv, Modal
<1>6. /\ \A i \in 1 .. Len(emitted') : ~Earlier(orderedWatermark', emitted'[i])
      /\ \A i, j \in 1 .. Len(emitted') : i < j => Before(emitted'[i], emitted'[j])
      /\ \A c \in Batches : Earlier(orderedWatermark, c) /\ (\A x \in F : Earlier(x, c))
                              => Earlier(orderedWatermark', c)
  BY <1>1, <1>0, OrderedEmits DEF F, OrderedKeeps
<1>7. Ordered'
  <2>1. ASSUME NEW c \in slots' PROVE Earlier(orderedWatermark', c)
    <3>1. c \in Batches /\ Earlier(orderedWatermark, c)
      BY <1>1, <1>2, Basics, <1>0 DEF IInv, Ordered
    <3>2. ASSUME NEW x \in F PROVE Earlier(x, c)
      <4>1. x.slot < b.slot
        BY <1>0
      <4>2. c = b
        <5>1. currentSlot < b.slot
          BY DEF F, Flushed, Flushing, Newer
        <5>2. \A y \in slots : y \in F
          BY <1>1, <5>1, Basics DEF IInv, Modal, F, Flushed
        <5>3. QED
          BY <1>2, <5>2 DEF F, StillHeld
      <4>3. QED
        BY <4>1, <4>2 DEF Earlier
    <3>3. QED
      BY <1>6, <3>1, <3>2
  <2>2. QED
    BY <1>6, <2>1 DEF Ordered
<1>8. Streaming' /\ SortedOut'
  BY <1>1, <1>6 DEF Streaming, SortedOut
<1>9. Conservation'
  <2>1. Cardinality(slots') = Cardinality(StillHeld(b)) + 1
    <3>1. b \notin StillHeld(b)
      BY <1>1, <1>0
    <3>2. QED
      BY <1>2, <3>1, <1>0, FS_AddElement
  <2>2. Len(emitted') = Len(emitted) + Cardinality(F)
    BY <1>1, <1>0, Emission, Basics DEF F, OrderedKeeps
  <2>3. ignored' = ignored /\ orderedLateDrops' = orderedLateDrops
    BY DEF F, OrderedKeeps
  <2>4. Cardinality(microBatch') = Cardinality(microBatch)
    BY <1>1
  <2>5. seq' = Len(emitted') + Cardinality(slots') + Cardinality(microBatch')
                 + orderedLateDrops' + ignored'
    <3>1. /\ seq = Len(emitted) + Cardinality(slots) + Cardinality(microBatch)
                     + orderedLateDrops + ignored
          /\ seq \in Nat /\ Len(emitted) \in Nat
          /\ Cardinality(slots) \in Nat /\ Cardinality(microBatch) \in Nat
          /\ orderedLateDrops \in Nat /\ ignored \in Nat
      BY Accounts
    <3>2. /\ Cardinality(F) \in Nat /\ Cardinality(StillHeld(b)) \in Nat
          /\ Cardinality(slots) = Cardinality(F) + Cardinality(StillHeld(b))
      BY <1>0
    <3>3. seq' = seq + 1
      BY <1>1
    <3>4. Len(emitted') + Cardinality(slots') = Len(emitted) + Cardinality(slots) + 1
      BY <2>1, <2>2, <3>1, <3>2
    <3>5. QED
      BY <2>3, <2>4, <3>1, <3>3, <3>4
  <2>6. QED
    BY <2>5 DEF Conservation
<1>10. QED
  BY <1>4, <1>5, <1>7, <1>8, <1>9 DEF IInv

(* StreamingOrdered *)

\* What StreamingOrdered knows of the slot of an arrival before it looks at the
\* index: all that is still held for it is behind a gap, nothing beyond its
\* watermark was emitted.
LEMMA StreamingReady ==
  ASSUME IInv, NEW b \in Batches, mode = "StreamingOrdered", ~(b.slot < currentSlot)
  PROVE  /\ MarksOf(MarksFor(b), b.slot) /\ Expected(b) \in Nat
         /\ HeldFor(StillHeld(b), PendingFor(b), MarksFor(b), b.slot)
         /\ PassedBy(MarksFor(b), b.slot)
         /\ PendingFor(b) \subseteq TxIndexes
<1> DEFINE cur == currentSlot
<1>1. /\ b.slot \in Nat /\ cur \in Nat /\ b.slot >= cur
      /\ MarksOf(streamingWatermarks, cur)
      /\ HeldFor(slots, streamingPending, streamingWatermarks, cur)
      /\ PassedBy(streamingWatermarks, cur)
      /\ \A x \in slots : x.slot \in Nat /\ x.slot <= cur
      /\ \A i \in 1 .. Len(emitted) : emitted[i].slot \in Nat
      /\ streamingPending \subseteq TxIndexes
  BY Basics DEF IInv, Streaming, Modal, TypeOK
<1>2. CASE ~Newer(b)
  <2>1. b.slot = cur
    BY <1>1, <1>2 DEF Newer
  <2>2. StillHeld(b) = slots /\ PendingFor(b) = streamingPending /\ MarksFor(b) = streamingWatermarks
    BY <1>2 DEF StillHeld, Flushed, Flushing, PendingFor, MarksFor
  <2>3. QED
    BY <1>1, <2>1, <2>2, NextIndexNat DEF Expected
<1>3. CASE Newer(b)
  <2>1. b.slot > cur /\ b.slot # 0 /\ b.slot # cur
    BY <1>1, <1>3 DEF Newer
  <2>2. PendingFor(b) = {}
    BY <1>3 DEF PendingFor
  <2>3. MarksOf(MarksFor(b), b.slot) /\ b.slot \notin DOMAIN MarksFor(b)
    <3>1. CASE cur > 0
      <4>1. MarksFor(b) = Without(streamingWatermarks, 0 .. b.slot - 1)
        BY <1>3, <3>1 DEF MarksFor, Flushing
      <4>2. 0 \in 0 .. b.slot - 1 /\ cur \in 0 .. b.slot - 1
        BY <1>1, <2>1
      <4>3. DOMAIN MarksFor(b) = {}
        BY <1>1, <4>1, <4>2 DEF Without, MarksOf
      <4>4. QED
        BY <4>3 DEF MarksOf
    <3>2. CASE ~(cur > 0)
      <4>1. MarksFor(b) = streamingWatermarks /\ cur = 0
        BY <1>1, <3>2 DEF MarksFor, Flushing
      <4>2. QED
        BY <1>1, <2>1, <4>1 DEF MarksOf
    <3>3. QED
      BY <3>1, <3>2
  <2>4. Of(StillHeld(b), b.slot) = {}
    BY <1>1, <2>1 DEF Of, StillHeld
  <2>5. \A x \in StillHeld(b) : x.slot = 0
    <3>1. CASE cur > 0
      BY <1>1, <1>3, <2>1, <3>1 DEF StillHeld, Flushed, Flushing
    <3>2. CASE ~(cur > 0)
      BY <1>1, <3>2 DEF StillHeld
    <3>3. QED
      BY <3>1, <3>2
  <2>6. HeldFor(StillHeld(b), PendingFor(b), MarksFor(b), b.slot)
    BY <2>2, <2>4, <2>5 DEF HeldFor
  <2>7. PassedBy(MarksFor(b), b.slot)
    BY <1>1, <2>1 DEF PassedBy
  <2>8. QED
    BY <2>2, <2>3, <2>6, <2>7, NextIndexNat DEF Expected
<1>4. QED
  BY <1>2, <1>3

\* Releasing frees exactly the held transactions of the next positions, so the
\* watermark that counts them ends right behind the last.
LEMMA FreedAreNext ==
  ASSUME IInv, NEW b \in Batches, mode = "StreamingOrdered", ~(b.slot < currentSlot)
  PROVE  /\ Freed(b) \subseteq Of(StillHeld(b), b.slot)
         /\ IsFiniteSet(Freed(b)) /\ Cardinality(Freed(b)) \in Nat
         /\ \A x \in Freed(b) : x.txIndex \in Expected(b) + 1 .. Expected(b) + Cardinality(Freed(b))
         /\ \A x \in Of(StillHeld(b), b.slot) \ Freed(b) :
              x.txIndex > Expected(b) + 1 + Cardinality(Freed(b))
<1> DEFINE e == Expected(b)
           here == Of(StillHeld(b), b.slot)
           fr == Freed(b)
           R == {x.txIndex : x \in fr}
<1>1. /\ e \in Nat
      /\ \A x, y \in here : x.txIndex = y.txIndex => x = y
      /\ \A x \in here : x.txIndex > e
  BY StreamingReady DEF HeldFor, Expected
<1>2. \A x : x \in fr <=> /\ x \in here
                          /\ x.txIndex > e
                          /\ \A i \in e + 1 .. x.txIndex : \E y \in here : y.txIndex = i
  BY DEF Freed, Released, Of
<1>3. /\ here \subseteq slots /\ here \subseteq Batches /\ IsFiniteSet(here)
      /\ \A x \in here : x.txIndex \in Nat
  <2>1. here \subseteq slots
    BY DEF Of, StillHeld
  <2>2. slots \subseteq Batches /\ IsFiniteSet(slots) /\ \A x \in slots : x.txIndex \in Nat
    BY Basics DEF IInv
  <2>3. QED
    BY <2>1, <2>2, FS_Subset
<1> HIDE DEF e, here, fr
<1>4. fr \subseteq here /\ fr \subseteq Batches /\ IsFiniteSet(fr) /\ Cardinality(fr) \in Nat
  BY <1>2, <1>3, FS_Subset, FS_CardinalityType
<1>5. IsFiniteSet(R) /\ Cardinality(R) = Cardinality(fr)
  BY <1>1, <1>4, Positions
<1>6. \A i \in R : i \in Nat /\ e < i /\ e + 1 .. i \subseteq R
  <2> SUFFICES ASSUME NEW x \in fr
               PROVE  x.txIndex \in Nat /\ e < x.txIndex /\ e + 1 .. x.txIndex \subseteq R
    OBVIOUS
  <2>1. x \in here /\ x.txIndex \in Nat /\ x.txIndex > e
    BY <1>1, <1>3, <1>4
  <2>2. ASSUME NEW i \in e + 1 .. x.txIndex PROVE i \in R
    <3>1. PICK y \in here : y.txIndex = i
      BY <1>2
    <3>2. \A j \in e + 1 .. i : j \in e + 1 .. x.txIndex
      BY <1>1, <2>1
    <3>3. y \in fr
      BY <1>1, <1>2, <3>1, <3>2
    <3>4. QED
      BY <3>1, <3>3
  <2>3. QED
    BY <1>1, <2>1, <2>2
<1>7. R = e + 1 .. e + Cardinality(fr)
  <2>1. R \subseteq Nat /\ \A i \in R : e < i /\ e + 1 .. i \subseteq R
    BY <1>6
  <2> HIDE DEF R
  <2>2. QED
    BY <1>1, <1>5, <2>1, NoGap
<1>8. ASSUME NEW x \in here \ fr PROVE x.txIndex > e + 1 + Cardinality(fr)
  <2> DEFINE k == Cardinality(fr)
  <2>1. x.txIndex \in Nat /\ x.txIndex > e /\ k \in Nat
    BY <1>1, <1>3, <1>4
  <2>2. x.txIndex \notin R
    <3> SUFFICES ASSUME x.txIndex \in R PROVE FALSE
      OBVIOUS
    <3>1. PICK y \in fr : y.txIndex = x.txIndex
      OBVIOUS
    <3>2. QED
      BY <1>1, <1>4, <1>8, <3>1
  <2>3. x.txIndex # e + 1 + k
    <3> SUFFICES ASSUME x.txIndex = e + 1 + k PROVE FALSE
      OBVIOUS
    <3>1. ASSUME NEW i \in e + 1 .. x.txIndex PROVE \E y \in here : y.txIndex = i
      <4>1. CASE i = x.txIndex
        BY <1>8, <4>1
      <4>2. CASE i # x.txIndex
        <5>1. i \in R
          <6> HIDE DEF k, R
          <6> QED
          BY <1>1, <1>7, <2>1, <4>2 DEF k
        <5>2. QED
          BY <1>4, <5>1
      <4>3. QED
        BY <4>1, <4>2
    <3>2. x \in fr
      BY <1>2, <1>8, <2>1, <3>1
    <3>3. QED
      BY <1>8, <3>2
  <2> HIDE DEF R
  <2>4. QED
    BY <1>1, <1>7, <2>1, <2>2, <2>3
<1>9. QED
  <2>1. \A x \in fr : x.txIndex \in e + 1 .. e + Cardinality(fr)
    BY <1>7
  <2>2. QED
    BY <1>4, <1>8, <2>1 DEF e, here, fr

\* Emitting batches that nothing emitted has passed, no two of one position, keeps
\* the list sorted.
LEMMA StreamingEmits ==
  ASSUME IInv, mode = "StreamingOrdered",
         \A i, j \in 1 .. Len(emitted) : i < j => Earlier(emitted[i], emitted[j]),
         NEW S, S \subseteq Batches, IsFiniteSet(S), Emit(S),
         \A i \in 1 .. Len(emitted), x \in S : Earlier(emitted[i], x),
         \A x, y \in S : Before(x, y) => Earlier(x, y)
  PROVE  \A i, j \in 1 .. Len(emitted') : i < j => Earlier(emitted'[i], emitted'[j])
<1>1. TypeOK /\ emitted \in Seq(Batches) /\ Len(emitted) \in Nat
  BY Basics DEF IInv
<1>2. /\ \A i \in 1 .. Len(emitted) : emitted'[i] = emitted[i]
      /\ Len(emitted') \in Nat
      /\ \A i \in Len(emitted) + 1 .. Len(emitted') : emitted'[i] \in S
      /\ \A i, j \in Len(emitted) + 1 .. Len(emitted') : i < j => Before(emitted'[i], emitted'[j])
  BY <1>1, Emission
<1> SUFFICES ASSUME NEW i \in 1 .. Len(emitted'), NEW j \in 1 .. Len(emitted'), i < j
             PROVE  Earlier(emitted'[i], emitted'[j])
  OBVIOUS
<1>3. CASE j \in 1 .. Len(emitted)
  <2>1. i \in 1 .. Len(emitted)
    BY <1>1, <1>3
  <2>2. QED
    BY <1>2, <1>3, <2>1
<1>4. CASE i \in 1 .. Len(emitted) /\ j \notin 1 .. Len(emitted)
  <2>1. j \in Len(emitted) + 1 .. Len(emitted')
    BY <1>1, <1>2, <1>4
  <2>2. QED
    BY <1>2, <1>4, <2>1
<1>5. CASE i \notin 1 .. Len(emitted) /\ j \notin 1 .. Len(emitted)
  <2>1. i \in Len(emitted) + 1 .. Len(emitted') /\ j \in Len(emitted) + 1 .. Len(emitted')
    BY <1>1, <1>2, <1>5
  <2>2. emitted'[i] \in S /\ emitted'[j] \in S /\ Before(emitted'[i], emitted'[j])
    BY <1>2, <2>1
  <2>3. QED
    BY <2>2
<1>6. QED
  BY <1>3, <1>4, <1>5

\* Emitting batches below n of this slot or of earlier slots passes nothing else.
LEMMA EmissionPasses ==
  ASSUME TypeOK, NEW S, S \subseteq Batches, IsFiniteSet(S), Emit(S),
         NEW slot \in Nat, NEW m \in Nat, NEW n \in Nat, m <= n,
         \A i \in 1 .. Len(emitted) : /\ emitted[i].slot <= slot
                                      /\ emitted[i].slot = slot => emitted[i].txIndex < m,
         \A x \in S : x.slot <= slot /\ (x.slot = slot => x.txIndex < n)
  PROVE  \A i \in 1 .. Len(emitted') : /\ emitted'[i].slot <= slot
                                       /\ emitted'[i].slot = slot => emitted'[i].txIndex < n
<1>1. /\ Len(emitted) \in Nat
      /\ \A i \in 1 .. Len(emitted) : emitted'[i] = emitted[i] /\ emitted[i].txIndex \in Nat
      /\ Len(emitted') \in Nat
      /\ \A i \in Len(emitted) + 1 .. Len(emitted') : emitted'[i] \in S
  BY Basics, Emission
<1> TAKE i \in 1 .. Len(emitted')
<1>2. CASE i \in 1 .. Len(emitted)
  BY <1>1, <1>2
<1>3. CASE i \notin 1 .. Len(emitted)
  BY <1>1, <1>3
<1>4. QED
  BY <1>2, <1>3

\* Nothing held has been passed, as long as the genesis slot is over.
LEMMA HeldIsAhead ==
  ASSUME IInv, mode = "StreamingOrdered", 0 \notin Slots
  PROVE  /\ \A x \in slots : x.slot = currentSlot
         /\ \A i \in 1 .. Len(emitted), x \in slots : Earlier(emitted[i], x)
         /\ \A x, y \in slots : Before(x, y) => Earlier(x, y)
<1>1. /\ HeldFor(slots, streamingPending, streamingWatermarks, currentSlot)
      /\ PassedBy(streamingWatermarks, currentSlot)
      /\ currentSlot \in Nat /\ NextIndex(streamingWatermarks, currentSlot) \in Nat
  BY Basics, NextIndexNat DEF IInv, Streaming
<1>2. /\ \A x \in slots : x \in Batches /\ x.slot \in Slots /\ x.slot \in Nat
                          /\ x.txIndex \in Nat /\ x.seq \in Nat
      /\ \A i \in 1 .. Len(emitted) : emitted[i].slot \in Nat /\ emitted[i].txIndex \in Nat
  BY Basics DEF IInv
<1>3. \A x \in slots : x.slot = currentSlot
  BY <1>1, <1>2 DEF HeldFor
<1>4. Of(slots, currentSlot) = slots
  BY <1>3 DEF Of
<1>5. \A x \in slots : x.txIndex > NextIndex(streamingWatermarks, currentSlot)
  BY <1>1, <1>4 DEF HeldFor
<1>6. ASSUME NEW i \in 1 .. Len(emitted), NEW x \in slots PROVE Earlier(emitted[i], x)
  BY <1>1, <1>2, <1>3, <1>5 DEF PassedBy, Earlier
<1>7. ASSUME NEW x \in slots, NEW y \in slots, Before(x, y) PROVE Earlier(x, y)
  <2>1. x # y
    BY <1>2, <1>7, BeforeStrict
  <2>2. x.txIndex # y.txIndex
    BY <1>1, <1>4, <2>1 DEF HeldFor
  <2>3. QED
    BY <1>2, <1>7, <2>2 DEF Before, Earlier
<1>8. QED
  BY <1>3, <1>6, <1>7

LEMMA StreamingLateStep == ASSUME IInv, NEW b, Arrives(b), StreamingLate(b) PROVE IInv'
<1> USE DEF StreamingLate, clock
<1>1. TypeOK /\ mode = "StreamingOrdered" /\ mode' = mode /\ seq' = seq + 1
  BY ArrivalIsNew DEF IInv
<1>2. TypeOK'
  BY <1>1, Basics, TypeFrom DEF TypeOK
<1>3. Modal'
  <2>1. \A x \in Held' : x.seq < seq'
    BY <1>1, HeldNumbered DEF Held
  <2>2. QED
    BY <1>1, <2>1 DEF IInv, Modal
<1>4. Streaming' /\ Ordered' /\ SortedOut'
  BY <1>1 DEF IInv, Streaming, PassedBy, Ordered, SortedOut
<1>5. Conservation'
  BY <1>1, Accounts DEF Conservation
<1>6. QED
  BY <1>2, <1>3, <1>4, <1>5 DEF IInv

\* A transaction that is not late makes its slot the current one.
LEMMA Joined ==
  ASSUME IInv, NEW b, Arrives(b), StreamingJoins(b)
  PROVE  /\ TypeOK /\ mode = "StreamingOrdered" /\ mode' = mode /\ seq' = seq + 1
         /\ b \in Batches /\ b \notin slots /\ ~(b.slot < currentSlot)
         /\ b.slot \in Slots /\ b.slot \in Nat /\ b.txIndex \in TxIndexes /\ b.txIndex \in Nat
         /\ currentSlot' = b.slot /\ b.slot >= currentSlot /\ currentSlot \in Nat
         /\ microBatch' = microBatch /\ orderedLateDrops' = orderedLateDrops
<1>1. /\ TypeOK /\ b \in Batches /\ b \notin slots /\ seq' = seq + 1 /\ mode' = mode
  BY ArrivalIsNew DEF IInv, Held
<1>2. /\ b.slot \in Slots /\ b.slot \in Nat /\ b.txIndex \in TxIndexes /\ b.txIndex \in Nat
      /\ currentSlot \in Nat
  BY <1>1, Basics
<1>3. currentSlot' = b.slot /\ b.slot >= currentSlot
  BY <1>2 DEF StreamingJoins, Newer
<1>4. QED
  BY <1>1, <1>2, <1>3 DEF StreamingJoins

LEMMA JoinedTypes ==
  ASSUME IInv, NEW b, Arrives(b), StreamingJoins(b),
         NEW S, S \subseteq slots \cup {b}, Emit(S), slots' \subseteq slots \cup {b},
         MarksOf(streamingWatermarks', b.slot), streamingPending' \subseteq TxIndexes,
         ignored' \in Nat
  PROVE  TypeOK' /\ Modal' /\ Ordered' /\ IsFiniteSet(S) /\ S \subseteq Batches
<1>1. /\ TypeOK /\ mode = "StreamingOrdered" /\ mode' = mode /\ seq' = seq + 1 /\ b \in Batches
      /\ b.slot \in Slots /\ b.slot \in Nat /\ currentSlot' = b.slot /\ b.slot >= currentSlot
      /\ microBatch' = microBatch /\ orderedLateDrops' = orderedLateDrops
  BY Joined
<1>2. IsFiniteSet(slots \cup {b}) /\ slots \cup {b} \subseteq Batches
  BY <1>1, Basics, FS_AddElement
<1>3. /\ IsFiniteSet(S) /\ S \subseteq Batches
      /\ IsFiniteSet(slots') /\ slots' \subseteq Batches
  BY <1>2, FS_Subset
<1>4. /\ seq' \in Nat /\ orderedLateDrops' \in Nat
      /\ microBatch' \subseteq Batches /\ IsFiniteSet(microBatch')
  BY <1>1, Basics
<1>5. idle' \in {idle, FALSE, TRUE} /\ windowOver' = windowOver
  BY DEF StreamingJoins
<1>6. emitted' \in Seq(Batches)
  BY <1>1, <1>3, Basics, Emission
<1>7. TypeOK'
  BY <1>1, <1>3, <1>4, <1>5, <1>6, WatermarkFrom, TypeFrom
<1>8. Modal'
  <2>1. \A x \in Held' : x.seq < seq'
    BY <1>1, HeldNumbered DEF Held
  <2>2. \A x \in slots' : x.slot <= currentSlot'
    BY <1>1, HeldStarted
  <2>3. QED
    BY <1>1, <2>1, <2>2 DEF IInv, Modal
<1>9. QED
  BY <1>1, <1>3, <1>7, <1>8 DEF Ordered

\* The flush alone keeps the list sorted and passes nothing of the new slot.
LEMMA JoinedFlush ==
  ASSUME IInv, NEW b, Arrives(b), StreamingJoins(b), Emit(Flushed(b)),
         streamingWatermarks' = MarksFor(b)
  PROVE  SortedOut' /\ PassedBy(streamingWatermarks, currentSlot)'
<1>1. /\ TypeOK /\ mode = "StreamingOrdered" /\ mode' = mode /\ b \in Batches
      /\ ~(b.slot < currentSlot) /\ currentSlot' = b.slot /\ b.slot \in Nat
  BY Joined
<1>2. /\ Flushed(b) \subseteq slots /\ Flushed(b) \subseteq Batches /\ IsFiniteSet(Flushed(b))
      /\ \A x \in Flushed(b) : x.slot < b.slot /\ x.slot \in Nat
  BY <1>1, FlushedIsHeld, Basics
<1>3. SortedOut'
  <2> SUFFICES ASSUME 0 \notin Slots
               PROVE  \A i, j \in 1 .. Len(emitted') : i < j => Earlier(emitted'[i], emitted'[j])
    BY <1>1 DEF SortedOut
  <2>1. /\ \A i \in 1 .. Len(emitted), x \in Flushed(b) : Earlier(emitted[i], x)
        /\ \A x, y \in Flushed(b) : Before(x, y) => Earlier(x, y)
    BY <1>1, <1>2, HeldIsAhead
  <2>2. QED
    BY <1>1, <1>2, <2>1, StreamingEmits DEF IInv, SortedOut
<1>4. PassedBy(streamingWatermarks, currentSlot)'
  <2> DEFINE m == Expected(b)
  <2>1. m \in Nat /\ PassedBy(MarksFor(b), b.slot)
    BY <1>1, StreamingReady
  <2>2. \A i \in 1 .. Len(emitted) : /\ emitted[i].slot <= b.slot
                                     /\ emitted[i].slot = b.slot => emitted[i].txIndex < m
    BY <2>1 DEF PassedBy, Expected
  <2> HIDE DEF m
  <2>3. \A x \in Flushed(b) : x.slot <= b.slot /\ (x.slot = b.slot => x.txIndex < m)
    BY <1>1, <1>2
  <2>4. m <= m
    BY <2>1
  <2>5. \A i \in 1 .. Len(emitted') : /\ emitted'[i].slot <= b.slot
                                      /\ emitted'[i].slot = b.slot => emitted'[i].txIndex < m
    BY <1>1, <1>2, <2>1, <2>2, <2>3, <2>4, EmissionPasses
  <2>6. NextIndex(streamingWatermarks', currentSlot') = m
    BY <1>1 DEF m, Expected
  <2>7. QED
    BY <1>1, <2>5, <2>6 DEF PassedBy
<1>5. QED
  BY <1>3, <1>4

LEMMA StreamingRepeatedStep == ASSUME IInv, NEW b, Arrives(b), StreamingRepeated(b) PROVE IInv'
<1>1. /\ StreamingJoins(b) /\ Emit(Flushed(b)) /\ slots' = StillHeld(b)
      /\ streamingPending' = PendingFor(b) /\ streamingWatermarks' = MarksFor(b)
      /\ ignored' = ignored + 1
  BY DEF StreamingRepeated
<1>2. /\ TypeOK /\ mode = "StreamingOrdered" /\ mode' = mode /\ b \in Batches
      /\ ~(b.slot < currentSlot) /\ currentSlot' = b.slot /\ ignored \in Nat /\ seq' = seq + 1
      /\ microBatch' = microBatch /\ orderedLateDrops' = orderedLateDrops
  BY <1>1, Joined, Basics
<1>3. /\ MarksOf(MarksFor(b), b.slot) /\ PendingFor(b) \subseteq TxIndexes
      /\ HeldFor(StillHeld(b), PendingFor(b), MarksFor(b), b.slot)
  BY <1>2, StreamingReady
<1>4. TypeOK' /\ Modal' /\ Ordered'
  BY <1>1, <1>2, <1>3, FlushedIsHeld, JoinedTypes
<1>5. SortedOut' /\ Streaming'
  BY <1>1, <1>2, <1>3, JoinedFlush DEF Streaming
<1>6. Conservation'
  <2>1. Len(emitted') = Len(emitted) + Cardinality(Flushed(b))
    BY <1>1, <1>2, FlushedIsHeld, Emission, Basics
  <2>2. Len(emitted') + Cardinality(slots') = Len(emitted) + Cardinality(slots)
    <3>1. Cardinality(slots) = Cardinality(Flushed(b)) + Cardinality(slots')
      BY <1>1, FlushedIsHeld
    <3>2. /\ Len(emitted) \in Nat /\ Cardinality(Flushed(b)) \in Nat
          /\ Cardinality(StillHeld(b)) \in Nat
      BY FlushedIsHeld, Accounts
    <3>3. QED
      BY ONLY <1>1, <2>1, <3>1, <3>2
  <2>3. QED
    BY <1>1, <1>2, <2>2, Accounts DEF Conservation
<1>7. QED
  BY <1>4, <1>5, <1>6 DEF IInv

LEMMA StreamingEarlyStep == ASSUME IInv, NEW b, Arrives(b), StreamingEarly(b) PROVE IInv'
<1>1. /\ StreamingJoins(b) /\ Emit(Flushed(b)) /\ slots' = StillHeld(b) \cup {b}
      /\ streamingPending' = PendingFor(b) \cup {b.txIndex} /\ streamingWatermarks' = MarksFor(b)
      /\ b.txIndex > Expected(b) /\ b.txIndex \notin PendingFor(b) /\ ignored' = ignored
  BY DEF StreamingEarly
<1>2. /\ TypeOK /\ mode = "StreamingOrdered" /\ mode' = mode /\ b \in Batches /\ b \notin slots
      /\ ~(b.slot < currentSlot) /\ currentSlot' = b.slot /\ ignored \in Nat /\ seq' = seq + 1
      /\ microBatch' = microBatch /\ orderedLateDrops' = orderedLateDrops
      /\ b.txIndex \in TxIndexes
  BY <1>1, Joined, Basics
<1>3. /\ MarksOf(MarksFor(b), b.slot) /\ PendingFor(b) \subseteq TxIndexes
      /\ HeldFor(StillHeld(b), PendingFor(b), MarksFor(b), b.slot)
  BY <1>2, StreamingReady
<1>4. StillHeld(b) \subseteq slots /\ IsFiniteSet(StillHeld(b)) /\ Flushed(b) \subseteq slots
  BY FlushedIsHeld
<1>5. TypeOK' /\ Modal' /\ Ordered'
  <2>1. Flushed(b) \subseteq slots \cup {b} /\ slots' \subseteq slots \cup {b}
    BY <1>1, <1>4
  <2>2. streamingPending' \subseteq TxIndexes /\ MarksOf(streamingWatermarks', b.slot) /\ ignored' \in Nat
    BY <1>1, <1>2, <1>3
  <2>3. QED
    BY <1>1, <2>1, <2>2, JoinedTypes
<1>6. HeldFor(slots', streamingPending', MarksFor(b), b.slot)
  <2>1. Of(slots', b.slot) = Of(StillHeld(b), b.slot) \cup {b}
    BY <1>1 DEF Of
  <2>2. streamingPending' = {x.txIndex : x \in Of(slots', b.slot)}
    BY <1>1, <1>3, <2>1 DEF HeldFor
  <2>3. \A x \in Of(slots', b.slot) : x.txIndex > NextIndex(MarksFor(b), b.slot)
    BY <1>1, <1>3, <2>1 DEF HeldFor, Expected
  <2>4. \A x \in Of(StillHeld(b), b.slot) : x.txIndex # b.txIndex
    BY <1>1, <1>3 DEF HeldFor
  <2>5. \A x, y \in Of(slots', b.slot) : x.txIndex = y.txIndex => x = y
    BY <1>3, <2>1, <2>4 DEF HeldFor
  <2>6. \A x \in slots' : x.slot \in {0, b.slot}
    BY <1>1, <1>3 DEF HeldFor
  <2>7. QED
    BY <2>2, <2>3, <2>5, <2>6 DEF HeldFor
<1>7. SortedOut' /\ Streaming'
  BY <1>1, <1>2, <1>6, JoinedFlush DEF Streaming
<1>8. Conservation'
  <2>1. Len(emitted') = Len(emitted) + Cardinality(Flushed(b))
    BY <1>1, <1>2, FlushedIsHeld, Emission, Basics
  <2>2. Cardinality(slots') = Cardinality(StillHeld(b)) + 1
    BY <1>1, <1>2, <1>4, FS_AddElement
  <2>3. Len(emitted') + Cardinality(slots') = Len(emitted) + Cardinality(slots) + 1
    <3>1. Cardinality(slots) = Cardinality(Flushed(b)) + Cardinality(StillHeld(b))
      BY FlushedIsHeld
    <3>2. /\ Len(emitted) \in Nat /\ Cardinality(Flushed(b)) \in Nat
          /\ Cardinality(StillHeld(b)) \in Nat
      BY FlushedIsHeld, Accounts
    <3>3. QED
      BY ONLY <2>1, <2>2, <3>1, <3>2
  <2>4. QED
    BY <1>1, <1>2, <2>3, Accounts DEF Conservation
<1>9. QED
  BY <1>5, <1>7, <1>8 DEF IInv

LEMMA StreamingDueStep == ASSUME IInv, NEW b, Arrives(b), StreamingDue(b) PROVE IInv'
<1> DEFINE k == Cardinality(Freed(b))
           e == Expected(b)
           S == Flushed(b) \cup {b} \cup Freed(b)
           marks == WithMark(MarksFor(b), b.slot, e + 1 + k)
<1>1. /\ StreamingJoins(b) /\ Emit(S) /\ slots' = StillHeld(b) \ Freed(b)
      /\ streamingPending' = PendingFor(b) \ {x.txIndex : x \in Freed(b)}
      /\ streamingWatermarks' = marks
      /\ b.txIndex = e /\ ignored' = ignored
  BY DEF StreamingDue
<1>2. /\ TypeOK /\ mode = "StreamingOrdered" /\ mode' = mode /\ b \in Batches /\ b \notin slots
      /\ ~(b.slot < currentSlot) /\ currentSlot' = b.slot /\ ignored \in Nat /\ seq' = seq + 1
      /\ microBatch' = microBatch /\ orderedLateDrops' = orderedLateDrops
      /\ b.txIndex \in TxIndexes /\ b.slot \in Nat /\ b.txIndex \in Nat
  BY <1>1, Joined, Basics
<1>3. /\ MarksOf(MarksFor(b), b.slot) /\ PendingFor(b) \subseteq TxIndexes /\ e \in Nat
      /\ HeldFor(StillHeld(b), PendingFor(b), MarksFor(b), b.slot)
      /\ PassedBy(MarksFor(b), b.slot)
  BY <1>2, StreamingReady
<1>4. /\ StillHeld(b) \subseteq slots /\ IsFiniteSet(StillHeld(b))
      /\ Flushed(b) \subseteq slots /\ IsFiniteSet(Flushed(b))
      /\ \A x \in Flushed(b) : x.slot < b.slot
      /\ \A x \in slots : x.slot \in Nat /\ x.txIndex \in Nat
  BY <1>2, FlushedIsHeld, Basics
<1>5. /\ Freed(b) \subseteq Of(StillHeld(b), b.slot) /\ Freed(b) \subseteq slots
      /\ IsFiniteSet(Freed(b)) /\ k \in Nat
      /\ \A x \in Freed(b) : x.txIndex \in e + 1 .. e + k /\ x.slot = b.slot
      /\ \A x \in Of(StillHeld(b), b.slot) \ Freed(b) : x.txIndex > e + 1 + k
  BY <1>2, <1>4, FreedAreNext DEF Of
<1> HIDE DEF k, e
<1>6. NextIndex(marks, b.slot) = e + 1 + k /\ MarksOf(marks, b.slot)
  BY <1>3, <1>5 DEF NextIndex, WithMark, MarksOf
<1> HIDE DEF marks
<1>7. TypeOK' /\ Modal' /\ Ordered' /\ IsFiniteSet(S) /\ S \subseteq Batches
  <2>1. S \subseteq slots \cup {b} /\ slots' \subseteq slots \cup {b}
    BY <1>1, <1>4, <1>5
  <2>2. streamingPending' \subseteq TxIndexes /\ MarksOf(streamingWatermarks', b.slot) /\ ignored' \in Nat
    BY <1>1, <1>2, <1>3, <1>6
  <2>3. QED
    BY <1>1, <2>1, <2>2, JoinedTypes
<1>8. HeldFor(slots', streamingPending', marks, b.slot)
  <2>1. Of(slots', b.slot) = Of(StillHeld(b), b.slot) \ Freed(b)
    BY <1>1 DEF Of
  <2>2. streamingPending' = {x.txIndex : x \in Of(slots', b.slot)}
    <3>1. PendingFor(b) = {x.txIndex : x \in Of(StillHeld(b), b.slot)}
      BY <1>3 DEF HeldFor
    <3>2. \A x \in Of(StillHeld(b), b.slot), y \in Freed(b) : x.txIndex = y.txIndex => x = y
      BY <1>3, <1>5 DEF HeldFor
    <3>3. ASSUME NEW i \in streamingPending' PROVE \E x \in Of(slots', b.slot) : x.txIndex = i
      <4>1. PICK x \in Of(StillHeld(b), b.slot) : x.txIndex = i
        BY <1>1, <3>1, <3>3
      <4>2. x \notin Freed(b)
        BY <1>1, <3>3, <4>1
      <4>3. QED
        BY <2>1, <4>1, <4>2
    <3>4. ASSUME NEW x \in Of(slots', b.slot) PROVE x.txIndex \in streamingPending'
      <4>1. x \in Of(StillHeld(b), b.slot) /\ x \notin Freed(b)
        BY <2>1
      <4>2. x.txIndex \in PendingFor(b)
        BY <3>1, <4>1
      <4>3. x.txIndex \notin {y.txIndex : y \in Freed(b)}
        BY <3>2, <4>1
      <4>4. QED
        BY <1>1, <4>2, <4>3
    <3>5. QED
      BY <3>3, <3>4
  <2>3. \A x \in Of(slots', b.slot) : x.txIndex > NextIndex(marks, b.slot)
    BY <1>5, <1>6, <2>1
  <2>4. /\ \A x, y \in Of(slots', b.slot) : x.txIndex = y.txIndex => x = y
        /\ \A x \in slots' : x.slot \in {0, b.slot}
    BY <1>1, <1>3, <2>1 DEF HeldFor
  <2>5. QED
    BY <2>2, <2>3, <2>4 DEF HeldFor
<1>9. PassedBy(streamingWatermarks, currentSlot)'
  <2> DEFINE n == e + 1 + k
  <2>1. n \in Nat /\ e <= n
    BY <1>3, <1>5
  <2>2. \A i \in 1 .. Len(emitted) : /\ emitted[i].slot <= b.slot
                                     /\ emitted[i].slot = b.slot => emitted[i].txIndex < e
    BY <1>3 DEF PassedBy, Expected, e
  <2>3. \A x \in S : x.slot <= b.slot /\ (x.slot = b.slot => x.txIndex < n)
    BY <1>1, <1>2, <1>3, <1>4, <1>5
  <2> HIDE DEF n, S
  <2>4. \A i \in 1 .. Len(emitted') : /\ emitted'[i].slot <= b.slot
                                      /\ emitted'[i].slot = b.slot => emitted'[i].txIndex < n
    BY <1>1, <1>2, <1>3, <1>7, <2>1, <2>2, <2>3, EmissionPasses
  <2>5. QED
    BY <1>1, <1>2, <1>6, <2>4 DEF PassedBy, n
<1>10. SortedOut'
  <2> SUFFICES ASSUME 0 \notin Slots
               PROVE  \A i, j \in 1 .. Len(emitted') : i < j => Earlier(emitted'[i], emitted'[j])
    BY <1>2 DEF SortedOut
  <2>1. /\ \A i \in 1 .. Len(emitted), x \in slots : Earlier(emitted[i], x)
        /\ \A x, y \in slots : Before(x, y) => Earlier(x, y)
    BY <1>2, HeldIsAhead
  <2>2. \A i \in 1 .. Len(emitted) : Earlier(emitted[i], b)
    <3>1. \A i \in 1 .. Len(emitted) : emitted[i].slot \in Nat /\ emitted[i].txIndex \in Nat
      BY <1>2, Basics
    <3>2. QED
      BY <1>1, <1>2, <1>3, <3>1 DEF PassedBy, Expected, Earlier, e
  <2>3. ASSUME NEW x \in S, NEW y \in S, Before(x, y) PROVE Earlier(x, y)
    <3>1. CASE x \in slots /\ y \in slots
      BY <2>1, <2>3, <3>1
    <3>2. CASE x = b /\ y = b
      BY <1>2, <2>3, <3>2, BeforeStrict
    <3>3. CASE x = b /\ y \in Flushed(b)
      BY <1>2, <1>4, <2>3, <3>3 DEF Before, Earlier
    <3>4. CASE x = b /\ y \in Freed(b)
      BY <1>1, <1>2, <1>3, <1>5, <3>4 DEF Earlier
    <3>5. CASE x \in Flushed(b) /\ y = b
      BY <1>4, <3>5 DEF Earlier
    <3>6. CASE x \in Freed(b) /\ y = b
      BY <1>1, <1>2, <1>3, <1>4, <1>5, <2>3, <3>6 DEF Before, Earlier
    <3>7. QED
      BY <1>4, <1>5, <3>1, <3>2, <3>3, <3>4, <3>5, <3>6
  <2>4. \A i \in 1 .. Len(emitted), x \in S : Earlier(emitted[i], x)
    BY <1>4, <1>5, <2>1, <2>2
  <2> HIDE DEF S
  <2>5. QED
    BY <1>1, <1>2, <1>7, <2>3, <2>4, StreamingEmits DEF IInv, SortedOut
<1>11. Streaming'
  BY <1>1, <1>2, <1>8, <1>9 DEF Streaming
<1>12. Conservation'
  <2> DEFINE f == Cardinality(Flushed(b))
             h == Cardinality(StillHeld(b))
  <2>1. f \in Nat /\ h \in Nat /\ Cardinality(slots) = f + h
    BY FlushedIsHeld
  <2>2. Cardinality(S) = f + 1 + k
    <3>1. IsFiniteSet(Flushed(b) \cup {b}) /\ Cardinality(Flushed(b) \cup {b}) = f + 1
      BY <1>2, <1>4, FS_AddElement
    <3>2. (Flushed(b) \cup {b}) \cap Freed(b) = {}
      BY <1>2, <1>4, <1>5 DEF Of, StillHeld
    <3> DEFINE A == Flushed(b) \cup {b}
               B == Freed(b)
    <3> HIDE DEF A, B
    <3>3. Cardinality(A \cup B) = Cardinality(A) + Cardinality(B)
      BY <1>5, <3>1, <3>2, DisjointUnion DEF A, B
    <3>4. QED
      BY <3>1, <3>3 DEF A, B, k
  <2>3. Cardinality(slots') = h - k
    <3>1. Freed(b) \subseteq StillHeld(b) /\ IsFiniteSet(slots')
      BY <1>1, <1>4, <1>5, FS_Subset DEF Of
    <3>2. slots' \cup Freed(b) = StillHeld(b) /\ slots' \cap Freed(b) = {}
      BY <1>1, <3>1
    <3>3. h = Cardinality(slots') + k - 0 /\ Cardinality(slots') \in Nat
      BY <1>5, <3>1, <3>2, FS_Union, FS_EmptySet, FS_CardinalityType DEF k
    <3>4. QED
      BY <1>5, <2>1, <3>3
  <2>4. Len(emitted') = Len(emitted) + Cardinality(S)
    BY <1>1, <1>2, <1>7, Emission, Basics
  <2> HIDE DEF f, h, S
  <2>5. Len(emitted') + Cardinality(slots') = Len(emitted) + Cardinality(slots) + 1
    <3>1. Len(emitted) \in Nat
      BY Accounts
    <3>2. Len(emitted') = Len(emitted) + (f + 1 + k)
      BY <2>2, <2>4
    <3>3. QED
      BY <1>5, <2>1, <2>3, <3>1, <3>2
  <2>6. QED
    BY <1>1, <1>2, <2>5, Accounts DEF Conservation
<1>13. QED
  BY <1>7, <1>10, <1>11, <1>12 DEF IInv

(* MicroBatch, the timers and the flushes *)

LEMMA MicroBatchStep == ASSUME IInv, NEW b, Arrives(b), PushMicroBatch(b) PROVE IInv'
<1> DEFINE S == microBatch \cup {b}
<1>1. /\ TypeOK /\ mode = "MicroBatch" /\ mode' = mode /\ seq' = seq + 1
      /\ b \in Batches /\ b \notin microBatch
      /\ UNCHANGED <<slots, streamingWatermarks, streamingPending, currentSlot,
                     orderedLateDrops, ignored>>
  BY ArrivalIsNew DEF IInv, PushMicroBatch, Held
<1>2. /\ S \subseteq Batches /\ IsFiniteSet(S)
      /\ Cardinality(S) = Cardinality(microBatch) + 1
  BY <1>1, Basics, FS_AddElement
<1> HIDE DEF S
<1>3. \/ /\ microBatch' = {} /\ Emit(S) /\ windowOver' = FALSE /\ idle' = FALSE
      \/ microBatch' = S /\ UNCHANGED <<emitted, orderedWatermark, windowOver, idle>>
  BY DEF PushMicroBatch, S
<1>4. /\ microBatch' \subseteq Batches /\ IsFiniteSet(microBatch')
      /\ microBatch' \subseteq microBatch \cup {b}
  BY <1>2, <1>3, FS_EmptySet DEF S
<1>5. /\ idle' \in {idle, FALSE, TRUE} /\ windowOver' \in {windowOver, FALSE, TRUE}
      /\ orderedWatermark' \in [slot : Slots, txIndex : TxIndexes] \cup {NoWatermark}
      /\ emitted' \in Seq(Batches)
  <2>1. CASE Emit(S) /\ windowOver' = FALSE /\ idle' = FALSE
    BY <1>1, <1>2, <2>1, Basics, WatermarkFrom, Emission
  <2>2. CASE UNCHANGED <<emitted, orderedWatermark, windowOver, idle>>
    BY <1>1, <2>2 DEF TypeOK
  <2>3. QED
    BY <1>3, <2>1, <2>2
<1>6. TypeOK'
  <2>1. /\ seq' \in Nat /\ orderedLateDrops' \in Nat /\ ignored' \in Nat
        /\ slots' \subseteq Batches /\ IsFiniteSet(slots')
        /\ currentSlot' \in Slots \cup {0} /\ MarksOf(streamingWatermarks', currentSlot')
        /\ streamingPending' \subseteq TxIndexes
    BY <1>1, Basics DEF TypeOK
  <2>2. QED
    BY <1>1, <1>4, <1>5, <2>1, TypeFrom
<1>7. Modal'
  <2>1. \A x \in Held' : x.seq < seq'
    BY <1>1, <1>4, HeldNumbered DEF Held
  <2>2. QED
    BY <1>1, <2>1 DEF IInv, Modal
<1>8. Streaming' /\ Ordered' /\ SortedOut'
  BY <1>1 DEF Streaming, Ordered, SortedOut
<1>9. Conservation'
  <2>1. Len(emitted') + Cardinality(microBatch') = Len(emitted) + Cardinality(microBatch) + 1
    <3>1. CASE microBatch' = {} /\ Emit(S)
      <4>1. Len(emitted') = Len(emitted) + Cardinality(S) /\ Cardinality(microBatch') = 0
        BY <1>1, <1>2, <3>1, Basics, Emission, FS_EmptySet
      <4>2. QED
        BY <1>2, <4>1, Accounts
    <3>2. CASE microBatch' = S /\ emitted' = emitted
      BY <1>2, <3>2, Accounts
    <3>3. QED
      BY <1>3, <3>1, <3>2
  <2>2. Len(emitted') \in Nat /\ Cardinality(microBatch') \in Nat
    BY <1>4, <1>5, LenProperties, FS_CardinalityType
  <2>3. /\ Cardinality(slots') = Cardinality(slots) /\ seq' = seq + 1
        /\ orderedLateDrops' = orderedLateDrops /\ ignored' = ignored
    BY <1>1
  <2>4. seq = Len(emitted) + Cardinality(slots) + Cardinality(microBatch)
                + orderedLateDrops + ignored
    BY Accounts
  <2>5. seq' = Len(emitted') + Cardinality(slots') + Cardinality(microBatch')
                 + orderedLateDrops' + ignored'
    <3>1. /\ Len(emitted) \in Nat
          /\ Cardinality(slots) \in Nat /\ Cardinality(microBatch) \in Nat
          /\ orderedLateDrops \in Nat /\ ignored \in Nat
      BY Accounts
    <3> DEFINE e  == Len(emitted)
               f  == Len(emitted')
               h  == Cardinality(slots)
               m  == Cardinality(microBatch)
               n  == Cardinality(microBatch')
    <3>2. e \in Nat /\ f \in Nat /\ h \in Nat /\ m \in Nat /\ n \in Nat
      BY <2>2, <3>1
    <3>3. f + n = e + m + 1 /\ seq = e + h + m + orderedLateDrops + ignored
      BY <2>1, <2>4
    <3> HIDE DEF e, f, h, m, n
    <3>4. seq + 1 = f + h + n + orderedLateDrops + ignored
      BY ONLY <3>1, <3>2, <3>3
    <3>5. QED
      BY <2>3, <3>4 DEF f, h, n
  <2>6. QED
    BY <2>5 DEF Conservation
<1>10. QED
  BY <1>6, <1>7, <1>8, <1>9 DEF IInv

\* A push preserves the invariant, whatever the mode.
LEMMA PushStep ==
  ASSUME IInv, NEW slot \in Slots, NEW txIndex \in TxIndexes, PushTransactionEvents(slot, txIndex)
  PROVE  IInv'
<1> DEFINE b == Batch(slot, txIndex)
<1>1. b \in Batches /\ b.slot = slot /\ b.txIndex = txIndex
  BY Basics DEF IInv, Batch, Batches
<1>2. Arrives(b)
  BY <1>1 DEF PushTransactionEvents, Arrives, At
<1> HIDE DEF b
<1>3. PushUnordered(b) \/ PushOrdered(b) \/ PushStreaming(b) \/ PushMicroBatch(b)
  BY DEF PushTransactionEvents, b
<1>4. CASE PushUnordered(b)
  BY <1>2, <1>4, UnorderedStep
<1>5. CASE PushOrdered(b)
  BY <1>2, <1>5, OrderedCases, OrderedLateStep, OrderedKeepsStep
<1>6. CASE PushStreaming(b)
  BY <1>2, <1>6, StreamingCases, StreamingLateStep, StreamingDueStep, StreamingEarlyStep,
     StreamingRepeatedStep
<1>7. CASE PushMicroBatch(b)
  BY <1>2, <1>7, MicroBatchStep
<1>8. QED
  BY <1>3, <1>4, <1>5, <1>6, <1>7

\* After a flush StreamingOrdered knows that it passed all it held for the slot.
LEMMA FlushMarks ==
  ASSUME IInv
  PROVE  /\ MarksOf(FlushedMarks(slots), currentSlot)
         /\ mode # "StreamingOrdered" => DOMAIN FlushedMarks(slots) = {}
         /\ mode = "StreamingOrdered" =>
              /\ NextIndex(FlushedMarks(slots), currentSlot)
                   >= NextIndex(streamingWatermarks, currentSlot)
              /\ \A x \in Of(slots, currentSlot) :
                   x.txIndex < NextIndex(FlushedMarks(slots), currentSlot)
              /\ NextIndex(FlushedMarks(slots), currentSlot)
                   \in {x.txIndex + 1 : x \in Of(slots, currentSlot)}
                         \cup {NextIndex(streamingWatermarks, currentSlot)}
<1> DEFINE cur  == currentSlot
           hs   == Of(slots, cur)
           here == {b.txIndex : b \in hs}
           old  == NextIndex(streamingWatermarks, cur)
           M    == {i + 1 : i \in here} \cup {old}
<1>1. /\ cur \in Nat /\ MarksOf(streamingWatermarks, cur) /\ old \in Nat
      /\ hs \subseteq Batches /\ IsFiniteSet(hs) /\ \A x \in hs : x.txIndex \in Nat
  BY Basics, NextIndexNat, FS_Subset DEF IInv, Of
<1>2. FlushedMarks(slots) =
        IF mode # "StreamingOrdered" THEN <<>>
        ELSE IF here # {} THEN WithMark(<<>>, cur, Max(M))
        ELSE Without(streamingWatermarks, DOMAIN streamingWatermarks \ {cur})
  BY DEF FlushedMarks, Of
<1> HIDE DEF cur, hs
<1>3. CASE mode # "StreamingOrdered"
  BY <1>2, <1>3 DEF MarksOf, cur
<1>4. CASE mode = "StreamingOrdered" /\ here # {}
  <2>1. IsFiniteSet({i + 1 : i \in here}) /\ here \subseteq Nat
    BY <1>1, Positions
  <2>2. IsFiniteSet(M) /\ M \subseteq Nat /\ M # {}
    BY <1>1, <2>1, FS_AddElement
  <2>3. Max(M) \in M /\ \A y \in M : Max(M) >= y
    <3> HIDE DEF M
    <3> QED
      BY <2>2, MaxOfFinite
  <2>4. FlushedMarks(slots) = WithMark(<<>>, cur, Max(M))
    BY <1>2, <1>4
  <2>5. /\ DOMAIN FlushedMarks(slots) = {cur} /\ FlushedMarks(slots)[cur] = Max(M)
    BY <2>4 DEF WithMark
  <2>6. NextIndex(FlushedMarks(slots), cur) = Max(M)
    BY <2>5 DEF NextIndex
  <2>7. MarksOf(FlushedMarks(slots), cur)
    BY <2>2, <2>3, <2>5 DEF MarksOf
  <2>8. Max(M) >= old /\ \A x \in hs : x.txIndex < Max(M)
    <3>1. Max(M) \in Nat
      BY <2>2, <2>3
    <3>2. ASSUME NEW x \in hs PROVE x.txIndex < Max(M)
      <4>1. x.txIndex + 1 \in M
        OBVIOUS
      <4>2. Max(M) >= x.txIndex + 1
        BY <2>3, <4>1
      <4>3. QED
        BY <1>1, <3>1, <4>2
    <3>3. QED
      BY <2>3, <3>2
  <2>9. Max(M) \in {x.txIndex + 1 : x \in hs} \cup {old}
    BY <2>3
  <2>10. QED
    BY <1>4, <2>6, <2>7, <2>8, <2>9 DEF cur, hs
<1>5. CASE mode = "StreamingOrdered" /\ here = {}
  <2>1. FlushedMarks(slots) = Without(streamingWatermarks, DOMAIN streamingWatermarks \ {cur})
    BY <1>2, <1>5
  <2>2. /\ DOMAIN FlushedMarks(slots) = DOMAIN streamingWatermarks \cap {cur}
        /\ \A s \in DOMAIN FlushedMarks(slots) : FlushedMarks(slots)[s] = streamingWatermarks[s]
    BY <2>1 DEF Without
  <2>3. MarksOf(FlushedMarks(slots), cur) /\ NextIndex(FlushedMarks(slots), cur) = old
    BY <1>1, <2>2 DEF MarksOf, NextIndex
  <2>4. hs = {}
    BY <1>5
  <2>5. QED
    BY <1>1, <1>5, <2>3, <2>4 DEF cur, hs
<1>6. QED
  BY <1>3, <1>4, <1>5

\* Emitting all that is held empties the buffers and keeps the invariant.
LEMMA FlushHeldStep ==
  ASSUME IInv, FlushHeld(Held), microBatch' = {}, windowOver' \in {windowOver, FALSE},
         UNCHANGED <<mode, currentSlot, seq, orderedLateDrops, ignored>>
  PROVE  IInv'
<1>1. /\ TypeOK /\ Held \subseteq Batches /\ IsFiniteSet(Held)
      /\ slots \subseteq Batches /\ IsFiniteSet(slots) /\ slots \subseteq Held
  BY Basics DEF IInv, TypeOK, Held
<1>2. /\ Emit(Held) /\ slots' = {} /\ streamingWatermarks' = FlushedMarks(slots)
      /\ streamingPending' = {} /\ idle' = FALSE
  BY DEF FlushHeld
<1>3. /\ MarksOf(streamingWatermarks', currentSlot')
      /\ mode' # "StreamingOrdered" => DOMAIN streamingWatermarks' = {}
  BY <1>2, FlushMarks
<1>4. TypeOK'
  <2>1. /\ slots' \subseteq Batches /\ IsFiniteSet(slots')
        /\ microBatch' \subseteq Batches /\ IsFiniteSet(microBatch')
    BY <1>2, FS_EmptySet
  <2>2. /\ orderedWatermark' \in [slot : Slots, txIndex : TxIndexes] \cup {NoWatermark}
        /\ emitted' \in Seq(Batches)
    BY <1>1, <1>2, Basics, Emission, WatermarkFrom
  <2>3. /\ currentSlot' \in Slots \cup {0} /\ seq' \in Nat /\ orderedLateDrops' \in Nat
        /\ ignored' \in Nat
    BY <1>1, Basics DEF TypeOK
  <2>4. QED
    BY <1>1, <1>2, <1>3, <2>1, <2>2, <2>3, TypeFrom
<1>5. Modal'
  BY <1>2, <1>3 DEF Modal, Held
<1>6. ASSUME mode \in {"Ordered", "StreamingOrdered"} PROVE Held = slots
  BY <1>6 DEF IInv, Modal, Held
<1>7. ASSUME mode = "Ordered" PROVE Streaming' /\ Ordered' /\ SortedOut'
  <2>1. /\ \A i \in 1 .. Len(emitted') : ~Earlier(orderedWatermark', emitted'[i])
        /\ \A i, j \in 1 .. Len(emitted') : i < j => Before(emitted'[i], emitted'[j])
    BY <1>2, <1>6, <1>7, OrderedEmits
  <2>2. QED
    BY <1>2, <1>7, <2>1 DEF Streaming, Ordered, SortedOut
<1>8. ASSUME mode = "StreamingOrdered" PROVE Streaming' /\ Ordered' /\ SortedOut'
  <2> DEFINE m == NextIndex(streamingWatermarks, currentSlot)
             n == NextIndex(streamingWatermarks', currentSlot)
  <2>1. /\ m \in Nat /\ n \in Nat /\ m <= n /\ currentSlot \in Nat
        /\ \A x \in Of(slots, currentSlot) : x.txIndex < n
    BY <1>1, <1>2, <1>3, <1>8, FlushMarks, NextIndexNat, Basics
  <2>2. \A i \in 1 .. Len(emitted) : /\ emitted[i].slot <= currentSlot
                                     /\ emitted[i].slot = currentSlot => emitted[i].txIndex < m
    BY <1>8 DEF IInv, Streaming, PassedBy
  <2>3. \A x \in Held : x.slot <= currentSlot /\ (x.slot = currentSlot => x.txIndex < n)
    BY <1>6, <1>8, <2>1 DEF IInv, Modal, Of
  <2> HIDE DEF m, n
  <2>4. \A i \in 1 .. Len(emitted') : /\ emitted'[i].slot <= currentSlot
                                      /\ emitted'[i].slot = currentSlot => emitted'[i].txIndex < n
    BY <1>1, <1>2, <2>1, <2>2, <2>3, EmissionPasses
  <2>5. PassedBy(streamingWatermarks, currentSlot)'
    BY <2>4 DEF PassedBy, n
  <2>6. HeldFor(slots, streamingPending, streamingWatermarks, currentSlot)'
    BY <1>2 DEF HeldFor, Of
  <2>7. SortedOut'
    <3> SUFFICES ASSUME 0 \notin Slots
                 PROVE  \A i, j \in 1 .. Len(emitted') : i < j => Earlier(emitted'[i], emitted'[j])
      BY <1>8 DEF SortedOut
    <3>1. /\ \A i \in 1 .. Len(emitted), x \in Held : Earlier(emitted[i], x)
          /\ \A x, y \in Held : Before(x, y) => Earlier(x, y)
      BY <1>6, <1>8, HeldIsAhead
    <3>2. QED
      BY <1>1, <1>2, <1>8, <3>1, StreamingEmits DEF IInv, SortedOut
  <2>8. QED
    BY <1>8, <2>5, <2>6, <2>7 DEF Streaming, Ordered
<1>9. ASSUME mode \notin {"Ordered", "StreamingOrdered"} PROVE Streaming' /\ Ordered' /\ SortedOut'
  BY <1>9 DEF Streaming, Ordered, SortedOut
<1>10. Conservation'
  <2>1. slots \cap microBatch = {} /\ IsFiniteSet(microBatch)
    BY <1>1, Basics DEF IInv, Modal
  <2>2. Cardinality(Held) = Cardinality(slots) + Cardinality(microBatch)
    BY <1>1, <2>1, DisjointUnion DEF Held
  <2>3. Len(emitted') = Len(emitted) + (Cardinality(slots) + Cardinality(microBatch))
    BY <1>1, <1>2, <2>2, Basics, Emission
  <2>4. Cardinality(slots') = 0 /\ Cardinality(microBatch') = 0
    BY <1>2, FS_EmptySet
  <2>5. QED
    BY <2>3, <2>4, Accounts DEF Conservation
<1>11. QED
  BY <1>4, <1>5, <1>7, <1>8, <1>9, <1>10 DEF IInv

\* The window timer empties an open micro-batch.
LEMMA FlushMicroBatchStep ==
  ASSUME IInv, mode = "MicroBatch", FlushMicroBatch,
         UNCHANGED <<slots, streamingWatermarks, streamingPending, mode, currentSlot, seq,
                     orderedLateDrops, ignored>>
  PROVE  IInv'
<1>1. TypeOK /\ microBatch \subseteq Batches /\ IsFiniteSet(microBatch)
  BY Basics DEF IInv
<1>2. /\ Emit(microBatch) /\ microBatch' = {} /\ windowOver' = FALSE /\ idle' = FALSE
  BY DEF FlushMicroBatch
<1>3. TypeOK'
  <2>1. microBatch' \subseteq Batches /\ IsFiniteSet(microBatch')
    BY <1>2, FS_EmptySet
  <2>2. /\ orderedWatermark' \in [slot : Slots, txIndex : TxIndexes] \cup {NoWatermark}
        /\ emitted' \in Seq(Batches)
    BY <1>1, <1>2, Basics, Emission, WatermarkFrom
  <2>3. /\ currentSlot' \in Slots \cup {0} /\ seq' \in Nat /\ orderedLateDrops' \in Nat
        /\ ignored' \in Nat /\ slots' \subseteq Batches /\ IsFiniteSet(slots')
        /\ streamingPending' \subseteq TxIndexes /\ MarksOf(streamingWatermarks', currentSlot')
    BY <1>1, Basics DEF TypeOK
  <2>4. QED
    BY <1>1, <1>2, <2>1, <2>2, <2>3, TypeFrom
<1>4. Modal'
  BY <1>2 DEF IInv, Modal, Held
<1>5. Streaming' /\ Ordered' /\ SortedOut'
  BY DEF Streaming, Ordered, SortedOut
<1>6. Conservation'
  <2>1. Len(emitted') = Len(emitted) + Cardinality(microBatch) /\ Cardinality(microBatch') = 0
    BY <1>1, <1>2, Basics, Emission, FS_EmptySet
  <2>2. QED
    BY <2>1, Accounts DEF Conservation
<1>7. QED
  BY <1>3, <1>4, <1>5, <1>6 DEF IInv

\* The clock is no part of the invariant beyond its type.
LEMMA ClockStep ==
  ASSUME IInv, idle' \in {idle, TRUE}, windowOver' \in {windowOver, TRUE},
         UNCHANGED <<mode, slots, streamingWatermarks, streamingPending, microBatch, currentSlot,
                     seq, orderedWatermark, orderedLateDrops, emitted, ignored>>
  PROVE  IInv'
<1>1. TypeOK'
  <2>1. {idle', windowOver'} \subseteq BOOLEAN
    BY DEF IInv, TypeOK
  <2>2. QED
    BY <2>1 DEF IInv, TypeOK, Held
<1>2. Modal' /\ Conservation'
  BY DEF IInv, Modal, Conservation, Held
<1>3. Streaming' /\ Ordered' /\ SortedOut'
  BY DEF IInv, Streaming, PassedBy, Ordered, SortedOut
<1>4. QED
  BY <1>1, <1>2, <1>3 DEF IInv

LEMMA NextIInv == IInv /\ [Next]_vars => IInv'
<1> SUFFICES ASSUME IInv, [Next]_vars PROVE IInv'
  OBVIOUS
<1>1. ASSUME NEW slot \in Slots, NEW txIndex \in TxIndexes, PushTransactionEvents(slot, txIndex)
      PROVE  IInv'
  BY <1>1, PushStep
<1>2. CASE TimeoutPasses
  BY <1>2, ClockStep DEF TimeoutPasses
<1>3. CASE WindowPasses
  BY <1>3, ClockStep DEF WindowPasses
<1>4. CASE FlushDue
  <2>1. UNCHANGED <<mode, currentSlot, seq, orderedLateDrops, ignored>>
    BY <1>4 DEF FlushDue
  <2>2. CASE /\ mode \in {"Ordered", "StreamingOrdered"} /\ FlushHeld(slots)
             /\ UNCHANGED <<microBatch, windowOver>>
    <3>1. microBatch = {} /\ Held = slots
      BY <2>2 DEF IInv, Modal, Held
    <3>2. QED
      BY <2>1, <2>2, <3>1, FlushHeldStep
  <2>3. CASE /\ mode = "MicroBatch" /\ FlushMicroBatch
             /\ UNCHANGED <<slots, streamingWatermarks, streamingPending>>
    BY <2>1, <2>3, FlushMicroBatchStep
  <2>4. QED
    BY <1>4, <2>2, <2>3 DEF FlushDue
<1>5. CASE FlushAll
  BY <1>5, FlushHeldStep DEF FlushAll, Held
<1>6. CASE UNCHANGED vars
  BY <1>6, ClockStep DEF vars
<1>7. QED
  BY <1>1, <1>2, <1>3, <1>4, <1>5, <1>6 DEF Next

LEMMA Invariant == Spec => []IInv
BY InitIInv, NextIInv, PTL DEF Spec

(***************************************************************************)
(* The theorems                                                            *)
(***************************************************************************)

\* Type correctness, for any number of arrivals; with it: the map of watermarks
\* never names more than the current slot and slot 0.
THEOREM TypeCorrect == Spec => []TypeOK
BY Invariant, PTL DEF IInv

\* No transaction vanishes, in any mode and however the timers fire: each one is
\* emitted, held, counted as late, or ignored, and only one of these.
THEOREM Accounted == Spec => []Conservation
BY Invariant, PTL DEF IInv

\* Ordered emits in compareBatch order over the whole run, on every chain.
OrderedSorted ==
  mode = "Ordered" =>
    \A i, j \in 1 .. Len(emitted) : i < j => Before(emitted[i], emitted[j])

THEOREM OrderedIsSorted == Spec => []OrderedSorted
<1>1. IInv => OrderedSorted
  BY DEF IInv, SortedOut, OrderedSorted
<1>2. QED
  BY <1>1, Invariant, PTL

\* Once the genesis slot is over, StreamingOrdered emits in order as well, and no
\* position twice.
THEOREM SortedEmission == ASSUME 0 \notin Slots PROVE Spec => []EmissionOrdered
<1>1. IInv => EmissionOrdered
  BY Basics DEF IInv, SortedOut, EmissionOrdered
<1>2. QED
  BY <1>1, Invariant, PTL

\* The buffer of StreamingOrdered holds what pending says, each index once and
\* none that is due: on every chain.
LEMMA BehindGap == IInv => HeldBehindGap
<1> SUFFICES ASSUME IInv, mode = "StreamingOrdered" PROVE HeldBehindGap
  BY DEF HeldBehindGap
<1> DEFINE here == Of(slots, currentSlot)
<1>1. HeldFor(slots, streamingPending, streamingWatermarks, currentSlot)
  BY DEF IInv, Streaming
<1>2. here \subseteq Batches /\ IsFiniteSet(here)
  BY Basics, FS_Subset DEF IInv, Of
<1>3. here = {b \in slots : b.slot = currentSlot}
  BY DEF Of
<1>4. /\ streamingPending = {b.txIndex : b \in here}
      /\ \A a, b \in here : a.txIndex = b.txIndex => a = b
      /\ \A b \in here : b.txIndex > NextIndex(streamingWatermarks, currentSlot)
  BY <1>1 DEF HeldFor
<1> HIDE DEF here
<1>5. Cardinality(streamingPending) = Cardinality(here)
  BY <1>2, <1>4, Positions
<1>6. QED
  BY <1>3, <1>4, <1>5 DEF HeldBehindGap

\* What is held is typed, ahead of everything the user has seen, and held behind a
\* gap: a timeout or the end of the subscription can always emit it in order.
THEOREM SoundBuffer == ASSUME 0 \notin Slots PROVE Spec => []BufferSound
<1>1. ASSUME IInv, mode = "Ordered" PROVE HeldAhead
  <2>1. /\ \A i \in 1 .. Len(emitted) : ~Earlier(orderedWatermark, emitted[i])
        /\ \A b \in slots : Earlier(orderedWatermark, b)
    BY <1>1 DEF IInv, Ordered
  <2>2. /\ slots \subseteq Batches /\ DOMAIN emitted = 1 .. Len(emitted)
        /\ \A i \in 1 .. Len(emitted) : emitted[i] \in Batches
        /\ orderedWatermark.slot \in Int /\ orderedWatermark.txIndex \in Int
    BY <1>1, Basics DEF IInv
  <2>3. ASSUME NEW b \in slots, NEW i \in DOMAIN emitted PROVE Earlier(emitted[i], b)
    BY <2>1, <2>2, Divide
  <2>4. QED
    BY <2>3 DEF HeldAhead
<1>2. ASSUME IInv, mode = "StreamingOrdered" PROVE HeldAhead
  BY <1>2, HeldIsAhead, Basics DEF HeldAhead, IInv
<1>3. IInv => BufferSound
  BY <1>1, <1>2, BehindGap DEF HeldAhead, BufferSound, IInv
<1>4. QED
  BY <1>3, Invariant, PTL

(***************************************************************************)
(* A provider that delivers in order loses nothing                         *)
(***************************************************************************)

\* The transactions arrived in the order of the chain.
Rising == \A i, j \in DOMAIN arrived : i < j => Earlier(arrived[i], arrived[j])

\* The last arrival; before the first one a place ahead of every transaction.
Newest == IF arrived = <<>> THEN [slot |-> 0, txIndex |-> -1] ELSE arrived[Len(arrived)]

\* As long as arrivals rise, the dispatcher follows the newest of them: its slot is
\* the current one, and neither a buffer nor a watermark is ahead of it.  So the
\* next arrival is neither late nor a repetition.
Follows ==
  /\ orderedLateDrops = 0 /\ ignored = 0
  /\ mode \in {"Ordered", "StreamingOrdered"} => currentSlot = Newest.slot
  /\ mode = "Ordered" => /\ ~Earlier(Newest, orderedWatermark)
                         /\ \A x \in slots : ~Earlier(Newest, x)
  /\ mode = "StreamingOrdered" =>
       /\ NextIndex(streamingWatermarks, currentSlot) <= Newest.txIndex + 1
       /\ \A x \in Of(slots, currentSlot) : x.txIndex <= Newest.txIndex

Kept == arrived \in Seq([slot : Slots, txIndex : TxIndexes]) /\ (Rising => Follows)

\* A rising arrival comes after the newest one and replaces it.
LEMMA ArrivalRises ==
  ASSUME Kept, NEW b, Arrives(b)
  PROVE  /\ arrived' \in Seq([slot : Slots, txIndex : TxIndexes])
         /\ Newest' = At(b)
         /\ Rising' => Rising /\ Earlier(Newest, b)
<1> DEFINE Places == [slot : Slots, txIndex : TxIndexes]
           n == Len(arrived)
<1>1. b.slot \in Slots /\ b.txIndex \in TxIndexes /\ At(b) \in Places
  BY DEF Arrives, Batches, At
<1>2. /\ arrived \in Seq(Places) /\ n \in Nat /\ DOMAIN arrived = 1 .. n
      /\ arrived' = Append(arrived, At(b))
  BY LenProperties DEF Kept, Arrives
<1>3. /\ arrived' \in Seq(Places) /\ Len(arrived') = n + 1 /\ DOMAIN arrived' = 1 .. n + 1
      /\ arrived'[n + 1] = At(b)
      /\ \A i \in 1 .. n : arrived'[i] = arrived[i]
  <2>1. At(b) \in Places
    BY <1>1
  <2> HIDE DEF Places
  <2>2. QED
    BY <1>2, <2>1, AppendProperties, LenProperties
<1>4. Newest' = At(b)
  BY <1>2, <1>3 DEF Newest
<1>5. ASSUME Rising' PROVE Rising
  BY <1>2, <1>3, <1>5 DEF Rising
<1>6. ASSUME Rising' PROVE Earlier(Newest, b)
  <2>1. CASE arrived = <<>>
    <3>1. b.slot \in Nat /\ b.txIndex \in Nat
      BY <1>1, DispatcherAssumption
    <3>2. Newest = [slot |-> 0, txIndex |-> -1]
      BY <2>1 DEF Newest
    <3>3. QED
      BY <3>1, <3>2 DEF Earlier
  <2>2. CASE arrived # <<>>
    <3>1. n \in 1 .. n /\ n + 1 \in 1 .. n + 1 /\ n < n + 1
      BY <1>2, <2>2, EmptySeq
    <3>2. Earlier(arrived'[n], arrived'[n + 1])
      BY <1>3, <1>6, <3>1 DEF Rising
    <3>3. Earlier(Newest, At(b))
      BY <1>3, <2>2, <3>1, <3>2 DEF Newest
    <3>4. QED
      BY <3>3 DEF Earlier, At
  <2>3. QED
    BY <2>1, <2>2
<1>7. QED
  BY <1>3, <1>4, <1>5, <1>6

\* Places that can be compared.
LEMMA NewestIsPlace ==
  ASSUME Kept
  PROVE  Newest.slot \in Nat /\ Newest.txIndex \in Int
<1>1. CASE arrived = <<>>
  BY <1>1 DEF Newest
<1>2. CASE arrived # <<>>
  <2>1. Len(arrived) \in 1 .. Len(arrived)
    BY <1>2, EmptySeq, LenProperties DEF Kept
  <2>2. arrived[Len(arrived)] \in [slot : Slots, txIndex : TxIndexes]
    BY <2>1, ElementOfSeq DEF Kept
  <2>3. Newest.slot \in Slots /\ Newest.txIndex \in TxIndexes
    BY <1>2, <2>2 DEF Newest
  <2>4. Newest.slot \in Nat /\ Newest.txIndex \in Nat
    BY <2>3, DispatcherAssumption
  <2>5. QED
    BY <2>4
<1>3. QED
  BY <1>1, <1>2

\* What StreamingOrdered knows of a rising arrival: its slot is not over, its index
\* is due or ahead, and ahead of all that is held for its slot.
LEMMA RisingReady ==
  ASSUME IInv, Kept, Follows, mode = "StreamingOrdered", NEW b \in Batches, Earlier(Newest, b)
  PROVE  /\ ~(b.slot < currentSlot) /\ Expected(b) \in Nat /\ Expected(b) <= b.txIndex
         /\ \A x \in Of(StillHeld(b), b.slot) : x.txIndex < b.txIndex
         /\ b.txIndex \notin PendingFor(b)
<1>1. /\ b.slot \in Nat /\ b.txIndex \in Nat /\ currentSlot \in Nat
      /\ MarksOf(streamingWatermarks, currentSlot)
      /\ Newest.slot \in Nat /\ Newest.txIndex \in Int /\ currentSlot = Newest.slot
      /\ \A x \in slots : x.txIndex \in Nat
  BY Basics, NewestIsPlace DEF IInv, Follows
<1>2. ~(b.slot < currentSlot)
  BY <1>1 DEF Earlier
<1>3. Expected(b) \in Nat /\ PendingFor(b) = {x.txIndex : x \in Of(StillHeld(b), b.slot)}
  BY <1>2, StreamingReady DEF HeldFor
<1>4. CASE Newer(b)
  <2>1. PendingFor(b) = {}
    BY <1>4 DEF PendingFor
  <2>2. Of(StillHeld(b), b.slot) = {}
    BY <1>3, <2>1
  <2>3. b.slot \notin DOMAIN MarksFor(b)
    <3>1. b.slot \notin DOMAIN streamingWatermarks
      BY <1>1, <1>4 DEF Newer, MarksOf
    <3>2. QED
      BY <3>1 DEF MarksFor, Without
  <2>4. Expected(b) = 0
    BY <2>3 DEF Expected, NextIndex
  <2>5. QED
    BY <1>1, <1>2, <2>1, <2>2, <2>4
<1>5. CASE ~Newer(b)
  <2>1. b.slot = currentSlot /\ Newest.txIndex < b.txIndex
    BY <1>1, <1>2, <1>5 DEF Newer, Earlier
  <2>2. StillHeld(b) = slots /\ MarksFor(b) = streamingWatermarks
    BY <1>5 DEF StillHeld, Flushed, Flushing, MarksFor
  <2>3. /\ Expected(b) <= Newest.txIndex + 1
        /\ \A x \in Of(StillHeld(b), b.slot) : x.txIndex <= Newest.txIndex /\ x.txIndex \in Nat
    BY <1>1, <2>1, <2>2 DEF Follows, Expected, Of
  <2>4. \A x \in Of(StillHeld(b), b.slot) : x.txIndex < b.txIndex
    BY <1>1, <2>1, <2>3
  <2>5. QED
    BY <1>1, <1>2, <1>3, <2>1, <2>3, <2>4
<1>6. QED
  BY <1>4, <1>5

LEMMA StreamingFollows ==
  ASSUME IInv, Kept, Follows, NEW b, Arrives(b), PushStreaming(b), Earlier(Newest, b)
  PROVE  Follows'
<1>1. mode = "StreamingOrdered" /\ b \in Batches /\ b.slot \in Nat /\ b.txIndex \in Nat
  BY ArrivalIsNew, Basics DEF IInv, PushStreaming
<1>2. /\ ~(b.slot < currentSlot) /\ Expected(b) \in Nat /\ Expected(b) <= b.txIndex
      /\ \A x \in Of(StillHeld(b), b.slot) : x.txIndex < b.txIndex
      /\ b.txIndex \notin PendingFor(b)
  BY <1>1, RisingReady
<1>3. /\ Newest'.slot = b.slot /\ Newest'.txIndex = b.txIndex
      /\ orderedLateDrops = 0 /\ ignored = 0
  BY ArrivalRises DEF At, Follows
<1>4. StreamingJoins(b) /\ (StreamingDue(b) \/ StreamingEarly(b))
  <2>1. ~StreamingLate(b)
    BY <1>2 DEF StreamingLate
  <2>2. ~StreamingRepeated(b)
    BY <1>1, <1>2 DEF StreamingRepeated
  <2>3. StreamingDue(b) \/ StreamingEarly(b)
    BY <2>1, <2>2, StreamingCases
  <2>4. QED
    BY <2>3 DEF StreamingDue, StreamingEarly
<1>5. currentSlot' = b.slot /\ mode' = mode /\ orderedLateDrops' = orderedLateDrops
  BY <1>4, Joined
<1>6. CASE StreamingDue(b)
  <2>1. Freed(b) = {}
    <3>1. Freed(b) \subseteq Of(StillHeld(b), b.slot)
      BY <1>1, <1>2, FreedAreNext
    <3>2. \A x \in Freed(b) : x.txIndex \in Nat /\ x.txIndex > b.txIndex
      BY <1>1, <1>2, <1>6, FreedAreNext DEF StreamingDue
    <3>3. ASSUME NEW x \in Freed(b) PROVE FALSE
      <4>1. x.txIndex < b.txIndex /\ x.txIndex > b.txIndex /\ x.txIndex \in Nat
        BY <1>2, <3>1, <3>2
      <4>2. QED
        BY <1>1, <4>1
    <3>4. QED
      BY <3>3
  <2>2. NextIndex(streamingWatermarks', b.slot) = b.txIndex + 1
    <3>1. Cardinality(Freed(b)) = 0
      BY <2>1, FS_EmptySet
    <3>2. QED
      BY <1>1, <1>6, <3>1 DEF StreamingDue, WithMark, NextIndex
  <2>3. slots' = StillHeld(b) /\ ignored' = ignored
    BY <1>6, <2>1 DEF StreamingDue
  <2>4. \A x \in Of(slots', b.slot) : x.txIndex <= b.txIndex
    <3>1. \A x \in Of(StillHeld(b), b.slot) : x.txIndex \in Nat
      BY Basics DEF IInv, Of, StillHeld
    <3>2. QED
      BY <1>1, <1>2, <2>3, <3>1
  <2>5. QED
    BY <1>1, <1>3, <1>5, <2>2, <2>3, <2>4 DEF Follows
<1>7. CASE StreamingEarly(b)
  <2>1. /\ NextIndex(streamingWatermarks', b.slot) = Expected(b) /\ ignored' = ignored
        /\ slots' = StillHeld(b) \cup {b}
    BY <1>7 DEF StreamingEarly, Expected
  <2>2. \A x \in Of(slots', b.slot) : x.txIndex <= b.txIndex
    <3>1. \A x \in Of(StillHeld(b), b.slot) : x.txIndex \in Nat
      BY Basics DEF IInv, Of, StillHeld
    <3>2. Of(slots', b.slot) \subseteq Of(StillHeld(b), b.slot) \cup {b}
      BY <2>1 DEF Of
    <3>3. QED
      BY <1>1, <1>2, <3>1, <3>2
  <2>3. Expected(b) <= b.txIndex + 1
    BY <1>1, <1>2
  <2>4. QED
    BY <1>1, <1>3, <1>5, <2>1, <2>2, <2>3 DEF Follows
<1>8. QED
  BY <1>4, <1>6, <1>7

LEMMA OrderedFollows ==
  ASSUME IInv, Kept, Follows, NEW b, Arrives(b), PushOrdered(b), Earlier(Newest, b)
  PROVE  Follows'
<1>1. /\ mode = "Ordered" /\ mode' = mode /\ b \in Batches /\ b.slot \in Nat /\ b.txIndex \in Nat
      /\ currentSlot \in Nat /\ currentSlot = Newest.slot
      /\ Newest.slot \in Nat /\ Newest.txIndex \in Int
      /\ orderedWatermark.slot \in Int /\ orderedWatermark.txIndex \in Int
  BY ArrivalIsNew, Basics, NewestIsPlace DEF IInv, PushOrdered, Follows
<1>2. /\ Newest'.slot = b.slot /\ Newest'.txIndex = b.txIndex
      /\ orderedLateDrops = 0 /\ ignored = 0
  BY ArrivalRises DEF At, Follows
<1>3. ~Earlier(b, orderedWatermark) /\ ~Late(b)
  BY <1>1 DEF Follows, Earlier, Late
<1>4. OrderedKeeps(b)
  BY <1>3, OrderedCases DEF OrderedLate
<1>5. currentSlot' = b.slot
  BY <1>1, <1>4 DEF OrderedKeeps, Newer, Earlier
<1>6. \A x \in slots : x.slot \in Nat /\ x.txIndex \in Nat /\ ~Earlier(b, x)
  BY <1>1, Basics DEF IInv, Follows, Earlier
<1>7. ~Earlier(b, orderedWatermark')
  <2>1. Flushed(b) \subseteq slots /\ Flushed(b) \subseteq Batches /\ IsFiniteSet(Flushed(b))
    BY FlushedIsHeld
  <2>2. Emit(Flushed(b)) /\ emitted \in Seq(Batches)
    BY <1>4, Basics DEF OrderedKeeps, IInv
  <2>3. \/ orderedWatermark' = orderedWatermark
        \/ \E x \in slots : orderedWatermark' = At(x)
    BY <1>1, <2>1, <2>2, Emission
  <2>4. QED
    BY <1>3, <1>6, <2>3 DEF At, Earlier
<1>8. \A x \in slots' : ~Earlier(b, x)
  <2>1. slots' \subseteq slots \cup {b}
    BY <1>4 DEF OrderedKeeps, StillHeld
  <2>2. QED
    BY <1>1, <1>6, <2>1 DEF Earlier
<1>9. orderedLateDrops' = 0 /\ ignored' = 0
  BY <1>2, <1>4 DEF OrderedKeeps
<1>10. QED
  BY <1>1, <1>2, <1>5, <1>7, <1>8, <1>9 DEF Follows, Earlier

\* Emitting what is held does not run ahead of the newest arrival.
LEMMA FlushFollows ==
  ASSUME IInv, Kept, Follows, mode \in {"Ordered", "StreamingOrdered"}, FlushHeld(slots),
         UNCHANGED <<mode, currentSlot, orderedLateDrops, arrived, ignored>>
  PROVE  Follows'
<1>1. /\ emitted \in Seq(Batches) /\ slots \subseteq Batches /\ IsFiniteSet(slots)
      /\ \A x \in slots : x.txIndex \in Nat
      /\ Newest.slot \in Nat /\ Newest.txIndex \in Int /\ Newest' = Newest
  BY Basics, NewestIsPlace DEF IInv, Newest
<1>2. slots' = {} /\ Emit(slots) /\ streamingWatermarks' = FlushedMarks(slots)
  BY DEF FlushHeld
<1>3. ASSUME mode = "Ordered" PROVE ~Earlier(Newest, orderedWatermark')
  <2>1. \/ orderedWatermark' = orderedWatermark
        \/ \E x \in slots : orderedWatermark' = At(x)
    BY <1>1, <1>2, Emission
  <2>2. QED
    BY <1>3, <2>1 DEF Follows, At, Earlier
<1>4. ASSUME mode = "StreamingOrdered"
      PROVE  NextIndex(streamingWatermarks', currentSlot) <= Newest.txIndex + 1
  <2>1. NextIndex(streamingWatermarks', currentSlot)
          \in {x.txIndex + 1 : x \in Of(slots, currentSlot)}
                \cup {NextIndex(streamingWatermarks, currentSlot)}
    BY <1>2, <1>4, FlushMarks
  <2>2. /\ NextIndex(streamingWatermarks, currentSlot) <= Newest.txIndex + 1
        /\ \A x \in Of(slots, currentSlot) : x.txIndex <= Newest.txIndex
    BY <1>4 DEF Follows
  <2>3. \A x \in Of(slots, currentSlot) : x.txIndex \in Nat
    BY <1>1 DEF Of
  <2>4. QED
    BY <1>1, <2>1, <2>2, <2>3
<1>5. QED
  BY <1>1, <1>2, <1>3, <1>4 DEF Follows, Of

LEMMA NextKept == IInv /\ Kept /\ [Next]_vars => Kept'
<1> SUFFICES ASSUME IInv, Kept, [Next]_vars PROVE Kept'
  OBVIOUS
<1>1. ASSUME NEW slot \in Slots, NEW txIndex \in TxIndexes, PushTransactionEvents(slot, txIndex)
      PROVE  Kept'
  <2> DEFINE b == Batch(slot, txIndex)
  <2>1. b \in Batches /\ b.slot = slot /\ b.txIndex = txIndex
    BY Basics DEF IInv, Batch, Batches
  <2>2. Arrives(b) /\ (PushUnordered(b) \/ PushOrdered(b) \/ PushStreaming(b) \/ PushMicroBatch(b))
    BY <1>1, <2>1 DEF PushTransactionEvents, Arrives, At
  <2> HIDE DEF b
  <2>3. SUFFICES ASSUME Rising' PROVE Follows'
    BY <2>2, ArrivalRises DEF Kept
  <2>4. Follows /\ Earlier(Newest, b)
    BY <2>2, <2>3, ArrivalRises DEF Kept
  <2>5. CASE PushUnordered(b) \/ PushMicroBatch(b)
    BY <2>2, <2>4, <2>5 DEF PushUnordered, PushMicroBatch, Arrives, Follows
  <2>6. QED
    BY <2>2, <2>4, <2>5, OrderedFollows, StreamingFollows
<1>2. CASE TimeoutPasses \/ WindowPasses \/ UNCHANGED vars
  BY <1>2 DEF TimeoutPasses, WindowPasses, vars, Kept, Rising, Follows, Newest
<1>3. ASSUME arrived' = arrived, Follows => Follows' PROVE Kept'
  BY <1>3 DEF Kept, Rising
<1>4. CASE FlushDue
  <2>1. UNCHANGED <<mode, currentSlot, orderedLateDrops, arrived, ignored>>
    BY <1>4 DEF FlushDue
  <2>2. ASSUME Follows PROVE Follows'
    <3>1. CASE mode \in {"Ordered", "StreamingOrdered"}
      BY <1>4, <2>1, <2>2, <3>1, FlushFollows DEF FlushDue
    <3>2. CASE mode \notin {"Ordered", "StreamingOrdered"}
      BY <2>1, <2>2, <3>2 DEF Follows
    <3>3. QED
      BY <3>1, <3>2
  <2>3. QED
    BY <1>3, <2>1, <2>2
<1>5. CASE FlushAll
  <2>1. UNCHANGED <<mode, currentSlot, orderedLateDrops, arrived, ignored>>
    BY <1>5 DEF FlushAll
  <2>2. ASSUME Follows PROVE Follows'
    <3>1. CASE mode \in {"Ordered", "StreamingOrdered"}
      <4>1. slots \cup microBatch = slots
        BY <3>1 DEF IInv, Modal
      <4>2. FlushHeld(slots)
        BY <1>5, <4>1 DEF FlushAll
      <4>3. QED
        BY <2>1, <2>2, <3>1, <4>2, FlushFollows
    <3>2. CASE mode \notin {"Ordered", "StreamingOrdered"}
      BY <2>1, <2>2, <3>2 DEF Follows
    <3>3. QED
      BY <3>1, <3>2
  <2>3. QED
    BY <1>3, <2>1, <2>2
<1>6. QED
  BY <1>1, <1>2, <1>4, <1>5 DEF Next

LEMMA InitKept == Init => Kept
<1> SUFFICES ASSUME Init PROVE Kept
  OBVIOUS
<1>1. arrived \in Seq([slot : Slots, txIndex : TxIndexes])
  BY EmptySeq DEF Init
<1>2. Newest = [slot |-> 0, txIndex |-> -1]
  BY DEF Init, Newest
<1>3. QED
  BY <1>1, <1>2 DEF Init, Kept, Follows, Earlier, NoWatermark, NextIndex, Of

\* A provider that delivers in order loses nothing, for every schedule of the
\* timers, on every chain and in every mode: StreamingOrdered ignores nothing and
\* Ordered counts no transaction as late.
THEOREM InOrderLosesNothing == Spec => []InOrderArrivalsKept
<1>1. Kept => InOrderArrivalsKept
  BY DEF Kept, Rising, Follows, InOrderArrivalsKept
<1>2. Spec => []Kept
  BY InitKept, NextKept, Invariant, PTL DEF Spec
<1>3. QED
  BY <1>1, <1>2, PTL
===============================================================================
