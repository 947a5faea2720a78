------------------------ MODULE AsyncEventQueue_proofs ------------------------
(***************************************************************************)
(* Proofs about AsyncEventQueue, for a ring of every size and for both     *)
(* overflow strategies.                                                    *)
(***************************************************************************)
EXTENDS AsyncEventQueue, FiniteSetTheorems, SequenceTheorems, TLAPS

(***************************************************************************)
(* How the numbers already served and those that still wait stay in order  *)
(* when the first that waits is served, when another comes to wait and     *)
(* when some are given up: the argument behind first in, first out.        *)
(***************************************************************************)

\* s grows from place to place.
Increasing(s) == \A i, j \in 1 .. Len(s) : i < j => s[i] < s[j]

\* The same with the zeros left out.
IncreasingButZeros(s) ==
  \A i, j \in 1 .. Len(s) : i < j /\ 0 \notin {s[i], s[j]} => s[i] < s[j]

\* Every number of s lies below every number of q.
Below(s, q) == \A i \in 1 .. Len(s), j \in 1 .. Len(q) : s[i] < q[j]

\* No number of s is above n.
Capped(s, n) == \A i \in 1 .. Len(s) : s[i] <= n

\* A number above all others may be appended to an increasing list.
LEMMA AppendAbove ==
  ASSUME NEW s \in Seq(Nat), NEW x \in Nat, Increasing(s), \A i \in 1 .. Len(s) : s[i] < x
  PROVE  Increasing(Append(s, x)) /\ Capped(Append(s, x), x)
<1> DEFINE u == Append(s, x)
<1>1. /\ Len(s) \in Nat /\ Len(u) = Len(s) + 1 /\ u[Len(s) + 1] = x
      /\ \A i \in 1 .. Len(s) : u[i] = s[i] /\ s[i] \in Nat
  BY AppendProperties, ElementOfSeq, LenProperties
<1> HIDE DEF u
<1>2. ASSUME NEW i \in 1 .. Len(u), NEW j \in 1 .. Len(u), i < j PROVE u[i] < u[j]
  <2>1. i \in 1 .. Len(s)
    BY <1>1, <1>2
  <2>2. CASE j = Len(s) + 1
    BY <1>1, <2>1, <2>2
  <2>3. CASE j \in 1 .. Len(s)
    BY <1>1, <1>2, <2>1, <2>3 DEF Increasing
  <2>4. QED
    BY <1>1, <2>2, <2>3
<1>3. ASSUME NEW i \in 1 .. Len(u) PROVE u[i] <= x
  <2>1. CASE i = Len(s) + 1
    BY <1>1, <2>1
  <2>2. CASE i \in 1 .. Len(s)
    <3>1. u[i] = s[i] /\ s[i] \in Nat /\ s[i] < x
      BY <1>1, <2>2
    <3>2. QED
      BY <3>1
  <2>3. QED
    BY <1>1, <2>1, <2>2
<1>4. QED
  BY <1>2, <1>3 DEF u, Increasing, Capped

\* What remains of an increasing list without its first number is increasing, and
\* lies above that number.
LEMMA TailAbove ==
  ASSUME NEW q \in Seq(Nat), q # <<>>, Increasing(q)
  PROVE  /\ Increasing(Tail(q))
         /\ \A j \in 1 .. Len(Tail(q)) : Head(q) < Tail(q)[j]
<1> DEFINE p == Tail(q)
<1>1. /\ Head(q) = q[1] /\ Len(q) \in Nat \ {0} /\ Len(p) = Len(q) - 1
      /\ \A i \in 1 .. Len(p) : p[i] = q[i + 1]
  BY HeadTailProperties, EmptySeq
<1> HIDE DEF p
<1>2. ASSUME NEW i \in 1 .. Len(p), NEW j \in 1 .. Len(p), i < j PROVE p[i] < p[j]
  <2>1. i + 1 \in 1 .. Len(q) /\ j + 1 \in 1 .. Len(q) /\ i + 1 < j + 1
    BY <1>1, <1>2
  <2>2. q[i + 1] < q[j + 1]
    BY <2>1 DEF Increasing
  <2>3. QED
    BY <1>1, <2>2
<1>3. ASSUME NEW j \in 1 .. Len(p) PROVE q[1] < p[j]
  <2>1. 1 \in 1 .. Len(q) /\ j + 1 \in 1 .. Len(q) /\ 1 < j + 1
    BY <1>1
  <2>2. q[1] < q[j + 1]
    BY <2>1 DEF Increasing
  <2>3. QED
    BY <1>1, <2>2
<1>4. QED
  BY <1>1, <1>2, <1>3 DEF p, Increasing

\* A number at or above all others, or zero, may be appended to a list that is
\* increasing but for zeros.
LEMMA AppendButZeros ==
  ASSUME NEW s \in Seq(Nat), NEW x \in Nat, IncreasingButZeros(s),
         x = 0 \/ \A i \in 1 .. Len(s) : s[i] < x
  PROVE  IncreasingButZeros(Append(s, x))
<1> DEFINE u == Append(s, x)
<1>1. /\ Len(s) \in Nat /\ Len(u) = Len(s) + 1 /\ u[Len(s) + 1] = x
      /\ \A i \in 1 .. Len(s) : u[i] = s[i] /\ s[i] \in Nat
  BY AppendProperties, ElementOfSeq, LenProperties
<1> HIDE DEF u
<1>2. ASSUME NEW i \in 1 .. Len(u), NEW j \in 1 .. Len(u), i < j, 0 \notin {u[i], u[j]}
      PROVE  u[i] < u[j]
  <2>1. i \in 1 .. Len(s)
    BY <1>1, <1>2
  <2>2. CASE j = Len(s) + 1
    BY <1>1, <1>2, <2>1, <2>2
  <2>3. CASE j \in 1 .. Len(s)
    <3>1. u[i] = s[i] /\ u[j] = s[j]
      BY <1>1, <2>1, <2>3
    <3>2. QED
      BY <1>2, <2>1, <2>3, <3>1 DEF IncreasingButZeros
  <2>4. QED
    BY <1>1, <2>2, <2>3
<1>3. QED
  BY <1>2 DEF u, IncreasingButZeros

\* Appending to the lower list, appending to the upper one, and taking the first
\* of the upper one.
LEMMA BelowSteps ==
  ASSUME NEW s \in Seq(Nat), NEW q \in Seq(Nat), NEW x \in Nat, Below(s, q)
  PROVE  /\ (\A j \in 1 .. Len(q) : x < q[j]) => Below(Append(s, x), q)
         /\ (\A i \in 1 .. Len(s) : s[i] < x) => Below(s, Append(q, x))
         /\ q # <<>> => Below(s, Tail(q))
<1>1. ASSUME \A j \in 1 .. Len(q) : x < q[j],
             NEW i \in 1 .. Len(Append(s, x)), NEW j \in 1 .. Len(q)
      PROVE  Append(s, x)[i] < q[j]
  <2>1. /\ Len(s) \in Nat /\ Len(Append(s, x)) = Len(s) + 1 /\ Append(s, x)[Len(s) + 1] = x
        /\ \A k \in 1 .. Len(s) : Append(s, x)[k] = s[k]
    BY AppendProperties, LenProperties
  <2>2. CASE i = Len(s) + 1
    BY <1>1, <2>1, <2>2
  <2>3. CASE i \in 1 .. Len(s)
    BY <2>1, <2>3 DEF Below
  <2>4. QED
    BY <2>1, <2>2, <2>3
<1>2. ASSUME \A i \in 1 .. Len(s) : s[i] < x,
             NEW i \in 1 .. Len(s), NEW j \in 1 .. Len(Append(q, x))
      PROVE  s[i] < Append(q, x)[j]
  <2>1. /\ Len(q) \in Nat /\ Len(Append(q, x)) = Len(q) + 1 /\ Append(q, x)[Len(q) + 1] = x
        /\ \A k \in 1 .. Len(q) : Append(q, x)[k] = q[k]
    BY AppendProperties, LenProperties
  <2>2. CASE j = Len(q) + 1
    BY <1>2, <2>1, <2>2
  <2>3. CASE j \in 1 .. Len(q)
    BY <2>1, <2>3 DEF Below
  <2>4. QED
    BY <2>1, <2>2, <2>3
<1>3. ASSUME q # <<>>, NEW i \in 1 .. Len(s), NEW j \in 1 .. Len(Tail(q))
      PROVE  s[i] < Tail(q)[j]
  <2>1. /\ Len(q) \in Nat \ {0} /\ Len(Tail(q)) = Len(q) - 1
        /\ \A k \in 1 .. Len(Tail(q)) : Tail(q)[k] = q[k + 1]
    BY <1>3, HeadTailProperties, EmptySeq
  <2>2. Tail(q)[j] = q[j + 1] /\ j + 1 \in 1 .. Len(q)
    BY <2>1
  <2>3. QED
    BY <2>2 DEF Below
<1>4. QED
  BY <1>1, <1>2, <1>3 DEF Below

\* Caps: appending a number under the cap, taking the first, raising the cap.
LEMMA CappedSteps ==
  ASSUME NEW s \in Seq(Nat), NEW n \in Nat, Capped(s, n)
  PROVE  /\ \A x \in Nat : x <= n => Capped(Append(s, x), n)
         /\ s # <<>> => Head(s) \in Nat /\ Head(s) <= n /\ Capped(Tail(s), n)
         /\ Capped(s, n + 1) /\ \A i \in 1 .. Len(s) : s[i] < n + 1
<1>0. \A i \in 1 .. Len(s) : s[i] \in Nat /\ s[i] <= n
  BY ElementOfSeq DEF Capped
<1>1. ASSUME NEW x \in Nat, x <= n, NEW i \in 1 .. Len(Append(s, x)) PROVE Append(s, x)[i] <= n
  <2>1. /\ Len(s) \in Nat /\ Len(Append(s, x)) = Len(s) + 1 /\ Append(s, x)[Len(s) + 1] = x
        /\ \A k \in 1 .. Len(s) : Append(s, x)[k] = s[k]
    BY AppendProperties, LenProperties
  <2>2. CASE i = Len(s) + 1
    BY <1>1, <2>1, <2>2
  <2>3. CASE i \in 1 .. Len(s)
    BY <1>0, <2>1, <2>3
  <2>4. QED
    BY <2>1, <2>2, <2>3
<1>2. ASSUME s # <<>>, NEW i \in 1 .. Len(Tail(s)) PROVE Tail(s)[i] <= n
  <2>1. /\ Len(s) \in Nat \ {0} /\ Len(Tail(s)) = Len(s) - 1
        /\ \A k \in 1 .. Len(Tail(s)) : Tail(s)[k] = s[k + 1]
    BY <1>2, HeadTailProperties, EmptySeq
  <2>2. Tail(s)[i] = s[i + 1] /\ i + 1 \in 1 .. Len(s)
    BY <2>1
  <2>3. QED
    BY <1>0, <2>2
<1>3. s # <<>> => Head(s) = s[1] /\ 1 \in 1 .. Len(s)
  BY HeadTailProperties, EmptySeq, LenProperties
<1>4. \A i \in 1 .. Len(s) : s[i] <= n + 1 /\ s[i] < n + 1
  BY <1>0
<1>5. QED
  BY <1>0, <1>1, <1>2, <1>3, <1>4 DEF Capped

\* The numbers s served and, above them, those that wait in q: both increase (s
\* but for zeros), none is above n, and no zero waits.
InOrder(q, s, n) ==
  /\ IncreasingButZeros(s)
  /\ Increasing(q)
  /\ Below(<<0>>, q)
  /\ Below(s, q)
  /\ Capped(s, n)
  /\ Capped(q, n)

\* The one-element list of zero, and the empty list.
LEMMA SmallLists ==
  /\ <<0>> \in Seq(Nat) /\ Len(<<0>>) = 1 /\ <<0>>[1] = 0
  /\ <<>> \in Seq(Nat) /\ Increasing(<<>>)
  /\ \A s, n : Below(s, <<>>) /\ Capped(<<>>, n)
BY DEF Increasing, Below, Capped

\* Zero lies below what is positive.
LEMMA ZeroBelow ==
  ASSUME NEW x \in Nat, 0 < x
  PROVE  \A i \in 1 .. Len(<<0>>) : <<0>>[i] < x
BY SmallLists

\* Serving the first that waits.
LEMMA ServeFirst ==
  ASSUME NEW q \in Seq(Nat), NEW s \in Seq(Nat), NEW n \in Nat, InOrder(q, s, n), q # <<>>
  PROVE  InOrder(Tail(q), Append(s, Head(q)), n) /\ 0 < Head(q)
<1>1. /\ Head(q) \in Nat /\ Head(q) <= n /\ Capped(Tail(q), n) /\ Capped(Append(s, Head(q)), n)
  BY CappedSteps DEF InOrder
<1>2. Increasing(Tail(q)) /\ \A j \in 1 .. Len(Tail(q)) : Head(q) < Tail(q)[j]
  BY TailAbove DEF InOrder
<1>3. Tail(q) \in Seq(Nat) /\ Head(q) = q[1] /\ 1 \in 1 .. Len(q)
  BY HeadTailProperties, EmptySeq, LenProperties
<1>4. \A i \in 1 .. Len(s) : s[i] < Head(q)
  BY <1>3 DEF InOrder, Below
<1>5. IncreasingButZeros(Append(s, Head(q)))
  BY <1>1, <1>4, AppendButZeros DEF InOrder
<1>6. Below(s, Tail(q)) /\ Below(<<0>>, Tail(q))
  BY <1>1, BelowSteps, SmallLists DEF InOrder
<1>7. Below(Append(s, Head(q)), Tail(q))
  BY <1>1, <1>2, <1>3, <1>6, BelowSteps
<1>8. 0 < Head(q)
  BY <1>3, SmallLists DEF InOrder, Below
<1>9. QED
  BY <1>1, <1>2, <1>5, <1>6, <1>7, <1>8 DEF InOrder

\* The next number comes to wait.
LEMMA Arrive ==
  ASSUME NEW q \in Seq(Nat), NEW s \in Seq(Nat), NEW n \in Nat, InOrder(q, s, n)
  PROVE  InOrder(Append(q, n + 1), s, n + 1)
<1> DEFINE x == n + 1
<1>1. /\ x \in Nat /\ Capped(s, x) /\ \A i \in 1 .. Len(s) : s[i] < x
      /\ \A i \in 1 .. Len(q) : q[i] < x
      /\ \A i \in 1 .. Len(<<0>>) : <<0>>[i] < x
  BY CappedSteps, SmallLists DEF InOrder
<1> HIDE DEF x
<1>2. Increasing(Append(q, x)) /\ Capped(Append(q, x), x)
  BY <1>1, AppendAbove DEF InOrder
<1>3. Below(s, Append(q, x)) /\ Below(<<0>>, Append(q, x))
  BY <1>1, BelowSteps, SmallLists DEF InOrder
<1>4. QED
  BY <1>1, <1>2, <1>3 DEF InOrder, x

\* Nobody waits: the next number may be served at once.
LEMMA ServeNext ==
  ASSUME NEW s \in Seq(Nat), NEW n \in Nat, InOrder(<<>>, s, n)
  PROVE  InOrder(<<>>, Append(s, n + 1), n + 1)
<1>1. Capped(s, n + 1) /\ \A i \in 1 .. Len(s) : s[i] < n + 1
  BY CappedSteps DEF InOrder
<1>2. Capped(Append(s, n + 1), n + 1)
  BY <1>1, CappedSteps
<1>3. IncreasingButZeros(Append(s, n + 1))
  BY <1>1, AppendButZeros DEF InOrder
<1>4. QED
  BY <1>2, <1>3, SmallLists DEF InOrder

\* A zero may be served at any time.
LEMMA ServeZero ==
  ASSUME NEW q \in Seq(Nat), NEW s \in Seq(Nat), NEW n \in Nat, InOrder(q, s, n)
  PROVE  InOrder(q, Append(s, 0), n)
<1>1. Capped(Append(s, 0), n)
  BY CappedSteps DEF InOrder
<1>2. IncreasingButZeros(Append(s, 0))
  BY AppendButZeros DEF InOrder
<1>3. \A j \in 1 .. Len(q) : 0 < q[j]
  BY SmallLists DEF InOrder, Below
<1>4. Below(Append(s, 0), q)
  BY <1>3, BelowSteps DEF InOrder
<1>5. QED
  BY <1>1, <1>2, <1>4 DEF InOrder

\* The first or all that wait may be given up, and a number may be skipped.
LEMMA GiveUp ==
  ASSUME NEW q \in Seq(Nat), NEW s \in Seq(Nat), NEW n \in Nat, InOrder(q, s, n)
  PROVE  /\ q # <<>> => InOrder(Tail(q), s, n)
         /\ InOrder(<<>>, s, n)
         /\ InOrder(q, s, n + 1)
<1>1. q # <<>> => Capped(Tail(q), n) /\ Increasing(Tail(q)) /\ Below(s, Tail(q)) /\ Below(<<0>>, Tail(q))
  BY CappedSteps, TailAbove, BelowSteps, SmallLists DEF InOrder
<1>2. Capped(q, n + 1) /\ Capped(s, n + 1)
  BY CappedSteps DEF InOrder
<1>3. QED
  BY <1>1, <1>2, SmallLists DEF InOrder

(***************************************************************************)
(* Type correctness                                                        *)
(***************************************************************************)

\* A position k places after slot h wraps at most once, and is a slot again.
LEMMA Wrap ==
  ASSUME NEW h \in Slots, NEW k \in 0 .. MaxSize
  PROVE  /\ (h + k) % MaxSize = IF h + k < MaxSize THEN h + k ELSE h + k - MaxSize
         /\ (h + k) % MaxSize \in Slots
BY QueueAssumption DEF Slots

\* The two indexes the code computes are slots of the ring.
LEMMA Indexes == TypeOK => WriteIndex \in Slots /\ (head + 1) % MaxSize \in Slots
BY Wrap, QueueAssumption DEF TypeOK, WriteIndex

\* What every push changes besides the branch it takes.
LEMMA PushFrame == Push => pushed' = pushed + 1 /\ UNCHANGED <<strategy, closed, asked, ended>>
BY DEF Push

\* The next item to be pushed is a number like every other.
LEMMA NextPush == TypeOK => pushed + 1 \in Nat
BY DEF TypeOK

\* The constructor sets every field to a value of its type.
LEMMA InitType == Init => TypeOK
<1> SUFFICES ASSUME Init PROVE TypeOK
  OBVIOUS
<1>1. closed \in BOOLEAN
  BY DEF Init
<1>2. QED
  BY <1>1, QueueAssumption DEF Init, TypeOK, Slots, Empty

\* So does every call: what is written is a slot, a count or an item offered.
LEMMA NextType == TypeOK /\ [Next]_vars => TypeOK'
<1> SUFFICES ASSUME TypeOK, [Next]_vars PROVE TypeOK'
  OBVIOUS
<1> USE DEF TypeOK, ring
<1>1. closed' \in BOOLEAN
  BY DEF Next, Push, Shift, NextItem, Clear, Close, vars
<1>3. CASE Push /\ PushClosed
  BY <1>1, <1>3, PushFrame DEF PushClosed
<1>4. CASE Push /\ HandOver(pushed + 1)
  <2>1. Delivery(Head(waiters), pushed + 1) \in [reader : Nat, item : Nat]
    BY <1>4 DEF HandOver, Waiting, Delivery
  <2>2. taken' \in Seq([reader : Nat, item : Nat])
    BY <1>4, <2>1 DEF HandOver
  <2>3. waiters' \in Seq(Nat)
    BY <1>4 DEF HandOver, Waiting, Unpark
  <2>4. UNCHANGED <<strategy, items, head, size, asked, ended, droppedCount, discarded>>
    BY <1>4, PushFrame DEF HandOver
  <2>5. pushed' \in Nat
    BY <1>4, PushFrame
  <2>6. QED
    BY <1>1, <2>2, <2>3, <2>4, <2>5
<1>5. CASE Push /\ Store(pushed + 1)
  BY <1>1, <1>5, PushFrame, Indexes, QueueAssumption DEF Store, Fits
<1>6. CASE Push /\ Overflow(pushed + 1)
  <2>1. /\ items' \in [Slots -> Nat] /\ head' \in Slots
        /\ droppedCount' \in Nat /\ UNCHANGED <<size, waiters, taken, discarded>>
    <3>1. CASE strategy = "drop-oldest" /\ items' = [items EXCEPT ![head] = pushed + 1] /\ Advance
      <4>1. items' \in [Slots -> Nat]
        BY <3>1
      <4>2. head' \in Slots
        BY <3>1, Indexes DEF Advance
      <4>3. droppedCount' \in Nat /\ UNCHANGED <<size, waiters, taken, discarded>>
        BY <1>6 DEF Overflow, CountDrop
      <4>4. QED
        BY <4>1, <4>2, <4>3
    <3>2. CASE UNCHANGED <<items, head>>
      BY <1>6, <3>2 DEF Overflow, CountDrop
    <3>3. QED
      BY <1>6, <3>1, <3>2 DEF Overflow
  <2>2. QED
    BY <1>1, <1>6, <2>1, PushFrame
<1>7. ASSUME NEW r \in Nat, RemoveHead(r)
      PROVE  /\ taken' \in Seq([reader : Nat, item : Nat])
             /\ items' \in [Slots -> Nat] /\ head' \in Slots /\ size' \in 0 .. MaxSize
  <2>1. items[head] \in Nat
    OBVIOUS
  <2>2. Delivery(r, items[head]) \in [reader : Nat, item : Nat]
    BY <2>1 DEF Delivery
  <2>3. QED
    BY <1>7, <2>2, Indexes, QueueAssumption DEF RemoveHead, Advance, Empty
<1>8. CASE Shift
  BY <1>1, <1>7, <1>8 DEF Shift
<1>9. CASE NextItem
  <2>1. CASE RemoveHead(asked + 1) /\ UNCHANGED <<waiters, ended>>
    BY <1>1, <1>7, <1>9, <2>1 DEF NextItem
  <2>2. CASE Over /\ ended' = ended + 1 /\ UNCHANGED <<ring, waiters, taken>>
    BY <1>1, <1>9, <2>2 DEF NextItem
  <2>3. CASE waiters' = Append(waiters, asked + 1) /\ UNCHANGED <<ring, taken, ended>>
    BY <1>1, <1>9, <2>3 DEF NextItem
  <2>4. QED
    BY <1>9, <2>1, <2>2, <2>3 DEF NextItem
<1>10. CASE Clear
  BY <1>1, <1>10, Indexes, QueueAssumption DEF Clear, Empty
<1>11. CASE Close
  BY <1>1, <1>11 DEF Close
<1>12. CASE UNCHANGED vars
  BY <1>12 DEF vars
<1>13. QED
  BY <1>3, <1>4, <1>5, <1>6, <1>8, <1>9, <1>10, <1>11, <1>12 DEF Next, Push

\* The type invariant holds throughout: in particular head and size stay within
\* the ring, whatever mix of calls the queue sees.
THEOREM TypeCorrect == Spec => []TypeOK
BY InitType, NextType, PTL DEF Spec

(***************************************************************************)
(* Parked readers and the accounts                                         *)
(***************************************************************************)

\* A reader is parked only while the queue is open and holds nothing, so push()
\* never stores an item past a reader that waits for it.
ParkedOnlyWhenIdle == waiters # <<>> => size = 0 /\ ~closed

\* No reader waits while the queue holds an item or is closed, so push() never
\* stores past a waiting reader.  HandOver is the only step that keeps readers
\* parked while it changes anything else, and it leaves the ring alone.
LEMMA ParkedIdle == Spec => []ParkedOnlyWhenIdle
<1>1. Init => ParkedOnlyWhenIdle
  BY DEF Init, ParkedOnlyWhenIdle
<1>2. TypeOK /\ ParkedOnlyWhenIdle /\ [Next]_vars => ParkedOnlyWhenIdle'
  <2> SUFFICES ASSUME TypeOK, ParkedOnlyWhenIdle, [Next]_vars PROVE ParkedOnlyWhenIdle'
    OBVIOUS
  <2> USE DEF ParkedOnlyWhenIdle, ring
  <2>1. CASE Push /\ PushClosed
    BY <2>1, PushFrame DEF PushClosed
  <2>2. CASE Push /\ HandOver(pushed + 1)
    BY <2>2, PushFrame DEF HandOver, Waiting
  <2>3. CASE Push /\ Store(pushed + 1)
    BY <2>3 DEF Store, Waiting
  <2>4. CASE Push /\ Overflow(pushed + 1)
    BY <2>4 DEF Overflow, Waiting
  <2>5. CASE Shift
    BY <2>5 DEF Shift, RemoveHead, TypeOK
  <2>6. CASE NextItem
    BY <2>6 DEF NextItem, RemoveHead, Over, TypeOK
  <2>7. CASE Clear
    BY <2>7 DEF Clear, TypeOK
  <2>8. CASE Close
    BY <2>8 DEF Close
  <2>9. CASE UNCHANGED vars
    BY <2>9 DEF vars
  <2>10. QED
    BY <2>1, <2>2, <2>3, <2>4, <2>5, <2>6, <2>7, <2>8, <2>9 DEF Next, Push
<1>3. QED
  BY <1>1, <1>2, TypeCorrect, PTL DEF Spec

\* Every push is delivered, held, counted as dropped or discarded, exactly once.
THEOREM Accounted == Spec => []NothingLost
<1>1. Init => NothingLost
  BY DEF Init, NothingLost
<1>2. TypeOK /\ NothingLost /\ [Next]_vars => NothingLost'
  <2> SUFFICES ASSUME TypeOK, NothingLost, [Next]_vars PROVE NothingLost'
    OBVIOUS
  <2>0. /\ {Len(taken), size, droppedCount, discarded, pushed} \subseteq Nat
        /\ \A d : Len(Append(taken, d)) = Len(taken) + 1
    BY QueueAssumption DEF TypeOK
  <2> USE <2>0 DEF NothingLost, ring
  <2>1. CASE Push /\ PushClosed
    BY <2>1, PushFrame DEF PushClosed
  <2>2. CASE Push /\ HandOver(pushed + 1)
    BY <2>2, PushFrame DEF HandOver
  <2>3. CASE Push /\ Store(pushed + 1)
    BY <2>3, PushFrame DEF Store
  <2>4. CASE Push /\ Overflow(pushed + 1)
    BY <2>4, PushFrame DEF Overflow, CountDrop
  <2>5. CASE Shift
    BY <2>5 DEF Shift, RemoveHead
  <2>6. CASE NextItem
    BY <2>6 DEF NextItem, RemoveHead
  <2>7. CASE Clear
    BY <2>7 DEF Clear
  <2>8. CASE Close
    BY <2>8 DEF Close
  <2>9. CASE UNCHANGED vars
    BY <2>9 DEF vars
  <2>10. QED
    BY <2>1, <2>2, <2>3, <2>4, <2>5, <2>6, <2>7, <2>8, <2>9 DEF Next, Push
<1>3. QED
  BY <1>1, <1>2, TypeCorrect, PTL DEF Spec

(***************************************************************************)
(* What each operation does to the items held, oldest first                *)
(***************************************************************************)

\* Contents lists size slots of the ring, starting at head.
LEMMA ContentsList ==
  TypeOK => /\ Contents \in Seq(Nat) /\ Len(Contents) = size
            /\ \A i \in 1 .. size : /\ (head + i - 1) % MaxSize \in Slots
                                   /\ Contents[i] = items[(head + i - 1) % MaxSize]
<1> SUFFICES ASSUME TypeOK
             PROVE  /\ Contents \in Seq(Nat) /\ Len(Contents) = size
                    /\ \A i \in 1 .. size : /\ (head + i - 1) % MaxSize \in Slots
                                           /\ Contents[i] = items[(head + i - 1) % MaxSize]
  OBVIOUS
<1>1. ASSUME NEW i \in 1 .. size PROVE (head + i - 1) % MaxSize \in Slots
  <2>1. i - 1 \in 0 .. MaxSize /\ head + i - 1 = head + (i - 1)
    BY QueueAssumption DEF TypeOK, Slots
  <2>2. QED
    BY <2>1, Wrap DEF TypeOK
<1>2. \A i \in 1 .. size : items[(head + i - 1) % MaxSize] \in Nat
  BY <1>1 DEF TypeOK
<1>3. size \in Nat
  BY QueueAssumption DEF TypeOK
<1>4. Contents \in Seq(Nat) /\ Len(Contents) = size
  BY <1>2, <1>3, IsASeq, LenProperties DEF Contents
<1>5. QED
  BY <1>1, <1>4 DEF Contents

\* The same of the state after a step.
LEMMA ContentsListNext ==
  TypeOK' => /\ Contents' \in Seq(Nat) /\ Len(Contents') = size'
             /\ \A i \in 1 .. size' : Contents'[i] = items'[(head' + i - 1) % MaxSize]
<1>1. (TypeOK => /\ Contents \in Seq(Nat) /\ Len(Contents) = size
                 /\ \A i \in 1 .. size : /\ (head + i - 1) % MaxSize \in Slots
                                        /\ Contents[i] = items[(head + i - 1) % MaxSize])'
  BY ContentsList, PTL
<1>2. QED
  BY <1>1

\* push() into a queue with room appends: the slot it writes holds no item.
LEMMA StoreAppends ==
  ASSUME TypeOK, TypeOK', NEW item \in Nat, Store(item)
  PROVE  Contents' = Append(Contents, item)
<1>1. size < MaxSize /\ size' = size + 1 /\ head' = head /\ size \in Nat
  BY QueueAssumption DEF Store, Fits, TypeOK
<1>2. items' = [items EXCEPT ![(head + size) % MaxSize] = item]
  BY DEF Store, WriteIndex
<1>3. ASSUME NEW i \in 1 .. size PROVE (head + i - 1) % MaxSize # (head + size) % MaxSize
  <2>1. /\ i - 1 \in 0 .. MaxSize /\ size \in 0 .. MaxSize /\ head \in 0 .. MaxSize - 1
        /\ head + i - 1 = head + (i - 1)
    BY <1>1, QueueAssumption DEF TypeOK, Slots
  <2>2. (head + (i - 1)) % MaxSize = IF head + (i - 1) < MaxSize THEN head + (i - 1) ELSE head + (i - 1) - MaxSize
    BY <2>1, Wrap DEF Slots
  <2>3. (head + size) % MaxSize = IF head + size < MaxSize THEN head + size ELSE head + size - MaxSize
    BY <2>1, Wrap DEF Slots
  <2>4. QED
    BY <1>1, <2>1, <2>2, <2>3, QueueAssumption
<1>4. ASSUME NEW i \in 1 .. size PROVE Contents'[i] = Contents[i]
  <2>1. Contents'[i] = items'[(head + i - 1) % MaxSize]
    BY <1>1, ContentsListNext
  <2>2. Contents[i] = items[(head + i - 1) % MaxSize] /\ (head + i - 1) % MaxSize \in Slots
    BY ContentsList
  <2>3. QED
    BY <1>2, <1>3, <2>1, <2>2 DEF TypeOK
<1>5. Contents'[size + 1] = item
  <2>1. Contents'[size + 1] = items'[(head + size) % MaxSize]
    <3>1. size + 1 \in 1 .. size' /\ head' + (size + 1) - 1 = head + size
      BY <1>1, QueueAssumption DEF TypeOK, Slots
    <3>2. QED
      BY <3>1, ContentsListNext
  <2>2. QED
    BY <1>2, <2>1, Indexes DEF TypeOK, WriteIndex
<1>6. QED
  <2>1. /\ Contents \in Seq(Nat) /\ Len(Contents) = size
        /\ Contents' \in Seq(Nat) /\ Len(Contents') = size + 1
    BY <1>1, ContentsList, ContentsListNext
  <2>2. /\ Append(Contents, item) \in Seq(Nat) /\ Len(Append(Contents, item)) = size + 1
        /\ \A i \in 1 .. size : Append(Contents, item)[i] = Contents[i]
        /\ Append(Contents, item)[size + 1] = item
    BY <2>1, AppendProperties
  <2>3. \A i \in 1 .. Len(Contents') : Contents'[i] = Append(Contents, item)[i]
    BY <1>1, <1>4, <1>5, <2>1, <2>2
  <2>4. QED
    BY <2>1, <2>2, <2>3, SeqEqual

\* Moving head one slot on moves every position one back.
LEMMA NextPosition ==
  ASSUME NEW h \in Slots, NEW i \in 1 .. MaxSize
  PROVE  /\ (((h + 1) % MaxSize) + i - 1) % MaxSize = (h + i) % MaxSize
         /\ (h + i) % MaxSize = h <=> i = MaxSize
<1>1. /\ MaxSize \in Nat \ {0} /\ h \in 0 .. MaxSize - 1
      /\ i \in 0 .. MaxSize /\ 1 \in 0 .. MaxSize /\ i - 1 \in 0 .. MaxSize
  BY QueueAssumption DEF Slots
<1>2. /\ (h + 1) % MaxSize \in Slots
      /\ (h + 1) % MaxSize = IF h + 1 < MaxSize THEN h + 1 ELSE h + 1 - MaxSize
  BY <1>1, Wrap
<1>3. (h + i) % MaxSize = IF h + i < MaxSize THEN h + i ELSE h + i - MaxSize
  BY <1>1, Wrap
<1>4. ASSUME NEW g \in Slots
      PROVE  (g + i - 1) % MaxSize = IF g + i - 1 < MaxSize THEN g + i - 1 ELSE g + i - 1 - MaxSize
  <2>1. g + (i - 1) = g + i - 1
    BY <1>1 DEF Slots
  <2>2. (g + (i - 1)) % MaxSize = IF g + (i - 1) < MaxSize THEN g + (i - 1) ELSE g + (i - 1) - MaxSize
    BY <1>1, Wrap
  <2>3. QED
    BY <2>1, <2>2
<1>5. QED
  BY <1>1, <1>2, <1>3, <1>4

\* shift() and next() take the first item held.
LEMMA RemoveTakesHead ==
  ASSUME TypeOK, TypeOK', NEW r, RemoveHead(r)
  PROVE  Contents # <<>> /\ items[head] = Head(Contents) /\ Contents' = Tail(Contents)
<1>1. /\ size > 0 /\ size' = size - 1 /\ head' = (head + 1) % MaxSize /\ size \in 0 .. MaxSize
      /\ items' = [items EXCEPT ![head] = Empty] /\ head \in Slots /\ MaxSize \in Nat \ {0}
  BY QueueAssumption DEF RemoveHead, Advance, TypeOK
<1>2. /\ Contents \in Seq(Nat) /\ Len(Contents) = size
      /\ Contents' \in Seq(Nat) /\ Len(Contents') = size - 1
  BY <1>1, ContentsList, ContentsListNext
<1>3. Contents # <<>> /\ Head(Contents) = Contents[1]
  BY <1>1, <1>2
<1>4. items[head] = Contents[1]
  <2>1. Contents[1] = items[(head + 1 - 1) % MaxSize]
    BY <1>1, ContentsList
  <2>2. (head + 1 - 1) % MaxSize = head
    <3>1. head + 1 - 1 = head + 0 /\ 0 \in 0 .. MaxSize
      BY <1>1 DEF Slots
    <3>2. (head + 0) % MaxSize = IF head + 0 < MaxSize THEN head + 0 ELSE head + 0 - MaxSize
      BY <1>1, <3>1, Wrap
    <3>3. QED
      BY <1>1, <3>1, <3>2 DEF Slots
  <2>3. QED
    BY <2>1, <2>2
<1>5. ASSUME NEW i \in 1 .. size - 1 PROVE Contents'[i] = Contents[i + 1]
  <2>1. i \in 1 .. MaxSize /\ i # MaxSize /\ i + 1 \in 1 .. size /\ i \in 1 .. size' /\ head + (i + 1) - 1 = head + i
    BY <1>1 DEF Slots
  <2>2. Contents'[i] = items'[(head' + i - 1) % MaxSize]
    BY <2>1, ContentsListNext
  <2>3. (head' + i - 1) % MaxSize = (head + i) % MaxSize /\ (head + i) % MaxSize # head
    BY <1>1, <2>1, NextPosition
  <2>4. Contents[i + 1] = items[(head + i) % MaxSize] /\ (head + i) % MaxSize \in Slots
    BY <2>1, ContentsList
  <2>5. QED
    BY <1>1, <2>2, <2>3, <2>4 DEF TypeOK
<1>6. QED
  <2>1. /\ Tail(Contents) \in Seq(Nat) /\ Len(Tail(Contents)) = size - 1
        /\ \A i \in 1 .. size - 1 : Tail(Contents)[i] = Contents[i + 1]
    BY <1>2, <1>3, HeadTailProperties
  <2>2. \A i \in 1 .. Len(Contents') : Contents'[i] = Tail(Contents)[i]
    BY <1>2, <1>5, <2>1
  <2>3. Contents' = Tail(Contents)
    BY <1>2, <2>1, <2>2, SeqEqual
  <2>4. QED
    BY <1>3, <1>4, <2>3

\* An overflow of drop-oldest replaces the first item held by a new last one.
LEMMA OverflowRotates ==
  ASSUME TypeOK, TypeOK', NEW item \in Nat, size = MaxSize, size' = size,
         items' = [items EXCEPT ![head] = item], Advance
  PROVE  Contents' = Append(Tail(Contents), item)
<1>1. /\ head' = (head + 1) % MaxSize /\ size \in 1 .. MaxSize
      /\ head \in Slots /\ MaxSize \in Nat \ {0} /\ size \in Nat /\ MaxSize \in 1 .. MaxSize
  BY QueueAssumption DEF Advance, TypeOK
<1>2. /\ Contents \in Seq(Nat) /\ Len(Contents) = size
      /\ Contents' \in Seq(Nat) /\ Len(Contents') = size /\ Contents # <<>>
  BY <1>1, ContentsList, ContentsListNext
<1>3. /\ Tail(Contents) \in Seq(Nat) /\ Len(Tail(Contents)) = size - 1
      /\ \A i \in 1 .. size - 1 : Tail(Contents)[i] = Contents[i + 1]
  BY <1>2, HeadTailProperties
<1>4. ASSUME NEW i \in 1 .. size PROVE Contents'[i] = items'[(head + i) % MaxSize]
  BY <1>1, NextPosition, ContentsListNext
<1>5. ASSUME NEW i \in 1 .. size - 1 PROVE Contents'[i] = Contents[i + 1]
  <2>1. i \in 1 .. MaxSize /\ i # MaxSize /\ i + 1 \in 1 .. size /\ head + (i + 1) - 1 = head + i
    BY <1>1 DEF Slots
  <2>2. Contents'[i] = items'[(head + i) % MaxSize]
    BY <1>1, <1>4
  <2>3. (head + i) % MaxSize # head
    BY <1>1, <2>1, NextPosition
  <2>4. Contents[i + 1] = items[(head + i) % MaxSize] /\ (head + i) % MaxSize \in Slots
    BY <2>1, ContentsList
  <2>5. QED
    BY <1>1, <2>2, <2>3, <2>4 DEF TypeOK
<1>6. Contents'[size] = item
  <2>1. (head + size) % MaxSize = head
    BY <1>1, NextPosition
  <2>2. QED
    BY <1>1, <1>4, <2>1 DEF TypeOK
<1>7. /\ Append(Tail(Contents), item) \in Seq(Nat) /\ Len(Append(Tail(Contents), item)) = size
      /\ \A i \in 1 .. size - 1 : Append(Tail(Contents), item)[i] = Tail(Contents)[i]
      /\ Append(Tail(Contents), item)[size] = item
  <2>1. size - 1 + 1 = size
    BY <1>1
  <2>2. QED
    BY <1>1, <1>3, <2>1, AppendProperties
<1>8. \A i \in 1 .. Len(Contents') : Contents'[i] = Append(Tail(Contents), item)[i]
  BY <1>1, <1>2, <1>3, <1>5, <1>6, <1>7
<1>9. QED
  BY <1>2, <1>7, <1>8, SeqEqual

\* What leaves the ring alone leaves the items held alone.
LEMMA SameRing == UNCHANGED ring => Contents' = Contents
BY DEF ring, Contents

\* The queue holds nothing exactly when size is zero.
LEMMA EmptyContents == TypeOK => (size = 0 <=> Contents = <<>>)
<1> SUFFICES ASSUME TypeOK PROVE size = 0 <=> Contents = <<>>
  OBVIOUS
<1>1. Contents \in Seq(Nat) /\ Len(Contents) = size
  BY ContentsList
<1>2. QED
  BY <1>1, EmptySeq

(***************************************************************************)
(* The ring implements the bounded FIFO                                    *)
(***************************************************************************)

\* Every step of the ring is the step of the FIFO of the same name, seen through
\* Contents.
LEMMA FifoStep ==
  TypeOK /\ TypeOK' /\ [Next]_vars => [Fifo!Next]_(Fifo!vars)
<1> SUFFICES ASSUME TypeOK, TypeOK', [Next]_vars PROVE [Fifo!Next]_(Fifo!vars)
  OBVIOUS
<1>1. Len(Contents) = size /\ Len(Contents') = size' /\ MaxSize \in Nat /\ size \in 0 .. MaxSize
  BY QueueAssumption, ContentsList, ContentsListNext DEF TypeOK
<1>2. pushed + 1 \in Nat
  BY NextPush
<1>3. (size = 0 <=> Contents = <<>>) /\ (size' = 0 <=> Contents' = <<>>)
  <2>1. (TypeOK => (size = 0 <=> Contents = <<>>))'
    BY EmptyContents, PTL
  <2>2. QED
    BY <2>1, EmptyContents
<1>4. CASE Push /\ PushClosed
  BY <1>4, PushFrame, SameRing DEF Push, PushClosed, Fifo!Next, Fifo!Put
<1>5. CASE Push /\ HandOver(pushed + 1)
  <2>1. /\ pushed < MaxPushes /\ pushed' = pushed + 1 /\ ~closed /\ waiters # <<>>
        /\ taken' = Append(taken, Delivery(Head(waiters), pushed + 1)) /\ waiters' = Tail(waiters)
        /\ UNCHANGED <<strategy, ring, droppedCount, discarded, closed, asked, ended>>
    BY <1>5, PushFrame DEF Push, HandOver, Waiting, Unpark
  <2>2. QED
    BY <2>1, SameRing DEF Delivery, Fifo!Next, Fifo!Put, Fifo!Delivery
<1>6. CASE Push /\ Store(pushed + 1)
  BY <1>1, <1>2, <1>6, PushFrame, StoreAppends
     DEF Push, Store, Waiting, Fits, Fifo!Next, Fifo!Put
<1>7. CASE Push /\ Overflow(pushed + 1)
  <2>1. /\ pushed < MaxPushes /\ ~closed /\ waiters = <<>> /\ Len(Contents) = MaxSize
        /\ droppedCount' = droppedCount + 1 /\ pushed' = pushed + 1
        /\ UNCHANGED <<strategy, waiters, taken, discarded, closed, asked, ended, size>>
    BY <1>1, <1>7, PushFrame DEF Push, Overflow, Waiting, Fits, CountDrop
  <2>2. Contents' = IF strategy = "drop-oldest" THEN Append(Tail(Contents), pushed + 1) ELSE Contents
    <3>1. CASE strategy = "drop-oldest" /\ items' = [items EXCEPT ![head] = pushed + 1] /\ Advance
      BY <1>1, <1>2, <2>1, <3>1, OverflowRotates
    <3>2. CASE strategy = "drop-newest" /\ UNCHANGED <<items, head>>
      BY <2>1, <3>2, SameRing DEF ring
    <3>3. QED
      BY <1>7, <3>1, <3>2 DEF Overflow
  <2>3. QED
    BY <2>1, <2>2 DEF Fifo!Next, Fifo!Put
<1>8. CASE Shift
  BY <1>8, RemoveTakesHead DEF Shift, RemoveHead, Delivery, Fifo!Next, Fifo!Shift, Fifo!Take, Fifo!Delivery
<1>9. CASE NextItem
  <2>1. /\ asked < MaxReads /\ asked' = asked + 1
        /\ UNCHANGED <<strategy, closed, droppedCount, pushed, discarded>>
    BY <1>9 DEF NextItem
  <2>2. CASE RemoveHead(asked + 1) /\ UNCHANGED <<waiters, ended>>
    BY <2>1, <2>2, RemoveTakesHead
       DEF RemoveHead, Delivery, Fifo!Next, Fifo!Read, Fifo!Take, Fifo!Delivery
  <2>3. CASE Over /\ ended' = ended + 1 /\ UNCHANGED <<ring, waiters, taken>>
    BY <1>3, <2>1, <2>3, SameRing DEF Over, Fifo!Next, Fifo!Read
  <2>4. CASE size = 0 /\ ~closed /\ waiters' = Append(waiters, asked + 1) /\ UNCHANGED <<ring, taken, ended>>
    BY <1>3, <2>1, <2>4, SameRing DEF Fifo!Next, Fifo!Read
  <2>5. QED
    BY <1>9, <2>2, <2>3, <2>4 DEF NextItem
<1>10. CASE Clear
  BY <1>1, <1>3, <1>10 DEF Clear, Fifo!Next, Fifo!Clear
<1>11. CASE Close
  BY <1>11, SameRing DEF Close, Fifo!Next, Fifo!Close
<1>12. CASE UNCHANGED vars
  <2>1. UNCHANGED ring
    BY <1>12 DEF vars, ring
  <2>2. QED
    BY <1>12, <2>1, SameRing DEF vars, Fifo!vars
<1>13. QED
  BY <1>4, <1>5, <1>6, <1>7, <1>8, <1>9, <1>10, <1>11, <1>12 DEF Next, Push

\* The ring buffer implements the bounded FIFO, whatever its size and strategy:
\* wrapping, overwriting and clearing never show outside.
THEOREM Refinement == Spec => ImplementsFifo
<1>1. Init => Fifo!Init
  BY InitType, EmptyContents DEF Init, Fifo!Init
<1>2. QED
  BY <1>1, TypeCorrect, FifoStep, PTL DEF Spec, ImplementsFifo, Fifo!Spec

(***************************************************************************)
(* First in, first out, end to end                                         *)
(***************************************************************************)

\* The items delivered and the readers they went to, in order of delivery.
ItemsTaken    == [i \in 1 .. Len(taken) |-> taken[i].item]
ReadersServed == [i \in 1 .. Len(taken) |-> taken[i].reader]

\* What makes ServedInOrder inductive: the items held wait in order above those
\* delivered, the parked readers above those served, and no number is ahead of
\* its counter.
OrderKept ==
  /\ InOrder(Contents, ItemsTaken, pushed)
  /\ Below(<<0>>, ItemsTaken)
  /\ InOrder(waiters, ReadersServed, asked)

\* Both histories are lists of numbers.
LEMMA Histories ==
  TypeOK => ItemsTaken \in Seq(Nat) /\ ReadersServed \in Seq(Nat) /\ {pushed, asked} \subseteq Nat
<1> SUFFICES ASSUME TypeOK PROVE ItemsTaken \in Seq(Nat) /\ ReadersServed \in Seq(Nat)
  BY DEF TypeOK
<1>1. Len(taken) \in Nat /\ \A i \in 1 .. Len(taken) : taken[i] \in [reader : Nat, item : Nat]
  BY ElementOfSeq, LenProperties DEF TypeOK
<1>2. \A i \in 1 .. Len(taken) : taken[i].item \in Nat /\ taken[i].reader \in Nat
  BY <1>1
<1>3. QED
  BY <1>1, <1>2, IsASeq DEF ItemsTaken, ReadersServed

\* A delivery appends to both histories.
LEMMA Delivered ==
  ASSUME TypeOK, TypeOK', NEW r \in Nat, NEW x \in Nat, taken' = Append(taken, Delivery(r, x))
  PROVE  ItemsTaken' = Append(ItemsTaken, x) /\ ReadersServed' = Append(ReadersServed, r)
<1> DEFINE n == Len(taken)
           I == Append(ItemsTaken, x)
           R == Append(ReadersServed, r)
<1>1. /\ n \in Nat /\ Len(taken') = n + 1 /\ taken'[n + 1] = Delivery(r, x)
      /\ \A i \in 1 .. n : taken'[i] = taken[i]
  BY AppendProperties, LenProperties DEF TypeOK, Delivery
<1>2. Delivery(r, x).reader = r /\ Delivery(r, x).item = x
  BY DEF Delivery
<1>3. /\ ItemsTaken' \in Seq(Nat) /\ Len(ItemsTaken') = n + 1
      /\ ReadersServed' \in Seq(Nat) /\ Len(ReadersServed') = n + 1
      /\ \A i \in 1 .. n + 1 : ItemsTaken'[i] = taken'[i].item /\ ReadersServed'[i] = taken'[i].reader
  <2>1. (TypeOK => ItemsTaken \in Seq(Nat) /\ ReadersServed \in Seq(Nat) /\ {pushed, asked} \subseteq Nat)'
    BY Histories, PTL
  <2>2. QED
    BY <1>1, <2>1, LenProperties DEF ItemsTaken, ReadersServed
<1>4. /\ ItemsTaken \in Seq(Nat) /\ Len(ItemsTaken) = n
      /\ ReadersServed \in Seq(Nat) /\ Len(ReadersServed) = n
      /\ \A i \in 1 .. n : ItemsTaken[i] = taken[i].item /\ ReadersServed[i] = taken[i].reader
  BY <1>1, Histories, LenProperties DEF ItemsTaken, ReadersServed
<1>5. /\ I \in Seq(Nat) /\ Len(I) = n + 1 /\ I[n + 1] = x /\ \A i \in 1 .. n : I[i] = ItemsTaken[i]
      /\ R \in Seq(Nat) /\ Len(R) = n + 1 /\ R[n + 1] = r /\ \A i \in 1 .. n : R[i] = ReadersServed[i]
  <2>1. \A i \in 1 .. n : I[i] = ItemsTaken[i]
    BY <1>4, AppendProperties
  <2>2. \A i \in 1 .. n : R[i] = ReadersServed[i]
    BY <1>4, AppendProperties
  <2>3. I \in Seq(Nat) /\ Len(I) = n + 1 /\ I[n + 1] = x
    BY <1>4, AppendProperties
  <2>4. R \in Seq(Nat) /\ Len(R) = n + 1 /\ R[n + 1] = r
    BY <1>4, AppendProperties
  <2>5. QED
    BY <2>1, <2>2, <2>3, <2>4
<1> HIDE DEF n, I, R
<1>6. ASSUME NEW i \in 1 .. n + 1
      PROVE  ItemsTaken'[i] = I[i] /\ ReadersServed'[i] = R[i]
  <2>1. CASE i = n + 1
    BY <1>1, <1>2, <1>3, <1>5, <2>1
  <2>2. CASE i \in 1 .. n
    <3>1. ItemsTaken'[i] = taken'[i].item /\ ReadersServed'[i] = taken'[i].reader
      BY <1>3
    <3>2. taken'[i] = taken[i]
      BY <1>1, <2>2
    <3>3. I[i] = taken[i].item /\ R[i] = taken[i].reader
      BY <1>4, <1>5, <2>2
    <3>4. QED
      BY <3>1, <3>2, <3>3
  <2>3. QED
    BY <1>1, <2>1, <2>2
<1>7. ItemsTaken' = I /\ ReadersServed' = R
  BY <1>3, <1>5, <1>6, SeqEqual
<1>8. QED
  BY <1>7 DEF I, R

\* Nothing delivered, nothing changes.
LEMMA SameHistories ==
  UNCHANGED taken => ItemsTaken' = ItemsTaken /\ ReadersServed' = ReadersServed
BY DEF ItemsTaken, ReadersServed

\* A parked reader is served: the new item goes to the reader that waits longest.
LEMMA HandOverKeepsOrder ==
  ASSUME TypeOK, TypeOK', OrderKept, Contents = <<>>, waiters # <<>>,
         taken' = Append(taken, Delivery(Head(waiters), pushed + 1)), waiters' = Tail(waiters),
         pushed' = pushed + 1, asked' = asked, Contents' = Contents
  PROVE  OrderKept'
<1>1. Head(waiters) \in Nat /\ waiters \in Seq(Nat) /\ pushed + 1 \in Nat /\ 0 < pushed + 1
  <2>1. waiters \in Seq(Nat) /\ pushed \in Nat
    BY DEF TypeOK
  <2>2. QED
    BY <2>1, HeadTailProperties
<1>2. ItemsTaken' = Append(ItemsTaken, pushed + 1) /\ ReadersServed' = Append(ReadersServed, Head(waiters))
  BY <1>1, Delivered
<1>3. InOrder(Contents, Append(ItemsTaken, pushed + 1), pushed + 1)
  BY Histories, ServeNext DEF OrderKept
<1>4. InOrder(Tail(waiters), Append(ReadersServed, Head(waiters)), asked)
  BY <1>1, Histories, ServeFirst DEF OrderKept
<1>5. Below(<<0>>, Append(ItemsTaken, pushed + 1))
  <2>1. \A i \in 1 .. Len(<<0>>) : <<0>>[i] < pushed + 1
    BY <1>1, ZeroBelow
  <2>2. QED
    BY <1>1, <2>1, Histories, SmallLists, BelowSteps DEF OrderKept
<1>6. QED
  BY <1>2, <1>3, <1>4, <1>5 DEF OrderKept

\* The first item held is delivered, to shift() or to a reader that need not park.
LEMMA TakeKeepsOrder ==
  ASSUME TypeOK, TypeOK', OrderKept, Contents # <<>>, waiters = <<>>, waiters' = waiters,
         NEW r, \/ r = 0 /\ asked' = asked
                \/ r = asked + 1 /\ asked' = asked + 1,
         taken' = Append(taken, Delivery(r, Head(Contents))), Contents' = Tail(Contents),
         pushed' = pushed
  PROVE  OrderKept'
<1>1. /\ Contents \in Seq(Nat) /\ Head(Contents) \in Nat /\ r \in Nat
  <2>1. Contents \in Seq(Nat) /\ asked \in Nat
    BY ContentsList DEF TypeOK
  <2>2. QED
    BY <2>1, HeadTailProperties
<1>2. ItemsTaken' = Append(ItemsTaken, Head(Contents)) /\ ReadersServed' = Append(ReadersServed, r)
  BY <1>1, Delivered
<1>3. InOrder(Tail(Contents), Append(ItemsTaken, Head(Contents)), pushed) /\ 0 < Head(Contents)
  BY <1>1, Histories, ServeFirst DEF OrderKept
<1>4. InOrder(waiters, Append(ReadersServed, r), asked')
  <2>1. CASE r = 0 /\ asked' = asked
    BY <2>1, Histories, ServeZero, SmallLists DEF OrderKept
  <2>2. CASE r = asked + 1 /\ asked' = asked + 1
    BY <2>2, Histories, ServeNext DEF OrderKept
  <2>3. QED
    BY <2>1, <2>2
<1>5. Below(<<0>>, Append(ItemsTaken, Head(Contents)))
  <2>1. \A i \in 1 .. Len(<<0>>) : <<0>>[i] < Head(Contents)
    BY <1>1, <1>3, ZeroBelow
  <2>2. QED
    BY <1>1, <2>1, Histories, SmallLists, BelowSteps DEF OrderKept
<1>6. QED
  BY <1>2, <1>3, <1>4, <1>5 DEF OrderKept

\* Nothing is delivered: items and readers arrive or are given up.
LEMMA ArriveKeepsOrder ==
  ASSUME TypeOK, OrderKept, taken' = taken,
         \/ pushed' = pushed /\ (Contents' = Contents \/ Contents' = <<>>)
         \/ /\ pushed' = pushed + 1
            /\ \/ Contents' = Contents
               \/ Contents' = Append(Contents, pushed + 1)
               \/ Contents # <<>> /\ Contents' = Append(Tail(Contents), pushed + 1),
         \/ asked' = asked /\ (waiters' = waiters \/ waiters' = <<>>)
         \/ asked' = asked + 1 /\ (waiters' = waiters \/ waiters' = Append(waiters, asked + 1))
  PROVE  OrderKept'
<1>1. Contents \in Seq(Nat) /\ waiters \in Seq(Nat)
  BY ContentsList DEF TypeOK
<1>2. InOrder(Contents', ItemsTaken, pushed')
  <2>1. Contents # <<>> => Tail(Contents) \in Seq(Nat) /\ InOrder(Tail(Contents), ItemsTaken, pushed)
    BY <1>1, Histories, GiveUp, HeadTailProperties DEF OrderKept
  <2>2. Contents # <<>> => InOrder(Append(Tail(Contents), pushed + 1), ItemsTaken, pushed + 1)
    BY <2>1, Histories, Arrive
  <2>3. /\ InOrder(Append(Contents, pushed + 1), ItemsTaken, pushed + 1)
        /\ InOrder(Contents, ItemsTaken, pushed + 1) /\ InOrder(<<>>, ItemsTaken, pushed)
    BY <1>1, Histories, Arrive, GiveUp DEF OrderKept
  <2>4. InOrder(Contents, ItemsTaken, pushed)
    BY DEF OrderKept
  <2>5. CASE pushed' = pushed /\ (Contents' = Contents \/ Contents' = <<>>)
    BY <2>3, <2>4, <2>5
  <2>6. CASE /\ pushed' = pushed + 1
             /\ \/ Contents' = Contents
                \/ Contents' = Append(Contents, pushed + 1)
                \/ Contents # <<>> /\ Contents' = Append(Tail(Contents), pushed + 1)
    BY <2>2, <2>3, <2>6
  <2>7. QED
    BY <2>5, <2>6
<1>3. InOrder(waiters', ReadersServed, asked')
  BY <1>1, Histories, Arrive, GiveUp DEF OrderKept
<1>4. QED
  BY <1>2, <1>3, SameHistories DEF OrderKept

\* Items leave in the order they were pushed and readers of next() are served in
\* the order they asked, across hand-over, storage, overflow, clear and close.
\* The argument is about the FIFO the ring implements: its first item is above
\* all that left, a new one above all that wait.
THEOREM FirstInFirstOut == Spec => []ServedInOrder
<1>1. Init => OrderKept
  <2> SUFFICES ASSUME Init PROVE OrderKept
    OBVIOUS
  <2>1. Contents = <<>> /\ waiters = <<>> /\ pushed = 0 /\ asked = 0
    BY InitType, EmptyContents DEF Init
  <2>2. ItemsTaken = <<>> /\ ReadersServed = <<>>
    <3>1. Len(taken) = 0
      BY DEF Init
    <3>2. Len(ItemsTaken) = 0 /\ Len(ReadersServed) = 0
      BY <3>1, InitType, Histories, LenProperties DEF ItemsTaken, ReadersServed
    <3>3. QED
      BY <3>2, InitType, Histories, EmptySeq
  <2>3. IncreasingButZeros(<<>>)
    BY DEF IncreasingButZeros
  <2>4. QED
    BY <2>1, <2>2, <2>3, SmallLists DEF OrderKept, InOrder
<1>2. /\ TypeOK /\ TypeOK' /\ ParkedOnlyWhenIdle /\ OrderKept /\ [Next]_vars
      => OrderKept'
  <2> SUFFICES ASSUME TypeOK, TypeOK', ParkedOnlyWhenIdle, OrderKept, [Next]_vars PROVE OrderKept'
    OBVIOUS
  <2>1. Contents # <<>> => waiters = <<>>
    BY EmptyContents DEF ParkedOnlyWhenIdle
  <2>2. [Fifo!Next]_(Fifo!vars)
    BY FifoStep
  <2>3. CASE Fifo!Put
    <3>1. CASE ~closed /\ waiters # <<>>
      BY <2>1, <2>3, <3>1, HandOverKeepsOrder DEF Fifo!Put, Fifo!Delivery, Delivery
    <3>2. CASE closed \/ waiters = <<>>
      <4>1. Len(Contents) = MaxSize => Contents # <<>>
        BY QueueAssumption
      <4>2. /\ taken' = taken /\ pushed' = pushed + 1 /\ asked' = asked /\ waiters' = waiters
            /\ \/ Contents' = Contents
               \/ Contents' = Append(Contents, pushed + 1)
               \/ Contents # <<>> /\ Contents' = Append(Tail(Contents), pushed + 1)
        <5>1. ~(~closed /\ waiters # <<>>)
          BY <3>2
        <5>2. QED
          BY <2>3, <4>1, <5>1 DEF Fifo!Put
      <4>3. QED
        BY <4>2, ArriveKeepsOrder
    <3>3. QED
      BY <3>1, <3>2
  <2>4. CASE Fifo!Shift
    BY <2>1, <2>4, TakeKeepsOrder DEF Fifo!Shift, Fifo!Take, Fifo!Delivery, Delivery
  <2>5. CASE Fifo!Read
    <3>1. CASE Fifo!Take(asked + 1)
      BY <2>1, <2>5, <3>1, TakeKeepsOrder DEF Fifo!Read, Fifo!Take, Fifo!Delivery, Delivery
    <3>2. CASE Contents = <<>>
      BY <2>5, <3>2, ArriveKeepsOrder DEF Fifo!Read, Fifo!Take
    <3>3. QED
      BY <2>5, <3>1, <3>2 DEF Fifo!Read
  <2>6. CASE Fifo!Clear
    BY <2>6, ArriveKeepsOrder DEF Fifo!Clear
  <2>7. CASE Fifo!Close
    BY <2>7, ArriveKeepsOrder DEF Fifo!Close
  <2>8. CASE UNCHANGED Fifo!vars
    BY <2>8, ArriveKeepsOrder DEF Fifo!vars
  <2>9. QED
    BY <2>2, <2>3, <2>4, <2>5, <2>6, <2>7, <2>8 DEF Fifo!Next
<1>3. TypeOK /\ OrderKept => ServedInOrder
  <2> SUFFICES ASSUME TypeOK, OrderKept PROVE ServedInOrder
    OBVIOUS
  <2>1. /\ DOMAIN taken = 1 .. Len(taken) /\ DOMAIN Contents = 1 .. Len(Contents)
        /\ Len(ItemsTaken) = Len(taken) /\ Len(ReadersServed) = Len(taken)
        /\ \A i \in 1 .. Len(taken) : ItemsTaken[i] = taken[i].item /\ ReadersServed[i] = taken[i].reader
    BY Histories, ContentsList, LenProperties DEF TypeOK, ItemsTaken, ReadersServed
  <2>2. \A i \in 1 .. Len(taken) : 0 < taken[i].item
    BY <2>1, SmallLists DEF OrderKept, Below
  <2>3. ASSUME NEW i \in 1 .. Len(taken), NEW j \in 1 .. Len(taken), i < j
        PROVE  /\ taken[i].item < taken[j].item
               /\ 0 \notin {taken[i].reader, taken[j].reader} => taken[i].reader < taken[j].reader
    <3>1. ItemsTaken[i] < ItemsTaken[j]
      <4>1. 0 \notin {ItemsTaken[i], ItemsTaken[j]}
        BY <2>1, <2>2
      <4>2. QED
        BY <2>1, <2>3, <4>1 DEF OrderKept, InOrder, IncreasingButZeros
    <3>2. 0 \notin {ReadersServed[i], ReadersServed[j]} => ReadersServed[i] < ReadersServed[j]
      BY <2>1, <2>3 DEF OrderKept, InOrder, IncreasingButZeros
    <3>3. QED
      BY <2>1, <3>1, <3>2
  <2>4. /\ \A i, j \in 1 .. Len(Contents) : i < j => Contents[i] < Contents[j]
        /\ \A i \in 1 .. Len(taken), j \in 1 .. Len(Contents) : taken[i].item < Contents[j]
    BY <2>1 DEF OrderKept, InOrder, Increasing, Below
  <2>5. QED
    BY <2>1, <2>3, <2>4 DEF ServedInOrder
<1>4. QED
  BY <1>1, <1>2, <1>3, TypeCorrect, ParkedIdle, PTL DEF Spec

(***************************************************************************)
(* The end of the stream, and drop-oldest                                  *)
(***************************************************************************)

\* "Done" was only ever said by a closed and empty queue.
DoneMeansEmpty == ended > 0 => closed /\ size = 0

\* Once a reader was told the stream is over no call delivers an item: close()
\* says so to parked readers only, who wait for an empty queue.
THEOREM DoneStaysDone == Spec => DoneIsFinal
<1>1. Init => DoneMeansEmpty
  BY DEF Init, DoneMeansEmpty
<1>2. TypeOK /\ ParkedOnlyWhenIdle /\ DoneMeansEmpty /\ [Next]_vars => DoneMeansEmpty'
  <2> SUFFICES ASSUME TypeOK, ParkedOnlyWhenIdle, DoneMeansEmpty, [Next]_vars PROVE DoneMeansEmpty'
    OBVIOUS
  <2> USE DEF DoneMeansEmpty, ring
  <2>1. CASE Push
    <3>1. UNCHANGED <<closed, ended>>
      BY <2>1, PushFrame
    <3>2. closed => UNCHANGED size
      BY <2>1 DEF Push, PushClosed, HandOver, Store, Overflow
    <3>3. QED
      BY <3>1, <3>2
  <2>2. CASE Shift
    BY <2>2 DEF Shift, RemoveHead
  <2>3. CASE NextItem
    <3>1. UNCHANGED closed
      BY <2>3 DEF NextItem
    <3>2. CASE Over /\ UNCHANGED ring
      BY <3>1, <3>2 DEF Over
    <3>3. CASE ended' = ended /\ (size > 0 \/ UNCHANGED ring)
      BY <3>1, <3>3
    <3>4. QED
      BY <2>3, <3>2, <3>3 DEF NextItem, RemoveHead
  <2>4. CASE Clear
    BY <2>4 DEF Clear
  <2>5. CASE Close
    <3>1. waiters # <<>> => size = 0
      BY DEF ParkedOnlyWhenIdle
    <3>2. waiters = <<>> => ended' = ended
      BY <2>5 DEF Close, TypeOK
    <3>3. QED
      BY <2>5, <3>1, <3>2 DEF Close
  <2>6. CASE UNCHANGED vars
    BY <2>6 DEF vars
  <2>7. QED
    BY <2>1, <2>2, <2>3, <2>4, <2>5, <2>6 DEF Next
<1>3. TypeOK /\ DoneMeansEmpty /\ [Next]_vars => [ended > 0 => UNCHANGED taken]_vars
  <2> SUFFICES ASSUME TypeOK, DoneMeansEmpty, Next, ended > 0 PROVE UNCHANGED taken
    BY DEF vars
  <2>1. closed /\ size = 0
    BY DEF DoneMeansEmpty
  <2>2. CASE Push
    BY <2>1, <2>2 DEF Push, PushClosed, HandOver, Store, Overflow
  <2>3. CASE Shift \/ NextItem
    <3>1. ASSUME NEW r PROVE ~RemoveHead(r)
      BY <2>1 DEF RemoveHead
    <3>2. QED
      BY <2>3, <3>1 DEF Shift, NextItem
  <2>4. CASE Clear \/ Close
    BY <2>4 DEF Clear, Close
  <2>5. QED
    BY <2>2, <2>3, <2>4 DEF Next
<1>4. QED
  BY <1>1, <1>2, <1>3, TypeCorrect, ParkedIdle, PTL DEF Spec, DoneIsFinal

\* Under drop-oldest the i-th item held is the push that many before the last.
Fresh ==
  strategy = "drop-oldest" /\ ~closed => \A i \in 1 .. size : Contents[i] = pushed - size + i

\* With drop-oldest an open queue holds exactly the newest pushes: an overflow
\* gives up the oldest and nothing else, and a hand-over finds the queue empty.
THEOREM DropOldestKeepsNewest == Spec => []FreshestKept
<1>1. Init => Fresh
  BY DEF Init, Fresh
<1>2. TypeOK /\ TypeOK' /\ ParkedOnlyWhenIdle /\ Fresh /\ [Next]_vars => Fresh'
  <2> SUFFICES ASSUME TypeOK, TypeOK', ParkedOnlyWhenIdle, Fresh, [Next]_vars,
                      strategy' = "drop-oldest", ~closed', NEW i \in 1 .. size'
               PROVE  Contents'[i] = pushed' - size' + i
    BY DEF Fresh
  <2>1. /\ Contents \in Seq(Nat) /\ Len(Contents) = size /\ pushed \in Nat /\ pushed + 1 \in Nat
        /\ size \in Nat /\ MaxSize \in Nat \ {0} /\ size <= MaxSize
    <3>1. size \in 0 .. MaxSize /\ MaxSize \in Nat \ {0} /\ pushed \in Nat
      BY QueueAssumption DEF TypeOK
    <3>2. QED
      BY <3>1, ContentsList
  <2>2. ~closed /\ strategy = "drop-oldest"
    BY DEF Next, Push, Shift, NextItem, Clear, Close, vars
  <2>3. \A j \in 1 .. size : Contents[j] = pushed - size + j
    BY <2>2 DEF Fresh
  <2>4. CASE UNCHANGED ring /\ UNCHANGED pushed
    BY <2>3, <2>4, SameRing DEF ring
  <2>5. CASE Contents # <<>> /\ Contents' = Tail(Contents) /\ size' = size - 1 /\ UNCHANGED pushed
    <3>1. Contents'[i] = Contents[i + 1] /\ i + 1 \in 1 .. size
      BY <2>1, <2>5, HeadTailProperties
    <3>2. QED
      BY <2>1, <2>3, <2>5, <3>1
  <2>6. CASE Push /\ PushClosed
    BY <2>2, <2>6 DEF PushClosed
  <2>7. CASE Push /\ HandOver(pushed + 1)
    BY <2>7 DEF HandOver, Waiting, ParkedOnlyWhenIdle, ring
  <2>8. CASE Push /\ Store(pushed + 1)
    <3>1. Contents' = Append(Contents, pushed + 1) /\ size' = size + 1 /\ pushed' = pushed + 1
      BY <2>1, <2>8, PushFrame, StoreAppends DEF Store
    <3>2. CASE i = size + 1
      BY <2>1, <3>1, <3>2, AppendProperties
    <3>3. CASE i \in 1 .. size
      <4>1. Contents'[i] = Contents[i]
        BY <2>1, <3>1, <3>3, AppendProperties
      <4>2. QED
        BY <2>1, <2>3, <3>1, <3>3, <4>1
    <3>4. QED
      BY <2>1, <3>1, <3>2, <3>3
  <2>9. CASE Push /\ Overflow(pushed + 1)
    <3>1. size = MaxSize /\ size' = size /\ pushed' = pushed + 1
      BY <2>1, <2>9, PushFrame DEF Overflow, Fits
    <3>2. items' = [items EXCEPT ![head] = pushed + 1] /\ Advance
      BY <2>2, <2>9 DEF Overflow
    <3>3. Contents' = Append(Tail(Contents), pushed + 1)
      BY <2>1, <3>1, <3>2, OverflowRotates
    <3>4. /\ Tail(Contents) \in Seq(Nat) /\ Len(Tail(Contents)) = size - 1
          /\ \A j \in 1 .. size - 1 : Tail(Contents)[j] = Contents[j + 1]
      BY <2>1, <3>1, EmptySeq, HeadTailProperties
    <3>5. CASE i = size
      BY <2>1, <3>1, <3>3, <3>4, <3>5, AppendProperties
    <3>6. CASE i \in 1 .. size - 1
      <4>1. Contents'[i] = Contents[i + 1] /\ i + 1 \in 1 .. size
        BY <2>1, <3>3, <3>4, <3>6, AppendProperties
      <4>2. QED
        BY <2>1, <2>3, <3>1, <3>6, <4>1
    <3>7. QED
      BY <2>1, <3>1, <3>5, <3>6
  <2>10. CASE Shift
    BY <2>5, <2>10, RemoveTakesHead DEF Shift, RemoveHead
  <2>11. CASE NextItem
    <3>1. UNCHANGED pushed
      BY <2>11 DEF NextItem
    <3>2. CASE RemoveHead(asked + 1)
      BY <2>5, <3>1, <3>2, RemoveTakesHead DEF RemoveHead
    <3>3. CASE UNCHANGED ring
      BY <2>4, <3>1, <3>3
    <3>4. QED
      BY <2>11, <3>2, <3>3 DEF NextItem
  <2>12. CASE Clear
    BY <2>12 DEF Clear
  <2>13. CASE Close
    BY <2>4, <2>13 DEF Close
  <2>14. CASE UNCHANGED vars
    BY <2>4, <2>14 DEF vars, ring
  <2>15. QED
    BY <2>6, <2>7, <2>8, <2>9, <2>10, <2>11, <2>12, <2>13, <2>14 DEF Next, Push
<1>3. TypeOK /\ Fresh => FreshestKept
  BY DEF Fresh, FreshestKept, Contents
<1>4. QED
  BY <1>1, <1>2, <1>3, TypeCorrect, ParkedIdle, PTL DEF Spec

(***************************************************************************)
(* Every call of next() gets one answer                                    *)
(***************************************************************************)

\* next() calls are numbered from 1; the number 0 stands for shift().
ParkedNumbered == \A i \in 1 .. Len(waiters) : waiters[i] # 0

LEMMA Numbered == Spec => []ParkedNumbered
<1>1. Init => ParkedNumbered
  BY DEF Init, ParkedNumbered
<1>2. TypeOK /\ ParkedNumbered /\ [Next]_vars => ParkedNumbered'
  <2> SUFFICES ASSUME TypeOK, ParkedNumbered, [Next]_vars PROVE ParkedNumbered'
    OBVIOUS
  <2>0. waiters \in Seq(Nat) /\ Len(waiters) \in Nat /\ asked \in Nat
    BY DEF TypeOK
  <2>1. CASE waiters' = waiters
    BY <2>1 DEF ParkedNumbered
  <2>2. CASE waiters' = <<>>
    BY <2>2 DEF ParkedNumbered
  <2>3. CASE waiters # <<>> /\ waiters' = Tail(waiters)
    <3>1. /\ Len(Tail(waiters)) = Len(waiters) - 1
          /\ \A i \in 1 .. Len(waiters) - 1 : Tail(waiters)[i] = waiters[i + 1] /\ i + 1 \in 1 .. Len(waiters)
      BY <2>0, <2>3, EmptySeq, HeadTailProperties
    <3>2. QED
      BY <2>0, <2>3, <3>1 DEF ParkedNumbered
  <2>4. CASE waiters' = Append(waiters, asked + 1)
    <3>1. /\ asked + 1 \in Nat /\ asked + 1 # 0
          /\ Len(Append(waiters, asked + 1)) = Len(waiters) + 1
          /\ \A i \in 1 .. Len(waiters) : Append(waiters, asked + 1)[i] = waiters[i]
          /\ Append(waiters, asked + 1)[Len(waiters) + 1] = asked + 1
      BY <2>0, AppendProperties
    <3>2. ASSUME NEW i \in 1 .. Len(waiters) + 1 PROVE waiters'[i] # 0
      <4>1. i \in 1 .. Len(waiters) \/ i = Len(waiters) + 1
        BY <2>0
      <4>2. QED
        BY <2>4, <3>1, <4>1 DEF ParkedNumbered
    <3>3. QED
      BY <2>4, <3>1, <3>2 DEF ParkedNumbered
  <2>5. waiters' = waiters \/ waiters' = <<>> \/ (waiters # <<>> /\ waiters' = Tail(waiters))
        \/ waiters' = Append(waiters, asked + 1)
    BY DEF Next, Push, PushClosed, HandOver, Waiting, Unpark, Store, Overflow, Shift, NextItem, Clear, Close, vars
  <2>6. QED
    BY <2>1, <2>2, <2>3, <2>4, <2>5
<1>3. QED
  BY <1>1, <1>2, TypeCorrect, PTL DEF Spec

\* A delivery answers one call more if a reader got it, and none if shift() did.
LEMMA OneMoreServed ==
  ASSUME TypeOK, NEW r \in Nat, NEW x \in Nat, taken' = Append(taken, Delivery(r, x))
  PROVE  /\ Cardinality(ServedByNext) \in Nat
         /\ r # 0 => Cardinality(ServedByNext') = Cardinality(ServedByNext) + 1
         /\ r = 0 => ServedByNext' = ServedByNext
<1> DEFINE n == Len(taken)
<1>1. taken \in Seq([reader : Nat, item : Nat]) /\ n \in Nat /\ DOMAIN taken = 1 .. n
  BY LenProperties DEF TypeOK
<1>2. Delivery(r, x) \in [reader : Nat, item : Nat] /\ Delivery(r, x).reader = r
  BY DEF Delivery
<1>3. /\ DOMAIN taken' = 1 .. n + 1 /\ \A i \in 1 .. n : taken'[i] = taken[i]
      /\ taken'[n + 1] = Delivery(r, x)
  BY <1>1, <1>2, AppendProperties, LenProperties
<1> HIDE DEF n
<1>4. IsFiniteSet(ServedByNext) /\ n + 1 \notin ServedByNext
  <2>1. IsFiniteSet(1 .. n)
    BY <1>1, FS_Interval
  <2>2. ServedByNext \subseteq 1 .. n
    BY <1>1 DEF ServedByNext
  <2>3. n + 1 \notin 1 .. n
    BY <1>1
  <2>4. QED
    BY <2>1, <2>2, <2>3, FS_Subset
<1>5. ServedByNext' = ServedByNext \cup (IF r # 0 THEN {n + 1} ELSE {})
  <2>1. ServedByNext' = {i \in 1 .. n + 1 : taken'[i].reader # 0}
    BY <1>3 DEF ServedByNext
  <2>2. 1 .. n + 1 = (1 .. n) \cup {n + 1}
    BY <1>1
  <2>3. taken'[n + 1].reader = r
    BY <1>2, <1>3
  <2>4. QED
    BY <1>1, <1>3, <2>1, <2>2, <2>3 DEF ServedByNext
<1>6. Cardinality(ServedByNext) \in Nat
  BY <1>4, FS_CardinalityType
<1>7. CASE r # 0
  <2>1. ServedByNext' = ServedByNext \cup {n + 1}
    BY <1>5, <1>7
  <2>2. Cardinality(ServedByNext \cup {n + 1}) = Cardinality(ServedByNext) + 1
    BY <1>4, FS_AddElement
  <2>3. QED
    BY <1>6, <1>7, <2>1, <2>2
<1>8. CASE r = 0
  BY <1>5, <1>6, <1>8
<1>9. QED
  BY <1>7, <1>8

\* Every next() call was told the end, is still parked or got exactly one item: a
\* promise is neither resolved twice nor forgotten, for every mix of calls.
THEOREM EveryCallAnswered == Spec => []EveryReadAnswered
<1>1. Init => EveryReadAnswered
  <2> SUFFICES ASSUME Init PROVE EveryReadAnswered
    OBVIOUS
  <2>1. taken = <<>> /\ Len(waiters) = 0 /\ asked = 0 /\ ended = 0
    BY DEF Init
  <2>2. ServedByNext = {}
    BY <2>1 DEF ServedByNext
  <2>3. Cardinality(ServedByNext) = 0
    BY <2>2, FS_EmptySet
  <2>4. QED
    BY <2>1, <2>3 DEF EveryReadAnswered
<1>2. TypeOK /\ ParkedNumbered /\ EveryReadAnswered /\ [Next]_vars => EveryReadAnswered'
  <2> SUFFICES ASSUME TypeOK, ParkedNumbered, EveryReadAnswered, [Next]_vars PROVE EveryReadAnswered'
    OBVIOUS
  <2> DEFINE S == Cardinality(ServedByNext)
  <2>0. /\ waiters \in Seq(Nat) /\ Len(waiters) \in Nat /\ {asked, ended, pushed} \subseteq Nat
        /\ S \in Nat /\ asked = ended + Len(waiters) + S
    <3>1. IsFiniteSet(ServedByNext)
      <4>1. IsFiniteSet(DOMAIN taken)
        BY LenProperties, FS_Interval DEF TypeOK
      <4>2. QED
        BY <4>1, FS_Subset DEF ServedByNext
    <3>2. QED
      BY <3>1, FS_CardinalityType DEF TypeOK, EveryReadAnswered
  <2> HIDE DEF S
  <2>1. ASSUME taken' = taken PROVE Cardinality(ServedByNext') = S
    BY <2>1 DEF ServedByNext, S
  <2>2. ASSUME asked' = ended' + Len(waiters') + Cardinality(ServedByNext') PROVE EveryReadAnswered'
    BY <2>2 DEF EveryReadAnswered
  <2>3. CASE UNCHANGED <<asked, ended, waiters, taken>>
    BY <2>0, <2>1, <2>2, <2>3
  <2>4. CASE Push /\ HandOver(pushed + 1)
    <3>1. /\ taken' = Append(taken, Delivery(Head(waiters), pushed + 1)) /\ waiters' = Tail(waiters)
          /\ waiters # <<>> /\ UNCHANGED <<asked, ended>>
      BY <2>4, PushFrame DEF HandOver, Waiting, Unpark
    <3>2. Head(waiters) \in Nat /\ Head(waiters) # 0 /\ Len(waiters') = Len(waiters) - 1
      <4>1. Head(waiters) = waiters[1] /\ 1 \in 1 .. Len(waiters) /\ waiters[1] \in Nat
            /\ Len(Tail(waiters)) = Len(waiters) - 1
        BY <2>0, <3>1, EmptySeq, HeadTailProperties
      <4>2. QED
        BY <3>1, <4>1 DEF ParkedNumbered
    <3>3. Cardinality(ServedByNext') = S + 1
      BY <2>0, <3>1, <3>2, OneMoreServed DEF S
    <3>4. QED
      BY <2>0, <2>2, <3>1, <3>2, <3>3
  <2>5. CASE Shift
    <3>1. taken' = Append(taken, Delivery(0, items[head])) /\ UNCHANGED <<asked, ended, waiters>>
      BY <2>5 DEF Shift, RemoveHead
    <3>2. items[head] \in Nat
      BY DEF TypeOK
    <3>3. Cardinality(ServedByNext') = S
      BY <3>1, <3>2, OneMoreServed DEF S
    <3>4. QED
      BY <2>0, <2>2, <3>1, <3>3
  <2>6. CASE NextItem
    <3>0. asked' = asked + 1
      BY <2>6 DEF NextItem
    <3>1. CASE RemoveHead(asked + 1) /\ UNCHANGED <<waiters, ended>>
      <4>1. taken' = Append(taken, Delivery(asked + 1, items[head]))
        BY <3>1 DEF RemoveHead
      <4>2. items[head] \in Nat /\ asked + 1 \in Nat /\ asked + 1 # 0
        BY <2>0 DEF TypeOK
      <4>3. Cardinality(ServedByNext') = S + 1
        BY <4>1, <4>2, OneMoreServed DEF S
      <4>4. QED
        BY <2>0, <2>2, <3>0, <3>1, <4>3
    <3>2. CASE ended' = ended + 1 /\ UNCHANGED <<waiters, taken>>
      BY <2>0, <2>1, <2>2, <3>0, <3>2
    <3>3. CASE waiters' = Append(waiters, asked + 1) /\ UNCHANGED <<taken, ended>>
      <4>1. Len(waiters') = Len(waiters) + 1
        BY <2>0, <3>3, AppendProperties
      <4>2. QED
        BY <2>0, <2>1, <2>2, <3>0, <3>3, <4>1
    <3>4. QED
      BY <2>6, <3>1, <3>2, <3>3 DEF NextItem
  <2>7. CASE Close
    <3>1. ended' = ended + Len(waiters) /\ waiters' = <<>> /\ UNCHANGED <<asked, taken>>
      BY <2>7 DEF Close
    <3>2. Len(waiters') = 0
      BY <3>1
    <3>3. QED
      BY <2>0, <2>1, <2>2, <3>1, <3>2
  <2>8. CASE Clear \/ UNCHANGED vars \/ (Push /\ ~HandOver(pushed + 1))
    BY <2>3, <2>8 DEF Clear, vars, Push, PushClosed, Store, Overflow
  <2>9. QED
    BY <2>4, <2>5, <2>6, <2>7, <2>8 DEF Next
<1>3. QED
  BY <1>1, <1>2, TypeCorrect, Numbered, PTL DEF Spec
===============================================================================
