------------------------ MODULE TransactionEvents_proofs ------------------------
(***************************************************************************)
(* Proofs about TransactionEvents, for transactions of any length and depth *)
(* and any number of lost lines and unknown instructions.                   *)
(***************************************************************************)
EXTENDS TransactionEvents, SequenceTheorems, FiniteSetTheorems, WellFoundedInduction, TLAPS

(***************************************************************************)
(* Positions and induction                                                 *)
(***************************************************************************)

LEMMA LeastNat ==
  ASSUME NEW S, S \subseteq Nat, S # {}
  PROVE  \E n \in S : \A m \in S : n <= m
<1>1. PICK n \in S : \A m \in S : ~(<<m, n>> \in OpToRel(<, Nat))
  BY NatLessThanWellFounded, WFMin
<1>2. ASSUME NEW m \in S PROVE n <= m
  <2>1. m \in Nat /\ n \in Nat
    OBVIOUS
  <2>2. CASE m < n
    <3>1. <<m, n>> \in OpToRel(<, Nat)
      BY <2>1, <2>2 DEF OpToRel
    <3>2. QED
      BY <1>1, <3>1
  <2>3. QED
    BY <2>1, <2>2
<1>3. QED
  BY <1>2

\* What holds at 0 and is carried on from n - 1 to n holds up to N.
LEMMA Throughout ==
  ASSUME NEW N \in Nat, NEW K, 0 \in K, \A n \in 1 .. N : n - 1 \in K => n \in K
  PROVE  0 .. N \subseteq K
<1> DEFINE Bad == (0 .. N) \ K
<1> SUFFICES ASSUME Bad # {} PROVE FALSE
  OBVIOUS
<1>1. PICK n \in Bad : \A m \in Bad : n <= m
  <2>1. Bad \subseteq Nat
    OBVIOUS
  <2> HIDE DEF Bad
  <2>2. QED
    BY <2>1, LeastNat
<1>2. n \in 1 .. N /\ n - 1 \in 0 .. N /\ n - 1 < n
  OBVIOUS
<1>3. n - 1 \in K
  BY <1>1, <1>2
<1>4. QED
  BY <1>2, <1>3

LEMMA MinOfSome ==
  ASSUME NEW S, S \subseteq Nat, S # {}
  PROVE  Min(S) \in S /\ \A y \in S : Min(S) <= y
<1>1. \E n \in S : \A m \in S : n <= m
  BY LeastNat
<1>2. QED
  BY <1>1 DEF Min

\* LastOf is what its name says.
LEMMA LastIs ==
  ASSUME NEW N \in Nat, NEW S, S \subseteq 1 .. N
  PROVE  \/ S = {} /\ LastOf(S) = 0
         \/ LastOf(S) \in S /\ \A y \in S : y <= LastOf(S)
<1> SUFFICES ASSUME S # {} PROVE LastOf(S) \in S /\ \A y \in S : y <= LastOf(S)
  BY DEF LastOf
<1> DEFINE Bounds == {m \in Nat : \A y \in S : y <= m}
<1>1. PICK n \in Bounds : \A m \in Bounds : n <= m
  <2>1. Bounds \subseteq Nat /\ N \in Bounds
    OBVIOUS
  <2> HIDE DEF Bounds
  <2>2. QED
    BY <2>1, LeastNat
<1>2. n \in S
  <2> SUFFICES ASSUME n \notin S PROVE FALSE
    OBVIOUS
  <2>1. PICK y \in S : y <= n
    OBVIOUS
  <2>2. n - 1 \in Nat
    BY <2>1
  <2>3. ASSUME NEW z \in S PROVE z <= n - 1
    BY <2>2
  <2>4. n - 1 \in Bounds
    BY <2>2, <2>3
  <2>5. QED
    BY <1>1, <2>4
<1>3. \E x \in S : \A y \in S : x >= y
  BY <1>2
<1>4. Max(S) \in S /\ \A y \in S : Max(S) >= y
  BY <1>3 DEF Max
<1>5. QED
  BY <1>4 DEF LastOf

(***************************************************************************)
(* A create comes before its trades                                        *)
(***************************************************************************)

\* What third_program can be: the number of a top-level instruction, or whatever the
\* lines of the logs are attributed to.
Routers == Nat \cup {OuterIndex(n) : n \in DOMAIN logs}

Event == [kind : Kinds, key : Keys, router : Routers, from : SUBSET Nat, accounts : BOOLEAN,
          amounts : {"none", "limits", "executed"}]

\* Among the first i events, no trade is before the create of its mint.
CreatedBefore(events, i) ==
  \A a, b \in 1 .. i :
    events[a].kind = "trade" /\ events[b].kind = "create" /\ events[a].key = events[b].key => b < a

SameEvents(s, t) == s \in Seq(Event) /\ Len(s) = Len(t) /\ ToSet(s) = ToSet(t)

LEMMA MovedUnfolds ==
  ASSUME NEW events \in Seq(Event)
  PROVE  /\ MovedUpTo(events)[0] = events
         /\ \A i \in 1 .. Len(events) : MovedUpTo(events)[i] = Move(MovedUpTo(events)[i - 1], i)
<1> DEFINE N == Len(events)
           Goes(k, f) == f = [i \in 0 .. k |-> IF i = 0 THEN events ELSE Move(f[i - 1], i)]
           K == {k \in 0 .. N : \E f : Goes(k, f)}
<1>1. N \in Nat
  OBVIOUS
<1> HIDE DEF N
<1>2. 0 \in K
  <2>1. Goes(0, [i \in 0 .. 0 |-> events])
    OBVIOUS
  <2> HIDE DEF Goes
  <2>2. \E f : Goes(0, f)
    BY <2>1
  <2>3. QED
    BY <1>1, <2>2
<1>3. ASSUME NEW k \in 1 .. N, k - 1 \in K PROVE k \in K
  <2>1. PICK f : Goes(k - 1, f)
    BY <1>3
  <2> DEFINE g == [i \in 0 .. k |-> IF i = 0 THEN events ELSE Move(f[i - 1], i)]
  <2>2. \A i \in 0 .. k - 1 : g[i] = f[i]
    BY <2>1
  <2>3. g = [i \in 0 .. k |-> IF i = 0 THEN events ELSE Move(f[i - 1], i)]
    OBVIOUS
  <2> HIDE DEF g
  <2>4. Goes(k, g)
    <3>1. ASSUME NEW i \in 0 .. k, i # 0 PROVE f[i - 1] = g[i - 1]
      <4>1. i - 1 \in 0 .. k - 1
        BY <1>1, <3>1
      <4>2. QED
        BY <2>2, <4>1
    <3>2. QED
      BY <2>3, <3>1
  <2> HIDE DEF Goes
  <2>5. \E h : Goes(k, h)
    BY <2>4
  <2>6. QED
    BY <1>1, <2>5
<1>4. 0 .. N \subseteq K
  <2> HIDE DEF K
  <2> QED
    BY ONLY <1>1, <1>2, <1>3, Throughout
<1>5. \E f : Goes(N, f)
  <2>1. N \in K
    BY <1>1, <1>4
  <2> HIDE DEF Goes
  <2>2. QED
    BY <2>1
<1> DEFINE upTo[i \in 0 .. N] == IF i = 0 THEN events ELSE Move(upTo[i - 1], i)
<1>6. Goes(N, upTo)
  BY <1>5
<1>7. MovedUpTo(events) = upTo
  BY DEF MovedUpTo, N
<1> HIDE DEF upTo
<1>8. upTo[0] = events /\ \A i \in 1 .. N : upTo[i] = Move(upTo[i - 1], i)
  BY <1>1, <1>6
<1>9. QED
  BY <1>7, <1>8 DEF N

LEMMA Removed ==
  ASSUME NEW S, NEW s \in Seq(S), NEW i \in 1 .. Len(s)
  PROVE  /\ RemoveAt(s, i) \in Seq(S) /\ Len(RemoveAt(s, i)) = Len(s) - 1
         /\ \A k \in 1 .. Len(s) - 1 : RemoveAt(s, i)[k] = IF k < i THEN s[k] ELSE s[k + 1]
<1> DEFINE a == SubSeq(s, 1, i - 1)
           b == SubSeq(s, i + 1, Len(s))
<1>1. a \in Seq(S) /\ Len(a) = i - 1 /\ \A k \in 1 .. i - 1 : a[k] = s[k]
  OBVIOUS
<1>2. b \in Seq(S) /\ Len(b) = Len(s) - i /\ \A k \in 1 .. Len(s) - i : b[k] = s[k + i]
  OBVIOUS
<1>3. RemoveAt(s, i) = a \o b
  BY DEF RemoveAt
<1> HIDE DEF a, b
<1> DEFINE t == a \o b
<1>4. /\ t \in Seq(S) /\ Len(t) = Len(s) - 1
      /\ \A k \in 1 .. Len(s) - 1 : t[k] = IF k <= i - 1 THEN a[k] ELSE b[k - (i - 1)]
  <2>1. /\ t \in Seq(S) /\ Len(t) = Len(a) + Len(b)
        /\ \A k \in 1 .. Len(a) + Len(b) : t[k] = IF k <= Len(a) THEN a[k] ELSE b[k - Len(a)]
    BY <1>1, <1>2, ConcatProperties
  <2> HIDE DEF t
  <2>2. QED
    BY <1>1, <1>2, <2>1
<1> HIDE DEF t
<1>5. ASSUME NEW k \in 1 .. Len(s) - 1
      PROVE  t[k] = IF k < i THEN s[k] ELSE s[k + 1]
  <2>1. CASE k < i
    BY <1>1, <1>4, <2>1
  <2>2. CASE k >= i
    <3>1. k - (i - 1) \in 1 .. Len(s) - i /\ k - (i - 1) + i = k + 1
      BY <2>2
    <3>2. t[k] = b[k - (i - 1)]
      BY <1>4, <2>2
    <3>3. QED
      BY <1>2, <2>2, <3>1, <3>2
  <2>3. QED
    BY <2>1, <2>2
<1>6. QED
  BY <1>3, <1>4, <1>5 DEF t

LEMMA Inserted ==
  ASSUME NEW S, NEW s \in Seq(S), NEW i \in 1 .. Len(s) + 1, NEW e \in S
  PROVE  /\ InsertAt(s, i, e) \in Seq(S) /\ Len(InsertAt(s, i, e)) = Len(s) + 1
         /\ \A k \in 1 .. Len(s) + 1 :
              InsertAt(s, i, e)[k] = IF k < i THEN s[k] ELSE IF k = i THEN e ELSE s[k - 1]
<1> DEFINE a == SubSeq(s, 1, i - 1)
           b == SubSeq(s, i, Len(s))
           c == a \o <<e>>
<1>1. a \in Seq(S) /\ Len(a) = i - 1 /\ \A k \in 1 .. i - 1 : a[k] = s[k]
  OBVIOUS
<1>2. /\ b \in Seq(S) /\ Len(b) = Len(s) - i + 1
      /\ \A k \in 1 .. Len(s) - i + 1 : b[k] = s[k + i - 1]
  OBVIOUS
<1>3. InsertAt(s, i, e) = c \o b
  BY DEF InsertAt
<1> HIDE DEF a, b
<1>4. c \in Seq(S) /\ Len(c) = i /\ \A k \in 1 .. i : c[k] = IF k < i THEN s[k] ELSE e
  BY <1>1
<1> HIDE DEF c
<1> DEFINE t == c \o b
<1>5. /\ t \in Seq(S) /\ Len(t) = Len(s) + 1
      /\ \A k \in 1 .. Len(s) + 1 : t[k] = IF k <= i THEN c[k] ELSE b[k - i]
  <2>1. /\ t \in Seq(S) /\ Len(t) = Len(c) + Len(b)
        /\ \A k \in 1 .. Len(c) + Len(b) : t[k] = IF k <= Len(c) THEN c[k] ELSE b[k - Len(c)]
    BY <1>2, <1>4, ConcatProperties
  <2> HIDE DEF t
  <2>2. QED
    BY <1>2, <1>4, <2>1
<1> HIDE DEF t
<1>6. ASSUME NEW k \in 1 .. Len(s) + 1
      PROVE  t[k] = IF k < i THEN s[k] ELSE IF k = i THEN e ELSE s[k - 1]
  <2>1. CASE k <= i
    BY <1>4, <1>5, <2>1
  <2>2. CASE k > i
    <3>1. k - i \in 1 .. Len(s) - i + 1 /\ k - i + i - 1 = k - 1
      BY <2>2
    <3>2. t[k] = b[k - i]
      BY <1>5, <2>2
    <3>3. QED
      BY <1>2, <2>2, <3>1, <3>2
  <2>3. QED
    BY <2>1, <2>2
<1>7. QED
  BY <1>3, <1>5, <1>6 DEF t

\* Where Move takes the events from: position f gets the event of position i.
LEMMA MovedFrom ==
  ASSUME NEW S, NEW s \in Seq(S), NEW i \in 1 .. Len(s), NEW f \in 1 .. i - 1
  PROVE  LET t == InsertAt(RemoveAt(s, i), f, s[i])
         IN  /\ t \in Seq(S) /\ Len(t) = Len(s)
             /\ \A k \in 1 .. Len(s) :
                  t[k] = IF k = f THEN s[i] ELSE IF k \in f + 1 .. i THEN s[k - 1] ELSE s[k]
<1> DEFINE r == RemoveAt(s, i)
           t == InsertAt(r, f, s[i])
<1>1. /\ r \in Seq(S) /\ Len(r) = Len(s) - 1
      /\ \A k \in 1 .. Len(s) - 1 : r[k] = IF k < i THEN s[k] ELSE s[k + 1]
  BY Removed
<1> HIDE DEF r
<1>2. f \in 1 .. Len(r) + 1 /\ s[i] \in S
  BY <1>1
<1>3. /\ t \in Seq(S) /\ Len(t) = Len(r) + 1
      /\ \A k \in 1 .. Len(r) + 1 : t[k] = IF k < f THEN r[k] ELSE IF k = f THEN s[i] ELSE r[k - 1]
  <2> DEFINE e == s[i]
  <2>1. r \in Seq(S) /\ f \in 1 .. Len(r) + 1 /\ e \in S
    BY <1>1, <1>2
  <2>2. t = InsertAt(r, f, e)
    OBVIOUS
  <2> HIDE DEF e, t
  <2>3. /\ InsertAt(r, f, e) \in Seq(S) /\ Len(InsertAt(r, f, e)) = Len(r) + 1
        /\ \A k \in 1 .. Len(r) + 1 : InsertAt(r, f, e)[k] = IF k < f THEN r[k] ELSE IF k = f THEN e ELSE r[k - 1]
    BY ONLY <2>1, Inserted
  <2>4. QED
    BY ONLY <2>2, <2>3 DEF e
<1> HIDE DEF t
<1>4. ASSUME NEW k \in 1 .. Len(s)
      PROVE  t[k] = IF k = f THEN s[i] ELSE IF k \in f + 1 .. i THEN s[k - 1] ELSE s[k]
  <2>1. t[k] = IF k < f THEN r[k] ELSE IF k = f THEN s[i] ELSE r[k - 1]
    BY <1>1, <1>3
  <2>2. CASE k < f
    BY <1>1, <2>1, <2>2
  <2>3. CASE k \in f + 1 .. i
    <3>1. k - 1 \in 1 .. Len(s) - 1 /\ k - 1 < i
      BY <2>3
    <3>2. QED
      BY <1>1, <2>1, <2>3, <3>1
  <2>4. CASE k > i
    <3>1. k - 1 \in 1 .. Len(s) - 1 /\ ~(k - 1 < i) /\ k - 1 + 1 = k
      BY <2>4
    <3>2. QED
      BY <1>1, <2>1, <2>4, <3>1
  <2>5. QED
    BY <2>1, <2>2, <2>3, <2>4
<1>5. QED
  BY <1>1, <1>3, <1>4 DEF r, t

LEMMA MoveKeeps ==
  ASSUME NEW s \in Seq(Event), NEW i \in 1 .. Len(s), CreatedBefore(s, i - 1)
  PROVE  SameEvents(Move(s, i), s) /\ CreatedBefore(Move(s, i), i)
<1> DEFINE before == {j \in 1 .. i - 1 : s[j].kind = "trade" /\ s[j].key = s[i].key}
           f == Min(before)
           t == InsertAt(RemoveAt(s, i), f, s[i])
<1>1. CASE ~(s[i].kind = "create" /\ before # {})
  <2>1. Move(s, i) = s
    BY <1>1 DEF Move
  <2>2. CreatedBefore(s, i)
    <3> SUFFICES ASSUME NEW a \in 1 .. i, NEW b \in 1 .. i, s[a].kind = "trade", s[b].kind = "create",
                        s[a].key = s[b].key
                 PROVE  b < a
      BY DEF CreatedBefore
    <3>1. CASE a = i
      BY <3>1
    <3>2. CASE a # i /\ b = i
      <4>1. a \in before
        BY <3>2
      <4>2. QED
        BY <1>1, <3>2, <4>1
    <3>3. CASE a # i /\ b # i
      <4>1. a \in 1 .. i - 1 /\ b \in 1 .. i - 1
        BY <3>3
      <4>2. QED
        BY <4>1 DEF CreatedBefore
    <3>4. QED
      BY <3>1, <3>2, <3>3
  <2>3. QED
    BY <2>1, <2>2 DEF SameEvents
<1>2. CASE s[i].kind = "create" /\ before # {}
  <2>1. Move(s, i) = t
    BY <1>2 DEF Move
  <2>2. f \in before /\ \A j \in before : f <= j
    <3>1. before \subseteq Nat
      OBVIOUS
    <3> HIDE DEF before
    <3>2. QED
      BY <1>2, <3>1, MinOfSome
  <2>3. f \in 1 .. i - 1
    BY <2>2
  <2> HIDE DEF f
  <2>4. /\ t \in Seq(Event) /\ Len(t) = Len(s)
        /\ \A k \in 1 .. Len(s) :
             t[k] = IF k = f THEN s[i] ELSE IF k \in f + 1 .. i THEN s[k - 1] ELSE s[k]
    BY <2>3, MovedFrom
  <2> HIDE DEF t
  <2>5. ToSet(t) = ToSet(s)
    <3>1. ASSUME NEW k \in 1 .. Len(s) PROVE t[k] \in ToSet(s)
      <4>1. CASE k \in f + 1 .. i
        <5>1. t[k] = s[k - 1] /\ k - 1 \in 1 .. Len(s)
          BY <2>3, <2>4, <4>1
        <5>2. QED
          BY <5>1 DEF ToSet
      <4>2. CASE k \notin f + 1 .. i
        <5>1. t[k] = s[i] \/ t[k] = s[k]
          BY <2>4, <4>2
        <5>2. QED
          BY <5>1 DEF ToSet
      <4>3. QED
        BY <4>1, <4>2
    <3>2. ASSUME NEW k \in 1 .. Len(s) PROVE s[k] \in ToSet(t)
      <4>1. CASE k = i
        <5>1. t[f] = s[i] /\ f \in 1 .. Len(s)
          BY <2>3, <2>4
        <5>2. QED
          BY <2>4, <4>1, <5>1 DEF ToSet
      <4>2. CASE k \in f .. i - 1
        <5>1. k + 1 \in 1 .. Len(s) /\ k + 1 # f /\ k + 1 \in f + 1 .. i /\ k + 1 - 1 = k
          BY <2>3, <4>2
        <5>2. t[k + 1] = s[k]
          BY <2>4, <5>1
        <5>3. QED
          BY <2>4, <5>1, <5>2 DEF ToSet
      <4>3. CASE k \notin f .. i
        <5>1. t[k] = s[k]
          BY <2>3, <2>4, <4>3
        <5>2. QED
          BY <2>4, <5>1 DEF ToSet
      <4>4. QED
        BY <2>3, <4>1, <4>2, <4>3
    <3>3. QED
      BY <2>4, <3>1, <3>2 DEF ToSet
  <2>6. CreatedBefore(t, i)
    <3> SUFFICES ASSUME NEW a \in 1 .. i, NEW b \in 1 .. i, t[a].kind = "trade", t[b].kind = "create",
                        t[a].key = t[b].key
                 PROVE  b < a
      BY DEF CreatedBefore
    <3>1. a # f
      BY <1>2, <2>3, <2>4
    <3> DEFINE p == IF a < f THEN a ELSE a - 1
               q == IF b < f THEN b ELSE b - 1
    <3>2. p \in 1 .. i - 1 /\ t[a] = s[p]
      BY <2>3, <2>4, <3>1
    <3>3. CASE b = f
      <4>1. t[b] = s[i]
        BY <2>4, <3>3
      <4>2. p \in before
        BY <3>2, <4>1
      <4>3. f <= p
        BY <2>2, <4>2
      <4>4. QED
        BY <2>3, <3>3, <4>3
    <3>4. CASE b # f
      <4>1. q \in 1 .. i - 1 /\ t[b] = s[q]
        BY <2>3, <2>4, <3>4
      <4>2. q < p
        BY <3>2, <4>1 DEF CreatedBefore
      <4>3. QED
        BY <2>3, <3>1, <3>4, <4>2
    <3>5. QED
      BY <3>3, <3>4
  <2>7. QED
    BY <2>1, <2>4, <2>5, <2>6 DEF SameEvents
<1>3. QED
  BY <1>1, <1>2

LEMMA CreatesMoved ==
  ASSUME NEW events \in Seq(Event)
  PROVE  /\ SameEvents(CreatesFirst(events), events)
         /\ CreatedBefore(CreatesFirst(events), Len(events))
<1> DEFINE N == Len(events)
           at == MovedUpTo(events)
           K == {n \in 0 .. N : SameEvents(at[n], events) /\ CreatedBefore(at[n], n)}
<1>1. at[0] = events /\ \A i \in 1 .. N : at[i] = Move(at[i - 1], i)
  BY MovedUnfolds
<1> HIDE DEF at
<1>2. N \in Nat
  OBVIOUS
<1>3. 0 \in K
  BY <1>1 DEF SameEvents, CreatedBefore
<1>4. ASSUME NEW n \in 1 .. N, n - 1 \in K PROVE n \in K
  <2>1. at[n - 1] \in Seq(Event) /\ Len(at[n - 1]) = N /\ ToSet(at[n - 1]) = ToSet(events)
    BY <1>4 DEF SameEvents
  <2>2. CreatedBefore(at[n - 1], n - 1) /\ n \in 1 .. Len(at[n - 1])
    BY <1>4, <2>1
  <2>3. SameEvents(at[n], at[n - 1]) /\ CreatedBefore(at[n], n)
    BY <1>1, <2>1, <2>2, MoveKeeps
  <2>4. QED
    BY <2>1, <2>3 DEF SameEvents
<1>5. N \in K
  <2> HIDE DEF K, N
  <2>1. 0 .. N \subseteq K
    BY <1>2, <1>3, <1>4, Throughout
  <2>2. QED
    BY <1>2, <2>1
<1>6. QED
  BY <1>5 DEF CreatesFirst, at

(***************************************************************************)
(* The invariant of the runtime                                            *)
(***************************************************************************)

Programs == {"pump", "foreign", "swap", "dlmm"}

Call    == [kind : Kinds, key : Keys, known : BOOLEAN, depth : Nat \ {0}, of : Nat, outer : Nat]
LogLine == [line : {"invoke", "data", "done"}, program : Programs, depth : Nat \ {0},
            kind : Kinds, key : Keys, id : Nat]

TypeOK ==
  /\ calls \in Seq(Call) /\ stack \in Seq(Nat) /\ emitted \subseteq DOMAIN calls
  /\ logs \in Seq(LogLine) /\ lost \in Nat /\ room \in {"ample", "scarce"}

IsCpi(c)      == calls[c].of # Nothing
IsPlain(c)    == calls[c].of = Nothing
IsOuter(c)    == calls[c].depth = 1
OutersUpTo(c) == {d \in 1 .. c : calls[d].depth = 1}

\* The stack holds one call per depth, the first the last top-level instruction.
Stacked ==
  /\ \A i \in DOMAIN stack : stack[i] \in DOMAIN calls /\ calls[stack[i]].depth = i /\ IsPlain(stack[i])
  /\ \A i, j \in DOMAIN stack : i < j => stack[i] < stack[j]
  /\ stack # <<>> => \A c \in DOMAIN calls : IsOuter(c) => c <= stack[1]
  /\ result # Unparsed => stack = <<>>

\* Every call belongs to the last top-level instruction before it, and an inner one
\* can only be there if that is a router or a trade.
Nested ==
  /\ \A c \in DOMAIN calls : calls[c].outer = Cardinality(OutersUpTo(c))
  /\ \A c, d \in DOMAIN calls :
       IsPlain(c) /\ ~IsOuter(c) /\ IsOuter(d) /\ calls[d].outer = calls[c].outer
         => calls[d].kind \in {"router", "trade"}
  /\ \A c \in DOMAIN calls : (IsOuter(c) => IsPlain(c)) /\ calls[c].outer # 0

\* An event CPI comes right after the call it is of.
CpiFollows ==
  \A c \in DOMAIN calls : IsCpi(c) =>
    /\ c > 1 /\ calls[c].of = c - 1 /\ IsPlain(c - 1) /\ HasCpi(calls[c].kind) /\ calls[c].known
    /\ calls[c].kind = calls[c - 1].kind /\ calls[c].key = calls[c - 1].key
    /\ calls[c].outer = calls[c - 1].outer /\ calls[c].depth = calls[c - 1].depth + 1

\* Only the newest call can still have its event before it.
Emits ==
  /\ \A c \in DOMAIN calls : IsPlain(c) /\ calls[c].kind # "router" /\ c \notin emitted =>
       stack # <<>> /\ c = Top /\ c = Len(calls)
  /\ \A c \in emitted : IsPlain(c) /\ calls[c].kind # "router"
  /\ \A c \in emitted : HasCpi(calls[c].kind) => c + 1 \in DOMAIN calls /\ calls[c + 1].of = c

Undecoded == \A c \in DOMAIN calls : ~calls[c].known => calls[c].kind \in {"trade", "swap"}

CreatedOnce ==
  \A c, d \in DOMAIN calls :
    IsPlain(c) /\ IsPlain(d) /\ calls[c].kind = "create" /\ calls[d].kind = "create"
      /\ calls[c].key = calls[d].key => c = d

(***************************************************************************)
(* What the logs tell                                                      *)
(***************************************************************************)

IsData(i) == logs[i].line = "data"
IsTop(i)  == IsTopInvoke(logs[i])

\* Data lines are of executions, top-level invocations of instructions.
LinesTrue ==
  \A i \in DOMAIN logs :
    /\ logs[i].program = Program(logs[i].kind)
    /\ IsData(i) =>
         /\ logs[i].id \in emitted /\ HasLog(logs[i].kind)
         /\ logs[i].kind = calls[logs[i].id].kind /\ logs[i].key = calls[logs[i].id].key
    /\ IsTop(i) =>
         /\ logs[i].id \in DOMAIN calls /\ IsOuter(logs[i].id)
         /\ logs[i].kind = calls[logs[i].id].kind

\* They come in the order of the calls, an invocation before the data.
LinesAscend ==
  \A i, j \in DOMAIN logs :
    /\ i < j /\ IsData(i) /\ IsData(j) => logs[i].id < logs[j].id
    /\ i < j /\ IsTop(i) /\ IsTop(j) => logs[i].id < logs[j].id
    /\ i < j /\ IsTop(i) /\ IsData(j) => logs[i].id <= logs[j].id
    /\ i < j /\ IsData(i) /\ IsTop(j) => logs[i].id < logs[j].id

\* With nothing lost all are there.
LinesComplete ==
  /\ lost = 0 => \A c \in emitted : HasLog(calls[c].kind) => \E i \in DOMAIN logs : IsData(i) /\ logs[i].id = c
  /\ lost = 0 \/ (LosesTail /\ room = "ample") =>
       \A d \in DOMAIN calls : IsOuter(d) => \E i \in DOMAIN logs : IsTop(i) /\ logs[i].id = d

\* A data line is only there if all top-level invocations before it are.
Introduced ==
  lost = 0 \/ LosesTail =>
    \A k \in DOMAIN logs : IsData(k) =>
      \A d \in 1 .. logs[k].id : IsOuter(d) => \E i \in 1 .. k : IsTop(i) /\ logs[i].id = d

\* The program stack of the scan after a line, and its way through lines ls to the end
\* P; every data line on that way is in scope.
ScopeAfter(active, l) ==
  CASE l.line = "invoke" -> Cut(active, l) [] l.line = "done" -> Completed(active, l) [] OTHER -> active

Traced(ls, P) ==
  \E active : /\ DOMAIN active = 0 .. Len(ls) /\ active[0] = <<>> /\ active[Len(ls)] = P
              /\ \A n \in 1 .. Len(ls) :
                   /\ active[n] = ScopeAfter(active[n - 1], ls[n])
                   /\ ls[n].line = "data" => InScope(active[n - 1], ls[n])

\* As long as nothing is lost, it follows the call stack.
InStack == [i \in DOMAIN stack |-> Program(calls[stack[i]].kind)]

Scoped == lost = 0 => Traced(logs, InStack)

CallInv == TypeOK /\ Stacked /\ Nested /\ CpiFollows /\ Emits /\ Undecoded /\ CreatedOnce
LineInv == LinesTrue /\ LinesAscend /\ LinesComplete /\ Introduced
IInv    == CallInv /\ LineInv /\ Scoped

LEMMA ProgramOf == ASSUME NEW kind \in Kinds PROVE Program(kind) \in Programs
BY DEF Kinds, Program, Programs

\* What a step does to the records of the logs.
Recorded(lines) ==
  /\ logs' \in Seq(LogLine) /\ Len(logs) <= Len(logs') /\ \A i \in DOMAIN logs : logs'[i] = logs[i]
  /\ \A k \in Len(logs) + 1 .. Len(logs') :
       \E j \in DOMAIN lines : /\ logs'[k] = lines[j] /\ (j = 1 => k = Len(logs) + 1)
                               /\ room = "scarce" => lines[j].line = "done"
  /\ lost' \in Nat /\ lost <= lost' /\ room' \in {"ample", "scarce"}
  /\ lost' = 0 => /\ Len(logs') = Len(logs) + Len(lines)
                  /\ \A j \in DOMAIN lines : logs'[Len(logs) + j] = lines[j]
  /\ LosesTail /\ room' = "ample" =>
       /\ room = "ample"
       /\ lines[1].line # "data" => Len(logs) < Len(logs') /\ logs'[Len(logs) + 1] = lines[1]

\* At most three more elements at the end of a list.
Optional(n, e) == IF n = 1 THEN <<e>> ELSE <<>>

JoinedAs(S, s, n1, n2, n3, e1, e2, e3, t) ==
  /\ t \in Seq(S) /\ Len(t) = Len(s) + n1 + n2 + n3 /\ \A k \in 1 .. Len(s) : t[k] = s[k]
  /\ n1 = 1 => t[Len(s) + 1] = e1
  /\ n2 = 1 => t[Len(s) + n1 + 1] = e2
  /\ n3 = 1 => t[Len(s) + n1 + n2 + 1] = e3

LEMMA Parts ==
  ASSUME NEW S, NEW s \in Seq(S), NEW n1 \in {0, 1}, NEW n2 \in {0, 1}, NEW n3 \in {0, 1},
         NEW e1, NEW e2, NEW e3, n1 = 1 => e1 \in S, n2 = 1 => e2 \in S, n3 = 1 => e3 \in S,
         NEW t, t = s \o Optional(n1, e1) \o Optional(n2, e2) \o Optional(n3, e3)
  PROVE  JoinedAs(S, s, n1, n2, n3, e1, e2, e3, t)
<1>1. ASSUME NEW x \in Seq(S), NEW n \in {0, 1}, NEW e, n = 1 => e \in S, NEW q,
             q = IF n = 1 THEN <<e>> ELSE <<>>, NEW y, y = x \o q
      PROVE  /\ y \in Seq(S) /\ Len(y) = Len(x) + n /\ \A k \in 1 .. Len(x) : y[k] = x[k]
             /\ n = 1 => y[Len(x) + 1] = e
  <2>1. CASE n = 1
    <3>1. y = Append(x, e)
      BY <1>1, <2>1
    <3>2. QED
      BY <1>1, <2>1, <3>1
  <2>2. CASE n = 0
    <3>1. y = x
      BY <1>1, <2>2
    <3>2. QED
      BY <1>1, <2>2, <3>1
  <2>3. QED
    BY <2>1, <2>2
<1> DEFINE p1 == Optional(n1, e1)
           p2 == Optional(n2, e2)
           p3 == Optional(n3, e3)
           a == s \o p1
           b == a \o p2
<1>0. /\ p1 = IF n1 = 1 THEN <<e1>> ELSE <<>>
      /\ p2 = IF n2 = 1 THEN <<e2>> ELSE <<>>
      /\ p3 = IF n3 = 1 THEN <<e3>> ELSE <<>>
  BY DEF Optional
<1> HIDE DEF p1, p2, p3
<1>2. /\ a \in Seq(S) /\ Len(a) = Len(s) + n1 /\ \A k \in 1 .. Len(s) : a[k] = s[k]
      /\ n1 = 1 => a[Len(s) + 1] = e1
  BY ONLY <1>1, s \in Seq(S), n1 \in {0, 1}, n1 = 1 => e1 \in S, <1>0
<1>3. t = b \o p3
  BY DEF p1, p2, p3
<1>4. b = a \o p2
  OBVIOUS
<1> HIDE DEF a, b
<1>5. /\ b \in Seq(S) /\ Len(b) = Len(a) + n2 /\ \A k \in 1 .. Len(a) : b[k] = a[k]
      /\ n2 = 1 => b[Len(a) + 1] = e2
  BY ONLY <1>1, <1>2, <1>4, n2 \in {0, 1}, n2 = 1 => e2 \in S, <1>0
<1>6. /\ t \in Seq(S) /\ Len(t) = Len(b) + n3 /\ \A k \in 1 .. Len(b) : t[k] = b[k]
      /\ n3 = 1 => t[Len(b) + 1] = e3
  BY ONLY <1>1, <1>3, <1>5, n3 \in {0, 1}, n3 = 1 => e3 \in S, <1>0
<1>7. Len(s) \in Nat /\ Len(a) = Len(s) + n1 /\ Len(b) = Len(s) + n1 + n2
  BY <1>2, <1>5
<1>8. \A k \in 1 .. Len(s) : t[k] = s[k]
  BY ONLY <1>2, <1>5, <1>6, <1>7, n1 \in {0, 1}, n2 \in {0, 1}
<1>9. n1 = 1 => t[Len(s) + 1] = e1
  BY ONLY <1>2, <1>5, <1>6, <1>7, n1 \in {0, 1}, n2 \in {0, 1}
<1>10. n2 = 1 => t[Len(s) + n1 + 1] = e2
  BY ONLY <1>5, <1>6, <1>7, n1 \in {0, 1}, n2 \in {0, 1}
<1>11. QED
  BY ONLY <1>6, <1>7, <1>8, <1>9, <1>10 DEF JoinedAs

LEMMA RecordedBy ==
  ASSUME TypeOK, NEW lines \in Seq(LogLine), Len(lines) \in 1 .. 3, Record(lines)
  PROVE  Recorded(lines)
<1>1. PICK i \in 0 .. Len(lines) :
        LET full(j) == room = "scarce" \/ (LosesTail /\ i \in 1 .. (j - 1) /\ lines[i].line # "data")
            kept(j) == j \in DOMAIN lines /\ j # i /\ (full(j) => lines[j].line = "done")
            part(j) == IF kept(j) THEN <<lines[j]>> ELSE <<>>
        IN  /\ logs' = logs \o part(1) \o part(2) \o part(3)
            /\ lost' = lost + Len(lines) - (Len(logs') - Len(logs))
            /\ room' = IF LosesTail /\ i # 0 /\ lines[i].line # "data" THEN "scarce" ELSE room
  BY DEF Record
<1> DEFINE full(j) == room = "scarce" \/ (LosesTail /\ i \in 1 .. (j - 1) /\ lines[i].line # "data")
           kept(j) == j \in DOMAIN lines /\ j # i /\ (full(j) => lines[j].line = "done")
           part(j) == IF kept(j) THEN <<lines[j]>> ELSE <<>>
           n1 == IF kept(1) THEN 1 ELSE 0
           n2 == IF kept(2) THEN 1 ELSE 0
           n3 == IF kept(3) THEN 1 ELSE 0
           L == Len(logs)
           M == Len(lines)
<1>2. logs' = logs \o part(1) \o part(2) \o part(3) /\ lost' = lost + Len(lines) - (Len(logs') - Len(logs))
  BY <1>1
<1>3. room' = IF LosesTail /\ i # 0 /\ lines[i].line # "data" THEN "scarce" ELSE room
  BY <1>1
<1>4. /\ logs \in Seq(LogLine) /\ lost \in Nat /\ room \in {"ample", "scarce"}
      /\ M \in 1 .. 3 /\ DOMAIN lines = 1 .. M /\ L \in Nat
  BY DEF TypeOK
<1>5. n1 \in {0, 1} /\ n2 \in {0, 1} /\ n3 \in {0, 1}
  OBVIOUS
<1>6. \A j \in DOMAIN lines : lines[j] \in LogLine
  OBVIOUS
<1>7. /\ n1 = 1 <=> kept(1)
      /\ n2 = 1 <=> kept(2)
      /\ n3 = 1 <=> kept(3)
  OBVIOUS
<1>8. \A j : kept(j) => j \in DOMAIN lines /\ (room = "scarce" => lines[j].line = "done")
  OBVIOUS
<1>9. room = "ample" /\ (i # 0 => lines[i].line = "data") /\ lines[1].line # "data" => kept(1)
  BY <1>4
<1> HIDE DEF kept
<1>10. /\ part(1) = IF n1 = 1 THEN <<lines[1]>> ELSE <<>>
       /\ part(2) = IF n2 = 1 THEN <<lines[2]>> ELSE <<>>
       /\ part(3) = IF n3 = 1 THEN <<lines[3]>> ELSE <<>>
  OBVIOUS
<1> HIDE DEF n1, n2, n3, part, L, M
<1>11. /\ n1 = 1 => lines[1] \in LogLine
       /\ n2 = 1 => lines[2] \in LogLine
       /\ n3 = 1 => lines[3] \in LogLine
  BY <1>6, <1>7, <1>8
<1>12. /\ logs' \in Seq(LogLine) /\ Len(logs') = L + n1 + n2 + n3 /\ \A k \in 1 .. L : logs'[k] = logs[k]
       /\ n1 = 1 => logs'[L + 1] = lines[1]
       /\ n2 = 1 => logs'[L + n1 + 1] = lines[2]
       /\ n3 = 1 => logs'[L + n1 + n2 + 1] = lines[3]
  <2>1. logs \in Seq(LogLine)
    BY <1>4
  <2>2. logs' = logs \o part(1) \o part(2) \o part(3)
    BY <1>2
  <2> DEFINE e1 == lines[1]
             e2 == lines[2]
             e3 == lines[3]
             t  == logs'
  <2>3. t = logs \o Optional(n1, e1) \o Optional(n2, e2) \o Optional(n3, e3)
    <3>1. part(1) = Optional(n1, e1) /\ part(2) = Optional(n2, e2) /\ part(3) = Optional(n3, e3)
      BY <1>10 DEF Optional
    <3>2. QED
      BY <2>2, <3>1
  <2>5. (n1 = 1 => e1 \in LogLine) /\ (n2 = 1 => e2 \in LogLine) /\ (n3 = 1 => e3 \in LogLine)
    BY <1>11
  <2> HIDE DEF e1, e2, e3, t
  <2>4. JoinedAs(LogLine, logs, n1, n2, n3, e1, e2, e3, t)
    BY ONLY <1>5, <2>1, <2>3, <2>5, Parts
  <2>6. QED
    BY <2>4 DEF e1, e2, e3, t, L, JoinedAs
<1>13. ASSUME NEW k \in L + 1 .. Len(logs')
       PROVE  \E j \in DOMAIN lines : /\ logs'[k] = lines[j] /\ (j = 1 => k = L + 1)
                                      /\ room = "scarce" => lines[j].line = "done"
  <2>1. (n1 = 1 /\ k = L + 1) \/ (n2 = 1 /\ k = L + n1 + 1) \/ (n3 = 1 /\ k = L + n1 + n2 + 1)
    <3>1. L \in Nat /\ n1 \in {0, 1} /\ n2 \in {0, 1} /\ n3 \in {0, 1} /\ k \in L + 1 .. L + n1 + n2 + n3
      BY <1>4, <1>5, <1>12
    <3>2. QED
      BY ONLY <3>1
  <2>2. CASE n1 = 1 /\ k = L + 1
    BY <1>7, <1>8, <1>12, <2>2
  <2>3. CASE n2 = 1 /\ k = L + n1 + 1
    <3>1. kept(2) /\ logs'[k] = lines[2]
      BY <1>7, <1>12, <2>3
    <3>2. QED
      BY <1>8, <3>1
  <2>4. CASE n3 = 1 /\ k = L + n1 + n2 + 1
    <3>1. kept(3) /\ logs'[k] = lines[3]
      BY <1>7, <1>12, <2>4
    <3>2. QED
      BY <1>8, <3>1
  <2>5. QED
    BY <2>1, <2>2, <2>3, <2>4
<1>14. (n1 = 1 => M >= 1) /\ (n2 = 1 => M >= 2) /\ (n3 = 1 => M >= 3)
  <2>1. (n1 = 1 => 1 \in 1 .. M) /\ (n2 = 1 => 2 \in 1 .. M) /\ (n3 = 1 => 3 \in 1 .. M)
    BY <1>4, <1>7, <1>8
  <2>2. QED
    BY <1>4, <2>1
<1>15. lost' = lost + M - (n1 + n2 + n3)
  BY <1>2, <1>4, <1>5, <1>12 DEF L, M
<1>16. lost' \in Nat /\ lost <= lost' /\ (lost' = 0 => n1 + n2 + n3 = M)
  BY <1>4, <1>5, <1>14, <1>15
<1>17. ASSUME lost' = 0
       PROVE  Len(logs') = L + M /\ \A j \in DOMAIN lines : logs'[L + j] = lines[j]
  <2>1. Len(logs') = L + M
    BY <1>4, <1>5, <1>12, <1>16, <1>17
  <2>2. ASSUME NEW j \in DOMAIN lines PROVE logs'[L + j] = lines[j]
    <3>1. CASE j = 1
      <4>1. n1 = 1
        BY <1>4, <1>5, <1>14, <1>16, <1>17
      <4>2. QED
        BY <1>12, <3>1, <4>1
    <3>2. CASE j = 2
      <4>1. M >= 2
        BY <1>4, <3>2
      <4>2. n1 = 1 /\ n2 = 1
        BY <1>4, <1>5, <1>14, <1>16, <1>17, <4>1
      <4>3. L + n1 + 1 = L + j
        BY <1>4, <3>2, <4>2
      <4>4. QED
        BY <1>12, <3>2, <4>2, <4>3
    <3>3. CASE j = 3
      <4>1. M >= 3
        BY <1>4, <3>3
      <4>2. n1 = 1 /\ n2 = 1 /\ n3 = 1
        BY <1>4, <1>5, <1>14, <1>16, <1>17, <4>1
      <4>3. L + n1 + n2 + 1 = L + j
        BY <1>4, <3>3, <4>2
      <4>4. QED
        BY <1>12, <3>3, <4>2, <4>3
    <3>4. QED
      BY <1>4, <3>1, <3>2, <3>3
  <2>3. QED
    BY <2>1, <2>2
<1>18. ASSUME LosesTail, room' = "ample"
       PROVE  /\ room = "ample"
              /\ lines[1].line # "data" => L < Len(logs') /\ logs'[L + 1] = lines[1]
  <2>1. room = "ample" /\ (i # 0 => lines[i].line = "data")
    BY <1>3, <1>18
  <2>2. lines[1].line # "data" => n1 = 1
    BY <1>7, <1>9, <2>1
  <2>3. QED
    BY <1>4, <1>5, <1>12, <2>1, <2>2
<1>19. room' \in {"ample", "scarce"} /\ L <= Len(logs')
  BY <1>3, <1>4, <1>5, <1>12
<1>20. DOMAIN logs = 1 .. L /\ Len(lines) = M
  BY <1>4 DEF L, M
<1>21. QED
  BY <1>12, <1>13, <1>16, <1>17, <1>18, <1>19, <1>20 DEF Recorded, L

(***************************************************************************)
(* The calls                                                               *)
(***************************************************************************)

LEMMA OutersCount ==
  ASSUME NEW a \in Nat, NEW b \in Nat, a <= b
  PROVE  /\ IsFiniteSet(OutersUpTo(b)) /\ Cardinality(OutersUpTo(a)) \in Nat
         /\ Cardinality(OutersUpTo(b)) \in Nat /\ Cardinality(OutersUpTo(a)) <= Cardinality(OutersUpTo(b))
         /\ \A t \in a + 1 .. b : IsOuter(t) => Cardinality(OutersUpTo(a)) < Cardinality(OutersUpTo(b))
<1>1. IsFiniteSet(1 .. b) /\ OutersUpTo(b) \in SUBSET (1 .. b)
  BY FS_Interval DEF OutersUpTo
<1>2. IsFiniteSet(OutersUpTo(b))
  BY <1>1, FS_Subset
<1>3. OutersUpTo(a) \in SUBSET OutersUpTo(b)
  BY DEF OutersUpTo
<1>4. /\ IsFiniteSet(OutersUpTo(a)) /\ Cardinality(OutersUpTo(a)) <= Cardinality(OutersUpTo(b))
      /\ Cardinality(OutersUpTo(b)) = Cardinality(OutersUpTo(a)) => OutersUpTo(b) = OutersUpTo(a)
  BY <1>2, <1>3, FS_Subset
<1>5. Cardinality(OutersUpTo(a)) \in Nat /\ Cardinality(OutersUpTo(b)) \in Nat
  BY <1>2, <1>4, FS_CardinalityType
<1>6. ASSUME NEW t \in a + 1 .. b, IsOuter(t) PROVE OutersUpTo(b) # OutersUpTo(a)
  <2>1. t \in OutersUpTo(b) /\ t \notin OutersUpTo(a)
    BY <1>6 DEF OutersUpTo, IsOuter
  <2>2. QED
    BY <2>1
<1>7. QED
  BY <1>2, <1>4, <1>5, <1>6

\* Another call counts for itself only.
LEMMA OutersGrow ==
  ASSUME TypeOK, NEW c \in Call, calls' = Append(calls, c), NEW n \in Nat, n = Len(calls) + 1
  PROVE  /\ \A i \in DOMAIN calls : Cardinality(OutersUpTo(i)') = Cardinality(OutersUpTo(i))
         /\ Cardinality(OutersUpTo(n)') = IF c.depth = 1 THEN Outers + 1 ELSE Outers
<1>1. calls \in Seq(Call) /\ n \in Nat /\ n - 1 \in Nat /\ DOMAIN calls = 1 .. n - 1
  BY DEF TypeOK
<1>2. \A i \in 1 .. n - 1 : calls'[i] = calls[i]
  BY <1>1
<1>3. calls'[n] = c
  BY <1>1
<1>4. ASSUME NEW i \in 1 .. n - 1 PROVE OutersUpTo(i)' = OutersUpTo(i)
  <2>1. \A d \in 1 .. i : calls'[d] = calls[d]
    BY <1>1, <1>2
  <2>2. QED
    BY <2>1 DEF OutersUpTo
<1>5. OutersUpTo(n - 1) = {d \in DOMAIN calls : calls[d].depth = 1}
  BY <1>1 DEF OutersUpTo
<1>6. Outers = Cardinality(OutersUpTo(n - 1)) /\ IsFiniteSet(OutersUpTo(n - 1))
  <2>1. Outers = Cardinality(OutersUpTo(n - 1))
    BY <1>5 DEF Outers
  <2>2. n - 1 <= n - 1
    BY <1>1
  <2>3. QED
    BY <1>1, <2>1, <2>2, OutersCount
<1> DEFINE old == {d \in 1 .. n - 1 : calls[d].depth = 1}
           new == {d \in 1 .. n : calls'[d].depth = 1}
<1>10. \A d \in 1 .. n : d \in new <=> d \in old \/ (d = n /\ c.depth = 1)
  <2>1. ASSUME NEW d \in 1 .. n PROVE d \in new <=> d \in old \/ (d = n /\ c.depth = 1)
    <3>1. CASE d = n
      BY <1>1, <1>3, <3>1
    <3>2. CASE d # n
      <4>1. d \in 1 .. n - 1
        BY <1>1, <3>2
      <4>2. QED
        BY <1>2, <3>2, <4>1
    <3>3. QED
      BY <3>1, <3>2
  <2>2. QED
    BY <2>1
<1>11. new \subseteq 1 .. n /\ old \subseteq 1 .. n /\ n \in 1 .. n /\ n \notin old
  BY <1>1
<1>12. OutersUpTo(n)' = new /\ OutersUpTo(n - 1) = old
  BY DEF OutersUpTo
<1> HIDE DEF old, new
<1>7. CASE c.depth = 1
  <2>1. OutersUpTo(n)' = OutersUpTo(n - 1) \cup {n}
    BY <1>7, <1>10, <1>11, <1>12
  <2>2. n \notin OutersUpTo(n - 1)
    BY <1>11, <1>12
  <2>3. Cardinality(OutersUpTo(n)') = Cardinality(OutersUpTo(n - 1)) + 1
    BY <1>6, <2>1, <2>2, FS_AddElement
  <2>4. QED
    BY <1>1, <1>4, <1>6, <1>7, <2>3
<1>8. CASE c.depth # 1
  <2>1. OutersUpTo(n)' = OutersUpTo(n - 1)
    BY <1>8, <1>10, <1>11, <1>12
  <2>2. QED
    BY <1>1, <1>4, <1>6, <1>8, <2>1
<1>9. QED
  BY <1>7, <1>8

\* The number of a call's top-level instruction names the last one before it.
LEMMA OuterIsLast ==
  ASSUME CallInv, NEW c \in DOMAIN calls, NEW d \in DOMAIN calls, IsOuter(d), calls[d].outer = calls[c].outer
  PROVE  d <= c /\ \A e \in d + 1 .. c : ~IsOuter(e)
<1>1. c \in Nat /\ d \in Nat
  BY DEF CallInv, TypeOK
<1>2. calls[c].outer = Cardinality(OutersUpTo(c)) /\ calls[d].outer = Cardinality(OutersUpTo(d))
  BY DEF CallInv, Nested
<1>3. d <= c
  <2> SUFFICES ASSUME c < d PROVE FALSE
    BY <1>1
  <2>1. c <= d /\ d \in c + 1 .. d
    BY <1>1
  <2>2. Cardinality(OutersUpTo(c)) < Cardinality(OutersUpTo(d)) /\ Cardinality(OutersUpTo(c)) \in Nat
    BY <1>1, <2>1, OutersCount
  <2>3. QED
    BY <1>2, <2>2
<1>4. ASSUME NEW e \in d + 1 .. c, IsOuter(e) PROVE FALSE
  <2>1. Cardinality(OutersUpTo(d)) < Cardinality(OutersUpTo(c)) /\ Cardinality(OutersUpTo(d)) \in Nat
    BY <1>1, <1>3, <1>4, OutersCount
  <2>2. QED
    BY <1>2, <2>1
<1>5. QED
  BY <1>3, <1>4

LEMMA SameOuter ==
  ASSUME CallInv, NEW d \in DOMAIN calls, NEW e \in DOMAIN calls, IsOuter(d), IsOuter(e),
         calls[d].outer = calls[e].outer
  PROVE  d = e
<1>1. d <= e /\ e <= d
  BY OuterIsLast
<1>2. QED
  BY <1>1 DEF CallInv, TypeOK

\* The number of the top-level instruction in progress.
LEMMA OuterInProgress ==
  ASSUME CallInv, stack # <<>>
  PROVE  /\ stack[1] \in DOMAIN calls /\ IsOuter(stack[1]) /\ calls[stack[1]].outer = Outers
         /\ \A c \in DOMAIN calls : c >= stack[1] => calls[c].outer = Outers
<1>1. 1 \in DOMAIN stack /\ calls \in Seq(Call)
  BY DEF CallInv, TypeOK
<1>2. stack[1] \in DOMAIN calls /\ IsOuter(stack[1])
  BY <1>1 DEF CallInv, Stacked, IsOuter
<1>3. ASSUME NEW c \in DOMAIN calls, c >= stack[1] PROVE calls[c].outer = Outers
  <2>1. \A e \in DOMAIN calls : IsOuter(e) => e <= stack[1]
    BY DEF CallInv, Stacked
  <2>2. OutersUpTo(c) = {e \in DOMAIN calls : calls[e].depth = 1}
    BY <1>1, <1>2, <1>3, <2>1 DEF OutersUpTo, IsOuter
  <2>3. QED
    BY <2>2 DEF CallInv, Nested, Outers
<1>4. stack[1] >= stack[1]
  BY <1>1, <1>2
<1>5. QED
  BY <1>2, <1>3, <1>4

\* A new call c number n, as the calls before it stay what they were.
Adds(c, n) ==
  /\ n = Len(calls) + 1 /\ c \in Call /\ calls' = Append(calls, c)
  /\ calls' \in Seq(Call) /\ DOMAIN calls' = 1 .. n /\ DOMAIN calls = 1 .. n - 1 /\ n \in Nat
  /\ \A i \in 1 .. n - 1 : calls'[i] = calls[i]
  /\ calls'[n] = c

LEMMA Appended ==
  ASSUME TypeOK, NEW c \in Call, calls' = Append(calls, c), NEW n, n = Len(calls) + 1
  PROVE  Adds(c, n)
<1>1. calls \in Seq(Call)
  BY DEF TypeOK
<1> HIDE DEF Call
<1>2. QED
  BY <1>1 DEF Adds

LEMMA TopKnown ==
  ASSUME CallInv, stack # <<>>
  PROVE  /\ Len(stack) \in Nat \ {0} /\ Top = stack[Len(stack)] /\ Top \in DOMAIN calls /\ IsPlain(Top)
         /\ calls[Top].depth = Len(stack) /\ calls[Top] \in Call /\ result = Unparsed
<1>1. stack \in Seq(Nat) /\ calls \in Seq(Call)
  BY DEF CallInv, TypeOK
<1>2. Len(stack) \in Nat \ {0} /\ Len(stack) \in DOMAIN stack
  BY <1>1
<1>3. Top \in DOMAIN calls /\ calls[Top].depth = Len(stack) /\ IsPlain(Top)
  BY <1>2 DEF Top, CallInv, Stacked
<1>4. result = Unparsed
  BY DEF CallInv, Stacked
<1> HIDE DEF Call
<1>5. QED
  BY <1>1, <1>2, <1>3, <1>4 DEF Top

LEMMA InvokeAdds ==
  ASSUME CallInv, NEW kind \in Kinds, NEW key \in Keys, NEW known \in BOOLEAN, Invoke(kind, key, known),
         NEW n, n = Len(calls) + 1,
         NEW c, c = [kind |-> kind, key |-> key, known |-> known, depth |-> Len(stack) + 1, of |-> Nothing,
                     outer |-> IF Len(stack) + 1 = 1 THEN Outers + 1 ELSE Outers]
  PROVE  /\ Adds(c, n) /\ stack' = Append(stack, n)
         /\ Line("invoke", c, n) \in LogLine /\ Recorded(<<Line("invoke", c, n)>>)
<1>1. /\ calls' = Append(calls, c) /\ stack' = Append(stack, n)
      /\ Record(<<Line("invoke", c, n)>>)
  BY DEF Invoke
<1>2. TypeOK /\ stack \in Seq(Nat) /\ calls \in Seq(Call)
  BY DEF CallInv, TypeOK
<1>3. Len(calls) \in Nat /\ Len(stack) \in Nat /\ n \in Nat
  BY <1>2
<1>4. Outers \in Nat
  <2>1. OutersUpTo(Len(calls)) = {d \in DOMAIN calls : calls[d].depth = 1}
    BY <1>2 DEF OutersUpTo
  <2>2. Len(calls) <= Len(calls)
    BY <1>3
  <2>3. QED
    BY <1>3, <2>1, <2>2, OutersCount DEF Outers
<1>5. c \in Call
  BY <1>3, <1>4 DEF Call, Nothing
<1>6. Adds(c, n)
  BY <1>1, <1>2, <1>5, Appended
<1> DEFINE l == Line("invoke", c, n)
<1>7. l \in LogLine
  BY <1>3, <1>5, ProgramOf DEF Line, LogLine, Call
<1> HIDE DEF l, LogLine
<1>8. <<l>> \in Seq(LogLine) /\ Len(<<l>>) \in 1 .. 3
  BY <1>7
<1>9. Record(<<l>>)
  BY <1>1 DEF l
<1>10. Recorded(<<l>>)
  BY <1>2, <1>8, <1>9, RecordedBy
<1>11. QED
  BY <1>1, <1>6, <1>7, <1>10 DEF l

LEMMA InvokeCalls ==
  ASSUME CallInv, NEW kind \in Kinds, NEW key \in Keys, NEW known \in BOOLEAN, Invoke(kind, key, known)
  PROVE  CallInv'
<1> PICK n : n = Len(calls) + 1
  OBVIOUS
<1> PICK c : c = [kind |-> kind, key |-> key, known |-> known, depth |-> Len(stack) + 1, of |-> Nothing,
                  outer |-> IF Len(stack) + 1 = 1 THEN Outers + 1 ELSE Outers]
  OBVIOUS
<1>1. Adds(c, n) /\ stack' = Append(stack, n) /\ Recorded(<<Line("invoke", c, n)>>)
  BY InvokeAdds
<1>2. /\ n = Len(calls) + 1 /\ c \in Call /\ calls' = Append(calls, c)
      /\ calls' \in Seq(Call) /\ DOMAIN calls' = 1 .. n /\ DOMAIN calls = 1 .. n - 1 /\ n \in Nat
      /\ \A i \in 1 .. n - 1 : calls'[i] = calls[i]
      /\ calls'[n] = c
  BY <1>1 DEF Adds
<1>3. /\ c.kind = kind /\ c.key = key /\ c.known = known /\ c.of = Nothing /\ c.depth = Len(stack) + 1
      /\ c.outer = IF Len(stack) + 1 = 1 THEN Outers + 1 ELSE Outers
  OBVIOUS
<1>4. /\ result = Unparsed /\ result' = Unparsed /\ emitted' = emitted /\ Possible(kind, key)
      /\ stack # <<>> => calls[Top].kind = "router" \/ (calls[Top].kind = "trade" /\ Top \in emitted)
      /\ ~known => kind \in {"trade", "swap"}
  BY DEF Invoke
<1>5. /\ stack \in Seq(Nat) /\ emitted \subseteq 1 .. n - 1 /\ n - 1 \in Nat /\ n - 1 < n /\ Len(stack) \in Nat
      /\ DOMAIN stack = 1 .. Len(stack) /\ n = n - 1 + 1
  BY <1>2 DEF CallInv, TypeOK
<1>6. /\ stack' \in Seq(Nat) /\ Len(stack') = Len(stack) + 1 /\ DOMAIN stack' = 1 .. Len(stack) + 1
      /\ \A i \in 1 .. Len(stack) : stack'[i] = stack[i]
      /\ stack'[Len(stack) + 1] = n
  BY <1>1, <1>2, <1>5
<1> HIDE DEF Call
<1>7. TypeOK'
  <2>1. emitted' \subseteq 1 .. n
    BY <1>4, <1>5
  <2>2. logs' \in Seq(LogLine) /\ lost' \in Nat /\ room' \in {"ample", "scarce"}
    BY <1>1 DEF Recorded
  <2>3. QED
    BY <1>2, <1>6, <2>1, <2>2 DEF TypeOK
<1>8. Stacked'
  <2>1. ASSUME NEW i \in DOMAIN stack'
        PROVE  stack'[i] \in 1 .. n /\ calls'[stack'[i]].depth = i /\ calls'[stack'[i]].of = Nothing
    <3>1. CASE i = Len(stack) + 1
      BY <1>2, <1>3, <1>6, <3>1
    <3>2. CASE i # Len(stack) + 1
      <4>1. i \in DOMAIN stack /\ stack'[i] = stack[i]
        BY <1>5, <1>6, <3>2
      <4>2. stack[i] \in 1 .. n - 1 /\ calls[stack[i]].depth = i /\ calls[stack[i]].of = Nothing
        BY <1>2, <4>1 DEF CallInv, Stacked, IsPlain
      <4>3. calls'[stack[i]] = calls[stack[i]]
        BY <1>2, <4>2
      <4>4. QED
        BY <1>2, <4>1, <4>2, <4>3
    <3>3. QED
      BY <3>1, <3>2
  <2>2. ASSUME NEW i \in 1 .. n, calls'[i].depth = 1 PROVE i <= stack'[1]
    <3>1. CASE stack = <<>>
      <4>1. stack'[1] = n
        BY <1>6, <3>1
      <4>2. QED
        BY <1>2, <4>1
    <3>2. CASE stack # <<>>
      <4>1. Len(stack) >= 1 /\ stack'[1] = stack[1]
        BY <1>5, <1>6, <3>2
      <4>2. i # n
        BY <1>2, <1>3, <1>5, <2>2, <4>1
      <4>3. i \in 1 .. n - 1 /\ calls[i].depth = 1
        BY <1>2, <2>2, <4>2
      <4>4. QED
        BY <1>2, <3>2, <4>1, <4>3 DEF CallInv, Stacked, IsOuter
    <3>3. QED
      BY <3>1, <3>2
  <2>3. ASSUME NEW i \in DOMAIN stack', NEW j \in DOMAIN stack', i < j PROVE stack'[i] < stack'[j]
    <3>1. i \in DOMAIN stack /\ stack'[i] = stack[i]
      BY <1>5, <1>6, <2>3
    <3>2. stack[i] \in 1 .. n - 1
      BY <1>2, <3>1 DEF CallInv, Stacked
    <3>3. CASE j = Len(stack) + 1
      BY <1>5, <1>6, <3>1, <3>2, <3>3
    <3>4. CASE j # Len(stack) + 1
      <4>1. j \in DOMAIN stack /\ stack'[j] = stack[j]
        BY <1>5, <1>6, <3>4
      <4>2. QED
        BY <2>3, <3>1, <4>1 DEF CallInv, Stacked
    <3>5. QED
      BY <3>3, <3>4
  <2>4. QED
    BY <1>2, <1>4, <2>1, <2>2, <2>3 DEF Stacked, IsPlain, IsOuter
<1>9. Nested'
  <2>1. ASSUME NEW i \in 1 .. n PROVE calls'[i].outer = Cardinality(OutersUpTo(i)')
    <3>1. TypeOK
      BY DEF CallInv
    <3>2. CASE i \in 1 .. n - 1
      <4>1. Cardinality(OutersUpTo(i)') = Cardinality(OutersUpTo(i))
        BY <1>2, <3>1, <3>2, OutersGrow
      <4>2. QED
        BY <1>2, <3>2, <4>1 DEF CallInv, Nested
    <3>3. CASE i = n
      <4>1. Cardinality(OutersUpTo(n)') = IF c.depth = 1 THEN Outers + 1 ELSE Outers
        BY <1>2, <3>1, OutersGrow
      <4>2. QED
        BY <1>2, <1>3, <3>3, <4>1
    <3>4. QED
      BY <1>2, <3>2, <3>3
  <2>2. ASSUME NEW i \in 1 .. n, NEW d \in 1 .. n, calls'[i].of = Nothing, calls'[i].depth # 1,
               calls'[d].depth = 1, calls'[d].outer = calls'[i].outer
        PROVE  calls'[d].kind \in {"router", "trade"}
    <3>1. CASE i # n /\ d # n
      <4>1. i \in 1 .. n - 1 /\ d \in 1 .. n - 1 /\ calls'[i] = calls[i] /\ calls'[d] = calls[d]
        BY <1>2, <3>1
      <4>2. QED
        BY <1>2, <2>2, <4>1 DEF CallInv, Nested, IsPlain, IsOuter
    <3>2. CASE i # n /\ d = n
      <4>1. i \in 1 .. n - 1 /\ calls'[i] = calls[i]
        BY <1>2, <3>2
      <4>2. c.depth = 1 /\ c.outer = Outers + 1
        BY <1>2, <1>3, <2>2, <3>2
      <4>3. calls[i].outer = Cardinality(OutersUpTo(i))
        BY <1>2, <4>1 DEF CallInv, Nested
      <4>4. OutersUpTo(n - 1) = {e \in DOMAIN calls : calls[e].depth = 1}
        BY <1>2 DEF OutersUpTo
      <4>5. Outers = Cardinality(OutersUpTo(n - 1))
        BY <4>4 DEF Outers
      <4>6. i \in Nat /\ i <= n - 1
        BY <1>5, <4>1
      <4>7. /\ Cardinality(OutersUpTo(i)) <= Cardinality(OutersUpTo(n - 1))
            /\ Cardinality(OutersUpTo(i)) \in Nat /\ Cardinality(OutersUpTo(n - 1)) \in Nat
        BY <1>5, <4>6, OutersCount
      <4>8. calls[i].outer = Outers + 1
        BY <1>2, <2>2, <3>2, <4>1, <4>2
      <4>9. QED
        BY <4>3, <4>5, <4>7, <4>8
    <3>3. CASE i = n
      <4>1. Len(stack) + 1 # 1 /\ stack # <<>>
        BY <1>2, <1>3, <1>5, <2>2, <3>3
      <4>2. d # n /\ d \in 1 .. n - 1 /\ calls'[d] = calls[d]
        BY <1>2, <2>2, <3>3
      <4>3. calls[d].outer = Outers /\ IsOuter(d)
        BY <1>2, <1>3, <2>2, <3>3, <4>1, <4>2 DEF IsOuter
      <4>4. stack[1] \in DOMAIN calls /\ IsOuter(stack[1]) /\ calls[stack[1]].outer = Outers
        BY <4>1, OuterInProgress
      <4>5. d = stack[1]
        BY <1>2, <4>2, <4>3, <4>4, SameOuter
      <4>6. CASE Len(stack) = 1
        BY <1>4, <4>1, <4>2, <4>5, <4>6 DEF Top
      <4>7. CASE Len(stack) # 1
        <5>1. 2 \in DOMAIN stack /\ 1 \in DOMAIN stack
          BY <1>5, <4>1, <4>7
        <5>2. stack[2] \in DOMAIN calls /\ IsPlain(stack[2]) /\ calls[stack[2]].depth = 2
          BY <5>1 DEF CallInv, Stacked
        <5>3. stack[2] >= stack[1]
          <6>1. stack[2] \in Nat /\ stack[1] \in Nat
            BY <1>2, <4>4, <5>2
          <6>2. stack[1] < stack[2]
            BY <5>1 DEF CallInv, Stacked
          <6>3. QED
            BY <6>1, <6>2
        <5>4. calls[stack[2]].outer = Outers
          BY <4>1, <5>2, <5>3, OuterInProgress
        <5>5. ~IsOuter(stack[2])
          BY <5>2 DEF IsOuter
        <5>6. calls[d].kind \in {"router", "trade"}
          BY <1>2, <4>2, <4>3, <5>2, <5>4, <5>5 DEF CallInv, Nested
        <5>7. QED
          BY <4>2, <5>6
      <4>8. QED
        BY <4>6, <4>7
    <3>4. QED
      BY <3>1, <3>2, <3>3
  <2>3. ASSUME NEW i \in 1 .. n, calls'[i].depth = 1 PROVE calls'[i].of = Nothing
    <3>1. CASE i = n
      BY <1>2, <1>3, <3>1
    <3>2. CASE i # n
      <4>1. i \in 1 .. n - 1 /\ calls'[i] = calls[i]
        BY <1>2, <3>2
      <4>2. QED
        BY <1>2, <2>3, <4>1 DEF CallInv, Nested, IsOuter, IsPlain
    <3>3. QED
      BY <3>1, <3>2
  <2>4. ASSUME NEW i \in 1 .. n PROVE calls'[i].outer # 0
    <3>1. CASE i = n
      <4>1. CASE stack = <<>>
        <5>1. OutersUpTo(n - 1) = {e \in DOMAIN calls : calls[e].depth = 1} /\ n - 1 <= n - 1
          BY <1>2, <1>5 DEF OutersUpTo
        <5>2. Outers \in Nat
          BY <1>5, <5>1, OutersCount DEF Outers
        <5>3. c.outer = Outers + 1
          BY <1>3, <4>1
        <5>4. QED
          BY <1>2, <3>1, <5>2, <5>3
      <4>2. CASE stack # <<>>
        <5>1. stack[1] \in DOMAIN calls /\ calls[stack[1]].outer = Outers
          BY <4>2, OuterInProgress
        <5>2. Outers # 0
          BY <5>1 DEF CallInv, Nested
        <5>3. c.outer = Outers
          BY <1>3, <1>5, <4>2
        <5>4. QED
          BY <1>2, <3>1, <5>2, <5>3
      <4>3. QED
        BY <4>1, <4>2
    <3>2. CASE i # n
      <4>1. i \in DOMAIN calls /\ calls'[i] = calls[i]
        BY <1>2, <3>2
      <4>2. QED
        BY <4>1 DEF CallInv, Nested
    <3>3. QED
      BY <3>1, <3>2
  <2>5. QED
    BY <1>2, <2>1, <2>2, <2>3, <2>4 DEF Nested, IsPlain, IsOuter

<1>10. ASSUME NEW i \in 1 .. n PROVE i = n \/ (i \in 1 .. n - 1 /\ calls'[i] = calls[i])
  BY <1>2
<1>11. CpiFollows'
  <2> SUFFICES ASSUME NEW i \in 1 .. n, calls'[i].of # Nothing
               PROVE  /\ i > 1 /\ calls'[i].of = i - 1 /\ calls'[i - 1].of = Nothing
                      /\ HasCpi(calls'[i].kind) /\ calls'[i].known
                      /\ calls'[i].kind = calls'[i - 1].kind /\ calls'[i].key = calls'[i - 1].key
                      /\ calls'[i].outer = calls'[i - 1].outer
                      /\ calls'[i].depth = calls'[i - 1].depth + 1
    BY <1>2 DEF CpiFollows, IsCpi, IsPlain
  <2>1. i \in 1 .. n - 1 /\ calls'[i] = calls[i] /\ calls[i].of # Nothing
    BY <1>2, <1>3, <1>10
  <2>2. /\ i > 1 /\ calls[i].of = i - 1 /\ calls[i - 1].of = Nothing
        /\ HasCpi(calls[i].kind) /\ calls[i].known
        /\ calls[i].kind = calls[i - 1].kind /\ calls[i].key = calls[i - 1].key
        /\ calls[i].outer = calls[i - 1].outer /\ calls[i].depth = calls[i - 1].depth + 1
    BY <1>2, <2>1 DEF CallInv, CpiFollows, IsCpi, IsPlain
  <2>3. i - 1 \in 1 .. n - 1
    BY <1>2, <2>1, <2>2
  <2>4. calls'[i - 1] = calls[i - 1]
    BY <1>2, <2>3
  <2>5. QED
    BY <2>1, <2>2, <2>4
<1>12. Emits'
  <2>1. ASSUME NEW i \in 1 .. n, calls'[i].of = Nothing, calls'[i].kind # "router", i \notin emitted'
        PROVE  stack' # <<>> /\ i = stack'[Len(stack')] /\ i = Len(calls')
    <3>1. i = n
      <4> SUFFICES ASSUME i # n PROVE FALSE
        OBVIOUS
      <4>1. i \in DOMAIN calls /\ calls'[i] = calls[i]
        BY <1>2, <1>10
      <4>2. stack # <<>> /\ i = Top
        BY <1>4, <2>1, <4>1 DEF CallInv, Emits, IsPlain
      <4>3. QED
        BY <1>4, <2>1, <4>1, <4>2
    <3>2. QED
      BY <1>2, <1>5, <1>6, <3>1
  <2>2. ASSUME NEW i \in emitted'
        PROVE  /\ calls'[i].of = Nothing /\ calls'[i].kind # "router"
               /\ HasCpi(calls'[i].kind) => i + 1 \in 1 .. n /\ calls'[i + 1].of = i
    <3>1. i \in 1 .. n - 1 /\ calls'[i] = calls[i] /\ i \in emitted
      BY <1>2, <1>4, <1>5
    <3>2. calls[i].of = Nothing /\ calls[i].kind # "router"
      BY <3>1 DEF CallInv, Emits, IsPlain
    <3>3. ASSUME HasCpi(calls[i].kind) PROVE i + 1 \in 1 .. n /\ calls'[i + 1].of = i
      <4>1. i + 1 \in 1 .. n - 1 /\ calls[i + 1].of = i
        BY <1>2, <3>1, <3>3 DEF CallInv, Emits
      <4>2. calls'[i + 1] = calls[i + 1]
        BY <1>2, <4>1
      <4>3. QED
        BY <1>5, <4>1, <4>2
    <3>4. QED
      BY <3>1, <3>2, <3>3
  <2>3. QED
    BY <1>2, <2>1, <2>2 DEF Emits, IsPlain, Top
<1>13. Undecoded'
  <2>1. ASSUME NEW i \in 1 .. n, ~calls'[i].known PROVE calls'[i].kind \in {"trade", "swap"}
    BY <1>2, <1>3, <1>4, <1>10, <2>1 DEF CallInv, Undecoded
  <2>2. QED
    BY <1>2, <2>1 DEF Undecoded
<1>14. CreatedOnce'
  <2>1. \A i \in 1 .. n - 1 : kind = "create" /\ calls[i].kind = "create" => calls[i].key # key
    BY <1>2, <1>4 DEF Possible
  <2>2. ASSUME NEW i \in 1 .. n, NEW d \in 1 .. n, calls'[i].of = Nothing, calls'[d].of = Nothing,
               calls'[i].kind = "create", calls'[d].kind = "create", calls'[i].key = calls'[d].key
        PROVE  i = d
    <3>1. CASE i = n \/ d = n
      BY <1>2, <1>3, <1>10, <2>1, <2>2, <3>1
    <3>2. CASE i # n /\ d # n
      <4>1. /\ i \in DOMAIN calls /\ calls'[i] = calls[i]
            /\ d \in DOMAIN calls /\ calls'[d] = calls[d]
        BY <1>2, <1>10, <3>2
      <4>2. QED
        BY <2>2, <4>1 DEF CallInv, CreatedOnce, IsPlain
    <3>3. QED
      BY <3>1, <3>2
  <2>3. QED
    BY <1>2, <2>2 DEF CreatedOnce, IsPlain
<1>15. QED
  BY <1>7, <1>8, <1>9, <1>11, <1>12, <1>13, <1>14 DEF CallInv

CpiOf(c, top) == [c EXCEPT !.depth = @ + 1, !.of = top, !.known = TRUE]

LEMMA CpiIs ==
  ASSUME NEW c \in Call, NEW top \in Nat, NEW cpi, cpi = CpiOf(c, top)
  PROVE  /\ cpi.kind = c.kind /\ cpi.key = c.key /\ cpi.known /\ cpi.depth = c.depth + 1
         /\ cpi.of = top /\ cpi.outer = c.outer /\ cpi \in Call
<1> PICK a : a = [c EXCEPT !.depth = @ + 1]
  OBVIOUS
<1> PICK b : b = [a EXCEPT !.of = top]
  OBVIOUS
<1>1. cpi = [b EXCEPT !.known = TRUE]
  BY DEF CpiOf
<1>2. a \in Call /\ a.kind = c.kind /\ a.key = c.key /\ a.depth = c.depth + 1 /\ a.outer = c.outer
  BY DEF Call
<1>3. /\ b \in Call /\ b.kind = a.kind /\ b.key = a.key /\ b.depth = a.depth /\ b.outer = a.outer
      /\ b.of = top
  BY <1>2 DEF Call
<1>4. /\ cpi \in Call /\ cpi.kind = b.kind /\ cpi.key = b.key /\ cpi.depth = b.depth
      /\ cpi.outer = b.outer /\ cpi.of = b.of /\ cpi.known
  BY <1>1, <1>3 DEF Call
<1>5. QED
  BY <1>2, <1>3, <1>4

LEMMA ThreeInARow ==
  ASSUME NEW S, NEW a \in S, NEW b \in S, NEW c \in S
  PROVE  /\ <<a>> \o <<b, c>> = <<a, b, c>> /\ <<>> \o <<b, c>> = <<b, c>> /\ <<a>> \o <<>> = <<a>>
         /\ <<a, b, c>> \in Seq(S) /\ <<b, c>> \in Seq(S) /\ <<a>> \in Seq(S)
<1>1. /\ <<a, b, c>> \in Seq(S) /\ <<b, c>> \in Seq(S) /\ <<a>> \in Seq(S) /\ <<>> \in Seq(S)
      /\ Len(<<a, b, c>>) = 3 /\ Len(<<b, c>>) = 2 /\ Len(<<a>>) = 1 /\ Len(<<>>) = 0
  OBVIOUS
<1> PICK t : t = <<a>> \o <<b, c>>
  OBVIOUS
<1>2. /\ t \in Seq(S) /\ Len(t) = 3
      /\ \A i \in 1 .. 3 : t[i] = IF i <= 1 THEN <<a>>[i] ELSE <<b, c>>[i - 1]
  <2>1. /\ t \in Seq(S) /\ Len(t) = Len(<<a>>) + Len(<<b, c>>)
        /\ \A i \in 1 .. Len(<<a>>) + Len(<<b, c>>) :
             t[i] = IF i <= Len(<<a>>) THEN <<a>>[i] ELSE <<b, c>>[i - Len(<<a>>)]
    BY <1>1, ConcatProperties
  <2>2. QED
    BY ONLY <1>1, <2>1
<1>3. t[1] = a /\ t[2] = b /\ t[3] = c
  BY <1>2
<1>4. t = <<a, b, c>>
  BY ONLY <1>1, <1>2, <1>3
<1>5. QED
  BY <1>1, <1>4, ConcatEmptySeq

LEMMA EmitAdds ==
  ASSUME CallInv, Emit, NEW top, top = Top, NEW c, c = calls[Top], NEW cpi, cpi = CpiOf(c, top),
         NEW n, n = Len(calls) + 1
  PROVE  /\ top = n - 1 /\ c \in Call /\ c.of = Nothing /\ c.kind # "router"
         /\ cpi.kind = c.kind /\ cpi.key = c.key /\ cpi.known /\ cpi.depth = c.depth + 1
         /\ cpi.of = top /\ cpi.outer = c.outer /\ cpi \in Call
         /\ IF HasCpi(c.kind) THEN Adds(cpi, n) ELSE calls' = calls
         /\ IF HasLog(c.kind)
              THEN IF HasCpi(c.kind)
                     THEN Recorded(<<Line("data", c, top), Line("invoke", cpi, Nothing), Line("done", cpi, Nothing)>>)
                     ELSE Recorded(<<Line("data", c, top)>>)
              ELSE HasCpi(c.kind) /\ Recorded(<<Line("invoke", cpi, Nothing), Line("done", cpi, Nothing)>>)
         /\ {Line("data", c, top), Line("invoke", cpi, Nothing), Line("done", cpi, Nothing)} \subseteq LogLine
<1> DEFINE l1 == Line("data", c, top)
           l2 == Line("invoke", cpi, Nothing)
           l3 == Line("done", cpi, Nothing)
<1>1. stack # <<>> /\ Top \notin emitted /\ c.kind # "router"
  BY DEF Emit
<1>2. Top \in DOMAIN calls /\ IsPlain(Top) /\ c \in Call
  BY <1>1, TopKnown
<1>3. top = Len(calls) /\ calls \in Seq(Call) /\ Len(calls) \in Nat /\ top \in Nat /\ top = n - 1
  BY <1>1, <1>2 DEF CallInv, Emits, TypeOK
<1>4. /\ calls' = IF HasCpi(c.kind) THEN Append(calls, cpi) ELSE calls
      /\ Record((IF HasLog(c.kind) THEN <<l1>> ELSE <<>>) \o
                (IF HasCpi(c.kind) THEN <<l2, l3>> ELSE <<>>))
  BY DEF Emit, CpiOf
<1>5. /\ cpi.kind = c.kind /\ cpi.key = c.key /\ cpi.known /\ cpi.depth = c.depth + 1
      /\ cpi.of = top /\ cpi.outer = c.outer /\ cpi \in Call
  <2>1. c \in Call /\ top \in Nat /\ cpi = CpiOf(c, top)
    BY <1>2, <1>3
  <2>2. QED
    BY ONLY <2>1, CpiIs
<1>6. l1 \in LogLine /\ l2 \in LogLine /\ l3 \in LogLine
  BY <1>2, <1>3, <1>5, ProgramOf DEF Line, LogLine, Call, Nothing
<1>7. IF HasCpi(c.kind) THEN Adds(cpi, n) ELSE calls' = calls
  BY <1>4, <1>5, Appended DEF CallInv
<1>8. c.kind \in {"trade", "create", "swap", "dlmm"}
  BY <1>1, <1>2 DEF Call, Kinds
<1> HIDE DEF l1, l2, l3
<1>9. /\ <<l1>> \o <<l2, l3>> = <<l1, l2, l3>> /\ <<>> \o <<l2, l3>> = <<l2, l3>> /\ <<l1>> \o <<>> = <<l1>>
      /\ <<l1, l2, l3>> \in Seq(LogLine) /\ <<l2, l3>> \in Seq(LogLine) /\ <<l1>> \in Seq(LogLine)
  BY ONLY <1>6, ThreeInARow
<1>10. /\ Len(<<l1, l2, l3>>) = 3 /\ Len(<<l2, l3>>) = 2 /\ Len(<<l1>>) = 1
  OBVIOUS
<1>11. TypeOK
  BY DEF CallInv
<1>12. CASE HasLog(c.kind) /\ HasCpi(c.kind)
  <2>1. Record(<<l1, l2, l3>>)
    BY <1>4, <1>9, <1>12
  <2> DEFINE t == <<l1, l2, l3>>
  <2>2. t \in Seq(LogLine) /\ Len(t) \in 1 .. 3 /\ Record(t)
    BY <1>9, <1>10, <2>1
  <2> HIDE DEF t
  <2>3. Recorded(t)
    BY ONLY <1>11, <2>2, RecordedBy
  <2>4. QED
    BY <1>1, <1>2, <1>3, <1>5, <1>6, <1>7, <1>12, <2>3 DEF IsPlain, l1, l2, l3, t
<1>13. CASE HasLog(c.kind) /\ ~HasCpi(c.kind)
  <2>1. Record(<<l1>>)
    BY <1>4, <1>9, <1>13
  <2>2. Recorded(<<l1>>)
    BY ONLY <1>9, <1>10, <1>11, <2>1, RecordedBy
  <2>3. QED
    BY <1>1, <1>2, <1>3, <1>5, <1>6, <1>7, <1>13, <2>2 DEF IsPlain, l1, l2, l3
<1>14. CASE ~HasLog(c.kind)
  <2>1. HasCpi(c.kind)
    BY <1>8, <1>14 DEF HasLog, HasCpi
  <2>2. Record(<<l2, l3>>)
    BY <1>4, <1>9, <1>14, <2>1
  <2> DEFINE t == <<l2, l3>>
  <2>3. t \in Seq(LogLine) /\ Len(t) \in 1 .. 3 /\ Record(t)
    BY <1>9, <1>10, <2>2
  <2> HIDE DEF t
  <2>4. Recorded(t)
    BY ONLY <1>11, <2>3, RecordedBy
  <2>5. QED
    BY <1>1, <1>2, <1>3, <1>5, <1>6, <1>7, <1>14, <2>1, <2>4 DEF IsPlain, l1, l2, l3, t
<1>15. QED
  BY <1>12, <1>13, <1>14

LEMMA EmitCalls ==
  ASSUME CallInv, Emit
  PROVE  CallInv'
<1> PICK top : top = Top
  OBVIOUS
<1> PICK c : c = calls[Top]
  OBVIOUS
<1> PICK cpi : cpi = CpiOf(c, top)
  OBVIOUS
<1> PICK n : n = Len(calls) + 1
  OBVIOUS
<1> DEFINE m == Len(calls')
<1>1. /\ top = n - 1 /\ c \in Call /\ c.of = Nothing /\ c.kind # "router"
      /\ cpi.kind = c.kind /\ cpi.key = c.key /\ cpi.known /\ cpi.depth = c.depth + 1
      /\ cpi.of = top /\ cpi.outer = c.outer /\ cpi \in Call
      /\ IF HasCpi(c.kind) THEN Adds(cpi, n) ELSE calls' = calls
      /\ IF HasLog(c.kind)
           THEN IF HasCpi(c.kind)
                  THEN Recorded(<<Line("data", c, top), Line("invoke", cpi, Nothing), Line("done", cpi, Nothing)>>)
                  ELSE Recorded(<<Line("data", c, top)>>)
           ELSE HasCpi(c.kind) /\ Recorded(<<Line("invoke", cpi, Nothing), Line("done", cpi, Nothing)>>)
  BY ONLY CallInv, Emit, top = Top, c = calls[Top], cpi = CpiOf(c, top), n = Len(calls) + 1, EmitAdds
<1>2. logs' \in Seq(LogLine) /\ lost' \in Nat /\ room' \in {"ample", "scarce"}
  BY <1>1 DEF Recorded
<1>3. /\ stack # <<>> /\ top \notin emitted /\ emitted' = emitted \cup {top} /\ stack' = stack
      /\ result' = result
  BY DEF Emit
<1>4. /\ calls \in Seq(Call) /\ stack \in Seq(Nat) /\ emitted \subseteq 1 .. n - 1 /\ n \in Nat /\ n - 1 \in Nat
      /\ DOMAIN calls = 1 .. n - 1 /\ n = n - 1 + 1 /\ n - 1 < n /\ Len(calls) = n - 1
  BY <1>1 DEF CallInv, TypeOK
<1>5. top \in 1 .. n - 1 /\ c = calls[top] /\ calls[top].depth = Len(stack) /\ Len(stack) \in Nat \ {0}
  BY <1>3, <1>4, TopKnown
<1>6. /\ calls' \in Seq(Call) /\ m = IF HasCpi(c.kind) THEN n ELSE n - 1
      /\ DOMAIN calls' = 1 .. m /\ \A i \in 1 .. n - 1 : calls'[i] = calls[i]
      /\ HasCpi(c.kind) => calls'[n] = cpi
  <2>1. CASE HasCpi(c.kind)
    <3>1. /\ calls' \in Seq(Call) /\ DOMAIN calls' = 1 .. n
          /\ \A i \in 1 .. n - 1 : calls'[i] = calls[i] /\ calls'[n] = cpi
      BY <1>1, <2>1 DEF Adds
    <3>2. Len(calls') = n
      BY <1>1, <1>4, <2>1 DEF Adds
    <3>3. calls'[n] = cpi
      BY <1>1, <2>1 DEF Adds
    <3>4. QED
      BY <2>1, <3>1, <3>2, <3>3
  <2>2. CASE ~HasCpi(c.kind)
    BY <1>1, <1>4, <2>2
  <2>3. QED
    BY <2>1, <2>2
<1> HIDE DEF Call, m
<1>7. m \in Nat /\ n - 1 <= m /\ m <= n /\ (HasCpi(c.kind) => m = n) /\ (m = n => HasCpi(c.kind))
  <2>1. CASE HasCpi(c.kind)
    BY <1>4, <1>6, <2>1
  <2>2. CASE ~HasCpi(c.kind)
    <3>1. m = n - 1
      BY <1>6, <2>2
    <3>2. m \in Nat /\ n - 1 <= m /\ m <= n /\ m # n
      <4>1. n \in Nat /\ n - 1 \in Nat
        BY <1>4
      <4>2. QED
        BY ONLY <3>1, <4>1
    <3>3. QED
      BY <2>2, <3>2
  <2>3. QED
    BY <2>1, <2>2
<1>8. ASSUME NEW i \in 1 .. m
      PROVE  \/ i \in 1 .. n - 1 /\ i \in DOMAIN calls /\ calls'[i] = calls[i]
             \/ i = n /\ HasCpi(c.kind) /\ calls'[i] = cpi
  <2>1. CASE i = n
    BY <1>6, <1>7, <2>1
  <2>2. CASE i # n
    <3>1. i \in 1 .. n - 1
      BY <1>4, <1>7, <2>2
    <3>2. QED
      BY <1>4, <1>6, <3>1
  <2>3. QED
    BY <2>1, <2>2
<1>18. ASSUME NEW i \in 1 .. m, calls'[i].depth = 1 PROVE i # n
  <2> SUFFICES ASSUME i = n PROVE FALSE
    OBVIOUS
  <2>1. calls'[i] = cpi
    BY <1>6, <1>7
  <2>2. cpi.depth = Len(stack) + 1 /\ Len(stack) \in Nat \ {0}
    BY <1>1, <1>5
  <2>3. QED
    BY <1>18, <2>1, <2>2
<1>9. TypeOK'
  <2>1. emitted' \subseteq 1 .. m
    BY <1>3, <1>4, <1>5, <1>7
  <2>2. QED
    BY <1>2, <1>3, <1>4, <1>6, <2>1 DEF TypeOK
<1>10. Stacked'
  <2>1. ASSUME NEW i \in DOMAIN stack'
        PROVE  stack'[i] \in 1 .. m /\ calls'[stack'[i]].depth = i /\ calls'[stack'[i]].of = Nothing
    <3>1. stack[i] \in 1 .. n - 1 /\ calls[stack[i]].depth = i /\ calls[stack[i]].of = Nothing
      BY <1>3, <1>4 DEF CallInv, Stacked, IsPlain
    <3>2. calls'[stack[i]] = calls[stack[i]]
      BY <1>6, <3>1
    <3>3. QED
      BY <1>3, <1>7, <3>1, <3>2
  <2>2. ASSUME NEW i \in 1 .. m, calls'[i].depth = 1 PROVE i <= stack'[1]
    <3>1. i # n
      BY <1>18, <2>2
    <3>2. i \in DOMAIN calls /\ calls'[i] = calls[i]
      BY <1>8, <3>1
    <3>3. QED
      BY <1>3, <2>2, <3>2 DEF CallInv, Stacked, IsOuter
  <2>3. \A i, j \in DOMAIN stack' : i < j => stack'[i] < stack'[j]
    BY <1>3 DEF CallInv, Stacked
  <2>4. result # Unparsed => stack = <<>>
    BY DEF CallInv, Stacked
  <2>5. QED
    BY <1>3, <1>6, <2>1, <2>2, <2>3, <2>4 DEF Stacked, IsPlain, IsOuter
<1>11. ASSUME HasCpi(c.kind)
       PROVE  /\ \A i \in DOMAIN calls : Cardinality(OutersUpTo(i)') = Cardinality(OutersUpTo(i))
              /\ Cardinality(OutersUpTo(n)') = Outers
  <2>1. TypeOK /\ calls' = Append(calls, cpi) /\ cpi \in Call
    BY <1>1, <1>11 DEF CallInv, Adds
  <2>2. /\ \A i \in DOMAIN calls : Cardinality(OutersUpTo(i)') = Cardinality(OutersUpTo(i))
        /\ Cardinality(OutersUpTo(n)') = IF cpi.depth = 1 THEN Outers + 1 ELSE Outers
    BY <1>1, <1>4, <2>1, OutersGrow
  <2>3. cpi.depth # 1
    BY <1>1, <1>5
  <2>4. QED
    BY <2>2, <2>3
<1>12. Nested'
  <2>1. ASSUME NEW i \in 1 .. m PROVE calls'[i].outer = Cardinality(OutersUpTo(i)')
    <3>1. CASE i = n /\ HasCpi(c.kind) /\ calls'[i] = cpi
      <4>1. calls[top].outer = Outers
        <5>1. 1 \in DOMAIN stack /\ Len(stack) \in DOMAIN stack
          BY <1>4, <1>5
        <5>2. stack[1] \in 1 .. n - 1
          BY <1>4, <5>1 DEF CallInv, Stacked
        <5>3. top >= stack[1]
          BY <1>1, <1>4, <5>2
        <5>4. QED
          BY <1>3, <1>4, <1>5, <5>3, OuterInProgress
      <4>2. QED
        BY <1>1, <1>5, <1>11, <3>1, <4>1
    <3>2. CASE i \in 1 .. n - 1 /\ i \in DOMAIN calls /\ calls'[i] = calls[i]
      <4>1. Cardinality(OutersUpTo(i)') = Cardinality(OutersUpTo(i))
        <5>1. CASE HasCpi(c.kind)
          BY <1>11, <3>2, <5>1
        <5>2. CASE ~HasCpi(c.kind)
          <6>1. calls' = calls
            BY <1>1, <5>2
          <6>2. QED
            BY <6>1 DEF OutersUpTo
        <5>3. QED
          BY <5>1, <5>2
      <4>2. QED
        BY <3>2, <4>1 DEF CallInv, Nested
    <3>3. QED
      BY <1>8, <3>1, <3>2
  <2>2. ASSUME NEW i \in 1 .. m, NEW d \in 1 .. m, calls'[i].of = Nothing, calls'[i].depth # 1,
               calls'[d].depth = 1, calls'[d].outer = calls'[i].outer
        PROVE  calls'[d].kind \in {"router", "trade"}
    <3>1. i # n
      <4> SUFFICES ASSUME i = n PROVE FALSE
        OBVIOUS
      <4>1. calls'[i].of = top
        BY <1>1, <1>4, <1>8
      <4>2. QED
        BY <1>5, <2>2, <4>1 DEF Nothing
    <3>2. d # n
      BY <1>18, <2>2
    <3>3. i \in DOMAIN calls /\ d \in DOMAIN calls /\ calls'[i] = calls[i] /\ calls'[d] = calls[d]
      BY <1>8, <3>1, <3>2
    <3>4. QED
      BY <2>2, <3>3 DEF CallInv, Nested, IsPlain, IsOuter
  <2>3. ASSUME NEW i \in 1 .. m, calls'[i].depth = 1 PROVE calls'[i].of = Nothing
    <3>1. i # n
      BY <1>18, <2>3
    <3>2. i \in DOMAIN calls /\ calls'[i] = calls[i]
      BY <1>8, <3>1
    <3>3. QED
      BY <2>3, <3>2 DEF CallInv, Nested, IsOuter, IsPlain
  <2>4. ASSUME NEW i \in 1 .. m PROVE calls'[i].outer # 0
    <3>1. CASE i = n /\ HasCpi(c.kind) /\ calls'[i] = cpi
      <4>1. top \in DOMAIN calls /\ cpi.outer = calls[top].outer
        BY <1>1, <1>4, <1>5
      <4>2. calls[top].outer # 0
        BY <4>1 DEF CallInv, Nested
      <4>3. QED
        BY <3>1, <4>1, <4>2
    <3>2. CASE i \in 1 .. n - 1 /\ i \in DOMAIN calls /\ calls'[i] = calls[i]
      BY <3>2 DEF CallInv, Nested
    <3>3. QED
      BY <1>8, <3>1, <3>2
  <2>5. QED
    BY <1>6, <2>1, <2>2, <2>3, <2>4 DEF Nested, IsPlain, IsOuter
<1>13. CpiFollows'
  <2> SUFFICES ASSUME NEW i \in 1 .. m, calls'[i].of # Nothing
               PROVE  /\ i > 1 /\ calls'[i].of = i - 1 /\ calls'[i - 1].of = Nothing
                      /\ HasCpi(calls'[i].kind) /\ calls'[i].known
                      /\ calls'[i].kind = calls'[i - 1].kind /\ calls'[i].key = calls'[i - 1].key
                      /\ calls'[i].outer = calls'[i - 1].outer
                      /\ calls'[i].depth = calls'[i - 1].depth + 1
    BY <1>6 DEF CpiFollows, IsCpi, IsPlain
  <2>1. CASE i = n /\ HasCpi(c.kind) /\ calls'[i] = cpi
    <3>1. calls'[i - 1] = c /\ i > 1 /\ top = i - 1
      BY <1>1, <1>4, <1>5, <1>6, <2>1
    <3>2. QED
      BY <1>1, <2>1, <3>1
  <2>2. CASE i \in 1 .. n - 1 /\ i \in DOMAIN calls /\ calls'[i] = calls[i]
    <3>1. /\ i > 1 /\ calls[i].of = i - 1 /\ calls[i - 1].of = Nothing
          /\ HasCpi(calls[i].kind) /\ calls[i].known
          /\ calls[i].kind = calls[i - 1].kind /\ calls[i].key = calls[i - 1].key
          /\ calls[i].outer = calls[i - 1].outer /\ calls[i].depth = calls[i - 1].depth + 1
      BY <2>2 DEF CallInv, CpiFollows, IsCpi, IsPlain
    <3>2. i - 1 \in 1 .. n - 1
      BY <1>4, <2>2, <3>1
    <3>3. calls'[i - 1] = calls[i - 1]
      BY <1>6, <3>2
    <3>4. QED
      BY <2>2, <3>1, <3>3
  <2>3. QED
    BY <1>8, <2>1, <2>2
<1>14. Emits'
  <2>1. ASSUME NEW i \in 1 .. m, calls'[i].of = Nothing, calls'[i].kind # "router" PROVE i \in emitted'
    <3>1. i # n
      <4> SUFFICES ASSUME i = n PROVE FALSE
        OBVIOUS
      <4>1. calls'[i].of = top
        BY <1>1, <1>4, <1>8
      <4>2. QED
        BY <1>5, <2>1, <4>1 DEF Nothing
    <3>2. i \in DOMAIN calls /\ calls'[i] = calls[i]
      BY <1>8, <3>1
    <3>3. i \in emitted \/ i = Top
      BY <2>1, <3>2 DEF CallInv, Emits, IsPlain
    <3>4. QED
      BY <1>3, <3>3
  <2>2. ASSUME NEW i \in emitted'
        PROVE  /\ calls'[i].of = Nothing /\ calls'[i].kind # "router"
               /\ HasCpi(calls'[i].kind) => i + 1 \in 1 .. m /\ calls'[i + 1].of = i
    <3>1. i \in 1 .. n - 1 /\ calls'[i] = calls[i]
      BY <1>3, <1>4, <1>5, <1>6
    <3>2. CASE i = top
      <4>1. ASSUME HasCpi(c.kind) PROVE i + 1 = n /\ n \in 1 .. m /\ calls'[n].of = i
        BY <1>1, <1>4, <1>6, <1>7, <3>1, <3>2, <4>1
      <4>2. QED
        BY <1>1, <1>5, <3>1, <3>2, <4>1
    <3>3. CASE i # top
      <4>1. i \in emitted
        BY <1>3, <3>3
      <4>2. calls[i].of = Nothing /\ calls[i].kind # "router"
        BY <4>1 DEF CallInv, Emits, IsPlain
      <4>3. ASSUME HasCpi(calls[i].kind) PROVE i + 1 \in 1 .. m /\ calls'[i + 1].of = i
        <5>1. i + 1 \in 1 .. n - 1 /\ calls[i + 1].of = i
          BY <1>4, <4>1, <4>3 DEF CallInv, Emits
        <5>2. QED
          BY <1>6, <1>7, <5>1
      <4>4. QED
        BY <3>1, <4>2, <4>3
    <3>4. QED
      BY <3>2, <3>3
  <2>3. QED
    BY <1>6, <2>1, <2>2 DEF Emits, IsPlain, Top
<1>15. Undecoded'
  <2>1. ASSUME NEW i \in 1 .. m, ~calls'[i].known PROVE calls'[i].kind \in {"trade", "swap"}
    <3>1. i \in DOMAIN calls /\ calls'[i] = calls[i]
      BY <1>1, <1>8, <2>1
    <3>2. QED
      BY <2>1, <3>1 DEF CallInv, Undecoded
  <2>2. QED
    BY <1>6, <2>1 DEF Undecoded
<1>16. CreatedOnce'
  <2>1. ASSUME NEW i \in 1 .. m, calls'[i].of = Nothing PROVE i \in DOMAIN calls /\ calls'[i] = calls[i]
    <3>1. CASE i = n /\ HasCpi(c.kind) /\ calls'[i] = cpi
      <4>1. calls'[i].of = top /\ top # 0
        <5>1. calls'[i].of = top
          BY <1>1, <3>1
        <5>2. n \in Nat /\ top \in 1 .. n - 1
          BY <1>4, <1>5
        <5>3. QED
          BY ONLY <5>1, <5>2
      <4>2. QED
        BY <2>1, <4>1 DEF Nothing
    <3>2. QED
      BY <1>8, <3>1
  <2>2. ASSUME NEW i \in 1 .. m, NEW d \in 1 .. m, calls'[i].of = Nothing, calls'[d].of = Nothing,
               calls'[i].kind = "create", calls'[d].kind = "create", calls'[i].key = calls'[d].key
        PROVE  i = d
    <3>1. /\ i \in DOMAIN calls /\ calls'[i] = calls[i]
          /\ d \in DOMAIN calls /\ calls'[d] = calls[d]
      BY <2>1, <2>2
    <3>2. QED
      BY <2>2, <3>1 DEF CallInv, CreatedOnce, IsPlain
  <2>3. QED
    BY <1>6, <2>2 DEF CreatedOnce, IsPlain
<1>17. QED
  BY <1>9, <1>10, <1>12, <1>13, <1>14, <1>15, <1>16 DEF CallInv

\* Return only takes a call that has told of itself off the stack.
LEMMA ReturnCalls ==
  ASSUME CallInv, Return, NEW c, c = calls[Top], NEW top, top = Top
  PROVE  /\ CallInv' /\ Recorded(<<Line("done", c, top)>>) /\ c \in Call /\ Line("done", c, top) \in LogLine
<1>1. /\ stack # <<>> /\ (Top \in emitted \/ calls[Top].kind = "router") /\ stack' = Front(stack)
      /\ Record(<<Line("done", c, top)>>)
      /\ calls' = calls /\ emitted' = emitted /\ result' = result
  BY DEF Return
<1>2. Len(stack) \in Nat \ {0} /\ Top \in DOMAIN calls /\ IsPlain(Top) /\ c \in Call /\ result = Unparsed
  BY <1>1, TopKnown
<1>3. TypeOK /\ stack \in Seq(Nat) /\ calls \in Seq(Call)
  BY DEF CallInv, TypeOK
<1>4. /\ stack' \in Seq(Nat) /\ Len(stack') = Len(stack) - 1 /\ DOMAIN stack' = 1 .. Len(stack) - 1
      /\ \A i \in 1 .. Len(stack) - 1 : i \in DOMAIN stack /\ stack'[i] = stack[i]
  BY <1>1, <1>2, <1>3 DEF Front
<1> DEFINE l == Line("done", c, top)
<1>5. l \in LogLine
  <2>1. top \in Nat
    BY <1>2, <1>3
  <2>2. QED
    BY <1>2, <2>1, ProgramOf DEF Line, LogLine, Call
<1> HIDE DEF l, LogLine, Call
<1>6. Recorded(<<l>>)
  <2> DEFINE t == <<l>>
  <2>1. t \in Seq(LogLine) /\ Len(t) \in 1 .. 3
    BY <1>5
  <2>2. Record(t)
    BY <1>1 DEF l
  <2> HIDE DEF t
  <2>3. Recorded(t)
    BY ONLY <1>3, <2>1, <2>2, RecordedBy
  <2>4. QED
    BY <2>3 DEF t
<1>7. TypeOK'
  <2>1. logs' \in Seq(LogLine) /\ lost' \in Nat /\ room' \in {"ample", "scarce"}
    BY <1>6 DEF Recorded
  <2>2. QED
    BY <1>1, <1>3, <1>4, <2>1 DEF TypeOK
<1>8. Stacked'
  <2>1. \A i \in DOMAIN stack' : /\ stack'[i] \in DOMAIN calls /\ calls[stack'[i]].depth = i
                                  /\ calls[stack'[i]].of = Nothing
    BY <1>4 DEF CallInv, Stacked, IsPlain
  <2>2. \A i, j \in DOMAIN stack' : i < j => stack'[i] < stack'[j]
    BY <1>4 DEF CallInv, Stacked
  <2>3. stack' # <<>> => \A d \in DOMAIN calls' : IsOuter(d)' => d <= stack'[1]
    <3> SUFFICES ASSUME stack' # <<>>, NEW d \in DOMAIN calls, IsOuter(d) PROVE d <= stack'[1]
      BY <1>1 DEF IsOuter
    <3>1. 1 \in 1 .. Len(stack) - 1
      BY <1>2, <1>4
    <3>2. QED
      BY <1>1, <1>4, <3>1 DEF CallInv, Stacked
  <2>4. result' = Unparsed
    BY <1>1, <1>2
  <2>5. QED
    BY <1>1, <2>1, <2>2, <2>3, <2>4 DEF Stacked, IsPlain
<1>9. Nested'
  BY <1>1 DEF CallInv, Nested, IsPlain, IsOuter, OutersUpTo
<1>10. CpiFollows'
  BY <1>1 DEF CallInv, CpiFollows, IsPlain, IsCpi
<1>11. Emits'
  <2>1. \A d \in DOMAIN calls : IsPlain(d) /\ calls[d].kind # "router" => d \in emitted
    BY <1>1 DEF CallInv, Emits
  <2>2. QED
    BY <1>1, <2>1 DEF CallInv, Emits, IsPlain
<1>12. Undecoded' /\ CreatedOnce'
  BY <1>1 DEF CallInv, Undecoded, CreatedOnce, IsPlain
<1>13. QED
  BY <1>2, <1>5, <1>6, <1>7, <1>8, <1>9, <1>10, <1>11, <1>12 DEF CallInv, l

(***************************************************************************)
(* The lines                                                               *)
(***************************************************************************)

Marks(l) == l.line = "data" \/ IsTopInvoke(l)

\* A step records lines of which only the first can tell of an execution or of a
\* top-level invocation: of the one it made or was made by.
Logged(lines) ==
  /\ Recorded(lines) /\ 1 \in DOMAIN lines
  /\ calls' \in Seq(Call) /\ Len(calls) <= Len(calls') /\ \A i \in DOMAIN calls : calls'[i] = calls[i]
  /\ emitted \subseteq emitted'
  /\ \A j \in DOMAIN lines : lines[j].program = Program(lines[j].kind) /\ (j # 1 => ~Marks(lines[j]))
  /\ LET l == lines[1]
     IN  /\ l.line = "data" => /\ l.id = Len(calls) /\ l.id \in emitted' /\ l.id \notin emitted
                               /\ HasLog(l.kind) /\ l.kind = calls'[l.id].kind /\ l.key = calls'[l.id].key
         /\ IsTopInvoke(l) => /\ l.id = Len(calls) + 1 /\ l.id \in DOMAIN calls'
                              /\ calls'[l.id].depth = 1 /\ l.kind = calls'[l.id].kind
         /\ \A c \in emitted' \ emitted : HasLog(calls'[c].kind) => l.line = "data" /\ l.id = c
         /\ \A d \in DOMAIN calls' \ DOMAIN calls : calls'[d].depth = 1 => IsTopInvoke(l) /\ l.id = d

LEMMA LinesKept ==
  ASSUME CallInv, LineInv, NEW lines, Logged(lines)
  PROVE  LineInv'
<1> PICK L : L = Len(logs)
  OBVIOUS
<1> PICK M : M = Len(logs')
  OBVIOUS
<1> PICK N : N = Len(calls)
  OBVIOUS
<1> PICK l : l = lines[1]
  OBVIOUS
<1>1. /\ logs' \in Seq(LogLine) /\ L <= M /\ \A i \in 1 .. L : logs'[i] = logs[i]
      /\ lost' \in Nat /\ lost <= lost' /\ lost \in Nat
      /\ logs \in Seq(LogLine) /\ L \in Nat /\ M \in Nat /\ DOMAIN logs = 1 .. L /\ DOMAIN logs' = 1 .. M
      /\ emitted \subseteq 1 .. N /\ N \in Nat /\ DOMAIN calls = 1 .. N /\ 1 \in DOMAIN lines
      /\ emitted \subseteq emitted' /\ \A i \in 1 .. N : calls'[i] = calls[i]
      /\ DOMAIN calls \subseteq DOMAIN calls'
  <2>1. calls \in Seq(Call) /\ calls' \in Seq(Call) /\ Len(calls) <= Len(calls')
    BY DEF Logged, CallInv, TypeOK
  <2>2. DOMAIN calls \subseteq DOMAIN calls'
    BY <2>1
  <2>3. /\ logs' \in Seq(LogLine) /\ Len(logs) <= Len(logs') /\ \A i \in DOMAIN logs : logs'[i] = logs[i]
        /\ lost' \in Nat /\ lost <= lost'
    BY DEF Logged, Recorded
  <2>4. logs \in Seq(LogLine) /\ lost \in Nat /\ emitted \subseteq DOMAIN calls
    BY DEF CallInv, TypeOK
  <2>5. emitted \subseteq emitted' /\ 1 \in DOMAIN lines /\ \A i \in DOMAIN calls : calls'[i] = calls[i]
    BY DEF Logged
  <2> HIDE DEF LogLine, Call
  <2>6. M \in Nat /\ DOMAIN logs' = 1 .. M
    BY <2>3
  <2>7. L \in Nat /\ DOMAIN logs = 1 .. L
    BY <2>4
  <2>8. N \in Nat /\ DOMAIN calls = 1 .. N
    BY <2>1
  <2>9. QED
    BY <2>2, <2>3, <2>4, <2>5, <2>6, <2>7, <2>8
<1>2. ASSUME NEW k \in 1 .. M, k \notin 1 .. L
      PROVE  \E j \in DOMAIN lines :
               logs'[k] = lines[j] /\ (j = 1 => k = L + 1) /\ (room = "scarce" => lines[j].line = "done")
  <2>1. k \in L + 1 .. M
    BY <1>1, <1>2
  <2>2. QED
    BY <2>1 DEF Logged, Recorded
<1>3. ASSUME NEW k \in 1 .. M, k \notin 1 .. L, Marks(logs'[k])
      PROVE  k = L + 1 /\ logs'[k] = l /\ (room = "scarce" => l.line = "done")
  <2>1. PICK j \in DOMAIN lines :
          logs'[k] = lines[j] /\ (j = 1 => k = L + 1) /\ (room = "scarce" => lines[j].line = "done")
    BY <1>2, <1>3
  <2>2. j = 1
    BY <1>3, <2>1 DEF Logged
  <2>3. QED
    BY <2>1, <2>2
<1>4. /\ l.line = "data" => /\ l.id = N /\ l.id \in emitted' /\ l.id \notin emitted
                            /\ HasLog(l.kind) /\ l.kind = calls'[l.id].kind /\ l.key = calls'[l.id].key
      /\ IsTopInvoke(l) => /\ l.id = N + 1 /\ l.id \in DOMAIN calls'
                           /\ calls'[l.id].depth = 1 /\ l.kind = calls'[l.id].kind
      /\ \A c \in emitted' \ emitted : HasLog(calls'[c].kind) => l.line = "data" /\ l.id = c
      /\ \A d \in DOMAIN calls' \ DOMAIN calls : calls'[d].depth = 1 => IsTopInvoke(l) /\ l.id = d
  BY DEF Logged
<1>5. ASSUME NEW i \in 1 .. L
      PROVE  /\ IsData(i) => logs[i].id \in emitted /\ logs[i].id \in 1 .. N
             /\ IsTop(i) => logs[i].id \in 1 .. N
  BY <1>1 DEF LineInv, LinesTrue
<1>6. lost' = 0 => /\ lost = 0
                   /\ L + 1 \in 1 .. M /\ logs'[L + 1] = l
  <2> SUFFICES ASSUME lost' = 0 PROVE lost = 0 /\ L + 1 \in 1 .. M /\ logs'[L + 1] = l
    OBVIOUS
  <2>1. M = L + Len(lines) /\ logs'[L + 1] = l
    BY <1>1 DEF Logged, Recorded
  <2>2. L + 1 \in DOMAIN logs'
    <3>1. CASE Len(lines) \in Nat \ {0}
      BY <1>1, <2>1, <3>1
    <3>2. CASE Len(lines) \notin Nat \ {0}
      <4>1. Len(lines) = M - L /\ M - L \in Nat
        BY <1>1, <2>1, <3>2
      <4>2. QED
        BY <1>1, <2>1, <3>2, <4>1
    <3>3. QED
      BY <3>1, <3>2
  <2>3. QED
    BY <1>1, <2>1, <2>2
<1>7. LosesTail /\ room' = "ample" =>
        /\ room = "ample"
        /\ l.line # "data" => L + 1 \in 1 .. M /\ logs'[L + 1] = l
  <2> SUFFICES ASSUME LosesTail, room' = "ample"
               PROVE  room = "ample" /\ (l.line # "data" => L + 1 \in 1 .. M /\ logs'[L + 1] = l)
    OBVIOUS
  <2>1. room = "ample" /\ (l.line # "data" => L < M /\ logs'[L + 1] = l)
    BY DEF Logged, Recorded
  <2>2. QED
    BY <1>1, <2>1
<1>8. LinesTrue'
  <2>1. ASSUME NEW i \in 1 .. M
        PROVE  /\ logs'[i].program = Program(logs'[i].kind)
               /\ logs'[i].line = "data" =>
                    /\ logs'[i].id \in emitted' /\ HasLog(logs'[i].kind)
                    /\ logs'[i].kind = calls'[logs'[i].id].kind /\ logs'[i].key = calls'[logs'[i].id].key
               /\ IsTopInvoke(logs'[i]) =>
                    /\ logs'[i].id \in DOMAIN calls' /\ calls'[logs'[i].id].depth = 1
                    /\ logs'[i].kind = calls'[logs'[i].id].kind
    <3>1. CASE i \in 1 .. L
      <4>1. logs'[i] = logs[i] /\ i \in DOMAIN logs
        BY <1>1, <3>1
      <4>2. /\ logs[i].program = Program(logs[i].kind)
            /\ logs[i].line = "data" =>
                 /\ logs[i].id \in emitted /\ HasLog(logs[i].kind)
                 /\ logs[i].kind = calls[logs[i].id].kind /\ logs[i].key = calls[logs[i].id].key
            /\ IsTopInvoke(logs[i]) =>
                 /\ logs[i].id \in DOMAIN calls /\ calls[logs[i].id].depth = 1
                 /\ logs[i].kind = calls[logs[i].id].kind
        BY <4>1 DEF LineInv, LinesTrue, IsData, IsTop, IsOuter
      <4>3. logs[i].line = "data" \/ IsTopInvoke(logs[i]) => calls'[logs[i].id] = calls[logs[i].id]
        BY <1>1, <1>5, <3>1 DEF IsData, IsTop
      <4>4. QED
        BY <1>1, <4>1, <4>2, <4>3
    <3>2. CASE i \notin 1 .. L
      <4>1. logs'[i].program = Program(logs'[i].kind)
        BY <1>2, <3>2 DEF Logged
      <4>2. Marks(logs'[i]) => logs'[i] = l
        BY <1>3, <3>2
      <4>3. QED
        BY <1>4, <4>1, <4>2 DEF Marks
    <3>3. QED
      BY <3>1, <3>2
  <2>2. QED
    BY <1>1, <2>1 DEF LinesTrue, IsData, IsTop, IsOuter
<1>9. LinesAscend'
  <2>1. ASSUME NEW i \in 1 .. M, NEW j \in 1 .. M, i < j
        PROVE  /\ logs'[i].line = "data" /\ logs'[j].line = "data" => logs'[i].id < logs'[j].id
               /\ IsTopInvoke(logs'[i]) /\ IsTopInvoke(logs'[j]) => logs'[i].id < logs'[j].id
               /\ IsTopInvoke(logs'[i]) /\ logs'[j].line = "data" => logs'[i].id <= logs'[j].id
               /\ logs'[i].line = "data" /\ IsTopInvoke(logs'[j]) => logs'[i].id < logs'[j].id
    <3>1. CASE j \in 1 .. L
      <4>1. i \in 1 .. L /\ logs'[i] = logs[i] /\ logs'[j] = logs[j] /\ i \in DOMAIN logs /\ j \in DOMAIN logs
        BY <1>1, <2>1, <3>1
      <4>2. QED
        BY <2>1, <4>1 DEF LineInv, LinesAscend, IsData, IsTop
    <3>2. CASE j \notin 1 .. L
      <4> SUFFICES ASSUME Marks(logs'[i]), Marks(logs'[j])
                   PROVE  /\ logs'[i].id \in 1 .. N
                          /\ IsTopInvoke(logs'[j]) => logs'[j].id = N + 1
                          /\ logs'[j].line = "data" =>
                               logs'[j].id = N /\ (logs'[i].line = "data" => logs'[i].id # N)
        BY <1>1, <2>1 DEF Marks
      <4>1. j = L + 1 /\ logs'[j] = l
        BY <1>3, <3>2
      <4>2. i \in 1 .. L /\ logs'[i] = logs[i]
        BY <1>1, <2>1, <4>1
      <4>3. IsData(i) \/ IsTop(i)
        BY <4>2 DEF IsData, IsTop, Marks
      <4>4. logs[i].id \in 1 .. N /\ (IsData(i) => logs[i].id \in emitted)
        BY <1>5, <4>2, <4>3
      <4>5. QED
        BY <1>4, <4>1, <4>2, <4>4 DEF IsData
    <3>3. QED
      BY <3>1, <3>2
  <2>2. QED
    BY <1>1, <2>1 DEF LinesAscend, IsData, IsTop
<1>10. LinesComplete'
  <2>1. ASSUME lost' = 0, NEW c \in emitted', HasLog(calls'[c].kind)
        PROVE  \E i \in 1 .. M : logs'[i].line = "data" /\ logs'[i].id = c
    <3>1. CASE c \in emitted
      <4>1. calls'[c] = calls[c]
        BY <1>1, <3>1
      <4>2. PICK i \in DOMAIN logs : IsData(i) /\ logs[i].id = c
        BY <1>6, <2>1, <3>1, <4>1 DEF LineInv, LinesComplete
      <4>3. i \in 1 .. M /\ logs'[i] = logs[i]
        BY <1>1
      <4>4. QED
        BY <4>2, <4>3 DEF IsData
    <3>2. CASE c \notin emitted
      <4>1. l.line = "data" /\ l.id = c
        BY <1>4, <2>1, <3>2
      <4>2. QED
        BY <1>6, <2>1, <4>1
    <3>3. QED
      BY <3>1, <3>2
  <2>2. ASSUME lost' = 0 \/ (LosesTail /\ room' = "ample"), NEW d \in DOMAIN calls', calls'[d].depth = 1
        PROVE  \E i \in 1 .. M : IsTopInvoke(logs'[i]) /\ logs'[i].id = d
    <3>1. lost = 0 \/ (LosesTail /\ room = "ample")
      BY <1>6, <1>7, <2>2
    <3>2. CASE d \in DOMAIN calls
      <4>1. calls'[d] = calls[d]
        BY <1>1, <3>2
      <4>2. PICK i \in DOMAIN logs : IsTop(i) /\ logs[i].id = d
        BY <2>2, <3>1, <3>2, <4>1 DEF LineInv, LinesComplete, IsOuter
      <4>3. i \in 1 .. M /\ logs'[i] = logs[i]
        BY <1>1
      <4>4. QED
        BY <4>2, <4>3 DEF IsTop
    <3>3. CASE d \notin DOMAIN calls
      <4>1. IsTopInvoke(l) /\ l.id = d
        BY <1>4, <2>2, <3>3
      <4>2. l.line # "data"
        BY <4>1 DEF IsTopInvoke
      <4>3. L + 1 \in 1 .. M /\ logs'[L + 1] = l
        BY <1>6, <1>7, <2>2, <4>2
      <4>4. QED
        BY <4>1, <4>3
    <3>4. QED
      BY <3>2, <3>3
  <2>3. QED
    BY <1>1, <2>1, <2>2 DEF LinesComplete, IsData, IsTop, IsOuter
<1>11. Introduced'
  <2>1. ASSUME lost' = 0 \/ LosesTail, NEW k \in 1 .. M, logs'[k].line = "data",
               NEW d \in 1 .. logs'[k].id, calls'[d].depth = 1
        PROVE  \E i \in 1 .. k : IsTopInvoke(logs'[i]) /\ logs'[i].id = d
    <3>0. lost = 0 \/ LosesTail
      BY <1>6, <2>1
    <3>1. CASE k \in 1 .. L
      <4>1. logs'[k] = logs[k] /\ IsData(k) /\ k \in DOMAIN logs
        BY <1>1, <2>1, <3>1 DEF IsData
      <4>2. d \in 1 .. N
        BY <1>1, <1>5, <3>1, <4>1
      <4>3. calls'[d] = calls[d] /\ d \in 1 .. logs[k].id
        BY <1>1, <4>1, <4>2
      <4>4. PICK i \in 1 .. k : IsTop(i) /\ logs[i].id = d
        BY <2>1, <3>0, <4>1, <4>3 DEF LineInv, Introduced, IsOuter
      <4>5. logs'[i] = logs[i]
        BY <1>1, <3>1
      <4>6. QED
        BY <4>4, <4>5 DEF IsTop
    <3>2. CASE k \notin 1 .. L
      <4>1. k = L + 1 /\ logs'[k] = l /\ (room = "scarce" => l.line = "done")
        BY <1>3, <2>1, <3>2 DEF Marks
      <4>2. l.id = N
        BY <1>4, <2>1, <4>1
      <4>3. d \in 1 .. N /\ calls'[d] = calls[d]
        BY <1>1, <4>1, <4>2
      <4>4. room = "ample"
        BY <2>1, <4>1 DEF CallInv, TypeOK
      <4>5. PICK i \in DOMAIN logs : IsTop(i) /\ logs[i].id = d
        BY <1>1, <2>1, <3>0, <4>3, <4>4 DEF LineInv, LinesComplete, IsOuter
      <4>6. i \in 1 .. k /\ logs'[i] = logs[i]
        BY <1>1, <4>1
      <4>7. QED
        BY <4>5, <4>6 DEF IsTop
    <3>3. QED
      BY <3>1, <3>2
  <2>2. QED
    BY <1>1, <2>1 DEF Introduced, IsData, IsTop, IsOuter
<1>12. QED
  BY <1>8, <1>9, <1>10, <1>11 DEF LineInv

LEMMA InvokeLogged ==
  ASSUME CallInv, NEW kind \in Kinds, NEW key \in Keys, NEW known \in BOOLEAN, Invoke(kind, key, known),
         NEW n, n = Len(calls) + 1,
         NEW c, c = [kind |-> kind, key |-> key, known |-> known, depth |-> Len(stack) + 1, of |-> Nothing,
                     outer |-> IF Len(stack) + 1 = 1 THEN Outers + 1 ELSE Outers]
  PROVE  Logged(<<Line("invoke", c, n)>>)
<1> DEFINE l == Line("invoke", c, n)
           lines == <<l>>
<1>1. Adds(c, n) /\ Recorded(<<l>>) /\ emitted' = emitted
  BY InvokeAdds DEF Invoke
<1>2. l.line = "invoke" /\ l.program = Program(l.kind) /\ l.kind = c.kind /\ l.depth = c.depth /\ l.id = n
  BY DEF Line
<1>3. lines[1] = l /\ DOMAIN lines = {1}
  OBVIOUS
<1> HIDE DEF l, lines, Call
<1>4. /\ calls' \in Seq(Call) /\ \A i \in DOMAIN calls : calls'[i] = calls[i]
      /\ DOMAIN calls' = 1 .. n /\ DOMAIN calls = 1 .. n - 1 /\ n \in Nat /\ calls'[n] = c
      /\ n = Len(calls) + 1
  BY <1>1 DEF Adds
<1>5. Len(calls) <= Len(calls') /\ n \in DOMAIN calls'
  <2>1. calls \in Seq(Call)
    BY DEF CallInv, TypeOK
  <2>2. Len(calls) \in Nat /\ Len(calls') = n
    BY <1>4, <2>1
  <2>3. QED
    BY <1>4, <2>2
<1>6. \A d \in DOMAIN calls' \ DOMAIN calls : d = n
  BY <1>4
<1>7. IsTopInvoke(l) <=> c.depth = 1
  BY <1>2 DEF IsTopInvoke
<1>8. Recorded(lines)
  BY <1>1 DEF lines
<1>9. Logged(lines)
  BY <1>1, <1>2, <1>3, <1>4, <1>5, <1>6, <1>7, <1>8 DEF Logged
<1>10. QED
  BY <1>9 DEF lines, l

LEMMA EmitLogged ==
  ASSUME CallInv, Emit, NEW top, top = Top, NEW c, c = calls[Top], NEW cpi, cpi = CpiOf(c, top),
         NEW lines,
         lines = IF HasLog(c.kind)
                   THEN IF HasCpi(c.kind)
                          THEN <<Line("data", c, top), Line("invoke", cpi, Nothing), Line("done", cpi, Nothing)>>
                          ELSE <<Line("data", c, top)>>
                   ELSE <<Line("invoke", cpi, Nothing), Line("done", cpi, Nothing)>>
  PROVE  Logged(lines)
<1> DEFINE l1 == Line("data", c, top)
           l2 == Line("invoke", cpi, Nothing)
           l3 == Line("done", cpi, Nothing)
<1> PICK n : n = Len(calls) + 1
  OBVIOUS
<1>1. /\ top = n - 1 /\ c \in Call /\ cpi.depth = c.depth + 1
      /\ IF HasCpi(c.kind) THEN Adds(cpi, n) ELSE calls' = calls
      /\ IF HasLog(c.kind)
           THEN IF HasCpi(c.kind) THEN Recorded(<<l1, l2, l3>>) ELSE Recorded(<<l1>>)
           ELSE HasCpi(c.kind) /\ Recorded(<<l2, l3>>)
  BY ONLY CallInv, Emit, top = Top, c = calls[Top], cpi = CpiOf(c, top), n = Len(calls) + 1, EmitAdds
<1>2. stack # <<>> /\ top \notin emitted /\ emitted' = emitted \cup {top}
  BY DEF Emit
<1>3. top \in DOMAIN calls /\ calls[top] = c /\ calls \in Seq(Call) /\ n \in Nat /\ Len(calls) = n - 1
  <2>1. top \in DOMAIN calls /\ calls[top] = c
    BY <1>2, TopKnown
  <2>2. calls \in Seq(Call)
    BY DEF CallInv, TypeOK
  <2>3. QED
    BY <2>1, <2>2
<1>4. /\ l1.line = "data" /\ l1.program = Program(l1.kind) /\ l1.kind = c.kind /\ l1.key = c.key /\ l1.id = top
      /\ l2.line = "invoke" /\ l2.program = Program(l2.kind) /\ l2.depth = cpi.depth
      /\ l3.line = "done" /\ l3.program = Program(l3.kind)
  BY DEF Line
<1>5. c.depth + 1 # 1
  BY <1>1 DEF Call
<1>6. l2.depth # 1
  BY <1>1, <1>4, <1>5
<1>7. ~IsTopInvoke(l1) /\ ~Marks(l2) /\ ~Marks(l3)
  BY <1>4, <1>6 DEF IsTopInvoke, Marks
<1>8. lines = IF HasLog(c.kind) THEN IF HasCpi(c.kind) THEN <<l1, l2, l3>> ELSE <<l1>> ELSE <<l2, l3>>
  OBVIOUS
<1> HIDE DEF l1, l2, l3, Call
<1>9. /\ calls' \in Seq(Call) /\ Len(calls) <= Len(calls') /\ \A i \in DOMAIN calls : calls'[i] = calls[i]
      /\ \A d \in DOMAIN calls' \ DOMAIN calls : calls'[d] = cpi
  <2>1. CASE HasCpi(c.kind)
    <3>1. /\ calls' \in Seq(Call) /\ \A i \in 1 .. n - 1 : calls'[i] = calls[i]
          /\ DOMAIN calls' = 1 .. n /\ DOMAIN calls = 1 .. n - 1
      BY <1>1, <2>1 DEF Adds
    <3>2. calls'[n] = cpi /\ Len(calls') = n
      BY <1>1, <1>3, <2>1 DEF Adds
    <3>3. QED
      BY <1>3, <3>1, <3>2
  <2>2. CASE ~HasCpi(c.kind)
    BY <1>1, <1>3, <2>2
  <2>3. QED
    BY <2>1, <2>2
<1>10. emitted \subseteq emitted' /\ \A d \in emitted' \ emitted : d = top
  BY <1>2
<1>11. calls'[top] = c
  BY <1>3, <1>9
<1>12. cpi.depth # 1
  BY <1>1, <1>5
<1>13. Recorded(lines) /\ 1 \in DOMAIN lines
       /\ \A j \in DOMAIN lines : lines[j] \in {l1, l2, l3} /\ (j # 1 => lines[j] \in {l2, l3})
       /\ IF HasLog(c.kind) THEN lines[1] = l1 ELSE lines[1] = l2
  <2>1. CASE HasLog(c.kind) /\ HasCpi(c.kind)
    <3>1. lines = <<l1, l2, l3>>
      BY <1>8, <2>1
    <3>2. DOMAIN lines = 1 .. 3 /\ lines[1] = l1 /\ lines[2] = l2 /\ lines[3] = l3
      BY ONLY <3>1
    <3>3. QED
      BY <1>1, <2>1, <3>1, <3>2
  <2>2. CASE HasLog(c.kind) /\ ~HasCpi(c.kind)
    <3>1. lines = <<l1>>
      BY <1>8, <2>2
    <3>2. DOMAIN lines = 1 .. 1 /\ lines[1] = l1
      BY <3>1
    <3>3. QED
      BY <1>1, <2>2, <3>1, <3>2
  <2>3. CASE ~HasLog(c.kind)
    <3>1. lines = <<l2, l3>>
      BY <1>8, <2>3
    <3>2. DOMAIN lines = 1 .. 2 /\ lines[1] = l2 /\ lines[2] = l3
      BY ONLY <3>1
    <3>3. QED
      BY <1>1, <2>3, <3>1, <3>2
  <2>4. QED
    BY <2>1, <2>2, <2>3
<1>14. \A j \in DOMAIN lines : lines[j].program = Program(lines[j].kind) /\ (j # 1 => ~Marks(lines[j]))
  BY <1>4, <1>7, <1>13
<1>15. /\ lines[1].line = "data" => HasLog(c.kind) /\ lines[1] = l1
       /\ ~IsTopInvoke(lines[1])
       /\ HasLog(c.kind) => lines[1] = l1
  BY <1>4, <1>7, <1>13 DEF Marks
<1>16. top = Len(calls)
  BY <1>1, <1>3
<1>17. lines[1].line = "data" =>
         /\ lines[1].id = Len(calls) /\ lines[1].id \in emitted' /\ lines[1].id \notin emitted
         /\ HasLog(lines[1].kind) /\ lines[1].kind = calls'[lines[1].id].kind
         /\ lines[1].key = calls'[lines[1].id].key
  BY <1>2, <1>4, <1>11, <1>15, <1>16
<1>18. \A d \in emitted' \ emitted : HasLog(calls'[d].kind) => lines[1].line = "data" /\ lines[1].id = d
  BY <1>4, <1>10, <1>11, <1>15
<1>19. \A d \in DOMAIN calls' \ DOMAIN calls : calls'[d].depth # 1
  BY <1>9, <1>12
<1>20. QED
  BY <1>9, <1>10, <1>13, <1>14, <1>15, <1>17, <1>18, <1>19 DEF Logged

LEMMA ReturnLogged ==
  ASSUME CallInv, Return, NEW c, c = calls[Top], NEW top, top = Top
  PROVE  Logged(<<Line("done", c, top)>>)
<1> DEFINE l == Line("done", c, top)
           lines == <<l>>
<1>1. Recorded(<<l>>) /\ calls' = calls /\ emitted' = emitted
  BY ReturnCalls DEF Return
<1>2. l.line = "done" /\ l.program = Program(l.kind)
  BY DEF Line
<1>3. lines[1] = l /\ DOMAIN lines = {1} /\ Recorded(lines)
  BY <1>1
<1> HIDE DEF l, lines, Call
<1>4. calls \in Seq(Call)
  BY DEF CallInv, TypeOK
<1>5. Len(calls) <= Len(calls)
  BY <1>4
<1>6. Logged(lines)
  BY <1>1, <1>2, <1>3, <1>4, <1>5 DEF Logged, IsTopInvoke
<1>7. QED
  BY <1>6 DEF lines, l

(***************************************************************************)
(* The program stack                                                       *)
(***************************************************************************)

LEMMA TracedOn ==
  ASSUME NEW S, NEW ls \in Seq(S), NEW P, NEW l \in S, Traced(ls, P), l.line = "data" => InScope(P, l),
         NEW t, t = Append(ls, l)
  PROVE  Traced(t, ScopeAfter(P, l))
<1> DEFINE L == Len(ls)
<1>1. PICK active : /\ DOMAIN active = 0 .. L /\ active[0] = <<>> /\ active[L] = P
                    /\ \A n \in 1 .. L :
                         /\ active[n] = ScopeAfter(active[n - 1], ls[n])
                         /\ ls[n].line = "data" => InScope(active[n - 1], ls[n])
  BY DEF Traced
<1>2. L \in Nat /\ Len(t) = L + 1 /\ t[L + 1] = l /\ \A n \in 1 .. L : t[n] = ls[n]
  OBVIOUS
<1> HIDE DEF L
<1> DEFINE on == [n \in 0 .. L + 1 |-> IF n = L + 1 THEN ScopeAfter(P, l) ELSE active[n]]
<1>3. /\ DOMAIN on = 0 .. L + 1 /\ on[0] = <<>> /\ on[L + 1] = ScopeAfter(P, l)
      /\ \A n \in 0 .. L : on[n] = active[n]
  BY <1>1, <1>2
<1> HIDE DEF on
<1>4. ASSUME NEW n \in 1 .. L + 1
      PROVE  /\ on[n] = ScopeAfter(on[n - 1], t[n])
             /\ t[n].line = "data" => InScope(on[n - 1], t[n])
  <2>1. CASE n = L + 1
    <3>1. on[n - 1] = P
      BY <1>1, <1>2, <1>3, <2>1
    <3>2. QED
      BY <1>2, <1>3, <2>1, <3>1
  <2>2. CASE n # L + 1
    <3>1. n \in 1 .. L /\ n - 1 \in 0 .. L /\ n \in 0 .. L
      BY <1>2, <2>2
    <3>2. on[n] = active[n] /\ on[n - 1] = active[n - 1] /\ t[n] = ls[n]
      BY <1>2, <1>3, <3>1
    <3>3. QED
      BY <1>1, <3>1, <3>2
  <2>3. QED
    BY <2>1, <2>2
<1>5. QED
  BY <1>2, <1>3, <1>4 DEF Traced

LEMMA CutOn ==
  ASSUME NEW S, NEW P \in Seq(S), NEW l, l.depth = Len(P) + 1
  PROVE  Cut(P, l) = Append(P, l.program)
<1>1. Len(P) \in Nat /\ l.depth - 1 = Len(P)
  OBVIOUS
<1> DEFINE n == l.depth - 1
           f == [i \in 1 .. n |-> IF i <= Len(P) THEN P[i] ELSE "none"]
<1>2. f = P
  <2>1. f = [i \in 1 .. Len(P) |-> P[i]]
    BY <1>1
  <2>2. QED
    BY <2>1
<1>3. QED
  BY <1>2 DEF Cut

LEMMA CompletedOn ==
  ASSUME NEW S, NEW P \in Seq(S), Len(P) \in Nat \ {0}, NEW l, l.program = P[Len(P)]
  PROVE  Completed(P, l) = Front(P)
<1> DEFINE at == {k \in DOMAIN P : P[k] = l.program}
<1>1. at \subseteq 1 .. Len(P) /\ Len(P) \in at
  OBVIOUS
<1>2. LastOf(at) = Len(P)
  <2> HIDE DEF at
  <2>0. Len(P) \in Nat
    OBVIOUS
  <2>1. LastOf(at) \in at /\ \A y \in at : y <= LastOf(at)
    BY <1>1, <2>0, LastIs
  <2>2. LastOf(at) \in 1 .. Len(P) /\ Len(P) <= LastOf(at)
    BY <1>1, <2>1
  <2>3. QED
    BY ONLY <2>0, <2>2
<1>3. QED
  BY <1>2 DEF Completed, Front

LEMMA StackPrograms ==
  ASSUME CallInv
  PROVE  /\ InStack \in Seq(Programs) /\ Len(InStack) = Len(stack) /\ DOMAIN stack = 1 .. Len(stack)
         /\ \A i \in 1 .. Len(stack) : InStack[i] = Program(calls[stack[i]].kind)
         /\ stack # <<>> => InStack[Len(stack)] = Program(calls[Top].kind)
<1>1. stack \in Seq(Nat) /\ calls \in Seq(Call) /\ Len(stack) \in Nat /\ DOMAIN stack = 1 .. Len(stack)
  BY DEF CallInv, TypeOK
<1>2. ASSUME NEW i \in DOMAIN stack PROVE Program(calls[stack[i]].kind) \in Programs
  <2>1. stack[i] \in DOMAIN calls
    BY DEF CallInv, Stacked
  <2>2. calls[stack[i]].kind \in Kinds
    <3>1. calls[stack[i]] \in Call
      BY <1>1, <2>1
    <3>2. QED
      BY <3>1 DEF Call
  <2>3. QED
    BY <2>2, ProgramOf
<1>3. InStack \in Seq(Programs) /\ Len(InStack) = Len(stack)
  <2>1. InStack = [i \in 1 .. Len(stack) |-> Program(calls[stack[i]].kind)]
    BY <1>1 DEF InStack
  <2>2. \A i \in 1 .. Len(stack) : Program(calls[stack[i]].kind) \in Programs
    BY <1>1, <1>2
  <2>3. InStack \in [1 .. Len(stack) -> Programs]
    BY <2>1, <2>2
  <2>4. QED
    BY <1>1, <2>3
<1>4. stack # <<>> => Len(stack) \in DOMAIN stack
  BY <1>1
<1>5. QED
  BY <1>1, <1>3, <1>4 DEF InStack, Top

\* What a step adds to the logs as long as nothing is lost.
LEMMA AllRecorded ==
  ASSUME NEW n \in {1, 2, 3}, NEW lines, Len(lines) = n, DOMAIN lines = 1 .. n, Recorded(lines), lost' = 0, TypeOK,
         \A j \in 1 .. n : lines[j] \in LogLine
  PROVE  /\ n = 1 => logs' = Append(logs, lines[1])
         /\ n = 2 => logs' = Append(Append(logs, lines[1]), lines[2])
         /\ n = 3 => logs' = Append(Append(Append(logs, lines[1]), lines[2]), lines[3])
<1> PICK L : L = Len(logs)
  OBVIOUS
<1>1. /\ logs \in Seq(LogLine) /\ logs' \in Seq(LogLine) /\ L \in Nat /\ Len(logs') = L + n
      /\ \A i \in 1 .. L : logs'[i] = logs[i]
      /\ \A j \in 1 .. n : logs'[L + j] = lines[j]
  <2>1. logs \in Seq(LogLine)
    BY DEF TypeOK
  <2>2. logs' \in Seq(LogLine) /\ \A i \in DOMAIN logs : logs'[i] = logs[i]
    BY DEF Recorded
  <2>3. Len(logs') = L + n /\ \A j \in 1 .. n : logs'[L + j] = lines[j]
    BY DEF Recorded
  <2> HIDE DEF LogLine
  <2>4. L \in Nat /\ DOMAIN logs = 1 .. L
    BY <2>1
  <2>5. QED
    BY <2>1, <2>2, <2>3, <2>4
<1> HIDE DEF LogLine
<1>2. CASE n = 1
  <2>1. logs' = Append(logs, lines[1])
    BY <1>1, <1>2
  <2>2. QED
    BY <1>2, <2>1
<1>3. CASE n = 2
  <2> DEFINE a == Append(logs, lines[1])
             b == Append(a, lines[2])
  <2>1. a \in Seq(LogLine) /\ Len(a) = L + 1 /\ a[L + 1] = lines[1] /\ \A i \in 1 .. L : a[i] = logs[i]
    BY <1>1
  <2> HIDE DEF a
  <2>2. /\ b \in Seq(LogLine) /\ Len(b) = L + 2 /\ b[L + 2] = lines[2] /\ \A i \in 1 .. L + 1 : b[i] = a[i]
    BY <1>1, <1>3, <2>1
  <2> HIDE DEF b
  <2>3. logs' = b
    BY <1>1, <1>3, <2>1, <2>2
  <2>4. QED
    BY <1>3, <2>3 DEF a, b
<1>4. CASE n = 3
  <2> DEFINE a == Append(logs, lines[1])
             b == Append(a, lines[2])
             c == Append(b, lines[3])
  <2>1. a \in Seq(LogLine) /\ Len(a) = L + 1 /\ a[L + 1] = lines[1] /\ \A i \in 1 .. L : a[i] = logs[i]
    BY <1>1
  <2> HIDE DEF a
  <2>2. /\ b \in Seq(LogLine) /\ Len(b) = L + 2 /\ b[L + 2] = lines[2] /\ \A i \in 1 .. L + 1 : b[i] = a[i]
    BY <1>1, <1>4, <2>1
  <2> HIDE DEF b
  <2>3. /\ c \in Seq(LogLine) /\ Len(c) = L + 3 /\ c[L + 3] = lines[3] /\ \A i \in 1 .. L + 2 : c[i] = b[i]
    BY <1>1, <1>4, <2>2
  <2> HIDE DEF c
  <2>4. logs' = c
    <3>1. Len(logs') = Len(c) /\ Len(c) = L + 3
      BY <1>1, <1>4, <2>3
    <3>2. ASSUME NEW i \in 1 .. L + 3 PROVE logs'[i] = c[i]
      <4>1. CASE i \in 1 .. L
        BY <1>1, <2>1, <2>2, <2>3, <4>1
      <4>2. CASE i = L + 1
        <5>1. i \in 1 .. L + 1 /\ i \in 1 .. L + 2 /\ 1 \in 1 .. n
          BY <1>1, <1>4, <4>2
        <5>2. c[i] = b[i] /\ b[i] = a[i] /\ logs'[i] = lines[1] /\ a[i] = lines[1]
          BY <1>1, <2>1, <2>2, <2>3, <4>2, <5>1
        <5>3. QED
          BY <5>2
      <4>3. CASE i = L + 2
        BY <1>1, <1>4, <2>2, <2>3, <4>3
      <4>4. CASE i = L + 3
        BY <1>1, <1>4, <2>3, <4>4
      <4>5. QED
        BY <1>1, <4>1, <4>2, <4>3, <4>4
    <3>3. QED
      BY <1>1, <2>3, <3>1, <3>2
  <2>5. QED
    BY <1>4, <2>4 DEF a, b, c
<1>5. QED
  BY <1>2, <1>3, <1>4

LEMMA InvokeScoped ==
  ASSUME CallInv, Scoped, NEW kind \in Kinds, NEW key \in Keys, NEW known \in BOOLEAN, Invoke(kind, key, known)
  PROVE  Scoped'
<1> SUFFICES ASSUME lost' = 0 PROVE Traced(logs, InStack)'
  BY DEF Scoped
<1> PICK n : n = Len(calls) + 1
  OBVIOUS
<1> PICK c : c = [kind |-> kind, key |-> key, known |-> known, depth |-> Len(stack) + 1, of |-> Nothing,
                  outer |-> IF Len(stack) + 1 = 1 THEN Outers + 1 ELSE Outers]
  OBVIOUS
<1> PICK l : l = Line("invoke", c, n)
  OBVIOUS
<1> PICK P : P = InStack
  OBVIOUS
<1>1. Adds(c, n) /\ stack' = Append(stack, n) /\ Recorded(<<l>>) /\ l \in LogLine
  BY InvokeAdds
<1>2. l.line = "invoke" /\ l.depth = Len(stack) + 1 /\ l.program = Program(kind) /\ c.kind = kind
  BY DEF Line
<1>3. /\ P \in Seq(Programs) /\ Len(P) = Len(stack) /\ DOMAIN stack = 1 .. Len(stack)
      /\ \A i \in 1 .. Len(stack) : P[i] = Program(calls[stack[i]].kind)
  BY StackPrograms
<1>4. TypeOK /\ stack \in Seq(Nat) /\ logs \in Seq(LogLine) /\ lost \in Nat /\ Len(stack) \in Nat
  BY DEF CallInv, TypeOK
<1> HIDE DEF LogLine, Call
<1>5. Traced(logs, P)
  <2>1. lost = 0
    BY <1>1, <1>4 DEF Recorded
  <2>2. QED
    BY <2>1 DEF Scoped
<1>6. logs' = Append(logs, l)
  <2> DEFINE lines == <<l>>
  <2>1. Len(lines) = 1 /\ DOMAIN lines = 1 .. 1 /\ lines[1] = l
    OBVIOUS
  <2> HIDE DEF lines
  <2>2. Recorded(lines) /\ \A j \in 1 .. 1 : lines[j] \in LogLine
    BY <1>1, <2>1 DEF lines
  <2>3. logs' = Append(logs, lines[1])
    BY ONLY <1>4, <2>1, <2>2, lost' = 0, AllRecorded
  <2>4. QED
    BY <2>1, <2>3
<1>7. Traced(logs', ScopeAfter(P, l))
  BY <1>1, <1>2, <1>4, <1>5, <1>6, TracedOn
<1>8. ScopeAfter(P, l) = Append(P, Program(kind))
  BY <1>2, <1>3, CutOn DEF ScopeAfter
<1>9. InStack' = Append(P, Program(kind))
  <2> DEFINE Q == Append(P, Program(kind))
             R == [i \in DOMAIN stack' |-> Program(calls'[stack'[i]].kind)]
  <2>0. Program(kind) \in Programs
    BY ProgramOf
  <2>1. /\ Q \in Seq(Programs) /\ Len(Q) = Len(stack) + 1 /\ Q[Len(stack) + 1] = Program(kind)
        /\ \A i \in 1 .. Len(stack) : Q[i] = P[i]
    BY <1>3, <1>4, <2>0
  <2>2. DOMAIN stack' = 1 .. Len(stack) + 1 /\ stack'[Len(stack) + 1] = n
        /\ \A i \in 1 .. Len(stack) : stack'[i] = stack[i]
    <3>1. n \in Nat
      BY <1>1 DEF Adds
    <3>2. QED
      BY <1>1, <1>4, <3>1
  <2>3. calls'[n] = c /\ \A i \in DOMAIN calls : calls'[i] = calls[i]
    BY <1>1 DEF Adds
  <2>4. \A i \in 1 .. Len(stack) : calls'[stack[i]] = calls[stack[i]]
    BY <1>3, <2>3 DEF CallInv, Stacked
  <2> HIDE DEF Q
  <2>5. ASSUME NEW i \in 1 .. Len(stack) + 1 PROVE Program(calls'[stack'[i]].kind) = Q[i]
    <3>1. CASE i = Len(stack) + 1
      BY <1>2, <2>1, <2>2, <2>3, <3>1
    <3>2. CASE i # Len(stack) + 1
      <4>1. i \in 1 .. Len(stack)
        BY <1>4, <3>2
      <4>2. QED
        BY <1>3, <2>1, <2>2, <2>4, <4>1
    <3>3. QED
      BY <3>1, <3>2
  <2>6. R = [i \in 1 .. Len(stack) + 1 |-> Q[i]]
    BY <2>2, <2>5
  <2>7. Q = [i \in 1 .. Len(stack) + 1 |-> Q[i]]
    BY <1>4, <2>1
  <2>8. QED
    BY <2>6, <2>7 DEF InStack, Q
<1>10. QED
  <2>1. Traced(logs', InStack')
    BY <1>7, <1>8, <1>9
  <2>2. QED
    BY <2>1 DEF Traced

LEMMA EmitScoped ==
  ASSUME CallInv, Scoped, Emit
  PROVE  Scoped'
<1> SUFFICES ASSUME lost' = 0 PROVE Traced(logs, InStack)'
  BY DEF Scoped
<1> PICK top : top = Top
  OBVIOUS
<1> PICK c : c = calls[Top]
  OBVIOUS
<1> PICK cpi : cpi = CpiOf(c, top)
  OBVIOUS
<1> PICK n : n = Len(calls) + 1
  OBVIOUS
<1> PICK l1 : l1 = Line("data", c, top)
  OBVIOUS
<1> PICK l2 : l2 = Line("invoke", cpi, Nothing)
  OBVIOUS
<1> PICK l3 : l3 = Line("done", cpi, Nothing)
  OBVIOUS
<1> PICK P : P = InStack
  OBVIOUS
<1>1. /\ top = n - 1 /\ c \in Call /\ cpi.kind = c.kind /\ cpi.depth = c.depth + 1
      /\ IF HasCpi(c.kind) THEN Adds(cpi, n) ELSE calls' = calls
      /\ IF HasLog(c.kind)
           THEN IF HasCpi(c.kind) THEN Recorded(<<l1, l2, l3>>) ELSE Recorded(<<l1>>)
           ELSE HasCpi(c.kind) /\ Recorded(<<l2, l3>>)
      /\ {l1, l2, l3} \subseteq LogLine
  BY EmitAdds
<1>2. /\ l1.line = "data" /\ l1.program = Program(c.kind)
      /\ l2.line = "invoke" /\ l2.program = Program(c.kind) /\ l2.depth = c.depth + 1
      /\ l3.line = "done" /\ l3.program = Program(c.kind)
  BY <1>1 DEF Line
<1>3. stack # <<>> /\ stack' = stack
  BY DEF Emit
<1>4. /\ P \in Seq(Programs) /\ Len(P) = Len(stack) /\ DOMAIN stack = 1 .. Len(stack)
      /\ P[Len(stack)] = Program(c.kind)
  BY <1>3, StackPrograms
<1>5. Len(stack) \in Nat \ {0} /\ c.depth = Len(stack)
  BY <1>3, TopKnown
<1>6. TypeOK /\ logs \in Seq(LogLine) /\ lost \in Nat /\ calls \in Seq(Call) /\ c.kind \in Kinds
  <2>1. TypeOK /\ logs \in Seq(LogLine) /\ lost \in Nat /\ calls \in Seq(Call)
    BY DEF CallInv, TypeOK
  <2>2. c.kind \in Kinds
    BY <1>1 DEF Call
  <2>3. QED
    BY <2>1, <2>2
<1> HIDE DEF LogLine, Call
<1>7. l1 \in LogLine /\ l2 \in LogLine /\ l3 \in LogLine
  BY <1>1
<1>8. Traced(logs, P)
  <2>1. lost = 0
    BY <1>1, <1>6 DEF Recorded
  <2>2. QED
    BY <2>1 DEF Scoped
<1>9. InScope(P, l1) /\ ScopeAfter(P, l1) = P
  BY <1>2, <1>4 DEF InScope, ScopeAfter
<1> DEFINE Q == Append(P, Program(c.kind))
<1>10. Program(c.kind) \in Programs
  BY <1>6, ProgramOf
<1>11. ScopeAfter(P, l2) = Q
  BY <1>2, <1>4, <1>5, CutOn DEF ScopeAfter
<1>12. /\ Q \in Seq(Programs) /\ Len(Q) \in Nat \ {0} /\ Q[Len(Q)] = Program(c.kind) /\ Front(Q) = P
  <2>1. Q \in Seq(Programs) /\ Len(Q) = Len(P) + 1 /\ Q[Len(Q)] = Program(c.kind)
    BY <1>4, <1>10
  <2>2. Front(Q) = P
    BY <1>4, <1>10 DEF Front
  <2>3. QED
    BY <1>4, <2>1, <2>2
<1> HIDE DEF Q
<1>13. ScopeAfter(Q, l3) = P
  <2>1. Completed(Q, l3) = Front(Q)
    BY <1>2, <1>12, CompletedOn
  <2>2. QED
    BY <1>2, <1>12, <2>1 DEF ScopeAfter
<1>14. Traced(logs', P)
  <2>1. ASSUME NEW ls \in Seq(LogLine), Traced(ls, P)
        PROVE  Append(ls, l1) \in Seq(LogLine) /\ Traced(Append(ls, l1), P)
    <3> PICK t : t = Append(ls, l1)
      OBVIOUS
    <3>1. Traced(t, ScopeAfter(P, l1))
      BY ONLY ls \in Seq(LogLine), t = Append(ls, l1), <1>7, <1>9, <2>1, TracedOn
    <3>2. t \in Seq(LogLine)
      BY <1>7
    <3>3. QED
      BY <1>9, <3>1, <3>2
  <2>2. ASSUME NEW ls \in Seq(LogLine), Traced(ls, P)
        PROVE  Traced(Append(Append(ls, l2), l3), P)
    <3> DEFINE t == Append(ls, l2)
               u == Append(t, l3)
    <3>0. t \in Seq(LogLine) /\ l2.line # "data" /\ t = Append(ls, l2)
      BY <1>2, <1>7
    <3> HIDE DEF t
    <3>1. t \in Seq(LogLine) /\ Traced(t, Q)
      <4>1. Traced(t, ScopeAfter(P, l2))
        BY ONLY ls \in Seq(LogLine), <3>0, <1>7, <2>2, TracedOn
      <4>2. QED
        BY <1>11, <3>0, <4>1
    <3>2. Traced(u, P)
      BY <1>2, <1>7, <1>13, <3>1, TracedOn
    <3>3. QED
      BY <3>2 DEF t
  <2>3. CASE HasLog(c.kind) /\ HasCpi(c.kind)
    <3> DEFINE lines == <<l1, l2, l3>>
    <3>1. Len(lines) = 3 /\ DOMAIN lines = 1 .. 3 /\ lines[1] = l1 /\ lines[2] = l2 /\ lines[3] = l3
      OBVIOUS
    <3>2. Recorded(lines)
      BY <1>1, <2>3
    <3> HIDE DEF lines
    <3>3. \A j \in 1 .. 3 : lines[j] \in LogLine
      BY <1>7, <3>1
    <3>4. logs' = Append(Append(Append(logs, lines[1]), lines[2]), lines[3])
      BY ONLY <1>6, <3>1, <3>2, <3>3, lost' = 0, AllRecorded
    <3>5. Append(logs, l1) \in Seq(LogLine) /\ Traced(Append(logs, l1), P)
      BY <1>6, <1>8, <2>1
    <3>6. QED
      BY <2>2, <3>1, <3>4, <3>5
  <2>4. CASE HasLog(c.kind) /\ ~HasCpi(c.kind)
    <3> DEFINE lines == <<l1>>
    <3>1. Len(lines) = 1 /\ DOMAIN lines = 1 .. 1 /\ lines[1] = l1
      OBVIOUS
    <3>2. Recorded(lines)
      BY <1>1, <2>4
    <3> HIDE DEF lines
    <3>3. \A j \in 1 .. 1 : lines[j] \in LogLine
      BY <1>7, <3>1
    <3>4. logs' = Append(logs, lines[1])
      BY ONLY <1>6, <3>1, <3>2, <3>3, lost' = 0, AllRecorded
    <3>5. QED
      BY <1>6, <1>8, <2>1, <3>1, <3>4
  <2>5. CASE ~HasLog(c.kind)
    <3> DEFINE lines == <<l2, l3>>
    <3>1. Len(lines) = 2 /\ DOMAIN lines = 1 .. 2 /\ lines[1] = l2 /\ lines[2] = l3
      OBVIOUS
    <3>2. Recorded(lines)
      BY <1>1, <2>5
    <3> HIDE DEF lines
    <3>3. \A j \in 1 .. 2 : lines[j] \in LogLine
      BY <1>7, <3>1
    <3>4. logs' = Append(Append(logs, lines[1]), lines[2])
      BY ONLY <1>6, <3>1, <3>2, <3>3, lost' = 0, AllRecorded
    <3>5. QED
      BY <1>6, <1>8, <2>2, <3>1, <3>4
  <2>6. QED
    BY <2>3, <2>4, <2>5
<1>15. InStack' = P
  <2>1. \A i \in DOMAIN calls : calls'[i] = calls[i]
    BY <1>1 DEF Adds
  <2>2. \A i \in DOMAIN stack : calls'[stack[i]] = calls[stack[i]]
    BY <2>1 DEF CallInv, Stacked
  <2>3. QED
    BY <1>3, <2>2 DEF InStack
<1>16. QED
  BY <1>14, <1>15 DEF Traced

LEMMA ReturnScoped ==
  ASSUME CallInv, Scoped, Return
  PROVE  Scoped'
<1> SUFFICES ASSUME lost' = 0 PROVE Traced(logs, InStack)'
  BY DEF Scoped
<1> PICK top : top = Top
  OBVIOUS
<1> PICK c : c = calls[Top]
  OBVIOUS
<1> PICK l : l = Line("done", c, top)
  OBVIOUS
<1> PICK P : P = InStack
  OBVIOUS
<1>1. Recorded(<<l>>) /\ l \in LogLine
  BY ReturnCalls
<1>2. l.line = "done" /\ l.program = Program(c.kind)
  BY DEF Line
<1>3. stack # <<>> /\ stack' = Front(stack) /\ calls' = calls
  BY DEF Return
<1>4. /\ P \in Seq(Programs) /\ Len(P) = Len(stack) /\ DOMAIN stack = 1 .. Len(stack)
      /\ P[Len(stack)] = Program(c.kind)
      /\ \A i \in 1 .. Len(stack) : P[i] = Program(calls[stack[i]].kind)
  BY <1>3, StackPrograms
<1>5. Len(stack) \in Nat \ {0}
  BY <1>3, TopKnown
<1>6. TypeOK /\ logs \in Seq(LogLine) /\ lost \in Nat /\ stack \in Seq(Nat)
  BY DEF CallInv, TypeOK
<1> HIDE DEF LogLine, Call
<1>7. Traced(logs, P)
  <2>1. lost = 0
    BY <1>1, <1>6 DEF Recorded
  <2>2. QED
    BY <2>1 DEF Scoped
<1>8. logs' = Append(logs, l)
  <2> DEFINE lines == <<l>>
  <2>1. Len(lines) = 1 /\ DOMAIN lines = 1 .. 1 /\ lines[1] = l
    OBVIOUS
  <2> HIDE DEF lines
  <2>2. Recorded(lines) /\ \A j \in 1 .. 1 : lines[j] \in LogLine
    BY <1>1, <2>1 DEF lines
  <2>3. logs' = Append(logs, lines[1])
    BY ONLY <1>6, <2>1, <2>2, lost' = 0, AllRecorded
  <2>4. QED
    BY <2>1, <2>3
<1>9. ScopeAfter(P, l) = Front(P)
  <2>1. Completed(P, l) = Front(P)
    BY <1>2, <1>4, <1>5, CompletedOn
  <2>2. QED
    BY <1>2, <2>1 DEF ScopeAfter
<1>10. Traced(logs', Front(P))
  BY <1>1, <1>2, <1>6, <1>7, <1>8, <1>9, TracedOn
<1>11. InStack' = Front(P)
  <2> DEFINE Q == Front(P)
             R == [i \in DOMAIN stack' |-> Program(calls[stack'[i]].kind)]
  <2>1. /\ DOMAIN stack' = 1 .. Len(stack) - 1
        /\ \A i \in 1 .. Len(stack) - 1 : stack'[i] = stack[i]
    BY <1>3, <1>5, <1>6 DEF Front
  <2>2. Q = [i \in 1 .. Len(stack) - 1 |-> P[i]]
    BY <1>4, <1>5 DEF Front
  <2>3. \A i \in 1 .. Len(stack) - 1 : Program(calls[stack'[i]].kind) = P[i]
    BY <1>4, <1>5, <2>1
  <2>4. R = Q
    BY <2>1, <2>2, <2>3
  <2>5. QED
    BY <1>3, <2>4 DEF InStack, Q
<1>12. QED
  BY <1>10, <1>11 DEF Traced

LEMMA RuntimeStep ==
  ASSUME IInv, Next
  PROVE  IInv'
<1>1. CASE \E kind \in Kinds, key \in Keys, known \in BOOLEAN : Invoke(kind, key, known)
  <2>1. PICK kind \in Kinds, key \in Keys, known \in BOOLEAN : Invoke(kind, key, known)
    BY <1>1
  <2> PICK n : n = Len(calls) + 1
    OBVIOUS
  <2> PICK c : c = [kind |-> kind, key |-> key, known |-> known, depth |-> Len(stack) + 1, of |-> Nothing,
                    outer |-> IF Len(stack) + 1 = 1 THEN Outers + 1 ELSE Outers]
    OBVIOUS
  <2>2. CallInv' /\ Scoped'
    BY <2>1, InvokeCalls, InvokeScoped DEF IInv
  <2>3. Logged(<<Line("invoke", c, n)>>)
    BY <2>1, InvokeLogged DEF IInv
  <2>4. LineInv'
    BY <2>3, LinesKept DEF IInv
  <2>5. QED
    BY <2>2, <2>4 DEF IInv
<1>2. CASE Emit
  <2> PICK top : top = Top
    OBVIOUS
  <2> PICK c : c = calls[Top]
    OBVIOUS
  <2> PICK cpi : cpi = CpiOf(c, top)
    OBVIOUS
  <2> PICK lines :
        lines = IF HasLog(c.kind)
                  THEN IF HasCpi(c.kind)
                         THEN <<Line("data", c, top), Line("invoke", cpi, Nothing), Line("done", cpi, Nothing)>>
                         ELSE <<Line("data", c, top)>>
                  ELSE <<Line("invoke", cpi, Nothing), Line("done", cpi, Nothing)>>
    OBVIOUS
  <2>1. Logged(lines)
    BY <1>2, EmitLogged DEF IInv
  <2>2. CallInv' /\ Scoped'
    BY <1>2, EmitCalls, EmitScoped DEF IInv
  <2>3. LineInv'
    BY <2>1, LinesKept DEF IInv
  <2>4. QED
    BY <2>2, <2>3 DEF IInv
<1>3. CASE Return
  <2>1. Logged(<<Line("done", calls[Top], Top)>>) /\ CallInv' /\ Scoped'
    BY <1>3, ReturnLogged, ReturnCalls, ReturnScoped DEF IInv
  <2>2. LineInv'
    BY <2>1, LinesKept DEF IInv
  <2>3. QED
    BY <2>1, <2>2 DEF IInv
<1>4. CASE Parse
  <2>1. stack = <<>> /\ UNCHANGED <<calls, stack, emitted, logs, lost, room>>
    BY <1>4 DEF Parse
  <2>2. CallInv'
    BY <2>1 DEF IInv, CallInv, TypeOK, Stacked, Nested, CpiFollows, Emits, Undecoded, CreatedOnce, IsPlain,
                IsCpi, IsOuter, OutersUpTo, Top
  <2>3. LineInv'
    BY <2>1 DEF IInv, LineInv, LinesTrue, LinesAscend, LinesComplete, Introduced, IsData, IsTop, IsOuter
  <2>4. Scoped'
    BY <2>1 DEF IInv, Scoped, Traced, InStack
  <2>5. QED
    BY <2>2, <2>3, <2>4 DEF IInv
<1>5. QED
  BY <1>1, <1>2, <1>3, <1>4 DEF Next

\* The records are what a runtime can leave: the calls nest and each is followed by the
\* CPI of its event, log lines are true and in the order of the calls, those before
\* data are there unless lines are lost one by one, and without loss the stack of
\* programs that the scan keeps is the call stack.
THEOREM RuntimeTrue == Spec => []IInv
<1>1. Init => IInv
  <2> SUFFICES ASSUME Init PROVE IInv
    OBVIOUS
  <2>1. calls = <<>> /\ stack = <<>> /\ emitted = {} /\ logs = <<>> /\ lost = 0 /\ room = "ample"
    BY DEF Init
  <2>2. TypeOK /\ DOMAIN calls = {} /\ DOMAIN stack = {} /\ DOMAIN logs = {} /\ Len(logs) = 0
    BY <2>1 DEF TypeOK
  <2>3. CallInv
    BY <2>1, <2>2 DEF CallInv, Stacked, Nested, CpiFollows, Emits, Undecoded, CreatedOnce
  <2>4. LineInv
    BY <2>1, <2>2 DEF LineInv, LinesTrue, LinesAscend, LinesComplete, Introduced
  <2>5. Traced(logs, InStack)
    <3> DEFINE active == [n \in 0 .. 0 |-> <<>>]
    <3>1. InStack = <<>>
      BY <2>1, <2>2 DEF InStack
    <3>2. DOMAIN active = 0 .. Len(logs) /\ active[0] = <<>> /\ active[Len(logs)] = <<>>
      BY <2>2
    <3>3. 1 .. Len(logs) = {}
      BY <2>2
    <3>4. QED
      BY <3>1, <3>2, <3>3 DEF Traced
  <2>6. QED
    BY <2>3, <2>4, <2>5 DEF IInv, Scoped
<1>2. IInv /\ [Next]_vars => IInv'
  <2> SUFFICES ASSUME IInv, [Next]_vars PROVE IInv'
    OBVIOUS
  <2>1. CASE UNCHANGED vars
    <3>1. UNCHANGED <<calls, stack, emitted, logs, lost, room, result>>
      BY <2>1 DEF vars
    <3>2. CallInv'
      BY <3>1 DEF IInv, CallInv, TypeOK, Stacked, Nested, CpiFollows, Emits, Undecoded, CreatedOnce, IsPlain,
                  IsCpi, IsOuter, OutersUpTo, Top
    <3>3. LineInv'
      BY <3>1 DEF IInv, LineInv, LinesTrue, LinesAscend, LinesComplete, Introduced, IsData, IsTop, IsOuter
    <3>4. Scoped'
      BY <3>1 DEF IInv, Scoped, Traced, InStack
    <3>5. QED
      BY <3>2, <3>3, <3>4 DEF IInv
  <2>2. QED
    BY <2>1, RuntimeStep
<1>3. QED
  BY <1>1, <1>2, PTL DEF Spec

(***************************************************************************)
(* Counting                                                                *)
(***************************************************************************)

LEMMA SameSize ==
  ASSUME NEW S, IsFiniteSet(S), NEW T, NEW f \in [S -> T],
         \A x, y \in S : f[x] = f[y] => x = y, \A t \in T : \E x \in S : f[x] = t
  PROVE  IsFiniteSet(T) /\ Cardinality(T) = Cardinality(S)
<1>1. f \in Bijection(S, T)
  BY DEF Bijection, Injection, Surjection, IsInjective
<1>2. ExistsBijection(S, T)
  BY <1>1 DEF ExistsBijection
<1>3. QED
  BY <1>2, FS_Bijection

\* No two numbers of a set have the same rank in it.
LEMMA SameRank ==
  ASSUME NEW N \in Nat, NEW S, S \subseteq 1 .. N, NEW x \in S, NEW y \in S,
         Cardinality({z \in S : z <= x}) = Cardinality({z \in S : z <= y})
  PROVE  x = y
<1>1. ASSUME NEW a \in S, NEW b \in S, a < b
      PROVE  Cardinality({z \in S : z <= a}) # Cardinality({z \in S : z <= b})
  <2> DEFINE A == {z \in S : z <= a}
             B == {z \in S : z <= b}
  <2>1. a \in 1 .. N /\ b \in 1 .. N
    OBVIOUS
  <2>2. A \in SUBSET B
    <3> SUFFICES ASSUME NEW z \in A PROVE z \in B
      OBVIOUS
    <3>1. z \in S /\ z \in 1 .. N /\ z <= a
      OBVIOUS
    <3>2. z <= b
      BY <1>1, <2>1, <3>1
    <3>3. QED
      BY <3>1, <3>2
  <2>3. b \in B /\ b \notin A
    BY <1>1, <2>1
  <2>4. IsFiniteSet(1 .. N)
    BY FS_Interval
  <2>5. B \in SUBSET (1 .. N)
    OBVIOUS
  <2>6. IsFiniteSet(B)
    BY <2>4, <2>5, FS_Subset
  <2> HIDE DEF A, B
  <2>7. Cardinality(B) = Cardinality(A) => B = A
    BY <2>2, <2>6, FS_Subset
  <2>8. QED
    BY <2>3, <2>7 DEF A, B
<1>2. x \in 1 .. N /\ y \in 1 .. N
  OBVIOUS
<1>3. x < y \/ y < x \/ x = y
  BY <1>2
<1>4. QED
  BY <1>1, <1>3

(***************************************************************************)
(* The top-level instruction of a line                                     *)
(***************************************************************************)

\* Every call has its top-level instruction before it.
LEMMA HeadOf ==
  ASSUME CallInv, NEW x \in DOMAIN calls
  PROVE  \E d \in DOMAIN calls :
           d \in 1 .. x /\ IsOuter(d) /\ calls[d].outer = calls[x].outer /\ \A e \in d + 1 .. x : ~IsOuter(e)
<1>1. calls \in Seq(Call) /\ x \in Nat /\ x \in 1 .. Len(calls) /\ Len(calls) \in Nat
  BY DEF CallInv, TypeOK
<1>2. calls[x].outer = Cardinality(OutersUpTo(x)) /\ calls[x].outer # 0
  BY DEF CallInv, Nested
<1>3. OutersUpTo(x) # {}
  BY <1>2, FS_EmptySet
<1> DEFINE d == LastOf(OutersUpTo(x))
<1>4. d \in OutersUpTo(x) /\ \A y \in OutersUpTo(x) : y <= d
  <2>1. OutersUpTo(x) \subseteq 1 .. x
    BY DEF OutersUpTo
  <2>2. QED
    BY <1>1, <1>3, <2>1, LastIs
<1> HIDE DEF d
<1>5. d \in 1 .. x /\ calls[d].depth = 1 /\ d \in DOMAIN calls
  BY <1>1, <1>4 DEF OutersUpTo
<1>6. \A e \in 1 .. x : calls[e].depth = 1 => e <= d
  BY <1>4 DEF OutersUpTo
<1>7. OutersUpTo(d) = OutersUpTo(x)
  BY <1>1, <1>5, <1>6 DEF OutersUpTo
<1>8. calls[d].outer = Cardinality(OutersUpTo(d))
  BY <1>5 DEF CallInv, Nested
<1>9. \A e \in d + 1 .. x : ~IsOuter(e)
  <2> SUFFICES ASSUME NEW e \in d + 1 .. x, calls[e].depth = 1 PROVE FALSE
    BY DEF IsOuter
  <2>1. e \in 1 .. x /\ d < e
    BY <1>1, <1>5
  <2>2. QED
    BY <1>1, <1>5, <1>6, <2>1
<1>10. QED
  BY <1>2, <1>5, <1>7, <1>8, <1>9 DEF IsOuter

\* The top-level instruction a data line is attributed to is its own, or none if lines
\* are missing.
LEMMA OuterFound ==
  ASSUME IInv, NEW k \in DOMAIN logs, IsData(k), lost = 0 \/ LosesTail
  PROVE  /\ OuterIndex(k) \in {Nothing, calls[logs[k].id].outer}
         /\ lost = 0 => OuterIndex(k) = calls[logs[k].id].outer
<1> PICK x : x = logs[k].id
  OBVIOUS
<1> PICK L : L = Len(logs)
  OBVIOUS
<1> PICK N : N = Len(calls)
  OBVIOUS
<1>1. /\ calls \in Seq(Call) /\ logs \in Seq(LogLine) /\ CallInv /\ LineInv
      /\ N \in Nat /\ DOMAIN calls = 1 .. N /\ L \in Nat /\ DOMAIN logs = 1 .. L /\ k \in 1 .. L
  BY DEF IInv, CallInv, TypeOK
<1>2. x \in 1 .. N
  <2>1. emitted \subseteq DOMAIN calls
    BY DEF IInv, CallInv, TypeOK
  <2>2. QED
    BY <1>1, <2>1 DEF LineInv, LinesTrue
<1>3. PICK d \in DOMAIN calls :
        d \in 1 .. x /\ IsOuter(d) /\ calls[d].outer = calls[x].outer /\ \A e \in d + 1 .. x : ~IsOuter(e)
  BY <1>1, <1>2, HeadOf
<1> HIDE DEF LogLine, Call
<1>4. \A e \in 1 .. x : IsOuter(e) => \E j \in 1 .. k : IsTop(j) /\ logs[j].id = e
  BY DEF IInv, LineInv, Introduced
<1> DEFINE tops == {j \in 1 .. k : IsTopInvoke(logs[j])}
           i == LastOf(tops)
<1>5. i \in tops /\ \A j \in tops : j <= i
  <2>1. tops \subseteq 1 .. k /\ k \in Nat
    BY <1>1
  <2>2. tops # {}
    BY <1>3, <1>4 DEF IsTop
  <2> HIDE DEF tops
  <2>3. QED
    BY <2>1, <2>2, LastIs
<1>6. i \in 1 .. k /\ IsTop(i) /\ i \in 1 .. L /\ i # 0 /\ i # k /\ i < k
  <2>1. i \in 1 .. k /\ IsTop(i)
    BY <1>5 DEF IsTop
  <2>2. ~IsTop(k)
    BY DEF IsTop, IsData, IsTopInvoke
  <2>3. QED
    BY <1>1, <2>1, <2>2
<1>7. \A j \in 1 .. k : IsTop(j) => j <= i
  BY <1>5 DEF IsTop
<1> HIDE DEF tops, i
<1>8. \A j \in 1 .. L : IsTop(j) => /\ logs[j].id \in 1 .. N /\ IsOuter(logs[j].id)
                                    /\ logs[j].program = Program(calls[logs[j].id].kind)
  BY <1>1 DEF LineInv, LinesTrue
<1>9. \A a, b \in 1 .. L : a < b /\ IsTop(a) /\ IsTop(b) => logs[a].id < logs[b].id
  BY <1>1 DEF LineInv, LinesAscend
<1>10. \A a \in 1 .. L : a < k /\ IsTop(a) => logs[a].id <= x
  BY <1>1 DEF LineInv, LinesAscend
<1>11. logs[i].id = d
  <2>1. PICK j \in 1 .. k : IsTop(j) /\ logs[j].id = d
    BY <1>3, <1>4
  <2>2. j \in 1 .. L /\ j <= i
    BY <1>1, <1>7, <2>1
  <2>3. d <= logs[i].id
    <3>1. CASE j = i
      BY <1>1, <1>3, <2>1, <3>1
    <3>2. CASE j # i
      <4>1. logs[j].id < logs[i].id
        BY <1>1, <1>6, <1>9, <2>1, <2>2, <3>2
      <4>2. QED
        BY <1>1, <1>3, <1>6, <1>8, <2>1, <4>1
    <3>3. QED
      BY <3>1, <3>2
  <2>4. logs[i].id <= x /\ logs[i].id \in 1 .. N /\ IsOuter(logs[i].id)
    BY <1>6, <1>8, <1>10
  <2>5. logs[i].id \notin d + 1 .. x
    BY <1>3, <2>4
  <2>6. QED
    BY <1>2, <1>3, <2>3, <2>4, <2>5
<1> DEFINE program == logs[i].program
           at == TopCalls(program)
           upTo == {e \in at : e <= d}
           invoked == TopInvokes(program, i)
<1>12. program = Program(calls[d].kind)
  BY <1>6, <1>8, <1>11
<1>13. d \in at /\ d \in upTo
  BY <1>3, <1>12 DEF TopCalls, IsOuter
<1>14. ASSUME NEW j \in 1 .. L, IsTop(j), logs[j].program = program PROVE logs[j].id \in at
  BY <1>1, <1>8, <1>14 DEF TopCalls, IsOuter
<1>15. Cardinality(invoked) = Cardinality(upTo)
  <2> DEFINE f == [j \in invoked |-> logs[j].id]
  <2>1. invoked \subseteq 1 .. i /\ IsFiniteSet(1 .. i) /\ i \in Nat
    BY <1>6, FS_Interval DEF TopInvokes
  <2>2. IsFiniteSet(invoked)
    BY <2>1, FS_Subset
  <2>3. ASSUME NEW j \in invoked PROVE j \in 1 .. L /\ j <= i /\ IsTop(j) /\ logs[j].program = program
    BY <1>1, <1>6 DEF TopInvokes, IsTop
  <2>4. ASSUME NEW j \in invoked PROVE logs[j].id \in upTo
    <3>1. logs[j].id \in at
      BY <1>14, <2>3
    <3>2. CASE j = i
      BY <1>11, <1>13, <3>2
    <3>3. CASE j # i
      <4>1. j < i
        BY <1>6, <2>1, <2>3, <3>3
      <4>2. logs[j].id < d
        BY <1>6, <1>9, <1>11, <2>3, <4>1
      <4>3. logs[j].id \in 1 .. N
        BY <1>8, <2>3
      <4>4. QED
        BY <1>1, <3>1, <4>2, <4>3
    <3>4. QED
      BY <3>2, <3>3
  <2>5. ASSUME NEW a \in invoked, NEW b \in invoked, logs[a].id = logs[b].id PROVE a = b
    <3>1. a \in 1 .. L /\ b \in 1 .. L /\ IsTop(a) /\ IsTop(b)
      BY <2>3
    <3>2. logs[a].id \in 1 .. N
      BY <1>8, <3>1
    <3>3. ~(logs[a].id < logs[b].id) /\ ~(logs[b].id < logs[a].id)
      BY <2>5, <3>2
    <3>4. ~(a < b) /\ ~(b < a)
      BY <1>9, <3>1, <3>3
    <3>5. QED
      BY <3>1, <3>4
  <2>6. ASSUME NEW e \in upTo PROVE \E j \in invoked : logs[j].id = e
    <3>1. e \in 1 .. N /\ IsOuter(e) /\ e <= d /\ Program(calls[e].kind) = program
      BY <1>1 DEF TopCalls, IsOuter
    <3>2. e \in 1 .. x
      BY <1>1, <1>2, <1>3, <3>1
    <3>3. PICK j \in 1 .. k : IsTop(j) /\ logs[j].id = e
      BY <1>4, <3>1, <3>2
    <3>4. j \in 1 .. L /\ j <= i /\ j \in 1 .. i
      BY <1>1, <1>6, <1>7, <3>3
    <3>5. logs[j].program = program
      BY <1>8, <3>1, <3>3, <3>4
    <3>6. j \in invoked
      BY <3>3, <3>4, <3>5 DEF TopInvokes, IsTop
    <3>7. QED
      BY <3>3, <3>6
  <2> HIDE DEF invoked, upTo
  <2>7. f \in [invoked -> upTo]
    BY <2>4
  <2>8. (\A a, b \in invoked : f[a] = f[b] => a = b) /\ \A e \in upTo : \E j \in invoked : f[j] = e
    BY <2>5, <2>6
  <2> HIDE DEF f
  <2>9. QED
    BY <2>2, <2>7, <2>8, SameSize
<1>16. \A c \in at : Cardinality({e \in at : e <= c}) = Cardinality(invoked) => c = d
  <2> SUFFICES ASSUME NEW c \in at, Cardinality({e \in at : e <= c}) = Cardinality(invoked) PROVE c = d
    OBVIOUS
  <2>1. at \subseteq 1 .. N
    BY <1>1 DEF TopCalls
  <2>2. Cardinality({e \in at : e <= c}) = Cardinality({e \in at : e <= d})
    BY <1>15
  <2> HIDE DEF at, invoked, upTo
  <2>3. QED
    BY ONLY <1>1, <1>13, <2>1, <2>2, c \in at, SameRank
<1>17. (CHOOSE c \in at : Cardinality({e \in at : e <= c}) = Cardinality(invoked)) = d
  <2>1. Cardinality({e \in at : e <= d}) = Cardinality(invoked)
    BY <1>15
  <2> HIDE DEF at, invoked, upTo
  <2>2. QED
    BY <1>13, <1>16, <2>1
<1>18. OuterIndex(k) = IF Cardinality(TopInvokes(program, Len(logs))) = Cardinality(at) THEN calls[d].outer ELSE Nothing
  <2>1. OuterIndex(k) = Position(program, Cardinality(invoked))
    BY <1>6 DEF OuterIndex, i, tops
  <2>2. QED
    BY <1>17, <2>1 DEF Position
<1>19. ASSUME lost = 0 PROVE Cardinality(TopInvokes(program, Len(logs))) = Cardinality(at)
  <2> DEFINE all == TopInvokes(program, Len(logs))
             f == [j \in all |-> logs[j].id]
  <2>1. all \subseteq 1 .. L /\ IsFiniteSet(1 .. L)
    BY <1>1, FS_Interval DEF TopInvokes
  <2>2. IsFiniteSet(all)
    BY <2>1, FS_Subset
  <2>3. ASSUME NEW j \in all PROVE j \in 1 .. L /\ IsTop(j) /\ logs[j].program = program /\ logs[j].id \in at
    <3>1. j \in 1 .. L /\ IsTop(j) /\ logs[j].program = program
      BY DEF TopInvokes, IsTop
    <3>2. QED
      BY <1>14, <3>1
  <2>4. ASSUME NEW a \in all, NEW b \in all, logs[a].id = logs[b].id PROVE a = b
    <3>1. a \in 1 .. L /\ b \in 1 .. L /\ IsTop(a) /\ IsTop(b)
      BY <2>3
    <3>2. logs[a].id \in 1 .. N
      BY <1>8, <3>1
    <3>3. ~(logs[a].id < logs[b].id) /\ ~(logs[b].id < logs[a].id)
      BY <2>4, <3>2
    <3>4. ~(a < b) /\ ~(b < a)
      BY <1>9, <3>1, <3>3
    <3>5. QED
      BY <3>1, <3>4
  <2>5. ASSUME NEW e \in at PROVE \E j \in all : logs[j].id = e
    <3>1. e \in 1 .. N /\ IsOuter(e) /\ Program(calls[e].kind) = program
      BY <1>1 DEF TopCalls, IsOuter
    <3>2. PICK j \in 1 .. L : IsTop(j) /\ logs[j].id = e
      BY <1>1, <1>19, <3>1 DEF LineInv, LinesComplete
    <3>3. logs[j].program = program
      BY <1>8, <3>1, <3>2
    <3>4. j \in all
      BY <3>2, <3>3 DEF TopInvokes, IsTop
    <3>5. QED
      BY <3>2, <3>4
  <2> HIDE DEF all, at
  <2>6. f \in [all -> at]
    BY <2>3
  <2>7. (\A a, b \in all : f[a] = f[b] => a = b) /\ \A e \in at : \E j \in all : f[j] = e
    BY <2>4, <2>5
  <2> HIDE DEF f
  <2>8. Cardinality(at) = Cardinality(all)
    BY <2>2, <2>6, <2>7, SameSize
  <2>9. QED
    BY <2>8 DEF all
<1>20. QED
  BY <1>3, <1>18, <1>19

(***************************************************************************)
(* The events of the logs                                                  *)
(***************************************************************************)

LEMMA ScannedUnfolds ==
  ASSUME NEW N \in Nat, N = Len(logs)
  PROVE  /\ ScannedUpTo[0] = [active |-> <<>>, out |-> <<>>]
         /\ \A n \in 1 .. N : ScannedUpTo[n] = ScanLine(ScannedUpTo[n - 1], n)
<1> DEFINE none == [active |-> <<>>, out |-> <<>>]
           Goes(k, f) == f = [n \in 0 .. k |-> IF n = 0 THEN none ELSE ScanLine(f[n - 1], n)]
           K == {k \in 0 .. N : \E f : Goes(k, f)}
<1> HIDE DEF none
<1>2. 0 \in K
  <2>1. Goes(0, [n \in 0 .. 0 |-> none])
    OBVIOUS
  <2> HIDE DEF Goes
  <2>2. \E f : Goes(0, f)
    BY <2>1
  <2>3. QED
    BY <2>2
<1>3. ASSUME NEW k \in 1 .. N, k - 1 \in K PROVE k \in K
  <2>1. PICK f : Goes(k - 1, f)
    BY <1>3
  <2> DEFINE g == [n \in 0 .. k |-> IF n = 0 THEN none ELSE ScanLine(f[n - 1], n)]
  <2>2. \A n \in 0 .. k - 1 : g[n] = f[n]
    BY <2>1
  <2>3. g = [n \in 0 .. k |-> IF n = 0 THEN none ELSE ScanLine(f[n - 1], n)]
    OBVIOUS
  <2> HIDE DEF g
  <2>4. Goes(k, g)
    <3>1. ASSUME NEW n \in 0 .. k, n # 0 PROVE f[n - 1] = g[n - 1]
      <4>1. n - 1 \in 0 .. k - 1
        BY <3>1
      <4>2. QED
        BY <2>2, <4>1
    <3>2. QED
      BY <2>3, <3>1
  <2> HIDE DEF Goes
  <2>5. \E h : Goes(k, h)
    BY <2>4
  <2>6. QED
    BY <2>5
<1>4. 0 .. N \subseteq K
  <2> HIDE DEF K
  <2> QED
    BY ONLY N \in Nat, <1>2, <1>3, Throughout
<1>5. \E f : Goes(N, f)
  <2>1. N \in K
    BY <1>4
  <2> HIDE DEF Goes
  <2>2. QED
    BY <2>1
<1> DEFINE upTo[n \in 0 .. N] == IF n = 0 THEN none ELSE ScanLine(upTo[n - 1], n)
<1>6. Goes(N, upTo)
  BY <1>5
<1>7. ScannedUpTo = upTo
  BY DEF ScannedUpTo, none
<1> HIDE DEF upTo
<1>8. upTo[0] = none /\ \A n \in 1 .. N : upTo[n] = ScanLine(upTo[n - 1], n)
  BY <1>6
<1>9. QED
  BY <1>7, <1>8 DEF none

\* A decoded data line tells of the execution it is of, and with nothing lost of the
\* router too.
LEMMA LogEventTrue ==
  ASSUME IInv, NEW k \in DOMAIN logs, IsData(k), NEW x, x = logs[k].id, NEW e, e = LogEvent(k)
  PROVE  /\ x \in DOMAIN calls /\ x \in emitted /\ IsPlain(x) /\ calls[x].kind # "router" /\ HasLog(calls[x].kind)
         /\ e \in Event /\ e.from = {x} /\ e.kind = calls[x].kind /\ e.key = calls[x].key
         /\ e.amounts = "executed"
         /\ lost = 0 \/ LosesTail => e.router \in {Nothing, calls[x].outer}
         /\ lost = 0 => e.router = Router(calls[x].kind, calls[x].outer)
<1>1. logs \in Seq(LogLine) /\ logs[k] \in LogLine /\ emitted \subseteq DOMAIN calls /\ calls \in Seq(Call)
  BY DEF IInv, CallInv, TypeOK
<1>2. /\ x \in emitted /\ HasLog(logs[k].kind)
      /\ logs[k].kind = calls[x].kind /\ logs[k].key = calls[x].key
  BY DEF IInv, LineInv, LinesTrue
<1>3. x \in DOMAIN calls /\ IsPlain(x) /\ calls[x].kind # "router"
  BY <1>1, <1>2 DEF IInv, CallInv, Emits
<1>4. e.from = {x} /\ e.kind = logs[k].kind /\ e.key = logs[k].key /\ e.amounts = "executed"
      /\ e.router = Router(logs[k].kind, OuterIndex(k))
  BY DEF LogEvent
<1>5. Router(logs[k].kind, OuterIndex(k)) \in {Nothing, OuterIndex(k)}
  BY DEF Router
<1>6. e \in Event
  <2>1. logs[k].kind \in Kinds /\ logs[k].key \in Keys /\ logs[k].id \in Nat
    BY <1>1 DEF LogLine
  <2>2. Router(logs[k].kind, OuterIndex(k)) \in Routers
    BY <1>5 DEF Routers, Nothing
  <2> DEFINE r == Router(logs[k].kind, OuterIndex(k))
             kind == logs[k].kind
             key == logs[k].key
             from == {logs[k].id}
  <2>3. from \in SUBSET Nat /\ kind \in Kinds /\ key \in Keys /\ r \in Routers
    BY <2>1, <2>2
  <2>4. e = [kind |-> kind, key |-> key, router |-> r, from |-> from, accounts |-> FALSE, amounts |-> "executed"]
    BY DEF LogEvent
  <2> HIDE DEF r, kind, key, from
  <2>5. QED
    BY <2>3, <2>4 DEF Event
<1>7. lost = 0 \/ LosesTail => OuterIndex(k) \in {Nothing, calls[x].outer}
  BY OuterFound
<1>8. lost = 0 => OuterIndex(k) = calls[x].outer
  BY OuterFound
<1>9. QED
  BY <1>1, <1>2, <1>3, <1>4, <1>5, <1>6, <1>7, <1>8

\* What is true of the events of the first n lines.
ScanTrue(out, n) ==
  /\ out \in Seq(Event)
  /\ \A j \in DOMAIN out : \E k \in 1 .. n : IsData(k) /\ out[j] = LogEvent(k)
  /\ \A i, j \in DOMAIN out : i < j =>
       \E k, l \in 1 .. n : k < l /\ IsData(k) /\ IsData(l) /\ out[i] = LogEvent(k) /\ out[j] = LogEvent(l)

LEMMA ScanOn ==
  ASSUME IInv, NEW L \in Nat, L = Len(logs), NEW n \in 1 .. L, NEW out, ScanTrue(out, n - 1),
         NEW t, t = out \/ (IsData(n) /\ t = Append(out, LogEvent(n)))
  PROVE  ScanTrue(t, n)
<1>1. out \in Seq(Event) /\ DOMAIN out = 1 .. Len(out) /\ Len(out) \in Nat /\ n \in Nat /\ n - 1 \in Nat
      /\ n \in DOMAIN logs
  <2>1. logs \in Seq(LogLine)
    BY DEF IInv, CallInv, TypeOK
  <2>2. QED
    BY <2>1 DEF ScanTrue
<1>2. CASE t = out
  <2>1. \A j \in DOMAIN out : \E k \in 1 .. n : IsData(k) /\ out[j] = LogEvent(k)
    <3> SUFFICES ASSUME NEW j \in DOMAIN out PROVE \E k \in 1 .. n : IsData(k) /\ out[j] = LogEvent(k)
      OBVIOUS
    <3>1. PICK k \in 1 .. n - 1 : IsData(k) /\ out[j] = LogEvent(k)
      BY DEF ScanTrue
    <3>2. k \in 1 .. n
      BY <1>1
    <3>3. QED
      BY <3>1, <3>2
  <2>2. ASSUME NEW i \in DOMAIN out, NEW j \in DOMAIN out, i < j
        PROVE  \E k, l \in 1 .. n : k < l /\ IsData(k) /\ IsData(l) /\ out[i] = LogEvent(k) /\ out[j] = LogEvent(l)
    <3>1. PICK k \in 1 .. n - 1, l \in 1 .. n - 1 :
            k < l /\ IsData(k) /\ IsData(l) /\ out[i] = LogEvent(k) /\ out[j] = LogEvent(l)
      BY <2>2 DEF ScanTrue
    <3>2. k \in 1 .. n /\ l \in 1 .. n
      BY <1>1
    <3>3. QED
      BY <3>1, <3>2
  <2>3. QED
    BY <1>1, <1>2, <2>1, <2>2 DEF ScanTrue
<1>3. CASE IsData(n) /\ t = Append(out, LogEvent(n))
  <2> PICK e : e = LogEvent(n)
    OBVIOUS
  <2>1. e \in Event
    BY <1>1, <1>3, LogEventTrue
  <2>2. /\ t \in Seq(Event) /\ DOMAIN t = 1 .. Len(out) + 1 /\ t[Len(out) + 1] = e
        /\ \A j \in 1 .. Len(out) : t[j] = out[j]
    <3>1. t = Append(out, e) /\ out \in Seq(Event) /\ e \in Event
      BY <1>1, <1>3, <2>1
    <3>2. QED
      BY ONLY <3>1
  <2>3. ASSUME NEW j \in 1 .. Len(out) PROVE \E k \in 1 .. n - 1 : IsData(k) /\ t[j] = LogEvent(k)
    BY <1>1, <2>2 DEF ScanTrue
  <2>4. ASSUME NEW j \in DOMAIN t PROVE \E k \in 1 .. n : IsData(k) /\ t[j] = LogEvent(k)
    <3>1. CASE j \in 1 .. Len(out)
      <4>1. PICK k \in 1 .. n - 1 : IsData(k) /\ t[j] = LogEvent(k)
        BY <2>3, <3>1
      <4>2. k \in 1 .. n
        BY <1>1
      <4>3. QED
        BY <4>1, <4>2
    <3>2. CASE j = Len(out) + 1
      <4>1. n \in 1 .. n
        BY <1>1
      <4>2. QED
        BY <1>3, <2>2, <3>2, <4>1
    <3>3. QED
      BY <1>1, <2>2, <3>1, <3>2
  <2>5. ASSUME NEW i \in DOMAIN t, NEW j \in DOMAIN t, i < j
        PROVE  \E k, l \in 1 .. n : k < l /\ IsData(k) /\ IsData(l) /\ t[i] = LogEvent(k) /\ t[j] = LogEvent(l)
    <3>1. i \in 1 .. Len(out) /\ t[i] = out[i] /\ i \in DOMAIN out
      BY <1>1, <2>2, <2>5
    <3>2. CASE j \in 1 .. Len(out)
      <4>1. PICK k \in 1 .. n - 1, l \in 1 .. n - 1 :
              k < l /\ IsData(k) /\ IsData(l) /\ out[i] = LogEvent(k) /\ out[j] = LogEvent(l)
        BY <1>1, <2>5, <3>1, <3>2 DEF ScanTrue
      <4>2. k \in 1 .. n /\ l \in 1 .. n
        BY <1>1
      <4>3. QED
        BY <2>2, <3>1, <3>2, <4>1, <4>2
    <3>3. CASE j = Len(out) + 1
      <4>1. PICK k \in 1 .. n - 1 : IsData(k) /\ t[i] = LogEvent(k)
        BY <2>3, <3>1
      <4>2. k \in 1 .. n /\ n \in 1 .. n /\ k < n
        BY <1>1
      <4>3. t[j] = LogEvent(n)
        BY <2>2, <3>3
      <4>4. QED
        BY <1>3, <4>1, <4>2, <4>3
    <3>4. QED
      BY <1>1, <2>2, <3>2, <3>3
  <2>6. QED
    BY <2>2, <2>4, <2>5 DEF ScanTrue
<1>4. QED
  BY <1>2, <1>3

\* The scan of all lines: true, and without loss complete.
LEMMA LogsScanned ==
  ASSUME IInv
  PROVE  /\ ScanTrue(LogEvents, Len(logs))
         /\ lost = 0 => \A k \in DOMAIN logs : IsData(k) => \E j \in DOMAIN LogEvents : LogEvents[j] = LogEvent(k)
<1> DEFINE L == Len(logs)
           at == ScannedUpTo
<1>1. logs \in Seq(LogLine) /\ L \in Nat /\ DOMAIN logs = 1 .. L
  BY DEF IInv, CallInv, TypeOK
<1>2. at[0] = [active |-> <<>>, out |-> <<>>] /\ \A n \in 1 .. L : at[n] = ScanLine(at[n - 1], n)
  BY <1>1, ScannedUnfolds
<1> HIDE DEF at, L
<1>3. PICK active : lost = 0 =>
        /\ active[0] = <<>>
        /\ \A n \in 1 .. L :
             /\ active[n] = ScopeAfter(active[n - 1], logs[n])
             /\ logs[n].line = "data" => InScope(active[n - 1], logs[n])
  BY DEF IInv, Scoped, Traced, L
<1> DEFINE Inv(n) == /\ at[n] = [active |-> at[n].active, out |-> at[n].out] /\ ScanTrue(at[n].out, n)
                     /\ lost = 0 =>
                          /\ at[n].active = active[n]
                          /\ \A k \in 1 .. n : IsData(k) =>
                               \E j \in DOMAIN at[n].out : at[n].out[j] = LogEvent(k)
           K == {n \in 0 .. L : Inv(n)}
<1>4. 0 \in K
  <2>1. at[0].active = <<>> /\ at[0].out = <<>>
    BY <1>2
  <2>2. ScanTrue(<<>>, 0)
    BY DEF ScanTrue
  <2>3. QED
    BY <1>1, <1>2, <1>3, <2>1, <2>2
<1>5. ASSUME NEW n \in 1 .. L, n - 1 \in K PROVE n \in K
  <2> PICK s : s = at[n - 1]
    OBVIOUS
  <2>1. /\ s = [active |-> s.active, out |-> s.out] /\ ScanTrue(s.out, n - 1)
        /\ lost = 0 =>
             /\ s.active = active[n - 1]
             /\ \A k \in 1 .. n - 1 : IsData(k) => \E j \in DOMAIN s.out : s.out[j] = LogEvent(k)
    BY <1>5
  <2>2. at[n] = ScanLine(s, n)
    BY <1>2
  <2>3. logs[n] \in LogLine /\ n \in Nat
    BY <1>1
  <2>4. logs[n].line \in {"invoke", "data", "done"}
    BY <2>3 DEF LogLine
  <2> HIDE DEF K
  <2>5. ASSUME NEW a, NEW out, at[n] = [active |-> a, out |-> out], ScanTrue(out, n),
               lost = 0 => a = active[n] /\ \A k \in 1 .. n : IsData(k) => \E j \in DOMAIN out : out[j] = LogEvent(k)
        PROVE  n \in K
    <3>1. at[n].active = a /\ at[n].out = out
      BY <2>5
    <3>2. QED
      BY <1>1, <2>5, <3>1 DEF K
  <2>6. CASE logs[n].line = "invoke"
    <3>1. at[n] = [active |-> Cut(s.active, logs[n]), out |-> s.out]
      <4>1. at[n] = [s EXCEPT !.active = Cut(@, logs[n])]
        BY <2>2, <2>6 DEF ScanLine
      <4>2. QED
        BY <2>1, <4>1
    <3>2. ScanTrue(s.out, n)
      BY <1>1, <2>1, ScanOn DEF L
    <3>3. lost = 0 => Cut(s.active, logs[n]) = active[n]
      BY <1>3, <2>1, <2>6 DEF ScopeAfter
    <3>4. ~IsData(n)
      BY <2>6 DEF IsData
    <3>5. lost = 0 => \A k \in 1 .. n : IsData(k) => \E j \in DOMAIN s.out : s.out[j] = LogEvent(k)
      BY <1>1, <2>1, <2>3, <3>4
    <3>6. QED
      BY <2>5, <3>1, <3>2, <3>3, <3>5
  <2>7. CASE logs[n].line = "done"
    <3>1. at[n] = [active |-> Completed(s.active, logs[n]), out |-> s.out]
      <4>1. at[n] = [s EXCEPT !.active = Completed(@, logs[n])]
        BY <2>2, <2>7 DEF ScanLine
      <4>2. QED
        BY <2>1, <4>1
    <3>2. ScanTrue(s.out, n)
      BY <1>1, <2>1, ScanOn DEF L
    <3>3. lost = 0 => Completed(s.active, logs[n]) = active[n]
      BY <1>3, <2>1, <2>7 DEF ScopeAfter
    <3>4. ~IsData(n)
      BY <2>7 DEF IsData
    <3>5. lost = 0 => \A k \in 1 .. n : IsData(k) => \E j \in DOMAIN s.out : s.out[j] = LogEvent(k)
      BY <1>1, <2>1, <2>3, <3>4
    <3>6. QED
      BY <2>5, <3>1, <3>2, <3>3, <3>5
  <2>8. CASE logs[n].line = "data"
    <3> DEFINE t == Append(s.out, LogEvent(n))
    <3>1. lost = 0 => InScope(s.active, logs[n]) /\ s.active = active[n]
      BY <1>3, <2>1, <2>8 DEF ScopeAfter
    <3>2. IsData(n) /\ LogEvent(n) \in Event
      BY <1>1, <2>8, LogEventTrue DEF IsData
    <3>3. CASE ~InScope(s.active, logs[n])
      <4>1. at[n] = [active |-> s.active, out |-> s.out]
        BY <2>1, <2>2, <2>8, <3>3 DEF ScanLine
      <4>2. ScanTrue(s.out, n)
        BY <1>1, <2>1, ScanOn DEF L
      <4>3. lost # 0
        BY <3>1, <3>3
      <4>4. QED
        BY <2>5, <4>1, <4>2, <4>3
    <3>4. CASE InScope(s.active, logs[n])
      <4>1. at[n] = [active |-> s.active, out |-> t]
        <5>1. at[n] = [s EXCEPT !.out = Append(@, LogEvent(n))]
          BY <2>2, <2>8, <3>4 DEF ScanLine
        <5> HIDE DEF Event, LogLine
        <5>2. QED
          BY <2>1, <5>1
      <4>2. ScanTrue(t, n)
        BY <1>1, <2>1, <3>2, ScanOn DEF L
      <4>3. s.out \in Seq(Event) /\ DOMAIN t = 1 .. Len(s.out) + 1 /\ t[Len(s.out) + 1] = LogEvent(n)
            /\ \A j \in DOMAIN s.out : j \in DOMAIN t /\ t[j] = s.out[j]
        <5>1. s.out \in Seq(Event)
          BY <2>1 DEF ScanTrue
        <5> PICK e : e = LogEvent(n)
          OBVIOUS
        <5> HIDE DEF Event
        <5>2. QED
          BY <3>2, <5>1
      <4> HIDE DEF t
      <4>4. ASSUME lost = 0, NEW k \in 1 .. n, IsData(k) PROVE \E j \in DOMAIN t : t[j] = LogEvent(k)
        <5>1. CASE k = n
          <6>1. Len(s.out) + 1 \in DOMAIN t
            <7>1. Len(s.out) \in Nat
              BY <4>3
            <7>2. QED
              BY <4>3, <7>1
          <6>2. QED
            BY <4>3, <5>1, <6>1
        <5>2. CASE k # n
          <6>1. k \in 1 .. n - 1
            BY <2>3, <5>2
          <6>2. PICK j \in DOMAIN s.out : s.out[j] = LogEvent(k)
            BY <2>1, <4>4, <6>1
          <6>3. QED
            BY <4>3, <6>2
        <5>3. QED
          BY <5>1, <5>2
      <4>5. QED
        BY <2>5, <3>1, <4>1, <4>2, <4>4
    <3>5. QED
      BY <3>3, <3>4
  <2>9. QED
    BY <2>4, <2>6, <2>7, <2>8
<1>6. L \in K
  <2> HIDE DEF K
  <2>1. 0 .. L \subseteq K
    BY <1>1, <1>4, <1>5, Throughout
  <2>2. QED
    BY <1>1, <2>1
<1>7. Inv(L)
  BY <1>6
<1>8. at[L].out = LogEvents
  BY DEF at, L, LogEvents
<1>9. QED
  BY <1>1, <1>7, <1>8 DEF L

(***************************************************************************)
(* The events of the instructions                                          *)
(***************************************************************************)

\* Once the stack is empty, every call that has a CPI is followed by it.
Complete ==
  \A c \in DOMAIN calls : IsPlain(c) /\ HasCpi(calls[c].kind) => c + 1 \in DOMAIN calls /\ calls[c + 1].of = c

Whole == CallInv /\ Complete

LEMMA WholeAtTheEnd ==
  ASSUME CallInv, stack = <<>>
  PROVE  Whole /\ \A c \in DOMAIN calls : IsPlain(c) /\ calls[c].kind # "router" => c \in emitted
<1>1. \A c \in DOMAIN calls : IsPlain(c) /\ calls[c].kind # "router" => c \in emitted
  BY DEF CallInv, Emits
<1>2. \A c \in emitted : HasCpi(calls[c].kind) => c + 1 \in DOMAIN calls /\ calls[c + 1].of = c
  BY DEF CallInv, Emits
<1>3. ~HasCpi("router")
  BY DEF HasCpi
<1>4. QED
  BY <1>1, <1>2, <1>3 DEF Whole, Complete

\* The execution a call is of, and that event e tells of execution x and nothing else.
Own(c) == IF IsPlain(c) THEN c ELSE calls[c].of

Tells(e, x) ==
  /\ x \in DOMAIN calls /\ IsPlain(x) /\ calls[x].kind # "router"
  /\ e.from = {x} /\ e.kind = calls[x].kind /\ e.key = calls[x].key
  /\ e.router = Router(calls[x].kind, calls[x].outer)

LEMMA DecodedTrue ==
  ASSUME Whole, NEW n \in DOMAIN calls, IsItem(n), NEW e, e = Decoded(n), NEW x, x = Own(n)
  PROVE  /\ Tells(e, x) /\ e \in Event /\ n \in Nat
         /\ IF IsPlain(n) THEN x = n /\ e.accounts
                          ELSE x = n - 1 /\ n - 1 \in DOMAIN calls /\ e.amounts = "executed" /\ IsPlain(x)
<1>1. calls \in Seq(Call) /\ n \in Nat /\ n - 1 \in Nat /\ n \in 1 .. Len(calls) /\ Len(calls) \in Nat
  BY DEF Whole, CallInv, TypeOK
<1>2. calls[n] \in Call /\ calls[n].kind # "router"
  BY <1>1 DEF IsItem
<1>3. CASE IsPlain(n)
  <2>1. x = n /\ ~(calls[n].of # Nothing)
    BY <1>3 DEF Own, IsPlain
  <2>2. /\ e.from = {n} /\ e.kind = calls[n].kind /\ e.key = calls[n].key /\ e.accounts
        /\ e.router = Router(calls[n].kind, calls[n].outer)
    BY <2>1 DEF Decoded
  <2>3. Tells(e, x)
    BY <1>2, <1>3, <2>1, <2>2 DEF Tells
  <2>4. e \in Event
    <3> DEFINE r == Router(calls[n].kind, calls[n].outer)
               kind == calls[n].kind
               key == calls[n].key
               amounts == InstructionAmounts(calls[n].kind)
    <3>1. r \in Routers /\ kind \in Kinds /\ key \in Keys /\ amounts \in {"none", "limits", "executed"}
      BY <1>2 DEF Router, Routers, Nothing, Call, InstructionAmounts
    <3>2. e = [kind |-> kind, key |-> key, router |-> r, from |-> {n}, accounts |-> TRUE, amounts |-> amounts]
      BY <2>1 DEF Decoded
    <3> HIDE DEF r, kind, key, amounts
    <3>3. QED
      BY <1>1, <3>1, <3>2 DEF Event
  <2>5. QED
    BY <1>1, <1>3, <2>1, <2>2, <2>3, <2>4
<1>4. CASE ~IsPlain(n)
  <2>1. x = calls[n].of /\ calls[n].of # Nothing
    BY <1>4 DEF Own, IsPlain
  <2>2. /\ n > 1 /\ calls[n].of = n - 1 /\ IsPlain(n - 1) /\ calls[n].kind = calls[n - 1].kind
        /\ calls[n].key = calls[n - 1].key /\ calls[n].outer = calls[n - 1].outer
    BY <2>1 DEF Whole, CallInv, CpiFollows, IsCpi
  <2>3. n - 1 \in DOMAIN calls
    BY <1>1, <2>2
  <2>4. /\ e.from = {n - 1} /\ e.kind = calls[n].kind /\ e.key = calls[n].key /\ e.amounts = "executed"
        /\ e.router = Router(calls[n].kind, calls[n].outer)
    BY <2>1, <2>2 DEF Decoded
  <2>5. Tells(e, x)
    BY <1>2, <2>1, <2>2, <2>3, <2>4 DEF Tells
  <2>6. e \in Event
    <3> DEFINE r == Router(calls[n].kind, calls[n].outer)
               kind == calls[n].kind
               key == calls[n].key
    <3>1. r \in Routers /\ kind \in Kinds /\ key \in Keys
      BY <1>2 DEF Router, Routers, Nothing, Call
    <3>2. e = [kind |-> kind, key |-> key, router |-> r, from |-> {n - 1}, accounts |-> FALSE,
               amounts |-> "executed"]
      BY <2>1, <2>2 DEF Decoded
    <3> HIDE DEF r, kind, key
    <3>3. QED
      BY <1>1, <3>1, <3>2 DEF Event
  <2>7. QED
    BY <1>1, <1>4, <2>1, <2>2, <2>3, <2>4, <2>5, <2>6
<1>5. QED
  BY <1>3, <1>4

\* The events of the first n calls: each tells of one execution, in the order of
\* execution; every item is in one; DLMM swaps have the amounts executed.
Sourced(out, n) == \A k \in DOMAIN out : \E x \in 1 .. n : Tells(out[k], x) /\ (IsItem(x) \/ x < n)

InOrder(out) ==
  \A k, l \in DOMAIN out : k < l =>
    \A x, y \in DOMAIN calls :
      out[k].from = {x} /\ out[l].from = {y} => x < y \/ (x = y /\ calls[x].kind = "create")

Covered(out, n) ==
  \A c \in 1 .. n : IsItem(c) =>
    \E k \in DOMAIN out : out[k].from = {Own(c)} /\ (IsPlain(c) => out[k].accounts)

DlmmExecuted(out, n) ==
  \A k \in DOMAIN out : \A x \in 1 .. n - 1 :
    out[k].kind = "dlmm" /\ out[k].from = {x} => out[k].amounts = "executed"

OutInv(out, n) == out \in Seq(Event) /\ Sourced(out, n) /\ InOrder(out) /\ Covered(out, n) /\ DlmmExecuted(out, n)

\* What later steps keep of the events.
Grown(out, t) ==
  /\ DOMAIN out \subseteq DOMAIN t
  /\ \A k \in DOMAIN out : t[k].from = out[k].from /\ t[k].kind = out[k].kind /\ (out[k].accounts => t[k].accounts)

LEMMA GrownCovers ==
  ASSUME NEW out, NEW t, Grown(out, t), NEW n \in Nat, Covered(out, n)
  PROVE  Covered(t, n)
BY DEF Grown, Covered

LEMMA CallOrder ==
  ASSUME Whole, NEW n \in DOMAIN calls
  PROVE  n \in Nat /\ n - 1 \in Nat /\ n \in 1 .. n /\ 1 .. n - 1 \subseteq 1 .. n /\ n \notin 1 .. n - 1
         /\ 1 .. n \subseteq DOMAIN calls
         /\ \A c \in 1 .. n : c # n => c \in 1 .. n - 1
BY DEF Whole, CallInv, TypeOK

LEMMA PushKeeps ==
  ASSUME Whole, NEW n \in DOMAIN calls, IsItem(n), NEW out, OutInv(out, n - 1),
         IsPlain(n) \/ calls[n].kind = "create" \/ ~IsItem(n - 1), IsPlain(n) \/ calls[n].kind # "dlmm",
         NEW e, e = Decoded(n), NEW t, t = Append(out, e)
  PROVE  OutInv(t, n) /\ Grown(out, t) /\ Len(t) = Len(out) + 1 /\ t[Len(t)] = e
<1> PICK x : x = Own(n)
  OBVIOUS
<1> PICK L : L = Len(out)
  OBVIOUS
<1>1. /\ Tells(e, x) /\ e \in Event
      /\ IF IsPlain(n) THEN x = n /\ e.accounts
                       ELSE x = n - 1 /\ n - 1 \in DOMAIN calls /\ e.amounts = "executed" /\ IsPlain(x)
  BY DecodedTrue
<1>2. /\ n \in Nat /\ n - 1 \in Nat /\ n \in 1 .. n /\ 1 .. n - 1 \subseteq 1 .. n /\ n \notin 1 .. n - 1
      /\ 1 .. n \subseteq DOMAIN calls /\ \A c \in 1 .. n : c # n => c \in 1 .. n - 1
  BY CallOrder
<1>3. /\ L \in Nat /\ DOMAIN out = 1 .. L /\ DOMAIN t = 1 .. L + 1 /\ Len(t) = L + 1 /\ t \in Seq(Event)
      /\ t[L + 1] = e /\ \A k \in 1 .. L : t[k] = out[k]
  <2>1. out \in Seq(Event) /\ e \in Event /\ t = Append(out, e)
    BY <1>1 DEF OutInv
  <2>2. QED
    BY ONLY <2>1, L = Len(out)
<1>4. Grown(out, t)
  BY <1>3 DEF Grown
<1>5. \A k \in 1 .. L : \E y \in 1 .. n - 1 : Tells(out[k], y) /\ (IsItem(y) \/ y < n - 1)
  BY <1>3 DEF OutInv, Sourced
<1>6. Sourced(t, n)
  <2> SUFFICES ASSUME NEW k \in DOMAIN t PROVE \E y \in 1 .. n : Tells(t[k], y) /\ (IsItem(y) \/ y < n)
    BY DEF Sourced
  <2>1. CASE k \in 1 .. L
    <3>1. PICK y \in 1 .. n - 1 : Tells(out[k], y)
      BY <1>5, <2>1
    <3>2. y \in 1 .. n /\ y < n
      BY <1>2
    <3>3. QED
      BY <1>3, <2>1, <3>1, <3>2
  <2>2. CASE k = L + 1
    <3>1. x \in 1 .. n /\ (IsItem(x) \/ x < n)
      <4>1. CASE IsPlain(n)
        BY <1>1, <1>2, <4>1
      <4>2. CASE ~IsPlain(n)
        <5>1. x = n - 1 /\ n - 1 \in DOMAIN calls
          BY <1>1, <4>2
        <5>2. n - 1 \in 1 .. n /\ n - 1 < n
          <6>1. n - 1 # 0
            BY <5>1 DEF Whole, CallInv, TypeOK
          <6>2. QED
            BY <1>2, <6>1
        <5>3. QED
          BY <5>1, <5>2
      <4>3. QED
        BY <4>1, <4>2
    <3>2. QED
      BY <1>1, <1>3, <2>2, <3>1
  <2>3. QED
    BY <1>3, <2>1, <2>2
<1>7. InOrder(t)
  <2> SUFFICES ASSUME NEW k \in DOMAIN t, NEW l \in DOMAIN t, k < l, NEW a \in DOMAIN calls, NEW b \in DOMAIN calls,
                      t[k].from = {a}, t[l].from = {b}
               PROVE  a < b \/ (a = b /\ calls[a].kind = "create")
    BY DEF InOrder
  <2>1. k \in 1 .. L
    BY <1>3
  <2>2. CASE l \in 1 .. L
    BY <1>3, <2>1, <2>2 DEF OutInv, InOrder
  <2>3. CASE l = L + 1
    <3>1. b = x
      BY <1>1, <1>3, <2>3 DEF Tells
    <3>2. PICK y \in 1 .. n - 1 : Tells(out[k], y) /\ (IsItem(y) \/ y < n - 1)
      BY <1>5, <2>1
    <3>3. a = y
      BY <1>3, <2>1, <3>2 DEF Tells
    <3>4. CASE IsPlain(n)
      <4>1. b = n
        BY <1>1, <3>1, <3>4
      <4>2. QED
        BY <1>2, <3>2, <3>3, <4>1
    <3>5. CASE ~IsPlain(n)
      <4>1. b = n - 1
        BY <1>1, <3>1, <3>5
      <4>2. CASE ~IsItem(n - 1)
        <5>1. y # n - 1
          BY <1>2, <3>2, <4>2
        <5>2. QED
          BY <1>2, <3>2, <3>3, <4>1, <5>1
      <4>3. CASE calls[n].kind = "create"
        <5>1. calls[b].kind = "create"
          BY <1>1, <3>1, <4>3, <3>5 DEF Tells, Whole, CallInv, CpiFollows, IsCpi, IsPlain
        <5>2. a < b \/ a = b
          BY <1>2, <3>2, <3>3, <4>1
        <5>3. QED
          BY <5>1, <5>2
      <4>4. QED
        BY <3>5, <4>2, <4>3
    <3>6. QED
      BY <3>4, <3>5
  <2>4. QED
    BY <1>3, <2>2, <2>3
<1>8. Covered(t, n)
  <2>1. Covered(t, n - 1)
    BY <1>2, <1>4, GrownCovers DEF OutInv
  <2>2. L + 1 \in DOMAIN t /\ t[L + 1].from = {Own(n)} /\ (IsPlain(n) => t[L + 1].accounts)
    BY <1>1, <1>3 DEF Tells
  <2>3. QED
    BY <1>2, <2>1, <2>2 DEF Covered
<1>9. DlmmExecuted(t, n)
  <2> SUFFICES ASSUME NEW k \in DOMAIN t, NEW y \in 1 .. n - 1, t[k].kind = "dlmm", t[k].from = {y}
               PROVE  t[k].amounts = "executed"
    BY DEF DlmmExecuted
  <2>1. CASE k \in 1 .. L
    <3>1. PICK z \in 1 .. n - 1 : Tells(out[k], z)
      BY <1>5, <2>1
    <3>2. z = y /\ calls[y].kind = "dlmm" /\ IsPlain(y) /\ y \in DOMAIN calls
      BY <1>3, <2>1, <3>1 DEF Tells
    <3>3. CASE y # n - 1
      <4>1. y \in 1 .. n - 1 - 1
        BY <1>2, <3>3
      <4>2. QED
        BY <1>3, <2>1, <4>1 DEF OutInv, DlmmExecuted
    <3>4. CASE y = n - 1
      <4>1. calls[n - 1 + 1].of = n - 1
        BY <3>2, <3>4 DEF Whole, Complete, HasCpi
      <4>2. calls[n].of = n - 1 /\ n - 1 # 0
        BY <1>2, <3>4, <4>1
      <4>3. ~IsPlain(n) /\ IsCpi(n)
        BY <4>2 DEF IsPlain, IsCpi, Nothing
      <4>4. calls[n].kind = calls[n - 1].kind
        BY <4>3 DEF Whole, CallInv, CpiFollows
      <4>5. QED
        BY <3>2, <3>4, <4>3, <4>4
    <3>5. QED
      BY <3>3, <3>4
  <2>2. CASE k = L + 1
    <3>1. y = x
      BY <1>1, <1>3, <2>2 DEF Tells
    <3>2. ~IsPlain(n)
      BY <1>1, <1>2, <3>1
    <3>3. QED
      BY <1>1, <1>3, <2>2, <3>2
  <2>3. QED
    BY <1>3, <2>1, <2>2
<1>10. QED
  BY <1>3, <1>4, <1>6, <1>7, <1>8, <1>9 DEF OutInv

\* What merging keeps of the event merged into, and takes from the other.
LEMMA JoinedIs ==
  ASSUME NEW b \in Event, NEW e \in Event, NEW j, j = Joined(b, e)
  PROVE  /\ j \in Event /\ j.from = b.from \cup e.from /\ (j.accounts <=> b.accounts \/ e.accounts)
         /\ j.kind = b.kind /\ j.key = b.key /\ j.router = b.router /\ j.amounts = b.amounts
<1> PICK a : a = [b EXCEPT !.from = @ \cup e.from]
  OBVIOUS
<1>1. j = [a EXCEPT !.accounts = @ \/ e.accounts]
  BY DEF Joined
<1>2. /\ a \in Event /\ a.from = b.from \cup e.from /\ a.accounts = b.accounts
      /\ a.kind = b.kind /\ a.key = b.key /\ a.router = b.router /\ a.amounts = b.amounts
  BY DEF Event
<1>3. /\ j \in Event /\ j.from = a.from /\ j.accounts = (a.accounts \/ e.accounts)
      /\ j.kind = a.kind /\ j.key = a.key /\ j.router = a.router /\ j.amounts = a.amounts
  <2>1. (a.accounts \/ e.accounts) \in BOOLEAN
    OBVIOUS
  <2> PICK v \in BOOLEAN : v = (a.accounts \/ e.accounts)
    BY <2>1
  <2>2. j = [a EXCEPT !.accounts = v]
    BY <1>1
  <2>3. /\ j \in Event /\ j.from = a.from /\ j.accounts = v
        /\ j.kind = a.kind /\ j.key = a.key /\ j.router = a.router /\ j.amounts = a.amounts
    BY ONLY <1>2, <2>2, v \in BOOLEAN DEF Event
  <2>4. QED
    BY <2>3
<1>4. QED
  BY <1>2, <1>3

LEMMA MergedTrue ==
  ASSUME NEW b \in Event, NEW e \in Event, NEW x, Tells(b, x), Tells(e, x), NEW m, m = Merged(b, e)
  PROVE  /\ Mergeable(b, e) /\ m \in Event /\ Tells(m, x) /\ m.from = b.from /\ m.kind = b.kind
         /\ b.accounts => m.accounts
         /\ e.amounts = "executed" => m.amounts = "executed"
<1> PICK j : j = Joined(b, e)
  OBVIOUS
<1>1. /\ j \in Event /\ j.from = b.from \cup e.from /\ (j.accounts <=> b.accounts \/ e.accounts)
      /\ j.kind = b.kind /\ j.key = b.key /\ j.router = b.router /\ j.amounts = b.amounts
  BY ONLY b \in Event, e \in Event, j = Joined(b, e), JoinedIs
<1>2. b.from = {x} /\ e.from = {x} /\ b.kind = e.kind /\ b.key = e.key
  BY DEF Tells
<1> DEFINE taken == IF e.amounts = "none" THEN j.amounts ELSE e.amounts
<1>3. \E v \in {"none", "limits", "executed"} :
        m = [j EXCEPT !.amounts = v] /\ (e.amounts = "executed" => v = "executed")
  <2>1. e.amounts \in {"none", "limits", "executed"} /\ j.amounts \in {"none", "limits", "executed"}
    BY <1>1 DEF Event
  <2>2. taken \in {"none", "limits", "executed"} /\ (e.amounts = "executed" => taken = "executed")
    BY <2>1
  <2>3. m = [j EXCEPT !.amounts = taken] \/ m = [j EXCEPT !.amounts = e.amounts]
    BY DEF Merged, MergedTrade, MergedCreate, Assigned
  <2> HIDE DEF taken
  <2>4. QED
    BY <2>1, <2>2, <2>3
<1>4. PICK v \in {"none", "limits", "executed"} :
        m = [j EXCEPT !.amounts = v] /\ (e.amounts = "executed" => v = "executed")
  BY <1>3
<1>5. /\ m \in Event /\ m.from = j.from /\ m.accounts = j.accounts /\ m.kind = j.kind /\ m.key = j.key
      /\ m.router = j.router /\ m.amounts = v
  BY ONLY <1>1, <1>4 DEF Event
<1>6. Mergeable(b, e)
  BY <1>2 DEF Mergeable, Conflicts
<1>7. m.from = {x}
  BY <1>1, <1>2, <1>5
<1>8. Tells(m, x)
  BY <1>1, <1>5, <1>7 DEF Tells
<1>9. QED
  BY <1>1, <1>2, <1>4, <1>5, <1>6, <1>7, <1>8

LEMMA IntoKeeps ==
  ASSUME Whole, NEW n \in DOMAIN calls, IsItem(n), ~IsPlain(n), NEW out, OutInv(out, n - 1),
         NEW at \in DOMAIN out, out[at].from = {n - 1}, NEW e, e = Decoded(n),
         NEW t, t = [out EXCEPT ![at] = Merged(@, e)]
  PROVE  OutInv(t, n) /\ Grown(out, t) /\ Mergeable(out[at], e) /\ DOMAIN t = DOMAIN out
<1> PICK x : x = Own(n)
  OBVIOUS
<1> PICK b : b = out[at]
  OBVIOUS
<1> PICK m : m = Merged(b, e)
  OBVIOUS
<1>1. /\ Tells(e, x) /\ e \in Event /\ x = n - 1 /\ n - 1 \in DOMAIN calls /\ e.amounts = "executed" /\ IsPlain(x)
  BY DecodedTrue
<1>2. /\ n \in Nat /\ n - 1 \in Nat /\ n \in 1 .. n /\ 1 .. n - 1 \subseteq 1 .. n /\ n \notin 1 .. n - 1
      /\ 1 .. n \subseteq DOMAIN calls /\ \A c \in 1 .. n : c # n => c \in 1 .. n - 1
  BY CallOrder
<1>3. out \in Seq(Event) /\ b \in Event
  <2>1. out \in Seq(Event)
    BY DEF OutInv
  <2> HIDE DEF Event
  <2>2. QED
    BY <2>1
<1>4. \A k \in DOMAIN out : \E y \in 1 .. n - 1 : Tells(out[k], y) /\ (IsItem(y) \/ y < n - 1)
  BY DEF OutInv, Sourced
<1>5. Tells(b, x)
  <2>1. PICK y \in 1 .. n - 1 : Tells(b, y)
    BY <1>4
  <2>2. y = x
    BY <1>1, <2>1 DEF Tells
  <2>3. QED
    BY <2>1, <2>2
<1>6. /\ Mergeable(b, e) /\ m \in Event /\ Tells(m, x) /\ m.from = b.from /\ m.kind = b.kind
      /\ b.accounts => m.accounts
      /\ e.amounts = "executed" => m.amounts = "executed"
  BY <1>1, <1>3, <1>5, MergedTrue
<1>7. /\ t \in Seq(Event) /\ DOMAIN t = DOMAIN out /\ t[at] = m
      /\ \A k \in DOMAIN out : k # at => t[k] = out[k]
  <2>1. t = [out EXCEPT ![at] = m]
    OBVIOUS
  <2>2. QED
    BY ONLY <1>3, <1>6, <2>1, at \in DOMAIN out
<1>8. Grown(out, t)
  BY <1>6, <1>7 DEF Grown
<1>9. \A k \in DOMAIN out : t[k].from = out[k].from /\ t[k].kind = out[k].kind
  BY <1>8 DEF Grown
<1>10. Sourced(t, n)
  <2> SUFFICES ASSUME NEW k \in DOMAIN t PROVE \E y \in 1 .. n : Tells(t[k], y) /\ (IsItem(y) \/ y < n)
    BY DEF Sourced
  <2>1. PICK y \in 1 .. n - 1 : Tells(out[k], y)
    BY <1>4, <1>7
  <2>2. y \in 1 .. n /\ y < n
    BY <1>2
  <2>3. Tells(t[k], y)
    <3>1. CASE k = at
      <4>1. y = x
        BY <1>1, <2>1, <3>1 DEF Tells
      <4>2. QED
        BY <1>6, <1>7, <3>1, <4>1
    <3>2. CASE k # at
      BY <1>7, <2>1, <3>2
    <3>3. QED
      BY <3>1, <3>2
  <2>4. QED
    BY <2>2, <2>3
<1>11. InOrder(t)
  BY <1>7, <1>9 DEF OutInv, InOrder
<1>12. Covered(t, n)
  <2>1. Covered(t, n - 1)
    BY <1>2, <1>8, GrownCovers DEF OutInv
  <2>2. at \in DOMAIN t /\ t[at].from = {Own(n)}
    BY <1>1, <1>6, <1>7
  <2>3. QED
    BY <1>2, <2>1, <2>2 DEF Covered
<1>13. DlmmExecuted(t, n)
  <2> SUFFICES ASSUME NEW k \in DOMAIN t, NEW y \in 1 .. n - 1, t[k].kind = "dlmm", t[k].from = {y}
               PROVE  t[k].amounts = "executed"
    BY DEF DlmmExecuted
  <2>1. CASE k = at
    BY <1>1, <1>6, <1>7, <2>1
  <2>2. CASE k # at /\ y # n - 1
    <3>1. y \in 1 .. n - 1 - 1 /\ t[k] = out[k]
      BY <1>2, <1>7, <2>2
    <3>2. QED
      BY <1>7, <3>1 DEF OutInv, DlmmExecuted
  <2>3. CASE k # at /\ y = n - 1
    <3>1. out[k].from = {n - 1} /\ out[at].from = {n - 1} /\ out[k].kind = "dlmm"
      BY <1>7, <2>3
    <3>2. calls[n - 1].kind = "dlmm"
      <4>1. PICK z \in 1 .. n - 1 : Tells(out[k], z)
        BY <1>4, <1>7
      <4>2. z = n - 1
        BY <3>1, <4>1 DEF Tells
      <4>3. QED
        BY <3>1, <4>1, <4>2 DEF Tells
    <3>3. ~(k < at) /\ ~(at < k)
      <4>1. \A p, q \in DOMAIN out : p < q /\ out[p].from = {n - 1} /\ out[q].from = {n - 1} =>
              n - 1 < n - 1 \/ calls[n - 1].kind = "create"
        BY <1>1 DEF OutInv, InOrder
      <4>2. ~(n - 1 < n - 1) /\ calls[n - 1].kind # "create"
        BY <1>2, <3>2
      <4>3. QED
        BY <1>7, <3>1, <4>1, <4>2
    <3>4. k \in Nat /\ at \in Nat
      BY <1>3, <1>7
    <3>5. QED
      BY <2>3, <3>3, <3>4
  <2>4. QED
    BY <2>1, <2>2, <2>3
<1>14. QED
  BY <1>6, <1>7, <1>8, <1>10, <1>11, <1>12, <1>13 DEF OutInv

LEMMA SkipKeeps ==
  ASSUME Whole, NEW n \in DOMAIN calls, ~IsItem(n), NEW out, OutInv(out, n - 1)
  PROVE  OutInv(out, n)
<1>2. /\ n \in Nat /\ n - 1 \in Nat /\ n \in 1 .. n /\ 1 .. n - 1 \subseteq 1 .. n /\ n \notin 1 .. n - 1
      /\ 1 .. n \subseteq DOMAIN calls /\ \A c \in 1 .. n : c # n => c \in 1 .. n - 1
  BY CallOrder
<1>3. \A k \in DOMAIN out : \E y \in 1 .. n - 1 : Tells(out[k], y) /\ (IsItem(y) \/ y < n - 1)
  BY DEF OutInv, Sourced
<1>4. Sourced(out, n)
  <2> SUFFICES ASSUME NEW k \in DOMAIN out PROVE \E y \in 1 .. n : Tells(out[k], y) /\ (IsItem(y) \/ y < n)
    BY DEF Sourced
  <2>1. PICK y \in 1 .. n - 1 : Tells(out[k], y)
    BY <1>3
  <2>2. y \in 1 .. n /\ y < n
    BY <1>2
  <2>3. QED
    BY <2>1, <2>2
<1>5. Covered(out, n)
  BY <1>2 DEF OutInv, Covered
<1>6. DlmmExecuted(out, n)
  <2> SUFFICES ASSUME NEW k \in DOMAIN out, NEW y \in 1 .. n - 1, out[k].kind = "dlmm", out[k].from = {y}
               PROVE  out[k].amounts = "executed"
    BY DEF DlmmExecuted
  <2>1. PICK z \in 1 .. n - 1 : Tells(out[k], z)
    BY <1>3
  <2>2. z = y /\ calls[y].kind = "dlmm" /\ IsPlain(y) /\ y \in DOMAIN calls
    BY <2>1 DEF Tells
  <2>3. CASE y # n - 1
    <3>1. y \in 1 .. n - 1 - 1
      BY <1>2, <2>3
    <3>2. QED
      BY <3>1 DEF OutInv, DlmmExecuted
  <2>4. CASE y = n - 1
    <3>1. calls[n - 1 + 1].of = n - 1
      BY <2>2, <2>4 DEF Whole, Complete, HasCpi
    <3>2. calls[n].of = n - 1 /\ n - 1 # 0
      BY <1>2, <2>4, <3>1
    <3>3. IsCpi(n)
      BY <3>2 DEF IsCpi, Nothing
    <3>4. calls[n].known /\ calls[n].kind = calls[n - 1].kind
      BY <3>3 DEF Whole, CallInv, CpiFollows
    <3>5. IsItem(n)
      BY <2>2, <2>4, <3>4 DEF IsItem
    <3>6. QED
      BY <3>5
  <2>5. QED
    BY <2>3, <2>4
<1>7. QED
  BY <1>4, <1>5, <1>6 DEF OutInv

(***************************************************************************)
(* The merge of the instructions                                           *)
(***************************************************************************)

Targets == [outer : Nat, height : Nat, at : Nat, consumed : BOOLEAN]

\* What the loop carries: the events, the top-level event, the instructions that wait.
Loop(out, o, trades, dlmms) == [out |-> out, outerTarget |-> o, trades |-> trades, dlmms |-> dlmms]

\* The top-level target is the event of a top-level instruction.
OuterKnown(out, o, n) ==
  o.outer = Nothing \/
    \E d \in 1 .. n : IsOuter(d) /\ calls[d].outer = o.outer /\ o.at \in DOMAIN out /\ out[o.at].from = {d}

\* Whether call n is an instruction of that kind the decoders know.
Asks(n, kind) == n # 0 /\ IsItem(n) /\ IsPlain(n) /\ calls[n].kind = kind

\* It waits for its event CPI: its event is the last one, its target too.
Waits(out, targets, n) ==
  /\ Len(targets) # 0
  /\ LET t == targets[Len(targets)]
     IN  /\ t.outer = calls[n].outer /\ t.height \in {0, calls[n].depth} /\ ~t.consumed
         /\ t.at = Len(out) /\ out[Len(out)].from = {n}

Waiting(out, trades, dlmms, n) ==
  /\ Asks(n, "trade") => Waits(out, trades, n)
  /\ Asks(n, "dlmm") => Waits(out, dlmms, n)
  /\ \A k \in DOMAIN trades : ~trades[k].consumed => Asks(n, "trade") /\ k = Len(trades)

MergeInv(out, o, trades, dlmms, n) ==
  /\ OutInv(out, n) /\ OuterKnown(out, o, n)
  /\ trades \in Seq(Targets) /\ dlmms \in Seq(Targets)
  /\ Waiting(out, trades, dlmms, n)

\* The loop's state for n is reached from that for n - 1.
Merging(m, n) ==
  \E out, o, trades, dlmms :
    m = Loop(out, o, trades, dlmms) /\ MergeInv(out, o, trades, dlmms, n)

LEMMA AsksFollowed ==
  ASSUME Whole, NEW n \in DOMAIN calls, NEW kind, HasCpi(kind), Asks(n - 1, kind)
  PROVE  /\ n - 1 \in DOMAIN calls /\ calls[n].of = n - 1 /\ ~IsPlain(n) /\ IsItem(n)
         /\ calls[n].kind = kind /\ calls[n].outer = calls[n - 1].outer
         /\ calls[n].depth = calls[n - 1].depth + 1 /\ calls[n].depth # 1
<1>1. n \in Nat /\ n - 1 # 0 /\ n - 1 \in DOMAIN calls /\ n - 1 + 1 = n /\ calls \in Seq(Call)
  BY DEF Whole, CallInv, TypeOK, Asks
<1>2. calls[n].of = n - 1
  <2>1. IsPlain(n - 1) /\ HasCpi(calls[n - 1].kind)
    BY DEF Asks
  <2>2. calls[n - 1 + 1].of = n - 1
    BY <1>1, <2>1 DEF Whole, Complete
  <2>3. QED
    BY <1>1, <2>2
<1>3. IsCpi(n)
  BY <1>1, <1>2 DEF IsCpi, Nothing
<1>4. calls[n].kind = calls[n - 1].kind /\ calls[n].outer = calls[n - 1].outer
      /\ calls[n].depth = calls[n - 1].depth + 1 /\ calls[n].known
  BY <1>3 DEF Whole, CallInv, CpiFollows
<1>5. calls[n].depth # 1
  <2>1. calls[n - 1] \in Call
    BY <1>1
  <2>2. calls[n - 1].depth \in Nat \ {0}
    BY <2>1 DEF Call
  <2>3. QED
    BY <1>4, <2>2
<1>6. calls[n].kind = kind /\ calls[n].kind # "router"
  BY <1>4 DEF Asks, HasCpi
<1>7. QED
  BY <1>1, <1>2, <1>3, <1>4, <1>5, <1>6 DEF IsPlain, IsCpi, IsItem

\* An inner instruction leaves the first of the targets in place.
LEMMA AncestorsAre ==
  ASSUME NEW targets \in Seq(Targets), NEW n, NEW heights \in BOOLEAN, NEW t, t = Ancestors(targets, n, heights)
  PROVE  /\ t \in Seq(Targets) /\ Len(t) \in Nat /\ DOMAIN t = 1 .. Len(t)
         /\ \A k \in DOMAIN t : k \in DOMAIN targets /\ t[k] = targets[k]
<1>1. CASE ~heights
  <2>1. t = <<>>
    BY <1>1 DEF Ancestors
  <2>2. QED
    BY <2>1
<1>2. CASE heights
  <2> DEFINE above(u) == u.outer = calls[n].outer /\ (u.height # Nothing => u.height < calls[n].depth)
             S == {i \in DOMAIN targets : above(targets[i])}
             i == LastOf(S)
  <2>1. t = SubSeq(targets, 1, i)
    BY <1>2 DEF Ancestors
  <2>2. Len(targets) \in Nat /\ S \subseteq 1 .. Len(targets)
    OBVIOUS
  <2> HIDE DEF S
  <2>3. i \in 0 .. Len(targets)
    <3> PICK l : l = LastOf(S)
      OBVIOUS
    <3>1. l = 0 \/ l \in S
      BY <2>2, LastIs
    <3>2. l = 0 \/ l \in 1 .. Len(targets)
      BY ONLY <2>2, <3>1
    <3>3. l \in 0 .. Len(targets)
      BY ONLY <2>2, <3>2
    <3>4. QED
      BY <3>3
  <2> HIDE DEF i
  <2>4. QED
    BY ONLY <2>1, <2>3, targets \in Seq(Targets)
<1>3. QED
  BY <1>1, <1>2

\* A target made for instruction n whose event was just added is one that waits.
LEMMA TargetMade ==
  ASSUME Whole, NEW n \in DOMAIN calls, NEW m, Len(m.out) \in Nat, NEW h \in BOOLEAN, NEW t, t = Target(m, n, h)
  PROVE  /\ t \in Targets /\ t.outer = calls[n].outer /\ t.height \in {0, calls[n].depth} /\ ~t.consumed
         /\ t.at = Len(m.out) + 1
<1>1. calls[n] \in Call
  BY DEF Whole, CallInv, TypeOK
<1>2. calls[n].depth \in Nat /\ calls[n].outer \in Nat
  BY <1>1 DEF Call
<1> DEFINE height == IF h THEN calls[n].depth ELSE Nothing
           outer == calls[n].outer
           at == Len(m.out) + 1
<1>3. t = [outer |-> outer, height |-> height, at |-> at, consumed |-> FALSE]
  BY DEF Target
<1>4. height \in Nat /\ height \in {0, calls[n].depth} /\ outer \in Nat /\ at \in Nat
  BY <1>2 DEF Nothing
<1> HIDE DEF height, outer, at
<1>5. t \in Targets /\ t.outer = outer /\ t.height = height /\ t.consumed = FALSE /\ t.at = at
  BY <1>3, <1>4 DEF Targets
<1>6. QED
  BY <1>4, <1>5 DEF outer, at

LEMMA TargetAdded ==
  ASSUME NEW n, NEW t \in Targets, t.outer = calls[n].outer, t.height \in {0, calls[n].depth}, ~t.consumed,
         NEW out, t.at = Len(out), out[Len(out)].from = {n},
         NEW old \in Seq(Targets), NEW new, new = Append(old, t)
  PROVE  /\ new \in Seq(Targets) /\ Waits(out, new, n)
         /\ (\A k \in DOMAIN old : old[k].consumed) => \A k \in DOMAIN new : ~new[k].consumed => k = Len(new)
<1>1. /\ new \in Seq(Targets) /\ Len(new) = Len(old) + 1 /\ Len(old) \in Nat /\ new[Len(old) + 1] = t
      /\ DOMAIN new = 1 .. Len(old) + 1 /\ \A k \in 1 .. Len(old) : k \in DOMAIN old /\ new[k] = old[k]
  BY ONLY t \in Targets, old \in Seq(Targets), new = Append(old, t)
<1>2. Waits(out, new, n)
  BY <1>1 DEF Waits
<1>3. QED
  BY <1>1, <1>2

LEMMA LoopIs ==
  ASSUME NEW out, NEW o, NEW trades, NEW dlmms, NEW m, m = Loop(out, o, trades, dlmms)
  PROVE  /\ m.out = out /\ m.outerTarget = o /\ m.trades = trades /\ m.dlmms = dlmms
         /\ \A v : [m EXCEPT !.out = v] = Loop(v, o, trades, dlmms)
         /\ \A v : [m EXCEPT !.trades = v] = Loop(out, o, v, dlmms)
         /\ \A v : [m EXCEPT !.dlmms = v] = Loop(out, o, trades, v)
         /\ \A v : [m EXCEPT !.outerTarget = v] = Loop(out, v, trades, dlmms)
BY DEF Loop

\* Only an event CPI finds a trade or a DLMM swap that waits for it.
LEMMA NobodyWaits ==
  ASSUME Whole, NEW n \in DOMAIN calls, NEW out, NEW o, NEW trades, NEW dlmms,
         MergeInv(out, o, trades, dlmms, n - 1),
         ~IsItem(n) \/ IsPlain(n) \/ calls[n].kind # "trade"
  PROVE  \A k \in DOMAIN trades : trades[k].consumed
<1>1. ~Asks(n - 1, "trade")
  <2> SUFFICES ASSUME Asks(n - 1, "trade") PROVE FALSE
    OBVIOUS
  <2>1. HasCpi("trade")
    BY DEF HasCpi
  <2>2. QED
    BY <2>1, AsksFollowed
<1>2. QED
  BY <1>1 DEF MergeInv, Waiting

LEMMA OuterKept ==
  ASSUME Whole, NEW n \in DOMAIN calls, NEW out, NEW t, Grown(out, t), NEW o, OuterKnown(out, o, n - 1)
  PROVE  OuterKnown(t, o, n)
<1>1. 1 .. n - 1 \subseteq 1 .. n
  BY CallOrder
<1>2. QED
  BY <1>1 DEF OuterKnown, Grown

LEMMA MergedNot ==
  ASSUME Whole, NEW n \in DOMAIN calls, NEW out, NEW o, NEW trades, NEW dlmms,
         MergeInv(out, o, trades, dlmms, n - 1), ~IsItem(n)
  PROVE  MergeInv(out, o, trades, dlmms, n)
<1>1. OutInv(out, n)
  BY SkipKeeps DEF MergeInv
<1>2. OuterKnown(out, o, n)
  <2>1. Grown(out, out)
    BY DEF Grown
  <2>2. QED
    BY <2>1, OuterKept DEF MergeInv
<1>3. \A k \in DOMAIN trades : trades[k].consumed
  BY NobodyWaits
<1>4. Waiting(out, trades, dlmms, n)
  BY <1>3 DEF Waiting, Asks
<1>5. QED
  BY <1>1, <1>2, <1>4 DEF MergeInv

LEMMA OuterMerged ==
  ASSUME Whole, NEW n \in DOMAIN calls, NEW out, NEW o, NEW trades, NEW dlmms,
         MergeInv(out, o, trades, dlmms, n - 1), IsItem(n), calls[n].depth = 1,
         NEW m, m = Loop(out, o, trades, dlmms)
  PROVE  Merging(MergeOuter(m, n), n)
<1> PICK e : e = Decoded(n)
  OBVIOUS
<1> PICK t : t = Append(out, e)
  OBVIOUS
<1> PICK u : u = Target(m, n, TRUE)
  OBVIOUS
<1> PICK p : p = [outer |-> calls[n].outer, at |-> Len(out) + 1]
  OBVIOUS
<1> DEFINE kind == calls[n].kind
           tr == IF kind = "trade" THEN <<u>> ELSE <<>>
           dl == IF kind = "dlmm" THEN <<u>> ELSE <<>>
<1>1. IsPlain(n)
  BY DEF Whole, CallInv, Nested, IsOuter
<1>2. /\ OutInv(t, n) /\ Grown(out, t) /\ Len(t) = Len(out) + 1 /\ t[Len(t)] = e /\ e.from = {n}
      /\ out \in Seq(Event) /\ Len(out) \in Nat /\ DOMAIN t = 1 .. Len(t) /\ t \in Seq(Event)
  <2>1. OutInv(t, n) /\ Grown(out, t) /\ Len(t) = Len(out) + 1 /\ t[Len(t)] = e
    <3>1. OutInv(out, n - 1)
      BY DEF MergeInv
    <3>2. \A f : f = Append(out, e) => OutInv(f, n) /\ Grown(out, f)
      BY ONLY Whole, n \in DOMAIN calls, IsItem(n), <1>1, <3>1, e = Decoded(n), PushKeeps
    <3>3. \A f : f = Append(out, e) => Len(f) = Len(out) + 1 /\ f[Len(f)] = e
      BY ONLY Whole, n \in DOMAIN calls, IsItem(n), <1>1, <3>1, e = Decoded(n), PushKeeps
    <3>4. QED
      BY <3>2, <3>3
  <2>2. e.from = {n}
    BY <1>1, DecodedTrue DEF Tells
  <2>3. out \in Seq(Event) /\ t \in Seq(Event)
    BY <2>1 DEF MergeInv, OutInv
  <2>4. QED
    BY <2>1, <2>2, <2>3
<1>3. /\ m.out = out
      /\ MergeOuter(m, n) = Loop(t, p, tr, dl)
  <2>1. Push(m, e) = [m EXCEPT !.out = t] /\ m.out = out
    <3>1. m.out = out
      BY LoopIs
    <3>2. QED
      BY <3>1 DEF Push
  <2>2. Push(m, e) = Loop(t, o, trades, dlmms)
    BY ONLY <2>1, m = Loop(out, o, trades, dlmms), LoopIs
  <2> PICK m1 : m1 = Push(m, e)
    OBVIOUS
  <2> PICK m2 : m2 = [m1 EXCEPT !.outerTarget = p]
    OBVIOUS
  <2> PICK m3 : m3 = [m2 EXCEPT !.trades = tr]
    OBVIOUS
  <2>3. MergeOuter(m, n) = [m3 EXCEPT !.dlmms = dl]
    BY <2>1 DEF MergeOuter
  <2> HIDE DEF tr, dl, kind
  <2>4. MergeOuter(m, n) = Loop(t, p, tr, dl)
    <3>1. m2 = Loop(t, p, trades, dlmms)
      BY ONLY m1 = Push(m, e), <2>2, m2 = [m1 EXCEPT !.outerTarget = p], LoopIs
    <3>2. m3 = Loop(t, p, tr, dlmms)
      BY ONLY <3>1, m3 = [m2 EXCEPT !.trades = tr], LoopIs
    <3>3. QED
      BY ONLY <3>2, <2>3, LoopIs
  <2>5. QED
    BY <2>1, <2>4
<1>4. OuterKnown(t, p, n)
  <2>1. n \in 1 .. n /\ IsOuter(n)
    BY CallOrder DEF IsOuter
  <2>2. p.outer = calls[n].outer /\ p.at = Len(t) /\ p.at \in DOMAIN t
    BY <1>2
  <2>3. QED
    BY <1>2, <2>1, <2>2 DEF OuterKnown
<1>5. /\ <<u>> \in Seq(Targets) /\ Waits(t, <<u>>, n)
      /\ \A k \in DOMAIN <<u>> : k = Len(<<u>>)
  <2>1. \A k \in DOMAIN <<u>> : k = Len(<<u>>)
    OBVIOUS
  <2>2. Len(m.out) \in Nat /\ Len(t) = Len(m.out) + 1 /\ TRUE \in BOOLEAN
    BY <1>2, <1>3
  <2>3. /\ u \in Targets /\ u.outer = calls[n].outer /\ u.height \in {0, calls[n].depth} /\ ~u.consumed
        /\ u.at = Len(t)
    BY ONLY Whole, n \in DOMAIN calls, <2>2, u = Target(m, n, TRUE), TargetMade
  <2>4. u.at = Len(t) /\ t[Len(t)].from = {n}
    BY <1>2, <2>3
  <2> PICK old : old = <<>>
    OBVIOUS
  <2>5. old \in Seq(Targets) /\ <<u>> = Append(old, u)
    BY <2>3
  <2> PICK v : v = <<u>>
    OBVIOUS
  <2>6. \A f : f = Append(old, u) => f \in Seq(Targets) /\ Waits(t, f, n)
    <3>1. old \in Seq(Targets)
      BY <2>5
    <3>2. QED
      BY ONLY <2>3, <2>4, <3>1, TargetAdded
  <2>7. v = Append(old, u)
    BY <2>5
  <2>8. v \in Seq(Targets) /\ Waits(t, v, n)
    BY <2>6, <2>7
  <2>9. QED
    BY <2>1, <2>8
<1>6. tr \in Seq(Targets) /\ dl \in Seq(Targets)
  <2>1. <<>> \in Seq(Targets) /\ <<u>> \in Seq(Targets)
    <3>1. <<u>> \in Seq(Targets)
      BY <1>5, Zenon
    <3>2. QED
      BY ONLY <3>1
  <2>2. tr \in {<<>>, <<u>>} /\ dl \in {<<>>, <<u>>}
    OBVIOUS
  <2> HIDE DEF tr, dl
  <2>3. QED
    BY <2>1, <2>2
<1>7. Waiting(t, tr, dl, n)
  <2>1. Asks(n, "trade") <=> kind = "trade"
    <3>1. n # 0
      BY CallOrder
    <3>2. QED
      BY <1>1, <3>1 DEF Asks
  <2>2. Asks(n, "dlmm") => kind = "dlmm"
    BY DEF Asks
  <2>3. Asks(n, "trade") => Waits(t, tr, n)
    BY <1>5, <2>1
  <2>4. Asks(n, "dlmm") => Waits(t, dl, n)
    BY <1>5, <2>2
  <2>5. ASSUME NEW k \in DOMAIN tr PROVE Asks(n, "trade") /\ k = Len(tr)
    <3>1. kind = "trade"
      BY <2>5
    <3>2. tr = <<u>>
      BY <3>1
    <3>3. QED
      BY <1>5, <2>1, <2>5, <3>1, <3>2
  <2>6. QED
    BY <2>3, <2>4, <2>5 DEF Waiting
<1>8. MergeInv(t, p, tr, dl, n)
  BY <1>2, <1>4, <1>6, <1>7 DEF MergeInv
<1> HIDE DEF tr, dl
<1>9. QED
  BY <1>3, <1>8 DEF Merging

\* An event more, or an event that takes in its CPI: the rest stays.
LEMMA Pushed ==
  ASSUME Whole, NEW n \in DOMAIN calls, IsItem(n), NEW out, OutInv(out, n - 1), NEW o, OuterKnown(out, o, n - 1),
         IsPlain(n) \/ calls[n].kind = "create" \/ ~IsItem(n - 1), IsPlain(n) \/ calls[n].kind # "dlmm",
         NEW trades, NEW dlmms, NEW m, m = Loop(out, o, trades, dlmms)
  PROVE  \E t : /\ Push(m, Decoded(n)) = Loop(t, o, trades, dlmms) /\ OutInv(t, n) /\ OuterKnown(t, o, n)
                /\ Len(out) \in Nat /\ Len(t) = Len(out) + 1 /\ t[Len(t)] = Decoded(n) /\ m.out = out
<1> PICK e : e = Decoded(n)
  OBVIOUS
<1> PICK t : t = Append(out, e)
  OBVIOUS
<1>1. OutInv(t, n) /\ Grown(out, t) /\ Len(t) = Len(out) + 1 /\ t[Len(t)] = e
  <2> DEFINE Cond == (IsPlain(n) \/ calls[n].kind = "create" \/ ~IsItem(n - 1))
                     /\ (IsPlain(n) \/ calls[n].kind # "dlmm")
  <2>1. Cond
    OBVIOUS
  <2>2. \A f : f = Append(out, e) => OutInv(f, n) /\ Grown(out, f)
    BY ONLY Whole, n \in DOMAIN calls, IsItem(n), <2>1, OutInv(out, n - 1), e = Decoded(n), PushKeeps
  <2>3. \A f : f = Append(out, e) => Len(f) = Len(out) + 1 /\ f[Len(f)] = e
    BY ONLY Whole, n \in DOMAIN calls, IsItem(n), <2>1, OutInv(out, n - 1), e = Decoded(n), PushKeeps
  <2>4. QED
    BY <2>2, <2>3
<1>2. OuterKnown(t, o, n)
  BY <1>1, OuterKept
<1>3. m.out = out /\ Push(m, e) = [m EXCEPT !.out = t]
  <2>1. m.out = out
    BY LoopIs
  <2>2. QED
    BY <2>1 DEF Push
<1>4. Push(m, e) = Loop(t, o, trades, dlmms)
  BY ONLY <1>3, m = Loop(out, o, trades, dlmms), LoopIs
<1>5. Len(out) \in Nat
  BY DEF OutInv
<1>6. QED
  BY <1>1, <1>2, <1>3, <1>4, <1>5

LEMMA TakenIn ==
  ASSUME Whole, NEW n \in DOMAIN calls, IsItem(n), ~IsPlain(n), NEW out, OutInv(out, n - 1),
         NEW at \in DOMAIN out, out[at].from = {n - 1}, NEW o, OuterKnown(out, o, n - 1),
         NEW trades, NEW dlmms, NEW m, m = Loop(out, o, trades, dlmms)
  PROVE  /\ Mergeable(out[at], Decoded(n))
         /\ \E t : Into(m, at, Decoded(n)) = Loop(t, o, trades, dlmms) /\ OutInv(t, n) /\ OuterKnown(t, o, n)
<1> PICK e : e = Decoded(n)
  OBVIOUS
<1> PICK t : t = [out EXCEPT ![at] = Merged(@, e)]
  OBVIOUS
<1>1. OutInv(t, n) /\ Grown(out, t) /\ Mergeable(out[at], e)
  <2>1. \A f : f = [out EXCEPT ![at] = Merged(@, e)] => OutInv(f, n) /\ Grown(out, f) /\ Mergeable(out[at], e)
    BY ONLY Whole, n \in DOMAIN calls, IsItem(n), ~IsPlain(n), OutInv(out, n - 1), at \in DOMAIN out,
            out[at].from = {n - 1}, e = Decoded(n), IntoKeeps
  <2>2. QED
    BY <2>1
<1>2. OuterKnown(t, o, n)
  BY <1>1, OuterKept
<1>3. m.out = out
  BY LoopIs
<1>4. Into(m, at, e) = [m EXCEPT !.out = t]
  BY <1>3 DEF Into
<1>5. Into(m, at, e) = Loop(t, o, trades, dlmms)
  BY ONLY <1>4, m = Loop(out, o, trades, dlmms), LoopIs
<1>6. QED
  BY <1>1, <1>2, <1>5

\* The last of the targets that fit is the last of all, if that fits.
LEMMA LastFits ==
  ASSUME NEW targets \in Seq(Targets), NEW S, S \subseteq DOMAIN targets
  PROVE  /\ LastOf(S) = 0 \/ LastOf(S) \in DOMAIN targets
         /\ Len(targets) \in S => LastOf(S) = Len(targets) /\ LastOf(S) # 0 /\ LastOf(S) \in DOMAIN targets
<1> PICK l : l = LastOf(S)
  OBVIOUS
<1> PICK N : N = Len(targets)
  OBVIOUS
<1>1. N \in Nat /\ DOMAIN targets = 1 .. N /\ S \subseteq 1 .. N
  OBVIOUS
<1>2. (S = {} /\ l = 0) \/ (l \in S /\ \A y \in S : y <= l)
  BY <1>1, LastIs
<1>3. l = 0 \/ l \in 1 .. N
  BY ONLY <1>1, <1>2
<1>4. ASSUME N \in S PROVE l = N /\ l # 0
  <2>1. N \in 1 .. N /\ l \in 1 .. N /\ N <= l
    BY ONLY <1>1, <1>2, <1>4
  <2>2. QED
    BY ONLY <1>1, <2>1
<1>5. QED
  BY <1>1, <1>3, <1>4

\* The event CPI of an instruction that waits: its target is the last, its event too.
LEMMA WaitedFor ==
  ASSUME Whole, NEW n \in DOMAIN calls, IsItem(n), ~IsPlain(n), IsItem(n - 1), NEW out, OutInv(out, n - 1),
         NEW targets \in Seq(Targets), Waits(out, targets, n - 1), NEW heights \in BOOLEAN
  PROVE  LET S == {k \in DOMAIN targets : DirectChild(targets[k], n, heights)}
             i == LastOf(S)
         IN  /\ i = Len(targets) /\ i # 0 /\ i \in DOMAIN targets /\ ~targets[i].consumed
             /\ targets[i].at \in DOMAIN out /\ out[targets[i].at].from = {n - 1}
<1> DEFINE S == {k \in DOMAIN targets : DirectChild(targets[k], n, heights)}
           i == LastOf(S)
           u == targets[Len(targets)]
<1>1. /\ Len(targets) # 0 /\ u.outer = calls[n - 1].outer /\ u.height \in {0, calls[n - 1].depth} /\ ~u.consumed
      /\ u.at = Len(out) /\ out[Len(out)].from = {n - 1}
  BY DEF Waits
<1>2. Len(targets) \in Nat /\ Len(targets) \in DOMAIN targets
  BY <1>1
<1>3. calls[n].outer = calls[n - 1].outer /\ calls[n].depth = calls[n - 1].depth + 1 /\ n - 1 \in DOMAIN calls
      /\ n - 1 # 0
  <2>1. IsCpi(n) /\ n > 1 /\ calls \in Seq(Call)
    BY DEF IsCpi, IsPlain, Whole, CallInv, CpiFollows, TypeOK
  <2>2. QED
    BY <2>1 DEF Whole, CallInv, CpiFollows
<1>4. DirectChild(u, n, heights)
  BY <1>1, <1>3 DEF DirectChild, Nothing
<1>5. S \subseteq DOMAIN targets /\ Len(targets) \in S
  BY <1>2, <1>4
<1> HIDE DEF S
<1>6. i = Len(targets) /\ i # 0 /\ i \in DOMAIN targets
  BY <1>5, LastFits
<1>7. Len(out) \in DOMAIN out
  <2>1. n - 1 \in 1 .. n - 1
    <3>1. n - 1 \in 1 .. n - 1 \/ n - 1 = 0
      BY CallOrder
    <3>2. QED
      BY <1>3, <3>1
  <2>2. PICK k \in DOMAIN out : out[k].from = {Own(n - 1)}
    BY <2>1 DEF OutInv, Covered
  <2>3. out \in Seq(Event)
    BY DEF OutInv
  <2>4. QED
    BY ONLY <2>2, <2>3
<1> HIDE DEF i
<1>8. i = Len(targets) /\ i # 0 /\ i \in DOMAIN targets /\ ~targets[i].consumed
      /\ targets[i].at \in DOMAIN out /\ out[targets[i].at].from = {n - 1}
  BY <1>1, <1>6, <1>7
<1>9. QED
  BY <1>8 DEF i, S

LEMMA TradeCpiMerged ==
  ASSUME Whole, NEW n \in DOMAIN calls, IsItem(n), ~IsPlain(n), calls[n].kind = "trade", NEW heights \in BOOLEAN,
         NEW out, NEW o, NEW trades, NEW dlmms, MergeInv(out, o, trades, dlmms, n - 1),
         NEW m, m = Loop(out, o, trades, dlmms)
  PROVE  Merging(MergeTradeCpi(m, n, heights), n)
<1> DEFINE S == {k \in DOMAIN trades : DirectChild(trades[k], n, heights)}
<1> PICK i : i = LastOf(S)
  OBVIOUS
<1> PICK e : e = Decoded(n)
  OBVIOUS
<1>1. m.out = out /\ m.trades = trades /\ trades \in Seq(Targets) /\ dlmms \in Seq(Targets) /\ OutInv(out, n - 1)
      /\ OuterKnown(out, o, n - 1)
  BY LoopIs DEF MergeInv
<1>2. ~Asks(n, "trade") /\ ~Asks(n, "dlmm")
  BY DEF Asks
<1>3. CASE IsItem(n - 1)
  <2>1. Asks(n - 1, "trade")
    BY <1>3 DEF Asks, Whole, CallInv, CpiFollows, IsCpi, IsPlain
  <2>2. Waits(out, trades, n - 1)
    BY <2>1 DEF MergeInv, Waiting
  <2>3. /\ i = Len(trades) /\ i # 0 /\ i \in DOMAIN trades /\ ~trades[i].consumed
        /\ trades[i].at \in DOMAIN out /\ out[trades[i].at].from = {n - 1}
    BY <1>1, <1>3, <2>2, WaitedFor
  <2> PICK at : at = trades[i].at
    OBVIOUS
  <2> PICK used : used = [m EXCEPT !.trades[i].consumed = TRUE]
    OBVIOUS
  <2> PICK tr : tr = [trades EXCEPT ![i].consumed = TRUE]
    OBVIOUS
  <2>4. used = Loop(out, o, tr, dlmms)
    <3>1. used = [m EXCEPT !.trades = tr]
      BY <1>1
    <3>2. QED
      BY ONLY <3>1, m = Loop(out, o, trades, dlmms), LoopIs
  <2>5. /\ tr \in Seq(Targets) /\ Len(tr) = Len(trades) /\ DOMAIN tr = DOMAIN trades
        /\ \A k \in DOMAIN trades : k # i => tr[k] = trades[k]
        /\ tr[i].consumed
    <3> PICK u : u = [trades[i] EXCEPT !.consumed = TRUE]
      OBVIOUS
    <3>1. trades[i] \in Targets
      BY <1>1, <2>3
    <3>2. u \in Targets /\ u.consumed
      BY <3>1 DEF Targets
    <3>3. tr = [trades EXCEPT ![i] = u]
      OBVIOUS
    <3>4. trades \in Seq(Targets) /\ i \in DOMAIN trades
      BY <1>1, <2>3
    <3>5. /\ tr \in Seq(Targets) /\ Len(tr) = Len(trades) /\ DOMAIN tr = DOMAIN trades
          /\ \A k \in DOMAIN trades : k # i => tr[k] = trades[k]
          /\ tr[i] = u
      BY ONLY <3>2, <3>3, <3>4
    <3>6. QED
      BY <3>2, <3>5
  <2>6. /\ Mergeable(out[at], e)
        /\ \E t : Into(used, at, e) = Loop(t, o, tr, dlmms) /\ OutInv(t, n) /\ OuterKnown(t, o, n)
    <3>1. at \in DOMAIN out /\ out[at].from = {n - 1} /\ OutInv(out, n - 1) /\ OuterKnown(out, o, n - 1)
      BY <1>1, <2>3
    <3>2. QED
      BY ONLY Whole, n \in DOMAIN calls, IsItem(n), ~IsPlain(n), <2>4, <3>1, e = Decoded(n), TakenIn
  <2> PICK t : Into(used, at, e) = Loop(t, o, tr, dlmms) /\ OutInv(t, n) /\ OuterKnown(t, o, n)
    BY <2>6
  <2>7. MergeTradeCpi(m, n, heights) = Into(used, at, e)
    BY <1>1, <2>3, <2>6 DEF MergeTradeCpi
  <2>8. Waiting(t, tr, dlmms, n)
    <3> SUFFICES ASSUME NEW k \in DOMAIN tr, ~tr[k].consumed PROVE FALSE
      BY <1>2 DEF Waiting
    <3>1. k # i /\ k \in DOMAIN trades /\ ~trades[k].consumed
      BY <2>5
    <3>2. k = Len(trades)
      BY <3>1 DEF MergeInv, Waiting
    <3>3. QED
      BY <2>3, <3>1, <3>2
  <2>9. MergeInv(t, o, tr, dlmms, n)
    BY <1>1, <2>5, <2>8 DEF MergeInv
  <2>10. QED
    BY <2>7, <2>9 DEF Merging
<1>4. CASE ~IsItem(n - 1)
  <2>1. \A k \in DOMAIN trades : trades[k].consumed
    BY <1>4 DEF MergeInv, Waiting, Asks
  <2>2. S \subseteq DOMAIN trades
    OBVIOUS
  <2>3. i = 0 \/ trades[i].consumed
    <3> HIDE DEF S
    <3>1. LastOf(S) = 0 \/ LastOf(S) \in DOMAIN trades
      BY <1>1, <2>2, LastFits
    <3>2. QED
      BY <2>1, <3>1
  <2>4. MergeTradeCpi(m, n, heights) = Push(m, e)
    BY <1>1, <2>3 DEF MergeTradeCpi, Alone
  <2>5. PICK t : Push(m, e) = Loop(t, o, trades, dlmms) /\ OutInv(t, n) /\ OuterKnown(t, o, n)
    BY <1>1, <1>4, Pushed
  <2>6. Waiting(t, trades, dlmms, n)
    BY <1>2, <2>1 DEF Waiting
  <2>7. MergeInv(t, o, trades, dlmms, n)
    BY <1>1, <2>5, <2>6 DEF MergeInv
  <2>8. QED
    BY <2>4, <2>5, <2>7 DEF Merging
<1>5. QED
  BY <1>3, <1>4

LEMMA InnerTradeMerged ==
  ASSUME Whole, NEW n \in DOMAIN calls, IsItem(n), IsPlain(n), calls[n].kind = "trade", NEW heights \in BOOLEAN,
         NEW out, NEW o, NEW trades, NEW dlmms, MergeInv(out, o, trades, dlmms, n - 1),
         NEW m, m = Loop(out, o, trades, dlmms)
  PROVE  Merging(MergeInnerTrade(m, n, heights), n)
<1> PICK e : e = Decoded(n)
  OBVIOUS
<1> PICK old : old = Ancestors(trades, n, heights)
  OBVIOUS
<1> PICK u : u = Target(m, n, heights)
  OBVIOUS
<1> PICK tr : tr = Append(old, u)
  OBVIOUS
<1>1. m.out = out /\ m.trades = trades /\ trades \in Seq(Targets) /\ dlmms \in Seq(Targets) /\ OutInv(out, n - 1)
      /\ OuterKnown(out, o, n - 1)
  BY LoopIs DEF MergeInv
<1>2. PICK t : /\ Push(m, e) = Loop(t, o, trades, dlmms) /\ OutInv(t, n) /\ OuterKnown(t, o, n)
               /\ Len(out) \in Nat /\ Len(t) = Len(out) + 1 /\ t[Len(t)] = e
  BY <1>1, Pushed
<1>3. MergeInnerTrade(m, n, heights) = Loop(t, o, tr, dlmms)
  <2> PICK m1 : m1 = Push(m, e)
    OBVIOUS
  <2>1. MergeInnerTrade(m, n, heights) = [m1 EXCEPT !.trades = tr]
    BY <1>1 DEF MergeInnerTrade
  <2>2. QED
    BY ONLY <1>2, <2>1, m1 = Push(m, e), LoopIs
<1>4. \A k \in DOMAIN old : old[k].consumed
  <2>1. \A k \in DOMAIN trades : trades[k].consumed
    BY NobodyWaits
  <2>2. QED
    BY <1>1, <2>1, AncestorsAre
<1>5. old \in Seq(Targets)
  BY <1>1, AncestorsAre
<1>6. /\ u \in Targets /\ u.outer = calls[n].outer /\ u.height \in {0, calls[n].depth} /\ ~u.consumed
      /\ u.at = Len(t) /\ t[Len(t)].from = {n}
  <2>1. /\ u \in Targets /\ u.outer = calls[n].outer /\ u.height \in {0, calls[n].depth} /\ ~u.consumed
        /\ u.at = Len(m.out) + 1
    <3>1. Len(m.out) \in Nat
      BY <1>1, <1>2
    <3>2. QED
      BY <3>1, TargetMade
  <2>2. e.from = {n}
    BY DecodedTrue DEF Tells
  <2>3. QED
    BY <1>1, <1>2, <2>1, <2>2
<1>7. tr \in Seq(Targets) /\ Waits(t, tr, n) /\ \A k \in DOMAIN tr : ~tr[k].consumed => k = Len(tr)
  <2>1. \A f : f = Append(old, u) => f \in Seq(Targets) /\ Waits(t, f, n)
    BY ONLY <1>5, <1>6, TargetAdded
  <2>2. \A f : f = Append(old, u) => \A k \in DOMAIN f : ~f[k].consumed => k = Len(f)
    BY ONLY <1>4, <1>5, <1>6, TargetAdded
  <2>3. QED
    BY <2>1, <2>2
<1>8. Asks(n, "trade") /\ ~Asks(n, "dlmm")
  <2>1. n # 0
    BY CallOrder
  <2>2. QED
    BY <2>1 DEF Asks
<1>9. Waiting(t, tr, dlmms, n)
  BY <1>7, <1>8 DEF Waiting
<1>10. MergeInv(t, o, tr, dlmms, n)
  BY <1>1, <1>2, <1>7, <1>9 DEF MergeInv
<1>11. QED
  BY <1>3, <1>10 DEF Merging

LEMMA DlmmCpiMerged ==
  ASSUME Whole, NEW n \in DOMAIN calls, IsItem(n), ~IsPlain(n), calls[n].kind = "dlmm", NEW heights \in BOOLEAN,
         NEW out, NEW o, NEW trades, NEW dlmms, MergeInv(out, o, trades, dlmms, n - 1),
         NEW m, m = Loop(out, o, trades, dlmms)
  PROVE  Merging(MergeDlmmCpi(m, n, heights), n)
<1> DEFINE S == {k \in DOMAIN dlmms : DirectChild(dlmms[k], n, heights)}
<1> PICK i : i = LastOf(S)
  OBVIOUS
<1> PICK e : e = Decoded(n)
  OBVIOUS
<1>1. m.out = out /\ m.dlmms = dlmms /\ trades \in Seq(Targets) /\ dlmms \in Seq(Targets) /\ OutInv(out, n - 1)
      /\ OuterKnown(out, o, n - 1)
  BY LoopIs DEF MergeInv
<1>2. ~Asks(n, "trade") /\ ~Asks(n, "dlmm")
  BY DEF Asks
<1>3. IsItem(n - 1) /\ Asks(n - 1, "dlmm")
  <2>1. n > 1 /\ IsPlain(n - 1) /\ calls[n - 1].kind = "dlmm" /\ n - 1 \in DOMAIN calls
    <3>1. n > 1 /\ IsPlain(n - 1) /\ calls[n - 1].kind = "dlmm"
      BY DEF IsPlain, IsCpi, Whole, CallInv, CpiFollows
    <3>2. calls \in Seq(Call)
      BY DEF Whole, CallInv, TypeOK
    <3>3. QED
      BY <3>1, <3>2
  <2>2. calls[n - 1].known
    BY <2>1 DEF Whole, CallInv, Undecoded
  <2>3. n - 1 # 0
    BY <2>1, CallOrder
  <2>4. QED
    BY <2>1, <2>2, <2>3 DEF Asks, IsItem
<1>4. Waits(out, dlmms, n - 1)
  BY <1>3 DEF MergeInv, Waiting
<1>5. /\ i = Len(dlmms) /\ i # 0 /\ i \in DOMAIN dlmms
      /\ dlmms[i].at \in DOMAIN out /\ out[dlmms[i].at].from = {n - 1}
  BY <1>1, <1>3, <1>4, WaitedFor
<1> PICK at : at = dlmms[i].at
  OBVIOUS
<1> PICK dl : dl = SubSeq(dlmms, 1, i)
  OBVIOUS
<1> PICK left : left = [m EXCEPT !.dlmms = SubSeq(@, 1, i)]
  OBVIOUS
<1>6. left = Loop(out, o, trades, dl)
  <2>1. left = [m EXCEPT !.dlmms = dl]
    BY <1>1
  <2>2. QED
    BY ONLY <2>1, m = Loop(out, o, trades, dlmms), LoopIs
<1>7. dl \in Seq(Targets)
  <2>1. i \in 0 .. Len(dlmms)
    BY ONLY <1>1, <1>5
  <2>2. QED
    BY ONLY <1>1, <2>1, dl = SubSeq(dlmms, 1, i)
<1>8. /\ Mergeable(out[at], e)
      /\ \E t : Into(left, at, e) = Loop(t, o, trades, dl) /\ OutInv(t, n) /\ OuterKnown(t, o, n)
  <2>1. at \in DOMAIN out /\ out[at].from = {n - 1} /\ OutInv(out, n - 1) /\ OuterKnown(out, o, n - 1)
    BY <1>1, <1>5
  <2>2. QED
    BY ONLY Whole, n \in DOMAIN calls, IsItem(n), ~IsPlain(n), <1>6, <2>1, e = Decoded(n), TakenIn
<1> PICK t : Into(left, at, e) = Loop(t, o, trades, dl) /\ OutInv(t, n) /\ OuterKnown(t, o, n)
  BY <1>8
<1>9. MergeDlmmCpi(m, n, heights) = Into(left, at, e)
  BY <1>1, <1>5, <1>8 DEF MergeDlmmCpi
<1>10. Waiting(t, trades, dl, n)
  <2>1. \A k \in DOMAIN trades : trades[k].consumed
    BY NobodyWaits
  <2>2. QED
    BY <1>2, <2>1 DEF Waiting
<1>11. MergeInv(t, o, trades, dl, n)
  BY <1>1, <1>7, <1>10 DEF MergeInv
<1>12. QED
  BY <1>9, <1>11 DEF Merging

\* Any other inner event joins the outer one only if it is that one's event CPI.
LEMMA OtherMerged ==
  ASSUME Whole, NEW n \in DOMAIN calls, IsItem(n), calls[n].depth # 1, calls[n].kind # "trade",
         IsPlain(n) \/ calls[n].kind # "dlmm", NEW heights \in BOOLEAN,
         NEW out, NEW o, NEW trades, NEW dlmms, MergeInv(out, o, trades, dlmms, n - 1),
         NEW m, m = Loop(out, o, trades, dlmms)
  PROVE  Merging(MergeOther(m, n, heights), n)
<1> PICK e : e = Decoded(n)
  OBVIOUS
<1> DEFINE joins == o.outer = calls[n].outer /\ Mergeable(out[o.at], e)
           next  == IF joins THEN Into(m, o.at, e) ELSE Push(m, e)
           mine  == [Target(m, n, heights) EXCEPT !.at = IF joins THEN o.at ELSE @]
<1>1. /\ m.out = out /\ m.outerTarget = o /\ m.dlmms = dlmms /\ trades \in Seq(Targets) /\ dlmms \in Seq(Targets)
      /\ OutInv(out, n - 1) /\ OuterKnown(out, o, n - 1)
  BY LoopIs DEF MergeInv
<1>2. MergeOther(m, n, heights) =
        IF calls[n].kind = "dlmm" THEN [next EXCEPT !.dlmms = Append(Ancestors(dlmms, n, heights), mine)] ELSE next
  <2>1. next.dlmms = dlmms
    <3>1. Push(m, e).dlmms = dlmms /\ Into(m, o.at, e).dlmms = dlmms
      BY DEF Push, Into, Loop
    <3>2. QED
      BY <3>1
  <2>2. MergeOther(m, n, heights) =
          IF calls[n].kind = "dlmm" THEN [next EXCEPT !.dlmms = Append(Ancestors(m.dlmms, n, heights), mine)] ELSE next
    BY <1>1 DEF MergeOther
  <2> HIDE DEF next, mine
  <2>3. QED
    BY <1>1, <2>2
<1>3. \A k \in DOMAIN trades : trades[k].consumed
  BY NobodyWaits
<1>4. ~Asks(n, "trade")
  BY DEF Asks
<1>5. ASSUME joins
      PROVE  ~IsPlain(n) /\ o.at \in DOMAIN out /\ out[o.at].from = {n - 1} /\ calls[n].kind # "dlmm"
  <2>1. calls[n].outer # 0 /\ calls \in Seq(Call) /\ n \in Nat /\ n - 1 \in DOMAIN calls \cup {0}
    <3>1. calls \in Seq(Call)
      BY DEF Whole, CallInv, TypeOK
    <3>2. QED
      BY <3>1 DEF Whole, CallInv, Nested
  <2>2. o.outer = calls[n].outer /\ Mergeable(out[o.at], e)
    BY <1>5
  <2> HIDE DEF joins, next, mine
  <2>3. PICK d \in 1 .. n - 1 :
          IsOuter(d) /\ calls[d].outer = calls[n].outer /\ o.at \in DOMAIN out /\ out[o.at].from = {d}
    BY <1>1, <2>1, <2>2 DEF OuterKnown, Nothing
  <2>4. d \in DOMAIN calls
    BY CallOrder
  <2>5. Tells(out[o.at], d)
    <3>1. PICK y \in 1 .. n - 1 : Tells(out[o.at], y)
      BY <1>1, <2>3 DEF OutInv, Sourced
    <3>2. y = d
      BY <2>3, <3>1 DEF Tells
    <3>3. QED
      BY <3>1, <3>2
  <2>6. calls[d].kind = calls[n].kind
    <3>1. e.kind = calls[n].kind
      BY DEF Decoded
    <3>2. QED
      BY <2>2, <2>5, <3>1 DEF Tells, Mergeable
  <2>7. calls[n].kind \notin {"router", "trade"}
    BY DEF IsItem
  <2>8. ~IsPlain(n)
    BY <2>3, <2>4, <2>6, <2>7 DEF Whole, CallInv, Nested, IsOuter
  <2>9. /\ n - 1 \in DOMAIN calls /\ IsPlain(n - 1) /\ calls[n].outer = calls[n - 1].outer
        /\ calls[n - 1].kind = calls[n].kind
    <3>1. n > 1 /\ IsPlain(n - 1) /\ calls[n].outer = calls[n - 1].outer /\ calls[n - 1].kind = calls[n].kind
      BY <2>8 DEF IsPlain, IsCpi, Whole, CallInv, CpiFollows
    <3>2. QED
      BY <2>1, <3>1
  <2>10. IsOuter(n - 1)
    BY <2>3, <2>4, <2>6, <2>7, <2>9 DEF Whole, CallInv, Nested
  <2>11. d = n - 1
    BY <2>3, <2>4, <2>9, <2>10, SameOuter DEF Whole
  <2>12. QED
    BY <2>3, <2>8, <2>11
<1>6. PICK t : /\ next = Loop(t, o, trades, dlmms) /\ OutInv(t, n) /\ OuterKnown(t, o, n)
               /\ ~joins => Len(t) = Len(m.out) + 1 /\ t[Len(t)] = e /\ Len(m.out) \in Nat
  <2>1. CASE joins
    <3>1. ~IsPlain(n) /\ o.at \in DOMAIN out /\ out[o.at].from = {n - 1}
      BY <1>5, <2>1
    <3>2. PICK t : Into(m, o.at, e) = Loop(t, o, trades, dlmms) /\ OutInv(t, n) /\ OuterKnown(t, o, n)
      BY <1>1, <3>1, TakenIn
    <3>3. next = Into(m, o.at, e)
      BY <2>1
    <3> HIDE DEF joins, next
    <3>4. QED
      BY <2>1, <3>2, <3>3
  <2>2. CASE ~joins
    <3>1. IsPlain(n) \/ calls[n].kind = "create"
      <4>1. IsPlain(n) \/ HasCpi(calls[n].kind)
        BY DEF IsPlain, IsCpi, Whole, CallInv, CpiFollows
      <4>2. QED
        BY <4>1 DEF HasCpi
    <3>2. PICK t : /\ Push(m, e) = Loop(t, o, trades, dlmms) /\ OutInv(t, n) /\ OuterKnown(t, o, n)
                   /\ Len(out) \in Nat /\ Len(t) = Len(out) + 1 /\ t[Len(t)] = e
      BY <1>1, <3>1, Pushed
    <3>3. next = Push(m, e)
      BY <2>2
    <3> HIDE DEF joins, next
    <3>4. QED
      BY <1>1, <3>2, <3>3
  <2>3. QED
    BY <2>1, <2>2
<1>7. CASE calls[n].kind # "dlmm"
  <2>1. MergeOther(m, n, heights) = Loop(t, o, trades, dlmms)
    BY <1>2, <1>6, <1>7
  <2>2. Waiting(t, trades, dlmms, n)
    BY <1>3, <1>4, <1>7 DEF Waiting, Asks
  <2>3. MergeInv(t, o, trades, dlmms, n)
    BY <1>1, <1>6, <2>2 DEF MergeInv
  <2>4. QED
    BY <2>1, <2>3 DEF Merging
<1>8. CASE calls[n].kind = "dlmm"
  <2> PICK u : u = Target(m, n, heights)
    OBVIOUS
  <2> PICK old : old = Ancestors(dlmms, n, heights)
    OBVIOUS
  <2> PICK dl : dl = Append(old, u)
    OBVIOUS
  <2>1. ~joins
    BY <1>5, <1>8
  <2>2. IsPlain(n)
    BY <1>8
  <2>3. /\ u \in Targets /\ u.outer = calls[n].outer /\ u.height \in {0, calls[n].depth} /\ ~u.consumed
        /\ u.at = Len(t) /\ t[Len(t)].from = {n}
    <3>1. Len(m.out) \in Nat /\ Len(t) = Len(m.out) + 1 /\ t[Len(t)] = e
      BY <1>6, <2>1
    <3>2. /\ u \in Targets /\ u.outer = calls[n].outer /\ u.height \in {0, calls[n].depth} /\ ~u.consumed
          /\ u.at = Len(m.out) + 1
      BY <3>1, TargetMade
    <3>3. e.from = {n}
      BY <2>2, DecodedTrue DEF Tells
    <3>4. QED
      BY <3>1, <3>2, <3>3
  <2>4. mine = u
    <3>1. mine = [u EXCEPT !.at = @]
      BY <2>1
    <3>2. QED
      BY ONLY <2>3, <3>1 DEF Targets
  <2>5. old \in Seq(Targets)
    BY <1>1, AncestorsAre
  <2>6. dl \in Seq(Targets) /\ Waits(t, dl, n)
    <3>1. \A f : f = Append(old, u) => f \in Seq(Targets) /\ Waits(t, f, n)
      BY ONLY <2>3, <2>5, TargetAdded
    <3>2. QED
      BY <3>1
  <2>7. MergeOther(m, n, heights) = Loop(t, o, trades, dl)
    <3>1. MergeOther(m, n, heights) = [next EXCEPT !.dlmms = dl]
      BY <1>2, <1>8, <2>4
    <3> PICK m1 : m1 = next
      OBVIOUS
    <3>2. m1 = Loop(t, o, trades, dlmms) /\ MergeOther(m, n, heights) = [m1 EXCEPT !.dlmms = dl]
      BY <1>6, <3>1
    <3>3. QED
      BY ONLY <3>2, LoopIs
  <2>8. Waiting(t, trades, dl, n)
    BY <1>3, <1>4, <2>6 DEF Waiting
  <2>9. MergeInv(t, o, trades, dl, n)
    BY <1>1, <1>6, <2>6, <2>8 DEF MergeInv
  <2>10. QED
    BY <2>7, <2>9 DEF Merging
<1>9. QED
  BY <1>7, <1>8

LEMMA MergedUnfolds ==
  ASSUME NEW N \in Nat, N = Len(calls), NEW heights
  PROVE  /\ MergedUpTo(heights)[0] = NoEvents
         /\ \A n \in 1 .. N : MergedUpTo(heights)[n] =
              IF IsItem(n) THEN MergeItem(MergedUpTo(heights)[n - 1], n, heights) ELSE MergedUpTo(heights)[n - 1]
<1> DEFINE Next1(m, n) == IF IsItem(n) THEN MergeItem(m, n, heights) ELSE m
           Goes(k, f) == f = [n \in 0 .. k |-> IF n = 0 THEN NoEvents ELSE Next1(f[n - 1], n)]
           K == {k \in 0 .. N : \E f : Goes(k, f)}
<1> HIDE DEF Next1
<1>2. 0 \in K
  <2>1. Goes(0, [n \in 0 .. 0 |-> NoEvents])
    OBVIOUS
  <2> HIDE DEF Goes
  <2>2. \E f : Goes(0, f)
    BY <2>1
  <2>3. QED
    BY <2>2
<1>3. ASSUME NEW k \in 1 .. N, k - 1 \in K PROVE k \in K
  <2>1. PICK f : Goes(k - 1, f)
    BY <1>3
  <2> DEFINE g == [n \in 0 .. k |-> IF n = 0 THEN NoEvents ELSE Next1(f[n - 1], n)]
  <2>2. \A n \in 0 .. k - 1 : g[n] = f[n]
    BY <2>1
  <2>3. g = [n \in 0 .. k |-> IF n = 0 THEN NoEvents ELSE Next1(f[n - 1], n)]
    OBVIOUS
  <2> HIDE DEF g
  <2>4. Goes(k, g)
    <3>1. ASSUME NEW n \in 0 .. k, n # 0 PROVE f[n - 1] = g[n - 1]
      <4>1. n - 1 \in 0 .. k - 1
        BY <3>1
      <4>2. QED
        BY <2>2, <4>1
    <3>2. QED
      BY <2>3, <3>1
  <2> HIDE DEF Goes
  <2>5. \E h : Goes(k, h)
    BY <2>4
  <2>6. QED
    BY <2>5
<1>4. 0 .. N \subseteq K
  <2> HIDE DEF K
  <2> QED
    BY ONLY N \in Nat, <1>2, <1>3, Throughout
<1>5. \E f : Goes(N, f)
  <2>1. N \in K
    BY <1>4
  <2> HIDE DEF Goes
  <2>2. QED
    BY <2>1
<1> DEFINE upTo[n \in 0 .. N] == IF n = 0 THEN NoEvents ELSE Next1(upTo[n - 1], n)
<1>6. Goes(N, upTo)
  BY <1>5
<1>7. MergedUpTo(heights) = upTo
  BY DEF MergedUpTo, Next1
<1> HIDE DEF upTo
<1>8. upTo[0] = NoEvents /\ \A n \in 1 .. N : upTo[n] = Next1(upTo[n - 1], n)
  BY <1>6
<1>9. QED
  BY <1>7, <1>8 DEF Next1

LEMMA ItemMerged ==
  ASSUME Whole, NEW n \in DOMAIN calls, IsItem(n), NEW heights \in BOOLEAN,
         NEW out, NEW o, NEW trades, NEW dlmms, MergeInv(out, o, trades, dlmms, n - 1),
         NEW m, m = Loop(out, o, trades, dlmms)
  PROVE  Merging(MergeItem(m, n, heights), n)
<1>1. CASE calls[n].depth = 1
  <2>1. MergeItem(m, n, heights) = MergeOuter(m, n)
    BY <1>1 DEF MergeItem
  <2>2. Merging(MergeOuter(m, n), n)
    BY <1>1, OuterMerged
  <2>3. QED
    BY <2>1, <2>2
<1>2. CASE calls[n].depth # 1 /\ calls[n].kind = "trade" /\ ~IsPlain(n)
  <2>1. MergeItem(m, n, heights) = MergeTradeCpi(m, n, heights)
    BY <1>2 DEF MergeItem, IsPlain
  <2>2. Merging(MergeTradeCpi(m, n, heights), n)
    BY <1>2, TradeCpiMerged
  <2>3. QED
    BY <2>1, <2>2
<1>3. CASE calls[n].depth # 1 /\ calls[n].kind = "trade" /\ IsPlain(n)
  <2>1. MergeItem(m, n, heights) = MergeInnerTrade(m, n, heights)
    BY <1>3 DEF MergeItem, IsPlain
  <2>2. Merging(MergeInnerTrade(m, n, heights), n)
    BY <1>3, InnerTradeMerged
  <2>3. QED
    BY <2>1, <2>2
<1>4. CASE calls[n].depth # 1 /\ calls[n].kind = "dlmm" /\ ~IsPlain(n)
  <2>1. MergeItem(m, n, heights) = MergeDlmmCpi(m, n, heights)
    BY <1>4 DEF MergeItem, IsPlain
  <2>2. Merging(MergeDlmmCpi(m, n, heights), n)
    BY <1>4, DlmmCpiMerged
  <2>3. QED
    BY <2>1, <2>2
<1>5. CASE calls[n].depth # 1 /\ calls[n].kind # "trade" /\ (IsPlain(n) \/ calls[n].kind # "dlmm")
  <2>1. MergeItem(m, n, heights) = MergeOther(m, n, heights)
    BY <1>5 DEF MergeItem, IsPlain
  <2>2. Merging(MergeOther(m, n, heights), n)
    BY <1>5, OtherMerged
  <2>3. QED
    BY <2>1, <2>2
<1>6. QED
  BY <1>1, <1>2, <1>3, <1>4, <1>5

\* The events of the instructions, with stack heights or without: each of one execution,
\* in order, all there are; the swaps of the DLMM with what was executed.
LEMMA InstructionsMerged ==
  ASSUME Whole, NEW heights \in BOOLEAN
  PROVE  OutInv(InstructionEvents(heights), Len(calls))
<1> PICK L : L = Len(calls)
  OBVIOUS
<1> DEFINE at == MergedUpTo(heights)
<1>1. calls \in Seq(Call) /\ L \in Nat /\ DOMAIN calls = 1 .. L
  BY DEF Whole, CallInv, TypeOK
<1>2. /\ at[0] = NoEvents
      /\ \A n \in 1 .. L : at[n] = IF IsItem(n) THEN MergeItem(at[n - 1], n, heights) ELSE at[n - 1]
  BY <1>1, MergedUnfolds
<1> HIDE DEF at
<1> DEFINE K == {n \in 0 .. L : Merging(at[n], n)}
<1>3. 0 \in K
  <2> PICK none : none = <<>>
    OBVIOUS
  <2> PICK o : o = [outer |-> Nothing, at |-> Nothing]
    OBVIOUS
  <2>1. NoEvents = Loop(none, o, none, none)
    BY DEF NoEvents, Loop
  <2>2. OutInv(none, 0)
    BY DEF OutInv, Sourced, InOrder, Covered, DlmmExecuted
  <2>3. OuterKnown(none, o, 0)
    BY DEF OuterKnown
  <2>4. none \in Seq(Targets) /\ DOMAIN none = {}
    OBVIOUS
  <2>5. Waiting(none, none, none, 0)
    BY <2>4 DEF Waiting, Asks
  <2>6. MergeInv(none, o, none, none, 0)
    BY <2>2, <2>3, <2>4, <2>5 DEF MergeInv
  <2>7. Merging(at[0], 0)
    BY <1>2, <2>1, <2>6 DEF Merging
  <2>8. QED
    BY <1>1, <2>7
<1>4. ASSUME NEW n \in 1 .. L, n - 1 \in K PROVE n \in K
  <2>1. n \in DOMAIN calls /\ n \in 0 .. L
    BY <1>1
  <2>2. PICK out, o, trades, dlmms :
          at[n - 1] = Loop(out, o, trades, dlmms) /\ MergeInv(out, o, trades, dlmms, n - 1)
    BY <1>4 DEF Merging
  <2> PICK m : m = at[n - 1]
    OBVIOUS
  <2>3. CASE IsItem(n)
    <3>1. Merging(MergeItem(m, n, heights), n)
      BY <2>1, <2>2, <2>3, ItemMerged
    <3>2. at[n] = MergeItem(m, n, heights)
      BY <1>2, <2>3
    <3>3. QED
      BY <2>1, <3>1, <3>2
  <2>4. CASE ~IsItem(n)
    <3>1. MergeInv(out, o, trades, dlmms, n)
      BY <2>1, <2>2, <2>4, MergedNot
    <3>2. at[n] = Loop(out, o, trades, dlmms)
      BY <1>2, <2>2, <2>4
    <3>3. Merging(at[n], n)
      BY <3>1, <3>2 DEF Merging
    <3>4. QED
      BY <2>1, <3>3
  <2>5. QED
    BY <2>3, <2>4
<1>5. L \in K
  <2> HIDE DEF K
  <2>1. 0 .. L \subseteq K
    BY ONLY <1>1, <1>3, <1>4, Throughout
  <2>2. QED
    BY <1>1, <2>1
<1>6. PICK out, o, trades, dlmms : at[L] = Loop(out, o, trades, dlmms) /\ MergeInv(out, o, trades, dlmms, L)
  BY <1>5 DEF Merging
<1>7. InstructionEvents(heights) = out
  <2>1. at[L].out = out
    BY <1>6, LoopIs
  <2>2. QED
    BY <2>1 DEF InstructionEvents, at
<1>8. QED
  BY <1>6, <1>7 DEF MergeInv

(***************************************************************************)
(* The merge of the two lists                                              *)
(***************************************************************************)

\* Event e is event b with more in it.
Carries(e, b) ==
  e.kind = b.kind /\ e.key = b.key /\ e.router = b.router /\ e.amounts = b.amounts /\ b.from \subseteq e.from

\* The log events have taken in the instruction events they are the partners of.
Paired(out, log, ix, i) ==
  \A p \in DOMAIN log :
    /\ Carries(out[p], log[p])
    /\ \A x \in out[p].from : x \in log[p].from \/ \E j \in 1 .. i : Partner(log, ix, j) = p /\ x \in ix[j].from

\* The others stand for instruction events without a partner, those of one key together.
Single(out, keys, log, ix, i) ==
  \A q \in DOMAIN keys :
    /\ \E j \in 1 .. i : Partner(log, ix, j) = 0 /\ Key(ix, j) = keys[q] /\ Carries(out[Len(log) + q], ix[j])
    /\ \A x \in out[Len(log) + q].from :
         \E j \in 1 .. i : Partner(log, ix, j) = 0 /\ Key(ix, j) = keys[q] /\ x \in ix[j].from

\* Every instruction event has gone somewhere.
PutIn(out, ix, i) ==
  \A j \in 1 .. i : \E p \in DOMAIN out : ix[j].from \subseteq out[p].from /\ (ix[j].accounts => out[p].accounts)

DedupeInv(out, keys, log, ix, i) ==
  /\ out \in Seq(Event) /\ keys \in Seq({Key(ix, j) : j \in DOMAIN ix}) /\ Len(out) = Len(log) + Len(keys)
  /\ \A q, r \in DOMAIN keys : keys[q] = keys[r] => q = r
  /\ Paired(out, log, ix, i) /\ Single(out, keys, log, ix, i) /\ PutIn(out, ix, i)

LEMMA FillKeeps ==
  ASSUME NEW log \in Seq(Event), NEW ix \in Seq(Event), NEW i \in DOMAIN ix, NEW out, NEW keys,
         DedupeInv(out, keys, log, ix, i - 1), NEW p \in DOMAIN out,
         \/ p \in DOMAIN log /\ Partner(log, ix, i) = p
         \/ /\ p \notin DOMAIN log /\ Partner(log, ix, i) = 0
            /\ \E q \in DOMAIN keys : p = Len(log) + q /\ keys[q] = Key(ix, i),
         NEW t, t = [out EXCEPT ![p] = Joined(@, ix[i])]
  PROVE  DedupeInv(t, keys, log, ix, i)
<1> PICK b : b = out[p]
  OBVIOUS
<1> PICK e : e = ix[i]
  OBVIOUS
<1> PICK m : m = Joined(b, e)
  OBVIOUS
<1> PICK N : N = Len(log)
  OBVIOUS
<1>1. /\ N \in Nat /\ DOMAIN log = 1 .. N /\ out \in Seq(Event) /\ Len(keys) \in Nat /\ DOMAIN keys = 1 .. Len(keys)
      /\ DOMAIN out = 1 .. N + Len(keys) /\ i \in Nat /\ i \in 1 .. i
      /\ 1 .. i - 1 \subseteq 1 .. i /\ \A j \in 1 .. i : j # i => j \in 1 .. i - 1
  <2>1. out \in Seq(Event) /\ keys \in Seq({Key(ix, j) : j \in DOMAIN ix}) /\ Len(out) = N + Len(keys)
    BY DEF DedupeInv
  <2> DEFINE S == {Key(ix, j) : j \in DOMAIN ix}
  <2>2. keys \in Seq(S)
    BY <2>1
  <2> HIDE DEF S
  <2>3. QED
    BY <2>1, <2>2
<1>2. b \in Event /\ e \in Event
  <2> HIDE DEF Event
  <2>1. QED
    BY <1>1
<1>3. /\ m \in Event /\ m.from = b.from \cup e.from /\ (m.accounts <=> b.accounts \/ e.accounts)
      /\ m.kind = b.kind /\ m.key = b.key /\ m.router = b.router /\ m.amounts = b.amounts
  BY ONLY <1>2, m = Joined(b, e), JoinedIs
<1>4. /\ t \in Seq(Event) /\ DOMAIN t = DOMAIN out /\ Len(t) = Len(out) /\ t[p] = m
      /\ \A k \in DOMAIN out : k # p => t[k] = out[k]
  <2>1. t = [out EXCEPT ![p] = m]
    OBVIOUS
  <2>2. m \in Event
    BY <1>3
  <2>3. QED
    BY ONLY <1>1, <2>1, <2>2, p \in DOMAIN out
<1>5. \A k \in DOMAIN out : Carries(t[k], out[k]) /\ (out[k].accounts => t[k].accounts)
  <2> SUFFICES ASSUME NEW k \in DOMAIN out PROVE Carries(t[k], out[k]) /\ (out[k].accounts => t[k].accounts)
    OBVIOUS
  <2>1. CASE k = p
    BY <1>3, <1>4, <2>1 DEF Carries
  <2>2. CASE k # p
    BY <1>4, <2>2 DEF Carries
  <2>3. QED
    BY <2>1, <2>2
<1>6. \A k \in DOMAIN out : \A x \in t[k].from : x \in out[k].from \/ (k = p /\ x \in e.from)
  BY <1>3, <1>4
<1>7. Paired(t, log, ix, i)
  <2> SUFFICES ASSUME NEW k \in DOMAIN log
               PROVE  /\ Carries(t[k], log[k])
                      /\ \A x \in t[k].from :
                           x \in log[k].from \/ \E j \in 1 .. i : Partner(log, ix, j) = k /\ x \in ix[j].from
    BY DEF Paired
  <2>1. k \in DOMAIN out /\ Carries(out[k], log[k])
    BY <1>1 DEF DedupeInv, Paired
  <2>2. Carries(t[k], log[k])
    BY <1>5, <2>1 DEF Carries
  <2>3. ASSUME NEW x \in t[k].from
        PROVE  x \in log[k].from \/ \E j \in 1 .. i : Partner(log, ix, j) = k /\ x \in ix[j].from
    <3>1. CASE x \in out[k].from
      <4>1. x \in log[k].from \/ \E j \in 1 .. i - 1 : Partner(log, ix, j) = k /\ x \in ix[j].from
        BY <3>1 DEF DedupeInv, Paired
      <4>2. QED
        BY <1>1, <4>1
    <3>2. CASE k = p /\ x \in e.from
      <4>1. Partner(log, ix, i) = k
        BY <3>2
      <4>2. QED
        BY <1>1, <3>2, <4>1
    <3>3. QED
      BY <1>6, <2>1, <3>1, <3>2
  <2>4. QED
    BY <2>2, <2>3
<1>8. Single(t, keys, log, ix, i)
  <2> SUFFICES ASSUME NEW q \in DOMAIN keys, NEW k, k = N + q
               PROVE  /\ \E j \in 1 .. i : Partner(log, ix, j) = 0 /\ Key(ix, j) = keys[q] /\ Carries(t[k], ix[j])
                      /\ \A x \in t[k].from :
                           \E j \in 1 .. i : Partner(log, ix, j) = 0 /\ Key(ix, j) = keys[q] /\ x \in ix[j].from
    BY DEF Single
  <2>1. k \in DOMAIN out /\ k \notin DOMAIN log
    BY <1>1
  <2>2. PICK j \in 1 .. i - 1 : Partner(log, ix, j) = 0 /\ Key(ix, j) = keys[q] /\ Carries(out[k], ix[j])
    BY DEF DedupeInv, Single
  <2>3. j \in 1 .. i /\ Carries(t[k], ix[j])
    BY <1>1, <1>5, <2>1, <2>2 DEF Carries
  <2>4. ASSUME NEW x \in t[k].from
        PROVE  \E l \in 1 .. i : Partner(log, ix, l) = 0 /\ Key(ix, l) = keys[q] /\ x \in ix[l].from
    <3>1. CASE x \in out[k].from
      <4>1. PICK l \in 1 .. i - 1 : Partner(log, ix, l) = 0 /\ Key(ix, l) = keys[q] /\ x \in ix[l].from
        BY <3>1 DEF DedupeInv, Single
      <4>2. l \in 1 .. i
        BY <1>1
      <4>3. QED
        BY <4>1, <4>2
    <3>2. CASE k = p /\ x \in e.from
      <4>1. Partner(log, ix, i) = 0 /\ \E r \in DOMAIN keys : p = N + r /\ keys[r] = Key(ix, i)
        BY <2>1, <3>2
      <4>2. PICK r \in DOMAIN keys : p = N + r /\ keys[r] = Key(ix, i)
        BY <4>1
      <4>3. r = q
        BY <1>1, <3>2, <4>2
      <4>4. QED
        BY <1>1, <3>2, <4>1, <4>2, <4>3
    <3>3. QED
      BY <1>6, <2>1, <3>1, <3>2
  <2>5. QED
    BY <2>2, <2>3, <2>4
<1>9. PutIn(t, ix, i)
  <2> SUFFICES ASSUME NEW j \in 1 .. i
               PROVE  \E k \in DOMAIN t : ix[j].from \subseteq t[k].from /\ (ix[j].accounts => t[k].accounts)
    BY DEF PutIn
  <2>1. CASE j = i
    BY <1>3, <1>4, <2>1
  <2>2. CASE j # i
    <3>1. j \in 1 .. i - 1
      BY <1>1, <2>2
    <3>2. PICK k \in DOMAIN out : ix[j].from \subseteq out[k].from /\ (ix[j].accounts => out[k].accounts)
      BY <3>1 DEF DedupeInv, PutIn
    <3>3. ix[j].from \subseteq t[k].from /\ (ix[j].accounts => t[k].accounts)
      BY <1>5, <3>2 DEF Carries
    <3>4. QED
      BY <1>4, <3>3
  <2>3. QED
    BY <2>1, <2>2
<1>10. QED
  BY <1>4, <1>7, <1>8, <1>9 DEF DedupeInv

LEMMA AppendKeeps ==
  ASSUME NEW log \in Seq(Event), NEW ix \in Seq(Event), NEW i \in DOMAIN ix, NEW out, NEW keys,
         DedupeInv(out, keys, log, ix, i - 1), Partner(log, ix, i) = 0,
         \A q \in DOMAIN keys : keys[q] # Key(ix, i),
         NEW t, t = Append(out, ix[i]), NEW ks, ks = Append(keys, Key(ix, i))
  PROVE  DedupeInv(t, ks, log, ix, i)
<1> PICK e : e = ix[i]
  OBVIOUS
<1> PICK key : key = Key(ix, i)
  OBVIOUS
<1> PICK N : N = Len(log)
  OBVIOUS
<1> PICK M : M = Len(keys)
  OBVIOUS
<1> DEFINE S == {Key(ix, j) : j \in DOMAIN ix}
<1>0. key \in S /\ keys \in Seq(S) /\ out \in Seq(Event) /\ Len(out) = N + M
  BY DEF DedupeInv
<1> HIDE DEF S
<1>1. /\ N \in Nat /\ DOMAIN log = 1 .. N /\ M \in Nat /\ DOMAIN keys = 1 .. M
      /\ DOMAIN out = 1 .. N + M /\ i \in Nat /\ i \in 1 .. i
      /\ 1 .. i - 1 \subseteq 1 .. i /\ \A j \in 1 .. i : j # i => j \in 1 .. i - 1
  BY <1>0
<1>2. e \in Event
  <2> HIDE DEF Event
  <2>1. QED
    OBVIOUS
<1>3. /\ t \in Seq(Event) /\ DOMAIN t = 1 .. N + M + 1 /\ Len(t) = N + M + 1 /\ t[N + M + 1] = e
      /\ \A k \in DOMAIN out : t[k] = out[k]
  <2>1. t = Append(out, e)
    OBVIOUS
  <2>2. QED
    BY ONLY <1>0, <1>1, <1>2, <2>1
<1>4. /\ ks \in Seq(S) /\ DOMAIN ks = 1 .. M + 1 /\ Len(ks) = M + 1 /\ ks[M + 1] = key
      /\ \A q \in DOMAIN keys : ks[q] = keys[q]
  <2>1. ks = Append(keys, key)
    OBVIOUS
  <2>2. QED
    BY ONLY <1>0, <1>1, <2>1, M = Len(keys)
<1>5. Len(t) = N + Len(ks) /\ \A q \in DOMAIN ks : q \in DOMAIN keys \/ q = M + 1
  <2>1. Len(t) = N + Len(ks)
    BY <1>1, <1>3, <1>4
  <2>2. ASSUME NEW q \in 1 .. M + 1 PROVE q \in 1 .. M \/ q = M + 1
    BY ONLY <1>1, <2>2
  <2>3. QED
    BY <1>1, <1>4, <2>1, <2>2
<1>6. \A q, r \in DOMAIN ks : ks[q] = ks[r] => q = r
  <2> SUFFICES ASSUME NEW q \in DOMAIN ks, NEW r \in DOMAIN ks, ks[q] = ks[r] PROVE q = r
    OBVIOUS
  <2>1. (q \in DOMAIN keys \/ q = M + 1) /\ (r \in DOMAIN keys \/ r = M + 1)
    BY <1>5
  <2>2. QED
    BY <1>4, <2>1 DEF DedupeInv
<1>7. Paired(t, log, ix, i)
  <2> SUFFICES ASSUME NEW k \in DOMAIN log
               PROVE  /\ Carries(t[k], log[k])
                      /\ \A x \in t[k].from :
                           x \in log[k].from \/ \E j \in 1 .. i : Partner(log, ix, j) = k /\ x \in ix[j].from
    BY DEF Paired
  <2>1. t[k] = out[k] /\ Carries(out[k], log[k])
    BY <1>1, <1>3 DEF DedupeInv, Paired
  <2>2. \A x \in out[k].from : x \in log[k].from \/ \E j \in 1 .. i - 1 : Partner(log, ix, j) = k /\ x \in ix[j].from
    BY DEF DedupeInv, Paired
  <2>3. QED
    BY <1>1, <2>1, <2>2
<1>8. Single(t, ks, log, ix, i)
  <2> SUFFICES ASSUME NEW q \in DOMAIN ks, NEW k, k = N + q
               PROVE  /\ \E j \in 1 .. i : Partner(log, ix, j) = 0 /\ Key(ix, j) = ks[q] /\ Carries(t[k], ix[j])
                      /\ \A x \in t[k].from :
                           \E j \in 1 .. i : Partner(log, ix, j) = 0 /\ Key(ix, j) = ks[q] /\ x \in ix[j].from
    BY DEF Single
  <2>1. CASE q \in DOMAIN keys
    <3>1. k \in DOMAIN out /\ t[k] = out[k] /\ ks[q] = keys[q]
      BY <1>1, <1>3, <1>4, <2>1
    <3>2. PICK j \in 1 .. i - 1 : Partner(log, ix, j) = 0 /\ Key(ix, j) = keys[q] /\ Carries(out[k], ix[j])
      BY <2>1 DEF DedupeInv, Single
    <3>3. \A x \in out[k].from :
            \E l \in 1 .. i - 1 : Partner(log, ix, l) = 0 /\ Key(ix, l) = keys[q] /\ x \in ix[l].from
      BY <2>1 DEF DedupeInv, Single
    <3>4. j \in 1 .. i
      BY <1>1
    <3>5. QED
      BY <1>1, <3>1, <3>2, <3>3, <3>4
  <2>2. CASE q = M + 1
    <3>1. t[k] = e /\ ks[q] = key
      BY <1>1, <1>3, <1>4, <2>2
    <3>2. Carries(e, ix[i])
      BY DEF Carries
    <3>3. QED
      BY <1>1, <3>1, <3>2
  <2>3. QED
    BY <1>5, <2>1, <2>2
<1>9. PutIn(t, ix, i)
  <2> SUFFICES ASSUME NEW j \in 1 .. i
               PROVE  \E k \in DOMAIN t : ix[j].from \subseteq t[k].from /\ (ix[j].accounts => t[k].accounts)
    BY DEF PutIn
  <2>1. CASE j = i
    <3>1. N + M + 1 \in DOMAIN t
      BY <1>1, <1>3
    <3>2. QED
      BY <1>3, <2>1, <3>1
  <2>2. CASE j # i
    <3>1. j \in 1 .. i - 1
      BY <1>1, <2>2
    <3>2. PICK k \in DOMAIN out : ix[j].from \subseteq out[k].from /\ (ix[j].accounts => out[k].accounts)
      BY <3>1 DEF DedupeInv, PutIn
    <3>3. k \in DOMAIN t /\ t[k] = out[k]
      BY <1>1, <1>3
    <3>4. QED
      BY <3>2, <3>3
  <2>3. QED
    BY <2>1, <2>2
<1>10. QED
  BY <1>3, <1>4, <1>5, <1>6, <1>7, <1>8, <1>9 DEF DedupeInv, S

LEMMA PlaceKeeps ==
  ASSUME NEW log \in Seq(Event), NEW ix \in Seq(Event), NEW i \in DOMAIN ix, NEW out, NEW keys,
         DedupeInv(out, keys, log, ix, i - 1), NEW d, d = [out |-> out, keys |-> keys],
         NEW to, to = Place(d, log, ix, i)
  PROVE  \E t, ks : to = [out |-> t, keys |-> ks] /\ DedupeInv(t, ks, log, ix, i)
<1> DEFINE known == {j \in DOMAIN keys : keys[j] = Key(ix, i)}
<1> PICK partner : partner = Partner(log, ix, i)
  OBVIOUS
<1> PICK e : e = ix[i]
  OBVIOUS
<1>1. d.out = out /\ d.keys = keys
  OBVIOUS
<1>2. \A at : [d EXCEPT !.out[at] = Joined(@, e)] = [out |-> [out EXCEPT ![at] = Joined(@, e)], keys |-> keys]
  OBVIOUS
<1>3. to = IF partner # 0 THEN Fill(d, partner, e)
           ELSE IF known # {} THEN Fill(d, Len(log) + Max(known), e)
           ELSE [d EXCEPT !.out = Append(@, ix[i]), !.keys = Append(@, Key(ix, i))]
  BY <1>1 DEF Place
<1>4. /\ Len(log) \in Nat /\ DOMAIN log = 1 .. Len(log) /\ Len(keys) \in Nat /\ DOMAIN keys = 1 .. Len(keys)
      /\ DOMAIN out = 1 .. Len(log) + Len(keys)
  <2>1. out \in Seq(Event) /\ keys \in Seq({Key(ix, j) : j \in DOMAIN ix}) /\ Len(out) = Len(log) + Len(keys)
    BY DEF DedupeInv
  <2> DEFINE S == {Key(ix, j) : j \in DOMAIN ix}
  <2>2. keys \in Seq(S)
    BY <2>1
  <2> HIDE DEF S
  <2>3. QED
    BY <2>1, <2>2
<1>5. known \subseteq 1 .. Len(keys) /\ \A q \in known : keys[q] = Key(ix, i) /\ q \in DOMAIN keys
  BY <1>4
<1>6. known = {} => \A q \in DOMAIN keys : keys[q] # Key(ix, i)
  OBVIOUS
<1> HIDE DEF known
<1>7. ASSUME NEW p \in DOMAIN out, to = Fill(d, p, e),
             \/ p \in DOMAIN log /\ partner = p
             \/ /\ p \notin DOMAIN log /\ partner = 0
                /\ \E q \in DOMAIN keys : p = Len(log) + q /\ keys[q] = Key(ix, i)
      PROVE  \E t, ks : to = [out |-> t, keys |-> ks] /\ DedupeInv(t, ks, log, ix, i)
  <2> PICK t : t = [out EXCEPT ![p] = Joined(@, ix[i])]
    OBVIOUS
  <2>1. to = [out |-> t, keys |-> keys]
    BY <1>2, <1>7 DEF Fill, Filled
  <2>2. DedupeInv(t, keys, log, ix, i)
    BY <1>7, FillKeeps
  <2>3. QED
    BY <2>1, <2>2
<1>8. CASE partner # 0
  <2> DEFINE S == {j \in DOMAIN log : Key(log, j) = Key(ix, i) /\ Fair(log, ix, j)}
  <2>1. partner = LastOf(S) /\ S \subseteq 1 .. Len(log)
    BY <1>4 DEF Partner
  <2> HIDE DEF S
  <2>2. partner \in 1 .. Len(log)
    BY <1>4, <1>8, <2>1, LastIs
  <2>3. partner \in DOMAIN out /\ partner \in DOMAIN log
    BY <1>4, <2>2
  <2>4. to = Fill(d, partner, e)
    BY <1>3, <1>8
  <2>5. QED
    BY <1>7, <2>3, <2>4
<1>9. CASE partner = 0 /\ known # {}
  <2> PICK q : q = Max(known)
    OBVIOUS
  <2>1. q \in known
    <3>1. q = LastOf(known)
      BY <1>9 DEF LastOf
    <3>2. QED
      BY <1>4, <1>5, <1>9, <3>1, LastIs
  <2>2. q \in DOMAIN keys /\ keys[q] = Key(ix, i)
    BY <1>5, <2>1
  <2> PICK p : p = Len(log) + q
    OBVIOUS
  <2>3. p \in DOMAIN out /\ p \notin DOMAIN log
    BY <1>4, <2>2
  <2>4. to = Fill(d, p, e)
    BY <1>3, <1>9
  <2>5. QED
    BY <1>7, <1>9, <2>2, <2>3, <2>4
<1>10. CASE partner = 0 /\ known = {}
  <2> PICK t : t = Append(out, ix[i])
    OBVIOUS
  <2> PICK ks : ks = Append(keys, Key(ix, i))
    OBVIOUS
  <2> PICK d1 : d1 = [d EXCEPT !.out = t]
    OBVIOUS
  <2>1. to = [d1 EXCEPT !.keys = ks]
    BY <1>1, <1>3, <1>10
  <2>2. d1 = [out |-> t, keys |-> keys]
    BY ONLY d1 = [d EXCEPT !.out = t], d = [out |-> out, keys |-> keys]
  <2>3. to = [out |-> t, keys |-> ks]
    BY ONLY <2>1, <2>2
  <2>4. DedupeInv(t, ks, log, ix, i)
    <3>1. \A f : f = Append(out, ix[i]) => \A g : g = Append(keys, Key(ix, i)) => DedupeInv(f, g, log, ix, i)
      BY <1>6, <1>10, AppendKeeps
    <3>2. QED
      BY <3>1
  <2>5. QED
    BY <2>3, <2>4
<1>11. QED
  BY <1>8, <1>9, <1>10

LEMMA PlacedUnfolds ==
  ASSUME NEW log, NEW ix, NEW N \in Nat, N = Len(ix)
  PROVE  /\ PlacedUpTo(log, ix)[0] = [out |-> log, keys |-> <<>>]
         /\ \A i \in 1 .. N : PlacedUpTo(log, ix)[i] = Place(PlacedUpTo(log, ix)[i - 1], log, ix, i)
<1> DEFINE none == [out |-> log, keys |-> <<>>]
           Goes(k, f) == f = [n \in 0 .. k |-> IF n = 0 THEN none ELSE Place(f[n - 1], log, ix, n)]
           K == {k \in 0 .. N : \E f : Goes(k, f)}
<1> HIDE DEF none
<1>2. 0 \in K
  <2>1. Goes(0, [n \in 0 .. 0 |-> none])
    OBVIOUS
  <2> HIDE DEF Goes
  <2>2. \E f : Goes(0, f)
    BY <2>1
  <2>3. QED
    BY <2>2
<1>3. ASSUME NEW k \in 1 .. N, k - 1 \in K PROVE k \in K
  <2>1. PICK f : Goes(k - 1, f)
    BY <1>3
  <2> DEFINE g == [n \in 0 .. k |-> IF n = 0 THEN none ELSE Place(f[n - 1], log, ix, n)]
  <2>2. \A n \in 0 .. k - 1 : g[n] = f[n]
    BY <2>1
  <2>3. g = [n \in 0 .. k |-> IF n = 0 THEN none ELSE Place(f[n - 1], log, ix, n)]
    OBVIOUS
  <2> HIDE DEF g
  <2>4. Goes(k, g)
    <3>1. ASSUME NEW n \in 0 .. k, n # 0 PROVE f[n - 1] = g[n - 1]
      <4>1. n - 1 \in 0 .. k - 1
        BY <3>1
      <4>2. QED
        BY <2>2, <4>1
    <3>2. QED
      BY <2>3, <3>1
  <2> HIDE DEF Goes
  <2>5. \E h : Goes(k, h)
    BY <2>4
  <2>6. QED
    BY <2>5
<1>4. 0 .. N \subseteq K
  <2> HIDE DEF K
  <2> QED
    BY ONLY N \in Nat, <1>2, <1>3, Throughout
<1>5. \E f : Goes(N, f)
  <2>1. N \in K
    BY <1>4
  <2> HIDE DEF Goes
  <2>2. QED
    BY <2>1
<1> DEFINE upTo[n \in 0 .. N] == IF n = 0 THEN none ELSE Place(upTo[n - 1], log, ix, n)
<1>6. Goes(N, upTo)
  BY <1>5
<1>7. PlacedUpTo(log, ix) = upTo
  BY DEF PlacedUpTo, none
<1> HIDE DEF upTo
<1>8. upTo[0] = none /\ \A n \in 1 .. N : upTo[n] = Place(upTo[n - 1], log, ix, n)
  BY <1>6
<1>9. QED
  BY <1>7, <1>8 DEF none

\* What Dedupe makes of two lists, whatever they are.
LEMMA Deduped ==
  ASSUME NEW log \in Seq(Event), NEW ix \in Seq(Event), NEW L, L = Len(ix)
  PROVE  \E keys : DedupeInv(Dedupe(log, ix), keys, log, ix, L)
<1> DEFINE at == PlacedUpTo(log, ix)
           Holds(n) == \E t, ks : at[n] = [out |-> t, keys |-> ks] /\ DedupeInv(t, ks, log, ix, n)
           K == {n \in 0 .. L : Holds(n)}
<1>1. L \in Nat /\ DOMAIN ix = 1 .. L
  OBVIOUS
<1>2. /\ at[0] = [out |-> log, keys |-> <<>>]
      /\ \A n \in 1 .. L : at[n] = Place(at[n - 1], log, ix, n)
  BY <1>1, PlacedUnfolds
<1> HIDE DEF at
<1>3. 0 \in K
  <2> PICK none : none = <<>>
    OBVIOUS
  <2> DEFINE S == {Key(ix, j) : j \in DOMAIN ix}
  <2>1. none \in Seq(S) /\ Len(none) = 0 /\ DOMAIN none = {} /\ Len(log) = Len(log) + Len(none)
    OBVIOUS
  <2> HIDE DEF S
  <2>2. Paired(log, log, ix, 0)
    BY DEF Paired, Carries
  <2>3. Single(log, none, log, ix, 0)
    BY <2>1 DEF Single
  <2>4. PutIn(log, ix, 0)
    BY DEF PutIn
  <2>5. DedupeInv(log, none, log, ix, 0)
    BY <2>1, <2>2, <2>3, <2>4 DEF DedupeInv, S
  <2>6. Holds(0)
    BY <1>2, <2>5
  <2>7. QED
    BY <1>1, <2>6
<1>4. ASSUME NEW n \in 1 .. L, n - 1 \in K PROVE n \in K
  <2>1. PICK t, ks : at[n - 1] = [out |-> t, keys |-> ks] /\ DedupeInv(t, ks, log, ix, n - 1)
    BY <1>4
  <2> PICK to : to = at[n]
    OBVIOUS
  <2>2. to = Place(at[n - 1], log, ix, n) /\ n \in DOMAIN ix
    BY <1>1, <1>2
  <2> PICK d : d = at[n - 1]
    OBVIOUS
  <2>3. Holds(n)
    <3>1. d = [out |-> t, keys |-> ks] /\ DedupeInv(t, ks, log, ix, n - 1) /\ to = Place(d, log, ix, n)
      BY <2>1, <2>2
    <3>2. \E s, rs : to = [out |-> s, keys |-> rs] /\ DedupeInv(s, rs, log, ix, n)
      BY ONLY log \in Seq(Event), ix \in Seq(Event), <2>2, <3>1, PlaceKeeps
    <3>3. QED
      BY <3>2
  <2> HIDE DEF Holds
  <2>4. QED
    BY <1>1, <2>3
<1>5. L \in K
  <2> HIDE DEF K
  <2>1. 0 .. L \subseteq K
    BY ONLY <1>1, <1>3, <1>4, Throughout
  <2>2. QED
    BY <1>1, <2>1
<1>6. PICK t, ks : at[L] = [out |-> t, keys |-> ks] /\ DedupeInv(t, ks, log, ix, L)
  BY <1>5
<1>7. Dedupe(log, ix) = t
  <2>1. at[L].out = t
    BY <1>6
  <2>2. QED
    BY <2>1 DEF Dedupe, at
<1>8. QED
  BY <1>6, <1>7

(***************************************************************************)
(* Occurrences                                                             *)
(***************************************************************************)

\* The executions the events with identity b tell of, in order.
Told(events, b) == {x \in DOMAIN calls : \E j \in DOMAIN events : events[j].from = {x} /\ Base(events[j]) = b}

Ordered(events, b) ==
  /\ \A j \in DOMAIN events : Base(events[j]) = b => \E x \in DOMAIN calls : events[j].from = {x}
  /\ \A i, j \in DOMAIN events : i < j /\ Base(events[i]) = b /\ Base(events[j]) = b =>
       \A x, y \in DOMAIN calls : events[i].from = {x} /\ events[j].from = {y} => x < y

\* T are the executions that the events at S tell of.
Numbers(events, b, S, T) ==
  /\ \A j \in S : j \in DOMAIN events /\ Base(events[j]) = b
  /\ \A x \in T : \E j \in S : events[j].from = {x}
  /\ \A j \in S : \A x \in DOMAIN calls : events[j].from = {x} => x \in T

LEMMA Counts ==
  ASSUME calls \in Seq(Call), NEW events \in Seq(Event), NEW b, Ordered(events, b),
         NEW S, NEW T, Numbers(events, b, S, T)
  PROVE  Cardinality(T) = Cardinality(S)
<1>0. /\ \A j \in S : j \in DOMAIN events /\ Base(events[j]) = b
      /\ \A x \in T : \E j \in S : events[j].from = {x}
      /\ \A j \in S : \A x \in DOMAIN calls : events[j].from = {x} => x \in T
  BY DEF Numbers
<1>1. Len(events) \in Nat /\ DOMAIN events = 1 .. Len(events)
  OBVIOUS
<1>2. IsFiniteSet(S)
  <2>1. S \in SUBSET (1 .. Len(events))
    BY <1>0, <1>1
  <2>2. IsFiniteSet(1 .. Len(events))
    BY <1>1, FS_Interval
  <2>3. QED
    BY <2>1, <2>2, FS_Subset
<1> DEFINE f == [j \in S |-> CHOOSE x \in DOMAIN calls : events[j].from = {x}]
<1>3. \A j \in S : f[j] \in DOMAIN calls /\ events[j].from = {f[j]}
  BY <1>0 DEF Ordered
<1>4. \A i, j \in S : f[i] = f[j] => i = j
  <2> SUFFICES ASSUME NEW i \in S, NEW j \in S, f[i] = f[j] PROVE i = j
    OBVIOUS
  <2> HIDE DEF f
  <2>1. i \in 1 .. Len(events) /\ j \in 1 .. Len(events)
    BY <1>0, <1>1
  <2>2. f[i] \in Nat /\ f[j] \in Nat
    BY <1>3
  <2>3. ~(i < j) /\ ~(j < i)
    <3>1. ASSUME NEW k \in S, NEW l \in S, k < l PROVE f[k] < f[l]
      <4>1. /\ k \in DOMAIN events /\ l \in DOMAIN events /\ Base(events[k]) = b /\ Base(events[l]) = b
            /\ f[k] \in DOMAIN calls /\ f[l] \in DOMAIN calls
            /\ events[k].from = {f[k]} /\ events[l].from = {f[l]}
        BY <1>0, <1>3
      <4>2. QED
        BY <3>1, <4>1 DEF Ordered
    <3>2. ~(f[i] < f[j]) /\ ~(f[j] < f[i])
      BY ONLY <2>2, f[i] = f[j]
    <3>3. QED
      BY <3>1, <3>2
  <2>4. QED
    BY <1>1, <2>1, <2>3
<1>5. f \in [S -> T]
  <2>1. \A j \in S : f[j] \in T
    BY <1>0, <1>3
  <2>2. QED
    BY <2>1
<1>6. \A x \in T : \E j \in S : f[j] = x
  <2> HIDE DEF f
  <2> SUFFICES ASSUME NEW x \in T PROVE \E j \in S : f[j] = x
    OBVIOUS
  <2>1. PICK j \in S : events[j].from = {x}
    BY <1>0
  <2>2. {f[j]} = {x}
    BY <1>3, <2>1
  <2>3. QED
    BY <2>2
<1> HIDE DEF f
<1>7. QED
  BY <1>2, <1>4, <1>5, <1>6, SameSize

\* The number of an event among its equals is the rank of its execution.
TellsAt(events, i, b, x) ==
  i \in DOMAIN events /\ b = Base(events[i]) /\ x \in DOMAIN calls /\ events[i].from = {x}

HasRank(events, i, b, x) ==
  /\ Times(events, i, events[i]) = Cardinality({y \in Told(events, b) : y <= x})
  /\ Times(events, Len(events), events[i]) = Cardinality(Told(events, b))
  /\ x \in Told(events, b)

LEMMA Ranked ==
  ASSUME calls \in Seq(Call), NEW events \in Seq(Event), NEW i, NEW b, NEW x, TellsAt(events, i, b, x),
         Ordered(events, b)
  PROVE  HasRank(events, i, b, x)
<1>0. i \in DOMAIN events /\ b = Base(events[i]) /\ x \in DOMAIN calls /\ events[i].from = {x}
  BY DEF TellsAt
<1>1. Len(events) \in Nat /\ DOMAIN events = 1 .. Len(events) /\ i \in Nat
  BY <1>0
<1>2. DOMAIN calls = 1 .. Len(calls) /\ Len(calls) \in Nat /\ x \in Nat
  BY <1>0
<1>3. x \in Told(events, b)
  BY <1>0 DEF Told
<1>4. Times(events, Len(events), events[i]) = Cardinality(Told(events, b))
  <2> DEFINE S == {j \in 1 .. Len(events) : Base(events[j]) = b}
             T == Told(events, b)
  <2>1. \A j \in S : j \in DOMAIN events /\ Base(events[j]) = b
    BY <1>1
  <2>2. \A y \in T : \E j \in S : events[j].from = {y}
    BY <1>0, <1>1 DEF Told
  <2>3. \A j \in S : \A y \in DOMAIN calls : events[j].from = {y} => y \in T
    BY <1>0, <1>1 DEF Told
  <2>4. Times(events, Len(events), events[i]) = Cardinality(S)
    BY <1>0 DEF Times
  <2> HIDE DEF S, T
  <2>5. Numbers(events, b, S, T)
    BY <2>1, <2>2, <2>3 DEF Numbers
  <2>6. Cardinality(T) = Cardinality(S)
    BY <2>5, Counts
  <2>7. QED
    BY <2>4, <2>6 DEF T
<1>5. Times(events, i, events[i]) = Cardinality({y \in Told(events, b) : y <= x})
  <2> DEFINE S == {j \in 1 .. i : Base(events[j]) = b}
             T == {y \in Told(events, b) : y <= x}
  <2>1. \A j \in S : j \in DOMAIN events /\ Base(events[j]) = b /\ (j < i \/ j = i)
    BY <1>0, <1>1
  <2>2. ASSUME NEW y \in T PROVE \E j \in S : events[j].from = {y}
    <3>1. y \in DOMAIN calls /\ y <= x
      BY DEF Told
    <3>2. PICK j \in DOMAIN events : events[j].from = {y} /\ Base(events[j]) = b
      BY DEF Told
    <3>3. CASE i < j
      <4>1. x < y
        BY <1>0, <3>1, <3>2, <3>3 DEF Ordered
      <4>2. x \in Nat /\ y \in Nat
        BY <1>2, <3>1
      <4>3. QED
        BY ONLY <3>1, <4>1, <4>2
    <3>4. CASE ~(i < j)
      <4>1. j \in 1 .. i
        BY <1>1, <3>4
      <4>2. QED
        BY <3>2, <4>1
    <3>5. QED
      BY <3>3, <3>4
  <2>3. ASSUME NEW j \in S, NEW y \in DOMAIN calls, events[j].from = {y} PROVE y \in T
    <3>1. j \in DOMAIN events /\ Base(events[j]) = b /\ (j < i \/ j = i)
      BY <2>1
    <3>2. y \in Told(events, b)
      BY <2>3, <3>1 DEF Told
    <3>3. CASE j = i
      <4>1. {y} = {x}
        BY <1>0, <2>3, <3>3
      <4>2. y = x
        BY ONLY <4>1
      <4>3. y <= x
        BY <1>2, <4>2
      <4>4. QED
        BY <3>2, <4>3
    <3>4. CASE j < i
      <4>1. y < x
        BY <1>0, <2>3, <3>1, <3>4 DEF Ordered
      <4>2. y <= x
        BY <1>2, <4>1
      <4>3. QED
        BY <3>2, <4>2
    <3>5. QED
      BY <3>1, <3>3, <3>4
  <2>4. Times(events, i, events[i]) = Cardinality(S)
    BY <1>0 DEF Times
  <2> HIDE DEF S, T
  <2>5. Numbers(events, b, S, T)
    BY <2>1, <2>2, <2>3 DEF Numbers
  <2>6. Cardinality(T) = Cardinality(S)
    BY <2>5, Counts
  <2>7. QED
    BY <2>4, <2>6 DEF T
<1>6. QED
  BY <1>3, <1>4, <1>5 DEF HasRank

\* Events of equal number among their equals, of lists of which one tells of all the
\* other does and that are equally long, are of the same execution.
LEMMA SameExecution ==
  ASSUME calls \in Seq(Call), NEW log \in Seq(Event), NEW ix \in Seq(Event),
         NEW j \in DOMAIN log, NEW i \in DOMAIN ix, Counted(log[j]),
         Key(log, j) = Key(ix, i), Fair(log, ix, j), NEW b, b = Base(ix[i]), Ordered(log, b), Ordered(ix, b),
         Told(log, b) \subseteq Told(ix, b) \/ Told(ix, b) \subseteq Told(log, b),
         NEW x \in DOMAIN calls, NEW y \in DOMAIN calls, log[j].from = {x}, ix[i].from = {y}
  PROVE  x = y
<1> DEFINE X == Told(log, b)
           Y == Told(ix, b)
<1>1. b = Base(log[j]) /\ Counted(ix[i])
  <2>1. Base(log[j]) = Base(ix[i])
    BY DEF Key
  <2>2. log[j].kind = ix[i].kind
    BY <2>1 DEF Base
  <2>3. QED
    BY <2>1, <2>2 DEF Counted
<1>2. Times(log, j, log[j]) = Times(ix, i, ix[i])
  BY <1>1 DEF Key
<1>3. Times(log, Len(log), log[j]) = Times(ix, Len(ix), ix[i])
  BY <1>1 DEF Fair, Times
<1>4. /\ Times(log, j, log[j]) = Cardinality({z \in X : z <= x}) /\ Times(log, Len(log), log[j]) = Cardinality(X)
      /\ x \in X
  <2>1. TellsAt(log, j, b, x)
    BY <1>1 DEF TellsAt
  <2>2. HasRank(log, j, b, x)
    BY <2>1, Ranked
  <2>3. QED
    BY <2>2 DEF HasRank
<1>5. /\ Times(ix, i, ix[i]) = Cardinality({z \in Y : z <= y}) /\ Times(ix, Len(ix), ix[i]) = Cardinality(Y)
      /\ y \in Y
  <2>1. TellsAt(ix, i, b, y)
    BY DEF TellsAt
  <2>2. HasRank(ix, i, b, y)
    BY <2>1, Ranked
  <2>3. QED
    BY <2>2 DEF HasRank
<1>6. Len(calls) \in Nat /\ X \subseteq 1 .. Len(calls) /\ Y \subseteq 1 .. Len(calls)
  BY DEF Told
<1> HIDE DEF X, Y
<1>7. IsFiniteSet(X) /\ IsFiniteSet(Y)
  <2>1. IsFiniteSet(1 .. Len(calls))
    BY <1>6, FS_Interval
  <2>2. X \in SUBSET (1 .. Len(calls)) /\ Y \in SUBSET (1 .. Len(calls))
    BY <1>6
  <2>3. QED
    BY <2>1, <2>2, FS_Subset
<1>8. X = Y
  <2>1. Cardinality(X) = Cardinality(Y)
    BY <1>3, <1>4, <1>5
  <2>2. CASE X \subseteq Y
    BY <1>7, <2>1, <2>2, FS_Subset
  <2>3. CASE Y \subseteq X
    BY <1>7, <2>1, <2>3, FS_Subset
  <2>4. QED
    BY <2>2, <2>3 DEF X, Y
<1>9. Cardinality({z \in Y : z <= x}) = Cardinality({z \in Y : z <= y})
  BY <1>2, <1>4, <1>5, <1>8
<1>10. x \in Y
  BY <1>4, <1>8
<1>11. QED
  BY ONLY <1>5, <1>6, <1>9, <1>10, SameRank

\* And the other way round: where both lists tell of the same, the partner is there.
LEMMA PartnerThere ==
  ASSUME calls \in Seq(Call), NEW log \in Seq(Event), NEW ix \in Seq(Event),
         NEW j \in DOMAIN log, NEW i \in DOMAIN ix, NEW b, b = Base(ix[i]), b = Base(log[j]),
         Counted(ix[i]) => Ordered(log, b) /\ Ordered(ix, b) /\ Told(log, b) = Told(ix, b),
         NEW x \in DOMAIN calls, log[j].from = {x}, ix[i].from = {x}
  PROVE  Partner(log, ix, i) # 0
<1>1. Counted(log[j]) <=> Counted(ix[i])
  <2>1. log[j].kind = ix[i].kind
    BY DEF Base
  <2>2. QED
    BY <2>1 DEF Counted
<1>2. Key(log, j) = Key(ix, i) /\ Fair(log, ix, j)
  <2>1. CASE ~Counted(ix[i])
    BY <1>1, <2>1 DEF Key, Fair
  <2>2. CASE Counted(ix[i])
    <3>1. /\ Times(log, j, log[j]) = Cardinality({z \in Told(log, b) : z <= x})
          /\ Times(log, Len(log), log[j]) = Cardinality(Told(log, b))
      <4>1. TellsAt(log, j, b, x)
        BY DEF TellsAt
      <4>2. HasRank(log, j, b, x)
        BY <2>2, <4>1, Ranked
      <4>3. QED
        BY <4>2 DEF HasRank
    <3>2. /\ Times(ix, i, ix[i]) = Cardinality({z \in Told(ix, b) : z <= x})
          /\ Times(ix, Len(ix), ix[i]) = Cardinality(Told(ix, b))
      <4>1. TellsAt(ix, i, b, x)
        BY DEF TellsAt
      <4>2. HasRank(ix, i, b, x)
        BY <2>2, <4>1, Ranked
      <4>3. QED
        BY <4>2 DEF HasRank
    <3>3. Key(log, j) = Key(ix, i)
      BY <1>1, <2>2, <3>1, <3>2 DEF Key
    <3>4. Times(ix, Len(ix), log[j]) = Times(ix, Len(ix), ix[i])
      BY DEF Times
    <3>5. Fair(log, ix, j)
      BY <2>2, <3>1, <3>2, <3>4 DEF Fair
    <3>6. QED
      BY <3>3, <3>5
  <2>3. QED
    BY <2>1, <2>2
<1> DEFINE S == {k \in DOMAIN log : Key(log, k) = Key(ix, i) /\ Fair(log, ix, k)}
<1>3. j \in S /\ Partner(log, ix, i) = LastOf(S) /\ S \subseteq 1 .. Len(log) /\ Len(log) \in Nat
  BY <1>2 DEF Partner
<1> HIDE DEF S
<1>4. LastOf(S) \in S
  BY <1>3, LastIs
<1>5. LastOf(S) \in 1 .. Len(log)
  BY <1>3, <1>4
<1>6. QED
  BY <1>3, <1>5

(***************************************************************************)
(* What the two lists tell of                                              *)
(***************************************************************************)

Reports(e, x) ==
  /\ x \in Executed /\ x \in DOMAIN calls /\ HasLog(calls[x].kind)
  /\ e.from = {x} /\ e.kind = calls[x].kind /\ e.key = calls[x].key /\ e.amounts = "executed"
  /\ lost = 0 \/ LosesTail => e.router \in {Nothing, calls[x].outer}
  /\ lost = 0 => e.router = Router(calls[x].kind, calls[x].outer)

\* The log events: each of an execution, in order, and without loss of all that are logged.
Reported(log) ==
  /\ log \in Seq(Event)
  /\ \A j \in DOMAIN log : \E x : Reports(log[j], x)
  /\ \A i, j \in DOMAIN log : i < j => \A x, y : log[i].from = {x} /\ log[j].from = {y} => x < y
  /\ lost = 0 => \A x \in Executed : HasLog(calls[x].kind) => \E j \in DOMAIN log : log[j].from = {x}

\* The instruction events: each of an execution, in order, of all that the decoders know.
Instructed(ix) ==
  /\ ix \in Seq(Event)
  /\ \A k \in DOMAIN ix : \E x : x \in Executed /\ Tells(ix[k], x)
  /\ InOrder(ix)
  /\ \A x \in Executed : calls[x].known \/ HasCpi(calls[x].kind) => \E k \in DOMAIN ix : ix[k].from = {x}
  /\ \A x \in Executed : calls[x].known => \E k \in DOMAIN ix : ix[k].from = {x} /\ ix[k].accounts
  /\ \A k \in DOMAIN ix : ix[k].kind = "dlmm" => ix[k].amounts = "executed"

LEMMA LogsReported ==
  ASSUME IInv, stack = <<>>, NEW log, log = LogEvents
  PROVE  Reported(log)
<1>1. ScanTrue(log, Len(logs)) /\ logs \in Seq(LogLine)
  BY LogsScanned DEF IInv, CallInv, TypeOK
<1>2. \A k \in 1 .. Len(logs) : k \in DOMAIN logs
  BY <1>1
<1>3. ASSUME NEW k \in DOMAIN logs, IsData(k) PROVE Reports(LogEvent(k), logs[k].id) /\ LogEvent(k).from = {logs[k].id}
  <2> PICK x : x = logs[k].id
    OBVIOUS
  <2> PICK e : e = LogEvent(k)
    OBVIOUS
  <2>1. /\ x \in DOMAIN calls /\ x \in emitted /\ IsPlain(x) /\ calls[x].kind # "router" /\ HasLog(calls[x].kind)
        /\ e \in Event /\ e.from = {x} /\ e.kind = calls[x].kind /\ e.key = calls[x].key
        /\ e.amounts = "executed"
        /\ lost = 0 \/ LosesTail => e.router \in {Nothing, calls[x].outer}
        /\ lost = 0 => e.router = Router(calls[x].kind, calls[x].outer)
    BY <1>3, LogEventTrue
  <2>2. x \in Executed
    BY <2>1 DEF Executed, IsPlain
  <2>3. QED
    BY <2>1, <2>2 DEF Reports
<1>4. \A j \in DOMAIN log : \E x : Reports(log[j], x)
  <2> SUFFICES ASSUME NEW j \in DOMAIN log PROVE \E x : Reports(log[j], x)
    OBVIOUS
  <2>1. PICK k \in 1 .. Len(logs) : IsData(k) /\ log[j] = LogEvent(k)
    BY <1>1 DEF ScanTrue
  <2>2. Reports(log[j], logs[k].id)
    BY <1>2, <1>3, <2>1
  <2>3. QED
    BY <2>2
<1>5. ASSUME NEW i \in DOMAIN log, NEW j \in DOMAIN log, i < j, NEW x, NEW y, log[i].from = {x}, log[j].from = {y}
      PROVE  x < y
  <2>1. PICK k \in 1 .. Len(logs), l \in 1 .. Len(logs) :
          k < l /\ IsData(k) /\ IsData(l) /\ log[i] = LogEvent(k) /\ log[j] = LogEvent(l)
    BY <1>1, <1>5 DEF ScanTrue
  <2>2. log[i].from = {logs[k].id} /\ log[j].from = {logs[l].id}
    BY <1>2, <1>3, <2>1
  <2>3. x = logs[k].id /\ y = logs[l].id
    <3>1. {x} = {logs[k].id} /\ {y} = {logs[l].id}
      BY <1>5, <2>2
    <3>2. QED
      BY ONLY <3>1
  <2>4. logs[k].id < logs[l].id
    BY <1>2, <2>1 DEF IInv, LineInv, LinesAscend
  <2>5. QED
    BY <2>3, <2>4
<1>6. ASSUME lost = 0, NEW x \in Executed, HasLog(calls[x].kind) PROVE \E j \in DOMAIN log : log[j].from = {x}
  <2>1. x \in emitted
    BY WholeAtTheEnd DEF IInv, Executed, IsPlain
  <2>2. PICK k \in DOMAIN logs : IsData(k) /\ logs[k].id = x
    BY <1>6, <2>1 DEF IInv, LineInv, LinesComplete
  <2>3. PICK j \in DOMAIN log : log[j] = LogEvent(k)
    BY <1>6, <2>2, LogsScanned
  <2>4. QED
    BY <1>3, <2>2, <2>3
<1>7. log \in Seq(Event)
  BY <1>1 DEF ScanTrue
<1>8. \A i, j \in DOMAIN log : i < j => \A x, y : log[i].from = {x} /\ log[j].from = {y} => x < y
  BY <1>5
<1>9. lost = 0 => \A x \in Executed : HasLog(calls[x].kind) => \E j \in DOMAIN log : log[j].from = {x}
  BY <1>6
<1>10. QED
  BY ONLY <1>4, <1>7, <1>8, <1>9 DEF Reported

LEMMA AllInstructed ==
  ASSUME CallInv, stack = <<>>, NEW heights \in BOOLEAN, NEW ix, ix = InstructionEvents(heights)
  PROVE  Instructed(ix)
<1> PICK L : L = Len(calls)
  OBVIOUS
<1>1. Whole /\ calls \in Seq(Call) /\ L \in Nat /\ DOMAIN calls = 1 .. L
  BY WholeAtTheEnd DEF CallInv, TypeOK
<1>2. OutInv(ix, L)
  BY <1>1, InstructionsMerged
<1>3. ASSUME NEW k \in DOMAIN ix PROVE \E x : x \in Executed /\ Tells(ix[k], x)
  <2>1. PICK x \in 1 .. L : Tells(ix[k], x)
    BY <1>2 DEF OutInv, Sourced
  <2>2. x \in Executed
    BY <2>1 DEF Tells, Executed, IsPlain
  <2>3. QED
    BY <2>1, <2>2
<1>4. ASSUME NEW x \in Executed
      PROVE  x \in 1 .. L /\ IsPlain(x) /\ calls[x].kind # "router" /\ x \in DOMAIN calls
             /\ (HasCpi(calls[x].kind) => x + 1 \in 1 .. L /\ IsItem(x + 1) /\ Own(x + 1) = x)
  <2>1. x \in 1 .. L /\ IsPlain(x) /\ calls[x].kind # "router" /\ x \in DOMAIN calls
    BY <1>1 DEF Executed, IsPlain
  <2>2. ASSUME HasCpi(calls[x].kind) PROVE x + 1 \in 1 .. L /\ IsItem(x + 1) /\ Own(x + 1) = x
    <3>1. x + 1 \in DOMAIN calls /\ calls[x + 1].of = x
      BY <1>1, <2>1, <2>2 DEF Whole, Complete
    <3>2. IsCpi(x + 1) /\ ~IsPlain(x + 1) /\ x + 1 - 1 = x
      BY <1>1, <2>1, <3>1 DEF IsCpi, IsPlain, Nothing
    <3>3. calls[x + 1].known /\ calls[x + 1].kind = calls[x].kind
      BY <3>1, <3>2 DEF CallInv, CpiFollows
    <3>4. QED
      BY <1>1, <2>1, <3>1, <3>2, <3>3 DEF IsItem, Own
  <2>3. QED
    BY <2>1, <2>2
<1>5. ASSUME NEW x \in Executed, calls[x].known PROVE \E k \in DOMAIN ix : ix[k].from = {x} /\ ix[k].accounts
  <2>1. x \in 1 .. L /\ IsItem(x) /\ IsPlain(x) /\ Own(x) = x
    BY <1>4, <1>5 DEF IsItem, Own
  <2>2. QED
    BY <1>2, <2>1 DEF OutInv, Covered
<1>6. ASSUME NEW x \in Executed, HasCpi(calls[x].kind) PROVE \E k \in DOMAIN ix : ix[k].from = {x}
  <2>1. x + 1 \in 1 .. L /\ IsItem(x + 1) /\ Own(x + 1) = x
    BY <1>4, <1>6
  <2>2. \E k \in DOMAIN ix : ix[k].from = {Own(x + 1)}
    BY <1>2, <2>1 DEF OutInv, Covered
  <2>3. QED
    BY <2>1, <2>2
<1>7. ASSUME NEW k \in DOMAIN ix, ix[k].kind = "dlmm" PROVE ix[k].amounts = "executed"
  <2>1. PICK x : x \in Executed /\ Tells(ix[k], x)
    BY <1>3
  <2>2. ix[k].from = {x} /\ calls[x].kind = "dlmm"
    BY <1>7, <2>1 DEF Tells
  <2>3. HasCpi(calls[x].kind)
    BY <2>2 DEF HasCpi
  <2>4. x \in 1 .. L /\ x + 1 \in 1 .. L
    BY <1>4, <2>1, <2>3
  <2>5. x \in 1 .. L - 1
    BY <1>1, <2>4
  <2>6. QED
    BY <1>2, <1>7, <2>2, <2>5 DEF OutInv, DlmmExecuted
<1>8. QED
  BY <1>2, <1>3, <1>5, <1>6, <1>7 DEF Instructed, OutInv

\* The identity of an execution.
Id(x) == <<calls[x].kind, calls[x].key>>

LEMMA Identified ==
  ASSUME NEW e, NEW x, e.kind = calls[x].kind, e.key = calls[x].key
  PROVE  Base(e) = Id(x)
BY DEF Base, Id

LEMMA LogOrdered ==
  ASSUME NEW log, Reported(log), NEW b
  PROVE  Ordered(log, b)
<1>1. ASSUME NEW j \in DOMAIN log PROVE \E x \in DOMAIN calls : log[j].from = {x}
  <2>1. PICK x : Reports(log[j], x)
    BY DEF Reported
  <2>2. QED
    BY <2>1 DEF Reports
<1>2. QED
  BY <1>1 DEF Ordered, Reported

LEMMA InstructionsOrdered ==
  ASSUME NEW ix, Instructed(ix), NEW b, \A x \in Executed : Id(x) = b => calls[x].kind # "create"
  PROVE  Ordered(ix, b)
<1>1. ASSUME NEW k \in DOMAIN ix PROVE \E x \in DOMAIN calls : x \in Executed /\ ix[k].from = {x} /\ Base(ix[k]) = Id(x)
  <2>1. PICK x : x \in Executed /\ Tells(ix[k], x)
    BY DEF Instructed
  <2>2. Base(ix[k]) = Id(x)
    BY <2>1, Identified DEF Tells
  <2>3. QED
    BY <2>1, <2>2 DEF Tells
<1>2. ASSUME NEW i \in DOMAIN ix, NEW j \in DOMAIN ix, i < j, Base(ix[i]) = b, Base(ix[j]) = b,
             NEW x \in DOMAIN calls, NEW y \in DOMAIN calls, ix[i].from = {x}, ix[j].from = {y}
      PROVE  x < y
  <2>1. x < y \/ (x = y /\ calls[x].kind = "create")
    BY <1>2 DEF Instructed, InOrder
  <2>2. PICK z \in DOMAIN calls : z \in Executed /\ ix[i].from = {z} /\ Base(ix[i]) = Id(z)
    BY <1>1
  <2>3. z = x
    <3>1. {z} = {x}
      BY <1>2, <2>2
    <3>2. QED
      BY ONLY <3>1
  <2>4. calls[x].kind # "create"
    BY <1>2, <2>2, <2>3
  <2>5. QED
    BY <2>1, <2>4
<1>3. QED
  BY <1>1, <1>2 DEF Ordered

LEMMA LogsInstructed ==
  ASSUME NEW log, NEW ix, Reported(log), Instructed(ix), NEW b,
         \A x \in Executed : Id(x) = b => calls[x].known \/ HasCpi(calls[x].kind)
  PROVE  Told(log, b) \subseteq Told(ix, b)
<1> SUFFICES ASSUME NEW y \in Told(log, b) PROVE y \in Told(ix, b)
  OBVIOUS
<1>1. PICK j \in DOMAIN log : log[j].from = {y} /\ Base(log[j]) = b /\ y \in DOMAIN calls
  BY DEF Told
<1>2. PICK x : Reports(log[j], x)
  BY DEF Reported
<1>3. x = y
  <2>1. {x} = {y}
    BY <1>1, <1>2 DEF Reports
  <2>2. QED
    BY ONLY <2>1
<1>4. y \in Executed /\ Id(y) = b
  BY <1>1, <1>2, <1>3, Identified DEF Reports
<1>5. PICK k \in DOMAIN ix : ix[k].from = {y}
  BY <1>4 DEF Instructed
<1>6. PICK z : Tells(ix[k], z)
  BY DEF Instructed
<1>7. z = y
  <2>1. {z} = {y}
    BY <1>5, <1>6 DEF Tells
  <2>2. QED
    BY ONLY <2>1
<1>8. Base(ix[k]) = b
  BY <1>4, <1>6, <1>7, Identified DEF Tells
<1>9. QED
  BY <1>1, <1>5, <1>8 DEF Told

LEMMA InstructionsLogged ==
  ASSUME NEW log, NEW ix, Reported(log), Instructed(ix), NEW b, lost = 0,
         \A x \in Executed : Id(x) = b => HasLog(calls[x].kind)
  PROVE  Told(ix, b) \subseteq Told(log, b)
<1> SUFFICES ASSUME NEW y \in Told(ix, b) PROVE y \in Told(log, b)
  OBVIOUS
<1>1. PICK k \in DOMAIN ix : ix[k].from = {y} /\ Base(ix[k]) = b /\ y \in DOMAIN calls
  BY DEF Told
<1>2. PICK x : x \in Executed /\ Tells(ix[k], x)
  BY DEF Instructed
<1>3. x = y
  <2>1. {x} = {y}
    BY <1>1, <1>2 DEF Tells
  <2>2. QED
    BY ONLY <2>1
<1>4. y \in Executed /\ Id(y) = b
  BY <1>1, <1>2, <1>3, Identified DEF Tells
<1>5. PICK j \in DOMAIN log : log[j].from = {y}
  BY <1>4 DEF Reported
<1>6. PICK z : Reports(log[j], z)
  BY DEF Reported
<1>7. z = y
  <2>1. {z} = {y}
    BY <1>5, <1>6 DEF Reports
  <2>2. QED
    BY ONLY <2>1
<1>8. Base(log[j]) = b
  BY <1>4, <1>6, <1>7, Identified DEF Reports
<1>9. QED
  BY <1>1, <1>5, <1>8 DEF Told

(***************************************************************************)
(* What the merged events tell of                                          *)
(***************************************************************************)

MergeOf(out, keys, log, ix) ==
  CallInv /\ Reported(log) /\ Instructed(ix) /\ DedupeInv(out, keys, log, ix, Len(ix))

AllKnown == \A c \in DOMAIN calls : calls[c].known

\* The one case in which events can be of different executions.
Uncertain(kind) == kind = "swap" /\ lost # 0 /\ ~AllKnown

LEMMA SameId ==
  ASSUME NEW x, NEW y, Id(x) = Id(y)
  PROVE  calls[x].kind = calls[y].kind /\ calls[x].key = calls[y].key
BY DEF Id

LEMMA CreatesSame ==
  ASSUME CallInv, NEW x \in Executed, NEW y \in Executed, Id(x) = Id(y), calls[x].kind = "create"
  PROVE  x = y
<1>1. calls[x].kind = calls[y].kind /\ calls[x].key = calls[y].key
  BY SameId
<1>2. QED
  BY <1>1 DEF CallInv, CreatedOnce, Executed, IsPlain

LEMMA KeyParts ==
  ASSUME NEW s, NEW t, NEW i, NEW j, Key(s, i) = Key(t, j)
  PROVE  /\ Base(s[i]) = Base(t[j]) /\ s[i].kind = t[j].kind
         /\ Counted(s[i]) => Times(s, i, s[i]) = Times(t, j, t[j])
<1>1. Base(s[i]) = Base(t[j])
  BY DEF Key
<1>2. s[i].kind = t[j].kind
  BY <1>1 DEF Base
<1>3. Counted(s[i]) <=> Counted(t[j])
  BY <1>2 DEF Counted
<1>4. QED
  BY <1>1, <1>2, <1>3 DEF Key

RankIn(S, x) == Cardinality({z \in S : z <= x})

LEMMA RankSame ==
  ASSUME NEW N \in Nat, NEW S, S \subseteq 1 .. N, NEW x \in S, NEW y \in S, RankIn(S, x) = RankIn(S, y)
  PROVE  x = y
<1>1. Cardinality({z \in S : z <= x}) = Cardinality({z \in S : z <= y})
  BY DEF RankIn
<1>2. QED
  BY <1>1, SameRank

\* Instruction events of one key are of one execution.
LEMMA KeySame ==
  ASSUME CallInv, NEW ix, Instructed(ix), NEW i \in DOMAIN ix, NEW j \in DOMAIN ix, Key(ix, i) = Key(ix, j),
         NEW x \in Executed, NEW y \in Executed, Tells(ix[i], x), Tells(ix[j], y)
  PROVE  x = y
<1> PICK b : b = Base(ix[i])
  OBVIOUS
<1>1. Base(ix[i]) = Base(ix[j]) /\ Id(x) = b /\ Id(y) = b /\ Id(x) = Id(y)
  BY KeyParts, Identified DEF Tells
<1>2. CASE calls[x].kind = "create"
  BY <1>1, <1>2, CreatesSame
<1>3. CASE calls[x].kind # "create"
  <2>1. Ordered(ix, b)
    <3>1. \A z \in Executed : Id(z) = b => calls[z].kind # "create"
      BY <1>1, <1>3, SameId
    <3>2. QED
      BY <3>1, InstructionsOrdered
  <2>2. calls \in Seq(Call) /\ ix \in Seq(Event)
    BY DEF CallInv, TypeOK, Instructed
  <2>3. TellsAt(ix, i, b, x) /\ TellsAt(ix, j, b, y)
    BY <1>1 DEF TellsAt, Tells
  <2>4. HasRank(ix, i, b, x) /\ HasRank(ix, j, b, y)
    BY <2>1, <2>2, <2>3, Ranked
  <2>5. Counted(ix[i])
    BY <1>3 DEF Counted, Tells
  <2>6. Times(ix, i, ix[i]) = Times(ix, j, ix[j])
    BY <2>5, KeyParts
  <2> DEFINE T == Told(ix, b)
  <2>7. Cardinality({z \in T : z <= x}) = Cardinality({z \in T : z <= y}) /\ x \in T /\ y \in T
    BY <2>4, <2>6 DEF HasRank
  <2>8. Len(calls) \in Nat /\ T \subseteq 1 .. Len(calls)
    BY <2>2 DEF Told
  <2> HIDE DEF T
  <2>9. x \in T /\ y \in T
    BY <2>7
  <2>10. RankIn(T, x) = RankIn(T, y)
    BY <2>7 DEF RankIn
  <2>11. QED
    BY ONLY <2>8, <2>9, <2>10, RankSame
<1>4. QED
  BY <1>2, <1>3

LEMMA PartnerIs ==
  ASSUME NEW log \in Seq(Event), NEW ix, NEW i, NEW j, j = Partner(log, ix, i), j # 0
  PROVE  j \in DOMAIN log /\ Key(log, j) = Key(ix, i) /\ Fair(log, ix, j)
<1> DEFINE S == {k \in DOMAIN log : Key(log, k) = Key(ix, i) /\ Fair(log, ix, k)}
<1>1. j = LastOf(S) /\ S \subseteq 1 .. Len(log) /\ Len(log) \in Nat
  BY DEF Partner
<1> HIDE DEF S
<1>2. j \in S
  BY <1>1, LastIs
<1>3. QED
  BY <1>2 DEF S

\* An event of the logs and its partner are of one execution.
LEMMA PartnerSame ==
  ASSUME CallInv, NEW log, NEW ix, Reported(log), Instructed(ix), NEW i \in DOMAIN ix,
         NEW j, j = Partner(log, ix, i), j # 0,
         NEW x, Reports(log[j], x), NEW y \in Executed, Tells(ix[i], y)
  PROVE  x = y \/ Uncertain(calls[x].kind)
<1> PICK b : b = Base(ix[i])
  OBVIOUS
<1>1. log \in Seq(Event) /\ ix \in Seq(Event) /\ calls \in Seq(Call)
  BY DEF CallInv, TypeOK, Instructed, Reported
<1>2. j \in DOMAIN log /\ Key(log, j) = Key(ix, i) /\ Fair(log, ix, j)
  BY <1>1, PartnerIs
<1>3. /\ x \in Executed /\ x \in DOMAIN calls /\ y \in DOMAIN calls /\ log[j].from = {x} /\ ix[i].from = {y}
      /\ HasLog(calls[x].kind) /\ log[j].kind = calls[x].kind
  BY DEF Reports, Tells
<1>4. Base(log[j]) = Base(ix[i]) /\ Id(x) = b /\ Id(y) = b /\ Id(x) = Id(y)
  <2>1. Base(log[j]) = Base(ix[i])
    BY <1>2, KeyParts
  <2>2. Id(x) = Base(log[j]) /\ Id(y) = Base(ix[i])
    BY Identified DEF Reports, Tells
  <2>3. QED
    BY <2>1, <2>2
<1>5. CASE calls[x].kind = "create"
  BY <1>3, <1>4, <1>5, CreatesSame
<1>6. ASSUME calls[x].kind # "create",
             Told(log, b) \subseteq Told(ix, b) \/ Told(ix, b) \subseteq Told(log, b)
      PROVE  x = y
  <2>1. Ordered(log, b)
    BY LogOrdered
  <2>2. Ordered(ix, b)
    <3>1. \A z \in Executed : Id(z) = b => calls[z].kind # "create"
      BY <1>4, <1>6, SameId
    <3>2. QED
      BY <3>1, InstructionsOrdered
  <2>3. Counted(log[j])
    BY <1>3, <1>6 DEF Counted
  <2>4. /\ calls \in Seq(Call) /\ log \in Seq(Event) /\ ix \in Seq(Event) /\ j \in DOMAIN log /\ i \in DOMAIN ix
        /\ Key(log, j) = Key(ix, i) /\ Fair(log, ix, j) /\ b = Base(ix[i])
        /\ x \in DOMAIN calls /\ y \in DOMAIN calls /\ log[j].from = {x} /\ ix[i].from = {y}
    BY <1>1, <1>2, <1>3
  <2>5. Told(log, b) \subseteq Told(ix, b) \/ Told(ix, b) \subseteq Told(log, b)
    BY <1>6
  <2>6. QED
    BY ONLY <2>1, <2>2, <2>3, <2>4, <2>5, SameExecution
<1>7. CASE calls[x].kind = "trade"
  <2>1. \A z \in Executed : Id(z) = b => calls[z].known \/ HasCpi(calls[z].kind)
    BY <1>4, <1>7, SameId DEF HasCpi
  <2>2. Told(log, b) \subseteq Told(ix, b)
    BY <2>1, LogsInstructed
  <2>3. QED
    BY <1>6, <1>7, <2>2
<1>8. CASE calls[x].kind = "swap" /\ AllKnown
  <2>1. \A z \in Executed : Id(z) = b => calls[z].known \/ HasCpi(calls[z].kind)
    BY <1>8 DEF AllKnown, Executed
  <2>2. Told(log, b) \subseteq Told(ix, b)
    BY <2>1, LogsInstructed
  <2>3. QED
    BY <1>6, <1>8, <2>2
<1>9. CASE calls[x].kind = "swap" /\ lost = 0
  <2>1. \A z \in Executed : Id(z) = b => HasLog(calls[z].kind)
    BY <1>4, <1>9, SameId DEF HasLog
  <2>2. Told(ix, b) \subseteq Told(log, b)
    BY <1>9, <2>1, InstructionsLogged
  <2>3. QED
    BY <1>6, <1>9, <2>2
<1>10. QED
  BY <1>3, <1>5, <1>7, <1>8, <1>9 DEF HasLog, Uncertain

\* What is true of every event of the transaction.
Sound(e) ==
  \E x \in Executed :
    /\ x \in DOMAIN calls /\ x \in e.from /\ e.kind = calls[x].kind
    /\ lost = 0 \/ LosesTail => e.router \in {Nothing, calls[x].outer}
    /\ lost = 0 => e.router = Router(calls[x].kind, calls[x].outer)
    /\ \A y \in e.from : y = x \/ Uncertain(e.kind)

LEMMA RouterIs ==
  ASSUME NEW kind, NEW outer
  PROVE  Router(kind, outer) \in {Nothing, outer}
BY DEF Router

\* An event beyond those of the logs stands for an instruction event without a partner.
LEMMA BeyondLogs ==
  ASSUME NEW out, NEW keys, NEW log, NEW ix, MergeOf(out, keys, log, ix), NEW p \in DOMAIN out, p \notin DOMAIN log
  PROVE  \E q \in DOMAIN keys : \E i \in DOMAIN ix :
           p = Len(log) + q /\ Partner(log, ix, i) = 0 /\ Key(ix, i) = keys[q] /\ Carries(out[p], ix[i])
<1>1. Reported(log) /\ Instructed(ix) /\ DedupeInv(out, keys, log, ix, Len(ix))
  BY DEF MergeOf
<1>2. /\ log \in Seq(Event) /\ Len(log) \in Nat /\ DOMAIN log = 1 .. Len(log)
      /\ ix \in Seq(Event) /\ DOMAIN ix = 1 .. Len(ix)
  BY <1>1 DEF Reported, Instructed
<1>3. PICK q \in DOMAIN keys : p = Len(log) + q
  <2> DEFINE S == {Key(ix, j) : j \in DOMAIN ix}
  <2>1. out \in Seq(Event) /\ keys \in Seq(S) /\ Len(out) = Len(log) + Len(keys)
    BY <1>1 DEF DedupeInv
  <2> HIDE DEF S
  <2>2. p \in 1 .. Len(log) + Len(keys) /\ Len(keys) \in Nat /\ DOMAIN keys = 1 .. Len(keys)
    BY <2>1
  <2>3. p - Len(log) \in 1 .. Len(keys) /\ p = Len(log) + (p - Len(log))
    BY <1>2, <2>2
  <2>4. QED
    BY <2>2, <2>3
<1>4. PICK i \in 1 .. Len(ix) : Partner(log, ix, i) = 0 /\ Key(ix, i) = keys[q] /\ Carries(out[Len(log) + q], ix[i])
  BY <1>1 DEF DedupeInv, Single
<1>5. QED
  BY <1>2, <1>3, <1>4

LEMMA EventsSound ==
  ASSUME NEW out, NEW keys, NEW log, NEW ix, MergeOf(out, keys, log, ix), NEW p \in DOMAIN out
  PROVE  Sound(out[p])
<1> PICK e : e = out[p]
  OBVIOUS
<1> PICK L : L = Len(ix)
  OBVIOUS
<1>1. /\ CallInv /\ Reported(log) /\ Instructed(ix) /\ DedupeInv(out, keys, log, ix, L)
      /\ log \in Seq(Event) /\ ix \in Seq(Event) /\ L \in Nat /\ DOMAIN ix = 1 .. L
      /\ Len(log) \in Nat /\ DOMAIN log = 1 .. Len(log)
  <2>1. CallInv /\ Reported(log) /\ Instructed(ix) /\ DedupeInv(out, keys, log, ix, L)
    BY DEF MergeOf
  <2>2. log \in Seq(Event) /\ ix \in Seq(Event)
    BY <2>1 DEF Reported, Instructed
  <2>3. QED
    BY <2>1, <2>2
<1>2. \A i \in 1 .. L : \E y \in Executed : Tells(ix[i], y) /\ ix[i].from = {y} /\ y \in DOMAIN calls
  BY <1>1 DEF Instructed, Tells
<1>3. CASE p \in DOMAIN log
  <2>1. /\ Carries(e, log[p])
        /\ \A y \in e.from : y \in log[p].from \/ \E i \in 1 .. L : Partner(log, ix, i) = p /\ y \in ix[i].from
    BY <1>1, <1>3 DEF DedupeInv, Paired
  <2>2. PICK x : Reports(log[p], x)
    BY <1>1, <1>3 DEF Reported
  <2>3. /\ x \in Executed /\ x \in DOMAIN calls /\ x \in e.from /\ e.kind = calls[x].kind /\ log[p].from = {x}
        /\ e.router = log[p].router
    BY <2>1, <2>2 DEF Reports, Carries
  <2>4. ASSUME NEW y \in e.from PROVE y = x \/ Uncertain(e.kind)
    <3>1. CASE y \in log[p].from
      BY <2>3, <3>1
    <3>2. CASE \E i \in 1 .. L : Partner(log, ix, i) = p /\ y \in ix[i].from
      <4>1. PICK i \in 1 .. L : Partner(log, ix, i) = p /\ y \in ix[i].from
        BY <3>2
      <4>2. PICK z \in Executed : Tells(ix[i], z) /\ ix[i].from = {z}
        BY <1>2
      <4>3. y = z /\ i \in DOMAIN ix /\ p # 0
        BY <1>1, <1>3, <4>1, <4>2
      <4>4. x = z \/ Uncertain(calls[x].kind)
        BY <1>1, <2>2, <4>1, <4>2, <4>3, PartnerSame
      <4>5. QED
        BY <2>3, <4>3, <4>4
    <3>3. QED
      BY <2>1, <3>1, <3>2
  <2>5. lost = 0 \/ LosesTail => e.router \in {Nothing, calls[x].outer}
    BY <2>2, <2>3 DEF Reports
  <2>6. lost = 0 => e.router = Router(calls[x].kind, calls[x].outer)
    BY <2>2, <2>3 DEF Reports
  <2>7. QED
    BY <2>3, <2>4, <2>5, <2>6 DEF Sound
<1>4. CASE p \notin DOMAIN log
  <2>1. PICK q \in DOMAIN keys : \E i \in DOMAIN ix :
                p = Len(log) + q /\ Partner(log, ix, i) = 0 /\ Key(ix, i) = keys[q] /\ Carries(e, ix[i])
    BY <1>4, BeyondLogs
  <2>2. PICK i \in 1 .. L : p = Len(log) + q /\ Partner(log, ix, i) = 0 /\ Key(ix, i) = keys[q] /\ Carries(e, ix[i])
    BY <1>1, <2>1
  <2>3. \A y \in e.from : \E j \in 1 .. L : Key(ix, j) = keys[q] /\ y \in ix[j].from
    BY <1>1, <2>1 DEF DedupeInv, Single
  <2>4. PICK x \in Executed : Tells(ix[i], x) /\ ix[i].from = {x} /\ x \in DOMAIN calls
    BY <1>2
  <2>5. x \in e.from /\ e.kind = calls[x].kind /\ e.router = Router(calls[x].kind, calls[x].outer)
    BY <2>2, <2>4 DEF Carries, Tells
  <2>6. ASSUME NEW y \in e.from PROVE y = x
    <3>1. PICK j \in 1 .. L : Key(ix, j) = keys[q] /\ y \in ix[j].from
      BY <2>3
    <3>2. PICK z \in Executed : Tells(ix[j], z) /\ ix[j].from = {z}
      BY <1>2
    <3>3. y = z /\ i \in DOMAIN ix /\ j \in DOMAIN ix /\ Key(ix, i) = Key(ix, j)
      BY <1>1, <2>2, <3>1, <3>2
    <3>4. x = z
      BY <1>1, <2>4, <3>2, <3>3, KeySame
    <3>5. QED
      BY <3>3, <3>4
  <2>7. e.router \in {Nothing, calls[x].outer}
    BY <2>5, RouterIs
  <2>8. QED
    BY <2>4, <2>5, <2>6, <2>7 DEF Sound
<1>5. QED
  BY <1>3, <1>4

\* Whatever one of the two lists tells of an execution is in an event.
LEMMA EventsComplete ==
  ASSUME NEW out, NEW keys, NEW log, NEW ix, MergeOf(out, keys, log, ix), NEW x \in Executed,
         calls[x].known \/ HasCpi(calls[x].kind) \/ lost = 0
  PROVE  /\ \E p \in DOMAIN out : x \in out[p].from
         /\ calls[x].known => \E p \in DOMAIN out : x \in out[p].from /\ out[p].accounts
<1>1. /\ CallInv /\ Reported(log) /\ Instructed(ix) /\ DedupeInv(out, keys, log, ix, Len(ix))
      /\ ix \in Seq(Event) /\ DOMAIN ix = 1 .. Len(ix) /\ log \in Seq(Event) /\ DOMAIN log \subseteq DOMAIN out
  <2>1. CallInv /\ Reported(log) /\ Instructed(ix) /\ DedupeInv(out, keys, log, ix, Len(ix))
    BY DEF MergeOf
  <2>2. ix \in Seq(Event) /\ log \in Seq(Event)
    BY <2>1 DEF Instructed, Reported
  <2>3. DOMAIN log \subseteq DOMAIN out
    <3> DEFINE S == {Key(ix, j) : j \in DOMAIN ix}
    <3>1. out \in Seq(Event) /\ keys \in Seq(S) /\ Len(out) = Len(log) + Len(keys)
      BY <2>1 DEF DedupeInv
    <3> HIDE DEF S
    <3>2. QED
      BY <2>2, <3>1
  <2>4. QED
    BY <2>1, <2>2, <2>3
<1>2. ASSUME NEW k \in DOMAIN ix, ix[k].from = {x}
      PROVE  \E p \in DOMAIN out : x \in out[p].from /\ (ix[k].accounts => out[p].accounts)
  <2>1. PICK p \in DOMAIN out : ix[k].from \subseteq out[p].from /\ (ix[k].accounts => out[p].accounts)
    BY <1>1 DEF DedupeInv, PutIn
  <2>2. QED
    BY <1>2, <2>1
<1>3. ASSUME NEW j \in DOMAIN log, log[j].from = {x}
      PROVE  \E p \in DOMAIN out : x \in out[p].from
  <2>1. j \in DOMAIN out /\ Carries(out[j], log[j])
    BY <1>1 DEF DedupeInv, Paired
  <2>2. QED
    BY <1>3, <2>1 DEF Carries
<1>4. calls[x].known => \E p \in DOMAIN out : x \in out[p].from /\ out[p].accounts
  <2> SUFFICES ASSUME calls[x].known PROVE \E p \in DOMAIN out : x \in out[p].from /\ out[p].accounts
    OBVIOUS
  <2>1. PICK k \in DOMAIN ix : ix[k].from = {x} /\ ix[k].accounts
    BY <1>1 DEF Instructed
  <2>2. QED
    BY <1>2, <2>1
<1>5. CASE HasCpi(calls[x].kind) \/ calls[x].known
  <2>1. PICK k \in DOMAIN ix : ix[k].from = {x}
    BY <1>1, <1>5 DEF Instructed
  <2>2. QED
    BY <1>2, <1>4, <2>1
<1>6. CASE lost = 0 /\ ~HasCpi(calls[x].kind)
  <2>1. HasLog(calls[x].kind)
    <3>1. calls[x].kind \in Kinds /\ calls[x].kind # "router"
      <4>1. calls \in Seq(Call) /\ x \in DOMAIN calls /\ calls[x].kind # "router"
        BY <1>1 DEF CallInv, TypeOK, Executed
      <4>2. calls[x] \in Call
        BY <4>1
      <4>3. QED
        BY <4>1, <4>2 DEF Call
    <3>2. QED
      BY <1>6, <3>1 DEF HasCpi, HasLog, Kinds
  <2>2. PICK j \in DOMAIN log : log[j].from = {x}
    BY <1>1, <1>6, <2>1 DEF Reported
  <2>3. QED
    BY <1>3, <1>4, <2>2
<1>7. QED
  BY <1>5, <1>6

\* Where nothing is missing, an instruction event that the logs tell of too has a partner.
LEMMA PartnerFound ==
  ASSUME NEW log, NEW ix, CallInv, Reported(log), Instructed(ix), lost = 0, AllKnown,
         NEW x \in Executed, NEW i \in DOMAIN ix, Tells(ix[i], x), HasLog(calls[x].kind)
  PROVE  Partner(log, ix, i) # 0
<1> PICK b : b = Id(x)
  OBVIOUS
<1>1. PICK j \in DOMAIN log : log[j].from = {x}
  BY DEF Reported
<1>2. PICK z : Reports(log[j], z)
  BY DEF Reported
<1>3. z = x
  <2>1. {x} = {z}
    BY <1>1, <1>2 DEF Reports
  <2>2. QED
    BY ONLY <2>1
<1>4. b = Base(log[j]) /\ b = Base(ix[i])
  BY <1>2, <1>3, Identified DEF Reports, Tells
<1>5. \A y \in Executed : Id(y) = b =>
         calls[y].kind = calls[x].kind /\ HasLog(calls[y].kind) /\ (calls[y].known \/ HasCpi(calls[y].kind))
  BY SameId DEF AllKnown, Executed
<1>6. Told(log, b) \subseteq Told(ix, b)
  <2>1. \A y \in Executed : Id(y) = b => calls[y].known \/ HasCpi(calls[y].kind)
    BY <1>5
  <2>2. QED
    BY <2>1, LogsInstructed
<1>7. Told(ix, b) \subseteq Told(log, b)
  <2>1. \A y \in Executed : Id(y) = b => HasLog(calls[y].kind)
    BY <1>5
  <2>2. QED
    BY <2>1, InstructionsLogged
<1>8. Counted(ix[i]) => Ordered(log, b) /\ Ordered(ix, b) /\ Told(log, b) = Told(ix, b)
  <2> SUFFICES ASSUME Counted(ix[i]) PROVE Ordered(log, b) /\ Ordered(ix, b) /\ Told(log, b) = Told(ix, b)
    OBVIOUS
  <2>1. Ordered(log, b)
    BY LogOrdered
  <2>2. calls[x].kind # "create"
    BY DEF Counted, Tells
  <2>3. \A y \in Executed : Id(y) = b => calls[y].kind # "create"
    BY <1>5, <2>2
  <2>4. Ordered(ix, b)
    BY <2>3, InstructionsOrdered
  <2>5. QED
    BY <1>6, <1>7, <2>1, <2>4
<1>9. calls \in Seq(Call) /\ log \in Seq(Event) /\ ix \in Seq(Event) /\ x \in DOMAIN calls /\ ix[i].from = {x}
  BY DEF CallInv, TypeOK, Reported, Instructed, Tells
<1>10. QED
  BY <1>1, <1>4, <1>8, <1>9, PartnerThere

\* Where nothing is missing, an event tells of one execution, and of what it executed.
LEMMA EventsExact ==
  ASSUME NEW out, NEW keys, NEW log, NEW ix, MergeOf(out, keys, log, ix), lost = 0, AllKnown,
         NEW p \in DOMAIN out
  PROVE  \E x \in Executed :
           /\ out[p].from = {x} /\ out[p].amounts = "executed"
           /\ out[p].router = Router(calls[x].kind, calls[x].outer)
           /\ p \in DOMAIN log => log[p].from = {x}
           /\ p \notin DOMAIN log => ~HasLog(calls[x].kind)
<1>1. CallInv /\ Reported(log) /\ Instructed(ix) /\ DedupeInv(out, keys, log, ix, Len(ix))
  BY DEF MergeOf
<1>2. Sound(out[p])
  BY EventsSound
<1>3. PICK x \in Executed : /\ x \in DOMAIN calls /\ x \in out[p].from
                            /\ out[p].router = Router(calls[x].kind, calls[x].outer)
                            /\ \A y \in out[p].from : y = x
  BY <1>2 DEF Sound, Uncertain
<1>4. out[p].from = {x}
  BY <1>3
<1>5. CASE p \in DOMAIN log
  <2>1. Carries(out[p], log[p])
    BY <1>1, <1>5 DEF DedupeInv, Paired
  <2>2. PICK z : Reports(log[p], z)
    BY <1>1, <1>5 DEF Reported
  <2>3. log[p].from = {z} /\ z \in out[p].from /\ out[p].amounts = "executed"
    BY <2>1, <2>2 DEF Reports, Carries
  <2>4. QED
    BY <1>3, <1>4, <1>5, <2>3
<1>6. CASE p \notin DOMAIN log
  <2>1. PICK i \in DOMAIN ix : Partner(log, ix, i) = 0 /\ Carries(out[p], ix[i])
    BY <1>6, BeyondLogs
  <2>2. PICK z : z \in Executed /\ Tells(ix[i], z)
    BY <1>1 DEF Instructed
  <2>3. z = x /\ out[p].amounts = ix[i].amounts /\ ix[i].kind = calls[z].kind
    BY <1>3, <2>1, <2>2 DEF Carries, Tells
  <2>4. ~HasLog(calls[x].kind)
    BY <1>1, <2>1, <2>2, <2>3, PartnerFound
  <2>5. calls[x].kind \in Kinds /\ calls[x].kind # "router"
    <3>1. calls \in Seq(Call) /\ x \in DOMAIN calls /\ calls[x].kind # "router"
      BY <1>1, <1>3 DEF CallInv, TypeOK, Executed
    <3>2. calls[x] \in Call
      BY <3>1
    <3>3. QED
      BY <3>1, <3>2 DEF Call
  <2>6. calls[x].kind = "dlmm"
    BY <2>4, <2>5 DEF Kinds, HasLog
  <2>7. out[p].amounts = "executed"
    BY <1>1, <2>3, <2>6 DEF Instructed
  <2>8. QED
    BY <1>3, <1>4, <1>6, <2>4, <2>7
<1>7. QED
  BY <1>5, <1>6

\* And no two events tell of the same.
LEMMA EventsDistinct ==
  ASSUME NEW out, NEW keys, NEW log, NEW ix, MergeOf(out, keys, log, ix), lost = 0, AllKnown,
         NEW p \in DOMAIN out, NEW r \in DOMAIN out, NEW x \in Executed, out[p].from = {x}, out[r].from = {x}
  PROVE  p = r
<1>1. /\ CallInv /\ Reported(log) /\ Instructed(ix) /\ DedupeInv(out, keys, log, ix, Len(ix))
      /\ calls \in Seq(Call) /\ x \in DOMAIN calls /\ x \in Nat
  <2>1. CallInv /\ Reported(log) /\ Instructed(ix) /\ DedupeInv(out, keys, log, ix, Len(ix))
    BY DEF MergeOf
  <2>2. calls \in Seq(Call) /\ x \in DOMAIN calls
    BY <2>1 DEF CallInv, TypeOK, Executed
  <2>3. QED
    BY <2>1, <2>2
<1>2. ASSUME NEW s \in DOMAIN out, out[s].from = {x}
      PROVE  /\ s \in DOMAIN log => log[s].from = {x}
             /\ s \notin DOMAIN log => ~HasLog(calls[x].kind)
  <2>1. PICK z \in Executed : /\ out[s].from = {z}
                              /\ s \in DOMAIN log => log[s].from = {z}
                              /\ s \notin DOMAIN log => ~HasLog(calls[z].kind)
    BY EventsExact
  <2>2. z = x
    <3>1. {z} = {x}
      BY <1>2, <2>1
    <3>2. QED
      BY ONLY <3>1
  <2>3. QED
    BY <2>1, <2>2
<1>3. ASSUME NEW s \in DOMAIN log, log[s].from = {x} PROVE HasLog(calls[x].kind)
  <2>1. PICK z : Reports(log[s], z)
    BY <1>1 DEF Reported
  <2>2. z = x
    <3>1. {z} = {x}
      BY <1>3, <2>1 DEF Reports
    <3>2. QED
      BY ONLY <3>1
  <2>3. QED
    BY <2>1, <2>2 DEF Reports
<1>4. CASE p \in DOMAIN log /\ r \in DOMAIN log
  <2>1. log[p].from = {x} /\ log[r].from = {x}
    BY <1>2, <1>4
  <2>2. ~(p < r) /\ ~(r < p)
    <3>1. \A i, j \in DOMAIN log : i < j =>
            \A y, z : log[i].from = {y} /\ log[j].from = {z} => y < z
      BY <1>1 DEF Reported
    <3>2. ~(x < x)
      BY <1>1
    <3>3. QED
      BY ONLY <1>4, <2>1, <3>1, <3>2
  <2>3. p \in Nat /\ r \in Nat
    BY <1>1, <1>4 DEF Reported
  <2>4. QED
    BY <2>2, <2>3
<1>5. CASE p \notin DOMAIN log /\ r \notin DOMAIN log
  <2>1. PICK q1 \in DOMAIN keys : \E i \in DOMAIN ix :
                p = Len(log) + q1 /\ Key(ix, i) = keys[q1] /\ Carries(out[p], ix[i])
    BY <1>5, BeyondLogs
  <2>2. PICK i1 \in DOMAIN ix : p = Len(log) + q1 /\ Key(ix, i1) = keys[q1] /\ Carries(out[p], ix[i1])
    BY <2>1
  <2>3. PICK q2 \in DOMAIN keys : \E i \in DOMAIN ix :
                r = Len(log) + q2 /\ Key(ix, i) = keys[q2] /\ Carries(out[r], ix[i])
    BY <1>5, BeyondLogs
  <2>4. PICK i2 \in DOMAIN ix : r = Len(log) + q2 /\ Key(ix, i2) = keys[q2] /\ Carries(out[r], ix[i2])
    BY <2>3
  <2>5. ASSUME NEW i \in DOMAIN ix, NEW e, Carries(e, ix[i]), e.from = {x} PROVE ix[i].from = {x}
    <3>1. PICK z : Tells(ix[i], z)
      BY <1>1 DEF Instructed
    <3>2. ix[i].from = {z} /\ {z} \subseteq {x}
      BY <2>5, <3>1 DEF Tells, Carries
    <3>3. QED
      BY <3>2
  <2>6. ix[i1].from = {x} /\ ix[i2].from = {x}
    BY <2>2, <2>4, <2>5
  <2>7. ~HasLog(calls[x].kind) /\ calls[x].kind # "create"
    BY <1>2, <1>5 DEF HasLog
  <2>8. ~(i1 < i2) /\ ~(i2 < i1)
    BY <1>1, <2>6, <2>7 DEF Instructed, InOrder
  <2>9. i1 \in Nat /\ i2 \in Nat
    BY <1>1 DEF Instructed
  <2>10. i1 = i2
    BY <2>8, <2>9
  <2>11. q1 = q2
    BY <1>1, <2>2, <2>4, <2>10 DEF DedupeInv
  <2>12. QED
    BY <2>2, <2>4, <2>11
<1>6. QED
  BY <1>2, <1>3, <1>4, <1>5

\* Where nothing is missing, there are as many events as executions.
LEMMA EventsCounted ==
  ASSUME NEW out, NEW keys, NEW log, NEW ix, MergeOf(out, keys, log, ix), lost = 0, AllKnown
  PROVE  Cardinality(Executed) = Len(out)
<1> DEFINE S == DOMAIN out
           f == [p \in S |-> CHOOSE x \in Executed : out[p].from = {x}]
<1>1. \A p \in S : f[p] \in Executed /\ out[p].from = {f[p]}
  <2> SUFFICES ASSUME NEW p \in S PROVE f[p] \in Executed /\ out[p].from = {f[p]}
    OBVIOUS
  <2>1. \E x \in Executed : out[p].from = {x}
    BY EventsExact
  <2>2. QED
    BY <2>1
<1>2. f \in [S -> Executed]
  BY <1>1
<1>3. \A p, r \in S : f[p] = f[r] => p = r
  <2> SUFFICES ASSUME NEW p \in S, NEW r \in S, f[p] = f[r] PROVE p = r
    OBVIOUS
  <2> PICK x \in Executed : x = f[p] /\ x = f[r]
    BY <1>1
  <2>1. out[p].from = {x} /\ out[r].from = {x}
    BY <1>1
  <2>2. QED
    BY <2>1, EventsDistinct
<1>4. \A x \in Executed : \E p \in S : f[p] = x
  <2> SUFFICES ASSUME NEW x \in Executed PROVE \E p \in S : f[p] = x
    OBVIOUS
  <2>1. PICK p \in S : x \in out[p].from
    BY EventsComplete
  <2>2. QED
    BY <1>1, <2>1
<1>5. S = 1 .. Len(out) /\ Len(out) \in Nat
  <2>1. out \in Seq(Event)
    BY DEF MergeOf, DedupeInv
  <2>2. QED
    BY <2>1
<1> HIDE DEF S, f
<1>6. IsFiniteSet(S) /\ Cardinality(S) = Len(out)
  <2> PICK N : N = Len(out)
    OBVIOUS
  <2>1. N \in Nat /\ S = 1 .. N
    BY <1>5
  <2>2. 1 \in Int /\ N \in Int /\ (1 > N => N = 0) /\ N - 1 + 1 = N
    BY <2>1
  <2>3. IsFiniteSet(1 .. N) /\ Cardinality(1 .. N) = IF 1 > N THEN 0 ELSE N - 1 + 1
    BY ONLY <2>2, FS_Interval
  <2>4. QED
    BY <2>1, <2>2, <2>3
<1>7. Cardinality(Executed) = Cardinality(S)
  BY <1>2, <1>3, <1>4, <1>6, SameSize
<1>8. QED
  BY <1>6, <1>7

(***************************************************************************)
(* What Parse makes of the records                                         *)
(***************************************************************************)

\* The events s are the merged ones, creates first.
MadeFrom(s, out, keys, log, ix) ==
  MergeOf(out, keys, log, ix) /\ SameEvents(s, out) /\ CreatedBefore(s, Len(s))

Made(s) == \E out, keys, log, ix : MadeFrom(s, out, keys, log, ix)

LEMMA ParseMakes ==
  ASSUME IInv, stack = <<>>, NEW heights \in BOOLEAN
  PROVE  Made(ParseRpcTransaction(heights))
<1> PICK log : log = LogEvents
  OBVIOUS
<1> PICK ix : ix = InstructionEvents(heights)
  OBVIOUS
<1> PICK out : out = Dedupe(log, ix)
  OBVIOUS
<1> PICK s : s = CreatesFirst(out)
  OBVIOUS
<1>1. CallInv
  BY DEF IInv
<1>2. Reported(log)
  BY LogsReported
<1>3. Instructed(ix)
  BY <1>1, AllInstructed
<1>4. log \in Seq(Event) /\ ix \in Seq(Event)
  BY <1>2, <1>3 DEF Reported, Instructed
<1>5. PICK keys : DedupeInv(out, keys, log, ix, Len(ix))
  BY <1>4, Deduped
<1>6. out \in Seq(Event)
  BY <1>5 DEF DedupeInv
<1>7. SameEvents(s, out) /\ CreatedBefore(s, Len(out))
  BY <1>6, CreatesMoved
<1>8. Len(s) = Len(out)
  BY <1>7 DEF SameEvents
<1>9. MadeFrom(s, out, keys, log, ix)
  BY <1>1, <1>2, <1>3, <1>5, <1>7, <1>8 DEF MadeFrom, MergeOf
<1>10. s = ParseRpcTransaction(heights)
  BY DEF ParseRpcTransaction
<1>11. QED
  BY <1>9, <1>10 DEF Made

LEMMA ParseIs ==
  ASSUME IInv, Parse
  PROVE  Made(result'[2]) /\ UNCHANGED <<calls, lost>>
<1>1. stack = <<>> /\ UNCHANGED <<calls, lost>>
  BY DEF Parse
<1>2. PICK heights \in BOOLEAN :
        result' = <<IF heights THEN "heights" ELSE "flat", ParseRpcTransaction(heights)>>
  BY DEF Parse
<1>3. result'[2] = ParseRpcTransaction(heights)
  BY <1>2
<1>4. QED
  BY <1>1, <1>3, ParseMakes

\* Events are only there after Parse, and then stay as they are.
LEMMA OnlyParse ==
  ASSUME IInv, [Next]_vars
  PROVE  ~Parsed' \/ Parse \/ UNCHANGED <<calls, lost, result>>
<1>1. stack # <<>> => result = Unparsed
  BY DEF IInv, CallInv, Stacked
<1>2. CASE UNCHANGED vars
  BY <1>2 DEF vars
<1>3. CASE \E kind \in Kinds, key \in Keys, known \in BOOLEAN : Invoke(kind, key, known)
  BY <1>3 DEF Invoke, Parsed
<1>4. CASE Emit
  BY <1>1, <1>4 DEF Emit, Parsed
<1>5. CASE Return
  BY <1>1, <1>5 DEF Return, Parsed
<1>6. QED
  BY <1>2, <1>3, <1>4, <1>5 DEF Next

LEMMA UnknownCounts ==
  ASSUME TypeOK
  PROVE  Unknown \in Nat /\ (Unknown = 0 <=> AllKnown)
<1> DEFINE U == {c \in DOMAIN calls : ~calls[c].known}
<1>1. Len(calls) \in Nat /\ DOMAIN calls = 1 .. Len(calls)
  BY DEF TypeOK
<1>2. IsFiniteSet(1 .. Len(calls)) /\ U \in SUBSET (1 .. Len(calls))
  BY <1>1, FS_Interval
<1>3. IsFiniteSet(U)
  BY <1>2, FS_Subset
<1>4. Cardinality(U) \in Nat /\ (Cardinality(U) = 0 <=> U = {})
  <2> HIDE DEF U
  <2>1. QED
    BY <1>3, FS_CardinalityType, FS_EmptySet
<1>5. U = {} <=> AllKnown
  BY DEF AllKnown
<1>6. Unknown = Cardinality(U)
  BY DEF Unknown
<1>7. QED
  BY <1>4, <1>5, <1>6

LEMMA MadeEvents ==
  ASSUME NEW s, Made(s)
  PROVE  /\ TypeOK
         /\ \A e \in ToSet(s) : Sound(e)
         /\ \A x \in Executed : calls[x].known \/ HasCpi(calls[x].kind) \/ lost = 0 =>
              \E e \in ToSet(s) : x \in e.from
         /\ \A i, j \in DOMAIN s : s[i].kind = "trade" /\ s[j].kind = "create" /\ s[i].key = s[j].key => j < i
<1> PICK out, keys, log, ix : MadeFrom(s, out, keys, log, ix)
  BY DEF Made
<1>1. MergeOf(out, keys, log, ix) /\ SameEvents(s, out) /\ CreatedBefore(s, Len(s))
  BY DEF MadeFrom
<1>2. TypeOK
  BY <1>1 DEF MergeOf, CallInv
<1>3. ToSet(s) = {out[p] : p \in DOMAIN out} /\ DOMAIN s = 1 .. Len(s)
  <2>1. s \in Seq(Event) /\ ToSet(s) = ToSet(out)
    BY <1>1 DEF SameEvents
  <2>2. ToSet(out) = {out[p] : p \in DOMAIN out}
    BY DEF ToSet
  <2>3. DOMAIN s = 1 .. Len(s)
    BY <2>1
  <2>4. QED
    BY <2>1, <2>2, <2>3
<1>4. \A e \in ToSet(s) : Sound(e)
  BY <1>1, <1>3, EventsSound
<1>5. ASSUME NEW x \in Executed, calls[x].known \/ HasCpi(calls[x].kind) \/ lost = 0
      PROVE  \E e \in ToSet(s) : x \in e.from
  <2>1. PICK p \in DOMAIN out : x \in out[p].from
    BY <1>1, <1>5, EventsComplete
  <2>2. QED
    BY <1>3, <2>1
<1>6. \A i, j \in DOMAIN s : s[i].kind = "trade" /\ s[j].kind = "create" /\ s[i].key = s[j].key => j < i
  BY <1>1, <1>3 DEF CreatedBefore
<1>7. QED
  BY <1>2, <1>4, <1>5, <1>6

LEMMA MadeExact ==
  ASSUME NEW s, Made(s), lost = 0, AllKnown
  PROVE  /\ Len(s) = Cardinality(Executed)
         /\ \A x \in Executed : \E e \in ToSet(s) :
              /\ e.from = {x} /\ e.accounts /\ e.amounts = "executed"
              /\ e.router = Router(calls[x].kind, calls[x].outer)
<1> PICK out, keys, log, ix : MadeFrom(s, out, keys, log, ix)
  BY DEF Made
<1>1. MergeOf(out, keys, log, ix) /\ SameEvents(s, out)
  BY DEF MadeFrom
<1>2. ToSet(s) = {out[p] : p \in DOMAIN out} /\ Len(s) = Len(out)
  <2>1. ToSet(out) = {out[p] : p \in DOMAIN out}
    BY DEF ToSet
  <2>2. QED
    BY <1>1, <2>1 DEF SameEvents
<1>3. Len(s) = Cardinality(Executed)
  BY <1>1, <1>2, EventsCounted
<1>4. ASSUME NEW x \in Executed
      PROVE  \E e \in ToSet(s) : /\ e.from = {x} /\ e.accounts /\ e.amounts = "executed"
                                 /\ e.router = Router(calls[x].kind, calls[x].outer)
  <2>1. calls[x].known
    BY DEF AllKnown, Executed
  <2>2. PICK p \in DOMAIN out : x \in out[p].from /\ out[p].accounts
    BY <1>1, <2>1, EventsComplete
  <2>3. PICK y \in Executed : /\ out[p].from = {y} /\ out[p].amounts = "executed"
                              /\ out[p].router = Router(calls[y].kind, calls[y].outer)
    BY <1>1, EventsExact
  <2>4. y = x
    BY <2>2, <2>3
  <2>5. QED
    BY <1>2, <2>2, <2>3, <2>4
<1>5. QED
  BY <1>3, <1>4

(***************************************************************************)
(* What the events promise                                                 *)
(***************************************************************************)

\* A create comes before the trades of its mint, whichever of the two records either
\* was found in, and wherever the merge had put it (moveCreatesBeforeTrades).
THEOREM CreatesComeFirst == Spec => []CreatePrecedesTrades
<1>1. Init => CreatePrecedesTrades
  BY DEF Init, CreatePrecedesTrades, Parsed
<1>2. IInv /\ CreatePrecedesTrades /\ [Next]_vars => CreatePrecedesTrades'
  <2> SUFFICES ASSUME IInv, CreatePrecedesTrades, [Next]_vars PROVE CreatePrecedesTrades'
    OBVIOUS
  <2>1. CASE ~Parsed'
    BY <2>1 DEF CreatePrecedesTrades
  <2>2. CASE Parse
    <3>1. Made(result'[2])
      BY <2>2, ParseIs
    <3>2. QED
      BY <3>1, MadeEvents DEF CreatePrecedesTrades
  <2>3. CASE UNCHANGED <<calls, lost, result>>
    BY <2>3 DEF CreatePrecedesTrades, Parsed
  <2>4. QED
    BY <2>1, <2>2, <2>3, OnlyParse
<1>3. QED
  BY <1>1, <1>2, RuntimeTrue, PTL DEF Spec

\* What either record shows of an execution ends up in an event: nothing is dropped
\* by the merge of CPIs, by the pairing of the two lists or by the move of creates.
THEOREM NothingLost == Spec => []NothingVanishes
<1>1. Init => NothingVanishes
  BY DEF Init, NothingVanishes, Parsed
<1>2. IInv /\ NothingVanishes /\ [Next]_vars => NothingVanishes'
  <2> SUFFICES ASSUME IInv, NothingVanishes, [Next]_vars PROVE NothingVanishes'
    OBVIOUS
  <2>1. CASE ~Parsed'
    BY <2>1 DEF NothingVanishes
  <2>2. CASE Parse
    <3>1. Made(result'[2]) /\ UNCHANGED <<calls, lost>>
      BY <2>2, ParseIs
    <3>2. \A x \in Executed : calls[x].known \/ HasCpi(calls[x].kind) \/ lost = 0 =>
            \E e \in ToSet(result'[2]) : x \in e.from
      BY <3>1, MadeEvents
    <3>3. QED
      BY <3>1, <3>2 DEF NothingVanishes, Executed, Events
  <2>3. CASE UNCHANGED <<calls, lost, result>>
    BY <2>3 DEF NothingVanishes, Executed, Events, Parsed
  <2>4. QED
    BY <2>1, <2>2, <2>3, OnlyParse
<1>3. QED
  BY <1>1, <1>2, RuntimeTrue, PTL DEF Spec

\* An event never points to a router it did not run in (third_program), provided that
\* no line is lost without those after it that are no shorter.
THEOREM RoutersTrue == Spec => [](lost = 0 \/ LosesTail => RouterTrue)
<1> DEFINE P == lost = 0 \/ LosesTail => RouterTrue
<1>1. Init => P
  BY DEF Init, RouterTrue, Parsed
<1>2. IInv /\ P /\ [Next]_vars => P'
  <2> SUFFICES ASSUME IInv, P, [Next]_vars PROVE P'
    OBVIOUS
  <2>1. CASE ~Parsed'
    BY <2>1 DEF RouterTrue
  <2>2. CASE Parse
    <3> SUFFICES ASSUME lost' = 0 \/ LosesTail PROVE RouterTrue'
      OBVIOUS
    <3>1. Made(result'[2]) /\ UNCHANGED <<calls, lost>>
      BY <2>2, ParseIs
    <3>2. \A e \in ToSet(result'[2]) : \E x \in e.from : e.router \in {Nothing, calls[x].outer}
      BY <3>1, MadeEvents DEF Sound
    <3>3. QED
      BY <3>1, <3>2 DEF RouterTrue, Events
  <2>3. CASE UNCHANGED <<calls, lost, result>>
    BY <2>3 DEF RouterTrue, Events, Parsed
  <2>4. QED
    BY <2>1, <2>2, <2>3, OnlyParse
<1>3. QED
  BY <1>1, <1>2, RuntimeTrue, PTL DEF Spec

\* No event tells of two executions, with the accounts of one and the amounts of the
\* other, save those of a program that only logs, where both records have gaps.
THEOREM EventsNeverMixed == Spec => []NeverMixed
<1>1. Init => NeverMixed
  BY DEF Init, NeverMixed, Parsed
<1>2. IInv /\ NeverMixed /\ [Next]_vars => NeverMixed'
  <2> SUFFICES ASSUME IInv, NeverMixed, [Next]_vars PROVE NeverMixed'
    OBVIOUS
  <2>1. CASE ~Parsed'
    BY <2>1 DEF NeverMixed
  <2>2. CASE Parse
    <3>1. Made(result'[2]) /\ UNCHANGED <<calls, lost>>
      BY <2>2, ParseIs
    <3>2. TypeOK /\ \A e \in ToSet(result'[2]) : Sound(e)
      BY <3>1, MadeEvents
    <3>3. Unknown \in Nat /\ (Unknown = 0 <=> AllKnown) /\ lost \in Nat
      BY <3>2, UnknownCounts DEF TypeOK
    <3>4. ASSUME NEW e \in ToSet(result'[2])
          PROVE  Cardinality(e.from) = 1 \/ (e.kind = "swap" /\ lost > 0 /\ Unknown > 0)
      <4>1. CASE Uncertain(e.kind)
        BY <3>3, <4>1 DEF Uncertain
      <4>2. CASE ~Uncertain(e.kind)
        <5>1. PICK x : x \in e.from /\ \A y \in e.from : y = x
          BY <3>2, <4>2 DEF Sound
        <5>2. e.from = {x}
          BY <5>1
        <5>3. Cardinality({x}) = 1
          BY FS_Singleton
        <5>4. QED
          BY <5>2, <5>3
      <4>3. QED
        BY <4>1, <4>2
    <3>5. Unknown' = Unknown
      BY <3>1 DEF Unknown
    <3>6. QED
      BY <3>1, <3>4, <3>5 DEF NeverMixed, Events
  <2>3. CASE UNCHANGED <<calls, lost, result>>
    BY <2>3 DEF NeverMixed, Events, Parsed, Unknown
  <2>4. QED
    BY <2>1, <2>2, <2>3, OnlyParse
<1>3. QED
  BY <1>1, <1>2, RuntimeTrue, PTL DEF Spec

\* With no line lost and every instruction known, the executions and the events are
\* one to one, each event with the accounts of its instruction, the executed amounts
\* and the router it ran in: no duplicate, no limit passed off as an amount.
THEOREM ExactEvents == Spec => []ExactWhenComplete
<1>1. Init => ExactWhenComplete
  BY DEF Init, ExactWhenComplete, Parsed
<1>2. IInv /\ ExactWhenComplete /\ [Next]_vars => ExactWhenComplete'
  <2> SUFFICES ASSUME IInv, ExactWhenComplete, [Next]_vars PROVE ExactWhenComplete'
    OBVIOUS
  <2>1. CASE ~Parsed'
    BY <2>1 DEF ExactWhenComplete
  <2>2. CASE Parse
    <3>1. Made(result'[2]) /\ calls' = calls /\ lost' = lost
      BY <2>2, ParseIs
    <3>2. Unknown' = Unknown /\ Executed' = Executed /\ Events' = ToSet(result'[2])
      BY <3>1 DEF Unknown, Executed, Events
    <3>3. \A kind, outer : Router(kind, outer)' = Router(kind, outer)
      BY <3>1 DEF Router, OuterCall
    <3> SUFFICES ASSUME lost = 0, Unknown = 0
                 PROVE  /\ Len(result'[2]) = Cardinality(Executed)
                        /\ \A c \in Executed : \E e \in ToSet(result'[2]) :
                             /\ e.from = {c} /\ e.accounts /\ e.amounts = "executed"
                             /\ e.router = Router(calls[c].kind, calls[c].outer)
      BY <3>1, <3>2, <3>3 DEF ExactWhenComplete
    <3>4. AllKnown
      BY <3>1, MadeEvents, UnknownCounts
    <3>5. QED
      BY <3>1, <3>4, MadeExact
  <2>3. CASE UNCHANGED <<calls, lost, result>>
    <3>1. Unknown' = Unknown /\ Executed' = Executed /\ Events' = Events
      BY <2>3 DEF Unknown, Executed, Events
    <3>2. \A kind, outer : Router(kind, outer)' = Router(kind, outer)
      BY <2>3 DEF Router, OuterCall
    <3>3. calls' = calls /\ lost' = lost /\ result' = result
      BY <2>3
    <3>4. QED
      BY ONLY ExactWhenComplete, <3>1, <3>2, <3>3 DEF ExactWhenComplete, Parsed
  <2>4. QED
    BY <2>1, <2>2, <2>3, OnlyParse
<1>3. QED
  BY <1>1, <1>2, RuntimeTrue, PTL DEF Spec

=================================================================================
