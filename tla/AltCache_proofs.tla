----------------------------- MODULE AltCache_proofs -----------------------------
(***************************************************************************)
(* Proofs about AltCache, for every set of tables, every capacity and batch *)
(* size, and every list of transactions and preloads.                       *)
(***************************************************************************)
EXTENDS AltCache, SequenceTheorems, FiniteSetTheorems, WellFoundedInduction, TLAPS

(***************************************************************************)
(* Induction, with a set for the predicate                                 *)
(***************************************************************************)

LEMMA LeastNat ==
  ASSUME NEW S, S \subseteq Nat, S # {}
  PROVE  \E n \in S : \A m \in S : n <= m
<1>1. PICK n \in S : \A m \in S : ~(<<m, n>> \in OpToRel(<, Nat))
  BY NatLessThanWellFounded, WFMin
<1>2. ASSUME NEW m \in S PROVE n <= m
  <2>1. m \in Nat /\ n \in Nat
    OBVIOUS
  <2>2. CASE m < n
    <3>1. <<m, n>> \in OpToRel(<, Nat)
      BY <2>1, <2>2 DEF OpToRel
    <3>2. QED
      BY <1>1, <3>1
  <2>3. QED
    BY <2>1, <2>2
<1>3. QED
  BY <1>2

LEMMA Induction ==
  ASSUME NEW S, 0 \in S, \A n \in Nat : n \in S => n + 1 \in S
  PROVE  Nat \subseteq S
<1> DEFINE Bad == Nat \ S
<1> SUFFICES ASSUME Bad # {} PROVE FALSE
  OBVIOUS
<1>1. PICK n \in Bad : \A m \in Bad : n <= m
  <2>1. Bad \subseteq Nat
    OBVIOUS
  <2> HIDE DEF Bad
  <2>2. QED
    BY <2>1, LeastNat
<1>2. n \in Nat /\ n # 0 /\ n - 1 \in Nat
  OBVIOUS
<1>3. n - 1 \notin Bad
  BY <1>1, <1>2
<1>4. n - 1 + 1 \in S
  BY <1>2, <1>3
<1>5. QED
  BY <1>2, <1>4

LEMMA Throughout ==
  ASSUME NEW N \in Nat, NEW K, 0 \in K, \A n \in 1 .. N : n - 1 \in K => n \in K
  PROVE  0 .. N \subseteq K
<1> DEFINE L == {n \in Nat : n <= N => n \in K}
<1>1. 0 \in L
  OBVIOUS
<1>2. ASSUME NEW n \in Nat, n \in L PROVE n + 1 \in L
  <2>1. ASSUME n + 1 <= N PROVE n + 1 \in K
    <3>1. n + 1 \in 1 .. N /\ n + 1 - 1 = n /\ n \in K
      BY <1>2, <2>1
    <3>2. QED
      BY <3>1
  <2>2. QED
    BY <2>1
<1>3. Nat \subseteq L
  <2> HIDE DEF L
  <2> QED
    BY <1>1, <1>2, Induction
<1>4. QED
  BY <1>3

\* A value that a step carries on, once for each of 1 .. N, is a function of how
\* often it was carried on.
Carries(f, base, N, step) ==
  f[0] = base /\ \A n \in 1 .. N : f[n] = step[<<n, f[n - 1]>>]

LEMMA Iterates ==
  ASSUME NEW S, NEW base \in S, NEW N \in Nat, NEW step \in [(1 .. N) \X S -> S]
  PROVE  \E f \in [0 .. N -> S] : Carries(f, base, N, step)
<1> DEFINE K == {k \in Nat : k <= N => \E f \in [0 .. k -> S] : Carries(f, base, k, step)}
<1>1. 0 \in K
  <2>1. [n \in 0 .. 0 |-> base] \in [0 .. 0 -> S]
    OBVIOUS
  <2>2. Carries([n \in 0 .. 0 |-> base], base, 0, step)
    BY DEF Carries
  <2>3. QED
    BY <2>1, <2>2
<1>2. ASSUME NEW k \in Nat, k \in K PROVE k + 1 \in K
  <2> SUFFICES ASSUME k + 1 <= N PROVE \E f \in [0 .. k + 1 -> S] : Carries(f, base, k + 1, step)
    OBVIOUS
  <2>1. PICK f \in [0 .. k -> S] : Carries(f, base, k, step)
    BY <1>2
  <2> DEFINE g == [n \in 0 .. k + 1 |-> IF n <= k THEN f[n] ELSE step[<<k + 1, f[k]>>]]
  <2>2. <<k + 1, f[k]>> \in (1 .. N) \X S
    OBVIOUS
  <2>3. g \in [0 .. k + 1 -> S]
    BY <2>2
  <2>4. g[0] = base
    BY <2>1 DEF Carries
  <2>5. ASSUME NEW n \in 1 .. k + 1 PROVE g[n] = step[<<n, g[n - 1]>>]
    <3>1. n - 1 \in 0 .. k + 1 /\ n - 1 <= k /\ g[n - 1] = f[n - 1]
      OBVIOUS
    <3>2. CASE n <= k
      BY <2>1, <3>1, <3>2 DEF Carries
    <3>3. CASE n = k + 1
      BY <3>1, <3>3
    <3>4. QED
      BY <3>2, <3>3
  <2>6. Carries(g, base, k + 1, step)
    <3> HIDE DEF g
    <3> QED
      BY <2>4, <2>5 DEF Carries
  <2>7. QED
    BY <2>3, <2>6
<1>3. N \in K
  <2> HIDE DEF K
  <2> QED
    BY <1>1, <1>2, Induction
<1>4. QED
  BY <1>3

(***************************************************************************)
(* The loops of the code                                                   *)
(***************************************************************************)

\* The maps store works on.
Maps == [cached : Seq(Tables), snapshot : [Tables -> Nat], pending : Seq(Tables)]

\* store works through the tables of an answer one by one and never leaves S.
StoresWithin(S, keys, view) ==
  \E upTo \in [0 .. Len(keys) -> S] :
    /\ upTo[0] = [cached |-> cached, snapshot |-> snapshot, pending |-> pending]
    /\ \A n \in 1 .. Len(keys) : upTo[n] = StoreKnown(upTo[n - 1], keys[n], view)
    /\ Stored(keys, view) = upTo[Len(keys)]

LEMMA StoredUnfolds ==
  ASSUME NEW keys \in Seq(Tables), NEW view, NEW S,
         [cached |-> cached, snapshot |-> snapshot, pending |-> pending] \in S,
         \A c \in S, t \in ToSet(keys) : StoreKnown(c, t, view) \in S
  PROVE  StoresWithin(S, keys, view)
<1> SUFFICES \E upTo \in [0 .. Len(keys) -> S] :
               /\ upTo[0] = [cached |-> cached, snapshot |-> snapshot, pending |-> pending]
               /\ \A n \in 1 .. Len(keys) : upTo[n] = StoreKnown(upTo[n - 1], keys[n], view)
               /\ Stored(keys, view) = upTo[Len(keys)]
  BY DEF StoresWithin
<1> DEFINE N == Len(keys)
           now == [cached |-> cached, snapshot |-> snapshot, pending |-> pending]
           step == [p \in (1 .. N) \X S |-> StoreKnown(p[2], keys[p[1]], view)]
           upTo[n \in 0 .. N] == IF n = 0 THEN now ELSE StoreKnown(upTo[n - 1], keys[n], view)
<1>1. Stored(keys, view) = upTo[N]
  BY DEF Stored
<1>2. N \in Nat /\ now \in S /\ \A n \in 1 .. N : keys[n] \in ToSet(keys)
  BY DEF ToSet
<1>3. step \in [(1 .. N) \X S -> S]
  BY <1>2
<1>4. PICK f \in [0 .. N -> S] : Carries(f, now, N, step)
  <2> HIDE DEF step, N, now, upTo
  <2> QED
    BY <1>2, <1>3, Iterates
<1> DEFINE next == [n \in 0 .. N |-> IF n = 0 THEN now ELSE StoreKnown(f[n - 1], keys[n], view)]
<1>5. ASSUME NEW n \in 0 .. N PROVE f[n] = next[n]
  <2>1. CASE n = 0
    BY <1>2, <1>4, <2>1 DEF Carries
  <2>2. CASE n # 0
    <3>1. n \in 1 .. N /\ <<n, f[n - 1]>> \in (1 .. N) \X S
      BY <1>2, <2>2
    <3>2. step[<<n, f[n - 1]>>] = StoreKnown(f[n - 1], keys[n], view)
      BY <3>1
    <3>3. f[n] = step[<<n, f[n - 1]>>]
      BY <1>4, <3>1 DEF Carries
    <3>4. QED
      BY <2>2, <3>2, <3>3
  <2>3. QED
    BY <2>1, <2>2
<1>6. f = next
  <2> HIDE DEF next
  <2>1. next \in [0 .. N -> S]
    BY <1>2, <1>5 DEF next
  <2>2. QED
    BY <1>5, <2>1
<1>7. upTo = [n \in 0 .. N |-> IF n = 0 THEN now ELSE StoreKnown(upTo[n - 1], keys[n], view)]
  <2> HIDE DEF now, N
  <2> QED
    BY <1>6
<1>8. upTo[0] = now /\ \A n \in 1 .. N : upTo[n] = StoreKnown(upTo[n - 1], keys[n], view)
  <2> HIDE DEF now, upTo, N
  <2> QED
    BY <1>2, <1>7
<1> HIDE DEF upTo
<1>9. ASSUME NEW n \in 0 .. N PROVE upTo[n] \in S
  <2> DEFINE K == {k \in 0 .. N : upTo[k] \in S}
  <2>1. 0 \in K
    BY <1>2, <1>8
  <2>2. ASSUME NEW k \in 1 .. N, k - 1 \in K PROVE k \in K
    <3>1. upTo[k - 1] \in S /\ upTo[k] = StoreKnown(upTo[k - 1], keys[k], view)
      BY <1>8, <2>2
    <3>2. QED
      BY <1>2, <3>1
  <2> HIDE DEF K
  <2>3. n \in K
    BY <1>2, <2>1, <2>2, Throughout
  <2>4. QED
    BY <2>3 DEF K
<1>10. upTo \in [0 .. N -> S]
  BY <1>7, <1>9
<1>11. QED
  BY <1>1, <1>8, <1>10

\* The loop of resolve over the lookups of a transaction.
LEMMA MissesUnfold ==
  ASSUME NEW tx \in Transactions, NEW S, pending \in S,
         \A p \in S, l \in ToSet(tx) : QueueMissed(p, l) \in S
  PROVE  \E upTo \in [0 .. Len(tx) -> S] :
           /\ upTo[0] = pending
           /\ \A n \in 1 .. Len(tx) : upTo[n] = QueueMissed(upTo[n - 1], tx[n])
           /\ MissesQueued(tx) = upTo[Len(tx)]
<1> DEFINE N == Len(tx)
           step == [p \in (1 .. N) \X S |-> QueueMissed(p[2], tx[p[1]])]
           upTo[n \in 0 .. N] == IF n = 0 THEN pending ELSE QueueMissed(upTo[n - 1], tx[n])
<1>1. MissesQueued(tx) = upTo[N]
  BY DEF MissesQueued
<1>2. N \in Nat /\ \A n \in 1 .. N : tx[n] \in ToSet(tx)
  BY CacheAssumption DEF ToSet
<1>3. step \in [(1 .. N) \X S -> S]
  BY <1>2
<1>4. PICK f \in [0 .. N -> S] : Carries(f, pending, N, step)
  <2> HIDE DEF step, N, upTo
  <2> QED
    BY <1>2, <1>3, Iterates
<1> DEFINE next == [n \in 0 .. N |-> IF n = 0 THEN pending ELSE QueueMissed(f[n - 1], tx[n])]
<1>5. ASSUME NEW n \in 0 .. N PROVE f[n] = next[n]
  <2>1. CASE n = 0
    BY <1>2, <1>4, <2>1 DEF Carries
  <2>2. CASE n # 0
    <3>1. n \in 1 .. N /\ <<n, f[n - 1]>> \in (1 .. N) \X S
      BY <1>2, <2>2
    <3>2. step[<<n, f[n - 1]>>] = QueueMissed(f[n - 1], tx[n])
      BY <3>1
    <3>3. f[n] = step[<<n, f[n - 1]>>]
      BY <1>4, <3>1 DEF Carries
    <3>4. QED
      BY <2>2, <3>2, <3>3
  <2>3. QED
    BY <2>1, <2>2
<1>6. f = next
  <2> HIDE DEF next
  <2>1. next \in [0 .. N -> S]
    BY <1>2, <1>5 DEF next
  <2>2. QED
    BY <1>5, <2>1
<1>7. upTo = [n \in 0 .. N |-> IF n = 0 THEN pending ELSE QueueMissed(upTo[n - 1], tx[n])]
  <2> HIDE DEF N
  <2> QED
    BY <1>6
<1>8. upTo[0] = pending /\ \A n \in 1 .. N : upTo[n] = QueueMissed(upTo[n - 1], tx[n])
  <2> HIDE DEF upTo, N
  <2> QED
    BY <1>2, <1>7
<1> HIDE DEF upTo
<1>9. ASSUME NEW n \in 0 .. N PROVE upTo[n] \in S
  <2> DEFINE K == {k \in 0 .. N : upTo[k] \in S}
  <2>1. 0 \in K
    BY <1>2, <1>8
  <2>2. ASSUME NEW k \in 1 .. N, k - 1 \in K PROVE k \in K
    <3>1. upTo[k - 1] \in S /\ upTo[k] = QueueMissed(upTo[k - 1], tx[k])
      BY <1>8, <2>2
    <3>2. QED
      BY <1>2, <3>1
  <2> HIDE DEF K
  <2>3. n \in K
    BY <1>2, <2>1, <2>2, Throughout
  <2>4. QED
    BY <2>3 DEF K
<1>10. upTo \in [0 .. N -> S]
  BY <1>7, <1>9
<1>11. QED
  BY <1>1, <1>8, <1>10

\* What was added after each table of the list.
Adds(upTo, keys, list) ==
  /\ upTo[0] = keys
  /\ \A n \in 1 .. Len(list) : upTo[n] = Include(upTo[n - 1], list[n])
  /\ Including(keys, list) = upTo[Len(list)]

\* The loop that adds what is not there yet.
LEMMA IncludingUnfolds ==
  ASSUME NEW list \in Seq(Tables), NEW keys, NEW S, keys \in S,
         \A s \in S, t \in ToSet(list) : Include(s, t) \in S
  PROVE  \E upTo \in [0 .. Len(list) -> S] : Adds(upTo, keys, list)
<1> DEFINE N == Len(list)
           step == [p \in (1 .. N) \X S |-> Include(p[2], list[p[1]])]
           upTo[n \in 0 .. N] == IF n = 0 THEN keys ELSE Include(upTo[n - 1], list[n])
<1>1. Including(keys, list) = upTo[N]
  BY DEF Including
<1>2. N \in Nat /\ \A n \in 1 .. N : list[n] \in ToSet(list)
  BY DEF ToSet
<1>3. step \in [(1 .. N) \X S -> S]
  BY <1>2
<1>4. PICK f \in [0 .. N -> S] : Carries(f, keys, N, step)
  <2> HIDE DEF step, N, upTo
  <2> QED
    BY <1>2, <1>3, Iterates
<1> DEFINE next == [n \in 0 .. N |-> IF n = 0 THEN keys ELSE Include(f[n - 1], list[n])]
<1>5. ASSUME NEW n \in 0 .. N PROVE f[n] = next[n]
  <2>1. CASE n = 0
    BY <1>2, <1>4, <2>1 DEF Carries
  <2>2. CASE n # 0
    <3>1. n \in 1 .. N /\ <<n, f[n - 1]>> \in (1 .. N) \X S
      BY <1>2, <2>2
    <3>2. step[<<n, f[n - 1]>>] = Include(f[n - 1], list[n])
      BY <3>1
    <3>3. f[n] = step[<<n, f[n - 1]>>]
      BY <1>4, <3>1 DEF Carries
    <3>4. QED
      BY <2>2, <3>2, <3>3
  <2>3. QED
    BY <2>1, <2>2
<1>6. f = next
  <2> HIDE DEF next
  <2>1. next \in [0 .. N -> S]
    BY <1>2, <1>5 DEF next
  <2>2. QED
    BY <1>5, <2>1
<1>7. upTo = [n \in 0 .. N |-> IF n = 0 THEN keys ELSE Include(upTo[n - 1], list[n])]
  <2> HIDE DEF N
  <2> QED
    BY <1>6
<1>8. upTo[0] = keys /\ \A n \in 1 .. N : upTo[n] = Include(upTo[n - 1], list[n])
  <2> HIDE DEF upTo, N
  <2> QED
    BY <1>2, <1>7
<1> HIDE DEF upTo
<1>9. ASSUME NEW n \in 0 .. N PROVE upTo[n] \in S
  <2> DEFINE K == {k \in 0 .. N : upTo[k] \in S}
  <2>1. 0 \in K
    BY <1>2, <1>8
  <2>2. ASSUME NEW k \in 1 .. N, k - 1 \in K PROVE k \in K
    <3>1. upTo[k - 1] \in S /\ upTo[k] = Include(upTo[k - 1], list[k])
      BY <1>8, <2>2
    <3>2. QED
      BY <1>2, <3>1
  <2> HIDE DEF K
  <2>3. n \in K
    BY <1>2, <2>1, <2>2, Throughout
  <2>4. QED
    BY <2>3 DEF K
<1>10. upTo \in [0 .. N -> S]
  BY <1>7, <1>9
<1>11. QED
  BY <1>1, <1>8, <1>10 DEF Adds

(***************************************************************************)
(* Maps and sets of the code as lists without repetition                   *)
(***************************************************************************)

Listing(s) == s \in Seq(Tables) /\ Distinct(s)

LEMMA Elements ==
  ASSUME NEW s \in Seq(Tables)
  PROVE  /\ Len(s) \in Nat /\ DOMAIN s = 1 .. Len(s)
         /\ \A i \in 1 .. Len(s) : s[i] \in Tables /\ s[i] \in ToSet(s)
         /\ \A t \in ToSet(s) : t \in Tables /\ \E i \in 1 .. Len(s) : s[i] = t
         /\ ToSet(s) \subseteq Tables
BY LenProperties, ElementOfSeq DEF ToSet

LEMMA AppendListing ==
  ASSUME NEW s \in Seq(Tables), NEW t \in Tables
  PROVE  /\ Append(s, t) \in Seq(Tables) /\ Len(Append(s, t)) = Len(s) + 1
         /\ \A i \in 1 .. Len(s) : Append(s, t)[i] = s[i]
         /\ Append(s, t)[Len(s) + 1] = t
         /\ ToSet(Append(s, t)) = ToSet(s) \cup {t}
         /\ Distinct(s) /\ t \notin ToSet(s) => Distinct(Append(s, t))
<1> DEFINE a == Append(s, t)
           n == Len(s)
<1>1. /\ a \in Seq(Tables) /\ Len(a) = n + 1 /\ n \in Nat
      /\ DOMAIN a = 1 .. n + 1 /\ DOMAIN s = 1 .. n
      /\ \A i \in 1 .. n : a[i] = s[i]
      /\ a[n + 1] = t
  BY AppendProperties, LenProperties
<1> HIDE DEF a, n
<1>2. ToSet(a) = ToSet(s) \cup {t}
  <2>1. ASSUME NEW x \in ToSet(a) PROVE x \in ToSet(s) \cup {t}
    <3>1. PICK i \in 1 .. n + 1 : a[i] = x
      BY <1>1 DEF ToSet
    <3>2. i \in 1 .. n \/ i = n + 1
      BY <1>1
    <3>3. QED
      BY <1>1, <3>1, <3>2 DEF ToSet
  <2>2. ASSUME NEW x \in ToSet(s) PROVE x \in ToSet(a)
    <3>1. PICK i \in 1 .. n : s[i] = x
      BY <1>1 DEF ToSet
    <3>2. i \in 1 .. n + 1 /\ a[i] = x
      BY <1>1, <3>1
    <3>3. QED
      BY <1>1, <3>2 DEF ToSet
  <2>3. n + 1 \in DOMAIN a
    BY <1>1
  <2>4. t \in ToSet(a)
    BY <1>1, <2>3 DEF ToSet
  <2>5. QED
    BY <2>1, <2>2, <2>4
<1>3. ASSUME Distinct(s), t \notin ToSet(s) PROVE Distinct(a)
  <2>1. \A i \in 1 .. n : s[i] # t
    BY <1>1, <1>3 DEF ToSet
  <2>2. ASSUME NEW i \in 1 .. n + 1, NEW j \in 1 .. n + 1, a[i] = a[j] PROVE i = j
    <3>1. (i \in 1 .. n \/ i = n + 1) /\ (j \in 1 .. n \/ j = n + 1)
      BY <1>1
    <3>2. QED
      BY <1>1, <1>3, <2>1, <2>2, <3>1 DEF Distinct
  <2>3. QED
    BY <1>1, <2>2 DEF Distinct
<1>4. QED
  BY <1>1, <1>2, <1>3 DEF a, n

LEMMA TailListing ==
  ASSUME NEW s \in Seq(Tables), s # <<>>
  PROVE  /\ Tail(s) \in Seq(Tables) /\ Len(Tail(s)) = Len(s) - 1
         /\ \A i \in 1 .. Len(Tail(s)) : Tail(s)[i] = s[i + 1]
         /\ Head(s) = s[1] /\ Head(s) \in Tables
         /\ ToSet(s) = ToSet(Tail(s)) \cup {Head(s)}
         /\ Distinct(s) => Distinct(Tail(s)) /\ Head(s) \notin ToSet(Tail(s))
<1> DEFINE u == Tail(s)
           n == Len(s)
<1>1. /\ u \in Seq(Tables) /\ Len(u) = n - 1 /\ n \in Nat /\ n >= 1
      /\ DOMAIN u = 1 .. n - 1 /\ DOMAIN s = 1 .. n
      /\ \A i \in 1 .. n - 1 : u[i] = s[i + 1]
      /\ Head(s) = s[1] /\ s[1] \in Tables
  BY HeadTailProperties, LenProperties, EmptySeq, ElementOfSeq
<1> HIDE DEF u, n
<1>2. ToSet(s) = ToSet(u) \cup {s[1]}
  <2>1. ASSUME NEW x \in ToSet(s) PROVE x \in ToSet(u) \cup {s[1]}
    <3>1. PICK i \in 1 .. n : s[i] = x
      BY <1>1 DEF ToSet
    <3>2. i = 1 \/ (i - 1 \in 1 .. n - 1 /\ i - 1 + 1 = i)
      BY <1>1
    <3>3. QED
      BY <1>1, <3>1, <3>2 DEF ToSet
  <2>2. ASSUME NEW x \in ToSet(u) PROVE x \in ToSet(s)
    <3>1. PICK i \in 1 .. n - 1 : u[i] = x
      BY <1>1 DEF ToSet
    <3>2. i + 1 \in 1 .. n /\ s[i + 1] = x
      BY <1>1, <3>1
    <3>3. QED
      BY <1>1, <3>2 DEF ToSet
  <2>3. 1 \in DOMAIN s
    BY <1>1
  <2>4. QED
    BY <2>1, <2>2, <2>3 DEF ToSet
<1>3. ASSUME Distinct(s) PROVE Distinct(u) /\ s[1] \notin ToSet(u)
  <2>1. ASSUME NEW i \in 1 .. n - 1 PROVE i + 1 \in 1 .. n /\ u[i] = s[i + 1] /\ s[i + 1] # s[1]
    <3>1. i + 1 \in 1 .. n /\ 1 \in 1 .. n /\ i + 1 # 1
      BY <1>1
    <3>2. QED
      BY <1>1, <1>3, <3>1 DEF Distinct
  <2>2. ASSUME NEW i \in 1 .. n - 1, NEW j \in 1 .. n - 1, u[i] = u[j] PROVE i = j
    <3>1. i + 1 \in DOMAIN s /\ j + 1 \in DOMAIN s /\ s[i + 1] = s[j + 1]
      BY <1>1, <2>1, <2>2
    <3>2. i + 1 = j + 1
      BY <1>3, <3>1 DEF Distinct
    <3>3. QED
      BY <1>1, <3>2
  <2>3. QED
    BY <1>1, <2>1, <2>2 DEF Distinct, ToSet
<1>4. QED
  BY <1>1, <1>2, <1>3 DEF u, n

\* A list holds as many tables as it is long.
LEMMA ListingSize ==
  ASSUME NEW s, Listing(s)
  PROVE  IsFiniteSet(ToSet(s)) /\ Cardinality(ToSet(s)) = Len(s)
<1>1. Len(s) \in Nat /\ DOMAIN s = 1 .. Len(s) /\ s \in [1 .. Len(s) -> ToSet(s)]
  BY LenProperties DEF Listing, ToSet
<1>2. s \in Injection(1 .. Len(s), ToSet(s)) /\ s \in Surjection(1 .. Len(s), ToSet(s))
  BY <1>1 DEF Listing, Distinct, Injection, IsInjective, Surjection, ToSet
<1>3. IsFiniteSet(1 .. Len(s)) /\ Cardinality(1 .. Len(s)) = Len(s)
  BY <1>1, FS_Interval
<1>4. QED
  BY <1>2, <1>3, FS_Surjection
\* Any part of a list is a list.
LEMMA PartListing ==
  ASSUME NEW s, Listing(s), NEW m \in 1 .. Len(s) + 1, NEW n \in 0 .. Len(s), m <= n + 1
  PROVE  LET p == SubSeq(s, m, n)
         IN  /\ Listing(p) /\ Len(p) = n - m + 1
             /\ \A i \in 1 .. n - m + 1 : p[i] = s[m + i - 1]
             /\ ToSet(p) = {s[i] : i \in m .. n} /\ ToSet(p) \subseteq ToSet(s)
<1> DEFINE p == SubSeq(s, m, n)
           k == n - m + 1
<1>1. Len(s) \in Nat /\ DOMAIN s = 1 .. Len(s) /\ \A i \in 1 .. Len(s) : s[i] \in Tables
  BY Elements DEF Listing
<1>2. k \in Nat /\ \A i \in 1 .. k : m + i - 1 \in m .. n /\ m + i - 1 \in DOMAIN s
  BY <1>1
<1>3. p \in Seq(Tables) /\ Len(p) = k /\ \A i \in 1 .. k : p[i] = s[m + i - 1]
  <2>1. \A i \in m .. n : s[i] \in Tables
    BY <1>1
  <2>2. m \in Int /\ n \in Int
    BY <1>1
  <2>3. QED
    BY <1>1, <2>1, <2>2, SubSeqProperties
<1> HIDE DEF p
<1>4. DOMAIN p = 1 .. k
  BY <1>3, LenProperties
<1>5. Distinct(p)
  <2>1. ASSUME NEW i \in 1 .. k, NEW j \in 1 .. k, p[i] = p[j] PROVE i = j
    <3>1. s[m + i - 1] = s[m + j - 1]
      BY <1>3, <2>1
    <3>2. m + i - 1 = m + j - 1
      BY <1>2, <3>1 DEF Listing, Distinct
    <3>3. QED
      BY <1>1, <3>2
  <2>2. QED
    BY <1>4, <2>1 DEF Distinct
<1>6. ToSet(p) = {s[i] : i \in m .. n}
  <2>1. ASSUME NEW x \in ToSet(p) PROVE x \in {s[i] : i \in m .. n}
    <3>1. PICK i \in 1 .. k : p[i] = x
      BY <1>4 DEF ToSet
    <3>2. QED
      BY <1>2, <1>3, <3>1
  <2>2. ASSUME NEW i \in m .. n PROVE s[i] \in ToSet(p)
    <3>1. i - m + 1 \in 1 .. k /\ m + (i - m + 1) - 1 = i
      BY <1>1
    <3>2. p[i - m + 1] = s[i]
      BY <1>3, <3>1
    <3>3. QED
      BY <1>4, <3>1, <3>2 DEF ToSet
  <2>3. QED
    BY <2>1, <2>2
<1>7. {s[i] : i \in m .. n} \subseteq ToSet(s)
  BY <1>1 DEF ToSet
<1>8. QED
  BY <1>3, <1>5, <1>6, <1>7 DEF Listing, p

\* Two lists of different tables, one behind the other.
LEMMA ConcatListing ==
  ASSUME NEW p, Listing(p), NEW q, Listing(q), ToSet(p) \cap ToSet(q) = {}
  PROVE  /\ Listing(p \o q) /\ Len(p \o q) = Len(p) + Len(q)
         /\ ToSet(p \o q) = ToSet(p) \cup ToSet(q)
<1> DEFINE s == p \o q
           m == Len(p)
           n == Len(q)
<1>1. /\ m \in Nat /\ n \in Nat /\ DOMAIN p = 1 .. m /\ DOMAIN q = 1 .. n
      /\ p \in Seq(Tables) /\ q \in Seq(Tables)
  BY LenProperties DEF Listing
<1>2. /\ s \in Seq(Tables) /\ Len(s) = m + n /\ DOMAIN s = 1 .. m + n
      /\ \A i \in 1 .. m : s[i] = p[i]
      /\ \A i \in 1 .. n : s[m + i] = q[i]
  <2>1. /\ s \in Seq(Tables) /\ Len(s) = m + n /\ DOMAIN s = 1 .. m + n
        /\ \A i \in 1 .. m + n : s[i] = IF i <= m THEN p[i] ELSE q[i - m]
    BY <1>1, ConcatProperties, LenProperties
  <2> HIDE DEF s, m, n
  <2>2. ASSUME NEW i \in 1 .. m PROVE s[i] = p[i]
    BY <1>1, <2>1
  <2>3. ASSUME NEW i \in 1 .. n PROVE s[m + i] = q[i]
    <3> DEFINE k == m + i
    <3>1. k \in 1 .. m + n /\ ~(k <= m) /\ k - m = i
      BY <1>1
    <3> HIDE DEF k
    <3>2. s[k] = q[i]
      BY <2>1, <3>1
    <3>3. QED
      BY <3>2 DEF k
  <2>4. QED
    BY <2>1, <2>2, <2>3
<1> HIDE DEF s, m, n
<1>3. ASSUME NEW i \in 1 .. m + n
      PROVE  \/ i \in 1 .. m /\ s[i] = p[i] /\ s[i] \in ToSet(p)
             \/ i - m \in 1 .. n /\ s[i] = q[i - m] /\ s[i] \in ToSet(q)
  <2>1. CASE i <= m
    BY <1>1, <1>2, <2>1 DEF ToSet
  <2>2. CASE ~(i <= m)
    <3>1. i - m \in 1 .. n /\ m + (i - m) = i
      BY <1>1, <2>2
    <3>2. s[i] = q[i - m]
      BY <1>2, <3>1
    <3>3. QED
      BY <1>1, <3>1, <3>2 DEF ToSet
  <2>3. QED
    BY <2>1, <2>2
<1>4. Distinct(s)
  <2>1. ASSUME NEW i \in 1 .. m + n, NEW j \in 1 .. m + n, s[i] = s[j] PROVE i = j
    <3>1. CASE i \in 1 .. m /\ s[i] = p[i] /\ s[i] \in ToSet(p)
      <4>1. j \in 1 .. m /\ s[j] = p[j]
        BY <1>3, <2>1, <3>1
      <4>2. QED
        BY <1>1, <2>1, <3>1, <4>1 DEF Listing, Distinct
    <3>2. CASE i - m \in 1 .. n /\ s[i] = q[i - m] /\ s[i] \in ToSet(q)
      <4>1. j - m \in 1 .. n /\ s[j] = q[j - m]
        BY <1>3, <2>1, <3>2
      <4>2. i - m = j - m
        BY <1>1, <2>1, <3>2, <4>1 DEF Listing, Distinct
      <4>3. QED
        BY <1>1, <4>2
    <3>3. QED
      BY <1>3, <3>1, <3>2
  <2>2. QED
    BY <1>2, <2>1 DEF Distinct
<1>5. ToSet(s) = ToSet(p) \cup ToSet(q)
  <2>1. ToSet(s) \subseteq ToSet(p) \cup ToSet(q)
    BY <1>2, <1>3 DEF ToSet
  <2>2. ASSUME NEW i \in 1 .. m PROVE p[i] \in ToSet(s)
    <3>1. i \in 1 .. m + n /\ s[i] = p[i]
      BY <1>1, <1>2
    <3>2. QED
      BY <1>2, <3>1 DEF ToSet
  <2>3. ASSUME NEW i \in 1 .. n PROVE q[i] \in ToSet(s)
    <3>1. m + i \in 1 .. m + n
      BY <1>1
    <3>2. QED
      BY <1>2, <3>1 DEF ToSet
  <2>4. QED
    BY <1>1, <2>1, <2>2, <2>3 DEF ToSet
<1>6. QED
  BY <1>2, <1>4, <1>5 DEF Listing, s, m, n

\* The end of a list is one.
LEMMA EndListing ==
  ASSUME NEW s, Listing(s), NEW k \in 0 .. Len(s)
  PROVE  /\ Listing(SubSeq(s, k + 1, Len(s))) /\ Len(SubSeq(s, k + 1, Len(s))) = Len(s) - k
         /\ ToSet(SubSeq(s, k + 1, Len(s))) = {s[j] : j \in k + 1 .. Len(s)}
<1>1. Len(s) \in Nat
  BY LenProperties DEF Listing
<1> DEFINE m == k + 1
           n == Len(s)
<1>2. m \in 1 .. Len(s) + 1 /\ n \in 0 .. Len(s) /\ m <= n + 1 /\ n - m + 1 = Len(s) - k
  BY <1>1
<1> HIDE DEF m, n
<1>3. Listing(SubSeq(s, m, n)) /\ Len(SubSeq(s, m, n)) = Len(s) - k
      /\ ToSet(SubSeq(s, m, n)) = {s[j] : j \in m .. n}
  BY <1>2, PartListing
<1>4. QED
  BY <1>3 DEF m, n

\* Taking one element out of a list.
LEMMA RemoveListing ==
  ASSUME NEW s, Listing(s), NEW t
  PROVE  /\ Listing(RemoveFirst(s, t)) /\ Len(RemoveFirst(s, t)) <= Len(s)
         /\ Len(RemoveFirst(s, t)) \in Nat
         /\ ToSet(RemoveFirst(s, t)) = ToSet(s) \ {t}
<1>1. Len(s) \in Nat /\ DOMAIN s = 1 .. Len(s)
  BY Elements DEF Listing
<1>2. CASE t \notin ToSet(s)
  <2>1. RemoveFirst(s, t) = s
    BY <1>1, <1>2 DEF RemoveFirst, ToSet
  <2>2. QED
    BY <1>1, <1>2, <2>1
<1>3. CASE t \in ToSet(s)
  <2> DEFINE I == {i \in 1 .. Len(s) : s[i] = t}
  <2>1. I \subseteq Nat /\ I # {}
    BY <1>1, <1>3 DEF ToSet
  <2>2. Min(I) \in I
    <3> HIDE DEF I
    <3>1. \E n \in I : \A m \in I : n <= m
      BY <2>1, LeastNat
    <3>2. QED
      BY <3>1 DEF Min
  <2>3. PICK i \in 1 .. Len(s) : i = Min(I) /\ s[i] = t
    BY <2>2
  <2>4. RemoveFirst(s, t) = SubSeq(s, 1, i - 1) \o SubSeq(s, i + 1, Len(s))
    BY <2>1, <2>3 DEF RemoveFirst, RemoveAt, SelectInSeq
  <2> DEFINE p == SubSeq(s, 1, i - 1)
             q == SubSeq(s, i + 1, Len(s))
  <2>5. Listing(p) /\ Len(p) = i - 1 /\ ToSet(p) = {s[j] : j \in 1 .. i - 1}
    BY <1>1, PartListing
  <2>6. Listing(q) /\ Len(q) = Len(s) - i /\ ToSet(q) = {s[j] : j \in i + 1 .. Len(s)}
    <3>1. i \in 0 .. Len(s)
      BY <1>1
    <3>2. QED
      BY ONLY Listing(s), <3>1, EndListing
  <2> HIDE DEF p, q
  <2>7. \A j, k \in 1 .. Len(s) : s[j] = s[k] => j = k
    BY <1>1 DEF Listing, Distinct
  <2>8. ToSet(p) \cap ToSet(q) = {}
    BY <1>1, <2>5, <2>6, <2>7
  <2>9. ToSet(p) \cup ToSet(q) = ToSet(s) \ {t}
    <3>1. ASSUME NEW x \in ToSet(s) \ {t} PROVE x \in ToSet(p) \cup ToSet(q)
      <4>1. PICK j \in 1 .. Len(s) : s[j] = x
        BY <1>1 DEF ToSet
      <4>2. j \in 1 .. i - 1 \/ j \in i + 1 .. Len(s)
        BY <1>1, <2>3, <4>1
      <4>3. QED
        BY <2>5, <2>6, <4>1, <4>2
    <3>2. ASSUME NEW j \in 1 .. Len(s), j # i PROVE s[j] \in ToSet(s) \ {t}
      BY <1>1, <2>3, <2>7, <3>2 DEF ToSet
    <3>3. \A j \in 1 .. i - 1 : j \in 1 .. Len(s) /\ j # i
      BY <1>1
    <3>4. \A j \in i + 1 .. Len(s) : j \in 1 .. Len(s) /\ j # i
      BY <1>1
    <3>5. QED
      BY <2>5, <2>6, <3>1, <3>2, <3>3, <3>4
  <2>10. /\ Listing(p \o q) /\ Len(p \o q) = Len(p) + Len(q)
         /\ ToSet(p \o q) = ToSet(p) \cup ToSet(q)
    BY <2>5, <2>6, <2>8, ConcatListing
  <2>11. RemoveFirst(s, t) = p \o q
    BY <2>4 DEF p, q
  <2>12. Len(p) + Len(q) <= Len(s) /\ Len(p) + Len(q) \in Nat
    BY <1>1, <2>5, <2>6
  <2>13. QED
    BY <2>9, <2>10, <2>11, <2>12
<1>4. QED
  BY <1>2, <1>3

LEMMA Bounds ==
  /\ Capacity \in Nat /\ BatchSize \in Nat /\ Reserved \in Nat
  /\ 0 < Reserved /\ Reserved < BatchSize /\ BatchSize <= Capacity
BY CacheAssumption

LEMMA IncludeListing ==
  ASSUME NEW s, Listing(s), NEW t \in Tables
  PROVE  /\ Listing(Include(s, t)) /\ ToSet(Include(s, t)) = ToSet(s) \cup {t}
         /\ Len(Include(s, t)) \in {Len(s), Len(s) + 1}
         /\ \A i \in 1 .. Len(s) : Include(s, t)[i] = s[i]
BY AppendListing DEF Include, Listing

(***************************************************************************)
(* The operations on the queue of misses                                   *)
(***************************************************************************)

\* A queue within its bound.
Queue(p) == Listing(p) /\ Len(p) <= Capacity

\* schedule: the miss is in the queue afterwards, and only a full queue lets one go.
LEMMA ScheduleQueue ==
  ASSUME NEW p, Queue(p), NEW t \in Tables
  PROVE  /\ Queue(Schedule(p, t)) /\ t \in ToSet(Schedule(p, t))
         /\ Len(Schedule(p, t)) >= Len(p)
         /\ ToSet(p) \subseteq ToSet(Schedule(p, t)) \/ Len(Schedule(p, t)) = Capacity
<1>1. Len(p) \in Nat /\ p \in Seq(Tables) /\ Distinct(p) /\ Capacity \in Nat /\ Capacity > 0
  BY LenProperties, Bounds DEF Queue, Listing
<1>2. CASE t \in ToSet(p)
  BY <1>1, <1>2 DEF Schedule
<1>3. CASE t \notin ToSet(p) /\ Len(p) < Capacity
  <2>1. Schedule(p, t) = Append(p, t)
    BY <1>1, <1>3 DEF Schedule
  <2>2. QED
    BY <1>1, <1>3, <2>1, AppendListing DEF Queue, Listing
<1>4. CASE t \notin ToSet(p) /\ Len(p) >= Capacity
  <2>1. Schedule(p, t) = Append(Tail(p), t)
    BY <1>4 DEF Schedule
  <2>2. Len(p) = Capacity /\ p # <<>>
    BY <1>1, <1>4, EmptySeq DEF Queue
  <2>3. /\ Tail(p) \in Seq(Tables) /\ Distinct(Tail(p)) /\ Len(Tail(p)) = Capacity - 1
        /\ t \notin ToSet(Tail(p))
    BY <1>1, <1>4, <2>2, TailListing
  <2>4. /\ Append(Tail(p), t) \in Seq(Tables) /\ Distinct(Append(Tail(p), t))
        /\ Len(Append(Tail(p), t)) = Capacity - 1 + 1 /\ t \in ToSet(Append(Tail(p), t))
    BY <2>3, AppendListing
  <2>5. QED
    BY <1>1, <2>1, <2>2, <2>4 DEF Queue, Listing
<1>5. QED
  BY <1>1, <1>2, <1>3, <1>4

\* A queue that let a miss go took a new one in.
LEMMA FullQueue ==
  ASSUME NEW p, Queue(p), NEW q, Queue(q), Len(q) = Capacity, ~(ToSet(p) \subseteq ToSet(q))
  PROVE  ToSet(q) \ ToSet(p) # {}
<1> SUFFICES ASSUME ToSet(q) \subseteq ToSet(p) PROVE FALSE
  OBVIOUS
<1>1. /\ IsFiniteSet(ToSet(p)) /\ Cardinality(ToSet(p)) = Len(p) /\ Len(p) <= Capacity
      /\ IsFiniteSet(ToSet(q)) /\ Cardinality(ToSet(q)) = Capacity
      /\ Len(p) \in Nat /\ Capacity \in Nat
  BY ListingSize, LenProperties, Bounds DEF Queue, Listing
<1>2. ToSet(q) # ToSet(p)
  OBVIOUS
<1>3. Cardinality(ToSet(q)) <= Cardinality(ToSet(p))
  BY <1>1, FS_Subset
<1>4. Cardinality(ToSet(q)) < Cardinality(ToSet(p))
  BY <1>1, <1>2, <1>3, FS_Subset
<1>5. QED
  BY <1>1, <1>4

\* resolve: nothing but a full queue lets a miss go, and a transaction with misses
\* leaves one of its own in the queue.
LEMMA MissesQueue ==
  ASSUME Queue(pending), NEW tx \in Transactions
  PROVE  /\ Queue(MissesQueued(tx))
         /\ ToSet(pending) \subseteq ToSet(MissesQueued(tx)) \/ Len(MissesQueued(tx)) = Capacity
         /\ Missing(tx) => \E l \in ToSet(tx) : l.table \in ToSet(MissesQueued(tx))
<1> DEFINE S == {p \in Seq(Tables) : /\ Queue(p)
                                     /\ ToSet(pending) \subseteq ToSet(p) \/ Len(p) = Capacity}
           N == Len(tx)
<1>1. /\ N \in Nat /\ DOMAIN tx = 1 .. N
      /\ \A l \in ToSet(tx) : l.table \in Tables
      /\ \A n \in 1 .. N : tx[n] \in ToSet(tx)
      /\ \A l \in ToSet(tx) : \E n \in 1 .. N : tx[n] = l
  <2>1. tx \in Seq(Lookups)
    BY CacheAssumption
  <2>2. \A n \in 1 .. N : tx[n] \in Lookups
    BY <2>1, ElementOfSeq
  <2>3. \A l \in Lookups : l.table \in Tables
    BY DEF Lookups
  <2>4. QED
    BY <2>1, <2>2, <2>3, LenProperties DEF ToSet
<1>2. pending \in S
  BY DEF Queue, Listing
<1>3. ASSUME NEW p \in S, NEW l \in ToSet(tx) PROVE QueueMissed(p, l) \in S
  <2>1. /\ Queue(Schedule(p, l.table)) /\ Schedule(p, l.table) \in Seq(Tables)
        /\ Len(Schedule(p, l.table)) >= Len(p)
        /\ ToSet(p) \subseteq ToSet(Schedule(p, l.table)) \/ Len(Schedule(p, l.table)) = Capacity
    BY <1>1, ScheduleQueue DEF Queue, Listing
  <2>2. ToSet(pending) \subseteq ToSet(Schedule(p, l.table)) \/ Len(Schedule(p, l.table)) = Capacity
    <3>1. Len(Schedule(p, l.table)) \in Nat /\ Capacity \in Nat
      BY <2>1, LenProperties, Bounds
    <3>2. QED
      BY <2>1, <3>1 DEF Queue
  <2>3. QED
    BY <2>1, <2>2 DEF QueueMissed
<1>4. PICK upTo \in [0 .. N -> S] :
        /\ upTo[0] = pending
        /\ \A n \in 1 .. N : upTo[n] = QueueMissed(upTo[n - 1], tx[n])
        /\ MissesQueued(tx) = upTo[N]
  <2> HIDE DEF S
  <2> QED
    BY <1>2, <1>3, MissesUnfold
<1>5. MissesQueued(tx) \in S
  BY <1>1, <1>4
<1> DEFINE Owes(n) == (\E i \in 1 .. n : Missed(tx[i]))
                        => \E i \in 1 .. n : tx[i].table \in ToSet(upTo[n])
           K == {n \in 0 .. N : Owes(n)}
<1>6. 0 \in K
  BY <1>1
<1>7. ASSUME NEW n \in 1 .. N, n - 1 \in K PROVE n \in K
  <2>1. upTo[n] = QueueMissed(upTo[n - 1], tx[n]) /\ upTo[n - 1] \in S
    <3> HIDE DEF S, N
    <3>1. n - 1 \in 0 .. N
      BY <1>1
    <3>2. QED
      BY <1>4, <3>1
  <2>2. CASE Missed(tx[n])
    <3>1. tx[n].table \in ToSet(upTo[n])
      BY <1>1, <2>1, <2>2, ScheduleQueue DEF QueueMissed
    <3>2. QED
      BY <1>1, <3>1
  <2>3. CASE ~Missed(tx[n])
    <3>1. upTo[n] = upTo[n - 1]
      BY <2>1, <2>3 DEF QueueMissed
    <3>2. \A i \in 1 .. n : Missed(tx[i]) => i \in 1 .. n - 1
      BY <1>1, <2>3
    <3>3. \A i \in 1 .. n - 1 : i \in 1 .. n
      BY <1>1
    <3>4. Owes(n - 1)
      BY <1>7
    <3>5. Owes(n)
      BY <3>1, <3>2, <3>3, <3>4
    <3>6. QED
      BY <1>1, <3>5
  <2>4. QED
    BY <2>2, <2>3
<1>8. N \in K
  <2> HIDE DEF K
  <2>1. 0 .. N \subseteq K
    BY <1>1, <1>6, <1>7, Throughout
  <2>2. QED
    BY <1>1, <2>1
<1>9. Missing(tx) => \E l \in ToSet(tx) : l.table \in ToSet(MissesQueued(tx))
  BY <1>1, <1>4, <1>8 DEF Missing
<1>10. QED
  BY <1>5, <1>9

LEMMA RotatedQueue ==
  ASSUME Queue(pending), NEW n \in 0 .. Len(pending)
  PROVE  Queue(RotateMisses(n)) /\ ToSet(RotateMisses(n)) = ToSet(pending)
<1> DEFINE p == SubSeq(pending, n + 1, Len(pending))
           q == SubSeq(pending, 1, n)
           N == Len(pending)
<1>1. Listing(pending) /\ N \in Nat /\ N <= Capacity /\ DOMAIN pending = 1 .. N
  BY Elements DEF Queue, Listing
<1>2. Listing(p) /\ Len(p) = N - n /\ ToSet(p) = {pending[i] : i \in n + 1 .. N}
  BY <1>1, EndListing
<1>3. Listing(q) /\ Len(q) = n /\ ToSet(q) = {pending[i] : i \in 1 .. n}
  BY <1>1, PartListing
<1> HIDE DEF p, q
<1>4. ToSet(p) \cap ToSet(q) = {}
  <2>1. \A i, j \in 1 .. N : pending[i] = pending[j] => i = j
    BY <1>1 DEF Listing, Distinct
  <2>2. ASSUME NEW i \in n + 1 .. N, NEW j \in 1 .. n PROVE pending[i] # pending[j]
    <3>1. i \in 1 .. N /\ j \in 1 .. N /\ i # j
      BY <1>1
    <3>2. QED
      BY <2>1, <3>1
  <2>3. QED
    BY <1>2, <1>3, <2>2
<1>5. ToSet(p) \cup ToSet(q) = ToSet(pending)
  <2>1. ASSUME NEW x \in ToSet(pending) PROVE x \in ToSet(p) \cup ToSet(q)
    <3>1. PICK i \in 1 .. N : pending[i] = x
      BY <1>1 DEF ToSet
    <3>2. i \in 1 .. n \/ i \in n + 1 .. N
      BY <1>1
    <3>3. QED
      BY <1>2, <1>3, <3>1, <3>2
  <2>2. \A i \in n + 1 .. N : i \in DOMAIN pending
    BY <1>1
  <2>3. \A i \in 1 .. n : i \in DOMAIN pending
    BY <1>1
  <2>4. QED
    BY <1>2, <1>3, <2>1, <2>2, <2>3 DEF ToSet
<1>6. /\ Listing(p \o q) /\ Len(p \o q) = Len(p) + Len(q)
      /\ ToSet(p \o q) = ToSet(p) \cup ToSet(q)
  BY <1>2, <1>3, <1>4, ConcatListing
<1>7. Len(p) + Len(q) <= Capacity
  BY <1>1, <1>2, <1>3, Bounds
<1>8. RotateMisses(n) = p \o q
  BY DEF RotateMisses, p, q
<1>9. QED
  BY <1>5, <1>6, <1>7, <1>8 DEF Queue

(***************************************************************************)
(* store                                                                   *)
(***************************************************************************)

\* Snapshots exist of exactly the tables the map holds.
Snapped(c) == \A t \in Tables : t \in ToSet(c.cached) <=> c.snapshot[t] > 0

Sound(c) ==
  /\ Queue(c.cached) /\ Queue(c.pending) /\ c.snapshot \in [Tables -> Nat] /\ Snapped(c)

\* From c to d table t entered the map, or was overwritten in place.
Entered(c, d, t) ==
  \/ d.cached = c.cached
  \/ /\ t \notin ToSet(c.cached) /\ Len(c.cached) < Capacity
     /\ d.cached = Append(c.cached, t)
  \/ /\ t \notin ToSet(c.cached) /\ Len(c.cached) = Capacity
     /\ d.cached = Tail(Append(c.cached, t))

\* Storing one table: it enters at the end of the map or is overwritten in place;
\* a full map gives up its first entry.
OneStored(c, t, addresses, d) ==
  /\ Sound(d) /\ t \in ToSet(d.cached) /\ d.snapshot[t] = addresses
  /\ \A u \in Tables : u # t => d.snapshot[u] \in {0, c.snapshot[u]}
  /\ ToSet(d.pending) = ToSet(c.pending) \ {t}
  /\ Entered(c, d, t)

LEMMA StoreOneSound ==
  ASSUME NEW c, Sound(c), NEW t \in Tables, NEW addresses \in Nat, addresses > 0,
         NEW d, d = StoreOne(c, t, addresses)
  PROVE  OneStored(c, t, addresses, d)
<1> SUFFICES /\ Sound(d) /\ t \in ToSet(d.cached) /\ d.snapshot[t] = addresses
             /\ \A u \in Tables : u # t => d.snapshot[u] \in {0, c.snapshot[u]}
             /\ ToSet(d.pending) = ToSet(c.pending) \ {t}
             /\ Entered(c, d, t)
  BY DEF OneStored
<1> DEFINE keys == Include(c.cached, t)
           loaded == [c.snapshot EXCEPT ![t] = addresses]
<1>1. /\ d.cached = IF Overfull(keys) THEN Tail(keys) ELSE keys
      /\ d.snapshot = IF Overfull(keys) THEN [loaded EXCEPT ![Head(keys)] = 0] ELSE loaded
      /\ d.pending = RemoveFirst(c.pending, t)
  BY DEF StoreOne
<1>2. /\ Listing(c.cached) /\ Len(c.cached) \in Nat /\ Len(c.cached) <= Capacity
      /\ Capacity \in Nat /\ Capacity > 0 /\ Snapped(c)
      /\ c.snapshot \in [Tables -> Nat] /\ c.cached \in Seq(Tables)
  BY LenProperties, Bounds DEF Sound, Queue, Listing
<1>3. /\ Listing(keys) /\ ToSet(keys) = ToSet(c.cached) \cup {t}
      /\ keys \in Seq(Tables)
  BY <1>2, IncludeListing DEF Listing
<1>4. /\ loaded \in [Tables -> Nat] /\ loaded[t] = addresses
      /\ \A u \in Tables : u # t => loaded[u] = c.snapshot[u]
  BY <1>2
<1>5. /\ Queue(d.pending) /\ ToSet(d.pending) = ToSet(c.pending) \ {t}
  <2>1. /\ Listing(d.pending) /\ Len(d.pending) <= Len(c.pending) /\ Len(d.pending) \in Nat
        /\ ToSet(d.pending) = ToSet(c.pending) \ {t}
    BY <1>1, RemoveListing DEF Sound, Queue
  <2>2. Len(c.pending) \in Nat /\ Len(c.pending) <= Capacity
    BY LenProperties DEF Sound, Queue, Listing
  <2>3. QED
    BY <1>2, <2>1, <2>2 DEF Queue
<1> HIDE DEF loaded
<1>6. CASE t \in ToSet(c.cached)
  <2>1. keys = c.cached /\ ~Overfull(keys)
    BY <1>2, <1>6 DEF Include, Overfull
  <2>2. d.cached = c.cached /\ d.snapshot = loaded
    BY <1>1, <2>1
  <2>3. Snapped(d)
    BY <1>2, <1>4, <1>6, <2>2 DEF Snapped
  <2>4. QED
    BY <1>2, <1>4, <1>5, <1>6, <2>2, <2>3 DEF Sound, Queue, Entered
<1>7. CASE t \notin ToSet(c.cached) /\ Len(c.cached) < Capacity
  <2>1. keys = Append(c.cached, t) /\ Len(keys) = Len(c.cached) + 1
    BY <1>2, <1>7, AppendListing DEF Include
  <2>2. ~Overfull(keys)
    BY <1>2, <1>7, <2>1 DEF Overfull
  <2>3. d.cached = keys /\ d.snapshot = loaded
    BY <1>1, <2>2
  <2>4. Snapped(d)
    BY <1>2, <1>3, <1>4, <2>3 DEF Snapped
  <2>5. Queue(d.cached)
    BY <1>2, <1>3, <1>7, <2>1, <2>3 DEF Queue
  <2>6. QED
    BY <1>3, <1>4, <1>5, <1>7, <2>1, <2>3, <2>4, <2>5 DEF Sound, Entered
<1>8. CASE t \notin ToSet(c.cached) /\ Len(c.cached) = Capacity
  <2>1. keys = Append(c.cached, t) /\ Len(keys) = Capacity + 1 /\ keys # <<>> /\ keys[1] = c.cached[1]
    BY <1>2, <1>8, AppendListing, EmptySeq DEF Include
  <2>2. Overfull(keys)
    BY <1>2, <2>1 DEF Overfull
  <2> DEFINE h == Head(keys)
  <2>3. /\ Tail(keys) \in Seq(Tables) /\ Len(Tail(keys)) = Capacity /\ Distinct(Tail(keys))
        /\ ToSet(keys) = ToSet(Tail(keys)) \cup {h} /\ h \notin ToSet(Tail(keys))
        /\ h \in Tables /\ h = c.cached[1]
    <3>1. keys \in Seq(Tables) /\ keys # <<>> /\ Distinct(keys)
      BY <1>3, <2>1 DEF Listing
    <3> HIDE DEF keys
    <3>2. /\ Tail(keys) \in Seq(Tables) /\ Len(Tail(keys)) = Len(keys) - 1
          /\ ToSet(keys) = ToSet(Tail(keys)) \cup {h} /\ h \in Tables /\ h = keys[1]
          /\ Distinct(Tail(keys)) /\ h \notin ToSet(Tail(keys))
      BY <3>1, TailListing
    <3>3. QED
      BY <1>2, <2>1, <3>2
  <2>4. h # t /\ h \in ToSet(c.cached)
    BY <1>2, <1>8, <2>3, Elements
  <2>5. d.cached = Tail(keys) /\ d.snapshot = [loaded EXCEPT ![h] = 0]
    BY <1>1, <2>2
  <2> HIDE DEF h
  <2>6. /\ d.snapshot \in [Tables -> Nat] /\ d.snapshot[h] = 0
        /\ \A u \in Tables : u # h => d.snapshot[u] = loaded[u]
    BY <1>4, <2>3, <2>5
  <2>7. Snapped(d)
    <3>1. ASSUME NEW u \in Tables PROVE u \in ToSet(d.cached) <=> d.snapshot[u] > 0
      <4>1. CASE u = h
        BY <2>3, <2>5, <2>6, <4>1
      <4>2. CASE u = t
        BY <1>3, <1>4, <2>3, <2>4, <2>5, <2>6, <4>2
      <4>3. CASE u # h /\ u # t
        <5>1. u \in ToSet(d.cached) <=> u \in ToSet(c.cached)
          BY <1>3, <2>3, <2>5, <4>3
        <5>2. d.snapshot[u] = c.snapshot[u]
          BY <1>4, <2>6, <4>3
        <5>3. QED
          BY <1>2, <5>1, <5>2 DEF Snapped
      <4>4. QED
        BY <4>1, <4>2, <4>3
    <3>2. QED
      BY <3>1 DEF Snapped
  <2>8. Queue(d.cached)
    BY <1>2, <2>3, <2>5 DEF Queue, Listing
  <2>9. t \in ToSet(d.cached) /\ d.snapshot[t] = addresses
    BY <1>3, <1>4, <2>3, <2>4, <2>5, <2>6
  <2>10. \A u \in Tables : u # t => d.snapshot[u] \in {0, c.snapshot[u]}
    BY <1>4, <2>6
  <2>11. QED
    BY <1>5, <1>8, <2>1, <2>5, <2>6, <2>7, <2>8, <2>9, <2>10 DEF Sound, Entered
<1>9. QED
  BY <1>2, <1>6, <1>7, <1>8

\* What is new in the map entered in the last n places.
Recent(c, n) ==
  \A i \in 1 .. Len(c.cached) : c.cached[i] \in ToSet(cached) \/ i + n > Len(c.cached)

\* A miss that left the queue is in the map, unless it was already.
Exchanged(c) ==
  \A t \in ToSet(pending) \ ToSet(c.pending) : t \in ToSet(cached) \cup ToSet(c.cached)

\* Storing one more table of an answer for at most as many as the map holds: what the
\* map had before the answer goes first.
LEMMA StoreOneKeeps ==
  ASSUME NEW c, Sound(c), NEW t \in Tables, NEW addresses \in Nat, addresses > 0,
         NEW d, d = StoreOne(c, t, addresses), NEW n \in 1 .. Capacity,
         Recent(c, n - 1), Exchanged(c)
  PROVE  Recent(d, n) /\ Exchanged(d)
<1>1. /\ c.cached \in Seq(Tables) /\ Len(c.cached) \in Nat /\ Len(c.cached) <= Capacity
      /\ Capacity \in Nat /\ Capacity > 0 /\ n \in Nat /\ n <= Capacity
  BY LenProperties, Bounds DEF Sound, Queue, Listing
<1>2. t \in ToSet(d.cached) /\ ToSet(d.pending) = ToSet(c.pending) \ {t} /\ Entered(c, d, t)
  <2>1. OneStored(c, t, addresses, d)
    BY StoreOneSound
  <2>2. QED
    BY <2>1 DEF OneStored
<1> DEFINE a == Append(c.cached, t)
<1>3. /\ a \in Seq(Tables) /\ Len(a) = Len(c.cached) + 1
      /\ \A i \in 1 .. Len(c.cached) : a[i] = c.cached[i]
      /\ a[Len(c.cached) + 1] = t /\ ToSet(a) = ToSet(c.cached) \cup {t}
      /\ a # <<>>
  <2>1. /\ a \in Seq(Tables) /\ Len(a) = Len(c.cached) + 1
        /\ \A i \in 1 .. Len(c.cached) : a[i] = c.cached[i]
        /\ a[Len(c.cached) + 1] = t /\ ToSet(a) = ToSet(c.cached) \cup {t}
    BY <1>1, AppendListing
  <2> HIDE DEF a
  <2>2. a # <<>>
    BY <1>1, <2>1, EmptySeq
  <2>3. QED
    BY <2>1, <2>2
<1> HIDE DEF a
<1>4. ASSUME NEW i \in 1 .. Len(a) PROVE a[i] \in ToSet(cached) \/ i + n > Len(a)
  <2>1. i \in 1 .. Len(c.cached) \/ i = Len(c.cached) + 1
    BY <1>1, <1>3
  <2>2. CASE i \in 1 .. Len(c.cached)
    <3>1. a[i] = c.cached[i]
      BY <1>3, <2>2
    <3>2. c.cached[i] \in ToSet(cached) \/ i + (n - 1) > Len(c.cached)
      BY <2>2 DEF Recent
    <3>3. i + (n - 1) > Len(c.cached) => i + n > Len(a)
      BY <1>1, <1>3, <2>2
    <3>4. QED
      BY <3>1, <3>2, <3>3
  <2>3. CASE i = Len(c.cached) + 1
    BY <1>1, <1>3, <2>3
  <2>4. QED
    BY <2>1, <2>2, <2>3
<1>5. Recent(d, n) /\ \A u \in ToSet(c.cached) : u \in ToSet(cached) \cup ToSet(d.cached)
  <2>1. CASE d.cached = c.cached
    <3>1. ASSUME NEW i \in 1 .. Len(c.cached)
          PROVE  c.cached[i] \in ToSet(cached) \/ i + n > Len(c.cached)
      <4>1. c.cached[i] \in ToSet(cached) \/ i + (n - 1) > Len(c.cached)
        BY DEF Recent
      <4>2. i + (n - 1) > Len(c.cached) => i + n > Len(c.cached)
        BY <1>1
      <4>3. QED
        BY <4>1, <4>2
    <3>2. QED
      BY <2>1, <3>1 DEF Recent
  <2>2. CASE d.cached = a
    BY <1>3, <1>4, <2>2 DEF Recent
  <2>3. CASE Len(c.cached) = Capacity /\ d.cached = Tail(a)
    <3>1. /\ Len(d.cached) = Len(a) - 1 /\ ToSet(a) = ToSet(d.cached) \cup {a[1]}
          /\ \A i \in 1 .. Len(d.cached) : d.cached[i] = a[i + 1]
      <4>1. /\ Tail(a) \in Seq(Tables) /\ Len(Tail(a)) = Len(a) - 1
            /\ \A i \in 1 .. Len(Tail(a)) : Tail(a)[i] = a[i + 1]
            /\ Head(a) = a[1] /\ ToSet(a) = ToSet(Tail(a)) \cup {Head(a)}
        BY <1>3, TailListing
      <4>2. QED
        BY <2>3, <4>1
    <3>2. a[1] \in ToSet(cached)
      <4>1. 1 \in 1 .. Len(a) /\ ~(1 + n > Len(a))
        BY <1>1, <1>3, <2>3
      <4>2. QED
        BY <1>4, <4>1
    <3>3. ASSUME NEW i \in 1 .. Len(d.cached)
          PROVE  d.cached[i] \in ToSet(cached) \/ i + n > Len(d.cached)
      <4>1. i + 1 \in 1 .. Len(a) /\ d.cached[i] = a[i + 1]
        BY <1>1, <1>3, <3>1
      <4>2. a[i + 1] \in ToSet(cached) \/ i + 1 + n > Len(a)
        BY <1>4, <4>1
      <4>3. i + 1 + n > Len(a) => i + n > Len(d.cached)
        <5>1. Len(a) \in Nat /\ i \in Int
          BY <1>1, <1>3
        <5>2. QED
          BY <1>1, <3>1, <5>1
      <4>4. QED
        BY <4>1, <4>2, <4>3
    <3>4. QED
      BY <1>3, <3>1, <3>2, <3>3 DEF Recent
  <2>4. QED
    BY <1>2, <2>1, <2>2, <2>3 DEF a, Entered
<1>6. Exchanged(d)
  BY <1>2, <1>5 DEF Exchanged
<1>7. QED
  BY <1>5, <1>6

\* An answer for no more than a batch of tables: the maps stay sound, a snapshot is
\* either dropped, the old one, or that of the answer, and no table of the answer
\* is pushed out by the others.
LEMMA StoreSound ==
  ASSUME Queue(cached), Queue(pending), snapshot \in [Tables -> Nat],
         \A t \in Tables : t \in ToSet(cached) <=> snapshot[t] > 0,
         NEW keys, Listing(keys), Len(keys) <= BatchSize, NEW view \in [Tables -> Nat],
         Store(keys, view)
  PROVE  /\ Queue(cached') /\ Queue(pending') /\ snapshot' \in [Tables -> Nat]
         /\ \A t \in Tables : t \in ToSet(cached') <=> snapshot'[t] > 0
         /\ \A t \in Tables : \/ snapshot'[t] \in {0, snapshot[t]}
                              \/ t \in ToSet(keys) /\ snapshot'[t] = view[t]
         /\ \A t \in ToSet(pending) \ ToSet(pending') : t \in ToSet(cached) \cup ToSet(cached')
<1> DEFINE N == Len(keys)
           now == [cached |-> cached, snapshot |-> snapshot, pending |-> pending]
           From(c) == \A t \in Tables : \/ c.snapshot[t] \in {0, snapshot[t]}
                                        \/ t \in ToSet(keys) /\ c.snapshot[t] = view[t]
           S == {c \in Maps : Sound(c) /\ From(c)}
<1>1. /\ N \in Nat /\ N <= Capacity /\ keys \in Seq(Tables)
      /\ \A n \in 1 .. N : keys[n] \in Tables /\ keys[n] \in ToSet(keys)
      /\ \A t \in ToSet(keys) : t \in Tables
  <2>1. N \in Nat /\ N <= BatchSize /\ keys \in Seq(Tables)
    BY LenProperties DEF Listing
  <2>2. QED
    BY <2>1, Bounds, Elements
<1>2. now \in S
  BY DEF Maps, Sound, Snapped, Queue, Listing
<1>3. ASSUME NEW c \in S, NEW t \in ToSet(keys) PROVE StoreKnown(c, t, view) \in S
  <2>1. CASE view[t] = 0
    BY <2>1 DEF StoreKnown
  <2>2. CASE view[t] # 0
    <3> DEFINE d == StoreOne(c, t, view[t])
    <3>1. StoreKnown(c, t, view) = d
      BY <2>2 DEF StoreKnown
    <3>2. t \in Tables /\ view[t] \in Nat /\ view[t] > 0
      BY <1>1, <2>2
    <3>3. Sound(d) /\ d.snapshot[t] = view[t]
          /\ \A u \in Tables : u # t => d.snapshot[u] \in {0, c.snapshot[u]}
      <4>1. Sound(c)
        OBVIOUS
      <4>2. OneStored(c, t, view[t], d)
        BY ONLY <3>2, <4>1, StoreOneSound
      <4>3. QED
        BY ONLY <4>2 DEF OneStored
    <3>4. d \in Maps
      <4>1. /\ d = [cached |-> d.cached, snapshot |-> d.snapshot, pending |-> d.pending]
        BY DEF StoreOne
      <4>2. /\ d.cached \in Seq(Tables) /\ d.snapshot \in [Tables -> Nat]
            /\ d.pending \in Seq(Tables)
        BY <3>3 DEF Sound, Queue, Listing
      <4> HIDE DEF d
      <4>3. QED
        BY <4>1, <4>2 DEF Maps
    <3> HIDE DEF d
    <3>5. From(d)
      BY <3>3
    <3>6. QED
      BY <3>1, <3>3, <3>4, <3>5
  <2>3. QED
    BY <2>1, <2>2
<1>4. PICK upTo \in [0 .. N -> S] :
        /\ upTo[0] = now
        /\ \A n \in 1 .. N : upTo[n] = StoreKnown(upTo[n - 1], keys[n], view)
        /\ Stored(keys, view) = upTo[N]
  <2>1. keys \in Seq(Tables)
    BY <1>1
  <2>2. \A c \in S, t \in ToSet(keys) : StoreKnown(c, t, view) \in S
    BY <1>3
  <2> HIDE DEF S
  <2>3. StoresWithin(S, keys, view)
    BY ONLY <1>2, <2>1, <2>2, StoredUnfolds
  <2>4. QED
    BY <2>3 DEF StoresWithin
<1> DEFINE K == {n \in 0 .. N : Recent(upTo[n], n) /\ Exchanged(upTo[n])}
<1>5. 0 \in K
  <2>1. Recent(now, 0) /\ Exchanged(now)
    BY Elements DEF Recent, Exchanged, Queue, Listing
  <2>2. QED
    BY <1>1, <1>4, <2>1
<1>6. ASSUME NEW n \in 1 .. N, n - 1 \in K PROVE n \in K
  <2> DEFINE c == upTo[n - 1]
             t == keys[n]
             d == upTo[n]
  <2>1. c \in S /\ d = StoreKnown(c, t, view)
    <3>1. n - 1 \in 0 .. N
      BY <1>1
    <3> HIDE DEF S, N
    <3>2. QED
      BY <1>4, <3>1
  <2>2. Recent(c, n - 1) /\ Exchanged(c)
    BY <1>6
  <2>3. /\ t \in Tables /\ t \in ToSet(keys) /\ n \in Nat /\ n - 1 \in Nat /\ n <= Capacity
        /\ Sound(c) /\ c.cached \in Seq(Tables) /\ Len(c.cached) \in Nat
        /\ Len(c.cached) <= Capacity /\ Capacity \in Nat /\ Capacity > 0
    <3>1. t \in Tables /\ t \in ToSet(keys)
      BY <1>1
    <3>2. Capacity \in Nat /\ Capacity > 0
      BY Bounds
    <3>3. n \in Nat /\ n - 1 \in Nat /\ n <= Capacity
      BY <1>1, <3>2
    <3>4. Sound(c)
      BY <2>1
    <3> HIDE DEF c, t, S, N, now
    <3>5. c.cached \in Seq(Tables) /\ Len(c.cached) \in Nat /\ Len(c.cached) <= Capacity
      BY <3>4, LenProperties DEF Sound, Queue, Listing
    <3>6. QED
      BY <3>1, <3>2, <3>3, <3>4, <3>5
  <2>0. n \in 0 .. N
    BY <1>1
  <2> SUFFICES Recent(d, n) /\ Exchanged(d)
    BY <2>0
  <2> HIDE DEF c, d, t, S, K, N, now
  <2>4. CASE view[t] = 0
    <3>1. d = c
      BY <2>1, <2>4 DEF StoreKnown
    <3>2. Recent(d, n)
      <4>1. ASSUME NEW i \in 1 .. Len(c.cached)
            PROVE  c.cached[i] \in ToSet(cached) \/ i + n > Len(c.cached)
        <5>1. c.cached[i] \in ToSet(cached) \/ i + (n - 1) > Len(c.cached)
          BY <2>2 DEF Recent
        <5>2. i + (n - 1) > Len(c.cached) => i + n > Len(c.cached)
          BY <2>3
        <5>3. QED
          BY <5>1, <5>2
      <4>2. QED
        BY <3>1, <4>1 DEF Recent
    <3>3. QED
      BY <2>2, <3>1, <3>2
  <2>5. CASE view[t] # 0
    <3>1. /\ d = StoreOne(c, t, view[t]) /\ view[t] \in Nat /\ view[t] > 0
      BY <2>1, <2>3, <2>5 DEF StoreKnown
    <3>2. n \in 1 .. Capacity /\ Sound(c) /\ t \in Tables
      BY <2>3
    <3>3. QED
      BY <2>2, <3>1, <3>2, StoreOneKeeps
  <2>6. QED
    BY <2>4, <2>5
<1>7. N \in K
  <2>1. 0 .. N \subseteq K
    <3> HIDE DEF K
    <3> QED
      BY <1>1, <1>5, <1>6, Throughout
  <2>2. QED
    BY <1>1, <2>1
<1>8. Stored(keys, view) \in S /\ Exchanged(Stored(keys, view))
  <2> HIDE DEF S
  <2>1. Exchanged(upTo[N])
    BY <1>7
  <2>2. upTo[N] \in S
    <3> HIDE DEF N
    <3>1. N \in 0 .. N
      BY <1>1
    <3>2. QED
      BY <1>4, <3>1
  <2>3. Stored(keys, view) = upTo[N]
    BY <1>4
  <2>4. QED
    BY <2>1, <2>2, <2>3
<1>9. /\ cached' = Stored(keys, view).cached /\ snapshot' = Stored(keys, view).snapshot
      /\ pending' = Stored(keys, view).pending
  BY DEF Store
<1>10. QED
  BY <1>8, <1>9 DEF Sound, Snapped, Exchanged

(***************************************************************************)
(* The keys of a request                                                   *)
(***************************************************************************)

\* Adding what is not there yet leaves a list without repetition.
LEMMA IncludingListing ==
  ASSUME NEW keys, Listing(keys), NEW list \in Seq(Tables)
  PROVE  Listing(Including(keys, list))
<1> DEFINE S == {s \in Seq(Tables) : Listing(s)}
           N == Len(list)
<1>1. keys \in S /\ N \in Nat /\ ToSet(list) \subseteq Tables
  BY Elements DEF Listing
<1>2. ASSUME NEW s \in S, NEW t \in ToSet(list) PROVE Include(s, t) \in S
  BY <1>1, IncludeListing DEF Listing
<1> HIDE DEF S
<1>3. PICK upTo \in [0 .. N -> S] : Including(keys, list) = upTo[N]
  BY <1>1, <1>2, IncludingUnfolds DEF Adds
<1>4. N \in 0 .. N
  BY <1>1
<1>5. upTo[N] \in S
  BY <1>3, <1>4
<1>6. QED
  BY <1>3, <1>5 DEF S

\* The part of the map that a refresh visits.
LEMMA Visited ==
  ASSUME cached \in Seq(Tables), refreshOffset \in Nat, NEW n \in 0 .. Len(cached)
  PROVE  /\ Visit(n) \in Seq(Tables) /\ Len(Visit(n)) = n
         /\ \A m \in 0 .. n : \A i \in 1 .. m : Visit(m)[i] = Visit(n)[i]
<1>1. Len(cached) \in Nat /\ \A i \in 1 .. Len(cached) : cached[i] \in Tables
  BY Elements
<1>2. ASSUME NEW i \in 1 .. n PROVE cached[((refreshOffset + i - 1) % Len(cached)) + 1] \in Tables
  <2> DEFINE L == Len(cached)
             x == refreshOffset + i - 1
  <2>1. L \in Nat /\ L > 0 /\ x \in Nat
    BY <1>1
  <2> HIDE DEF L, x
  <2>2. x % L \in 0 .. L - 1
    BY <2>1
  <2>3. (x % L) + 1 \in 1 .. L
    BY <2>1, <2>2
  <2>4. QED
    BY <1>1, <2>3 DEF L, x
<1>3. Visit(n) \in [1 .. n -> Tables]
  BY <1>2 DEF Visit
<1>4. Visit(n) \in Seq(Tables) /\ Len(Visit(n)) = n
  <2>1. n \in Nat
    BY <1>1
  <2> DEFINE w == Visit(n)
  <2>2. w \in [1 .. n -> Tables] /\ DOMAIN w = 1 .. n
    BY <1>3
  <2> HIDE DEF w
  <2>3. w \in Seq(Tables)
    BY <2>1, <2>2, SeqDef
  <2>4. Len(w) = n
    BY <2>1, <2>2, <2>3, LenProperties
  <2>5. QED
    BY <2>3, <2>4 DEF w
<1>5. ASSUME NEW m \in 0 .. n, NEW i \in 1 .. m PROVE Visit(m)[i] = Visit(n)[i]
  <2>1. i \in 1 .. n
    BY <1>1
  <2>2. QED
    BY <2>1 DEF Visit
<1>6. QED
  BY <1>4, <1>5

\* A batch is full or every cached table was visited: no batch is larger than a
\* batch may be.
LEMMA BatchFits ==
  ASSUME Listing(cached), refreshOffset \in Nat,
         NEW asked, Listing(asked), Len(asked) <= BatchSize,
         NEW v \in 0 .. Len(cached),
         \A m \in 0 .. v - 1 : Len(Including(asked, Visit(m))) # BatchSize
  PROVE  /\ Listing(Including(asked, Visit(v)))
         /\ Len(Including(asked, Visit(v))) <= BatchSize
<1> DEFINE S == {s \in Seq(Tables) : Listing(s)}
           list == Visit(v)
<1>1. /\ v \in Nat /\ Len(cached) \in Nat /\ BatchSize \in Nat /\ list \in Seq(Tables)
      /\ Len(list) = v /\ ToSet(list) \subseteq Tables /\ asked \in S
  BY Visited, Elements, Bounds DEF Listing
<1>2. ASSUME NEW s \in S, NEW t \in ToSet(list) PROVE Include(s, t) \in S
  BY <1>1, IncludeListing DEF Listing
<1>3. PICK upTo \in [0 .. v -> S] :
        /\ upTo[0] = asked
        /\ \A n \in 1 .. v : upTo[n] = Include(upTo[n - 1], list[n])
        /\ Including(asked, list) = upTo[v]
  <2> HIDE DEF S, list
  <2>1. \E upTo \in [0 .. Len(list) -> S] : Adds(upTo, asked, list)
    BY <1>1, <1>2, IncludingUnfolds
  <2>2. QED
    BY <1>1, <2>1 DEF Adds
<1>4. ASSUME NEW m \in 0 .. v PROVE upTo[m] = Including(asked, Visit(m))
  <2> DEFINE part == Visit(m)
  <2>1. m \in Nat /\ m \in 0 .. Len(cached)
    BY <1>1
  <2>2. /\ part \in Seq(Tables) /\ Len(part) = m /\ \A i \in 1 .. m : part[i] = list[i]
    BY <2>1, Visited DEF Listing
  <2>3. ToSet(part) \subseteq Tables
    BY <2>2, Elements
  <2>4. ASSUME NEW s \in S, NEW t \in ToSet(part) PROVE Include(s, t) \in S
    BY <2>3, IncludeListing DEF Listing
  <2>5. PICK g \in [0 .. m -> S] :
          /\ g[0] = asked
          /\ \A n \in 1 .. m : g[n] = Include(g[n - 1], part[n])
          /\ Including(asked, part) = g[m]
    <3> HIDE DEF S, part
    <3>1. \E g \in [0 .. Len(part) -> S] : Adds(g, asked, part)
      BY <1>1, <2>2, <2>4, IncludingUnfolds
    <3>2. QED
      BY <2>2, <3>1 DEF Adds
  <2> DEFINE K == {n \in 0 .. m : g[n] = upTo[n]}
  <2>6. 0 \in K
    BY <1>3, <2>1, <2>5
  <2>7. ASSUME NEW n \in 1 .. m, n - 1 \in K PROVE n \in K
    <3>1. g[n - 1] = upTo[n - 1]
      BY <2>7
    <3>2. n \in 1 .. v /\ n \in 0 .. m
      BY <1>1, <2>1
    <3> HIDE DEF S, part, list
    <3>3. g[n] = Include(g[n - 1], part[n]) /\ part[n] = list[n]
      BY <2>2, <2>5
    <3>4. upTo[n] = Include(upTo[n - 1], list[n])
      BY <1>3, <3>2
    <3>5. QED
      BY <3>1, <3>2, <3>3, <3>4
  <2>8. m \in K
    <3> HIDE DEF K
    <3>1. 0 .. m \subseteq K
      BY <2>1, <2>6, <2>7, Throughout
    <3>2. QED
      BY <2>1, <3>1
  <2>9. QED
    BY <2>5, <2>8
<1> DEFINE K == {n \in 0 .. v : Len(upTo[n]) <= BatchSize}
<1>5. 0 \in K
  BY <1>1, <1>3
<1>6. ASSUME NEW n \in 1 .. v, n - 1 \in K PROVE n \in K
  <2>1. n - 1 \in 0 .. v - 1 /\ n - 1 \in 0 .. v /\ n \in 0 .. v
    BY <1>1
  <2>2. Len(upTo[n - 1]) <= BatchSize
    BY <1>6
  <2>3. Len(upTo[n - 1]) # BatchSize
    <3> DEFINE k == n - 1
    <3> HIDE DEF k, S
    <3>1. k \in 0 .. v - 1 /\ k \in 0 .. v
      BY <2>1 DEF k
    <3>2. Len(Including(asked, Visit(k))) # BatchSize
      BY <3>1
    <3>3. upTo[k] = Including(asked, Visit(k))
      BY <1>4, <3>1
    <3>4. QED
      BY <3>2, <3>3 DEF k
  <2>4. upTo[n - 1] \in S /\ upTo[n] = Include(upTo[n - 1], list[n]) /\ list[n] \in Tables
    <3>1. list[n] \in Tables
      BY <1>1, ElementOfSeq
    <3> HIDE DEF S, list
    <3>2. QED
      BY <1>3, <2>1, <3>1
  <2> DEFINE s == upTo[n - 1]
             t == list[n]
  <2>5. Listing(s) /\ s \in Seq(Tables) /\ Len(s) \in Nat /\ t \in Tables /\ upTo[n] = Include(s, t)
    BY <2>4, LenProperties DEF Listing
  <2> HIDE DEF s, t, S, list
  <2>6. Len(Include(s, t)) \in {Len(s), Len(s) + 1}
    BY <2>5, IncludeListing
  <2>7. Len(upTo[n]) <= BatchSize
    BY <1>1, <2>2, <2>3, <2>5, <2>6 DEF s
  <2>8. QED
    BY <2>1, <2>7
<1>7. v \in K
  <2> HIDE DEF K
  <2>1. 0 .. v \subseteq K
    BY <1>1, <1>5, <1>6, Throughout
  <2>2. QED
    BY <1>1, <2>1
<1>8. Listing(Including(asked, list))
  BY <1>1, IncludingListing
<1>9. QED
  BY <1>3, <1>7, <1>8

(***************************************************************************)
(* The inductive invariant                                                 *)
(***************************************************************************)

\* The map, its snapshots and the queue of misses.
Books ==
  /\ published \in [Tables -> Nat] /\ snapshot \in [Tables -> Nat]
  /\ Queue(cached) /\ Queue(pending)
  /\ \A t \in Tables : t \in ToSet(cached) <=> snapshot[t] > 0

Control == running \in BOOLEAN /\ generation \in Nat /\ refreshOffset \in Nat /\ failures \in Nat

\* A call asks for a list of tables, and asked no later than now.
Asked(call) ==
  /\ Listing(call.keys) /\ call.generation \in Nat /\ call.since \in [Tables -> Nat]
  /\ \A t \in Tables : call.since[t] <= published[t]

\* No snapshot is ahead of the chain.
Truthful == \A t \in Tables : snapshot[t] <= published[t]

\* No snapshot is ahead of the moment at which the call asked for its table.
Current(call) == \A t \in ToSet(call.keys) : snapshot[t] <= call.since[t]

\* Only one call at a time can still be stored: the refresh of the running
\* subscription, or the preload of a cache that stands still.  What it may answer is
\* no older than what the cache has.
OneWriter ==
  /\ refreshing => /\ request.generation <= generation
                   /\ Wanted => running /\ Current(request)
  /\ preloading # NoCall => ~running /\ Current(preloading)

IInv ==
  /\ Books /\ Control /\ Truthful
  /\ Asked(request) /\ Len(request.keys) <= BatchSize /\ Asked(preloading)
  /\ OneWriter

LEMMA InvariantTypes == IInv => TypeOK
<1> SUFFICES ASSUME IInv PROVE TypeOK
  OBVIOUS
<1>1. ASSUME NEW call \in {request, preloading}
      PROVE  /\ call.keys \in Seq(Tables) /\ Distinct(call.keys) /\ call.generation \in Nat
             /\ call.since \in [Tables -> Nat]
  BY <1>1 DEF IInv, Asked, Listing
<1>2. QED
  BY <1>1 DEF IInv, Books, Control, Queue, Listing, TypeOK

LEMMA NoList == Listing(<<>>) /\ Len(<<>>) = 0 /\ ToSet(<<>>) = {}
BY EmptySeq DEF Listing, Distinct, ToSet

LEMMA AskedNothing ==
  ASSUME published \in [Tables -> Nat]
  PROVE  Asked(NoCall) /\ Current(NoCall) /\ Len(NoCall.keys) = 0
BY NoList DEF Asked, Current, NoCall, Nothing

\* A call sent now.
LEMMA AskedNow ==
  ASSUME published \in [Tables -> Nat], Truthful, NEW keys, Listing(keys), NEW g \in Nat,
         NEW call, call = [keys |-> keys, generation |-> g, since |-> Seen(keys)]
  PROVE  Asked(call) /\ Current(call) /\ call.keys = keys
<1>1. /\ call.keys = keys /\ call.generation = g /\ call.since = Seen(keys)
  OBVIOUS
<1>2. /\ Seen(keys) \in [Tables -> Nat]
      /\ \A t \in Tables : Seen(keys)[t] <= published[t]
      /\ \A t \in Tables : t \in ToSet(keys) => Seen(keys)[t] = published[t]
  BY DEF Seen
<1>3. ToSet(keys) \subseteq Tables
  BY Elements DEF Listing
<1> HIDE DEF Seen
<1>4. Asked(call)
  BY <1>1, <1>2 DEF Asked
<1>5. Current(call)
  BY <1>1, <1>2, <1>3 DEF Current, Truthful
<1>6. QED
  BY <1>1, <1>4, <1>5

LEMMA CallMade ==
  ASSUME published \in [Tables -> Nat], Truthful, NEW keys, Listing(keys)
  PROVE  /\ Asked(Call(keys)) /\ Current(Call(keys)) /\ Call(keys).keys = keys
         /\ \A t \in ToSet(keys) : Call(keys).since[t] = published[t]
<1>1. CASE keys = <<>>
  <2>1. Call(keys) = NoCall
    BY <1>1 DEF Call
  <2>2. NoCall.keys = keys
    BY <1>1 DEF NoCall
  <2>3. ToSet(keys) = {}
    BY <1>1, NoList
  <2>4. QED
    BY <2>1, <2>2, <2>3, AskedNothing
<1>2. CASE keys # <<>>
  <2>1. Call(keys) = [keys |-> keys, generation |-> 0, since |-> Seen(keys)]
    BY <1>2 DEF Call
  <2>2. \A t \in ToSet(keys) : Seen(keys)[t] = published[t]
    BY Elements DEF Seen, Listing
  <2>3. Asked(Call(keys)) /\ Current(Call(keys)) /\ Call(keys).keys = keys
    BY <2>1, AskedNow
  <2>4. QED
    BY <2>1, <2>2, <2>3
<1>3. QED
  BY <1>1, <1>2

\* An answer to a call whose tables are no newer in the cache than in the call.
LEMMA AnswerStored ==
  ASSUME Books, Truthful, NEW keys, Listing(keys), Len(keys) <= BatchSize, NEW call,
         Asked(call), Current(call), call.keys = keys, NEW view \in Views(call),
         Store(keys, view), published' = published
  PROVE  /\ Books' /\ Truthful'
         /\ \A t \in Tables : snapshot'[t] = 0 \/ snapshot'[t] >= snapshot[t]
         /\ \A t \in ToSet(pending) \ ToSet(pending') : t \in ToSet(cached) \cup ToSet(cached')
<1>1. /\ \A t \in Tables : published[t] \in Nat /\ call.since[t] \in Nat /\ snapshot[t] \in Nat
      /\ ToSet(keys) \subseteq Tables
  BY Elements DEF Books, Asked, Listing
<1>2. /\ view \in [Tables -> UNION {0 .. published[t] : t \in Tables}]
      /\ \A t \in Tables :
           view[t] \in (IF t \in ToSet(call.keys) THEN call.since[t] .. published[t] ELSE {0})
  BY DEF Views
<1>3. view \in [Tables -> Nat]
  <2>1. UNION {0 .. published[t] : t \in Tables} \subseteq Nat
    BY <1>1
  <2>2. QED
    BY <1>2, <2>1
<1>4. \A t \in ToSet(keys) : view[t] \in call.since[t] .. published[t]
  BY <1>1, <1>2
<1>5. /\ Queue(cached') /\ Queue(pending') /\ snapshot' \in [Tables -> Nat]
      /\ \A t \in Tables : t \in ToSet(cached') <=> snapshot'[t] > 0
      /\ \A t \in Tables : \/ snapshot'[t] \in {0, snapshot[t]}
                           \/ t \in ToSet(keys) /\ snapshot'[t] = view[t]
      /\ \A t \in ToSet(pending) \ ToSet(pending') : t \in ToSet(cached) \cup ToSet(cached')
  BY <1>3, StoreSound DEF Books
<1>6. ASSUME NEW t \in Tables
      PROVE  snapshot'[t] <= published[t] /\ (snapshot'[t] = 0 \/ snapshot'[t] >= snapshot[t])
  <2>1. snapshot[t] <= published[t]
    BY DEF Truthful
  <2>2. CASE snapshot'[t] \in {0, snapshot[t]}
    BY <1>1, <2>1, <2>2
  <2>3. CASE t \in ToSet(keys) /\ snapshot'[t] = view[t]
    <3>1. snapshot[t] <= call.since[t] /\ view[t] \in call.since[t] .. published[t]
      BY <1>4, <2>3 DEF Current
    <3>2. QED
      BY <1>1, <2>3, <3>1
  <2>4. QED
    BY <1>5, <2>2, <2>3
<1>7. QED
  BY <1>5, <1>6 DEF Books, Truthful

\* resolve leaves a sound queue behind, and a transaction that is skipped leaves one
\* of its tables there.
LEMMA ResolveQueue ==
  ASSUME IInv, NEW tx \in Transactions
  PROVE  /\ Queue(PendingAfter(tx))
         /\ ToSet(pending) \subseteq ToSet(PendingAfter(tx)) \/ Len(PendingAfter(tx)) = Capacity
         /\ ~Resolves(tx) => \E l \in ToSet(tx) : l.table \in ToSet(PendingAfter(tx))
<1>1. Queue(pending)
  BY DEF IInv, Books
<1>2. CASE Missing(tx)
  <2>1. PendingAfter(tx) = MissesQueued(tx)
    BY <1>2 DEF PendingAfter
  <2>2. QED
    BY <1>1, <1>2, <2>1, MissesQueue
<1>3. CASE ~Missing(tx) /\ Resolves(tx)
  <2>1. PendingAfter(tx) = pending
    BY <1>3 DEF PendingAfter
  <2>2. QED
    BY <1>1, <1>3, <2>1
<1>4. CASE ~Missing(tx) /\ ~Resolves(tx)
  <2> DEFINE l == FirstPast(tx)
  <2>1. PendingAfter(tx) = Schedule(pending, tx[l].table)
    BY <1>4 DEF PendingAfter
  <2>2. tx \in Seq(Lookups) /\ DOMAIN tx \subseteq Nat
    BY CacheAssumption, LenProperties
  <2>3. ASSUME NEW A, A \subseteq DOMAIN tx, A # {} PROVE Min(A) \in A
    <3>1. \E n \in A : \A m \in A : n <= m
      BY <2>2, <2>3, LeastNat
    <3>2. QED
      BY <3>1 DEF Min
  <2>4. /\ PastSnapshot(tx, "writable") \subseteq DOMAIN tx
        /\ PastSnapshot(tx, "readonly") \subseteq DOMAIN tx
    BY DEF PastSnapshot
  <2>5. PastSnapshot(tx, "writable") # {} \/ PastSnapshot(tx, "readonly") # {}
    BY <1>4 DEF Resolves
  <2>6. l \in DOMAIN tx
    BY <2>3, <2>4, <2>5 DEF FirstPast
  <2> HIDE DEF l
  <2>7. tx[l] \in ToSet(tx) /\ tx[l] \in Lookups
    BY <2>2, <2>6, LenProperties, ElementOfSeq DEF ToSet
  <2>8. tx[l].table \in Tables
    BY <2>7 DEF Lookups
  <2>9. /\ Queue(Schedule(pending, tx[l].table))
        /\ tx[l].table \in ToSet(Schedule(pending, tx[l].table))
        /\ \/ ToSet(pending) \subseteq ToSet(Schedule(pending, tx[l].table))
           \/ Len(Schedule(pending, tx[l].table)) = Capacity
    BY <1>1, <2>8, ScheduleQueue
  <2>10. QED
    BY <2>1, <2>7, <2>9
<1>5. QED
  BY <1>2, <1>3, <1>4

\* A refresh asks for a batch that fits, of different tables, and forgets no miss.
LEMMA RefreshAsks ==
  ASSUME IInv, Refresh
  PROVE  /\ Queue(pending') /\ ToSet(pending') = ToSet(pending) /\ refreshOffset' \in Nat
         /\ \E keys : /\ Listing(keys) /\ Len(keys) <= BatchSize
                      /\ request' = [keys |-> keys, generation |-> generation, since |-> Seen(keys)]
<1> DEFINE room == BatchSize - Least(Reserved, Len(cached))
           n == Least(Len(pending), room)
           asked == SubSeq(pending, 1, n)
           full(m) == m = Len(cached) \/ Len(Including(asked, Visit(m))) = BatchSize
           visited == CHOOSE m \in 0 .. Len(cached) : full(m) /\ \A k \in 0 .. m - 1 : ~full(k)
           keys == Including(asked, Visit(visited))
<1>1. /\ Queue(pending) /\ Listing(pending) /\ Len(pending) \in Nat
      /\ Listing(cached) /\ Len(cached) \in Nat /\ refreshOffset \in Nat
      /\ BatchSize \in Nat /\ Reserved \in Nat /\ 0 < Reserved /\ Reserved < BatchSize
  BY Bounds, LenProperties DEF IInv, Books, Control, Queue, Listing
<1>2. room \in Nat /\ room <= BatchSize
  BY <1>1 DEF Least
<1> HIDE DEF room
<1>3. n \in 0 .. Len(pending) /\ n <= BatchSize /\ n \in Nat
  BY <1>1, <1>2 DEF Least
<1> HIDE DEF n
<1>4. Listing(asked) /\ Len(asked) = n
  <2>1. 1 \in 1 .. Len(pending) + 1 /\ 1 <= n + 1 /\ n - 1 + 1 = n
    BY <1>1, <1>3
  <2>2. QED
    BY <1>1, <1>3, <2>1, PartListing
<1>5. /\ pending' = RotateMisses(Len(asked))
      /\ refreshOffset' = IF cached = <<>> THEN refreshOffset ELSE NextOffset(visited)
      /\ request' = [keys |-> keys, generation |-> generation, since |-> Seen(keys)]
  BY DEF Refresh, n, room
<1> HIDE DEF asked
<1>6. /\ visited \in 0 .. Len(cached)
      /\ \A k \in 0 .. visited - 1 : Len(Including(asked, Visit(k))) # BatchSize
  <2> DEFINE F == {m \in 0 .. Len(cached) : full(m)}
  <2>1. F \subseteq Nat /\ Len(cached) \in F
    BY <1>1
  <2> HIDE DEF F
  <2>2. PICK m \in F : \A k \in F : m <= k
    BY <2>1, LeastNat
  <2>3. m \in 0 .. Len(cached) /\ full(m)
    BY <2>2 DEF F
  <2>4. ASSUME NEW k \in 0 .. m - 1 PROVE ~full(k)
    <3>1. k \in 0 .. Len(cached) /\ ~(m <= k)
      BY <1>1, <2>3
    <3>2. QED
      BY <2>2, <3>1 DEF F
  <2> HIDE DEF full
  <2>5. \E x \in 0 .. Len(cached) : full(x) /\ \A k \in 0 .. x - 1 : ~full(k)
    BY <2>3, <2>4
  <2>6. visited \in 0 .. Len(cached) /\ \A k \in 0 .. visited - 1 : ~full(k)
    BY <2>5
  <2>7. QED
    BY <2>6 DEF full
<1> HIDE DEF visited
<1>7. Listing(keys) /\ Len(keys) <= BatchSize
  BY <1>1, <1>3, <1>4, <1>6, BatchFits
<1> HIDE DEF keys
<1>8. Queue(pending') /\ ToSet(pending') = ToSet(pending)
  BY <1>1, <1>3, <1>4, <1>5, RotatedQueue
<1>9. refreshOffset' \in Nat
  <2>1. CASE cached = <<>>
    BY <1>1, <1>5, <2>1
  <2>2. CASE cached # <<>>
    <3>1. Len(cached) > 0
      BY <1>1, <2>2, EmptySeq DEF Listing
    <3>2. visited \in Nat
      BY <1>1, <1>6
    <3>3. NextOffset(visited) \in Nat
      BY <1>1, <3>1, <3>2 DEF NextOffset
    <3>4. QED
      BY <1>5, <2>2, <3>3
  <2>3. QED
    BY <2>1, <2>2
<1>10. QED
  BY <1>5, <1>7, <1>8, <1>9

LEMMA Batches ==
  ASSUME NEW keys, Listing(keys)
  PROVE  /\ Listing(Batch(keys)) /\ Len(Batch(keys)) <= BatchSize
         /\ ToSet(Batch(keys)) \subseteq ToSet(keys) /\ Listing(Later(keys))
<1> DEFINE n == Least(Len(keys), BatchSize)
           m == n + 1
           N == Len(keys)
<1>1. N \in Nat /\ BatchSize \in Nat
  BY Bounds, LenProperties DEF Listing
<1>2. n \in 0 .. N /\ n <= BatchSize /\ n - 1 + 1 = n /\ 1 \in 1 .. N + 1 /\ 1 <= n + 1
  BY <1>1 DEF Least
<1>3. m \in 1 .. N + 1 /\ N \in 0 .. N /\ m <= N + 1
  BY <1>1, <1>2
<1>4. Batch(keys) = SubSeq(keys, 1, n) /\ Later(keys) = SubSeq(keys, m, N)
  BY DEF Batch, Later
<1> HIDE DEF n, m
<1>5. Listing(SubSeq(keys, 1, n)) /\ Len(SubSeq(keys, 1, n)) = n - 1 + 1
      /\ ToSet(SubSeq(keys, 1, n)) \subseteq ToSet(keys)
  BY <1>2, PartListing
<1>6. Listing(SubSeq(keys, m, N))
  BY <1>3, PartListing
<1>7. QED
  BY <1>2, <1>4, <1>5, <1>6

\* What a step of the cache may do to misses and snapshots.
MissesKeep ==
  \A t \in ToSet(pending) \ ToSet(pending') :
    \/ t \in ToSet(cached) \cup ToSet(cached')
    \/ Len(pending') = Capacity /\ ToSet(pending') \ ToSet(pending) # {}

SnapshotsKeep == \A t \in ToSet(cached) \cap ToSet(cached') : snapshot'[t] >= snapshot[t]

Lasting == IInv' /\ MissesKeep /\ SnapshotsKeep

LEMMA StoreLasts ==
  ASSUME IInv, UNCHANGED <<cached, snapshot, pending>>
  PROVE  MissesKeep /\ SnapshotsKeep
<1>1. \A t \in ToSet(cached) : snapshot[t] \in Nat
  BY Elements DEF IInv, Books, Queue, Listing
<1>2. QED
  BY <1>1 DEF MissesKeep, SnapshotsKeep

LEMMA AnswerLasts ==
  ASSUME Books, Books',
         \A t \in Tables : snapshot'[t] = 0 \/ snapshot'[t] >= snapshot[t],
         \A t \in ToSet(pending) \ ToSet(pending') : t \in ToSet(cached) \cup ToSet(cached')
  PROVE  MissesKeep /\ SnapshotsKeep
<1>1. \A t \in ToSet(cached) : t \in Tables
  BY Elements DEF Books, Queue, Listing
<1>2. \A t \in Tables : t \in ToSet(cached') => snapshot'[t] > 0
  BY DEF Books
<1>3. SnapshotsKeep
  BY <1>1, <1>2 DEF SnapshotsKeep
<1>4. QED
  BY <1>3 DEF MissesKeep

LEMMA ExtendLasts == ASSUME IInv, NEW t \in Tables, Extend(t) PROVE Lasting
<1>1. /\ published \in [Tables -> Nat] /\ published' = [published EXCEPT ![t] = @ + 1]
      /\ UNCHANGED <<cached, snapshot, pending, running, generation, refreshOffset, failures,
                     request, preloading>>
  BY DEF IInv, Books, Extend, store, timer
<1>2. /\ published' \in [Tables -> Nat]
      /\ \A u \in Tables : published[u] \in Nat /\ published'[u] \in Nat
                           /\ published[u] <= published'[u]
  BY <1>1
<1>3. Books' /\ Control'
  BY <1>1, <1>2 DEF IInv, Books, Control
<1>4. Truthful'
  <2>1. \A u \in Tables : snapshot[u] \in Nat /\ snapshot[u] <= published[u]
    BY DEF IInv, Books, Truthful
  <2>2. \A u \in Tables : snapshot[u] <= published'[u]
    BY <1>2, <2>1
  <2>3. QED
    BY <1>1, <2>2 DEF Truthful
<1>5. ASSUME NEW call, Asked(call) PROVE Asked(call)'
  <2>1. \A u \in Tables : call.since[u] \in Nat /\ call.since[u] <= published[u]
    BY <1>5 DEF Asked
  <2>2. \A u \in Tables : call.since[u] <= published'[u]
    BY <1>2, <2>1
  <2>3. QED
    BY <1>5, <2>2 DEF Asked
<1>6. Asked(request)' /\ Asked(preloading)'
  BY <1>1, <1>5 DEF IInv, Asked
<1>7. OneWriter'
  BY <1>1 DEF IInv, OneWriter, refreshing, Wanted, Current
<1>8. IInv'
  BY <1>1, <1>3, <1>4, <1>6, <1>7 DEF IInv
<1>9. QED
  BY <1>1, <1>8, StoreLasts DEF Lasting

LEMMA ResolveLasts == ASSUME IInv, NEW tx \in Transactions, Resolve(tx) PROVE Lasting
<1>1. /\ pending' = PendingAfter(tx)
      /\ UNCHANGED <<published, cached, snapshot, running, generation, refreshOffset, failures,
                     request, preloading>>
  BY DEF Resolve, store, timer
<1>2. Queue(pending') /\ (ToSet(pending) \subseteq ToSet(pending') \/ Len(pending') = Capacity)
  BY <1>1, ResolveQueue
<1>3. IInv'
  BY <1>1, <1>2 DEF IInv, Books, Control, Truthful, Asked, OneWriter, refreshing, Wanted, Current
<1>4. MissesKeep
  <2>1. CASE ToSet(pending) \subseteq ToSet(pending')
    BY <2>1 DEF MissesKeep
  <2>2. CASE Len(pending') = Capacity /\ ~(ToSet(pending) \subseteq ToSet(pending'))
    <3>1. Queue(pending)
      BY DEF IInv, Books
    <3>2. ToSet(pending') \ ToSet(pending) # {}
      BY <1>2, <2>2, <3>1, FullQueue
    <3>3. QED
      BY <2>2, <3>2 DEF MissesKeep
  <2>3. QED
    BY <1>2, <2>1, <2>2
<1>5. SnapshotsKeep
  <2>1. \A t \in ToSet(cached) : snapshot[t] \in Nat
    BY Elements DEF IInv, Books, Queue, Listing
  <2>2. QED
    BY <1>1, <2>1 DEF SnapshotsKeep
<1>6. QED
  BY <1>3, <1>4, <1>5 DEF Lasting

LEMMA StartLasts == ASSUME IInv, Start PROVE Lasting
<1>1. /\ ~running /\ preloading = NoCall /\ running' = TRUE /\ generation' = generation + 1
      /\ UNCHANGED <<published, cached, snapshot, pending, refreshOffset, failures, request,
                     preloading>>
  BY DEF Start, NextGeneration, store
<1>2. generation \in Nat
  BY DEF IInv, Control
<1>3. Books' /\ Control' /\ Truthful' /\ Asked(request)' /\ Asked(preloading)'
  BY <1>1, <1>2 DEF IInv, Books, Control, Truthful, Asked
<1>4. refreshing => request.generation \in Nat /\ request.generation <= generation
  BY DEF IInv, OneWriter, Asked
<1>5. OneWriter'
  BY <1>1, <1>2, <1>4 DEF OneWriter, refreshing, Wanted
<1>6. QED
  BY <1>1, <1>3, <1>5, StoreLasts DEF IInv, Lasting

LEMMA StopLasts == ASSUME IInv, Stop PROVE Lasting
<1>1. /\ running' = FALSE /\ generation' = generation + 1
      /\ UNCHANGED <<published, cached, snapshot, pending, refreshOffset, failures, request,
                     preloading>>
  BY DEF Stop, NextGeneration, store
<1>2. generation \in Nat
  BY DEF IInv, Control
<1>3. Books' /\ Control' /\ Truthful' /\ Asked(request)' /\ Asked(preloading)'
  <2>1. Control'
    <3>1. running' \in BOOLEAN
      BY <1>1
    <3>2. generation' \in Nat
      BY <1>1, <1>2
    <3>3. refreshOffset' \in Nat /\ failures' \in Nat
      BY <1>1 DEF IInv, Control
    <3>4. QED
      BY <3>1, <3>2, <3>3 DEF Control
  <2>2. Books' /\ Truthful' /\ Asked(request)' /\ Asked(preloading)'
    BY <1>1 DEF IInv, Books, Truthful, Asked
  <2>3. QED
    BY <2>1, <2>2
<1>4. refreshing => request.generation \in Nat /\ request.generation <= generation
  BY DEF IInv, OneWriter, Asked
<1>5. preloading # NoCall => Current(preloading)
  BY DEF IInv, OneWriter
<1>6. OneWriter'
  BY <1>1, <1>2, <1>4, <1>5 DEF OneWriter, refreshing, Wanted, Current
<1>7. QED
  BY <1>1, <1>3, <1>6, StoreLasts DEF IInv, Lasting

LEMMA RefreshLasts == ASSUME IInv, Refresh PROVE Lasting
<1>1. /\ running /\ UNCHANGED <<published, cached, snapshot, running, generation, failures,
                                preloading>>
  BY DEF Refresh, store
<1>2. /\ Queue(pending') /\ ToSet(pending') = ToSet(pending) /\ refreshOffset' \in Nat
  BY RefreshAsks
<1>3. PICK keys : /\ Listing(keys) /\ Len(keys) <= BatchSize
                  /\ request' = [keys |-> keys, generation |-> generation, since |-> Seen(keys)]
  BY RefreshAsks
<1>4. published \in [Tables -> Nat] /\ Truthful /\ generation \in Nat /\ Books /\ Control
      /\ Asked(preloading)
  BY DEF IInv, Books, Control
<1> DEFINE call == [keys |-> keys, generation |-> generation, since |-> Seen(keys)]
<1>5. Asked(call) /\ Current(call) /\ call.keys = keys /\ call.generation = generation
  BY <1>3, <1>4, AskedNow
<1> HIDE DEF call
<1>6. request' = call
  BY <1>3 DEF call
<1>7. Asked(request)' /\ Current(request)' /\ Len(request'.keys) <= BatchSize
      /\ request'.generation = generation
  BY <1>1, <1>3, <1>5, <1>6 DEF Asked, Current
<1>8. Books' /\ Control' /\ Truthful' /\ Asked(preloading)'
  BY <1>1, <1>2, <1>4 DEF Books, Control, Truthful, Asked
<1>9. preloading = NoCall
  BY <1>1 DEF IInv, OneWriter
<1>10. OneWriter'
  BY <1>1, <1>4, <1>7, <1>9 DEF OneWriter, Wanted, refreshing
<1>11. IInv'
  BY <1>7, <1>8, <1>10 DEF IInv
<1>12. MissesKeep
  BY <1>2 DEF MissesKeep
<1>13. SnapshotsKeep
  <2>1. \A t \in ToSet(cached) : snapshot[t] \in Nat
    BY <1>4, Elements DEF Books, Queue, Listing
  <2>2. QED
    BY <1>1, <2>1 DEF SnapshotsKeep
<1>14. QED
  BY <1>11, <1>12, <1>13 DEF Lasting

LEMMA RefreshAnsweredLasts == ASSUME IInv, RefreshAnswered PROVE Lasting
<1>1. /\ refreshing /\ request' = NoCall
      /\ UNCHANGED <<published, running, generation, refreshOffset, failures, preloading>>
  BY DEF RefreshAnswered
<1>2. published \in [Tables -> Nat] /\ Books /\ Truthful /\ Control
      /\ Asked(request) /\ Asked(preloading) /\ Len(request.keys) <= BatchSize
  BY DEF IInv, Books
<1>3. Control' /\ Asked(preloading)' /\ Asked(request)' /\ Len(request'.keys) <= BatchSize
  <2>1. Asked(NoCall) /\ Len(NoCall.keys) <= BatchSize
    BY <1>2, AskedNothing, Bounds
  <2>2. QED
    BY <1>1, <1>2, <2>1 DEF Control, Asked
<1>4. CASE Wanted
  <2>1. PICK view \in Views(request) : Store(request.keys, view)
    BY <1>4 DEF RefreshAnswered
  <2>2. running /\ Current(request) /\ preloading = NoCall
    BY <1>1, <1>4 DEF IInv, OneWriter
  <2>3. Listing(request.keys)
    BY <1>2 DEF Asked
  <2>4. /\ Books' /\ Truthful'
        /\ \A t \in Tables : snapshot'[t] = 0 \/ snapshot'[t] >= snapshot[t]
        /\ \A t \in ToSet(pending) \ ToSet(pending') : t \in ToSet(cached) \cup ToSet(cached')
    BY <1>1, <1>2, <2>1, <2>2, <2>3, AnswerStored
  <2>5. OneWriter'
    BY <1>1, <2>2 DEF OneWriter, refreshing
  <2>6. QED
    BY <1>2, <1>3, <2>4, <2>5, AnswerLasts DEF IInv, Lasting
<1>5. CASE ~Wanted
  <2>1. UNCHANGED <<cached, snapshot, pending>>
    BY <1>5 DEF RefreshAnswered, store
  <2>2. OneWriter'
    BY <1>1, <2>1 DEF IInv, OneWriter, refreshing, Current
  <2>3. Books' /\ Truthful'
    BY <1>1, <1>2, <2>1 DEF Books, Truthful
  <2>4. QED
    BY <1>3, <2>1, <2>2, <2>3, StoreLasts DEF IInv, Lasting
<1>6. QED
  BY <1>4, <1>5

LEMMA RefreshFailsLasts == ASSUME IInv, RefreshFails PROVE Lasting
<1>1. /\ request' = NoCall /\ failures' = failures + 1
      /\ UNCHANGED <<published, cached, snapshot, pending, running, generation, refreshOffset,
                     preloading>>
  BY DEF RefreshFails, store
<1>2. Asked(NoCall) /\ Len(NoCall.keys) <= BatchSize
  BY AskedNothing, Bounds DEF IInv, Books
<1>3. Books' /\ Control' /\ Truthful' /\ Asked(preloading)' /\ Asked(request)'
      /\ Len(request'.keys) <= BatchSize
  BY <1>1, <1>2 DEF IInv, Books, Control, Truthful, Asked
<1>4. OneWriter'
  BY <1>1 DEF IInv, OneWriter, refreshing, Current
<1>5. QED
  BY <1>1, <1>3, <1>4, StoreLasts DEF IInv, Lasting

LEMMA PreloadLasts == ASSUME IInv, NEW list \in Preloads, Preload(list) PROVE Lasting
<1> DEFINE keys == Including(<<>>, list)
<1>1. /\ ~running /\ preloading' = Call(keys)
      /\ UNCHANGED <<published, cached, snapshot, pending, running, generation, refreshOffset,
                     failures, request>>
  BY DEF Preload, store, timer
<1>2. Listing(keys)
  BY CacheAssumption, NoList, IncludingListing
<1> HIDE DEF keys
<1>3. Asked(Call(keys)) /\ Current(Call(keys))
  BY <1>2, CallMade DEF IInv, Books
<1> DEFINE call == Call(keys)
<1> HIDE DEF call
<1>4. preloading' = call /\ Asked(call) /\ Current(call)
  BY <1>1, <1>3 DEF call
<1>5. Books' /\ Control' /\ Truthful' /\ Asked(request)' /\ Len(request'.keys) <= BatchSize
  BY <1>1 DEF IInv, Books, Control, Truthful, Asked
<1>6. Asked(preloading)' /\ Current(preloading)'
  BY <1>1, <1>4 DEF Asked, Current
<1>7. OneWriter'
  BY <1>1, <1>6 DEF IInv, OneWriter, refreshing, Wanted, Current
<1>8. QED
  BY <1>1, <1>5, <1>6, <1>7, StoreLasts DEF IInv, Lasting

LEMMA PreloadAnsweredLasts == ASSUME IInv, PreloadAnswered PROVE Lasting
<1> DEFINE keys == Batch(preloading.keys)
           rest == Later(preloading.keys)
           call == [preloading EXCEPT !.keys = keys]
<1>1. /\ preloading # NoCall /\ preloading' = Call(rest)
      /\ UNCHANGED <<published, running, generation, refreshOffset, failures, request>>
      /\ \E view \in Views(call) : Store(keys, view)
  BY DEF PreloadAnswered, timer
<1>2. published \in [Tables -> Nat] /\ Books /\ Truthful /\ Control
      /\ Asked(request) /\ Asked(preloading) /\ Len(request.keys) <= BatchSize
      /\ ~running /\ Current(preloading) /\ (refreshing => request.generation <= generation /\ ~Wanted)
  BY <1>1 DEF IInv, Books, OneWriter
<1>3. Listing(keys) /\ Len(keys) <= BatchSize /\ ToSet(keys) \subseteq ToSet(preloading.keys)
      /\ Listing(rest)
  BY <1>2, Batches DEF Asked
<1>4. call.keys = keys /\ call.generation = preloading.generation /\ call.since = preloading.since
  OBVIOUS
<1> HIDE DEF call, keys, rest
<1>5. Asked(call) /\ Current(call)
  BY <1>2, <1>3, <1>4 DEF Asked, Current
<1>6. /\ Books' /\ Truthful'
      /\ \A t \in Tables : snapshot'[t] = 0 \/ snapshot'[t] >= snapshot[t]
      /\ \A t \in ToSet(pending) \ ToSet(pending') : t \in ToSet(cached) \cup ToSet(cached')
  BY <1>1, <1>2, <1>3, <1>4, <1>5, AnswerStored
<1> DEFINE next == Call(rest)
<1>7. /\ Asked(next) /\ next.keys = rest /\ \A t \in ToSet(rest) : next.since[t] = published[t]
  BY <1>2, <1>3, CallMade
<1> HIDE DEF next
<1>8. preloading' = next /\ ToSet(rest) \subseteq Tables
  BY <1>1, <1>3, Elements DEF next, Listing
<1>9. Asked(preloading)'
  BY <1>1, <1>7, <1>8 DEF Asked
<1>10. Current(preloading)'
  <2>1. ASSUME NEW t \in ToSet(rest) PROVE snapshot'[t] <= next.since[t]
    BY <1>1, <1>6, <1>7, <1>8 DEF Truthful
  <2>2. QED
    BY <1>7, <1>8, <2>1 DEF Current
<1>11. OneWriter'
  BY <1>1, <1>2, <1>10 DEF OneWriter, refreshing, Wanted
<1>12. Control' /\ Asked(request)' /\ Len(request'.keys) <= BatchSize
  BY <1>1, <1>2 DEF Control, Asked
<1>13. IInv'
  BY <1>6, <1>9, <1>11, <1>12 DEF IInv
<1>14. QED
  BY <1>2, <1>6, <1>13, AnswerLasts DEF Lasting

LEMMA PreloadFailsLasts == ASSUME IInv, PreloadFails PROVE Lasting
<1>1. /\ preloading' = NoCall
      /\ UNCHANGED <<published, cached, snapshot, pending, running, generation, refreshOffset,
                     failures, request>>
  BY DEF PreloadFails, store, timer
<1>2. Asked(NoCall)
  BY AskedNothing DEF IInv, Books
<1>3. Books' /\ Control' /\ Truthful' /\ Asked(request)' /\ Len(request'.keys) <= BatchSize
      /\ Asked(preloading)'
  BY <1>1, <1>2 DEF IInv, Books, Control, Truthful, Asked
<1>4. OneWriter'
  BY <1>1 DEF IInv, OneWriter, refreshing, Wanted, Current
<1>5. QED
  BY <1>1, <1>3, <1>4, StoreLasts DEF IInv, Lasting

LEMMA InitIInv == Init => IInv
<1> SUFFICES ASSUME Init PROVE IInv
  OBVIOUS
<1>1. published = Nothing /\ snapshot = Nothing /\ Nothing \in [Tables -> Nat]
      /\ \A t \in Tables : Nothing[t] = 0
  BY DEF Init, Nothing
<1>2. Queue(<<>>) /\ ToSet(<<>>) = {}
  BY NoList, Bounds DEF Queue
<1>3. Books /\ Truthful
  BY <1>1, <1>2 DEF Init, Books, Truthful
<1>4. Control
  BY DEF Init, Control
<1>5. Asked(NoCall) /\ Len(NoCall.keys) <= BatchSize
  BY <1>1, AskedNothing, Bounds
<1>6. OneWriter
  BY DEF Init, OneWriter, refreshing
<1>7. QED
  BY <1>3, <1>4, <1>5, <1>6 DEF Init, IInv

LEMMA NextLasts == IInv /\ [Next]_vars => Lasting
<1> SUFFICES ASSUME IInv, [Next]_vars PROVE Lasting
  OBVIOUS
<1>1. CASE UNCHANGED vars
  <2>1. UNCHANGED <<published, cached, snapshot, pending, running, generation, refreshOffset,
                    failures, request, preloading>>
    BY <1>1 DEF vars, store, timer
  <2>2. IInv'
    BY <2>1 DEF IInv, Books, Control, Truthful, Asked, OneWriter, refreshing, Wanted, Current
  <2>3. QED
    BY <2>1, <2>2, StoreLasts DEF Lasting
<1>2. CASE Next
  BY <1>2, ExtendLasts, ResolveLasts, StartLasts, StopLasts, RefreshLasts, RefreshAnsweredLasts,
     RefreshFailsLasts, PreloadLasts, PreloadAnsweredLasts, PreloadFailsLasts DEF Next
<1>3. QED
  BY <1>1, <1>2

LEMMA Invariant == Spec => []IInv
<1>1. IInv /\ [Next]_vars => IInv'
  BY NextLasts DEF Lasting
<1>2. QED
  BY InitIInv, <1>1, PTL DEF Spec

(***************************************************************************)
(* The theorems                                                            *)
(***************************************************************************)

\* What the cache keeps has its type: map and queue never exceed CAPACITY and hold no
\* key twice, snapshots exist of exactly the tables in the map, and no request has more
\* keys than a batch (store, schedule, refresh, preload).
THEOREM TypeCorrect == Spec => []TypeOK
BY Invariant, InvariantTypes, PTL

LEMMA KeysTrue == IInv => NeverGuessed
<1> SUFFICES ASSUME IInv, NEW tx \in Transactions, Resolves(tx), NEW l \in ToSet(tx),
                    NEW i \in ToSet(l.writable) \cup ToSet(l.readonly)
             PROVE  i < published[l.table]
  BY DEF NeverGuessed
<1>1. PICK n \in DOMAIN tx : tx[n] = l
  BY DEF ToSet
<1>2. /\ l.table \in Tables /\ l.writable \in Seq(Indexes) /\ l.readonly \in Seq(Indexes)
      /\ Indexes \subseteq Nat
  <2>1. tx \in Seq(Lookups)
    BY CacheAssumption
  <2>2. l \in Lookups
    BY <1>1, <2>1, LenProperties, ElementOfSeq
  <2>3. QED
    BY <2>2 DEF Lookups, Indexes
<1>3. PICK kind \in {"writable", "readonly"} : i \in ToSet(l[kind]) /\ l[kind] \in Seq(Indexes)
  BY <1>2
<1>4. PICK k \in DOMAIN l[kind] : l[kind][k] = i
  BY <1>3 DEF ToSet
<1>5. i \in Nat
  BY <1>2, <1>3, <1>4, LenProperties, ElementOfSeq
<1>6. n \notin PastSnapshot(tx, kind)
  BY <1>3 DEF Resolves
<1>7. i < snapshot[l.table]
  BY <1>1, <1>4, <1>6 DEF PastSnapshot
<1>8. /\ snapshot[l.table] \in Nat /\ published[l.table] \in Nat
      /\ snapshot[l.table] <= published[l.table]
  BY <1>2 DEF IInv, Books, Truthful
<1>9. QED
  BY <1>5, <1>7, <1>8

\* resolve returns no key that the chain does not have, and a transaction it skips
\* leaves one of its tables up for loading, for every history of loads, failures,
\* stops and preloads.
THEOREM CacheIsSound == Spec => []CacheSound
<1>1. IInv => SkippedIsRetried
  BY ResolveQueue DEF SkippedIsRetried
<1>2. IInv => CacheSound
  BY <1>1, InvariantTypes, KeysTrue DEF CacheSound
<1>3. QED
  BY <1>2, Invariant, PTL

\* No answer, failure or stop takes back what was learnt: a miss leaves the queue only
\* for a loaded table or a newer miss, a stopped cache stands still, and no snapshot is
\* replaced by an older one.
THEOREM NothingIsTakenBack == Spec => NothingTakenBack
<1>1. IInv /\ [Next]_vars
        => [\A t \in ToSet(pending) \ ToSet(pending') :
              \/ t \in ToSet(cached) \cup ToSet(cached')
              \/ Len(pending') = Capacity /\ ToSet(pending') \ ToSet(pending) # {}]_vars
  BY NextLasts DEF Lasting, MissesKeep
<1>2. IInv /\ [Next]_vars
        => [\A t \in ToSet(cached) \cap ToSet(cached') : snapshot'[t] >= snapshot[t]]_vars
  BY NextLasts DEF Lasting, SnapshotsKeep
<1>3. IInv /\ [Next]_vars => [~running /\ preloading = NoCall => UNCHANGED store]_vars
  <2> SUFFICES ASSUME IInv, Next, ~running, preloading = NoCall PROVE UNCHANGED store
    OBVIOUS
  <2>1. CASE RefreshAnswered
    <3>1. ~Wanted
      BY <2>1 DEF IInv, OneWriter, RefreshAnswered
    <3>2. QED
      BY <2>1, <3>1 DEF RefreshAnswered
  <2>2. CASE PreloadAnswered
    BY <2>2 DEF PreloadAnswered
  <2>3. CASE ~RefreshAnswered /\ ~PreloadAnswered
    BY <2>3 DEF Next, Extend, Resolve, Start, Stop, Refresh, RefreshFails, Preload, PreloadFails
  <2>4. QED
    BY <2>1, <2>2, <2>3
<1>4. QED
  BY <1>1, <1>2, <1>3, Invariant, PTL
     DEF Spec, NothingTakenBack, MissesKept, StoppedStandsStill, SnapshotsGrow
===============================================================================
