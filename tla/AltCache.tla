-------------------------------- MODULE AltCache --------------------------------
(***************************************************************************)
(* shredstream/alt_cache.ts: the bounded cache of address lookup tables.    *)
(* resolve() reads memory only and remembers what it missed; a timer loads  *)
(* misses and reloads cached tables in bounded batches, one request at a    *)
(* time; stop() disowns the request in flight.                              *)
(*                                                                         *)
(* A table on the chain only ever grows, so a snapshot is the number of     *)
(* addresses it saw, 0 for none.  An answer saw each table as it was at     *)
(* some moment between the request and the answer.                         *)
(***************************************************************************)
EXTENDS Integers, Sequences, SequencesExt, FiniteSets

CONSTANTS
  Tables,         \* the lookup tables transactions name
  MaxAddresses,   \* bound: [Tables -> Nat], what each grows to (0: never exists)
  Capacity,       \* CAPACITY, of the cache and of the queue of misses
  BatchSize,      \* keys of one request
  Reserved,       \* keys of a batch kept for cached tables under a full queue
  Transactions,   \* lookups of a transaction: sequences of table and indexes
  Preloads,       \* lists of tables a user preloads
  MaxGeneration,  \* bound: calls of start and stop
  MaxFailures     \* bound: requests that fail

Indexes == 0 .. 255
Lookups == [table : Tables, writable : Seq(Indexes), readonly : Seq(Indexes)]

ASSUME CacheAssumption ==
  /\ IsFiniteSet(Tables)
  /\ MaxAddresses \in [Tables -> Nat]
  /\ {Capacity, BatchSize, Reserved, MaxGeneration, MaxFailures} \subseteq Nat
  /\ 0 < Reserved /\ Reserved < BatchSize /\ BatchSize <= Capacity
  /\ Transactions \subseteq Seq(Lookups)
  /\ Preloads \subseteq Seq(Tables)

VARIABLES
  published,      \* the chain: addresses of each table so far
  cached,         \* tables: keys in insertion order
  snapshot,       \* tables: addresses known of each, 0 unless cached
  pending,        \* pending: misses in insertion order
  running,        \* the timer is set
  generation, refreshOffset, failures,
  request,        \* the refresh in flight
  preloading      \* the rest of the list of a preload() call

store == <<cached, snapshot>>
timer == <<running, generation, refreshOffset, failures, request>>
vars  == <<published, store, pending, timer, preloading>>

Nothing == [t \in Tables |-> 0]
NoCall  == [keys |-> <<>>, generation |-> 0, since |-> Nothing]

refreshing == request # NoCall

Init ==
  /\ published = Nothing
  /\ cached = <<>> /\ snapshot = Nothing /\ pending = <<>>
  /\ running = FALSE /\ generation = 0 /\ refreshOffset = 0 /\ failures = 0
  /\ request = NoCall /\ preloading = NoCall

-------------------------------------------------------------------------------
(* The chain and the RPC node (external) *)

\* A table is created or extended.
Extend(t) ==
  /\ published[t] < MaxAddresses[t]
  /\ published' = [published EXCEPT ![t] = @ + 1]
  /\ UNCHANGED <<store, pending, timer, preloading>>

\* What the chain has of these tables.
Seen(keys) == [t \in Tables |-> IF t \in ToSet(keys) THEN published[t] ELSE 0]

\* What a call sent at "since" may answer about its keys now.
Views(call) ==
  {view \in [Tables -> UNION {0 .. published[t] : t \in Tables}] :
     \A t \in Tables : view[t] \in (IF t \in ToSet(call.keys) THEN call.since[t] .. published[t]
                                                              ELSE {0})}

-------------------------------------------------------------------------------
(* store and schedule *)

Overfull(keys) == Len(keys) > Capacity

\* What is there already keeps its place.
Include(keys, t) == IF t \in ToSet(keys) THEN keys ELSE Append(keys, t)

\* A table enters the map, or its entry is overwritten in place; the oldest
\* entry leaves an overfull map.
StoreOne(c, t, addresses) ==
  LET keys   == Include(c.cached, t)
      loaded == [c.snapshot EXCEPT ![t] = addresses]
  IN  [cached   |-> IF Overfull(keys) THEN Tail(keys) ELSE keys,
       snapshot |-> IF Overfull(keys) THEN [loaded EXCEPT ![Head(keys)] = 0] ELSE loaded,
       pending  |-> RemoveFirst(c.pending, t)]

\* Tables the node does not know are skipped.
StoreKnown(c, t, view) == IF view[t] = 0 THEN c ELSE StoreOne(c, t, view[t])

\* The maps with the answer's tables, one after the other.
Stored(keys, view) ==
  LET upTo[n \in 0 .. Len(keys)] ==
        IF n = 0 THEN [cached |-> cached, snapshot |-> snapshot, pending |-> pending]
                 ELSE StoreKnown(upTo[n - 1], keys[n], view)
  IN  upTo[Len(keys)]

Store(keys, view) ==
  LET stored == Stored(keys, view)
  IN  cached' = stored.cached /\ snapshot' = stored.snapshot /\ pending' = stored.pending

\* A new miss goes last, and pushes the oldest out of a full queue.
Schedule(p, t) ==
  IF t \in ToSet(p) THEN p
  ELSE Append(IF Len(p) >= Capacity THEN Tail(p) ELSE p, t)

-------------------------------------------------------------------------------
(* resolve *)

\* Mutant: a transaction with an index past the snapshot keeps the keys it has.
GuessedPast(tx, kind) == {}

\* The lookups of the transaction that ask their table for an index its snapshot
\* does not have.
PastSnapshot(tx, kind) ==
  {l \in DOMAIN tx : \E i \in DOMAIN tx[l][kind] : ~(tx[l][kind][i] < snapshot[tx[l].table])}

Missed(l) == l.table \notin ToSet(cached)

Missing(tx) == \E l \in ToSet(tx) : Missed(l)

\* What resolve() returns: the key list, or nothing if it has a hole.
Resolves(tx) ==
  ~Missing(tx) /\ PastSnapshot(tx, "writable") = {} /\ PastSnapshot(tx, "readonly") = {}

\* The first lookup with a hole: the runtime's list has all writable keys first.
FirstPast(tx) ==
  Min(IF PastSnapshot(tx, "writable") # {} THEN PastSnapshot(tx, "writable")
                                           ELSE PastSnapshot(tx, "readonly"))

QueueMissed(p, l) == IF Missed(l) THEN Schedule(p, l.table) ELSE p

\* The queue with every table missed.
MissesQueued(tx) ==
  LET upTo[n \in 0 .. Len(tx)] ==
        IF n = 0 THEN pending ELSE QueueMissed(upTo[n - 1], tx[n])
  IN  upTo[Len(tx)]

\* The queue after resolve(): it gained the tables missed, or the table of the
\* first index its snapshot does not have.
PendingAfter(tx) ==
  IF Missing(tx) THEN MissesQueued(tx)
  ELSE IF Resolves(tx) THEN pending
  ELSE Schedule(pending, tx[FirstPast(tx)].table)

Resolve(tx) ==
  /\ pending' = PendingAfter(tx)
  /\ UNCHANGED <<published, store, timer, preloading>>

-------------------------------------------------------------------------------
(* start, stop and refresh *)

\* Mutant: stop() does not disown the request in flight.
KeepGeneration == generation

NextGeneration == generation + 1

\* A preload that the user did not wait for is left out (see Preload).
Start ==
  /\ ~running /\ preloading = NoCall /\ generation < MaxGeneration
  /\ running' = TRUE
  /\ generation' = NextGeneration
  /\ UNCHANGED <<published, store, pending, refreshOffset, failures, request, preloading>>

Stop ==
  /\ generation < MaxGeneration
  /\ running' = FALSE
  /\ generation' = NextGeneration
  /\ UNCHANGED <<published, store, pending, refreshOffset, failures, request, preloading>>

Least(a, b) == IF a < b THEN a ELSE b

\* Mutant: the misses asked for stay where they are.
LeaveInPlace(n) == pending

\* The misses asked for go to the back of the queue.
RotateMisses(n) == SubSeq(pending, n + 1, Len(pending)) \o SubSeq(pending, 1, n)

\* Mutant: every refresh starts again with the first cached table.
StartOver(visited) == 0

NextOffset(visited) == (refreshOffset + visited) % Len(cached)

\* keys, and then the tables of the list that it lacks.
Including(keys, list) ==
  LET upTo[n \in 0 .. Len(list)] ==
        IF n = 0 THEN keys ELSE Include(upTo[n - 1], list[n])
  IN  upTo[Len(list)]

\* The first n cached tables from refreshOffset on.
Visit(n) == [i \in 1 .. n |-> cached[((refreshOffset + i - 1) % Len(cached)) + 1]]

\* The timer ticks and no request is in flight.
Refresh ==
  /\ running /\ ~refreshing
  /\ LET asked   == SubSeq(pending, 1, Least(Len(pending), BatchSize - Least(Reserved, Len(cached))))
         full(n) == n = Len(cached) \/ Len(Including(asked, Visit(n))) = BatchSize
         visited == CHOOSE n \in 0 .. Len(cached) : full(n) /\ \A m \in 0 .. n - 1 : ~full(m)
         keys    == Including(asked, Visit(visited))
     IN  /\ keys # <<>>
         /\ pending' = RotateMisses(Len(asked))
         /\ refreshOffset' = IF cached = <<>> THEN refreshOffset ELSE NextOffset(visited)
         /\ request' = [keys |-> keys, generation |-> generation, since |-> Seen(keys)]
  /\ UNCHANGED <<published, store, running, generation, failures, preloading>>

Wanted == request.generation = generation

\* The node answers; only the subscription that asked takes the answer.
RefreshAnswered ==
  /\ refreshing
  /\ IF Wanted
       THEN \E view \in Views(request) : Store(request.keys, view)
       ELSE UNCHANGED <<store, pending>>
  /\ request' = NoCall
  /\ UNCHANGED <<published, running, generation, refreshOffset, failures, preloading>>

RefreshFails ==
  /\ refreshing /\ failures < MaxFailures
  /\ failures' = failures + 1
  /\ request' = NoCall
  /\ UNCHANGED <<published, store, pending, running, generation, refreshOffset, preloading>>

-------------------------------------------------------------------------------
(* preload, which the README asks for before subscribing, one call at a time *)

Batch(keys) == SubSeq(keys, 1, Least(Len(keys), BatchSize))
Later(keys) == SubSeq(keys, Least(Len(keys), BatchSize) + 1, Len(keys))

Call(keys) == IF keys = <<>> THEN NoCall ELSE [keys |-> keys, generation |-> 0,
                                             since |-> Seen(keys)]

Preload(list) ==
  /\ ~running /\ preloading = NoCall
  /\ preloading' = Call(Including(<<>>, list))
  /\ UNCHANGED <<published, store, pending, timer>>

\* One batch is stored and the next one asked for.
PreloadAnswered ==
  /\ preloading # NoCall
  /\ \E view \in Views([preloading EXCEPT !.keys = Batch(preloading.keys)]) :
       Store(Batch(preloading.keys), view)
  /\ preloading' = Call(Later(preloading.keys))
  /\ UNCHANGED <<published, timer>>

\* preload() throws; what it stored so far stays.
PreloadFails ==
  /\ preloading # NoCall
  /\ preloading' = NoCall
  /\ UNCHANGED <<published, store, pending, timer>>

-------------------------------------------------------------------------------
Next ==
  \/ \E t \in Tables : Extend(t)
  \/ \E tx \in Transactions : Resolve(tx)
  \/ Start \/ Stop \/ Refresh \/ RefreshAnswered \/ RefreshFails
  \/ \E list \in Preloads : Preload(list)
  \/ PreloadAnswered \/ PreloadFails

\* The timer of a running cache keeps ticking and the node answers in the end.
Fairness == WF_vars(Refresh) /\ WF_vars(RefreshAnswered)

Spec == Init /\ [][Next]_vars /\ Fairness

-------------------------------------------------------------------------------
(* Properties *)

Distinct(s) == \A i, j \in DOMAIN s : s[i] = s[j] => i = j

\* Every variable keeps its type; map and queue respect their bound, hold no key
\* twice, and the map has a snapshot exactly of the tables it holds.
TypeOK ==
  /\ published \in [Tables -> Nat] /\ snapshot \in [Tables -> Nat]
  /\ cached \in Seq(Tables) /\ Len(cached) <= Capacity /\ Distinct(cached)
  /\ pending \in Seq(Tables) /\ Len(pending) <= Capacity /\ Distinct(pending)
  /\ \A t \in Tables : t \in ToSet(cached) <=> snapshot[t] > 0
  /\ running \in BOOLEAN /\ {generation, refreshOffset, failures} \subseteq Nat
  /\ \A call \in {request, preloading} :
       /\ call.keys \in Seq(Tables) /\ Distinct(call.keys) /\ call.generation \in Nat
       /\ call.since \in [Tables -> Nat]
  /\ Len(request.keys) <= BatchSize

\* What resolve() returns is never guessed: every key of the runtime's list is
\* one the chain has.
NeverGuessed ==
  \A tx \in Transactions : Resolves(tx) =>
    \A l \in ToSet(tx) : \A i \in ToSet(l.writable) \cup ToSet(l.readonly) :
      i < published[l.table]

\* A transaction that is skipped puts one of its tables up for loading, however
\* many unavailable tables already fill the queue.
SkippedIsRetried ==
  \A tx \in Transactions : ~Resolves(tx) =>
    \E l \in ToSet(tx) : l.table \in ToSet(PendingAfter(tx))

\* The bookkeeping of the cache agrees with itself and with the chain: bounds
\* respected, no key guessed (resolve), no skipped transaction without a reload.
CacheSound == TypeOK /\ NeverGuessed /\ SkippedIsRetried

\* A miss leaves the queue only because its table was loaded (and perhaps gave
\* way to others at once) or because a newer miss needed the room: no failed,
\* empty or disowned answer forgets it.
MissesKept ==
  [][\A t \in ToSet(pending) \ ToSet(pending') :
       \/ t \in ToSet(cached) \cup ToSet(cached')
       \/ Len(pending') = Capacity /\ ToSet(pending') \ ToSet(pending) # {}]_vars

\* A stopped cache stands still: the answer to a request of the stopped
\* subscription changes nothing, whenever it comes.
StoppedStandsStill == [][~running /\ preloading = NoCall => UNCHANGED store]_vars

\* No older snapshot replaces a newer one, across stops, restarts and preloads.
SnapshotsGrow ==
  [][\A t \in ToSet(cached) \cap ToSet(cached') : snapshot'[t] >= snapshot[t]]_vars

\* What was learnt stays: no miss is forgotten by a failed, empty or disowned
\* answer, nothing is stored for a stopped subscription, no snapshot gets older
\* (refresh and its generation check).
NothingTakenBack == MissesKept /\ StoppedStandsStill /\ SnapshotsGrow

\* While the cache runs every miss the chain has is loaded in the end, however
\* many misses nobody can load are in the queue.
MissesLoaded ==
  \A t \in Tables : []<>(~running \/ t \notin ToSet(pending) \/ published[t] = 0)

\* While the cache runs every cached table catches up with its extensions,
\* however many misses compete for the batches.
SnapshotsCatchUp ==
  \A t \in Tables : []<>(~running \/ t \notin ToSet(cached) \/ snapshot[t] = published[t])
===============================================================================
