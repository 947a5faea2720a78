# Formal models of sol-parser-sdk-nodejs

This directory holds TLA+ models of the SDK: of the parts that keep state between
calls (queues, ordering buffers, subscriptions that reconnect, cancel and replay),
and of the parser, whose decoders, filters and merges keep none but meet inputs no
fixture has.  Each module is read off the TypeScript under `src/`; `PROJECT.json`
maps every definition to the lines it stands for.  TLC checks the models on small instances; TLAPS proves the
theorems of the `*_proofs` modules for every value of the constants.

    tlc -workers 2 -config EventQueue.cfg MCAsyncEventQueue
    tlapm AsyncEventQueue_proofs.tla

## 1. The system

The SDK turns Solana chain data into DEX events.  Three front ends feed the same
decoders: a Yellowstone gRPC client (confirmed transactions and accounts), a
ShredStream client (unconfirmed entries) and plain RPC.

| Component | Source | State it keeps | Operations | Hard behaviour |
|---|---|---|---|---|
| Event queue | `grpc/async_event_queue.ts` | ring, head, size, parked readers, closed, dropped | push, shift, next, clear, close | wrap-around after any mix of calls, readers parked across push and close |
| Order dispatcher | `grpc/order_buffer.ts` | batches per slot, watermarks, pending indexes, micro-batch window, two clocks | pushTransactionEvents, flushDue, flushAll | timeout flush against late arrivals, gaps, slot changes |
| DEX subscription | `grpc/client.ts` startDexEvents | stream, ingress queue, drain flag, status, replay point, dedupe window, backoff | data/error/end handlers, drain, reconnect loop, cancel, finally | cancel between any two steps, replay without duplicates or holes, honest status |
| Client lifecycle | `grpc/client.ts` | lifecycle promise chain, active subscription, subscriber maps, connect promise | connect, disconnect, subscribeDexEvents, stop, updateSubscription | operations queued behind each other, disconnect against connect |
| Raw transactions | `grpc/client.ts` subscribeTransactions | subscriber map, backoff | subscribe, unsubscribe, reconnect loop | cancel during backoff |
| ShredStream client | `shredstream/client.ts` | loop, abort signal, active call, event queue, statistics | subscribe, stop, reconnect loop, message handler | attempt budget, abort between two streams |
| Address lookup table cache | `shredstream/alt_cache.ts` | snapshots, misses, generation, refresh flag, rotation offset | resolve, preload, start, stop, refresh | refresh in flight across stop and start, capacity, rotation |
| Trackers | `stock_prices.ts`, `stonkfun_registry.ts`, `core/account_pubkey_cache.ts` | last prices, pools, known accounts | process, reset | freshness and confirmation over an event sequence |
| Merge and attribution | `rpc_transaction.ts`, `core/trade_source.ts`, `transaction_route.ts`, `grpc/log_instr_dedup.ts` | none | pure functions on one transaction | which instruction a log belongs to, which of two views of a trade survives |
| Decoders | `logs/`, `instr/`, `accounts/`, `liquidity_snapshot.ts` | none | pure functions on bytes | layouts that grew over time, discriminators two programs share, filters consulted in several places |
| Account completion | `core/account_dispatcher_rpc.ts`, `core/account_fill_*.ts`, `core/rpc_invoke_map.ts` | none | fillAccountsFromTransactionDataRpc | which of several calls an event came from |

How they interact: a Yellowstone stream's *data* handler pushes into the
subscription's **ingress** queue and schedules a `setImmediate` drain; the drain
parses an update, asks the **order dispatcher** when to emit it, and the
dispatcher's callback pushes into the public **event queue**, which the user reads
with `for await`.  Errors and status transitions travel through two more event
queues.  `cancel()` reaches into all of them.  The client serialises subscribe,
stop and update through one promise chain.  Everything runs on one event loop:
what runs to its next `await` or return is one step, and the interleavings are
those of handlers, promise continuations, timers and calls of the user.

What makes each correct, in one line:

* queue: bounded FIFO, every push accounted for, every read answered once;
* dispatcher: each order mode emits what it promises, nothing vanishes, what is
  held is emitted in the end;
* subscription: the user sees no update twice or out of order, every hole is
  announced, the status is true, cancel ends the task;
* lifecycle: one subscription at a time, join and stop return;
* ShredStream: one loop at a time, nothing arrives after stop, the budget counts
  failures;
* table cache: never a guessed key, never a stale snapshot over a newer one, every
  miss is tried again;
* merge and attribution: an event tells of one execution, none that a record shows
  is lost, the router named is the one it ran in;
* decoders: the filter alone decides what is reported, an event is reported as what
  it is, every field is read from its own bytes, accounts come from the event's own
  call.

## 2. Modules

| Module | Models | Role |
|---|---|---|
| `BoundedFifo` | what users of a queue rely on | abstract specification |
| `AsyncEventQueue` | `AsyncEventQueue`, every method | detailed; refines `BoundedFifo` |
| `AsyncEventQueue_proofs` | — | theorems about the queue |
| `OrderDispatcher` | `OrderDispatcher`, all four modes | detailed |
| `OrderDispatcher_proofs` | — | theorems about the dispatcher |
| `DexSubscription` | one subscription of `startDexEvents` | detailed |
| `DexSubscription_proofs` | — | theorems about the subscription; it implements `StreamTask` |
| `StreamTask` | the life of a stream task | abstract specification, as relations between two states of a task |
| `DexLifecycle` | `YellowstoneGrpc` around its tasks: connect, the promise chain, subscribe, stop, update, disconnect, raw subscriptions | composes any number of `StreamTask`s |
| `DexLifecycle_proofs` | — | theorems about the client |
| `AltCache` | `AddressLookupTableCache`, every method | detailed |
| `AltCache_proofs` | — | theorems about the cache |
| `ShredClient` | `ShredStreamClient`: subscribe, stop, reconnect loop, stream handlers, queue | detailed |
| `ShredClient_proofs` | — | theorems about the ShredStream client |
| `TransactionEvents` | the runtime that executes a transaction, and `parseRpcTransaction`: instruction merge, log scan, deduplication | detailed; what was executed is the reference |
| `TransactionEvents_proofs` | — | theorems about the events of a transaction |
| `Tables` | how the tables of the decoders are put together from rows | operators |
| `EventFilters` | the event type filters of `grpc/types.ts` | operators |
| `EventLayouts` | the fields and length guards of every event decoder | operators |
| `EventRouting` | `logs/optimized_matcher.ts` and `instr/inner.ts`: which decoder, which event leaves | operators |
| `InstructionDecoders` | `instr/*_ix.ts`: data, account counts and roles of every instruction | operators |
| `AccountDecoders` | `accounts/`, `liquidity_snapshot.ts` | operators |
| `AccountFill` | `core/account_dispatcher_rpc.ts` and its tables | operators |
| `Decoding` | the parser asked about one thing at a time | what may be handed in, and the properties |
| `Decoding_proofs` | — | theorems about the filters and the decoders |
| `MC*` | — | constants for TLC |

### AsyncEventQueue

`items`, `waiters`, `closed`, `droppedCount`, `head` and `size` are the fields of
the class; `push`, `shift`, `next`, `clear` and `close` are one action each, since
each runs to completion.  `push` is split into the branches of the code
(`PushClosed`, `HandOver`, `Store`, `Overflow`).  Items are the numbers of their
pushes, readers the numbers of their `next()` calls (0 for `shift()`), so order and
identity can be stated; `pushed`, `asked`, `taken`, `ended` and `discarded` are
history.  `BoundedFifo` is the same interface over a plain sequence; the mapping is
`queue <- Contents`, the `size` slots from `head` on.

### OrderDispatcher

A batch is one transaction's events.  The map of slots is the set of batches it
holds, since each array is sorted before it is read; emission lists a set in
`compareBatch` order.  Time is two booleans: `idle` (the timeout since the last
flush has passed) and `windowOver` (the micro-batch window has).  `FlushDue` is the
timer callback, `FlushAll` the last flush of a subscription (a public method, so
any time is allowed).  A transaction *StreamingOrdered* drops leaves no trace in
the code; the model counts it in `ignored` so that conservation can be stated.

### DexSubscription

The stream task is one variable `phase`: each `await` of the loop is a value, each
continuation an action (`SubscribeOk`, `SetupFails`, `WriteOk`, `Catch`, `Ended`,
`Drained`, `BackoffOver`, `Finish`).  Handlers are actions (`Ping`, `Data`,
`Goodbye` for error and end), the `setImmediate` callback is `Drain`, `cancel()` is
`Cancel`, enabled everywhere.  A handler and the continuation it releases are two
steps because a consumer woken by the handler may call `cancel()` in between.  The
chain is a fixed sequence of slots; `Produce` makes the next update exist, and a
stream carries updates from `StartOf` on: from the requested slot if replay was
asked for and granted, from now on otherwise.  The transport (`wire`) opens, fails,
ends or obeys a cancel; this is the model of grpc-js and the provider, marked
external.

What is abstracted, and why that is sound:

* `parserBatchSize`: a callback that handles several updates is several `Drain`
  steps with nothing in between; the model has more interleavings, not fewer.
* The public queue's refusal of an event is a choice (bounded by `MaxRefusals`):
  it depends on how fast the user reads.
* Backoff delays: the timer fires at any time; only their order matters.
* Statistics (`reconnects`, `streamDisconnects`, `replayedUpdates`) and the rate
  limit of warnings are left out; `continuityBreaks` is kept.
* The order dispatcher between parser and queue is its own module; the
  subscription is modelled with `Unordered`.  Batches it still buffers when
  `cancel()` is called are discarded by the code, as queued events are.
* A stream error during the request write without a cancel meets no listener and
  ends the process; process exit is not modelled.

### StreamTask and DexLifecycle

`StreamTask` is the life of a task as the client sees it: where it is (opening,
writing, reading, waiting, done), whether it was cancelled, whether it holds a
stream, and whether it is *deaf*, having missed the goodbye of a cancelled stream.
Each step is a relation between a task and what it becomes, so that `DexLifecycle`
can let any number of tasks take steps and `DexSubscription` can be shown to take
only such steps: `Life` maps its variables to a task, and `ImplementsStreamTask`
says that every step of the subscription is a `TaskStep`, a cancel or nothing.

`DexLifecycle` is the class around the tasks.  Calls are numbered in the order they
are made; a subscription and a set of filters have the number of the call they came
with.  `queue` is the promise chain `dexLifecycle`; the work that runs is a record
of its call and of what it awaits (a join, a connect, a write), so every await is a
place where other calls, continuations and tasks come in between.  `connectPromise`
is the number of the attempt it belongs to, `channel` counts how often the client
was closed, so an attempt that outlives a `disconnect()` is told from a new one.
`subscribeTransactions` and `connect()` take no part in the chain and await
on their own (`awaiting`).  Abstracted: the options of a subscription are accepted
or rejected, and the delay between two raw streams is left out.

### TransactionEvents

The module has two halves.  The runtime executes calls on a stack (`Invoke`,
`Emit`, `Return`) and keeps two partial records: instructions, with or without
stack heights, and log lines, of which some are lost: a single one, or, with
`LosesTail`, what no longer fits once the log is full.  Then `Parse` computes in
one step what `parseRpcTransaction` makes of these records, by the code's order:
the merge of event CPIs into instructions (`InstructionEvents`), the scan of the
logs with its program stack and the attribution of lines to top-level instructions
(`LogEvents`), and the merge of the two lists (`Dedupe`, `CreatesFirst`).  An event
carries the set of executions it was put together from, so a merge of two that do
not belong together is visible whatever their fields are.

Five kinds stand for all: a router; a trade that logs and has an event CPI (Pump);
a create; a swap that only logs (CLMM); one that only has event CPIs (DLMM).  A
call may be unknown to the instruction decoders.

Abstracted: failed transactions (the parser returns before it looks at them), the
fetch by signature and the loading of tables, filters, `is_created_buy`, account
completion (its own module) and the mint pairs of CLMM and Orca.  A trade calls
another program only after it has emitted, as Pump does.

Each loop of the code is a function of how far it has come (`MergedUpTo`,
`ScannedUpTo`, `PlacedUpTo`, `MovedUpTo`), with the body of the loop as an operator
of its own, so that a proof can go from one turn to the next.

### The decoders

A payload is its length, and a layout is the list of fields a decoder reads: a
width, the bytes per element of variable content, and what the decoder does when
the field is not there (no event, a default value with or without moving on, null).
`Read` walks a layout over a payload and says whether there is an event, which
widths were lost and whether a field was read where another one's bytes are
(`astray`): that needs no values.  `EventRouting` adds the gates on the way to a
decoder, by discriminator and program, for log lines (scoped to a program or not)
and event CPIs; `InstructionDecoders` the account roles of each instruction by the
number of accounts it has; `AccountDecoders` the accounts by owner, size and
discriminator; `AccountFill` the search for the call an event came from and the
tables of account indexes.  `Decoding` hands in one thing at a time: a log line, an
event CPI, an instruction, an account, each under every filter; a payload, an
argument list or an account cut short; or an event to complete among the calls of
its transaction.

Abstracted: values (numbers, keys, strings), the JSON and display helpers of
`dex_event.ts`, and the mint pairs of CLMM and Orca pools.

### AltCache

`cached` and `snapshot` are the map `tables` (keys in insertion order, addresses
known), `pending` the set of misses, `request` the refresh in flight with the
generation that asked.  One action per method: `Resolve`, `Start`, `Stop`,
`Refresh` (a tick of the timer up to its await), `RefreshAnswered` and
`RefreshFails` (the rest), `Preload` and its answers.  A table on the chain only
grows, so a snapshot is a number of addresses and an answer may be any length the
table had between request and answer.  What `resolve()` returns is read by the
properties (`Resolves`); its effect on the misses is the action.  The loops of
`store`, `preload` and the miss queue are functions of how many entries of the list
they have seen (`Stored`, `MissesQueued`, `Including`), which is what the proofs
reason about.

Abstracted: the cache has a connection and no initial snapshots.  Deactivated
tables are not modelled (the code does not look at that field), and `preload()` is
called before subscribing, one call at a time, as the repository's README asks.

### ShredClient

`lifecycle` is the promise chain `lifecycleTail`: the calls that have not
returned.  Each starts with `stopUnlocked`, so `BeginStop` runs it to its await
and `EndStop` is the rest, for `subscribe()` with the start of the new loop.  Each
subscription has a number; `loopAbort` and `loopPromise` hold it, 0 for null.
`phase` is the place of its loop, every `await` a value; `StreamEnds`,
`StreamFails`, `Data` are the handlers of the stream, `AfterEnd`, `AfterFailure`,
`Wake`, `AfterSleep`, `Finally` the continuations.  A handler that settles a
promise and the continuation that follows are two steps.

Abstracted: a message is the number of its events and whether a transaction in it
throws; the length of the backoff delay is left out, so a timer may fire at any
time; the table cache is only started or stopped here.

## 3. Runs

| Run | Question | Bounds |
|---|---|---|
| `event_queue` | Is the ring a bounded FIFO, is every push and every read accounted for? | 3 slots, 8 pushes, 4 reads, both strategies: the head passes the end of the ring twice, an overflow hits every head position, several readers park |
| `order_dispatcher` | Does each mode keep its promise? | 2 slots x 3 positions, 4 arrivals in any order with repeats, timers at any moment: gaps, duplicates, late arrivals and slot changes all occur, also after a flush |
| `subscription` | No duplicate, no disorder, no silent hole, a true status; cancel ends the task; with replay disconnects alone lose nothing; does it implement `StreamTask`? | chain of slots 1 1 1 3, ingress of 2, dedupe window of 1 slot, 2 disconnects, 1 parse error, 1 refusal, 1 ping; every combination of auto-reconnect, replay wanted, replay granted and overflow strategy |
| `subscription_join` | *violation*: does join() always return? | no failures at all |
| `subscription_reject` | *violation*: is a rejection of fromSlot always counted? | 1 ping, 1 failure |
| `lifecycle` | One DEX task at a time, updates reach the running subscription and every request, silence after disconnect, an honest isConnected(), an answer to every call | 3 calls of any kind, 1 cancel, 1 failure |
| `alt_cache` | Bounds, no guessed key, no forgotten miss, no stale store; is every miss and every cached table loaded in the end? | 3 tables that may stay unavailable for ever, one extended once; cache, queue and batch of 2; 3 calls of start and stop, 1 failure |
| `shred_client` | One loop at a time, silence after stop, budget; do calls return, does the loop keep trying? | 3 calls, no limit and a limit of 2, queue of 1, 1 message of up to 2 events, 2 failures in a row |
| `shred_reconnects` | *violation*: does the limit count reconnections? | as above |
| `transactions` | Does an event ever mix two executions, does one vanish, is the router the right one, do creates come first, and is the answer exact when nothing is missing? | 3 calls of depth 3 on 2 identities, 2 lost lines, the second kind of loss taking all lines that no longer fit, 1 unknown instruction |
| `router_identity` | *violation*: is the router right whichever line is missing? | 3 calls, 1 lost line, no tail lost |
| `decoding` | Do filters alone decide, is nothing mistaken, are fields read from their own bytes, do accounts come from the event's own call? | all programs, events, instructions and accounts; filters of one or two types of the program and a stranger, included or excluded; every cut between fields and a byte beside it, with 0, 1 and 64 elements of variable content; two calls on 2 markets for 2 users |

Three updates of the chain share a slot and its last slot pushes the first out of
the dedupe window, so replay meets remembered and forgotten updates, and a replay of
a slot joined midway can be cut between two updates that are late (with two to a
slot it cannot; see `NoSilentGap` in section 4).  A larger
ingress or a longer chain only repeats these situations: a queue of two already has
a head that is parsed while another update waits and a third is refused.

The replay options are four Booleans of the configuration, chosen at the start, so
one run covers live and replaying subscriptions.

Three tables over a cache, a queue and a batch of two force every eviction and
every rotation; three generations let an answer come back after a stop and after
the next start.  Three calls are enough for `stop` or `subscribe` behind a
subscription that is itself queued behind one, for the ShredStream client as for
the Yellowstone client, where the three may also be an update or a disconnect
overtaking a connect; a limit of two separates the first connection from a
reconnection.

Three calls in a transaction give a trade inside a trade inside a router, two equal
trades beside each other, and a create with its trades in either order; a lost line
or an unknown instruction makes the two records disagree on how many there are.
The gates of the decoders look at one or a few types each, so a filter of two types
separates any two lists.  Sixty-four is the largest list of shareholders a decoder
accepts.

Deadlock checking is off where a model may really stop: a queue nobody calls any
more, a dispatcher with nothing left, a subscription (a task cancelled in the
request-write window parks for ever, see below) and the client around it, a cache
nobody asks, a client whose loop has given up, and a transaction once parsed.

### Fairness

* Queue: none; its properties are safety.
* Dispatcher: time passes and `setInterval(order.flushDue)` keeps firing
  (client.ts:723-732).  Arrivals are not fair.
* Subscription: the event loop runs what is ready (continuations, drains); the
  transport answers a setup call, delivers what it has and ends a stream that was
  cancelled or whose request it refuses.  No fairness on failures, pings or
  `cancel()`.
* Table cache: the interval timer of a running cache ticks and every request
  answers or fails.  `refreshing` stays set until then (alt_cache.ts:103), so
  without that nothing could be promised.
* ShredStream client: the event loop runs continuations and timers fire.  Nothing
  is assumed of the transport, not even that a cancelled stream ends; that is why
  `MovesOn` needs the abort listener of `streamOnce`.
* Client lifecycle: continuations run (`Works`, `Resume`), a connect is answered or
  times out (`waitForReady` has a deadline), and a cancelled task takes its next
  step.  `CancelEnds`, in `subscription`, is why that may be assumed of every task
  that is not deaf; `CallsAnswered` makes exception of those.
* Transactions and decoding: none; their properties are safety.

### What the runs found

1. `subscription_join`: `cancel()` while the request is being written cancels the
   stream before its error and end listeners exist.  If the stream says goodbye
   before the write callback runs, the task parks for ever: `join()`, and with it
   `stop()`, `disconnect()` and the next `subscribeDexEvents()`, never return.
2. `subscription_reject`: a ping counts as received data, so a provider that
   answers a ping before it rejects `fromSlot` is asked for replay again and again;
   the README promises a counted break and a live reconnect.
3. `shred_reconnects`: `attempts` counts the first connection, so a loop with
   `max_reconnect_attempts` of 2 reconnects once.  config.ts:24 calls the setting
   the largest number of reconnections; the low-latency preset, 1, never
   reconnects after a failed first stream.
4. `router_identity`: `logOuterIndices` keeps the index of the last invocation line
   it saw.  If the line of a direct trade is the one that is missing, the trade is
   attributed to the instruction before it, and its `third_program` names a router
   it never went through; trade_source.ts:80 says that cannot happen.

### What modelling showed

Differences between two parts of the code, or between the code and what one might
expect, that no property calls wrong; the properties name them as exceptions where
they meet them.

* `pushStreaming` flushes older slots only when `currentSlot > 0`, so transactions
  held for slot 0 come out after those of slot 1 (order_buffer.ts:115).
* A replay of a slot the subscription joined midway delivers the slot's earlier
  updates after its later ones.  While that is under way updates are missing that no
  counter knows of; the status says so (`continuityBroken`), and they precede the
  first update the user got.
* `dexEventsQueued` of the ShredStream client also counts events a full queue
  refused, and misses those of a message in which a later transaction throws.
* After a clean end, or an error with CANCELLED, the ShredStream loop reconnects
  without a delay.
* `include_only [PumpFunCreate, PumpFunTrade]`: the secondary filter of the log path
  drops the buys, exact buys and sells that `shouldInclude` admits and that the event
  CPI path reports (docs/cross-language-sync.md:37 describes the family).
* The log completion and the instruction decoder disagree on an account of the same
  call (`Disagreements`): the user of the CLMM `open_position` forms, the position
  of Orca's `v2` liquidity calls, creator and pool of CPMM `initialize_with_permission`,
  `bonding_curve_v2` of a cashback sell with 16 accounts.
* EvtSwap of Meteora DAMM has two layouts: the log decoder skips 32 bytes after
  the pool and 8 after the referral fee (logs/meteora_damm.ts:90), the event CPI
  decoder does not (instr/meteora_damm_ix.ts:350).
* The CPMM, AMM V4, Orca and Pools decoders have no length guard and report events
  with missing keys for short payloads (`Unguarded`).  TradeEvent and `create_v2`
  can read an optional field from another one's bytes if the payload ends in the
  middle of a field (`UnequalTail`).
* Outside the scope of a known program a log line whose discriminator two programs
  share goes to the decoder tried first (`Shared`); CPMM CreatePool has a type
  but no decoder.  LaunchLab's migrations and all DAMM instructions are never decoded
  as inner instructions, and `RaydiumClmmOpenPositionWithTokenExtNft` is a type
  nothing produces.
* Token-2022 mints with extensions and multisignature accounts are reported as token
  accounts (`LikeTokenAccounts`), and nonce accounts are recognised by their data.
* Events without an anchor are completed from the call with the most accounts, and
  `is_pump_pool` is read from the last call of the fee program.
* A second event CPI of a DLMM instruction is merged into it again (there is no
  consumed mark as for Pump trades); identities without an occurrence number let two
  equal events of one transaction become one.

## 4. Proofs

`AsyncEventQueue_proofs` proves, for every ring size, both overflow strategies and
every number of calls:

* `TypeCorrect` and `Accounted`: type correctness and the account of pushes, with
  the lemma `ParkedIdle`: a reader is parked only while the queue is open and
  empty.  Each is inductive given the one before.
* `Refinement`: the ring implements `BoundedFifo`.  The heart is modular
  arithmetic: `Wrap` (an index wraps at most once) gives `StoreAppends`,
  `RemoveTakesHead` and `OverflowRotates`, which say what each operation does to
  `Contents`; `FifoStep` puts them together, one case per branch of the code.
* `FirstInFirstOut`: items leave in push order and readers are served in the order
  they asked.  The property is not inductive; `OrderKept` adds that the items held
  lie above those delivered, the parked readers above those served, and that no
  number is ahead of its counter.  The steps are taken from the refinement, so the
  argument is about the FIFO and never mentions the ring; it rests on lemmas about
  increasing lists.
* `DoneStaysDone`: after "done" nothing is delivered.  Strengthened to "done was
  only said by a closed and empty queue".
* `DropOldestKeepsNewest`: with drop-oldest an open queue holds exactly the newest
  pushes.

* `EveryCallAnswered`: inductive once deliveries to a `next()` are told from those of
  `shift()`; `ParkedNumbered` says a parked reader never has the number 0.

`OrderDispatcher_proofs` proves, in all four modes, for any slots, positions, number
of arrivals and schedule of the timers:

* `TypeCorrect` and `Accounted`: every transaction is emitted, held, counted as late
  or ignored, and only one of these.
* `SortedEmission` and `SoundBuffer`: what is emitted is sorted, and what is held is
  ahead of it and behind a gap.  Neither is inductive.  `IInv` adds which buffer a
  mode uses (`Modal`), that StreamingOrdered has emitted nothing at or beyond its
  watermark and that `streamingPending` mirrors the buffer (`Streaming`), and that
  the watermark of Ordered separates what was emitted from what is held (`Ordered`).
  A flush emits a set in `compareBatch` order; what that adds to the list is a lemma,
  and so is what each branch of `pushStreaming` does.
* `InOrderLosesNothing`: a provider that delivers in order loses nothing.  A second
  invariant, `Kept`: as long as arrivals rise, slot, buffer and watermarks are never
  ahead of the newest arrival.

`SortedEmission` and `SoundBuffer` assume `0 \notin Slots`.  That is a limit of the
code, not of the proof: `pushStreaming` takes `currentSlot = 0` for "no slot yet" and
never flushes slot 0 (order_buffer.ts:115), so on a chain that still is in its
genesis slot both are false of StreamingOrdered.  For Ordered there is no such limit:
`OrderedIsSorted` needs no assumption on slots.  No other theorem here has it.

`DexSubscription_proofs` proves, for every chain, every queue size, every window
and every combination of options:

* `TypeCorrect`.  Two facts about data carry it: the smallest of some slots is one
  of them (`Smallest`), and retaining the newest slots leaves an end piece of what
  was remembered (`RetainKeepsEnd`).
* `DrainAlwaysComes` and `QuietBetween`, from one invariant in three parts, none of
  them inductive alone: a drain is scheduled while the queue holds something, a
  parked task is woken once the queue is empty, and a task that has waited finds
  it empty.
* `StatusTells`: `StatusTruthful` is inductive given the types; the proof has a
  case per action.
* `NeverTwice`: no update is delivered twice, however often the stream is replayed.
  The argument is `Flow`: `lastParsedSlot` is the newest slot parsed (`Newest`), so
  `fromSlot` never asks for more than the dedupe window remembers; what is queued or
  still to come is not older than that slot (`Ahead`), and what the window has
  forgotten is (`Window`).  Without replay the stream never goes back (`Forward`).
* `InChainOrder`: with no loss in the process, updates come in chain order.
* `NoSilentGap`: a hole is announced, and counted unless it lies before the first
  update the user got.  `Account` is the invariant: without a loss the queue holds the
  updates right before the cursor (`Consecutive`), the user has all that was parsed
  (`Complete`), queue and cursor go on where it ends (`Nearby`), and so nothing is
  missing from the first update on (`NoHole`); a stream that skips updates is counted
  before it is opened (`Counted`), and the status never takes a break back (`Broken`,
  `First`).  The exemption is needed: three updates of one slot, of which the
  subscription got the last one, and a replay stopped after the first, leave the
  second missing with nothing counted.

The last section of `DexSubscription_proofs` proves `TaskRefined`: the subscription
implements `StreamTask`, again for every chain, size and combination of options.  `LifeKnown` says what the
task is at each place of the loop, and a lemma per kind of step what becomes of a
task; the proof then has a case per action.  Types are not enough: `LetsGo` adds
that a cancelled task holds no stream, that none is held where the loop may turn or
end, and that a request nobody has cancelled is only written to an open stream, so
that only a cancelled task can go deaf.

`DexLifecycle_proofs` proves, for any number of calls, cancels and failures:

* `NeverTwo`: `OneDexTask` is inductive together with two facts: whoever works,
  waits or runs belongs to a call that was made (`Made`), and none is active while a
  work joins the old subscription or connects for a new one (`Between`).
* `FiltersReach`: inductive given the types; a task gets a stream only by opening it
  with the filters it has then, and an update writes to an open one.
* `ConnectedIsReady`: inductive given the types; only an attempt that flies can fail.
* `UpdatesFindActive`: when an update's turn comes and the map of subscribers is not
  empty, it holds exactly the active subscription, alive.  `Listed` is inductive with
  `Linked` and `WorkKinds`: the map has one entry at most, whose task runs, and which
  is cancelled by itself only while a work joins it.
* `DisconnectLeavesNone`: what was called before a `disconnect()` that resolved is not
  alive after it.  Three facts carry it.  The chain serves calls in the order they
  were made (`InTurn`), so what came before the disconnect is over or in the maps; a
  task no cancel has reached is in a map (`Registered`), where the disconnect finds
  it; and a call outside the chain that still awaits a connection awaits one of a
  channel that was closed, which is refused (`Doomed`, `Hushed`).

`AltCache_proofs` proves, for any set of tables, any sizes and any history of
transactions, loads, failures, stops and preloads:

* `TypeCorrect`: neither map nor queue outgrows its capacity or holds a key twice.
* `CacheIsSound`: no key is guessed, and a transaction that is skipped leaves one of
  its tables up for loading.
* `NothingIsTakenBack`, an action property: misses are kept, a stopped cache stands
  still, no snapshot is replaced by an older one.

`IInv` is the bookkeeping (`Books`), that no snapshot is ahead of the chain
(`Truthful`), and `OneWriter`: only one call at a time can still be stored (the
refresh of the running subscription, or the preload of a stopped cache), and for the
tables it asks for the cache has nothing newer than what the chain had when it asked.
That is why an answer that comes late cannot overwrite a newer one.  The loops of the code are
functions of the number of entries they have passed; what they keep is proved by
ordinary induction over that number (`Induction`, from the least counterexample, since
the library's induction theorems take an operator).  Every `preload()` is over before the
cache is started, as the model's actions demand and the repository's README asks.

`ShredClient_proofs` proves, for every limit of attempts, every queue size and any
number of calls, messages and failures:

* `TypeCorrect`, with room for the calls that have not returned.
* `NeverOverlap`, `CacheFollowsLoop`.  Neither is inductive; `LoopInv` adds that
  the client's references name the newest subscription (`References`), that its
  abort signal and `loopAbort` agree, and that an open stream has a loop that is
  not aborted (`Signals`).  `Moved` says once what any step of a loop or stream
  does, and the invariant follows from that.
* `StoppedIsSilent`, an action property, from the guard of the data handler.
* `NewestCounted`: whoever still listens is the newest subscription, from
  `LoopInv`.
* `BudgetKept`: `attempts` is one ahead of the failures while a stream is open and
  equal to them after a failure (`OnBudget`), so the loop stops exactly at the
  limit.

`TransactionEvents_proofs` proves all five properties of the run, for any number of
calls, depth, identities, lost lines and unknown instructions, with stack heights or
without:

* `RuntimeTrue`: `IInv`, what the two records have in common with what was executed.
  `CallInv`: calls nest on the stack (`Stacked`, `Nested`), the CPI of an event comes
  right after what emitted it, within the call that did (`CpiFollows`, `Emits`), and a
  mint is created once (`CreatedOnce`).  `LineInv`: a line tells of a call
  (`LinesTrue`), lines are in the order of the calls (`LinesAscend`), with nothing lost
  none is missing (`LinesComplete`), and then, or with `LosesTail`, a data line has all
  top-level invocations up to its own before it (`Introduced`).  `Scoped`: with nothing lost the
  program stack of the scan is the call stack.
* The parser's loops, each by induction over its turns: the scan of the logs
  (`LogsReported`), the merge of CPIs (`AllInstructed`), the pairing of the two lists
  (`Deduped`) and the move of creates (`CreatesMoved`).  The merge rests on who waits
  for a CPI: when one comes, the call that emitted it is the one just before it, and so
  the last target, at the right height and not yet consumed (`Waits`, `AsksFollowed`).
  That holds without stack heights too, since the targets left by others are behind it.
* `EventsNeverMixed`: an event of the logs and its partner have the same number among
  their equals and their lists are equally long.  Where one of the lists tells of all
  the other does, equal lengths make them equal, and equal rank means the same
  execution (`SameExecution`).  For Pump the instructions are the complete list, thanks
  to the event CPIs; for a program that only logs one of the lists is complete if no
  line is lost or no instruction is unknown.  That is the exception in `NeverMixed`,
  and TLC shows it is met.
* `NothingLost`: whatever is put into one list is put into an event (`PutIn`).
* `RoutersTrue`: the router of a data line is that of the last top-level invocation
  before it; the hypothesis `lost = 0 \/ LosesTail` is the one under which the run checks
  it, and `router_identity` shows that it is needed.
* `CreatesComeFirst`: when create number i moves, those before it keep their order
  (`MoveKeeps`).
* `ExactEvents`: executions and events are one to one.  Soundness gives each event one
  execution, `EventsComplete` each execution an event, and `PartnerFound` says that an
  instruction the logs tell of too never stands beside its log event (`EventsDistinct`).

`Decoding_proofs` proves two properties of the `decoding` run for filters that list any
number of types; the run enumerates those that list two:

* `FilterAlwaysDecides`: for a log line of a known or an unknown program, an event CPI,
  an instruction and an account, the gates in front of the decoders never have the last
  word.  It rests on four facts.  What a program can emit is of the types its gates list
  (`EventTypes`, `InstructionTypes`, `CpiTypes`, `AccountsTypes`), which is where the
  tables come in, row by row.  A filter that admits a type passes every gate that lists
  it or one of its family (`NamedOrKin`, `GateOpens`, `WantedProgram`).  The secondary
  filter is about Pump's trades and creates alone (`SecondaryIsPumps`).  And the first
  decoder a line of unknown program meets is the one its type was looked up in, or the
  line is too short or too long for the one that would take it (`UnscopedDecoded`,
  `SwapBaseInDecoded`, `OneTrade`).
* `NeverTakenForAnother`: nothing is reported as an event of another program or another
  kind of account.  A discriminator that is not shared says which program it is of
  (`HomeOf`); for a shared one it is the length that tells, and that needs the layouts:
  `Guarded` says a guard holds wherever it stands first, `AllNeeded` that a decoder that
  needs every field gives no event of less than all of them, and `TheLengths` and
  `WrongLengths` what that comes to for the swaps, trades and pools of two programs.  What
  no length tells apart is the exception `Shared` in `NeverMistaken`.

`Right` puts both together: it relates input and answer, each action establishes it, and
the properties follow.  It says nothing of the answers to cut payloads and of filled accounts.
Payloads are those of the run: the newest layout, complete, with nothing in its lists.

Assumptions: `QueueAssumption`, `SubscriptionAssumption`, `LifecycleAssumption`,
`ClientAssumption`, `DispatcherAssumption` and `CacheAssumption` (sizes are positive
or nested as in the code, bounds are numbers, sets of tables are finite), and the
hypotheses of the theorems named above.

`AsyncEventQueue_proofs!Accounted`, `OrderedIsSorted`, `DoneStaysDone`,
`DropOldestKeepsNewest`, `CacheFollowsLoop`, `NewestCounted` and those type invariants
that are not part of a checked property are theorems only; no run repeats them.

Only model-checked:

* every liveness property (`HeldIsEmitted`, `CancelEnds`, `Recovers`, `MissesLoaded`,
  `SnapshotsCatchUp`, `MovesOn`, `CallsAnswered`): fairness and ENABLED are out of the
  prover's reach;
* `FieldsWhole` and `FilledFromOwnCall` of `Decoding`.  They are about the tables of the
  decoders, which have no parameters, so that the run is exhaustive over everything but
  the number of other calls and of elements in a list.

## 5. Plan

Done: the queue, the dispatcher, the subscription and the client around it, the
table cache, the ShredStream client, the merge of a transaction's records, and the
decoders with their filters and the completion of accounts.

Next, in this order:

1. More lemmas about `Read`: a field is never astray where the length guard covers it,
   whatever the layout; then `FieldsWhole` for lists of any length.
2. `StockPrices`: freshness and confirmation rules over an event sequence.
3. `ShredClient` with `AltCache` underneath: a refresh that outlives its loop.
4. Composition of subscription, dispatcher and public queue: order and conservation
   from the wire to the user.

## 6. Not modelled

* Stock price tracker, Stonkfun registry, account caches: state over an event
  sequence, next in the plan.
* Conversion of Yellowstone updates, protocol buffers and shred entries: no state
  between calls; what they hand on is where `TransactionEvents` and `Decoding` start.
* The RPC fetch, retries of the HTTP client and the loading of address tables for a
  fetched transaction: I/O of the libraries.
* Raw account snapshots (client.ts:845-872), `preferCurrentDbcEvents`,
  `is_created_buy`, balance fields, the mint pairs of CLMM and Orca.
* Values of fields, JSON, display names, statistics other than those named above,
  the rate limit of warnings, examples, benchmarks and generated code.
