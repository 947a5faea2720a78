---------------------------- MODULE OrderDispatcher ----------------------------
(***************************************************************************)
(* grpc/order_buffer.ts: puts the parsed transactions of a subscription    *)
(* into (slot, tx_index) order before their events reach the user.         *)
(*                                                                         *)
(* One TxBatch is one transaction with at least one event; emitting the    *)
(* batch emits its events in order, so a batch is the unit here.  slots,   *)
(* the Map of arrays, is the set of the batches it holds: every array is   *)
(* sorted by compareBatch before it is read.  Time is two facts: idle      *)
(* (order_timeout_ms passed since lastFlushMs) and windowOver              *)
(* (micro_batch_us passed since microBatchStartUs).                        *)
(***************************************************************************)
EXTENDS Integers, Sequences, FiniteSets, FiniteSetsExt

CONSTANTS Modes,         \* the order_mode values a behaviour may start with
          Slots,         \* slots of the arriving transactions
          TxIndexes,     \* tx_index values of the arriving transactions
          MaxArrivals    \* bound: transactions pushed in a behaviour

AllModes == {"Unordered", "Ordered", "StreamingOrdered", "MicroBatch"}

ASSUME DispatcherAssumption == /\ Modes \subseteq AllModes
                               /\ Slots \subseteq Nat
                               /\ TxIndexes \subseteq Nat
                               /\ MaxArrivals \in Nat

VARIABLES
  mode,                 \* config.order_mode
  slots,                \* batches held by Ordered and StreamingOrdered
  streamingWatermarks,  \* slot -> next tx_index to emit
  streamingPending,     \* tx_index values held for currentSlot
  microBatch,           \* batches of the open micro-batch window
  currentSlot,
  seq,
  orderedWatermark,     \* last batch emitted by Ordered
  orderedLateDrops,
  idle, windowOver,     \* the clock
  \* history, read by the properties only
  arrived,              \* every transaction pushed
  emitted,              \* every batch emitted, in order
  ignored               \* batches StreamingOrdered drops without counting

clock == <<idle, windowOver>>
vars  == <<mode, slots, streamingWatermarks, streamingPending, microBatch, currentSlot,
           seq, orderedWatermark, orderedLateDrops, idle, windowOver,
           arrived, emitted, ignored>>

Batch(slot, txIndex) == [slot |-> slot, txIndex |-> txIndex, seq |-> seq]

Earlier(a, b) == \/ a.slot < b.slot
                 \/ a.slot = b.slot /\ a.txIndex < b.txIndex

\* compareBatch(a, b) < 0
Before(a, b) == \/ Earlier(a, b)
                \/ a.slot = b.slot /\ a.txIndex = b.txIndex /\ a.seq < b.seq

\* The one way to list S in compareBatch order (as a set with one element).
SortedRuns(S) ==
  {run \in [1 .. Cardinality(S) -> S] :
     \A i, j \in DOMAIN run : i < j => Before(run[i], run[j])}

\* The watermark before anything was emitted: null in the code.
NoWatermark == [slot |-> -1, txIndex |-> -1]

Init ==
  /\ mode \in Modes
  /\ slots = {}
  /\ streamingWatermarks = <<>>
  /\ streamingPending = {}
  /\ microBatch = {}
  /\ currentSlot = 0
  /\ seq = 0
  /\ orderedWatermark = NoWatermark
  /\ orderedLateDrops = 0
  /\ idle = FALSE
  /\ windowOver = FALSE
  /\ arrived = <<>>
  /\ emitted = <<>>
  /\ ignored = 0

-------------------------------------------------------------------------------
(* Emission *)

\* Mutant: of the batches of one position only the first is emitted.
EmitOncePerPosition(S) ==
  /\ \E run \in SortedRuns({b \in S : \A c \in S : Before(c, b) => Earlier(c, b)}) :
       emitted' = emitted \o run
  /\ UNCHANGED orderedWatermark

\* emitBatch for every batch of S, in compareBatch order.
Emit(S) ==
  \E run \in SortedRuns(S) :
    /\ emitted' = emitted \o run
    /\ orderedWatermark' =
         IF mode = "Ordered" /\ S # {}
           THEN [slot |-> run[Len(run)].slot, txIndex |-> run[Len(run)].txIndex]
           ELSE orderedWatermark

NextIndex(marks, slot) == IF slot \in DOMAIN marks THEN marks[slot] ELSE 0

Without(marks, S) == [s \in DOMAIN marks \ S |-> marks[s]]

WithMark(marks, slot, index) ==
  [s \in DOMAIN marks \cup {slot} |-> IF s = slot THEN index ELSE marks[s]]

\* flushAllSlots keeps one watermark, that of the current slot, past all it emits.
FlushedMarks(held) ==
  LET here == {b.txIndex : b \in {x \in held : x.slot = currentSlot}}
      old  == NextIndex(streamingWatermarks, currentSlot)
  IN  IF mode # "StreamingOrdered" THEN <<>>
      ELSE IF here # {} THEN WithMark(<<>>, currentSlot, Max({i + 1 : i \in here} \cup {old}))
      ELSE Without(streamingWatermarks, DOMAIN streamingWatermarks \ {currentSlot})

\* flushAllSlots and flushMicroBatch; both reset lastFlushMs, the latter only
\* when there is something to flush.
FlushHeld(all) ==
  /\ Emit(all)
  /\ slots' = {}
  /\ streamingWatermarks' = FlushedMarks(slots)
  /\ streamingPending' = {}
  /\ idle' = FALSE

FlushMicroBatch ==
  /\ Emit(microBatch)
  /\ microBatch' = {}
  /\ windowOver' = FALSE
  /\ idle' = FALSE

-------------------------------------------------------------------------------
(* pushTransactionEvents, one operator per mode *)

PushUnordered(b) ==
  /\ mode = "Unordered"
  /\ Emit({b})
  /\ UNCHANGED <<slots, streamingWatermarks, streamingPending, microBatch,
                 currentSlot, orderedLateDrops, clock, ignored>>

\* Mutant: only a closed slot is late, not a transaction the watermark passed.
LateBySlotOnly(b) == b.slot < currentSlot

\* Mutant: any transaction of a slot that was flushed once is late.
LateAfterAnyFlush(b) == b.slot < currentSlot \/ b.slot <= orderedWatermark.slot

Late(b) == b.slot < currentSlot \/ ~Earlier(orderedWatermark, b)

PushOrdered(b) ==
  /\ mode = "Ordered"
  /\ IF Late(b)
       THEN /\ orderedLateDrops' = orderedLateDrops + 1
            /\ UNCHANGED <<slots, streamingWatermarks, currentSlot, orderedWatermark, emitted, idle>>
       ELSE LET flushing == b.slot > currentSlot /\ currentSlot > 0
                flushed  == IF flushing THEN {x \in slots : x.slot < b.slot} ELSE {}
            IN  /\ Emit(flushed)
                /\ slots' = (slots \ flushed) \cup {b}
                /\ streamingWatermarks' = Without(streamingWatermarks, {x.slot : x \in flushed})
                /\ currentSlot' = IF b.slot > currentSlot THEN b.slot ELSE currentSlot
                /\ idle' = IF flushing THEN FALSE ELSE idle
                /\ UNCHANGED orderedLateDrops
  /\ UNCHANGED <<streamingPending, microBatch, windowOver, ignored>>

\* Mutant: released stops at the first held transaction.
ReleasedOne(held, slot, expected) ==
  {x \in held : x.slot = slot /\ x.txIndex = expected + 1}

\* The held transactions of slot that follow expected without a gap.
Released(held, slot, expected) ==
  {x \in held : /\ x.slot = slot
                /\ x.txIndex > expected
                /\ \A i \in expected + 1 .. x.txIndex :
                     \E y \in held : y.slot = slot /\ y.txIndex = i}

\* A future transaction is held unless its index is already.
Holdable(b, pending) == b.txIndex \notin pending

PushStreaming(b) ==
  /\ mode = "StreamingOrdered"
  /\ IF b.slot < currentSlot
       THEN /\ ignored' = ignored + 1
            /\ UNCHANGED <<slots, streamingWatermarks, streamingPending, currentSlot,
                           orderedWatermark, emitted, idle>>
       ELSE
         LET newer    == b.slot > currentSlot
             flushing == newer /\ currentSlot > 0
             flushed  == IF flushing THEN {x \in slots : x.slot < b.slot} ELSE {}
             held     == slots \ flushed
             marks    == IF flushing THEN Without(streamingWatermarks, 0 .. b.slot - 1)
                                     ELSE streamingWatermarks
             pending  == IF newer THEN {} ELSE streamingPending
             expected == NextIndex(marks, b.slot)
             released == Released(held, b.slot, expected)
         IN /\ currentSlot' = IF newer THEN b.slot ELSE currentSlot
            /\ idle' = IF flushing THEN FALSE ELSE idle
            /\ \/ /\ b.txIndex = expected
                  /\ Emit(flushed \cup {b} \cup released)
                  /\ slots' = held \ released
                  /\ streamingPending' = pending \ {x.txIndex : x \in released}
                  /\ streamingWatermarks' =
                       WithMark(marks, b.slot, expected + 1 + Cardinality(released))
                  /\ UNCHANGED ignored
               \/ /\ b.txIndex > expected /\ Holdable(b, pending)
                  /\ Emit(flushed)
                  /\ slots' = held \cup {b}
                  /\ streamingPending' = pending \cup {b.txIndex}
                  /\ streamingWatermarks' = marks
                  /\ UNCHANGED ignored
               \/ /\ b.txIndex # expected
                  /\ b.txIndex > expected => ~Holdable(b, pending)
                  /\ Emit(flushed)
                  /\ slots' = held
                  /\ streamingPending' = pending
                  /\ streamingWatermarks' = marks
                  /\ ignored' = ignored + 1
  /\ UNCHANGED <<microBatch, orderedLateDrops, windowOver>>

\* A window that is over when a batch joins is flushed with that batch.
PushMicroBatch(b) ==
  /\ mode = "MicroBatch"
  /\ IF microBatch # {} /\ windowOver
       THEN /\ Emit(microBatch \cup {b})
            /\ microBatch' = {}
            /\ windowOver' = FALSE
            /\ idle' = FALSE
       ELSE /\ microBatch' = microBatch \cup {b}
            /\ UNCHANGED <<emitted, orderedWatermark, windowOver, idle>>
  /\ UNCHANGED <<slots, streamingWatermarks, streamingPending, currentSlot,
                 orderedLateDrops, ignored>>

PushTransactionEvents(slot, txIndex) ==
  /\ Len(arrived) < MaxArrivals
  /\ arrived' = Append(arrived, [slot |-> slot, txIndex |-> txIndex])
  /\ seq' = seq + 1
  /\ LET b == Batch(slot, txIndex)
     IN  PushUnordered(b) \/ PushOrdered(b) \/ PushStreaming(b) \/ PushMicroBatch(b)
  /\ UNCHANGED mode

-------------------------------------------------------------------------------
(* Timers *)

\* order_timeout_ms passes since the last flush.
TimeoutPasses ==
  /\ mode \in {"Ordered", "StreamingOrdered"} /\ ~idle
  /\ idle' = TRUE
  /\ UNCHANGED <<mode, slots, streamingWatermarks, streamingPending, microBatch, currentSlot,
                 seq, orderedWatermark, orderedLateDrops, windowOver, arrived, emitted, ignored>>

\* micro_batch_us passes since the window was opened.
WindowPasses ==
  /\ microBatch # {} /\ ~windowOver
  /\ windowOver' = TRUE
  /\ UNCHANGED <<mode, slots, streamingWatermarks, streamingPending, microBatch, currentSlot,
                 seq, orderedWatermark, orderedLateDrops, idle, arrived, emitted, ignored>>

\* Mutant: the timer waits until two transactions are held.
TimedOutNeedsTwo == idle /\ Cardinality(slots) > 1

TimedOut == idle

FlushDue ==
  /\ \/ /\ mode \in {"Ordered", "StreamingOrdered"} /\ TimedOut
        /\ FlushHeld(slots)
        /\ UNCHANGED <<microBatch, windowOver>>
     \/ /\ mode = "MicroBatch" /\ microBatch # {} /\ windowOver
        /\ FlushMicroBatch
        /\ UNCHANGED <<slots, streamingWatermarks, streamingPending>>
  /\ UNCHANGED <<mode, currentSlot, seq, orderedLateDrops, arrived, ignored>>

\* flushAll, which ends a subscription: both kinds of buffer at once, one of them
\* empty.
FlushAll ==
  /\ slots \cup microBatch # {}
  /\ FlushHeld(slots \cup microBatch)
  /\ microBatch' = {}
  /\ windowOver' = FALSE
  /\ UNCHANGED <<mode, currentSlot, seq, orderedLateDrops, arrived, ignored>>

Next ==
  \/ \E slot \in Slots, txIndex \in TxIndexes : PushTransactionEvents(slot, txIndex)
  \/ TimeoutPasses
  \/ WindowPasses
  \/ FlushDue
  \/ FlushAll

\* Time passes, and setInterval keeps calling flushDue (client.ts, flushTimer).
Fairness == WF_vars(TimeoutPasses) /\ WF_vars(WindowPasses) /\ WF_vars(FlushDue)

Spec == Init /\ [][Next]_vars /\ Fairness

-------------------------------------------------------------------------------
(* Properties *)

Held == slots \cup microBatch

Batches == [slot : Slots, txIndex : TxIndexes, seq : Nat]

\* Every variable keeps its type; no mark outlives its slot, so the map of a
\* subscription that runs for months does not grow.
TypeOK ==
  /\ mode \in Modes
  /\ Held \subseteq Batches /\ IsFiniteSet(Held)
  /\ DOMAIN streamingWatermarks \subseteq {0, currentSlot}
  /\ \A s \in DOMAIN streamingWatermarks : streamingWatermarks[s] \in Nat
  /\ streamingPending \subseteq TxIndexes
  /\ currentSlot \in Slots \cup {0}
  /\ {seq, orderedLateDrops, ignored} \subseteq Nat
  /\ orderedWatermark \in [slot : Slots, txIndex : TxIndexes] \cup {NoWatermark}
  /\ {idle, windowOver} \subseteq BOOLEAN
  /\ emitted \in Seq(Batches)

\* What the user sees is sorted: Ordered emits by (slot, tx_index, arrival) over
\* the whole run, across slot changes, timeout flushes and late arrivals, and
\* StreamingOrdered emits no (slot, tx_index) twice either.
EmissionOrdered ==
  \A i, j \in DOMAIN emitted : i < j =>
    /\ mode = "Ordered" => Before(emitted[i], emitted[j])
    /\ mode = "StreamingOrdered" => Earlier(emitted[i], emitted[j])

\* What is held can still be emitted in order: nothing held has been passed.
HeldAhead ==
  mode \in {"Ordered", "StreamingOrdered"} =>
    \A b \in slots, i \in DOMAIN emitted : Earlier(emitted[i], b)

\* No transaction vanishes: emitted, held, counted as late, or ignored.
Conservation ==
  seq = Len(emitted) + Cardinality(slots) + Cardinality(microBatch)
          + orderedLateDrops + ignored

\* StreamingOrdered holds a transaction only behind a gap, at most once: pending
\* mirrors the buffer of the current slot and no held index is due.
HeldBehindGap ==
  mode = "StreamingOrdered" =>
    LET here == {b \in slots : b.slot = currentSlot}
    IN  /\ streamingPending = {b.txIndex : b \in here}
        /\ Cardinality(streamingPending) = Cardinality(here)
        /\ \A b \in here : b.txIndex > NextIndex(streamingWatermarks, currentSlot)

\* What is held is held for a reason and in a bounded buffer: ahead of all that
\* was emitted, behind a gap, with one watermark at most (pushStreaming,
\* flushAllSlots).
BufferSound == TypeOK /\ HeldAhead /\ HeldBehindGap

\* A provider that delivers in order loses nothing, whenever the timeouts fire:
\* only a transaction that arrives after a later one can be late.
InOrderArrivalsKept ==
  (\A i, j \in DOMAIN arrived : i < j => Earlier(arrived[i], arrived[j]))
    => orderedLateDrops = 0 /\ ignored = 0

\* Every transaction held is emitted in the end, however the stream goes quiet.
HeldIsEmitted ==
  \A n \in 0 .. MaxArrivals - 1 :
    (\E b \in Held : b.seq = n) ~> (\E i \in DOMAIN emitted : emitted[i].seq = n)
===============================================================================
