---------------------------- MODULE AsyncEventQueue ----------------------------
(***************************************************************************)
(* grpc/async_event_queue.ts: the ring buffer behind every subscription    *)
(* queue (public events, raw ingress updates, errors, status transitions). *)
(*                                                                         *)
(* push() and shift() run to completion on the event loop, so each is one  *)
(* action.  Items are the numbers of the pushes that offered them and      *)
(* waiters the numbers of the next() calls that parked: order and          *)
(* identity are all the properties need of a value or of a promise.        *)
(***************************************************************************)
EXTENDS Integers, Sequences, FiniteSets

CONSTANTS MaxSize,    \* constructor argument maxSize
          Strategies, \* values of the constructor argument overflowStrategy
          MaxPushes,  \* bound: calls of push() in a behaviour
          MaxReads    \* bound: calls of next() in a behaviour

AllStrategies == {"drop-newest", "drop-oldest"}

ASSUME QueueAssumption == /\ MaxSize \in Nat \ {0}
                          /\ Strategies \subseteq AllStrategies
                          /\ MaxPushes \in Nat
                          /\ MaxReads \in Nat

VARIABLES
  strategy,      \* overflowStrategy
  items,         \* the ring, Empty where the code holds undefined
  waiters,       \* parked next() calls
  closed,
  droppedCount,
  head,
  size,
  \* history, read by the properties only
  pushed,        \* calls of push()
  asked,         \* calls of next()
  taken,         \* deliveries, in order
  ended,         \* next() calls answered { done: true }
  discarded      \* items cleared, or pushed after close()

ring    == <<items, head, size>>
vars    == <<strategy, items, waiters, closed, droppedCount, head, size,
             pushed, asked, taken, ended, discarded>>

Empty == 0
Slots == 0 .. MaxSize - 1

Delivery(reader, item) == [reader |-> reader, item |-> item]

Init ==
  /\ strategy \in Strategies
  /\ items = [i \in Slots |-> Empty]
  /\ waiters = <<>>
  /\ closed = FALSE
  /\ droppedCount = 0
  /\ head = 0
  /\ size = 0
  /\ pushed = 0
  /\ asked = 0
  /\ taken = <<>>
  /\ ended = 0
  /\ discarded = 0

-------------------------------------------------------------------------------
(* push(item): refuse, hand over, store or overflow. *)

\* Mutant: push() looks for no parked reader.
NobodyWaits == FALSE

Waiting == waiters # <<>>
Fits    == size < MaxSize

PushClosed ==
  /\ closed
  /\ discarded' = discarded + 1
  /\ UNCHANGED <<ring, waiters, droppedCount, taken>>

\* Mutant: the resolved reader stays parked.
UnparkNobody == UNCHANGED waiters

Unpark == waiters' = Tail(waiters)

HandOver(item) ==
  /\ ~closed /\ Waiting
  /\ taken' = Append(taken, Delivery(Head(waiters), item))
  /\ Unpark
  /\ UNCHANGED <<ring, droppedCount, discarded>>

\* Mutant: the write index ignores where the ring starts.
WriteIndexFromZero == size % MaxSize

WriteIndex == (head + size) % MaxSize

Store(item) ==
  /\ ~closed /\ ~Waiting /\ Fits
  /\ items' = [items EXCEPT ![WriteIndex] = item]
  /\ size' = size + 1
  /\ UNCHANGED <<head, waiters, droppedCount, taken, discarded>>

Advance   == head' = (head + 1) % MaxSize
CountDrop == droppedCount' = droppedCount + 1

Overflow(item) ==
  /\ ~closed /\ ~Waiting /\ ~Fits
  /\ CountDrop
  /\ \/ /\ strategy = "drop-oldest"
        /\ items' = [items EXCEPT ![head] = item]
        /\ Advance
     \/ /\ strategy = "drop-newest"
        /\ UNCHANGED <<items, head>>
  /\ UNCHANGED <<size, waiters, taken, discarded>>

Push ==
  /\ pushed < MaxPushes
  /\ pushed' = pushed + 1
  /\ \/ PushClosed
     \/ HandOver(pushed + 1)
     \/ Store(pushed + 1)
     \/ Overflow(pushed + 1)
  /\ UNCHANGED <<strategy, closed, asked, ended>>

-------------------------------------------------------------------------------
(* shift(), next(), clear(), close() *)

RemoveHead(reader) ==
  /\ size > 0
  /\ taken' = Append(taken, Delivery(reader, items[head]))
  /\ items' = [items EXCEPT ![head] = Empty]
  /\ Advance
  /\ size' = size - 1

Shift ==
  /\ RemoveHead(0)
  /\ UNCHANGED <<strategy, waiters, closed, droppedCount, pushed, asked, ended, discarded>>

Over == closed /\ size = 0

NextItem ==
  /\ asked < MaxReads
  /\ asked' = asked + 1
  /\ \/ /\ RemoveHead(asked + 1)
        /\ UNCHANGED <<waiters, ended>>
     \/ /\ Over
        /\ ended' = ended + 1
        /\ UNCHANGED <<ring, waiters, taken>>
     \/ /\ size = 0 /\ ~closed
        /\ waiters' = Append(waiters, asked + 1)
        /\ UNCHANGED <<ring, taken, ended>>
  /\ UNCHANGED <<strategy, closed, droppedCount, pushed, discarded>>

\* clear() shifts every item out: the slots become undefined one by one and
\* head ends where the next item would have gone.
Clear ==
  /\ size > 0
  /\ items' = [i \in Slots |-> Empty]
  /\ head' = WriteIndex
  /\ size' = 0
  /\ discarded' = discarded + size
  /\ UNCHANGED <<strategy, waiters, closed, droppedCount, pushed, asked, taken, ended>>

Close ==
  /\ ~closed
  /\ closed' = TRUE
  /\ ended' = ended + Len(waiters)
  /\ waiters' = <<>>
  /\ UNCHANGED <<strategy, ring, droppedCount, pushed, asked, taken, discarded>>

Next == Push \/ Shift \/ NextItem \/ Clear \/ Close

Spec == Init /\ [][Next]_vars

-------------------------------------------------------------------------------
(* Properties *)

\* Every variable keeps its type; in particular head and size never leave the
\* ring, whatever mix of push, shift, next and clear the queue sees.
TypeOK ==
  /\ strategy \in AllStrategies
  /\ items \in [Slots -> Nat]
  /\ waiters \in Seq(Nat)
  /\ closed \in BOOLEAN
  /\ head \in Slots
  /\ size \in 0 .. MaxSize
  /\ {droppedCount, pushed, asked, ended, discarded} \subseteq Nat
  /\ taken \in Seq([reader : Nat, item : Nat])

\* The items held, oldest first: size slots of the ring, starting at head.
Contents == [i \in 1 .. size |-> items[(head + i - 1) % MaxSize]]

\* FIFO end to end: items leave in the order they were pushed, those still held
\* are younger than any that left and in push order, and readers of next() are
\* served in the order they asked.
ServedInOrder ==
  /\ \A i, j \in DOMAIN taken : i < j =>
       /\ taken[i].item < taken[j].item
       /\ 0 \notin {taken[i].reader, taken[j].reader} => taken[i].reader < taken[j].reader
  /\ \A i, j \in DOMAIN Contents : i < j => Contents[i] < Contents[j]
  /\ \A i \in DOMAIN taken, j \in DOMAIN Contents : taken[i].item < Contents[j]

\* Every push is accounted for exactly once: delivered, held, counted by
\* dropped(), or discarded by clear() or after close().  This is what
\* DexEventSubscription.dropped() relies on.
NothingLost == pushed = Len(taken) + size + droppedCount + discarded

\* The deliveries that answered a next() call; shift() has no reader.
ServedByNext == {i \in DOMAIN taken : taken[i].reader # 0}

\* Every next() call is answered exactly once or still parked: no promise is
\* resolved twice or forgotten, across hand-over and close().
EveryReadAnswered == asked = ended + Len(waiters) + Cardinality(ServedByNext)

\* With drop-oldest the queue holds exactly the newest pushes, without a hole:
\* what subscribers are told drop-oldest is for.
FreshestKept ==
  strategy = "drop-oldest" /\ ~closed =>
    Contents = [i \in 1 .. size |-> pushed - size + i]

\* Once any reader was told the stream is over, no later call delivers an item:
\* a closed queue is drained before it reports its end.
DoneIsFinal == [][ended > 0 => UNCHANGED taken]_vars

Fifo == INSTANCE BoundedFifo WITH
          Capacity <- MaxSize, dropOldest <- (strategy = "drop-oldest"),
          queue <- Contents, parked <- waiters, dropped <- droppedCount

\* The ring implements the bounded FIFO.
ImplementsFifo == Fifo!Spec
===============================================================================
