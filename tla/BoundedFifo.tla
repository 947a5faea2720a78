------------------------------ MODULE BoundedFifo ------------------------------
(***************************************************************************)
(* What AsyncEventQueue promises to the code that uses it: a bounded FIFO   *)
(* with a parking place for readers.  Nothing here knows about a ring.      *)
(*                                                                         *)
(* Items are named by the push that offered them: the n-th call of push()   *)
(* offers item n.  Readers are named the same way: the n-th call of next()  *)
(* is reader n, and reader 0 stands for the synchronous shift().            *)
(***************************************************************************)
EXTENDS Integers, Sequences

CONSTANTS Capacity,     \* the most items the queue may hold
          MaxPushes,    \* bound: calls of push() in a behaviour
          MaxReads      \* bound: calls of next() in a behaviour

VARIABLES dropOldest, \* an overflow evicts the oldest item
          queue,     \* the items held, oldest first
          parked,    \* readers waiting for an item, first come first
          closed,    \* close() was called
          dropped,   \* items lost to an overflow
          pushed,    \* calls of push() so far
          asked,     \* calls of next() so far
          taken,     \* who got which item, in order of delivery
          ended,     \* calls of next() answered "done"
          discarded  \* items cleared, or offered to a closed queue

vars == <<dropOldest, queue, parked, closed, dropped, pushed, asked, taken, ended, discarded>>

Delivery(reader, item) == [reader |-> reader, item |-> item]

Init == /\ dropOldest \in BOOLEAN
        /\ queue = <<>>
        /\ parked = <<>>
        /\ closed = FALSE
        /\ dropped = 0
        /\ pushed = 0
        /\ asked = 0
        /\ taken = <<>>
        /\ ended = 0
        /\ discarded = 0

Put ==
  /\ pushed < MaxPushes
  /\ pushed' = pushed + 1
  /\ \/ /\ closed
        /\ discarded' = discarded + 1
        /\ UNCHANGED <<queue, parked, dropped, taken>>
     \/ /\ ~closed /\ parked # <<>>
        /\ taken' = Append(taken, Delivery(Head(parked), pushed + 1))
        /\ parked' = Tail(parked)
        /\ UNCHANGED <<queue, dropped, discarded>>
     \/ /\ ~closed /\ parked = <<>> /\ Len(queue) < Capacity
        /\ queue' = Append(queue, pushed + 1)
        /\ UNCHANGED <<parked, dropped, taken, discarded>>
     \/ /\ ~closed /\ parked = <<>> /\ Len(queue) = Capacity
        /\ dropped' = dropped + 1
        /\ queue' = IF dropOldest THEN Append(Tail(queue), pushed + 1) ELSE queue
        /\ UNCHANGED <<parked, taken, discarded>>
  /\ UNCHANGED <<dropOldest, closed, asked, ended>>

Take(reader) ==
  /\ queue # <<>>
  /\ taken' = Append(taken, Delivery(reader, Head(queue)))
  /\ queue' = Tail(queue)

Shift ==
  /\ Take(0)
  /\ UNCHANGED <<dropOldest, parked, closed, dropped, pushed, asked, ended, discarded>>

Read ==
  /\ asked < MaxReads
  /\ asked' = asked + 1
  /\ \/ /\ Take(asked + 1)
        /\ UNCHANGED <<parked, ended>>
     \/ /\ queue = <<>> /\ closed
        /\ ended' = ended + 1
        /\ UNCHANGED <<queue, taken, parked>>
     \/ /\ queue = <<>> /\ ~closed
        /\ parked' = Append(parked, asked + 1)
        /\ UNCHANGED <<queue, taken, ended>>
  /\ UNCHANGED <<dropOldest, closed, dropped, pushed, discarded>>

Clear ==
  /\ queue # <<>>
  /\ queue' = <<>>
  /\ discarded' = discarded + Len(queue)
  /\ UNCHANGED <<dropOldest, parked, closed, dropped, pushed, asked, taken, ended>>

Close ==
  /\ ~closed
  /\ closed' = TRUE
  /\ ended' = ended + Len(parked)
  /\ parked' = <<>>
  /\ UNCHANGED <<dropOldest, queue, dropped, pushed, asked, taken, discarded>>

Next == Put \/ Shift \/ Read \/ Clear \/ Close

Spec == Init /\ [][Next]_vars
===============================================================================
