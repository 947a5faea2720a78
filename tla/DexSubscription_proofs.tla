------------------------- MODULE DexSubscription_proofs -------------------------
(***************************************************************************)
(* Proofs about the control of a DEX subscription, for every chain, every  *)
(* queue size and window, every combination of options and any number of   *)
(* failures.                                                               *)
(***************************************************************************)
EXTENDS DexSubscription, SequenceTheorems, WellFoundedInduction, TLAPS

\* A set of numbers has a smallest.
LEMMA Smallest ==
  ASSUME NEW T, T \subseteq Nat, T # {}
  PROVE  \E x \in T : \A y \in T : x <= y
<1>1. PICK x \in T : \A y \in T : ~(<<y, x>> \in OpToRel(<, Nat))
  BY NatLessThanWellFounded, WFMin
<1>2. \A y \in T : ~(y < x)
  BY <1>1 DEF OpToRel
<1>3. QED
  BY <1>2

\* The chain is a finite list of slots.
LEMMA Chain == Len(Log) \in Nat /\ \A p \in Positions : Log[p] \in Nat \ {0}
BY SubscriptionAssumption, LenProperties, ElementOfSeq DEF Positions

\* A stream starts at an update the chain has, or right after its tip.
LEMMA StartIsPosition ==
  ASSUME NEW r, tip \in 0 .. Len(Log), lastParsedSlot \in Nat
  PROVE  StartOf(r) \in 1 .. Len(Log) + 1
<1> DEFINE From(p) == /\ Log[p] >= lastParsedSlot
                      /\ \A q \in 1 .. p - 1 : Log[q] < lastParsedSlot
           T == {p \in 1 .. tip : Log[p] >= lastParsedSlot}
<1>1. CASE r /\ \E p \in 1 .. tip : Log[p] >= lastParsedSlot
  <2>1. T \subseteq Nat /\ T # {}
    BY <1>1
  <2>2. PICK x \in T : \A y \in T : x <= y
    BY <2>1, Smallest
  <2>3. ASSUME NEW q \in 1 .. x - 1 PROVE Log[q] < lastParsedSlot
    <3>1. q \in 1 .. tip /\ q < x /\ q \in Positions
      BY <2>2, Chain DEF Positions
    <3>2. q \notin T
      BY <2>2, <3>1
    <3>3. QED
      BY <3>1, <3>2, Chain
  <2>4. \E p \in 1 .. tip : From(p)
    BY <2>2, <2>3
  <2>5. (CHOOSE p \in 1 .. tip : From(p)) \in 1 .. tip
    BY <2>4
  <2>6. QED
    BY <1>1, <2>5, Chain DEF StartOf
<1>2. CASE ~(r /\ \E p \in 1 .. tip : Log[p] >= lastParsedSlot)
  BY <1>2, Chain DEF StartOf
<1>3. QED
  BY <1>1, <1>2

\* Evicting stale identities leaves an end piece of the window.
LEMMA RetainKeepsEnd ==
  ASSUME NEW order \in Seq(Positions), NEW slot
  PROVE  Retain(order, slot) \in Seq(Positions)
<1> DEFINE highest == Max({Log[p] : p \in ToSet(order)})
           stale(n) == \A i \in 1 .. n : Log[order[i]] < highest - DedupeSlots
           ends(n)  == n = Len(order) \/ ~stale(n + 1)
           cut == CHOOSE n \in 0 .. Len(order) : stale(n) /\ ends(n)
           T == {n \in 0 .. Len(order) : ends(n)}
<1> HIDE DEF highest
<1>1. Len(order) \in Nat
  BY LenProperties
<1>2. T \subseteq Nat /\ T # {}
  BY <1>1
<1>3. PICK x \in T : \A y \in T : x <= y
  BY <1>2, Smallest
<1>4. stale(x)
  <2>1. CASE x = 0
    BY <2>1
  <2>2. CASE x # 0
    <3>1. x - 1 \in 0 .. Len(order) /\ x - 1 \notin T
      BY <1>1, <1>3, <2>2
    <3>2. ~ends(x - 1)
      BY <3>1
    <3>3. x - 1 + 1 = x
      BY <1>3
    <3>4. QED
      BY <3>2, <3>3
  <2>3. QED
    BY <2>1, <2>2
<1>5. cut \in 0 .. Len(order)
  BY <1>3, <1>4
<1>6. Retain(order, slot) = SubSeq(order, cut + 1, Len(order))
  BY DEF Retain, highest
<1> HIDE DEF cut
<1>7. QED
  BY <1>1, <1>5, <1>6, SubSeqProperties

(***************************************************************************)
(* Type correctness                                                        *)
(***************************************************************************)

\* transition() makes a status of what it is given.
LEMMA StatusType ==
  ASSUME status \in [state : States, broken : BOOLEAN], NEW s \in States, NEW b \in BOOLEAN
  PROVE  Status(s, b) \in [state : States, broken : BOOLEAN]
BY DEF Status

\* The subscription starts with values of the right types.
LEMMA InitType == Init => TypeOK
<1> SUFFICES ASSUME Init PROVE TypeOK
  OBVIOUS
<1>1. config \in Configs /\ replayAllowed \in BOOLEAN
  BY SubscriptionAssumption DEF Init, AllConfigs
<1>2. {attempted, receivedData, holder, idleWaiter, isCancelled, drainScheduled,
       cancelledInWrite} \subseteq BOOLEAN
  BY DEF Init
<1>3. /\ phase \in Phases /\ failure \in {"none", "other", "unsupported"}
      /\ status \in [state : States, broken : BOOLEAN]
  BY DEF Init, Phases, States
<1>4. ingress \in Seq(Positions) /\ Len(ingress) <= IngressSize /\ seenOrder \in Seq(Positions)
      /\ out \in Seq(Positions) /\ handled \subseteq Positions
  BY SubscriptionAssumption DEF Init
<1>5. /\ wire \in {"none", "open", "closing", "closed"}
      /\ tip \in 0 .. Len(Log) /\ cursor \in 1 .. Len(Log) + 1 /\ lastParsedSlot = 0
      /\ {continuityBreaks, failures, pings, parseErrors, refusals, ingressDrops} \subseteq Nat
  BY Chain DEF Init
<1>6. QED
  BY <1>1, <1>2, <1>3, <1>4, <1>5 DEF TypeOK

\* Every step keeps the types, the bound of the ingress queue among them.
LEMMA NextType == TypeOK /\ [Next]_vars => TypeOK'
<1> SUFFICES ASSUME TypeOK, [Next]_vars PROVE TypeOK'
  OBVIOUS
<1> USE DEF TypeOK
<1>0. Len(Log) \in Nat /\ lastParsedSlot \in Nat /\ \A p \in Positions : Log[p] \in Nat
  BY Chain DEF TypeOK
<1>i. /\ IngressSize \in Nat \ {0} /\ Len(ingress) \in Nat /\ Len(ingress) <= IngressSize
      /\ ingress \in Seq(Positions)
  BY SubscriptionAssumption, LenProperties
<1>n. /\ continuityBreaks \in Nat /\ failures \in Nat /\ parseErrors \in Nat
      /\ refusals \in Nat /\ ingressDrops \in Nat
  OBVIOUS
<1>s. \A t \in States, b \in BOOLEAN : Status(t, b) \in [state : States, broken : BOOLEAN]
  BY StatusType
<1>t. {"connecting", "connected", "reconnecting", "stopped"} = States /\ status.state \in States
  BY DEF States
<1>u. \A b \in BOOLEAN : Status("reconnecting", b) \in [state : States, broken : BOOLEAN]
  BY <1>s, <1>t
<1>1. CASE Produce
  BY <1>0, <1>1 DEF Produce, task, queues, parser, history
<1>2. CASE SubscribeOk
  BY <1>2 DEF SubscribeOk, queues, parser, history, Phases, ShouldReplay, Parsed
<1>3. CASE \E kind \in {"other", "unsupported"} : SetupFails(kind)
  BY <1>3 DEF SetupFails, queues, parser, history, Phases
<1>4. CASE WriteOk
  BY <1>0, <1>4, <1>s, <1>t, StartIsPosition DEF WriteOk, queues, parser, history, Phases
<1>5. CASE Ping
  BY <1>5 DEF Ping, queues, parser, history
<1>6. CASE Data
  <2>1. cursor \in Positions /\ cursor + 1 \in 1 .. Len(Log) + 1
    BY <1>0, <1>6 DEF Data, Positions
  <2>2. ingress' \in Seq(Positions) /\ Len(ingress') <= IngressSize
    <3>1. CASE IngressFull /\ ingress' = ingress
      BY <3>1
    <3>2. CASE IngressFull /\ ingress' = Append(Tail(ingress), cursor)
      <4>1. ingress # <<>>
        BY <1>i, <3>2, EmptySeq DEF IngressFull
      <4>2. Tail(ingress) \in Seq(Positions) /\ Len(Tail(ingress)) = Len(ingress) - 1
        BY <1>i, <4>1, HeadTailProperties
      <4>3. QED
        BY <1>i, <2>1, <3>2, <4>2, AppendProperties
    <3>3. CASE ~IngressFull /\ ingress' = Append(ingress, cursor)
      <4>1. Len(ingress) # IngressSize
        BY <3>3 DEF IngressFull
      <4>2. QED
        BY <1>i, <2>1, <3>3, <4>1, AppendProperties
    <3>4. QED
      BY <1>6, <3>1, <3>2, <3>3 DEF Data, Enqueue
  <2>3. status' \in [state : States, broken : BOOLEAN] /\ ingressDrops' \in Nat
    <3>1. \/ UNCHANGED <<status, ingressDrops>>
          \/ status' = Status(status.state, TRUE) /\ ingressDrops' = ingressDrops + 1
      BY <1>6 DEF Data, Enqueue, AnnounceDrop
    <3> HIDE DEF TypeOK
    <3>2. status \in [state : States, broken : BOOLEAN]
      BY DEF TypeOK
    <3>3. Status(status.state, TRUE) \in [state : States, broken : BOOLEAN]
      BY <1>s, <1>t
    <3>4. status' \in [state : States, broken : BOOLEAN]
      BY <3>1, <3>2, <3>3
    <3>5. ingressDrops' = ingressDrops \/ ingressDrops' = ingressDrops + 1
      BY <3>1
    <3>6. ingressDrops' \in Nat
      BY <1>n, <3>5
    <3>7. QED
      BY <3>4, <3>6
  <2>4. drainScheduled' \in BOOLEAN /\ receivedData' \in BOOLEAN
    BY <1>6 DEF Data, ScheduleIngressDrain
  <2>5. QED
    BY <1>6, <2>1, <2>2, <2>3, <2>4 DEF Data, parser
<1>7. CASE Drain
  <2>1. drainScheduled' \in BOOLEAN
    BY <1>7 DEF Drain
  <2>2. idleWaiter' \in BOOLEAN
    BY <1>7 DEF Drain
  <2>3. CASE ingress = <<>>
    BY <1>7, <2>1, <2>2, <2>3 DEF Drain, parser, transport
  <2>4. CASE ingress # <<>>
    <3>1. Head(ingress) \in Positions /\ ingress' = Tail(ingress) /\ Tail(ingress) \in Seq(Positions)
          /\ Len(Tail(ingress)) <= IngressSize
      <4>1. ingress' = Tail(ingress)
        BY <1>7, <2>4 DEF Drain
      <4>2. QED
        BY <1>i, <2>4, <4>1, HeadTailProperties
    <3>2. ProcessUpdate(Head(ingress))
      BY <1>7, <2>4 DEF Drain
    <3>3. Append(seenOrder, Head(ingress)) \in Seq(Positions) /\ Append(out, Head(ingress)) \in Seq(Positions)
      BY <3>1, AppendProperties
    <3>4. Retain(Append(seenOrder, Head(ingress)), Log[Head(ingress)]) \in Seq(Positions)
      BY <3>3, RetainKeepsEnd
    <3>5. Later(Log[Head(ingress)]) \in {0} \cup {Log[p] : p \in Positions}
      BY <3>1 DEF Later
    <3>6. /\ lastParsedSlot' \in {0} \cup {Log[p] : p \in Positions}
          /\ seenOrder' \in Seq(Positions) /\ out' \in Seq(Positions) /\ handled' \subseteq Positions
      BY <3>1, <3>2, <3>3, <3>4, <3>5 DEF ProcessUpdate
    <3>7. status' \in [state : States, broken : BOOLEAN] /\ parseErrors' \in Nat /\ refusals' \in Nat
      <4>1. /\ status' = status \/ status' = Status(status.state, TRUE)
            /\ parseErrors' \in {parseErrors, parseErrors + 1}
            /\ refusals' \in {refusals, refusals + 1}
        BY <3>2 DEF ProcessUpdate
      <4> HIDE DEF TypeOK
      <4>2. status \in [state : States, broken : BOOLEAN]
        BY DEF TypeOK
      <4>3. Status(status.state, TRUE) \in [state : States, broken : BOOLEAN]
        BY <1>s, <1>t
      <4>4. status' \in [state : States, broken : BOOLEAN]
        BY <4>1, <4>2, <4>3
      <4>5. parseErrors' \in Nat
        BY <1>n, <4>1
      <4>6. refusals' \in Nat
        BY <1>n, <4>1
      <4>7. QED
        BY <4>4, <4>5, <4>6
    <3>8. QED
      BY <1>7, <2>1, <2>2, <3>1, <3>6, <3>7 DEF Drain, transport
  <2>5. QED
    BY <2>3, <2>4
<1>8. CASE \E next \in {"failed", "ended"}, kind \in {"other", "unsupported"} : Goodbye(next, kind)
  <2>1. PICK next \in {"failed", "ended"}, kind \in {"other", "unsupported"} : Goodbye(next, kind)
    BY <1>8
  <2>2. status' \in [state : States, broken : BOOLEAN]
    <3>1. status' = status \/ status' = Status("reconnecting", TRUE)
      BY <2>1 DEF Goodbye, AnnounceLoss
    <3>2. QED
      BY <3>1, <1>u
  <2>3. phase' \in Phases /\ failure' \in {"none", "other", "unsupported"}
    BY <2>1 DEF Goodbye, Phases
  <2>4. holder' \in BOOLEAN
    BY <2>1 DEF Goodbye
  <2>5. failures' \in Nat
    BY <1>n, <2>1 DEF Goodbye
  <2>6. wire' = "closed"
    BY <2>1 DEF Goodbye
  <2>7. UNCHANGED <<config, attempted, receivedData, replayAllowed, idleWaiter, isCancelled, queues,
                    parser, continuityBreaks, tip, cursor, pings, history>>
    BY <2>1 DEF Goodbye
  <2>8. QED
    BY <2>2, <2>3, <2>4, <2>5, <2>6, <2>7 DEF queues, parser, history
<1>9. CASE Catch
  <2>1. status' = status \/ status' = Status("reconnecting", TRUE)
    BY <1>9 DEF Catch
  <2>2. status' \in [state : States, broken : BOOLEAN]
    BY <2>1, <1>u
  <2>3. phase' \in Phases /\ {holder', idleWaiter'} \subseteq BOOLEAN
    BY <1>9 DEF Catch, WaitForIngressIdle, Phases
  <2>4. wire' \in {"none", "open", "closing", "closed"}
    BY <1>9 DEF Catch, CancelStream
  <2>5. QED
    BY <1>9, <2>2, <2>3, <2>4 DEF Catch, queues, parser, history
<1>10. CASE Ended
  BY <1>10 DEF Ended, WaitForIngressIdle, queues, parser, history, transport, Phases
<1>11. CASE Drained
  <2>1. Break \in Nat
    BY DEF Break
  <2>2. replayAllowed' \in BOOLEAN
    BY <1>11 DEF Drained
  <2>3. phase' \in Phases
    BY <1>11 DEF Drained, Phases
  <2>4. continuityBreaks' \in Nat
    <3> HIDE DEF TypeOK
    <3>1. \/ continuityBreaks' = continuityBreaks
          \/ continuityBreaks' = continuityBreaks + Break
      BY <1>11 DEF Drained
    <3>2. QED
      BY <1>n, <2>1, <3>1
  <2>5. QED
    BY <1>11, <2>2, <2>3, <2>4 DEF Drained, queues, parser, history, transport
<1>12. CASE BackoffOver
  <2>1. status' = status \/ status' = Status("reconnecting", FALSE)
    BY <1>12 DEF BackoffOver
  <2>2. status' \in [state : States, broken : BOOLEAN]
    BY <2>1, <1>u
  <2>3. /\ phase' \in Phases /\ failure' \in {"none", "other", "unsupported"}
        /\ {attempted', receivedData'} \subseteq BOOLEAN
    BY <1>12 DEF BackoffOver, Phases
  <2>4. QED
    BY <1>12, <2>2, <2>3 DEF BackoffOver, queues, parser, history, transport
<1>13. CASE Finish
  BY <1>13, <1>s, <1>t DEF Finish, queues, parser, history, transport, Phases
<1>14. CASE Cancel
  <2>1. cancelledInWrite' \in BOOLEAN
    BY <1>14 DEF Cancel
  <2>2. {isCancelled', holder', drainScheduled', idleWaiter'} \subseteq BOOLEAN
    BY <1>14 DEF Cancel, ResolveIngressIdle
  <2>3. ingress' \in Seq(Positions) /\ Len(ingress') <= IngressSize
    BY <1>14, SubscriptionAssumption DEF Cancel
  <2>4. /\ wire' \in {"none", "open", "closing", "closed"}
        /\ status' \in [state : States, broken : BOOLEAN]
    BY <1>14, <1>s, <1>t DEF Cancel, CancelStream
  <2>5. QED
    BY <1>14, <2>1, <2>2, <2>3, <2>4 DEF Cancel, parser
<1>15. CASE UNCHANGED vars
  BY <1>15 DEF vars, task, queues, parser, transport, history
<1>16. QED
  BY <1>1, <1>2, <1>3, <1>4, <1>5, <1>6, <1>7, <1>8, <1>9, <1>10, <1>11, <1>12, <1>13, <1>14, <1>15
     DEF Next, Setup, Farewell, Resume, Stopped

\* Every variable keeps its type, and the ingress queue of startDexEvents never
\* outgrows options.ingressBufferSize.
THEOREM TypeCorrect == Spec => []TypeOK
<1>1. QED
  BY InitType, NextType, PTL DEF Spec

(***************************************************************************)
(* The drain                                                               *)
(***************************************************************************)

\* Nothing is left of the streams so far.
Quiet == ingress = <<>> /\ ~drainScheduled

\* Updates in the queue have a drain coming.
QueueDrained == ingress # <<>> => drainScheduled

\* A parked task waits for that drain.
WaiterWoken == idleWaiter => drainScheduled /\ phase \in {"drainFailed", "drainEnded"}

\* A task that waited for the drain, or that someone cancelled, left nothing
\* behind; only reading a stream puts something in the queue again.
WaitedOut ==
  \/ phase \in {"drainFailed", "drainEnded"} /\ ~idleWaiter
  \/ phase \in {"backoff", "subscribe", "write", "finally", "done"}
  \/ isCancelled
  => Quiet

DrainInv == QueueDrained /\ WaiterWoken /\ WaitedOut

\* The subscription starts quiet.
LEMMA InitDrain == Init => DrainInv
BY DEF Init, DrainInv, QueueDrained, WaiterWoken, WaitedOut, Quiet

\* No handler forgets the drain, and no continuation runs ahead of it.
LEMMA NextDrain == TypeOK /\ DrainInv /\ [Next]_vars => DrainInv'
<1> SUFFICES ASSUME TypeOK, DrainInv, [Next]_vars PROVE DrainInv'
  OBVIOUS
<1> USE DEF DrainInv, QueueDrained, WaiterWoken, WaitedOut, Quiet
<1>b. {isCancelled, idleWaiter, drainScheduled} \subseteq BOOLEAN
  BY DEF TypeOK
<1>1. CASE Produce
  BY <1>1 DEF Produce, task, queues
<1>2. CASE SubscribeOk
  BY <1>2 DEF SubscribeOk, queues
<1>3. CASE \E kind \in {"other", "unsupported"} : SetupFails(kind)
  BY <1>3 DEF SetupFails, queues
<1>4. CASE WriteOk
  BY <1>4 DEF WriteOk, queues
<1>5. CASE Ping
  BY <1>5 DEF Ping, queues
<1>6. CASE Data
  <2>1. phase = "stream" /\ phase' = phase /\ ~isCancelled /\ isCancelled' = isCancelled
        /\ drainScheduled' = TRUE /\ idleWaiter' = idleWaiter
    BY <1>6 DEF Data, ScheduleIngressDrain
  <2>2. QED
    BY <2>1
<1>7. CASE Drain
  <2>1. /\ drainScheduled /\ drainScheduled' = (ingress' # <<>>)
        /\ idleWaiter' = (idleWaiter /\ ingress' # <<>>)
        /\ phase' = phase /\ isCancelled' = isCancelled
    BY <1>7 DEF Drain
  <2>2. QED
    BY <1>b, <2>1
<1>8. CASE Farewell
  <2>1. /\ phase' = phase \/ (phase = "stream" /\ phase' \in {"failed", "ended"})
        /\ UNCHANGED <<idleWaiter, isCancelled, ingress, drainScheduled>>
    BY <1>8 DEF Farewell, Goodbye, queues
  <2>2. CASE phase' = phase
    BY <2>1, <2>2
  <2>3. CASE phase = "stream" /\ phase' \in {"failed", "ended"}
    BY <2>1, <2>3
  <2>4. QED
    BY <2>1, <2>2, <2>3
<1>9. CASE Catch
  BY <1>9, <1>b DEF Catch, WaitForIngressIdle, queues
<1>10. CASE Ended
  BY <1>10, <1>b DEF Ended, WaitForIngressIdle, queues
<1>11. CASE Drained
  BY <1>11 DEF Drained, queues
<1>12. CASE BackoffOver
  BY <1>12 DEF BackoffOver, LoopOver, queues
<1>13. CASE Finish
  BY <1>13 DEF Finish, queues
<1>14. CASE Cancel
  BY <1>14 DEF Cancel, ResolveIngressIdle
<1>15. CASE UNCHANGED vars
  BY <1>15 DEF vars, task, queues
<1>16. QED
  BY <1>1, <1>2, <1>3, <1>4, <1>5, <1>6, <1>7, <1>8, <1>9, <1>10, <1>11, <1>12, <1>13, <1>14, <1>15
     DEF Next, Setup, Resume, Stopped

\* The drain invariant holds in every reachable state.
LEMMA DrainHolds == Spec => []DrainInv
<1>1. QED
  BY InitDrain, InitType, NextDrain, NextType, PTL DEF Spec

\* A queued update, and a task parked until the queue is idle, always have a
\* setImmediate drain coming: scheduleIngressDrain, drainIngress and
\* resolveIngressIdle never forget one of them.
THEOREM DrainAlwaysComes == Spec => []DrainIsComing
<1>1. DrainInv => DrainIsComing
  BY DEF DrainInv, QueueDrained, WaiterWoken, DrainIsComing
<1>2. QED
  BY <1>1, DrainHolds, PTL

\* While the task backs off, subscribes or writes its request, no update of an
\* old stream is left to be parsed: fromSlot is read when it is final.
THEOREM QuietBetween == Spec => []QuietBetweenStreams
<1>1. DrainInv => QuietBetweenStreams
  BY DEF DrainInv, WaitedOut, Quiet, QuietBetweenStreams
<1>2. QED
  BY <1>1, DrainHolds, PTL

(***************************************************************************)
(* The status                                                              *)
(***************************************************************************)

\* transition() sets the state it is given.
LEMMA StatusState == \A s, b : Status(s, b).state = s
BY DEF Status

\* The subscription starts connecting.
LEMMA InitTruthful == Init => StatusTruthful
BY DEF Init, StatusTruthful

\* Whoever moves the task in or out of a stream also tells the status.
LEMMA NextTruthful == StatusTruthful /\ [Next]_vars => StatusTruthful'
<1> SUFFICES ASSUME StatusTruthful, [Next]_vars PROVE StatusTruthful'
  OBVIOUS
<1> USE DEF StatusTruthful
<1>1. CASE Produce
  BY <1>1 DEF Produce, task
<1>2. CASE SubscribeOk
  BY <1>2 DEF SubscribeOk
<1>3. CASE \E kind \in {"other", "unsupported"} : SetupFails(kind)
  BY <1>3 DEF SetupFails
<1>4. CASE WriteOk
  BY <1>4, StatusState DEF WriteOk
<1>5. CASE Ping
  BY <1>5 DEF Ping
<1>6. CASE Data
  <2>1. /\ phase' = phase /\ isCancelled' = isCancelled
        /\ status' = status \/ status' = Status(status.state, TRUE)
    BY <1>6 DEF Data, Enqueue, AnnounceDrop
  <2>2. status'.state = status.state
    BY <2>1, StatusState
  <2>3. QED
    BY <2>1, <2>2
<1>7. CASE Drain
  <2>1. phase' = phase /\ isCancelled' = isCancelled
    BY <1>7 DEF Drain
  <2>2. status' = status \/ status' = Status(status.state, TRUE)
    BY <1>7 DEF Drain, ProcessUpdate
  <2>3. status'.state = status.state
    BY <2>2, StatusState
  <2>4. QED
    BY <2>1, <2>3
<1>8. CASE Farewell
  <2>1. \/ UNCHANGED <<phase, status, isCancelled>>
        \/ /\ phase = "stream" /\ phase' \in {"failed", "ended"} /\ AnnounceLoss
           /\ isCancelled' = isCancelled
    BY <1>8 DEF Farewell, Goodbye
  <2>2. CASE UNCHANGED <<phase, status, isCancelled>>
    BY <2>2
  <2>3. CASE phase = "stream" /\ phase' \in {"failed", "ended"} /\ AnnounceLoss
             /\ isCancelled' = isCancelled
    <3>1. CASE isCancelled
      BY <2>3, <3>1
    <3>2. CASE ~isCancelled
      <4>1. status' = Status("reconnecting", TRUE)
        BY <2>3, <3>2 DEF AnnounceLoss
      <4>2. status'.state = "reconnecting"
        BY <4>1, StatusState
      <4>3. QED
        BY <2>3, <4>2
    <3>3. QED
      BY <3>1, <3>2
  <2>4. QED
    BY <2>1, <2>2, <2>3
<1>9. CASE Catch
  <2>1. CASE isCancelled
    BY <1>9, <2>1 DEF Catch
  <2>2. CASE ~isCancelled
    <3>1. /\ phase' = "drainFailed" /\ status' = Status("reconnecting", TRUE)
          /\ isCancelled' = isCancelled
      BY <1>9, <2>2 DEF Catch
    <3>2. status'.state = "reconnecting"
      BY <3>1, StatusState
    <3>3. QED
      BY <3>1, <3>2
  <2>3. QED
    BY <2>1, <2>2
<1>10. CASE Ended
  BY <1>10 DEF Ended
<1>11. CASE Drained
  BY <1>11 DEF Drained
<1>12. CASE BackoffOver
  <2>1. CASE isCancelled
    BY <1>12, <2>1 DEF BackoffOver, LoopOver
  <2>2. CASE ~isCancelled
    <3>1. /\ phase' = "subscribe" /\ status' = Status("reconnecting", FALSE)
          /\ isCancelled' = isCancelled
      BY <1>12, <2>2 DEF BackoffOver, LoopOver
    <3>2. status'.state = "reconnecting"
      BY <3>1, StatusState
    <3>3. QED
      BY <3>1, <3>2
  <2>3. QED
    BY <2>1, <2>2
<1>13. CASE Finish
  BY <1>13, StatusState DEF Finish
<1>14. CASE Cancel
  BY <1>14 DEF Cancel
<1>15. CASE UNCHANGED vars
  BY <1>15 DEF vars, task
<1>16. QED
  BY <1>1, <1>2, <1>3, <1>4, <1>5, <1>6, <1>7, <1>8, <1>9, <1>10, <1>11, <1>12, <1>13, <1>14, <1>15
     DEF Next, Setup, Resume, Stopped

\* The status of a subscription nobody cancelled is "connected" exactly while a
\* stream is read and "stopped" exactly once its task has ended.
THEOREM StatusTells == Spec => []StatusTruthful
<1>1. QED
  BY InitTruthful, NextTruthful, PTL DEF Spec

(***************************************************************************)
(* The updates on their way: from the provider through the ingress queue    *)
(***************************************************************************)

Increasing(s) == \A j, k \in DOMAIN s : j < k => s[j] < s[k]

\* What the handlers move: the chain, the queue, the window and the output.
traffic == <<config, tip, cursor, ingress, lastParsedSlot, seenOrder, handled, out,
             parseErrors, refusals, ingressDrops>>

\* A step that moves nothing of it and does not begin to read a stream.
Still ==
  /\ UNCHANGED traffic /\ isCancelled' = isCancelled
  /\ phase' = "stream" => phase = "stream" /\ attempted' = attempted

\* Five steps move updates; all others are steps of the control.
LEMMA Steps == [Next]_vars => Produce \/ WriteOk \/ Data \/ Drain \/ Cancel \/ Still
<1> SUFFICES ASSUME [Next]_vars, ~Produce, ~WriteOk, ~Data, ~Drain, ~Cancel PROVE Still
  OBVIOUS
<1> USE DEF Still, traffic, queues, parser, transport, history, task
<1>1. CASE SubscribeOk
  BY <1>1 DEF SubscribeOk
<1>2. CASE \E kind \in {"other", "unsupported"} : SetupFails(kind)
  BY <1>2 DEF SetupFails
<1>3. CASE Ping
  BY <1>3 DEF Ping
<1>4. CASE Farewell
  BY <1>4 DEF Farewell, Goodbye
<1>5. CASE Catch
  BY <1>5 DEF Catch
<1>6. CASE Ended
  BY <1>6 DEF Ended
<1>7. CASE Drained
  BY <1>7 DEF Drained
<1>8. CASE BackoffOver
  BY <1>8 DEF BackoffOver, LoopOver
<1>9. CASE Finish
  BY <1>9 DEF Finish
<1>10. CASE UNCHANGED vars
  BY <1>10 DEF vars
<1>11. QED
  BY <1>1, <1>2, <1>3, <1>4, <1>5, <1>6, <1>7, <1>8, <1>9, <1>10 DEF Next, Setup, Resume, Stopped

\* Appending a larger one, and taking the first one, keeps a list increasing.
LEMMA AppendIncreasing ==
  ASSUME NEW s \in Seq(Nat), Increasing(s), NEW x \in Nat, \A v \in ToSet(s) : v < x
  PROVE  Increasing(Append(s, x)) /\ ToSet(Append(s, x)) = ToSet(s) \cup {x}
<1>1. /\ Len(s) \in Nat /\ DOMAIN s = 1 .. Len(s)
      /\ DOMAIN Append(s, x) = 1 .. Len(s) + 1
      /\ \A k \in DOMAIN s : Append(s, x)[k] = s[k]
      /\ Append(s, x)[Len(s) + 1] = x
  BY AppendProperties, LenProperties
<1>2. ASSUME NEW j \in DOMAIN Append(s, x), NEW k \in DOMAIN Append(s, x), j < k
      PROVE  Append(s, x)[j] < Append(s, x)[k]
  <2>1. j \in DOMAIN s /\ s[j] \in ToSet(s)
    BY <1>1, <1>2 DEF ToSet
  <2>2. CASE k \in DOMAIN s
    BY <1>1, <1>2, <2>1, <2>2 DEF Increasing
  <2>3. CASE k = Len(s) + 1
    BY <1>1, <2>1, <2>3
  <2>4. QED
    BY <1>1, <2>2, <2>3
<1>3. ToSet(Append(s, x)) = ToSet(s) \cup {x}
  <2>1. ASSUME NEW v \in ToSet(Append(s, x)) PROVE v \in ToSet(s) \cup {x}
    <3>1. PICK k \in DOMAIN Append(s, x) : v = Append(s, x)[k]
      BY DEF ToSet
    <3>2. QED
      BY <1>1, <3>1 DEF ToSet
  <2>2. ASSUME NEW v \in ToSet(s) PROVE v \in ToSet(Append(s, x))
    <3>1. PICK k \in DOMAIN s : v = s[k]
      BY DEF ToSet
    <3>2. k \in DOMAIN Append(s, x) /\ v = Append(s, x)[k]
      BY <1>1, <3>1
    <3>3. QED
      BY <3>2 DEF ToSet
  <2>3. x \in ToSet(Append(s, x))
    <3>1. Len(s) + 1 \in DOMAIN Append(s, x)
      BY <1>1
    <3>2. QED
      BY <1>1, <3>1 DEF ToSet
  <2>4. QED
    BY <2>1, <2>2, <2>3
<1>4. QED
  BY <1>2, <1>3 DEF Increasing

LEMMA TailIncreasing ==
  ASSUME NEW s \in Seq(Nat), Increasing(s), s # <<>>
  PROVE  /\ Increasing(Tail(s)) /\ Tail(s) \in Seq(Nat) /\ Len(Tail(s)) = Len(s) - 1
         /\ Head(s) \in ToSet(s) /\ Head(s) = s[1]
         /\ ToSet(Tail(s)) \subseteq ToSet(s) /\ \A v \in ToSet(Tail(s)) : Head(s) < v
<1>1. /\ Len(s) \in Nat /\ DOMAIN s = 1 .. Len(s) /\ 1 \in DOMAIN s /\ Head(s) = s[1]
      /\ Tail(s) \in Seq(Nat) /\ Len(Tail(s)) = Len(s) - 1
      /\ \A k \in DOMAIN Tail(s) : /\ k + 1 \in DOMAIN s /\ Tail(s)[k] = s[k + 1]
                                   /\ k \in Nat /\ 1 < k + 1
  BY HeadTailProperties, LenProperties, EmptySeq
<1>2. ASSUME NEW j \in DOMAIN Tail(s), NEW k \in DOMAIN Tail(s), j < k PROVE Tail(s)[j] < Tail(s)[k]
  <2>1. j + 1 < k + 1
    BY <1>1, <1>2
  <2>2. QED
    BY <1>1, <2>1 DEF Increasing
<1>3. ASSUME NEW v \in ToSet(Tail(s)) PROVE v \in ToSet(s) /\ Head(s) < v
  <2>1. PICK k \in DOMAIN Tail(s) : v = Tail(s)[k]
    BY DEF ToSet
  <2>2. k + 1 \in DOMAIN s /\ v = s[k + 1] /\ 1 < k + 1
    BY <1>1, <2>1
  <2>3. QED
    BY <1>1, <2>2 DEF ToSet, Increasing
<1>4. QED
  BY <1>1, <1>2, <1>3 DEF Increasing, ToSet

\* The queue holds what the stream carried, in order, all of it behind the cursor;
\* what was parsed is on the chain.
Past ==
  /\ handled \subseteq 1 .. tip /\ cursor <= tip + 1
  /\ \A v \in ToSet(ingress) : v < cursor
  /\ Increasing(ingress)

\* Facts about numbers that every proof below starts from.
LEMMA Numbers ==
  ASSUME TypeOK
  PROVE  /\ Len(Log) \in Nat /\ Positions \subseteq Nat /\ Positions = 1 .. Len(Log)
         /\ tip \in Nat /\ cursor \in Nat /\ lastParsedSlot \in Nat
         /\ \A p \in Positions : Log[p] \in Nat /\ Log[p] # 0
         /\ \A p, q \in Positions : p <= q => Log[p] <= Log[q]
         /\ ingress \in Seq(Nat) /\ ingress \in Seq(Positions) /\ ToSet(ingress) \subseteq Positions
         /\ Len(ingress) \in Nat /\ DOMAIN ingress = 1 .. Len(ingress)
<1>1. Len(Log) \in Nat /\ \A p \in Positions : Log[p] \in Nat /\ Log[p] # 0
  BY Chain
<1>2. Positions \subseteq Nat /\ Positions = 1 .. Len(Log)
  BY <1>1 DEF Positions
<1>3. tip \in Nat /\ cursor \in Nat /\ lastParsedSlot \in Nat
  BY <1>1 DEF TypeOK
<1>4. ASSUME NEW p \in Positions, NEW q \in Positions, p <= q PROVE Log[p] <= Log[q]
  <2>1. CASE p = q
    BY <1>1, <2>1
  <2>2. CASE p # q
    BY <1>2, <1>4, <2>2, SubscriptionAssumption
  <2>3. QED
    BY <2>1, <2>2
<1>5. ingress \in Seq(Positions) /\ Len(ingress) \in Nat /\ DOMAIN ingress = 1 .. Len(ingress)
  BY LenProperties DEF TypeOK
<1>6. ingress \in Seq(Nat) /\ ToSet(ingress) \subseteq Positions
  BY <1>2, <1>5, ElementOfSeq, SeqDef DEF ToSet
<1>7. QED
  BY <1>1, <1>2, <1>3, <1>4, <1>5, <1>6

\* The data handler adds the update it was given, and counts the one it drops.
LEMMA DataQueue ==
  ASSUME TypeOK, Past, Data
  PROVE  /\ cursor \in Positions /\ cursor <= tip /\ cursor' = cursor + 1
         /\ phase = "stream" /\ Serving /\ ~isCancelled /\ phase' = phase /\ attempted' = attempted
         /\ UNCHANGED <<config, tip, lastParsedSlot, seenOrder, handled, out, parseErrors, refusals,
                        isCancelled, continuityBreaks>>
         /\ ToSet(ingress') \subseteq ToSet(ingress) \cup {cursor} /\ Increasing(ingress')
         /\ \/ ingressDrops' = ingressDrops + 1 /\ status' = Status(status.state, TRUE)
            \/ ingressDrops' = ingressDrops /\ ingress' = Append(ingress, cursor) /\ status' = status
<1>1. /\ cursor <= tip /\ cursor' = cursor + 1 /\ Enqueue(cursor)
      /\ phase = "stream" /\ Serving /\ ~isCancelled /\ phase' = phase /\ attempted' = attempted
      /\ UNCHANGED <<config, tip, lastParsedSlot, seenOrder, handled, out, parseErrors, refusals,
                     isCancelled, continuityBreaks>>
  BY DEF Data, parser
<1>2. cursor \in Positions
  BY <1>1, Numbers DEF TypeOK
<1>3. /\ Increasing(Append(ingress, cursor))
      /\ ToSet(Append(ingress, cursor)) = ToSet(ingress) \cup {cursor}
  BY Numbers, AppendIncreasing DEF Past
<1>4. CASE ingress' = ingress /\ AnnounceDrop
  BY <1>1, <1>2, <1>4 DEF AnnounceDrop, Past
<1>5. CASE IngressFull /\ ingress' = Append(Tail(ingress), cursor) /\ AnnounceDrop
  <2>1. ingress # <<>>
    BY <1>5, SubscriptionAssumption DEF IngressFull
  <2>2. /\ Increasing(Tail(ingress)) /\ Tail(ingress) \in Seq(Nat)
        /\ ToSet(Tail(ingress)) \subseteq ToSet(ingress)
    BY <2>1, Numbers, TailIncreasing DEF Past
  <2>3. \A v \in ToSet(Tail(ingress)) : v < cursor
    BY <2>2 DEF Past
  <2>4. /\ Increasing(Append(Tail(ingress), cursor))
        /\ ToSet(Append(Tail(ingress), cursor)) = ToSet(Tail(ingress)) \cup {cursor}
    BY <2>2, <2>3, Numbers, AppendIncreasing
  <2>5. QED
    BY <1>1, <1>2, <1>5, <2>2, <2>4 DEF AnnounceDrop
<1>6. CASE ingress' = Append(ingress, cursor) /\ UNCHANGED <<status, ingressDrops>>
  BY <1>1, <1>2, <1>3, <1>6
<1>7. QED
  BY <1>1, <1>4, <1>5, <1>6 DEF Enqueue

\* What becomes of an update that is taken out of the queue.
Thrown == /\ UNCHANGED <<lastParsedSlot, seenOrder, handled, out, refusals>>
          /\ parseErrors' = parseErrors + 1 /\ status' = Status(status.state, TRUE)
Skipped(u) == /\ Replayed(u) /\ lastParsedSlot' = Later(Log[u])
              /\ UNCHANGED <<seenOrder, handled, out, refusals, parseErrors, status>>
Taken(u) == /\ ~Replayed(u) /\ lastParsedSlot' = Later(Log[u]) /\ parseErrors' = parseErrors
            /\ seenOrder' = Retain(Append(seenOrder, u), Log[u]) /\ handled' = handled \cup {u}
            /\ \/ out' = Append(out, u) /\ UNCHANGED <<refusals, status>>
               \/ out' = out /\ refusals' = refusals + 1 /\ status' = Status(status.state, TRUE)

\* One callback takes the first update out of the queue, if there is one.
LEMMA DrainQueue ==
  ASSUME TypeOK, Past, Drain, NEW u, u = Head(ingress)
  PROVE  /\ UNCHANGED <<config, tip, cursor, phase, attempted, isCancelled, ingressDrops, continuityBreaks>>
         /\ \/ Still /\ status' = status
            \/ /\ ingress # <<>> /\ u \in ToSet(ingress) /\ u \in Positions /\ u = ingress[1] /\ u < cursor
               /\ ingress' = Tail(ingress) /\ Len(ingress') = Len(ingress) - 1 /\ Increasing(ingress')
               /\ ToSet(ingress') \subseteq ToSet(ingress) /\ \A v \in ToSet(ingress') : u < v
               /\ Thrown \/ Skipped(u) \/ Taken(u)
<1>1. UNCHANGED <<config, tip, cursor, phase, attempted, isCancelled, ingressDrops, continuityBreaks>>
  BY DEF Drain, transport
<1>2. CASE ingress = <<>>
  BY <1>1, <1>2 DEF Drain, parser, transport, Still, traffic
<1>3. CASE ingress # <<>>
  <2>1. ProcessUpdate(u) /\ ingress' = Tail(ingress)
    BY <1>3 DEF Drain
  <2>2. Thrown \/ Skipped(u) \/ Taken(u)
    BY <2>1 DEF ProcessUpdate, Thrown, Skipped, Taken
  <2>3. /\ Increasing(Tail(ingress)) /\ Len(Tail(ingress)) = Len(ingress) - 1
        /\ u \in ToSet(ingress) /\ u = ingress[1]
        /\ ToSet(Tail(ingress)) \subseteq ToSet(ingress) /\ \A v \in ToSet(Tail(ingress)) : u < v
    BY <1>3, Numbers, TailIncreasing DEF Past
  <2>4. u \in Positions /\ u < cursor
    BY <2>3, Numbers DEF Past
  <2>5. QED
    BY <1>1, <1>3, <2>1, <2>2, <2>3, <2>4
<1>4. QED
  BY <1>2, <1>3

\* Where the provider begins: at the first update of the requested slot or a later
\* one, if it is asked for one and has it, and after its tip otherwise.
LEMMA StartAt ==
  ASSUME NEW r, tip \in 0 .. Len(Log), lastParsedSlot \in Nat
  PROVE  \/ /\ StartOf(r) = tip + 1
            /\ ~(r /\ \E p \in 1 .. tip : Log[p] >= lastParsedSlot)
         \/ /\ r /\ StartOf(r) \in 1 .. tip /\ Log[StartOf(r)] >= lastParsedSlot
            /\ \A q \in 1 .. StartOf(r) - 1 : Log[q] < lastParsedSlot
<1> DEFINE From(p) == /\ Log[p] >= lastParsedSlot
                      /\ \A q \in 1 .. p - 1 : Log[q] < lastParsedSlot
           T == {p \in 1 .. tip : Log[p] >= lastParsedSlot}
<1>1. CASE r /\ \E p \in 1 .. tip : Log[p] >= lastParsedSlot
  <2>1. T \subseteq Nat /\ T # {}
    BY <1>1
  <2>2. PICK x \in T : \A y \in T : x <= y
    BY <2>1, Smallest
  <2>3. ASSUME NEW q \in 1 .. x - 1 PROVE Log[q] < lastParsedSlot
    <3>1. q \in 1 .. tip /\ q < x /\ q \in Positions
      BY <2>2, Chain DEF Positions
    <3>2. q \notin T
      BY <2>2, <3>1
    <3>3. QED
      BY <3>1, <3>2, Chain
  <2>4. \E p \in 1 .. tip : From(p)
    BY <2>2, <2>3
  <2> DEFINE c == CHOOSE p \in 1 .. tip : From(p)
  <2>5. c \in 1 .. tip /\ From(c)
    BY <2>4
  <2>6. StartOf(r) = c
    BY <1>1 DEF StartOf
  <2> HIDE DEF c
  <2>7. QED
    BY <1>1, <2>5, <2>6
<1>2. CASE ~(r /\ \E p \in 1 .. tip : Log[p] >= lastParsedSlot)
  BY <1>2 DEF StartOf
<1>3. QED
  BY <1>1, <1>2

\* A set of numbers with a bound has a largest.
LEMMA Largest ==
  ASSUME NEW m \in Nat, NEW T, T \subseteq 0 .. m, T # {}
  PROVE  \E x \in T : \A y \in T : x >= y
<1> DEFINE U == {m - y : y \in T}
<1>1. U \subseteq Nat /\ U # {}
  <2>1. \A y \in T : m - y \in Nat
    OBVIOUS
  <2>2. QED
    BY <2>1
<1>2. PICK z \in U : \A y \in U : z <= y
  BY <1>1, Smallest
<1>3. PICK x \in T : z = m - x
  BY <1>2
<1>4. ASSUME NEW y \in T PROVE x >= y
  <2>1. z <= m - y
    BY <1>2
  <2>2. QED
    BY <1>3, <2>1
<1>5. QED
  BY <1>4

\* What is left of a list when c of its elements were taken from the front.
LeavesEnd(s, c, rest) ==
  /\ ToSet(rest) \subseteq ToSet(s)
  /\ \A p \in ToSet(s) : p \notin ToSet(rest) => \E i \in 1 .. c : p = s[i]

\* The end of a list: what it drops was in front.
LEMMA EndPiece ==
  ASSUME NEW s \in Seq(Positions), NEW c \in Nat, c <= Len(s), NEW rest, rest = SubSeq(s, c + 1, Len(s))
  PROVE  LeavesEnd(s, c, rest)
<1>0. /\ Len(s) \in Nat /\ DOMAIN s = 1 .. Len(s)
      /\ \A i \in DOMAIN s : s[i] \in Positions
  BY LenProperties
<1>1. rest \in Seq(Positions) /\ Len(rest) = Len(s) - c
  <2>1. \A i \in (c + 1) .. Len(s) : s[i] \in Positions
    BY <1>0
  <2>2. /\ rest \in Seq(Positions)
        /\ Len(rest) = IF c + 1 <= Len(s) THEN Len(s) - (c + 1) + 1 ELSE 0
    BY <1>0, <2>1, SubSeqProperties
  <2>3. CASE c + 1 <= Len(s)
    BY <1>0, <2>2, <2>3
  <2>4. CASE ~(c + 1 <= Len(s))
    <3> DEFINE n == Len(s)
    <3>a. n \in Nat /\ c <= n /\ ~(c + 1 <= n)
      BY <1>0, <2>4
    <3> HIDE DEF n
    <3>b. n = c
      BY <3>a
    <3>1. Len(s) = c
      BY <3>b DEF n
    <3>2. Len(rest) = 0
      BY <2>2, <2>4
    <3>3. QED
      BY <1>0, <2>2, <3>1, <3>2
  <2>5. QED
    BY <2>3, <2>4
<1>2. \A i \in 1 .. Len(s) - c : rest[i] = s[c + i]
  <2>1. ASSUME NEW i \in 1 .. Len(s) - c PROVE rest[i] = s[c + i]
    <3>1. i \in 1 .. Len(s) + 1 - (c + 1) /\ c + 1 + i - 1 = c + i
      BY <1>0
    <3>2. QED
      BY <1>0, <3>1, SubSeqProperties
  <2>2. QED
    BY <2>1
<1>3. DOMAIN rest = 1 .. Len(s) - c
  BY <1>1, LenProperties
<1>8. ASSUME NEW p \in ToSet(rest) PROVE p \in ToSet(s)
  <2>1. PICK i \in DOMAIN rest : p = rest[i]
    BY DEF ToSet
  <2>2. c + i \in DOMAIN s /\ p = s[c + i]
    BY <1>0, <1>2, <1>3, <2>1
  <2>3. QED
    BY <2>2 DEF ToSet
<1>9. ASSUME NEW p \in ToSet(s), p \notin ToSet(rest) PROVE \E i \in 1 .. c : p = s[i]
  <2>1. PICK i \in DOMAIN s : p = s[i]
    BY DEF ToSet
  <2>2. ASSUME i > c PROVE FALSE
    <3>1. i - c \in 1 .. Len(s) - c /\ c + (i - c) = i
      BY <1>0, <2>2
    <3>2. i - c \in DOMAIN rest /\ rest[i - c] = p
      BY <1>2, <1>3, <2>1, <3>1
    <3>3. QED
      BY <1>9, <3>2 DEF ToSet
  <2>3. i \in 1 .. c
    BY <1>0, <2>2
  <2>4. QED
    BY <2>1, <2>3
<1>10. QED
  BY <1>8, <1>9 DEF LeavesEnd

\* The newest slot of a list of updates is one of theirs.
LEMMA Highest ==
  ASSUME NEW order \in Seq(Positions), order # <<>>, NEW top \in Nat,
         \A p \in ToSet(order) : Log[p] <= top,
         NEW h, h = Max({Log[p] : p \in ToSet(order)})
  PROVE  h \in Nat /\ h <= top
<1> DEFINE S == {Log[p] : p \in ToSet(order)}
<1>1. order[1] \in ToSet(order) /\ ToSet(order) \subseteq Positions
  <2>1. 1 \in DOMAIN order /\ \A i \in DOMAIN order : order[i] \in Positions
    BY LenProperties, EmptySeq
  <2>2. QED
    BY <2>1 DEF ToSet
<1>2. \A p \in ToSet(order) : Log[p] \in 0 .. top
  BY <1>1, Chain
<1>3. S \subseteq 0 .. top /\ S # {}
  BY <1>1, <1>2
<1>4. h = Max(S)
  OBVIOUS
<1> HIDE DEF S
<1>5. \E x \in S : \A y \in S : x >= y
  BY <1>3, Largest
<1>6. h \in S
  BY <1>4, <1>5 DEF Max
<1>7. QED
  BY <1>3, <1>6

\* Counting up from 0, some number is the last of its kind, or the bound is one.
LEMMA LastOfKind ==
  ASSUME NEW m \in Nat, NEW N, 0 \in N
  PROVE  \E n \in 0 .. m : n \in N /\ (n = m \/ n + 1 \notin N)
<1> DEFINE T == {n \in 0 .. m : n = m \/ n + 1 \notin N}
<1>1. T \subseteq Nat /\ m \in T
  OBVIOUS
<1>2. PICK x \in T : \A y \in T : x <= y
  BY <1>1, Smallest
<1>3. x \in N
  <2>1. CASE x = 0
    BY <2>1
  <2>2. CASE x # 0
    <3>1. x - 1 \in 0 .. m /\ x - 1 \notin T /\ x - 1 # m /\ x - 1 + 1 = x
      BY <1>2, <2>2
    <3>2. QED
      BY <3>1
  <2>3. QED
    BY <2>1, <2>2
<1>4. QED
  BY <1>2, <1>3

\* What the dedupe window forgets is older than the newest slot it saw.
LEMMA RetainWindow ==
  ASSUME NEW order \in Seq(Positions), order # <<>>, NEW slot, NEW top \in Nat,
         \A p \in ToSet(order) : Log[p] <= top
  PROVE  /\ ToSet(Retain(order, slot)) \subseteq ToSet(order)
         /\ \A p \in ToSet(order) : p \notin ToSet(Retain(order, slot)) => Log[p] < top
<1> DEFINE highest == Max({Log[p] : p \in ToSet(order)})
           stale(n) == \A i \in 1 .. n : Log[order[i]] < highest - DedupeSlots
           ends(n)  == n = Len(order) \/ ~stale(n + 1)
           cut == CHOOSE n \in 0 .. Len(order) : stale(n) /\ ends(n)
<1>0. Len(order) \in Nat /\ \A i \in DOMAIN order : order[i] \in Positions
  BY LenProperties
<1>1. highest \in Nat /\ highest <= top
  BY Highest
<1> HIDE DEF highest
<1>2. \E n \in 0 .. Len(order) : stale(n) /\ ends(n)
  <2> DEFINE N == {n \in Nat : stale(n)}
  <2>1. 0 \in N
    OBVIOUS
  <2>2. \A n \in Nat : (n \in N <=> stale(n)) /\ (n + 1 \in N <=> stale(n + 1))
    OBVIOUS
  <2> HIDE DEF N, stale
  <2>3. \E n \in 0 .. Len(order) : n \in N /\ (n = Len(order) \/ n + 1 \notin N)
    BY <1>0, <2>1, LastOfKind
  <2>4. QED
    BY <1>0, <2>2, <2>3
<1>3. cut \in 0 .. Len(order) /\ stale(cut)
  BY <1>2
<1>4. Retain(order, slot) = SubSeq(order, cut + 1, Len(order))
  BY DEF Retain, highest
<1> HIDE DEF cut
<1>5. \A i \in 1 .. cut : Log[order[i]] < highest - DedupeSlots
  BY <1>3
<1>6. cut \in Nat /\ cut <= Len(order)
  BY <1>0, <1>3
<1> HIDE DEF stale, ends
<1>7. /\ ToSet(Retain(order, slot)) \subseteq ToSet(order)
      /\ \A p \in ToSet(order) : p \notin ToSet(Retain(order, slot)) => \E i \in 1 .. cut : p = order[i]
  <2> DEFINE rest == SubSeq(order, cut + 1, Len(order))
  <2> HIDE DEF rest
  <2>1. LeavesEnd(order, cut, rest)
    <3>1. rest = SubSeq(order, cut + 1, Len(order))
      BY DEF rest
    <3>2. QED
      BY <1>6, <3>1, EndPiece
  <2>2. QED
    BY <1>4, <2>1 DEF rest, LeavesEnd
<1>8. ASSUME NEW p \in ToSet(order), p \notin ToSet(Retain(order, slot)) PROVE Log[p] < top
  <2>1. PICK i \in 1 .. cut : p = order[i]
    BY <1>7, <1>8
  <2>2. Log[p] < highest - DedupeSlots
    BY <1>5, <2>1
  <2>3. Log[p] \in Nat /\ DedupeSlots \in Nat
    <3>1. p \in Positions
      BY <1>0 DEF ToSet
    <3>2. QED
      BY <3>1, Chain, SubscriptionAssumption
  <2>4. QED
    BY <1>1, <2>2, <2>3
<1>9. QED
  BY <1>7, <1>8

(***************************************************************************)
(* No update is delivered twice                                            *)
(***************************************************************************)

\* Replay is wanted and granted.
Replays == config.replayOnReconnect /\ config.providerReplays

\* Nothing is replayed that was not asked for, and what is granted is not refused.
Modes ==
  /\ replayAllowed => config.replayOnReconnect
  /\ attempted => config.replayOnReconnect
  /\ Replays => replayAllowed /\ failure # "unsupported"

\* lastParsedSlot is the newest slot that was parsed.
Newest ==
  /\ \A h \in handled : Log[h] <= lastParsedSlot
  /\ handled = {} => lastParsedSlot = 0
  /\ handled # {} => \E h \in handled : Log[h] = lastParsedSlot

\* What is still to come on the stream is not older than it.
Ahead ==
  /\ \A v \in ToSet(ingress) : Log[v] >= lastParsedSlot
  /\ \A p \in Positions : p >= cursor => Log[p] >= lastParsedSlot

\* What the dedupe window has forgotten is older.
Window ==
  /\ ToSet(seenOrder) \subseteq handled
  /\ \A h \in handled : h \notin ToSet(seenOrder) => Log[h] < lastParsedSlot

Flow == Past /\ Newest /\ Ahead /\ Window

\* Without replay every update comes once, and after all that came before.
Forward ==
  ~Replays =>
    /\ \A h \in handled : \A v \in ToSet(ingress) : h < v
    /\ phase = "stream" /\ Serving => \A h \in handled : h < cursor

\* The user gets what was parsed, and nothing twice.
Served == ToSet(out) \subseteq handled /\ IsInjective(out)

LEMMA InitFlow == Init => Modes /\ Flow /\ Forward /\ Served
<1> SUFFICES ASSUME Init PROVE Modes /\ Flow /\ Forward /\ Served
  OBVIOUS
<1>1. /\ handled = {} /\ out = <<>> /\ ingress = <<>> /\ seenOrder = <<>>
      /\ lastParsedSlot = 0 /\ cursor = 1 /\ tip = 0
      /\ attempted = FALSE /\ replayAllowed = config.replayOnReconnect /\ failure = "none"
  BY DEF Init
<1>2. ToSet(<<>>) = {} /\ Increasing(<<>>) /\ IsInjective(<<>>)
  BY DEF ToSet, Increasing, IsInjective
<1>3. Modes
  BY <1>1 DEF Modes, Replays
<1>4. Past
  BY <1>1, <1>2 DEF Past
<1>5. Newest /\ Window /\ Forward /\ Served
  BY <1>1, <1>2 DEF Newest, Window, Forward, Served
<1>6. Ahead
  BY <1>1, <1>2, Chain DEF Ahead
<1>7. QED
  BY <1>3, <1>4, <1>5, <1>6 DEF Flow

\* Options are not changed, and a refusal is remembered.
LEMMA NextModes == Modes /\ [Next]_vars => Modes'
<1> SUFFICES ASSUME Modes, [Next]_vars PROVE Modes'
  OBVIOUS
<1> USE DEF Modes, Replays
<1>1. CASE Produce \/ Ping \/ WriteOk \/ Data \/ Drain \/ Catch \/ Ended \/ Finish \/ Cancel \/ UNCHANGED vars
  <2>1. UNCHANGED <<config, attempted, replayAllowed, failure>>
    BY <1>1 DEF Produce, Ping, WriteOk, Data, Drain, Catch, Ended, Finish, Cancel, vars, task
  <2>2. QED
    BY <2>1
<1>2. CASE SubscribeOk
  BY <1>2 DEF SubscribeOk, ShouldReplay
<1>3. CASE \E kind \in {"other", "unsupported"} : SetupFails(kind)
  BY <1>3 DEF SetupFails, Serving
<1>4. CASE Farewell
  BY <1>4 DEF Farewell, Goodbye, Serving
<1>5. CASE Drained
  BY <1>5 DEF Drained, Refused
<1>6. CASE BackoffOver
  BY <1>6 DEF BackoffOver
<1>7. QED
  BY <1>1, <1>2, <1>3, <1>4, <1>5, <1>6 DEF Next, Setup, Resume, Stopped

\* An update that throws or was seen before leaves what was parsed as it is.
LEMMA PassedBy ==
  ASSUME TypeOK, Flow, NEW u \in ToSet(ingress), Thrown \/ Skipped(u)
  PROVE  UNCHANGED <<lastParsedSlot, seenOrder, handled, out>>
<1>1. CASE Thrown
  BY <1>1 DEF Thrown
<1>2. CASE Skipped(u)
  <2>1. u \in handled
    BY <1>2 DEF Skipped, Replayed, Flow, Window
  <2>2. Log[u] <= lastParsedSlot
    BY <2>1 DEF Flow, Newest
  <2>3. u \in Positions /\ Log[u] \in Nat /\ lastParsedSlot \in Nat
    BY Numbers
  <2>4. Later(Log[u]) = lastParsedSlot
    BY <2>2, <2>3 DEF Later
  <2>5. QED
    BY <1>2, <2>4 DEF Skipped
<1>3. QED
  BY <1>1, <1>2

\* An update that is parsed has the newest slot.
LEMMA TakenNewest ==
  ASSUME TypeOK, Flow, NEW u \in ToSet(ingress), Taken(u)
  PROVE  lastParsedSlot' = Log[u] /\ lastParsedSlot <= Log[u]
<1>1. u \in Positions /\ Log[u] \in Nat /\ lastParsedSlot \in Nat
  BY Numbers
<1>2. Log[u] >= lastParsedSlot
  BY DEF Flow, Ahead
<1>3. lastParsedSlot' = IF Log[u] > lastParsedSlot THEN Log[u] ELSE lastParsedSlot
  BY DEF Taken, Later
<1>4. QED
  BY <1>1, <1>2, <1>3

\* It was not parsed before.
LEMMA TakenIsNew ==
  ASSUME TypeOK, Flow, Forward, NEW u \in ToSet(ingress), Taken(u)
  PROVE  u \notin handled
<1> SUFFICES ASSUME u \in handled PROVE FALSE
  OBVIOUS
<1>1. u \in Positions /\ u \in Nat /\ Log[u] \in Nat /\ lastParsedSlot \in Nat
  BY Numbers
<1>2. CASE Replays
  <2>1. u \notin ToSet(seenOrder)
    BY <1>2 DEF Taken, Replayed, Replays
  <2>2. Log[u] < lastParsedSlot /\ Log[u] >= lastParsedSlot
    BY <2>1 DEF Flow, Window, Ahead
  <2>3. QED
    BY <1>1, <2>2
<1>3. CASE ~Replays
  <2>1. u < u
    BY <1>3 DEF Forward
  <2>2. QED
    BY <1>1, <2>1
<1>4. QED
  BY <1>2, <1>3

\* The dedupe window after an update was parsed.
LEMMA TakenWindow ==
  ASSUME TypeOK, Flow, NEW u \in ToSet(ingress), Taken(u)
  PROVE  Window'
<1> DEFINE order == Append(seenOrder, u)
<1>1. u \in Positions /\ Log[u] \in Nat /\ lastParsedSlot \in Nat /\ seenOrder \in Seq(Positions)
  BY Numbers DEF TypeOK
<1>2. order \in Seq(Positions) /\ order # <<>>
  <2>1. order \in Seq(Positions) /\ Len(order) = Len(seenOrder) + 1 /\ Len(seenOrder) \in Nat
    BY <1>1, AppendProperties, LenProperties
  <2>2. QED
    BY <2>1, EmptySeq
<1>3. ToSet(order) = ToSet(seenOrder) \cup {u}
  <2>1. /\ Len(seenOrder) \in Nat /\ DOMAIN seenOrder = 1 .. Len(seenOrder)
        /\ DOMAIN order = 1 .. Len(seenOrder) + 1
        /\ \A k \in DOMAIN seenOrder : order[k] = seenOrder[k]
        /\ order[Len(seenOrder) + 1] = u
    BY <1>1, AppendProperties, LenProperties
  <2> HIDE DEF order
  <2>2. ASSUME NEW v \in ToSet(order) PROVE v \in ToSet(seenOrder) \cup {u}
    <3>1. PICK k \in DOMAIN order : v = order[k]
      BY DEF ToSet
    <3>2. QED
      BY <2>1, <3>1 DEF ToSet
  <2>3. ASSUME NEW v \in ToSet(seenOrder) PROVE v \in ToSet(order)
    <3>1. PICK k \in DOMAIN seenOrder : v = seenOrder[k]
      BY DEF ToSet
    <3>2. k \in DOMAIN order /\ v = order[k]
      BY <2>1, <3>1
    <3>3. QED
      BY <3>2 DEF ToSet
  <2>4. u \in ToSet(order)
    <3>1. Len(seenOrder) + 1 \in DOMAIN order
      BY <2>1
    <3>2. QED
      BY <2>1, <3>1 DEF ToSet
  <2>5. QED
    BY <2>2, <2>3, <2>4
<1>4. seenOrder' = Retain(order, Log[u]) /\ handled' = handled \cup {u}
  BY DEF Taken
<1>5. lastParsedSlot' = Log[u] /\ lastParsedSlot <= Log[u]
  BY TakenNewest
<1> HIDE DEF order
<1>6. \A h \in handled : Log[h] <= Log[u] /\ Log[h] \in Nat
  <2>1. ASSUME NEW h \in handled PROVE Log[h] <= Log[u] /\ Log[h] \in Nat
    <3>1. h \in Positions
      BY DEF TypeOK
    <3>2. Log[h] \in Nat
      BY <3>1, Chain
    <3>3. Log[h] <= lastParsedSlot
      BY DEF Flow, Newest
    <3>4. QED
      BY <1>1, <1>5, <3>2, <3>3
  <2>2. QED
    BY <2>1
<1>7. \A p \in ToSet(order) : Log[p] <= Log[u]
  BY <1>1, <1>3, <1>6 DEF Flow, Window
<1>8. /\ ToSet(seenOrder') \subseteq ToSet(order)
      /\ \A p \in ToSet(order) : p \notin ToSet(seenOrder') => Log[p] < Log[u]
  BY <1>1, <1>2, <1>4, <1>7, RetainWindow
<1>9. ToSet(seenOrder') \subseteq handled'
  BY <1>3, <1>4, <1>8 DEF Flow, Window
<1>10. ASSUME NEW h \in handled', h \notin ToSet(seenOrder') PROVE Log[h] < lastParsedSlot'
  <2>1. CASE h \in ToSet(order)
    BY <1>5, <1>8, <1>10, <2>1
  <2>2. CASE h \notin ToSet(order)
    <3>1. h \in handled /\ h \notin ToSet(seenOrder)
      BY <1>3, <1>4, <1>10, <2>2
    <3>2. Log[h] < lastParsedSlot
      BY <3>1 DEF Flow, Window
    <3>3. QED
      BY <1>1, <1>5, <1>6, <3>1, <3>2
  <2>3. QED
    BY <2>1, <2>2
<1>11. QED
  BY <1>9, <1>10 DEF Window

\* The stream never falls behind what was parsed, and the window never forgets what
\* may come again.
LEMMA NextFlow == TypeOK /\ DrainInv /\ Flow /\ [Next]_vars => Flow'
<1> SUFFICES ASSUME TypeOK, DrainInv, Flow, [Next]_vars PROVE Flow'
  OBVIOUS
<1>0. ToSet(<<>>) = {} /\ Increasing(<<>>)
  BY DEF ToSet, Increasing
<1>n. /\ Positions \subseteq Nat /\ tip \in Nat /\ cursor \in Nat /\ lastParsedSlot \in Nat
      /\ \A p \in Positions : Log[p] \in Nat
      /\ \A p, q \in Positions : p <= q => Log[p] <= Log[q]
      /\ handled \subseteq Positions /\ ToSet(ingress) \subseteq Positions
      /\ Past
  BY Numbers DEF TypeOK, Flow
<1>1. CASE Produce
  <2>1. tip' = tip + 1 /\ UNCHANGED <<cursor, ingress, lastParsedSlot, seenOrder, handled>>
    BY <1>1 DEF Produce, queues, parser, history
  <2>2. handled' \subseteq 1 .. tip' /\ cursor' <= tip' + 1
    BY <1>n, <2>1 DEF Past
  <2>3. QED
    BY <2>1, <2>2 DEF Flow, Past, Newest, Ahead, Window
<1>2. CASE Still
  BY <1>2 DEF Still, traffic, Flow, Past, Newest, Ahead, Window
<1>3. CASE Cancel
  <2>1. ingress' = <<>> /\ UNCHANGED <<tip, cursor, lastParsedSlot, seenOrder, handled>>
    BY <1>3 DEF Cancel, parser
  <2>2. QED
    BY <1>0, <2>1 DEF Flow, Past, Newest, Ahead, Window
<1>4. CASE WriteOk
  <2>1. /\ cursor' = StartOf(attempted) /\ phase = "write"
        /\ UNCHANGED <<tip, ingress, lastParsedSlot, seenOrder, handled>>
    BY <1>4 DEF WriteOk, queues, parser, history
  <2>2. ingress = <<>>
    BY <2>1 DEF DrainInv, WaitedOut, Quiet
  <2>3. \/ cursor' = tip + 1
        \/ cursor' \in 1 .. tip /\ Log[cursor'] >= lastParsedSlot
    BY <1>n, <2>1, StartAt DEF TypeOK
  <2>4. cursor' <= tip + 1
    BY <1>n, <2>3
  <2>5. ASSUME NEW p \in Positions, p >= cursor' PROVE Log[p] >= lastParsedSlot
    <3>1. CASE cursor' = tip + 1
      <4>1. CASE handled = {}
        BY <1>n, <4>1 DEF Flow, Newest
      <4>2. CASE handled # {}
        <5>1. PICK h \in handled : Log[h] = lastParsedSlot
          BY <4>2 DEF Flow, Newest
        <5>2. h \in Positions /\ h <= p
          BY <1>n, <2>5, <3>1 DEF Past
        <5>3. QED
          BY <1>n, <5>1, <5>2
      <4>3. QED
        BY <4>1, <4>2
    <3>2. CASE cursor' \in 1 .. tip /\ Log[cursor'] >= lastParsedSlot
      <4>1. cursor' \in Positions
        BY <3>2, Chain DEF TypeOK, Positions
      <4>2. Log[cursor'] <= Log[p]
        BY <1>n, <2>5, <4>1
      <4>3. QED
        BY <1>n, <3>2, <4>1, <4>2
    <3>3. QED
      BY <2>3, <3>1, <3>2
  <2>6. Past'
    BY <1>0, <2>1, <2>2, <2>4 DEF Flow, Past
  <2>7. Ahead'
    BY <1>0, <2>1, <2>2, <2>5 DEF Ahead
  <2>8. QED
    BY <2>1, <2>6, <2>7 DEF Flow, Newest, Window
<1>5. CASE Data
  <2>1. /\ cursor \in Positions /\ cursor <= tip /\ cursor' = cursor + 1
        /\ UNCHANGED <<tip, lastParsedSlot, seenOrder, handled>>
        /\ ToSet(ingress') \subseteq ToSet(ingress) \cup {cursor} /\ Increasing(ingress')
    BY <1>5, <1>n, DataQueue
  <2>2. \A v \in ToSet(ingress') : v < cursor'
    <3>1. \A v \in ToSet(ingress) : v < cursor /\ v \in Nat
      BY <1>n DEF Past
    <3>2. cursor < cursor + 1 /\ \A v \in ToSet(ingress) : v < cursor + 1
      BY <1>n, <3>1
    <3>3. QED
      BY <2>1, <3>2
  <2>3. Past'
    BY <1>n, <2>1, <2>2 DEF Past
  <2>4. Ahead'
    <3>1. Log[cursor] >= lastParsedSlot
      BY <1>n, <2>1 DEF Flow, Ahead
    <3>2. \A p \in Positions : p >= cursor' => p >= cursor
      BY <1>n, <2>1
    <3>3. QED
      BY <2>1, <3>1, <3>2 DEF Flow, Ahead
  <2>5. QED
    BY <2>1, <2>3, <2>4 DEF Flow, Newest, Window
<1>6. CASE Drain
  <2> DEFINE u == Head(ingress)
  <2>1. CASE Still
    BY <1>2, <2>1
  <2>2. CASE ~Still
    <3>1. /\ UNCHANGED <<tip, cursor>>
          /\ u \in ToSet(ingress) /\ u < cursor /\ Increasing(ingress')
          /\ ToSet(ingress') \subseteq ToSet(ingress) /\ \A v \in ToSet(ingress') : u < v
          /\ Thrown \/ Skipped(u) \/ Taken(u)
      BY <1>6, <1>n, <2>2, DrainQueue
    <3> HIDE DEF u
    <3>2. CASE Thrown \/ Skipped(u)
      <4>1. UNCHANGED <<lastParsedSlot, seenOrder, handled>>
        BY <3>1, <3>2, PassedBy
      <4>2. Past'
        BY <1>n, <3>1, <4>1 DEF Past
      <4>3. QED
        BY <3>1, <4>1, <4>2 DEF Flow, Newest, Ahead, Window
    <3>3. CASE Taken(u)
      <4>1. lastParsedSlot' = Log[u] /\ lastParsedSlot <= Log[u] /\ handled' = handled \cup {u}
        BY <3>1, <3>3, TakenNewest DEF Taken
      <4>2. u \in Positions /\ u \in Nat /\ Log[u] \in Nat /\ u <= tip
        <5>1. u \in Positions /\ u \in Nat /\ Log[u] \in Nat
          BY <1>n, <3>1
        <5>2. cursor <= tip + 1
          BY <1>n DEF Past
        <5>3. QED
          BY <1>n, <3>1, <5>1, <5>2
      <4>3. Past'
        <5>1. u \in 1 .. tip
          BY <1>n, <4>2 DEF Positions
        <5>2. handled' \subseteq 1 .. tip'
          BY <1>n, <3>1, <4>1, <5>1 DEF Past
        <5>3. QED
          BY <1>n, <3>1, <5>2 DEF Past
      <4>4. Newest'
        <5>1. ASSUME NEW h \in handled PROVE Log[h] <= Log[u]
          <6>1. Log[h] <= lastParsedSlot /\ Log[h] \in Nat
            BY <1>n DEF Flow, Newest
          <6>2. QED
            BY <1>n, <4>1, <4>2, <6>1
        <5>2. QED
          BY <4>1, <4>2, <5>1 DEF Newest
      <4>5. Ahead'
        <5>1. \A v \in ToSet(ingress') : v \in Positions /\ u <= v
          BY <1>n, <3>1, <4>2
        <5>2. \A p \in Positions : p >= cursor => u <= p
          BY <1>n, <3>1, <4>2
        <5>3. \A p \in Positions : u <= p => Log[p] >= Log[u]
          BY <1>n, <4>2
        <5>4. QED
          BY <3>1, <4>1, <5>1, <5>2, <5>3 DEF Ahead
      <4>6. Window'
        BY <3>1, <3>3, TakenWindow
      <4>7. QED
        BY <4>3, <4>4, <4>5, <4>6 DEF Flow
    <3>4. QED
      BY <3>1, <3>2, <3>3
  <2>3. QED
    BY <2>1, <2>2
<1>7. QED
  BY <1>1, <1>2, <1>3, <1>4, <1>5, <1>6, Steps

\* Without replay the stream never goes back.
LEMMA NextForward == TypeOK /\ DrainInv /\ Modes /\ Flow /\ Forward /\ [Next]_vars => Forward'
<1> SUFFICES ASSUME TypeOK, DrainInv, Modes, Flow, Forward, [Next]_vars, ~Replays'
             PROVE  /\ \A h \in handled' : \A v \in ToSet(ingress') : h < v
                    /\ phase' = "stream" /\ Serving' => \A h \in handled' : h < cursor'
  BY DEF Forward
<1>0. ToSet(<<>>) = {}
  BY DEF ToSet
<1>n. /\ Positions \subseteq Nat /\ tip \in Nat /\ cursor \in Nat /\ lastParsedSlot \in Nat
      /\ handled \subseteq Positions /\ ToSet(ingress) \subseteq Positions /\ Past
  BY Numbers DEF TypeOK, Flow
<1>1. CASE Produce \/ Still
  <2>1. /\ UNCHANGED <<config, cursor, ingress, handled>>
        /\ phase' = "stream" => phase = "stream" /\ attempted' = attempted
    BY <1>1 DEF Produce, Still, traffic, task, queues, history
  <2>2. QED
    BY <2>1 DEF Forward, Serving, Replays
<1>2. CASE Cancel
  <2>1. ingress' = <<>> /\ UNCHANGED <<config, cursor, handled, phase, attempted>>
    BY <1>2 DEF Cancel
  <2>2. QED
    BY <1>0, <2>1 DEF Forward, Serving, Replays
<1>3. CASE WriteOk
  <2>1. /\ cursor' = StartOf(attempted) /\ phase = "write"
        /\ UNCHANGED <<config, attempted, ingress, handled>>
    BY <1>3 DEF WriteOk, queues, history
  <2>2. ingress = <<>>
    BY <2>1 DEF DrainInv, WaitedOut, Quiet
  <2>3. ASSUME Serving', NEW h \in handled PROVE h < cursor'
    <3>1. ~attempted
      BY <2>1, <2>3 DEF Serving, Modes, Replays
    <3>2. cursor' = tip + 1
      BY <1>n, <2>1, <3>1, StartAt DEF TypeOK
    <3>3. QED
      BY <1>n, <3>2 DEF Past
  <2>4. QED
    BY <1>0, <2>1, <2>2, <2>3
<1>4. CASE Data
  <2>1. /\ cursor' = cursor + 1 /\ phase = "stream" /\ Serving
        /\ UNCHANGED <<config, handled>>
        /\ ToSet(ingress') \subseteq ToSet(ingress) \cup {cursor}
    BY <1>4, <1>n, DataQueue
  <2>2. \A h \in handled : h < cursor /\ h < cursor' /\ \A v \in ToSet(ingress) : h < v
    <3>1. \A h \in handled : h < cursor /\ \A v \in ToSet(ingress) : h < v
      BY <2>1 DEF Forward, Replays
    <3>2. QED
      BY <1>n, <2>1, <3>1
  <2>3. QED
    BY <2>1, <2>2
<1>5. CASE Drain
  <2> DEFINE u == Head(ingress)
  <2>1. CASE Still
    BY <1>1, <2>1
  <2>2. CASE ~Still
    <3>1. /\ UNCHANGED <<config, cursor, phase, attempted>>
          /\ u \in ToSet(ingress) /\ u < cursor
          /\ ToSet(ingress') \subseteq ToSet(ingress) /\ \A v \in ToSet(ingress') : u < v
          /\ Thrown \/ Skipped(u) \/ Taken(u)
      BY <1>5, <1>n, <2>2, DrainQueue
    <3> HIDE DEF u
    <3>2. handled' = handled \/ handled' = handled \cup {u}
      BY <3>1, PassedBy DEF Taken
    <3>3. QED
      BY <3>1, <3>2 DEF Forward, Serving, Replays
  <2>3. QED
    BY <2>1, <2>2
<1>6. QED
  BY <1>1, <1>2, <1>3, <1>4, <1>5, Steps

\* t is s and x after it, without a repetition.
Extends(s, x, t) ==
  /\ Len(s) \in Nat /\ DOMAIN s = 1 .. Len(s) /\ DOMAIN t = 1 .. Len(s) + 1
  /\ \A k \in DOMAIN s : t[k] = s[k] /\ s[k] \in ToSet(s)
  /\ t[Len(s) + 1] = x
  /\ IsInjective(t) /\ ToSet(t) = ToSet(s) \cup {x}

\* A list without repetition keeps that when a new element is appended.
LEMMA AppendNew ==
  ASSUME NEW s \in Seq(Positions), NEW x \in Positions, IsInjective(s), x \notin ToSet(s)
  PROVE  Extends(s, x, Append(s, x))
<1>1. /\ Len(s) \in Nat /\ DOMAIN s = 1 .. Len(s)
      /\ DOMAIN Append(s, x) = 1 .. Len(s) + 1
      /\ \A k \in DOMAIN s : Append(s, x)[k] = s[k]
      /\ Append(s, x)[Len(s) + 1] = x
  BY AppendProperties, LenProperties
<1>2. \A k \in DOMAIN s : s[k] # x
  BY DEF ToSet
<1>3. ASSUME NEW a \in DOMAIN Append(s, x), NEW b \in DOMAIN Append(s, x), Append(s, x)[a] = Append(s, x)[b]
      PROVE  a = b
  <2>1. CASE a \in DOMAIN s /\ b \in DOMAIN s
    BY <1>1, <1>3, <2>1 DEF IsInjective
  <2>2. CASE ~(a \in DOMAIN s /\ b \in DOMAIN s)
    <3>1. a = Len(s) + 1 \/ b = Len(s) + 1
      BY <1>1, <1>3, <2>2
    <3>2. QED
      BY <1>1, <1>2, <1>3, <3>1
  <2>3. QED
    BY <2>1, <2>2
<1>4. ASSUME NEW v \in ToSet(Append(s, x)) PROVE v \in ToSet(s) \cup {x}
  <2>1. PICK k \in DOMAIN Append(s, x) : v = Append(s, x)[k]
    BY DEF ToSet
  <2>2. QED
    BY <1>1, <2>1 DEF ToSet
<1>5. ASSUME NEW v \in ToSet(s) PROVE v \in ToSet(Append(s, x))
  <2>1. PICK k \in DOMAIN s : v = s[k]
    BY DEF ToSet
  <2>2. k \in DOMAIN Append(s, x) /\ v = Append(s, x)[k]
    BY <1>1, <2>1
  <2>3. QED
    BY <2>2 DEF ToSet
<1>6. x \in ToSet(Append(s, x))
  <2>1. Len(s) + 1 \in DOMAIN Append(s, x)
    BY <1>1
  <2>2. QED
    BY <1>1, <2>1 DEF ToSet
<1>7. IsInjective(Append(s, x))
  BY <1>3 DEF IsInjective
<1>8. ToSet(Append(s, x)) = ToSet(s) \cup {x}
  BY <1>4, <1>5, <1>6
<1>9. \A k \in DOMAIN s : s[k] \in ToSet(s)
  BY DEF ToSet
<1>10. QED
  BY <1>1, <1>7, <1>8, <1>9 DEF Extends

\* Steps that parse nothing deliver nothing.
LEMMA OnlyDrainDelivers ==
  ASSUME TypeOK, Past, [Next]_vars, ~Drain
  PROVE  UNCHANGED <<handled, out, parseErrors, refusals>>
         /\ (ingressDrops' = ingressDrops \/ ingressDrops' = ingressDrops + 1)
BY Steps, DataQueue DEF Produce, WriteOk, Cancel, Still, traffic, history

\* No update is delivered a second time.
LEMMA NextServed == TypeOK /\ Flow /\ Forward /\ Served /\ [Next]_vars => Served'
<1> SUFFICES ASSUME TypeOK, Flow, Forward, Served, [Next]_vars PROVE Served'
  OBVIOUS
<1>0. Past
  BY DEF Flow
<1>1. ASSUME UNCHANGED <<handled, out>> PROVE Served'
  BY <1>1 DEF Served
<1>2. CASE ~Drain
  BY <1>0, <1>1, <1>2, OnlyDrainDelivers
<1>3. CASE Drain
  <2> DEFINE u == Head(ingress)
  <2>1. CASE Still
    BY <1>1, <2>1 DEF Still, traffic
  <2>2. CASE ~Still
    <3>1. u \in ToSet(ingress) /\ u \in Positions /\ (Thrown \/ Skipped(u) \/ Taken(u))
      BY <1>0, <1>3, <2>2, DrainQueue
    <3> HIDE DEF u
    <3>2. CASE Thrown \/ Skipped(u)
      BY <1>1, <3>1, <3>2, PassedBy
    <3>3. CASE Taken(u)
      <4>1. u \notin handled
        BY <3>1, <3>3, TakenIsNew
      <4>2. handled' = handled \cup {u} /\ (out' = out \/ out' = Append(out, u))
        BY <3>3 DEF Taken
      <4>3. IsInjective(Append(out, u)) /\ ToSet(Append(out, u)) = ToSet(out) \cup {u}
        <5>1. out \in Seq(Positions)
          BY DEF TypeOK
        <5>2. IsInjective(out) /\ u \notin ToSet(out) /\ u \in Positions
          BY <3>1, <4>1 DEF Served
        <5>3. Extends(out, u, Append(out, u))
          BY <5>1, <5>2, AppendNew
        <5>4. QED
          BY <5>3 DEF Extends
      <4>4. CASE out' = out
        BY <4>2, <4>4 DEF Served
      <4>5. CASE out' = Append(out, u)
        BY <4>2, <4>3, <4>5 DEF Served
      <4>6. QED
        BY <4>2, <4>4, <4>5
    <3>4. QED
      BY <3>1, <3>2, <3>3
  <2>3. QED
    BY <2>1, <2>2
<1>4. QED
  BY <1>2, <1>3

\* What the stream brings and what the window remembers fit together in every state.
LEMMA FlowHolds == Spec => [](TypeOK /\ DrainInv /\ Modes /\ Flow /\ Forward /\ Served)
<1>1. QED
  BY InitType, InitDrain, InitFlow, NextType, NextDrain, NextModes, NextFlow, NextForward, NextServed,
     PTL DEF Spec

\* DeliveredOnce, for every chain, window, queue size and number of failures: a
\* subscription never pushes an event of the same update twice, however often it
\* reconnects and asks for a replay from the last parsed slot.
THEOREM NeverTwice == Spec => []DeliveredOnce
<1>1. Served => DeliveredOnce
  BY DEF Served, DeliveredOnce
<1>2. QED
  BY <1>1, FlowHolds, PTL

(***************************************************************************)
(* What is missing: losses, continuity breaks and the status                *)
(***************************************************************************)

\* Nothing was lost inside the process, and nothing between two streams.
Whole == LocalLosses = 0 /\ continuityBreaks = 0

LEMMA Losses ==
  ASSUME TypeOK
  PROVE  /\ parseErrors \in Nat /\ ingressDrops \in Nat /\ refusals \in Nat
         /\ LocalLosses \in Nat /\ continuityBreaks \in Nat
<1>1. parseErrors \in Nat /\ ingressDrops \in Nat /\ refusals \in Nat /\ continuityBreaks \in Nat
  BY DEF TypeOK
<1>2. QED
  BY <1>1 DEF LocalLosses

\* Every loss is told by the status when it happens.
LEMMA LossStep ==
  ASSUME TypeOK, Past, [Next]_vars
  PROVE  \/ UNCHANGED <<parseErrors, refusals, ingressDrops>> /\ LocalLosses' = LocalLosses
         \/ LocalLosses' > 0 /\ status'.broken
<1>n. parseErrors \in Nat /\ ingressDrops \in Nat /\ refusals \in Nat
  BY Losses
<1>m. LocalLosses' = parseErrors' + ingressDrops' + refusals'
  BY DEF LocalLosses
<1>1. Status(status.state, TRUE).broken
  BY DEF Status
<1>2. CASE Drain
  <2> DEFINE u == Head(ingress)
  <2>1. \/ Still
        \/ Thrown \/ Skipped(u) \/ Taken(u)
    BY <1>2, DrainQueue
  <2>2. ingressDrops' = ingressDrops
    BY <1>2, DrainQueue
  <2> HIDE DEF u
  <2>3. \/ UNCHANGED <<parseErrors, refusals>>
        \/ parseErrors' = parseErrors + 1 /\ refusals' = refusals /\ status' = Status(status.state, TRUE)
        \/ parseErrors' = parseErrors /\ refusals' = refusals + 1 /\ status' = Status(status.state, TRUE)
    BY <2>1 DEF Still, traffic, Thrown, Skipped, Taken
  <2>4. CASE UNCHANGED <<parseErrors, refusals>>
    BY <2>2, <2>4 DEF LocalLosses
  <2>5. CASE ~UNCHANGED <<parseErrors, refusals>>
    <3>1. status'.broken
      BY <1>1, <2>3, <2>5
    <3>2. CASE parseErrors' = parseErrors + 1 /\ refusals' = refusals
      <4>1. LocalLosses' = parseErrors + 1 + ingressDrops + refusals
        BY <1>m, <2>2, <3>2
      <4>2. QED
        BY <1>n, <3>1, <4>1
    <3>3. CASE parseErrors' = parseErrors /\ refusals' = refusals + 1
      <4>1. LocalLosses' = parseErrors + ingressDrops + (refusals + 1)
        BY <1>m, <2>2, <3>3
      <4>2. QED
        BY <1>n, <3>1, <4>1
    <3>4. QED
      BY <2>3, <2>5, <3>2, <3>3
  <2>6. QED
    BY <2>4, <2>5
<1>3. CASE Data
  <2>1. /\ UNCHANGED <<parseErrors, refusals>>
        /\ \/ ingressDrops' = ingressDrops + 1 /\ status' = Status(status.state, TRUE)
           \/ ingressDrops' = ingressDrops
    BY <1>3, DataQueue
  <2>2. CASE ingressDrops' = ingressDrops
    BY <2>1, <2>2 DEF LocalLosses
  <2>3. CASE ingressDrops' = ingressDrops + 1 /\ status' = Status(status.state, TRUE)
    <3>1. LocalLosses' > 0
      BY <1>n, <1>m, <2>1, <2>3
    <3>2. QED
      BY <1>1, <2>3, <3>1
  <2>4. QED
    BY <2>1, <2>2, <2>3
<1>4. CASE ~Drain /\ ~Data
  <2>1. UNCHANGED <<parseErrors, refusals, ingressDrops>>
    BY <1>4, Steps DEF Produce, WriteOk, Cancel, Still, traffic, history
  <2>2. QED
    BY <2>1 DEF LocalLosses
<1>5. QED
  BY <1>2, <1>3, <1>4

\* Only a failed or ended stream adds a continuity break.
LEMMA BreakStep ==
  ASSUME TypeOK, [Next]_vars
  PROVE  \/ continuityBreaks' = continuityBreaks
         \/ /\ Drained /\ ~(phase = "drainEnded" /\ isCancelled)
            /\ continuityBreaks' = continuityBreaks + Break /\ Break \in {0, 1}
<1>1. CASE Drained
  BY <1>1 DEF Drained, Break
<1>2. CASE ~Drained
  BY <1>2 DEF Next, Setup, Resume, Farewell, Stopped, Produce, SubscribeOk, WriteOk, SetupFails, Ping,
              Data, Goodbye, Drain, Catch, Ended, BackoffOver, Finish, Cancel, vars
<1>3. QED
  BY <1>1, <1>2

\* Losses and breaks are never taken back.
LEMMA WholeBefore ==
  ASSUME TypeOK, Past, [Next]_vars
  PROVE  /\ LocalLosses' = 0 => LocalLosses = 0 /\ UNCHANGED <<parseErrors, refusals, ingressDrops>>
         /\ Whole' => Whole
<1>1. LocalLosses' = 0 => LocalLosses = 0 /\ UNCHANGED <<parseErrors, refusals, ingressDrops>>
  BY LossStep
<1>2. ASSUME continuityBreaks' = 0 PROVE continuityBreaks = 0
  BY <1>2, BreakStep, Losses
<1>3. QED
  BY <1>1, <1>2 DEF Whole

\* The phases of a first attempt, when nothing was lost yet.
Fresh == {"subscribe", "write", "stream", "failed"}

\* Whatever was lost or broken, the status has told it; so it has of every stream
\* that failed or ended, before the task waits for the queue.
Broken ==
  /\ isCancelled => status.broken
  /\ LocalLosses > 0 => status.broken
  /\ continuityBreaks > 0 => status.broken
  /\ phase \notin Fresh => status.broken

\* continuityBroken is never taken back.
LEMMA Sticky ==
  ASSUME [Next]_vars PROVE status.broken => status'.broken
<1>1. \A s, b : status.broken => Status(s, b).broken
  BY DEF Status
<1>2. status' = status \/ \E s, b : status' = Status(s, b)
  BY DEF Next, Setup, Resume, Farewell, Stopped, Produce, SubscribeOk, WriteOk, SetupFails, Ping,
         Data, Goodbye, AnnounceLoss, Drain, ProcessUpdate, Enqueue, AnnounceDrop, Catch, Ended, Drained,
         BackoffOver, Finish, Cancel, vars
<1>3. QED
  BY <1>1, <1>2

\* Leaving a first attempt other than to try again is told.
LEMMA LeavingTold ==
  ASSUME Broken, [Next]_vars, ~status'.broken
  PROVE  /\ ~isCancelled' /\ ~isCancelled
         /\ phase \in Fresh /\ phase' \in Fresh
         /\ phase = "stream" => phase' = "stream"
         /\ phase' = "stream" => phase = "stream" \/ WriteOk
<1> DEFINE Told == /\ ~isCancelled' /\ phase' \in Fresh
                   /\ phase = "stream" => phase' = "stream"
                   /\ phase' = "stream" => phase = "stream" \/ WriteOk
<1>1. ~status.broken /\ ~isCancelled /\ phase \in Fresh
  BY Sticky DEF Broken
<1>2. \A s : Status(s, TRUE).broken
  BY DEF Status
<1>3. ASSUME UNCHANGED <<phase, isCancelled>> PROVE Told
  BY <1>1, <1>3
<1>4. ASSUME SubscribeOk PROVE Told
  BY <1>1, <1>4 DEF SubscribeOk, Fresh
<1>5. ASSUME \E kind \in {"other", "unsupported"} : SetupFails(kind) PROVE Told
  BY <1>1, <1>5 DEF SetupFails, Fresh
<1>6. ASSUME WriteOk PROVE Told
  BY <1>1, <1>6 DEF WriteOk, Fresh
<1>7. ASSUME Farewell PROVE Told
  <2>1. phase = "stream" => status' = Status("reconnecting", TRUE)
    BY <1>1, <1>7 DEF Farewell, Goodbye, AnnounceLoss
  <2>2. phase # "stream" /\ UNCHANGED <<phase, isCancelled>>
    BY <1>2, <1>7, <2>1 DEF Farewell, Goodbye
  <2>3. QED
    BY <1>3, <2>2
<1>8. ASSUME Catch PROVE Told
  BY <1>1, <1>2, <1>8 DEF Catch
<1>9. ASSUME Ended \/ Drained \/ BackoffOver \/ Finish PROVE Told
  BY <1>1, <1>9 DEF Ended, Drained, BackoffOver, Finish, Fresh
<1>10. ASSUME Cancel PROVE Told
  BY <1>2, <1>10 DEF Cancel
<1>11. ASSUME Produce \/ Ping \/ Data \/ Drain \/ UNCHANGED vars PROVE Told
  BY <1>3, <1>11 DEF Produce, Ping, Data, Drain, vars, task
<1>12. Told
  BY <1>4, <1>5, <1>6, <1>7, <1>8, <1>9, <1>10, <1>11 DEF Next, Setup, Resume, Stopped
<1>13. QED
  BY <1>1, <1>12

LEMMA NextBroken == TypeOK /\ Past /\ Broken /\ [Next]_vars => Broken'
<1> SUFFICES ASSUME TypeOK, Past, Broken, [Next]_vars, ~status'.broken
             PROVE  ~isCancelled' /\ ~(LocalLosses' > 0) /\ ~(continuityBreaks' > 0) /\ phase' \in Fresh
  BY DEF Broken
<1>1. ~isCancelled' /\ phase \in Fresh /\ phase' \in Fresh
  BY LeavingTold
<1>2. ~(LocalLosses > 0) /\ ~(continuityBreaks > 0)
  BY Sticky DEF Broken
<1>3. ~(LocalLosses' > 0)
  BY <1>2, LossStep
<1>4. ~Drained
  BY <1>1 DEF Drained, Fresh
<1>5. QED
  BY <1>1, <1>2, <1>3, <1>4, BreakStep

\* A break is counted before the stream is opened that skips the updates in between;
\* with a replay granted none is, except by a task that gives up.
Counted ==
  /\ phase \in {"backoff", "subscribe"} /\ Parsed /\ ~replayAllowed => continuityBreaks > 0
  /\ phase = "write" /\ Parsed /\ ~attempted => continuityBreaks > 0
  /\ Replays /\ continuityBreaks > 0 => phase \in {"finally", "done"}

LEMMA NextCounted == TypeOK /\ DrainInv /\ Modes /\ Counted /\ Past /\ [Next]_vars => Counted'
<1> SUFFICES ASSUME TypeOK, DrainInv, Modes, Counted, Past, [Next]_vars PROVE Counted'
  OBVIOUS
<1>n. continuityBreaks \in Nat
  BY Losses
<1>1. CASE Produce \/ Ping \/ Data \/ Cancel \/ UNCHANGED vars
  <2>1. UNCHANGED <<config, phase, attempted, replayAllowed, lastParsedSlot, continuityBreaks>>
    BY <1>1 DEF Produce, Ping, Data, Cancel, vars, task, parser
  <2>2. QED
    BY <2>1 DEF Counted, Parsed, Replays
<1>2. CASE Drain
  <2>1. UNCHANGED <<config, phase, attempted, replayAllowed, continuityBreaks>>
    BY <1>2 DEF Drain
  <2>2. drainScheduled
    BY <1>2 DEF Drain
  <2>3. phase \notin {"backoff", "subscribe", "write", "finally", "done"}
    BY <2>2 DEF DrainInv, WaitedOut, Quiet
  <2>4. QED
    BY <2>1, <2>3 DEF Counted, Replays
<1>3. CASE SubscribeOk
  <2>1. /\ phase = "subscribe" /\ UNCHANGED <<config, replayAllowed, lastParsedSlot, continuityBreaks>>
        /\ phase' = "finally" \/ (phase' = "write" /\ attempted' = ShouldReplay)
    BY <1>3 DEF SubscribeOk, parser
  <2>2. QED
    BY <1>n, <2>1 DEF Counted, Parsed, Replays, ShouldReplay
<1>4. CASE \E kind \in {"other", "unsupported"} : SetupFails(kind)
  BY <1>4 DEF SetupFails, Counted, Replays
<1>5. CASE WriteOk
  BY <1>5 DEF WriteOk, Counted, Replays
<1>6. CASE Farewell
  BY <1>6 DEF Farewell, Goodbye, parser, Counted, Parsed, Replays
<1>7. CASE Catch
  BY <1>7 DEF Catch, parser, Counted, Parsed, Replays
<1>8. CASE Ended
  BY <1>8 DEF Ended, parser, Counted, Parsed, Replays
<1>9. CASE Drained
  <2>1. /\ phase \in {"drainFailed", "drainEnded"} /\ UNCHANGED <<config, lastParsedSlot, failure>>
        /\ phase' \in {"backoff", "finally"}
    BY <1>9 DEF Drained, parser
  <2>2. CASE phase' = "finally"
    BY <2>2 DEF Counted
  <2>3. CASE phase' # "finally"
    <3>1. /\ config.autoReconnect /\ continuityBreaks' = continuityBreaks + Break /\ phase' = "backoff"
          /\ replayAllowed' = IF phase = "drainFailed" /\ Refused THEN FALSE ELSE replayAllowed
      BY <1>9, <2>3 DEF Drained
    <3>2. Break = IF phase = "drainFailed" /\ Refused THEN 1 ELSE IF ~replayAllowed /\ Parsed THEN 1 ELSE 0
      BY <3>1 DEF Break
    <3>3. Parsed /\ ~replayAllowed' => continuityBreaks' > 0
      BY <1>n, <3>1, <3>2
    <3>4. ~(Replays /\ continuityBreaks' > 0)
      <4>1. SUFFICES ASSUME Replays PROVE continuityBreaks' = 0
        BY <1>n, <3>1, <3>2
      <4>2. continuityBreaks = 0
        BY <1>n, <2>1, <4>1 DEF Counted
      <4>3. Break = 0
        BY <3>2, <4>1 DEF Modes, Refused
      <4>4. QED
        BY <3>1, <4>2, <4>3
    <3>5. QED
      BY <2>1, <3>1, <3>3, <3>4 DEF Counted, Parsed, Replays
  <2>4. QED
    BY <2>2, <2>3
<1>10. CASE BackoffOver
  BY <1>10 DEF BackoffOver, parser, Counted, Parsed, Replays
<1>11. CASE Finish
  BY <1>11 DEF Finish, Counted
<1>12. QED
  BY <1>1, <1>2, <1>3, <1>4, <1>5, <1>6, <1>7, <1>8, <1>9, <1>10, <1>11 DEF Next, Setup, Resume, Stopped

\* Without a loss the queue holds the updates right before the cursor.
Consecutive ==
  LocalLosses = 0 => \A k \in DOMAIN ingress : ingress[k] = cursor - Len(ingress) + k - 1

LEMMA NextConsecutive == TypeOK /\ DrainInv /\ Past /\ Consecutive /\ [Next]_vars => Consecutive'
<1> SUFFICES ASSUME TypeOK, DrainInv, Past, Consecutive, [Next]_vars, LocalLosses' = 0
             PROVE  \A k \in DOMAIN ingress' : ingress'[k] = cursor' - Len(ingress') + k - 1
  BY DEF Consecutive
<1>n. cursor \in Nat /\ Len(ingress) \in Nat /\ DOMAIN ingress = 1 .. Len(ingress) /\ ingress \in Seq(Nat)
  BY Numbers
<1>0. \A k \in DOMAIN ingress : ingress[k] = cursor - Len(ingress) + k - 1
  BY WholeBefore DEF Consecutive
<1>1. ASSUME ingress' = <<>> PROVE \A k \in DOMAIN ingress' : ingress'[k] = cursor' - Len(ingress') + k - 1
  BY <1>1
<1>2. CASE UNCHANGED <<ingress, cursor>>
  BY <1>0, <1>2
<1>3. CASE Cancel
  BY <1>1, <1>3 DEF Cancel
<1>4. CASE WriteOk
  <2>1. phase = "write" /\ ingress' = ingress
    BY <1>4 DEF WriteOk, queues
  <2>2. ingress = <<>>
    BY <2>1 DEF DrainInv, WaitedOut, Quiet
  <2>3. QED
    BY <1>1, <2>1, <2>2
<1>5. CASE Data
  <2>1. ingress' = Append(ingress, cursor) /\ cursor' = cursor + 1
    <3>1. ingressDrops' = ingressDrops /\ ingressDrops \in Nat
      BY WholeBefore, Losses
    <3>2. ingressDrops' # ingressDrops + 1
      BY <3>1
    <3>3. QED
      BY <1>5, <3>2, DataQueue
  <2>2. /\ Len(ingress') = Len(ingress) + 1 /\ DOMAIN ingress' = 1 .. Len(ingress) + 1
        /\ \A k \in DOMAIN ingress : ingress'[k] = ingress[k]
        /\ ingress'[Len(ingress) + 1] = cursor
    BY <1>n, <2>1, AppendProperties, LenProperties
  <2>3. ASSUME NEW k \in DOMAIN ingress' PROVE ingress'[k] = cursor' - Len(ingress') + k - 1
    <3>1. CASE k \in DOMAIN ingress
      <4>1. ingress'[k] = cursor - Len(ingress) + k - 1
        BY <1>0, <2>2, <3>1
      <4>2. QED
        BY <1>n, <2>1, <2>2, <3>1, <4>1
    <3>2. CASE k = Len(ingress) + 1
      BY <1>n, <2>1, <2>2, <3>2
    <3>3. QED
      BY <1>n, <2>2, <3>1, <3>2
  <2>4. QED
    BY <2>3
<1>6. CASE Drain
  <2>1. CASE Still
    BY <1>2, <2>1 DEF Still, traffic
  <2>2. CASE ~Still
    <3>1. ingress # <<>> /\ ingress' = Tail(ingress) /\ cursor' = cursor
      BY <1>6, <2>2, DrainQueue
    <3>2. /\ Len(ingress') = Len(ingress) - 1 /\ DOMAIN ingress' = 1 .. Len(ingress) - 1
          /\ \A k \in DOMAIN ingress' : k + 1 \in DOMAIN ingress /\ ingress'[k] = ingress[k + 1]
      BY <1>n, <3>1, HeadTailProperties, LenProperties, EmptySeq
    <3>3. ASSUME NEW k \in DOMAIN ingress' PROVE ingress'[k] = cursor' - Len(ingress') + k - 1
      <4>1. ingress'[k] = cursor - Len(ingress) + (k + 1) - 1
        BY <1>0, <3>2
      <4>2. QED
        BY <1>n, <3>1, <3>2, <4>1
    <3>4. QED
      BY <3>3
  <2>3. QED
    BY <2>1, <2>2
<1>7. CASE Produce \/ Still
  BY <1>2, <1>7 DEF Produce, Still, traffic, queues
<1>8. QED
  BY <1>3, <1>4, <1>5, <1>6, <1>7, Steps

\* What a drain does with update u while nothing is lost: it was parsed before and is
\* skipped, or it is new and reaches the user.
Moves(u) ==
  /\ ~isCancelled /\ phase \notin {"finally", "done"}
  /\ u \in Positions /\ u \in ToSet(ingress) /\ u = cursor - Len(ingress) /\ u < cursor
  /\ cursor' = cursor /\ Len(ingress') = Len(ingress) - 1 /\ continuityBreaks' = continuityBreaks
  /\ UNCHANGED <<config, phase, isCancelled>>
  /\ ToSet(ingress') \subseteq ToSet(ingress) /\ \A v \in ToSet(ingress') : u < v
  /\ \/ u \in handled /\ UNCHANGED <<handled, out>>
     \/ u \notin handled /\ handled' = handled \cup {u} /\ Extends(out, u, out')

LEMMA DrainMoves ==
  ASSUME TypeOK, DrainInv, Flow, Forward, Served, Consecutive, [Next]_vars, Drain, ~Still,
         LocalLosses' = 0, NEW u, u = Head(ingress)
  PROVE  Moves(u)
<1>0. Past
  BY DEF Flow
<1>1. LocalLosses = 0 /\ UNCHANGED <<parseErrors, refusals, ingressDrops>>
  BY <1>0, WholeBefore
<1>2. /\ UNCHANGED <<config, cursor, phase, isCancelled, continuityBreaks>>
      /\ ingress # <<>> /\ u \in ToSet(ingress) /\ u \in Positions /\ u = ingress[1] /\ u < cursor
      /\ Len(ingress') = Len(ingress) - 1
      /\ ToSet(ingress') \subseteq ToSet(ingress) /\ \A v \in ToSet(ingress') : u < v
      /\ Thrown \/ Skipped(u) \/ Taken(u)
  BY <1>0, DrainQueue
<1>3. ~isCancelled /\ phase \notin {"finally", "done"}
  BY <1>2 DEF DrainInv, WaitedOut, Quiet
<1>4. u = cursor - Len(ingress)
  <2>1. Len(ingress) \in Nat /\ cursor \in Nat /\ 1 \in DOMAIN ingress
    BY <1>2, Numbers, EmptySeq
  <2>2. ingress[1] = cursor - Len(ingress) + 1 - 1
    BY <1>1, <2>1 DEF Consecutive
  <2>3. QED
    BY <1>2, <2>1, <2>2
<1>5. ~Thrown
  <2>1. parseErrors' # parseErrors + 1
    BY <1>1, Losses
  <2>2. QED
    BY <2>1 DEF Thrown
<1>6. CASE Skipped(u)
  <2>1. UNCHANGED <<handled, out>>
    BY <1>6 DEF Skipped
  <2>2. u \in handled
    BY <1>6 DEF Skipped, Replayed, Flow, Window
  <2>3. QED
    BY <1>2, <1>3, <1>4, <2>1, <2>2 DEF Moves
<1>7. CASE Taken(u)
  <2>1. u \notin handled
    BY <1>2, <1>7, TakenIsNew
  <2>2. refusals' # refusals + 1
    BY <1>1, Losses
  <2>3. handled' = handled \cup {u} /\ out' = Append(out, u)
    BY <1>7, <2>2 DEF Taken
  <2>4. out \in Seq(Positions)
    BY DEF TypeOK
  <2>5. IsInjective(out) /\ u \notin ToSet(out) /\ u \in Positions
    BY <1>2, <2>1 DEF Served
  <2>6. Extends(out, u, Append(out, u))
    BY <2>4, <2>5, AppendNew
  <2>7. QED
    BY <1>2, <1>3, <1>4, <2>1, <2>3, <2>6 DEF Moves
<1>8. QED
  BY <1>2, <1>5, <1>6, <1>7

\* Without a loss the user has everything that was parsed.
Complete == LocalLosses = 0 => handled \subseteq ToSet(out)

LEMMA NextComplete ==
  ASSUME TypeOK, DrainInv, Flow, Forward, Served, Consecutive, Complete, [Next]_vars
  PROVE  Complete'
<1> SUFFICES ASSUME LocalLosses' = 0 PROVE handled' \subseteq ToSet(out')
  BY DEF Complete
<1>0. Past
  BY DEF Flow
<1>1. handled \subseteq ToSet(out)
  BY <1>0, WholeBefore DEF Complete
<1>2. ASSUME UNCHANGED <<handled, out>> PROVE handled' \subseteq ToSet(out')
  BY <1>1, <1>2
<1>3. CASE Drain /\ ~Still
  <2> DEFINE u == Head(ingress)
  <2>1. Moves(u)
    BY <1>3, DrainMoves
  <2>2. QED
    BY <1>1, <2>1 DEF Moves, Extends
<1>4. CASE ~Drain
  BY <1>0, <1>2, <1>4, OnlyDrainDelivers
<1>5. CASE Still
  BY <1>2, <1>5 DEF Still, traffic
<1>6. QED
  BY <1>3, <1>4, <1>5

\* The queue and the cursor go on where the parsed updates end, at the latest.
Nearby ==
  Whole /\ ~isCancelled /\ handled # {} => \E h \in handled : cursor - Len(ingress) <= h + 1

\* From the first update the user got there is no hole in what was parsed.
NoHole ==
  Whole => \A h \in handled : \A q \in Positions : out[1] <= q /\ q <= h => q \in handled

\* A stream that is read on, or opened with a granted replay, joins what was parsed.
LEMMA NextNearby ==
  ASSUME TypeOK, DrainInv, Flow, Forward, Served, Consecutive, Counted, Nearby, [Next]_vars
  PROVE  Nearby'
<1> SUFFICES ASSUME Whole', ~isCancelled', handled' # {}
             PROVE  \E h \in handled' : cursor' - Len(ingress') <= h + 1
  BY DEF Nearby
<1>0. Past /\ Whole /\ LocalLosses' = 0
  BY WholeBefore DEF Flow, Whole
<1>n. /\ cursor \in Nat /\ Len(ingress) \in Nat /\ tip \in Nat /\ lastParsedSlot \in Nat
      /\ \A p \in Positions : p \in Nat /\ Log[p] \in Nat /\ Log[p] # 0
      /\ handled \subseteq Positions
  BY Numbers DEF TypeOK
<1>1. ASSUME UNCHANGED <<handled, cursor, ingress, isCancelled>>
      PROVE  \E h \in handled' : cursor' - Len(ingress') <= h + 1
  BY <1>0, <1>1 DEF Nearby
<1>2. CASE Produce \/ Still
  BY <1>1, <1>2 DEF Produce, Still, traffic, queues, history
<1>3. CASE Cancel
  BY <1>3 DEF Cancel
<1>4. CASE WriteOk
  <2>1. phase = "write" /\ cursor' = StartOf(attempted) /\ UNCHANGED <<handled, ingress>>
    BY <1>4 DEF WriteOk, queues, history
  <2>2. ingress = <<>>
    BY <2>1 DEF DrainInv, WaitedOut, Quiet
  <2>3. PICK h \in handled : Log[h] = lastParsedSlot
    BY <2>1 DEF Flow, Newest
  <2>4. h \in Nat /\ h \in 1 .. tip /\ Parsed
    BY <1>0, <1>n, <2>3 DEF Past, Parsed
  <2>5. attempted
    BY <1>0, <1>n, <2>1, <2>4 DEF Counted, Whole
  <2>6. Log[h] >= lastParsedSlot
    BY <1>n, <2>3
  <2>7. /\ cursor' \in 1 .. tip
        /\ \A q \in 1 .. cursor' - 1 : Log[q] < lastParsedSlot
    BY <1>n, <2>1, <2>4, <2>5, <2>6, StartAt DEF TypeOK
  <2> DEFINE c == cursor'
  <2>c. c \in Nat /\ h \in Nat /\ 1 <= h
    BY <1>n, <2>4, <2>7
  <2> HIDE DEF c
  <2>8. cursor' <= h
    <3>1. SUFFICES ASSUME ~(c <= h) PROVE FALSE
      BY DEF c
    <3>2. h \in 1 .. c - 1
      BY <2>c, <3>1
    <3>3. Log[h] < lastParsedSlot
      BY <2>7, <3>2 DEF c
    <3>4. QED
      BY <1>n, <2>3, <3>3
  <2>9. Len(ingress') = 0
    BY <2>1, <2>2
  <2>10. cursor' - Len(ingress') <= h + 1
    <3>1. c <= h
      BY <2>8 DEF c
    <3>2. c - 0 <= h + 1
      BY <2>c, <3>1
    <3>3. QED
      BY <2>9, <3>2 DEF c
  <2>11. QED
    BY <2>1, <2>10
<1>5. CASE Data
  <2>1. ingressDrops' # ingressDrops + 1
    BY <1>0, WholeBefore, Losses
  <2>2. /\ ingress' = Append(ingress, cursor) /\ cursor' = cursor + 1
        /\ UNCHANGED <<handled, isCancelled>>
    BY <1>0, <1>5, <2>1, DataQueue
  <2>3. Len(ingress') = Len(ingress) + 1
    BY <1>n, <2>2, Numbers, AppendProperties
  <2>4. cursor' - Len(ingress') = cursor - Len(ingress)
    BY <1>n, <2>2, <2>3
  <2>5. QED
    BY <1>0, <2>2, <2>4 DEF Nearby
<1>6. CASE Drain /\ ~Still
  <2> DEFINE u == Head(ingress)
  <2>1. Moves(u)
    BY <1>0, <1>6, DrainMoves
  <2> HIDE DEF u
  <2>2. u \in handled' /\ u \in Nat /\ cursor' = cursor /\ Len(ingress') = Len(ingress) - 1
    BY <1>n, <2>1 DEF Moves
  <2>3. u = cursor - Len(ingress)
    BY <2>1 DEF Moves
  <2>4. cursor' - Len(ingress') <= u + 1
    BY <1>n, <2>2, <2>3
  <2>5. QED
    BY <2>2, <2>4
<1>7. QED
  BY <1>2, <1>3, <1>4, <1>5, <1>6, Steps

LEMMA NextNoHole ==
  ASSUME TypeOK, DrainInv, Flow, Forward, Served, Consecutive, Complete, Nearby, NoHole, [Next]_vars
  PROVE  NoHole'
<1> SUFFICES ASSUME Whole', NEW h \in handled', NEW q \in Positions, out'[1] <= q, q <= h
             PROVE  q \in handled'
  BY DEF NoHole
<1>0. Past /\ Whole /\ LocalLosses' = 0 /\ LocalLosses = 0
  BY WholeBefore DEF Flow, Whole
<1>n. /\ cursor \in Nat /\ Len(ingress) \in Nat /\ handled \subseteq Positions /\ Positions \subseteq Nat
  BY Numbers DEF TypeOK
<1>1. ASSUME UNCHANGED <<handled, out>> PROVE q \in handled'
  BY <1>0, <1>1 DEF NoHole
<1>2. CASE ~Drain
  BY <1>0, <1>1, <1>2, OnlyDrainDelivers
<1>3. CASE Still
  BY <1>1, <1>3 DEF Still, traffic
<1>4. CASE Drain /\ ~Still
  <2> DEFINE u == Head(ingress)
  <2>1. Moves(u)
    BY <1>0, <1>4, DrainMoves
  <2> HIDE DEF u
  <2>2. CASE UNCHANGED <<handled, out>>
    BY <1>1, <2>2
  <2>3. CASE u \notin handled /\ handled' = handled \cup {u} /\ Extends(out, u, out')
    <3>1. u \in Positions /\ u \in Nat /\ q \in Nat /\ u = cursor - Len(ingress) /\ ~isCancelled
      BY <1>n, <2>1 DEF Moves
    <3>2. CASE q = u
      BY <2>3, <3>2
    <3>3. CASE q # u
      <4>1. PICK g \in handled : q <= g
        <5>1. CASE h = u
          <6>1. q < u
            BY <1>n, <3>1, <3>3, <5>1
          <6>2. handled # {}
            <7>1. SUFFICES ASSUME handled = {} PROVE FALSE
              OBVIOUS
            <7>2. DOMAIN out = {}
              BY <7>1 DEF Served, ToSet
            <7>3. Len(out) = 0 /\ out'[Len(out) + 1] = u
              BY <2>3, <7>2 DEF Extends
            <7>4. out'[1] = u
              BY <7>3
            <7>5. QED
              BY <3>1, <6>1, <7>4
          <6>3. PICK g \in handled : cursor - Len(ingress) <= g + 1
            BY <1>0, <3>1, <6>2 DEF Nearby
          <6>4. g \in Nat /\ u <= g + 1
            BY <1>n, <3>1, <6>3
          <6>5. q <= g
            BY <3>1, <6>1, <6>4
          <6>6. QED
            BY <6>5
        <5>2. CASE h \in handled
          BY <5>2
        <5>3. QED
          BY <2>3, <5>1, <5>2
      <4>2. out[1] = out'[1]
        <5>1. g \in ToSet(out)
          BY <1>0 DEF Complete
        <5>2. DOMAIN out # {}
          BY <5>1 DEF ToSet
        <5>3. 1 \in DOMAIN out
          BY <2>3, <5>2 DEF Extends
        <5>4. QED
          BY <2>3, <5>3 DEF Extends
      <4>3. QED
        BY <1>0, <2>3, <4>1, <4>2 DEF NoHole
    <3>4. QED
      BY <3>2, <3>3
  <2>4. QED
    BY <2>1, <2>2, <2>3 DEF Moves
<1>5. QED
  BY <1>2, <1>3, <1>4

\* DeliveredInOrder is kept: what was delivered after u would have to be joined to the
\* first update without u.
LEMMA NextInOrder ==
  ASSUME TypeOK, DrainInv, Flow, Forward, Served, Consecutive, Complete, Counted, NoHole,
         DeliveredInOrder, [Next]_vars
  PROVE  DeliveredInOrder'
<1> SUFFICES ASSUME LocalLosses' = 0, NEW i \in DOMAIN out', NEW j \in DOMAIN out', i < j, out'[1] < out'[j]
             PROVE  out'[i] < out'[j]
  BY DEF DeliveredInOrder
<1>0. Past /\ LocalLosses = 0
  BY WholeBefore DEF Flow
<1>n. handled \subseteq Positions /\ Positions \subseteq Nat /\ continuityBreaks \in Nat
  BY Numbers, Losses DEF TypeOK
<1>1. ASSUME UNCHANGED <<handled, out>> PROVE out'[i] < out'[j]
  BY <1>0, <1>1 DEF DeliveredInOrder
<1>2. CASE ~Drain
  BY <1>0, <1>1, <1>2, OnlyDrainDelivers
<1>3. CASE Still
  BY <1>1, <1>3 DEF Still, traffic
<1>4. CASE Drain /\ ~Still
  <2> DEFINE u == Head(ingress)
  <2>1. Moves(u)
    BY <1>4, DrainMoves
  <2> HIDE DEF u
  <2>2. CASE UNCHANGED <<handled, out>>
    BY <1>1, <2>2
  <2>3. CASE u \notin handled /\ handled' = handled \cup {u} /\ Extends(out, u, out')
    <3>1. i \in DOMAIN out /\ 1 \in DOMAIN out /\ (j \in DOMAIN out \/ j = Len(out) + 1)
      BY <2>3 DEF Extends
    <3>2. out'[i] = out[i] /\ out'[1] = out[1]
      BY <2>3, <3>1 DEF Extends
    <3>3. CASE j \in DOMAIN out
      <4>1. out'[j] = out[j]
        BY <2>3, <3>3 DEF Extends
      <4>2. QED
        BY <1>0, <3>1, <3>2, <3>3, <4>1 DEF DeliveredInOrder
    <3>4. CASE j = Len(out) + 1
      <4>1. out'[j] = u /\ u \in Positions /\ u \in ToSet(ingress)
        BY <1>n, <2>1, <2>3, <3>4 DEF Extends, Moves
      <4>2. out[i] \in handled
        BY <2>3, <3>1 DEF Extends, Served
      <4>3. CASE ~Replays
        BY <3>2, <4>1, <4>2, <4>3 DEF Forward
      <4>4. CASE Replays
        <5>1. phase \notin {"finally", "done"}
          BY <2>1 DEF Moves
        <5>2. continuityBreaks = 0
          BY <1>n, <4>4, <5>1 DEF Counted
        <5>3. out[1] < u
          BY <3>2, <4>1
        <5>4. SUFFICES ASSUME ~(out[i] < u) PROVE FALSE
          BY <3>2, <4>1
        <5>5. out[1] \in Nat /\ out[i] \in Nat /\ u \in Nat
          <6>1. out[1] \in handled
            BY <2>3, <3>1 DEF Extends, Served
          <6>2. QED
            BY <1>n, <4>1, <4>2, <6>1
        <5>6. out[1] <= u /\ u <= out[i]
          BY <5>3, <5>4, <5>5
        <5>7. u \in handled
          BY <1>0, <4>1, <4>2, <5>2, <5>6 DEF NoHole, Whole
        <5>8. QED
          BY <2>3, <5>7
      <4>5. QED
        BY <4>3, <4>4
    <3>5. QED
      BY <3>1, <3>3, <3>4
  <2>4. QED
    BY <2>1, <2>2, <2>3 DEF Moves
<1>5. QED
  BY <1>2, <1>3, <1>4

\* As long as the status tells of no break there was one stream, and what was parsed
\* begins with the first update the user got.
First ==
  ~status.broken =>
    /\ phase # "stream" => handled = {} /\ ingress = <<>>
    /\ \A h \in handled : h < cursor /\ out[1] <= h /\ \A v \in ToSet(ingress) : h < v

LEMMA NextFirst ==
  ASSUME TypeOK, DrainInv, Flow, Forward, Served, Consecutive, Complete, Broken, Broken', First, [Next]_vars
  PROVE  First'
<1> SUFFICES ASSUME ~status'.broken
             PROVE  /\ phase' # "stream" => handled' = {} /\ ingress' = <<>>
                    /\ \A h \in handled' : h < cursor' /\ out'[1] <= h /\ \A v \in ToSet(ingress') : h < v
  BY DEF First
<1>0. /\ ~status.broken /\ Past
      /\ phase # "stream" => handled = {} /\ ingress = <<>>
      /\ \A h \in handled : h < cursor /\ out[1] <= h /\ \A v \in ToSet(ingress) : h < v
  BY Sticky DEF First, Flow
<1>n. cursor \in Nat /\ handled \subseteq Positions /\ Positions \subseteq Nat
  BY Numbers DEF TypeOK
<1>m. LocalLosses' = 0 /\ LocalLosses = 0
  <2>1. LocalLosses = 0
    BY <1>0, Losses DEF Broken
  <2>2. ~(LocalLosses' > 0)
    BY DEF Broken
  <2>3. QED
    BY <1>0, <2>1, <2>2, LossStep
<1>s. /\ ~isCancelled' /\ (phase = "stream" => phase' = "stream")
      /\ phase' = "stream" => phase = "stream" \/ WriteOk
  BY LeavingTold
<1>1. CASE Produce \/ Still
  <2>1. UNCHANGED <<handled, cursor, ingress, out>>
    BY <1>1 DEF Produce, Still, traffic, queues, history
  <2>2. QED
    BY <1>0, <1>s, <2>1
<1>2. CASE Cancel
  BY <1>s, <1>2 DEF Cancel
<1>3. CASE WriteOk
  <2>1. phase = "write" /\ UNCHANGED <<handled, ingress>>
    BY <1>3 DEF WriteOk, queues, history
  <2>2. QED
    BY <1>0, <2>1
<1>4. CASE Data
  <2>1. /\ phase = "stream" /\ phase' = "stream" /\ cursor' = cursor + 1 /\ UNCHANGED <<handled, out>>
        /\ ToSet(ingress') \subseteq ToSet(ingress) \cup {cursor}
    BY <1>0, <1>4, DataQueue
  <2>2. ASSUME NEW h \in handled PROVE h < cursor' /\ out[1] <= h /\ \A v \in ToSet(ingress') : h < v
    <3>1. h < cursor /\ out[1] <= h /\ \A v \in ToSet(ingress) : h < v
      BY <1>0
    <3>2. h < cursor'
      BY <1>n, <2>1, <3>1
    <3>3. QED
      BY <2>1, <3>1, <3>2
  <2>3. QED
    BY <2>1, <2>2
<1>5. CASE Drain /\ ~Still
  <2> DEFINE u == Head(ingress)
  <2>1. Moves(u)
    BY <1>m, <1>5, DrainMoves
  <2> HIDE DEF u
  <2>2. phase = "stream" /\ phase' = "stream" /\ cursor' = cursor
    <3>1. ingress # <<>>
      BY <2>1 DEF Moves, ToSet
    <3>2. QED
      BY <1>0, <2>1, <3>1 DEF Moves
  <2>3. \A h \in handled : h < cursor /\ out[1] <= h /\ h < u /\ \A v \in ToSet(ingress') : h < v
    BY <1>0, <2>1 DEF Moves
  <2>4. CASE UNCHANGED <<handled, out>>
    BY <2>2, <2>3, <2>4
  <2>5. CASE handled' = handled \cup {u} /\ Extends(out, u, out')
    <3>1. u \in Nat /\ u < cursor /\ \A v \in ToSet(ingress') : u < v
      BY <1>n, <2>1 DEF Moves
    <3>2. CASE handled = {}
      <4>1. DOMAIN out = {}
        BY <3>2 DEF Served, ToSet
      <4>2. Len(out) = 0 /\ out'[Len(out) + 1] = u
        BY <2>5, <4>1 DEF Extends
      <4>3. out'[1] = u
        BY <4>2
      <4>4. QED
        BY <2>2, <2>5, <3>1, <3>2, <4>3
    <3>3. CASE handled # {}
      <4>1. PICK h \in handled : TRUE
        BY <3>3
      <4>2. h \in ToSet(out)
        BY <1>m DEF Complete
      <4>3. DOMAIN out # {}
        BY <4>2 DEF ToSet
      <4>4. 1 \in DOMAIN out
        BY <2>5, <4>3 DEF Extends
      <4>5. out'[1] = out[1] /\ out[1] \in Nat
        BY <1>n, <2>5, <4>4 DEF Extends, Served
      <4>6. out'[1] <= u
        BY <1>n, <2>3, <3>1, <4>1, <4>5
      <4>7. QED
        BY <2>2, <2>3, <2>5, <3>1, <4>5, <4>6
    <3>4. QED
      BY <3>2, <3>3
  <2>6. QED
    BY <2>1, <2>4, <2>5 DEF Moves
<1>6. QED
  BY <1>1, <1>2, <1>3, <1>4, <1>5, Steps

\* Everything that is kept about losses.
Account == Broken /\ Counted /\ Consecutive /\ Complete /\ Nearby /\ NoHole /\ First

\* Nothing was lost yet when the subscription starts.
LEMMA InitAccount == Init => Account /\ DeliveredInOrder
<1> SUFFICES ASSUME Init PROVE Account /\ DeliveredInOrder
  OBVIOUS
<1>1. /\ handled = {} /\ out = <<>> /\ ingress = <<>> /\ phase = "subscribe" /\ ~isCancelled
      /\ lastParsedSlot = 0 /\ continuityBreaks = 0 /\ parseErrors = 0 /\ ingressDrops = 0 /\ refusals = 0
  BY DEF Init
<1>2. LocalLosses = 0
  BY <1>1 DEF LocalLosses
<1>3. Broken
  BY <1>1, <1>2 DEF Broken, Fresh
<1>4. Counted
  BY <1>1 DEF Counted, Parsed
<1>5. Consecutive /\ Complete /\ Nearby /\ NoHole /\ First
  BY <1>1 DEF Consecutive, Complete, Nearby, NoHole, First
<1>6. DeliveredInOrder
  BY <1>1 DEF DeliveredInOrder
<1>7. QED
  BY <1>3, <1>4, <1>5, <1>6 DEF Account

\* The conjunction of all of them is inductive.
LEMMA AccountHolds ==
  Spec => [](TypeOK /\ Flow /\ Served /\ Account /\ DeliveredInOrder)
<1> DEFINE Streams == TypeOK /\ DrainInv /\ Modes /\ Flow /\ Forward /\ Served
<1>1. Streams /\ Account /\ DeliveredInOrder /\ [Next]_vars => (Account /\ DeliveredInOrder)'
  <2> SUFFICES ASSUME Streams, Account, DeliveredInOrder, [Next]_vars
               PROVE  (Account /\ DeliveredInOrder)'
    OBVIOUS
  <2>0. /\ TypeOK /\ DrainInv /\ Modes /\ Flow /\ Forward /\ Served /\ Past
        /\ Broken /\ Counted /\ Consecutive /\ Complete /\ Nearby /\ NoHole /\ First
    BY DEF Account, Flow
  <2>1. Broken'
    BY <2>0, NextBroken
  <2>2. Counted'
    BY <2>0, NextCounted
  <2>3. Consecutive'
    BY <2>0, NextConsecutive
  <2>4. Complete'
    BY <2>0, NextComplete
  <2>5. Nearby'
    BY <2>0, NextNearby
  <2>6. NoHole'
    BY <2>0, NextNoHole
  <2>7. First'
    BY <2>0, <2>1, NextFirst
  <2>8. DeliveredInOrder'
    BY <2>0, NextInOrder
  <2>9. QED
    BY <2>1, <2>2, <2>3, <2>4, <2>5, <2>6, <2>7, <2>8 DEF Account
<1>2. QED
  BY <1>1, InitAccount, FlowHolds, PTL DEF Spec

\* DeliveredInOrder, for every chain, queue size and number of failures: with no loss
\* inside the process the user sees the updates in chain order, whatever disconnects
\* and replays come in between (except what precedes the first update of all).
THEOREM InChainOrder == Spec => []DeliveredInOrder
<1>1. QED
  BY AccountHolds, PTL

\* GapReported: a hole between two parsed updates is never silent, for every chain,
\* queue, option and provider; and a granted replay leaves none.
THEOREM NoSilentGap == Spec => []GapReported
<1>1. ASSUME TypeOK, Served, Account PROVE GapReported
  <2>0. Broken /\ Complete /\ NoHole /\ First
    BY <1>1 DEF Account
  <2>n. /\ LocalLosses \in Nat /\ continuityBreaks \in Nat
        /\ handled \subseteq Positions /\ Positions \subseteq Nat
    BY <1>1, Losses, Numbers DEF TypeOK
  <2> SUFFICES ASSUME NEW q \in Positions, q \notin ToSet(out), NEW p \in handled, p < q,
                      NEW r \in handled, q < r
               PROVE  status.broken /\ (LocalLosses + continuityBreaks > 0 \/ q < out[1])
    BY DEF GapReported
  <2>1. CASE ~Whole
    <3>1. LocalLosses > 0 \/ continuityBreaks > 0
      BY <2>n, <2>1 DEF Whole
    <3>2. LocalLosses + continuityBreaks > 0
      BY <2>n, <3>1
    <3>3. QED
      BY <2>0, <3>1, <3>2 DEF Broken
  <2>2. CASE Whole
    <3>1. handled \subseteq ToSet(out) /\ ToSet(out) \subseteq handled
      BY <1>1, <2>0, <2>2 DEF Whole, Complete, Served
    <3>2. q \notin handled
      BY <3>1
    <3>3. q <= r /\ p <= q /\ q \in Nat /\ p \in Nat
      BY <2>n
    <3>4. ~(out[1] <= q)
      BY <2>0, <2>2, <3>2, <3>3 DEF NoHole
    <3>5. out[1] \in Nat
      <4>1. p \in ToSet(out)
        BY <3>1
      <4>2. out \in Seq(Positions) /\ out # <<>>
        BY <1>1, <4>1 DEF TypeOK, ToSet
      <4>3. 1 \in DOMAIN out
        BY <4>2, LenProperties, EmptySeq
      <4>4. QED
        BY <2>n, <4>2, <4>3, ElementOfSeq, LenProperties
    <3>6. q < out[1]
      BY <3>3, <3>4, <3>5
    <3>7. status.broken
      <4>1. SUFFICES ASSUME ~status.broken PROVE FALSE
        OBVIOUS
      <4>2. out[1] <= p
        BY <2>0, <4>1 DEF First
      <4>3. QED
        BY <3>3, <3>5, <3>6, <4>2
    <3>8. QED
      BY <3>6, <3>7
  <2>3. QED
    BY <2>1, <2>2
<1>2. QED
  BY <1>1, AccountHolds, PTL

(***************************************************************************)
(* The subscription implements StreamTask: DexLifecycle may put the        *)
(* abstract task in the place of the detailed one.                         *)
(***************************************************************************)

\* Where the task has let go of its stream: after a cancel, and wherever it
\* could end or ask for another one.  While nobody cancels it, a request is only
\* ever written to an open stream.
LetsGo ==
  /\ isCancelled => ~holder
  /\ phase \in {"subscribe", "ended", "drainFailed", "drainEnded", "backoff", "finally", "done"}
       => ~holder
  /\ phase = "write" /\ ~isCancelled => wire = "open"

\* A subscription starts without a stream.
LEMMA InitLetsGo == Init => LetsGo
BY DEF Init, LetsGo

\* No step keeps a stream longer than it may.
LEMMA NextLetsGo == LetsGo /\ [Next]_vars => LetsGo'
<1> SUFFICES ASSUME LetsGo, [Next]_vars PROVE LetsGo'
  OBVIOUS
<1> USE DEF LetsGo
<1>1. CASE Produce
  BY <1>1 DEF Produce, task
<1>2. CASE SubscribeOk
  BY <1>2 DEF SubscribeOk
<1>3. CASE WriteOk
  BY <1>3 DEF WriteOk
<1>4. ASSUME NEW kind, SetupFails(kind) PROVE LetsGo'
  BY <1>4 DEF SetupFails
<1>5. CASE Ping \/ Data
  BY <1>5 DEF Ping, Data
<1>6. ASSUME NEW next \in {"failed", "ended"}, NEW kind, Goodbye(next, kind) PROVE LetsGo'
  <2>1. CASE phase = "stream"
    BY <1>6, <2>1 DEF Goodbye
  <2>2. CASE phase # "stream"
    BY <1>6, <2>2 DEF Goodbye
  <2>3. QED
    BY <2>1, <2>2
<1>7. CASE Drain
  BY <1>7 DEF Drain, transport
<1>8. CASE Catch
  BY <1>8 DEF Catch
<1>9. CASE Ended \/ Drained
  <2>1. holder' = holder /\ isCancelled' = isCancelled
    BY <1>9 DEF Ended, Drained
  <2>2. phase \in {"ended", "drainFailed", "drainEnded"} /\ phase' # "write"
    BY <1>9 DEF Ended, Drained
  <2>3. QED
    BY <2>1, <2>2
<1>10. CASE BackoffOver \/ Finish
  <2>1. holder' = holder /\ isCancelled' = isCancelled
    BY <1>10 DEF BackoffOver, Finish
  <2>2. phase \in {"backoff", "finally"} /\ phase' # "write"
    BY <1>10 DEF BackoffOver, Finish
  <2>3. QED
    BY <2>1, <2>2
<1>11. CASE Cancel
  BY <1>11 DEF Cancel
<1>12. CASE UNCHANGED vars
  BY <1>12 DEF vars, task, transport
<1>13. QED
  BY <1>1, <1>2, <1>3, <1>4, <1>5, <1>6, <1>7, <1>8, <1>9, <1>10, <1>11, <1>12
     DEF Next, Setup, Farewell, Resume, Stopped

\* So it is in every reachable state.
LEMMA LetsGoHolds == Spec => []LetsGo
BY InitLetsGo, NextLetsGo, PTL DEF Spec

\* What a step leaves alone of the task's life.
LEMMA SameLife ==
  ASSUME phase' = phase, isCancelled' = isCancelled, holder' = holder, wire' = wire
  PROVE  Life' = Life
BY DEF Life

\* A task as a record.
LifeAt(at, cancelled, holds, deaf) ==
  [phase |-> at, cancelled |-> cancelled, holder |-> holds, deaf |-> deaf]

Waiting == phase \in {"failed", "ended", "drainFailed", "drainEnded", "backoff", "finally"}

\* What the life is at each place of the task: deaf only with a closed stream.
LifeKnown ==
  /\ phase = "subscribe" => Life = LifeAt("opening", isCancelled, holder, FALSE)
  /\ phase = "write" => Life = LifeAt("writing", isCancelled, holder, wire = "closed")
  /\ phase = "stream" => Life = LifeAt("reading", isCancelled, holder, wire = "closed")
  /\ Waiting => Life = LifeAt("waiting", isCancelled, holder, FALSE)
  /\ phase = "done" => Life = LifeAt("done", isCancelled, holder, FALSE)

\* The five places of the abstract task and what they stand for.
LEMMA LifeNow == LifeKnown
<1>1. phase = "subscribe" => Life = LifeAt("opening", isCancelled, holder, FALSE)
  BY DEF Life, LifeAt
<1>2. phase = "write" => Life = LifeAt("writing", isCancelled, holder, wire = "closed")
  BY DEF Life, LifeAt
<1>3. phase = "stream" => Life = LifeAt("reading", isCancelled, holder, wire = "closed")
  BY DEF Life, LifeAt
<1>4. Waiting => Life = LifeAt("waiting", isCancelled, holder, FALSE)
  BY DEF Life, LifeAt, Waiting
<1>5. phase = "done" => Life = LifeAt("done", isCancelled, holder, FALSE)
  BY DEF Life, LifeAt
<1>6. QED
  BY <1>1, <1>2, <1>3, <1>4, <1>5 DEF LifeKnown

\* The same after a step.
LEMMA LifeThen == LifeKnown'
BY LifeNow, PTL

\* A cancelled task does not keep the stream it gets.
LEMMA OpenedUnwanted ==
  ASSUME NEW h \in BOOLEAN
  PROVE  Client!Opened(LifeAt("opening", TRUE, h, FALSE), LifeAt("waiting", TRUE, h, FALSE))
<1> DEFINE before == LifeAt("opening", TRUE, h, FALSE)
           after  == LifeAt("waiting", TRUE, h, FALSE)
<1>1. before \in Client!Tasks /\ after \in Client!Tasks
  BY DEF LifeAt, Client!Tasks, Client!TaskPhases
<1>2. before.phase = "opening" /\ before.cancelled = TRUE /\ before.holder = h /\ before.deaf = FALSE
  BY DEF LifeAt
<1>3. after.phase = "waiting" /\ after.cancelled = TRUE /\ after.holder = h /\ after.deaf = FALSE
  BY DEF LifeAt
<1> HIDE DEF before, after
<1>4. Client!Opened(before, after)
  BY <1>1, <1>2, <1>3 DEF Client!Opened, Client!Tasks, Client!TaskPhases
<1>5. QED
  BY <1>4 DEF before, after

\* Any other does.
LEMMA OpenedKept ==
  ASSUME NEW h \in BOOLEAN
  PROVE  Client!Opened(LifeAt("opening", FALSE, h, FALSE), LifeAt("writing", FALSE, TRUE, FALSE))
<1> DEFINE before == LifeAt("opening", FALSE, h, FALSE)
           after  == LifeAt("writing", FALSE, TRUE, FALSE)
<1>1. before \in Client!Tasks /\ after \in Client!Tasks
  BY DEF LifeAt, Client!Tasks, Client!TaskPhases
<1>2. before.phase = "opening" /\ before.cancelled = FALSE /\ before.holder = h /\ before.deaf = FALSE
  BY DEF LifeAt
<1>3. after.phase = "writing" /\ after.cancelled = FALSE /\ after.holder = TRUE /\ after.deaf = FALSE
  BY DEF LifeAt
<1> HIDE DEF before, after
<1>4. Client!Opened(before, after)
  BY <1>1, <1>2, <1>3 DEF Client!Opened, Client!Tasks, Client!TaskPhases
<1>5. QED
  BY <1>4 DEF before, after

\* Writing the request changes nothing else.
LEMMA WrittenKeeps ==
  ASSUME NEW c \in BOOLEAN, NEW h \in BOOLEAN, NEW d \in BOOLEAN
  PROVE  Client!Written(LifeAt("writing", c, h, d), LifeAt("reading", c, h, d))
<1> DEFINE before == LifeAt("writing", c, h, d)
           after  == LifeAt("reading", c, h, d)
<1>1. before \in Client!Tasks /\ after \in Client!Tasks
  BY DEF LifeAt, Client!Tasks, Client!TaskPhases
<1>2. before.phase = "writing" /\ before.cancelled = c /\ before.holder = h /\ before.deaf = d
  BY DEF LifeAt
<1>3. after.phase = "reading" /\ after.cancelled = c /\ after.holder = h /\ after.deaf = d
  BY DEF LifeAt
<1> HIDE DEF before, after
<1>4. Client!Written(before, after)
  BY <1>1, <1>2, <1>3 DEF Client!Written, Client!Tasks, Client!TaskPhases
<1>5. QED
  BY <1>4 DEF before, after

\* A setup that fails is forgotten, its deafness with it.
LEMMA LostSetup ==
  ASSUME NEW at \in {"opening", "writing"}, NEW c \in BOOLEAN, NEW h \in BOOLEAN, NEW d \in BOOLEAN
  PROVE  Client!Lost(LifeAt(at, c, h, d), LifeAt("waiting", c, h, FALSE))
<1> DEFINE before == LifeAt(at, c, h, d)
           after  == LifeAt("waiting", c, h, FALSE)
<1>1. before \in Client!Tasks /\ after \in Client!Tasks
  BY DEF LifeAt, Client!Tasks, Client!TaskPhases
<1>2. before.phase = at /\ before.cancelled = c /\ before.holder = h /\ before.deaf = d
  BY DEF LifeAt
<1>3. after.phase = "waiting" /\ after.cancelled = c /\ after.holder = h /\ after.deaf = FALSE
  BY DEF LifeAt
<1> HIDE DEF before, after
<1>4. Client!Lost(before, after)
  BY <1>1, <1>2, <1>3 DEF Client!Lost, Client!Tasks, Client!TaskPhases
<1>5. QED
  BY <1>4 DEF before, after

\* A stream that fails while it is read is let go of at once.
LEMMA LostReading ==
  ASSUME NEW c \in BOOLEAN, NEW h \in BOOLEAN
  PROVE  Client!Lost(LifeAt("reading", c, h, FALSE), LifeAt("waiting", c, FALSE, FALSE))
<1> DEFINE before == LifeAt("reading", c, h, FALSE)
           after  == LifeAt("waiting", c, FALSE, FALSE)
<1>1. before \in Client!Tasks /\ after \in Client!Tasks
  BY DEF LifeAt, Client!Tasks, Client!TaskPhases
<1>2. before.phase = "reading" /\ before.cancelled = c /\ before.holder = h /\ before.deaf = FALSE
  BY DEF LifeAt
<1>3. after.phase = "waiting" /\ after.cancelled = c /\ after.holder = FALSE /\ after.deaf = FALSE
  BY DEF LifeAt
<1> HIDE DEF before, after
<1>4. Client!Lost(before, after)
  BY <1>1, <1>2, <1>3 DEF Client!Lost, Client!Tasks, Client!TaskPhases
<1>5. QED
  BY <1>4 DEF before, after

\* Only a cancelled task goes deaf.
LEMMA DeafenedCancelled ==
  ASSUME NEW h \in BOOLEAN, NEW d \in BOOLEAN
  PROVE  Client!Deafened(LifeAt("writing", TRUE, h, d), LifeAt("writing", TRUE, h, TRUE))
<1> DEFINE before == LifeAt("writing", TRUE, h, d)
           after  == LifeAt("writing", TRUE, h, TRUE)
<1>1. before \in Client!Tasks /\ after \in Client!Tasks
  BY DEF LifeAt, Client!Tasks, Client!TaskPhases
<1>2. before.phase = "writing" /\ before.cancelled = TRUE /\ before.holder = h /\ before.deaf = d
  BY DEF LifeAt
<1>3. after.phase = "writing" /\ after.cancelled = TRUE /\ after.holder = h /\ after.deaf = TRUE
  BY DEF LifeAt
<1> HIDE DEF before, after
<1>4. Client!Deafened(before, after)
  BY <1>1, <1>2, <1>3 DEF Client!Deafened, Client!Tasks, Client!TaskPhases
<1>5. QED
  BY <1>4 DEF before, after

\* The catch branch lets go.
LEMMA LetGoWaiting ==
  ASSUME NEW c \in BOOLEAN, NEW h \in BOOLEAN, NEW d \in BOOLEAN
  PROVE  Client!LetGo(LifeAt("waiting", c, h, d), LifeAt("waiting", c, FALSE, d))
<1> DEFINE before == LifeAt("waiting", c, h, d)
           after  == LifeAt("waiting", c, FALSE, d)
<1>1. before \in Client!Tasks /\ after \in Client!Tasks
  BY DEF LifeAt, Client!Tasks, Client!TaskPhases
<1>2. before.phase = "waiting" /\ before.cancelled = c /\ before.holder = h /\ before.deaf = d
  BY DEF LifeAt
<1>3. after.phase = "waiting" /\ after.cancelled = c /\ after.holder = FALSE /\ after.deaf = d
  BY DEF LifeAt
<1> HIDE DEF before, after
<1>4. Client!LetGo(before, after)
  BY <1>1, <1>2, <1>3 DEF Client!LetGo, Client!Tasks, Client!TaskPhases
<1>5. QED
  BY <1>4 DEF before, after

\* Only a task that was not cancelled and holds nothing asks again.
LEMMA RetryWaiting ==
  ASSUME NEW d \in BOOLEAN
  PROVE  Client!Retry(LifeAt("waiting", FALSE, FALSE, d), LifeAt("opening", FALSE, FALSE, d))
<1> DEFINE before == LifeAt("waiting", FALSE, FALSE, d)
           after  == LifeAt("opening", FALSE, FALSE, d)
<1>1. before \in Client!Tasks /\ after \in Client!Tasks
  BY DEF LifeAt, Client!Tasks, Client!TaskPhases
<1>2. before.phase = "waiting" /\ before.cancelled = FALSE /\ before.holder = FALSE /\ before.deaf = d
  BY DEF LifeAt
<1>3. after.phase = "opening" /\ after.cancelled = FALSE /\ after.holder = FALSE /\ after.deaf = d
  BY DEF LifeAt
<1> HIDE DEF before, after
<1>4. Client!Retry(before, after)
  BY <1>1, <1>2, <1>3 DEF Client!Retry, Client!Tasks, Client!TaskPhases
<1>5. QED
  BY <1>4 DEF before, after

\* A task that holds nothing may end.
LEMMA EndedWaiting ==
  ASSUME NEW c \in BOOLEAN, NEW d \in BOOLEAN
  PROVE  Client!Ended(LifeAt("waiting", c, FALSE, d), LifeAt("done", c, FALSE, d))
<1> DEFINE before == LifeAt("waiting", c, FALSE, d)
           after  == LifeAt("done", c, FALSE, d)
<1>1. before \in Client!Tasks /\ after \in Client!Tasks
  BY DEF LifeAt, Client!Tasks, Client!TaskPhases
<1>2. before.phase = "waiting" /\ before.cancelled = c /\ before.holder = FALSE /\ before.deaf = d
  BY DEF LifeAt
<1>3. after.phase = "done" /\ after.cancelled = c /\ after.holder = FALSE /\ after.deaf = d
  BY DEF LifeAt
<1> HIDE DEF before, after
<1>4. Client!Ended(before, after)
  BY <1>1, <1>2, <1>3 DEF Client!Ended, Client!Tasks, Client!TaskPhases
<1>5. QED
  BY <1>4 DEF before, after

\* A cancel takes the stream away and moves the task nowhere.
LEMMA CancelledAnywhere ==
  ASSUME NEW at \in Client!TaskPhases \ {"done"}, NEW h \in BOOLEAN, NEW d \in BOOLEAN
  PROVE  Client!Cancelled(LifeAt(at, FALSE, h, d), LifeAt(at, TRUE, FALSE, d))
<1> DEFINE before == LifeAt(at, FALSE, h, d)
           after  == LifeAt(at, TRUE, FALSE, d)
<1>1. before \in Client!Tasks /\ after \in Client!Tasks
  BY DEF LifeAt, Client!Tasks, Client!TaskPhases
<1>2. before.phase = at /\ before.cancelled = FALSE /\ before.holder = h /\ before.deaf = d
  BY DEF LifeAt
<1>3. after.phase = at /\ after.cancelled = TRUE /\ after.holder = FALSE /\ after.deaf = d
  BY DEF LifeAt
<1> HIDE DEF before, after
<1>4. Client!Cancelled(before, after)
  BY <1>1, <1>2, <1>3 DEF Client!Cancelled, Client!Tasks, Client!TaskPhases
<1>5. QED
  BY <1>4 DEF before, after

\* The first state is a fresh task.
LEMMA InitLife == Init => Life = Client!Fresh
<1> SUFFICES ASSUME Init PROVE Life = Client!Fresh
  OBVIOUS
<1>1. phase = "subscribe" /\ isCancelled = FALSE /\ holder = FALSE
  BY DEF Init
<1>2. Life = LifeAt("opening", FALSE, FALSE, FALSE)
  BY <1>1, LifeNow DEF LifeKnown
<1>3. QED
  BY <1>2 DEF LifeAt, Client!Fresh

\* Every step is a step of the abstract task, a cancel, or none.
LEMMA NextLife ==
  TypeOK /\ LetsGo /\ [Next]_vars =>
    [Client!TaskStep(Life, Life') \/ Client!Cancelled(Life, Life')]_Life
<1> SUFFICES ASSUME TypeOK, LetsGo, [Next]_vars
             PROVE Client!TaskStep(Life, Life') \/ Client!Cancelled(Life, Life') \/ Life' = Life
  OBVIOUS
<1>a. isCancelled = TRUE \/ isCancelled = FALSE
  BY DEF TypeOK
<1>b. phase \in Phases
  BY DEF TypeOK
<1>c. LifeKnown /\ LifeKnown'
  BY LifeNow, LifeThen
<1>d. isCancelled \in BOOLEAN /\ holder \in BOOLEAN
  BY DEF TypeOK
<1>e. (wire = "closed") \in BOOLEAN
  OBVIOUS
<1>1. CASE Produce \/ Ping \/ Data \/ Drain \/ UNCHANGED vars
  <2>1. phase' = phase /\ isCancelled' = isCancelled /\ holder' = holder /\ wire' = wire
    BY <1>1 DEF Produce, Ping, Data, Drain, vars, task, transport
  <2>2. QED
    BY <2>1, SameLife
<1>2. CASE SubscribeOk
  <2>1. phase = "subscribe" /\ isCancelled' = isCancelled
    BY <1>2 DEF SubscribeOk
  <2>2. Life = LifeAt("opening", isCancelled, holder, FALSE)
    BY <2>1, <1>c DEF LifeKnown
  <2>3. CASE isCancelled = TRUE
    <3>1. phase' = "finally" /\ holder' = holder
      BY <1>2, <2>3 DEF SubscribeOk
    <3>2. Life' = LifeAt("waiting", isCancelled, holder, FALSE)
      BY <2>1, <3>1, <1>c DEF LifeKnown, Waiting
    <3>3. Client!Opened(Life, Life')
      BY <2>2, <2>3, <3>2, <1>d, <1>e, OpenedUnwanted
    <3>4. QED
      BY <3>3 DEF Client!TaskStep
  <2>4. CASE isCancelled = FALSE
    <3>1. phase' = "write" /\ holder' = TRUE /\ wire' = "open"
      BY <1>2, <2>4 DEF SubscribeOk
    <3>2. Life' = LifeAt("writing", isCancelled, TRUE, wire' = "closed")
      BY <2>1, <3>1, <1>c DEF LifeKnown
    <3>3. (wire' = "closed") = FALSE
      BY <3>1
    <3>4. Client!Opened(Life, Life')
      BY <2>2, <2>4, <3>2, <3>3, <1>d, <1>e, OpenedKept
    <3>5. QED
      BY <3>4 DEF Client!TaskStep
  <2>5. QED
    BY <2>3, <2>4, <1>a
<1>3. CASE WriteOk
  <2>1. /\ phase = "write" /\ phase' = "stream" /\ isCancelled' = isCancelled
        /\ holder' = holder /\ wire' = wire
    BY <1>3 DEF WriteOk
  <2>2. Life = LifeAt("writing", isCancelled, holder, wire = "closed")
    BY <2>1, <1>c DEF LifeKnown
  <2>3. Life' = LifeAt("reading", isCancelled, holder, wire = "closed")
    BY <2>1, <1>c DEF LifeKnown
  <2>4. Client!Written(Life, Life')
    BY <2>2, <2>3, <1>d, <1>e, WrittenKeeps
  <2>5. QED
    BY <2>4 DEF Client!TaskStep
<1>4. ASSUME NEW kind, SetupFails(kind)
      PROVE Client!TaskStep(Life, Life') \/ Client!Cancelled(Life, Life') \/ Life' = Life
  <2>1. /\ phase \in {"subscribe", "write"} /\ phase' = "failed" /\ isCancelled' = isCancelled
        /\ holder' = holder
    BY <1>4 DEF SetupFails
  <2>2. PICK at \in {"opening", "writing"}, d \in BOOLEAN : Life = LifeAt(at, isCancelled, holder, d)
    BY <2>1, <1>c, <1>e DEF LifeKnown
  <2>3. Life' = LifeAt("waiting", isCancelled, holder, FALSE)
    BY <2>1, <1>c DEF LifeKnown, Waiting
  <2>4. Client!Lost(Life, Life')
    BY <2>2, <2>3, <1>d, <1>e, LostSetup
  <2>5. QED
    BY <2>4 DEF Client!TaskStep
<1>5. ASSUME NEW next \in {"failed", "ended"}, NEW kind, Goodbye(next, kind)
      PROVE Client!TaskStep(Life, Life') \/ Client!Cancelled(Life, Life') \/ Life' = Life
  <2>0. isCancelled' = isCancelled
    BY <1>5 DEF Goodbye
  <2>1. CASE phase = "stream"
    <3>1. wire \in {"open", "closing"} /\ phase' = next /\ holder' = FALSE
      BY <1>5, <2>1 DEF Goodbye
    <3>2. (wire = "closed") = FALSE
      BY <3>1
    <3>3. Life = LifeAt("reading", isCancelled, holder, FALSE)
      BY <2>1, <3>2, <1>c DEF LifeKnown
    <3>4. Waiting'
      BY <3>1 DEF Waiting
    <3>5. Life' = LifeAt("waiting", isCancelled, FALSE, FALSE)
      BY <2>0, <3>1, <3>4, <1>c DEF LifeKnown
    <3>6. Client!Lost(Life, Life')
      BY <3>3, <3>5, <1>d, <1>e, LostReading
    <3>7. QED
      BY <3>6 DEF Client!TaskStep
  <2>2. CASE phase = "write"
    <3>1. wire = "closing" /\ wire' = "closed" /\ phase' = phase /\ holder' = holder
      BY <1>5, <2>2 DEF Goodbye
    <3>2. isCancelled = TRUE
      BY <2>2, <3>1, <1>a DEF LetsGo
    <3>3. Life = LifeAt("writing", TRUE, holder, wire = "closed")
      BY <2>2, <3>2, <1>c DEF LifeKnown
    <3>4. (wire' = "closed") = TRUE
      BY <3>1
    <3>5. phase' = "write" /\ isCancelled' = TRUE /\ holder' = holder
      BY <2>0, <2>2, <3>1, <3>2
    <3>6. Life' = LifeAt("writing", TRUE, holder, TRUE)
      BY <3>4, <3>5, <1>c DEF LifeKnown
    <3>7. Client!Deafened(Life, Life')
      BY <3>3, <3>6, <1>d, <1>e, DeafenedCancelled
    <3>8. QED
      BY <3>7 DEF Client!TaskStep
  <2>3. CASE phase \notin {"stream", "write"}
    <3>1. phase' = phase /\ holder' = holder
      BY <1>5, <2>3 DEF Goodbye
    <3>2. Life' = Life
      BY <2>0, <2>3, <3>1 DEF Life
    <3>3. QED
      BY <3>2
  <2>4. QED
    BY <2>1, <2>2, <2>3
<1>6. CASE Catch
  <2>1. phase = "failed" /\ isCancelled' = isCancelled
    BY <1>6 DEF Catch
  <2>2. Waiting'
    BY <1>6 DEF Catch, Waiting
  <2>3. Life = LifeAt("waiting", isCancelled, holder, FALSE)
    BY <2>1, <1>c DEF LifeKnown, Waiting
  <2>4. Life' = LifeAt("waiting", isCancelled, holder', FALSE)
    BY <2>1, <2>2, <1>c DEF LifeKnown
  <2>5. holder' = holder \/ holder' = FALSE
    BY <1>6 DEF Catch
  <2>6. Client!LetGo(Life, Life') \/ Life' = Life
    BY <2>3, <2>4, <2>5, <1>d, <1>e, LetGoWaiting
  <2>7. QED
    BY <2>6 DEF Client!TaskStep
<1>7. CASE Ended \/ Drained
  <2>1. isCancelled' = isCancelled /\ holder' = holder /\ Waiting
    BY <1>7 DEF Ended, Drained, Waiting
  <2>2. Waiting'
    BY <1>7 DEF Ended, Drained, Waiting
  <2>3. Life = LifeAt("waiting", isCancelled, holder, FALSE)
    BY <2>1, <1>c DEF LifeKnown
  <2>4. Life' = LifeAt("waiting", isCancelled, holder, FALSE)
    BY <2>1, <2>2, <1>c DEF LifeKnown
  <2>5. QED
    BY <2>3, <2>4
<1>8. CASE BackoffOver
  <2>1. phase = "backoff" /\ isCancelled' = isCancelled /\ holder' = holder
    BY <1>8 DEF BackoffOver
  <2>2. Life = LifeAt("waiting", isCancelled, holder, FALSE)
    BY <2>1, <1>c DEF LifeKnown, Waiting
  <2>3. holder = FALSE
    BY <2>1 DEF LetsGo, TypeOK
  <2>4. CASE isCancelled = TRUE
    <3>1. phase' = "finally"
      BY <1>8, <2>4 DEF BackoffOver, LoopOver
    <3>2. Life' = LifeAt("waiting", isCancelled, holder, FALSE)
      BY <2>1, <3>1, <1>c DEF LifeKnown, Waiting
    <3>3. QED
      BY <2>2, <3>2
  <2>5. CASE isCancelled = FALSE
    <3>1. phase' = "subscribe"
      BY <1>8, <2>5 DEF BackoffOver, LoopOver
    <3>2. Life' = LifeAt("opening", isCancelled, holder, FALSE)
      BY <2>1, <3>1, <1>c DEF LifeKnown
    <3>3. Client!Retry(Life, Life')
      BY <2>2, <2>3, <2>5, <3>2, <1>d, <1>e, RetryWaiting
    <3>4. QED
      BY <3>3 DEF Client!TaskStep
  <2>6. QED
    BY <2>4, <2>5, <1>a
<1>9. CASE Finish
  <2>1. phase = "finally" /\ phase' = "done" /\ isCancelled' = isCancelled /\ holder' = holder
    BY <1>9 DEF Finish
  <2>2. holder = FALSE
    BY <2>1 DEF LetsGo, TypeOK
  <2>3. Life = LifeAt("waiting", isCancelled, FALSE, FALSE)
    BY <2>1, <2>2, <1>c DEF LifeKnown, Waiting
  <2>4. Life' = LifeAt("done", isCancelled, FALSE, FALSE)
    BY <2>1, <2>2, <1>c DEF LifeKnown
  <2>5. Client!Ended(Life, Life')
    BY <2>3, <2>4, <1>d, <1>e, EndedWaiting
  <2>6. QED
    BY <2>5 DEF Client!TaskStep
<1>10. CASE Cancel
  <2>1. phase' = phase /\ isCancelled' = TRUE /\ holder' = FALSE /\ phase # "done"
    BY <1>10 DEF Cancel
  <2>2. isCancelled = FALSE
    BY <1>10, <1>a DEF Cancel
  <2>3. (wire' = "closed") = (wire = "closed")
    BY <1>10 DEF Cancel, CancelStream
  <2>4. CASE phase = "subscribe"
    <3>1. Life = LifeAt("opening", FALSE, holder, FALSE)
      BY <2>2, <2>4, <1>c DEF LifeKnown
    <3>2. Life' = LifeAt("opening", TRUE, FALSE, FALSE)
      BY <2>1, <2>4, <1>c DEF LifeKnown
    <3>3. QED
      BY <1>d, <1>e, <3>1, <3>2, CancelledAnywhere DEF Client!TaskPhases
  <2>5. CASE phase = "write"
    <3>1. Life = LifeAt("writing", FALSE, holder, wire = "closed")
      BY <2>2, <2>5, <1>c DEF LifeKnown
    <3>2. Life' = LifeAt("writing", TRUE, FALSE, wire = "closed")
      BY <2>1, <2>3, <2>5, <1>c DEF LifeKnown
    <3>3. QED
      BY <1>d, <1>e, <3>1, <3>2, CancelledAnywhere DEF Client!TaskPhases
  <2>6. CASE phase = "stream"
    <3>1. Life = LifeAt("reading", FALSE, holder, wire = "closed")
      BY <2>2, <2>6, <1>c DEF LifeKnown
    <3>2. Life' = LifeAt("reading", TRUE, FALSE, wire = "closed")
      BY <2>1, <2>3, <2>6, <1>c DEF LifeKnown
    <3>3. QED
      BY <1>d, <1>e, <3>1, <3>2, CancelledAnywhere DEF Client!TaskPhases
  <2>7. CASE Waiting
    <3>1. Life = LifeAt("waiting", FALSE, holder, FALSE)
      BY <2>2, <2>7, <1>c DEF LifeKnown
    <3>2. Waiting'
      BY <2>1, <2>7 DEF Waiting
    <3>3. Life' = LifeAt("waiting", TRUE, FALSE, FALSE)
      BY <2>1, <3>2, <1>c DEF LifeKnown
    <3>4. QED
      BY <1>d, <1>e, <3>1, <3>3, CancelledAnywhere DEF Client!TaskPhases
  <2>8. QED
    BY <1>b, <2>1, <2>4, <2>5, <2>6, <2>7 DEF Phases, Waiting
<1>11. QED
  BY <1>1, <1>2, <1>3, <1>4, <1>5, <1>6, <1>7, <1>8, <1>9, <1>10
     DEF Next, Setup, Farewell, Resume, Stopped

\* ImplementsStreamTask, for every chain, every queue size and every
\* combination of options: what DexLifecycle assumes of a DEX subscription
\* (startDexEvents) holds of it.
THEOREM TaskRefined == Spec => ImplementsStreamTask
<1>1. Init => Life = Client!Fresh
  BY InitLife
<1>2. TypeOK /\ LetsGo /\ [Next]_vars =>
        [Client!TaskStep(Life, Life') \/ Client!Cancelled(Life, Life')]_Life
  BY NextLife
<1>3. QED
  BY <1>1, <1>2, TypeCorrect, LetsGoHolds, PTL DEF Spec, ImplementsStreamTask
=================================================================================
