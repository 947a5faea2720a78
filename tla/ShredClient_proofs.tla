---------------------------- MODULE ShredClient_proofs ----------------------------
(***************************************************************************)
(* Proofs about the ShredStream client, for every limit of attempts, every  *)
(* queue size and any number of calls, messages and failures.               *)
(***************************************************************************)
EXTENDS ShredClient, SequenceTheorems, TLAPS

(***************************************************************************)
(* Type correctness.  The types fall into three groups: what the client     *)
(* holds, what the loops hold, and what is counted.                         *)
(***************************************************************************)

ClientTypes ==
  /\ budget \in Budgets
  /\ lifecycle \in Seq({"subscribe", "stop"}) /\ stopping \in BOOLEAN /\ caching \in BOOLEAN
  /\ started \in 0 .. MaxCalls /\ activeCall \in 0 .. started
  /\ loopAbort \in 0 .. started /\ loopPromise \in 0 .. started

LoopTypes ==
  /\ phase \in [Subscriptions -> Phases] /\ attempts \in [Subscriptions -> Nat]
  /\ aborted \in [Subscriptions -> BOOLEAN]
  /\ wire \in [Subscriptions -> {"none", "open", "cancelled", "over"}]

DataTypes ==
  /\ receiveStats \in [messages : Nat, events : Nat]
  /\ queue \in [Subscriptions -> 0 .. Cap]
  /\ received \in [Subscriptions -> Nat] /\ accepted \in [Subscriptions -> Nat]
  /\ failedInRow \in [Subscriptions -> Nat]

\* The calls that have not returned fit into the subscriptions there can be,
\* and stopUnlocked runs for the oldest of them.
Room == started + Len(lifecycle) <= MaxCalls /\ (stopping => lifecycle # <<>>)

\* A subscription that has not started has nothing.
Fresh == \A s \in Subscriptions : s > started => phase[s] = "none" /\ wire[s] = "none"

TypeInv == ClientTypes /\ LoopTypes /\ DataTypes /\ Room /\ Fresh

\* The three groups are all there is to TypeOK.
LEMMA Groups == TypeOK <=> ClientTypes /\ LoopTypes /\ DataTypes
BY DEF TypeOK, ClientTypes, LoopTypes, DataTypes

\* The bounds are numbers.
LEMMA Bounds == MaxCalls \in Nat /\ Cap \in Nat \ {0} /\ Budgets \subseteq Nat
BY ClientAssumption

\* A new client is well typed.
LEMMA InitType == Init => TypeInv
<1> SUFFICES ASSUME Init PROVE TypeInv
  OBVIOUS
<1>1. ClientTypes
  <2>1. lifecycle \in Seq({"subscribe", "stop"})
    BY EmptySeq DEF Init
  <2>2. 0 \in 0 .. MaxCalls /\ 0 \in 0 .. 0
    BY Bounds
  <2>3. QED
    BY <2>1, <2>2 DEF Init, ClientTypes
<1>2. LoopTypes
  BY DEF Init, LoopTypes, Zero, Phases
<1>3. DataTypes
  BY Bounds DEF Init, DataTypes, Zero
<1>4. Room
  BY Bounds, EmptySeq DEF Init, Room
<1>5. Fresh
  BY DEF Init, Fresh
<1>6. QED
  BY <1>1, <1>2, <1>3, <1>4, <1>5 DEF TypeInv

\* An actor of a subscription belongs to one that has started.
LEMMA Actor ==
  ASSUME TypeInv, NEW s \in Subscriptions, phase[s] # "none" \/ wire[s] # "none"
  PROVE  s \in 1 .. started
BY Bounds DEF TypeInv, Fresh, ClientTypes, Subscriptions

\* The loop and the stream do this to what the client holds.
LEMMA LoopStep ==
  ASSUME TypeInv, NEW s \in Subscriptions,
         Loop(s) \/ Stream(s)
  PROVE  /\ s \in 1 .. started
         /\ UNCHANGED <<budget, client, aborted>>
         /\ activeCall' \in {0, s, activeCall}
         /\ caching' \in {caching, CachingAfter(s)}
         /\ \E p \in Phases, w \in {"open", "cancelled", "over"}, n \in Nat :
              /\ phase' = [phase EXCEPT ![s] = p]
              /\ wire' = [wire EXCEPT ![s] = w] \/ wire' = wire
              /\ attempts' = [attempts EXCEPT ![s] = n] \/ attempts' = attempts
<1> USE DEF Phases
<1>a. attempts[s] \in Nat /\ phase[s] \in Phases /\ phase \in [Subscriptions -> Phases]
      /\ wire \in [Subscriptions -> {"none", "open", "cancelled", "over"}]
  BY DEF TypeInv, LoopTypes
<1>b. ASSUME NEW n \in Nat, TryAgain(s, n)
      PROVE  /\ activeCall' \in {0, s, activeCall}
             /\ \E p \in Phases, w \in {"open", "cancelled", "over"}, m \in Nat :
                  /\ phase' = [phase EXCEPT ![s] = p]
                  /\ wire' = [wire EXCEPT ![s] = w] \/ wire' = wire
                  /\ attempts' = [attempts EXCEPT ![s] = m] \/ attempts' = attempts
  BY <1>b DEF TryAgain
<1>1. CASE AfterEnd(s)
  BY <1>1, <1>b, Actor DEF AfterEnd, Afresh
<1>2. CASE AfterFailure(s)
  BY <1>2, Actor DEF AfterFailure
<1>3. CASE Wake(s)
  BY <1>3, Actor DEF Wake
<1>4. CASE AfterSleep(s)
  BY <1>4, <1>a, <1>b, Actor DEF AfterSleep
<1>5. CASE Finally(s)
  BY <1>5, Actor DEF Finally
<1>6. ASSUME NEW outcome \in {"ended", "failed"}, Finish(s, outcome)
      PROVE  /\ s \in 1 .. started
             /\ UNCHANGED <<budget, client, aborted>>
             /\ activeCall' \in {0, s, activeCall}
             /\ caching' = caching
             /\ \E p \in Phases, w \in {"open", "cancelled", "over"} :
                  phase' = [phase EXCEPT ![s] = p] /\ wire' = [wire EXCEPT ![s] = w]
             /\ attempts' = attempts
  <2>1. s \in 1 .. started
    BY <1>6, Actor DEF Finish
  <2>2. UNCHANGED <<budget, client, aborted>> /\ caching' = caching /\ attempts' = attempts
    BY <1>6 DEF Finish
  <2>3. activeCall' \in {0, s, activeCall}
    BY <1>6 DEF Finish
  <2>4. \E p \in Phases : phase' = [phase EXCEPT ![s] = p]
    <3>1. CASE phase[s] = "streaming"
      BY <1>6, <3>1 DEF Finish
    <3>2. CASE phase[s] # "streaming"
      BY <1>6, <1>a, <3>2 DEF Finish
    <3>3. QED
      BY <3>1, <3>2
  <2>5. wire' = [wire EXCEPT ![s] = "over"]
    BY <1>6 DEF Finish
  <2>6. QED
    BY <2>1, <2>2, <2>3, <2>4, <2>5
<1>7. CASE StreamEnds(s)
  BY <1>6, <1>7 DEF StreamEnds
<1>8. CASE StreamFails(s)
  BY <1>6, <1>8 DEF StreamFails
<1>9. CASE \E events \in 0 .. 2, throws \in BOOLEAN : Data(s, events, throws)
  <2>1. PICK events \in 0 .. 2, throws \in BOOLEAN : Data(s, events, throws)
    BY <1>9
  <2>2. /\ UNCHANGED <<budget, client, aborted, activeCall, caching>>
        /\ phase' = phase /\ wire' = wire /\ attempts' = attempts
    BY <2>1 DEF Data, loops
  <2>3. s \in 1 .. started
    BY <2>1, Actor DEF Data
  <2>4. phase' = [phase EXCEPT ![s] = phase[s]]
    BY <1>a, <2>2
  <2>5. QED
    BY <1>a, <2>2, <2>3, <2>4
<1>10. QED
  BY <1>1, <1>2, <1>3, <1>4, <1>5, <1>7, <1>8, <1>9 DEF Loop, Stream

\* A step of a loop or a stream keeps the types.
LEMMA LoopKeepsTypes ==
  ASSUME TypeInv, NEW s \in Subscriptions, Loop(s) \/ Stream(s)
  PROVE  ClientTypes' /\ LoopTypes' /\ Room' /\ Fresh'
<1>a. ClientTypes /\ LoopTypes /\ Room /\ Fresh
  BY DEF TypeInv
<1>b. /\ s \in 1 .. started
      /\ UNCHANGED <<budget, client, aborted>>
      /\ activeCall' \in {0, s, activeCall}
      /\ caching' \in {caching, CachingAfter(s)}
  BY LoopStep
<1>c. PICK p \in Phases, w \in {"open", "cancelled", "over"}, n \in Nat :
        /\ phase' = [phase EXCEPT ![s] = p]
        /\ wire' = [wire EXCEPT ![s] = w] \/ wire' = wire
        /\ attempts' = [attempts EXCEPT ![s] = n] \/ attempts' = attempts
  BY LoopStep
<1>1. ClientTypes'
  <2>1. caching' \in BOOLEAN
    BY <1>a, <1>b DEF ClientTypes, CachingAfter
  <2>2. activeCall' \in 0 .. started
    BY <1>a, <1>b, Bounds DEF ClientTypes
  <2>3. QED
    BY <1>a, <1>b, <2>1, <2>2 DEF ClientTypes, client
<1>2. LoopTypes'
  BY <1>a, <1>b, <1>c DEF LoopTypes
<1>3. Room'
  BY <1>a, <1>b DEF Room, client
<1>4. Fresh'
  BY <1>a, <1>b, <1>c, Bounds DEF Fresh, client, LoopTypes, ClientTypes, Subscriptions
<1>5. QED
  BY <1>1, <1>2, <1>3, <1>4

\* A queue that takes what it has room for never outgrows its capacity.
LEMMA PushedFits ==
  ASSUME NEW events \in Nat, NEW held \in 0 .. Cap
  PROVE  Pushed(events, held) \in Nat /\ held + Pushed(events, held) \in 0 .. Cap
BY Bounds DEF Pushed

\* A step of a loop or a stream keeps the types of what is counted.
LEMMA LoopKeepsData ==
  ASSUME TypeInv, NEW s \in Subscriptions, Loop(s) \/ Stream(s)
  PROVE  DataTypes'
<1>a. DataTypes
  BY DEF TypeInv
<1>1. CASE AfterEnd(s)
  BY <1>1, <1>a DEF AfterEnd, data, DataTypes
<1>2. CASE AfterFailure(s) \/ Wake(s) \/ AfterSleep(s) \/ Finally(s)
  BY <1>2, <1>a DEF AfterFailure, Wake, AfterSleep, Finally, data, DataTypes
<1>3. CASE StreamEnds(s)
  BY <1>3, <1>a DEF StreamEnds, Finish, data, DataTypes
<1>4. CASE StreamFails(s)
  BY <1>4, <1>a DEF StreamFails, Finish, data, DataTypes
<1>5. CASE \E events \in 0 .. 2, throws \in BOOLEAN : Data(s, events, throws)
  <2>1. PICK events \in 0 .. 2, throws \in BOOLEAN : Data(s, events, throws)
    BY <1>5
  <2>2. queue[s] \in 0 .. Cap /\ events \in Nat
    BY <1>a DEF DataTypes
  <2>3. queue' \in [Subscriptions -> 0 .. Cap]
    BY <1>a, <2>1, <2>2, PushedFits DEF Data, DataTypes
  <2>4. accepted' \in [Subscriptions -> Nat]
    <3>1. Pushed(events, queue[s]) \in Nat
      BY <2>2, PushedFits
    <3>2. accepted' = [accepted EXCEPT ![s] = @ + Pushed(events, queue[s])]
      BY <2>1 DEF Data
    <3>3. QED
      BY <1>a, <3>1, <3>2 DEF DataTypes
  <2>5. received' \in [Subscriptions -> Nat] /\ failedInRow' \in [Subscriptions -> Nat]
    BY <1>a, <2>1 DEF Data, DataTypes
  <2>6. receiveStats' \in [messages : Nat, events : Nat]
    <3>1. (IF throws THEN 0 ELSE events) \in Nat
      BY <2>2
    <3>2. QED
      BY <1>a, <2>1, <3>1 DEF Data, DataTypes
  <2>7. QED
    BY <2>3, <2>4, <2>5, <2>6 DEF DataTypes
<1>6. QED
  BY <1>1, <1>2, <1>3, <1>4, <1>5 DEF Loop, Stream

\* Every step keeps the types.
LEMMA NextType == TypeInv /\ [Next]_vars => TypeInv'
<1> SUFFICES ASSUME TypeInv, [Next]_vars PROVE TypeInv'
  OBVIOUS
<1>a. ClientTypes /\ LoopTypes /\ DataTypes /\ Room /\ Fresh
  BY DEF TypeInv
<1>1. ASSUME NEW op \in {"subscribe", "stop"}, Call(op) PROVE TypeInv'
  <2>1. /\ lifecycle' \in Seq({"subscribe", "stop"}) /\ lifecycle' # <<>>
        /\ Len(lifecycle') = Len(lifecycle) + 1 /\ Len(lifecycle) \in Nat
    BY <1>a, <1>1, AppendProperties, LenProperties DEF Call, ClientTypes
  <2>2. UNCHANGED <<budget, stopping, loopAbort, loopPromise, started, activeCall, caching, loops,
                    wire, data, failedInRow>>
    BY <1>1 DEF Call
  <2>3. ClientTypes'
    BY <1>a, <2>1, <2>2 DEF ClientTypes
  <2>4. LoopTypes' /\ DataTypes' /\ Fresh'
    BY <1>a, <2>2 DEF LoopTypes, DataTypes, Fresh, loops, data
  <2>5. Room'
    BY <1>a, <1>1, <2>1, <2>2, Bounds DEF Room, Call, ClientTypes
  <2>6. QED
    BY <2>3, <2>4, <2>5 DEF TypeInv
<1>2. CASE BeginStop
  <2>1. ClientTypes'
    <3>1. /\ stopping' = TRUE /\ caching' = FALSE /\ loopAbort' = 0 /\ activeCall' = 0
          /\ UNCHANGED <<budget, lifecycle, loopPromise, started>>
      BY <1>2 DEF BeginStop
    <3>2. 0 \in 0 .. started
      BY <1>a, Bounds DEF ClientTypes
    <3>3. QED
      BY <1>a, <3>1, <3>2 DEF ClientTypes
  <2>2. LoopTypes'
    <3>1. CASE loopAbort = 0
      <4>1. phase' = phase /\ attempts' = attempts /\ aborted' = aborted /\ wire' = wire
        BY <1>2, <3>1 DEF BeginStop, loops
      <4>2. QED
        BY <1>a, <4>1 DEF LoopTypes
    <3>2. CASE loopAbort # 0
      <4>1. loopAbort \in Subscriptions
        BY <1>a, <3>2, Bounds DEF ClientTypes, Subscriptions
      <4>2. Abort(phase[loopAbort]) \in Phases
        BY <1>a, <4>1 DEF LoopTypes, Abort, Phases
      <4>3. phase' = [phase EXCEPT ![loopAbort] = Abort(phase[loopAbort])]
        BY <1>2, <3>2 DEF BeginStop
      <4>4. /\ aborted' = [aborted EXCEPT ![loopAbort] = TRUE]
            /\ attempts' = attempts
        BY <1>2, <3>2 DEF BeginStop
      <4>5. PICK w \in {"none", "open", "cancelled", "over"} :
              wire' = [wire EXCEPT ![loopAbort] = w]
        BY <1>a, <1>2, <3>2, <4>1 DEF BeginStop, LoopTypes, CancelCall
      <4>6. QED
        BY <1>a, <4>2, <4>3, <4>4, <4>5 DEF LoopTypes
    <3>3. QED
      BY <3>1, <3>2
  <2>3. DataTypes'
    BY <1>a, <1>2 DEF BeginStop, DataTypes, data
  <2>4. Room'
    BY <1>a, <1>2 DEF BeginStop, Room
  <2>5. Fresh'
    <3>1. CASE loopAbort = 0
      BY <1>a, <1>2, <3>1 DEF BeginStop, Fresh, loops
    <3>2. CASE loopAbort # 0
      BY <1>a, <1>2, <3>2, Bounds DEF BeginStop, Fresh, ClientTypes, LoopTypes, Subscriptions
    <3>3. QED
      BY <3>1, <3>2
  <2>6. QED
    BY <2>1, <2>2, <2>3, <2>4, <2>5 DEF TypeInv
<1>3. CASE EndStop
  <2>1. /\ lifecycle # <<>>
        /\ lifecycle' \in Seq({"subscribe", "stop"}) /\ Len(lifecycle') = Len(lifecycle) - 1
        /\ Len(lifecycle) \in Nat
    BY <1>a, <1>3, HeadTailProperties, LenProperties DEF EndStop, ClientTypes, Room
  <2>2. /\ budget' = budget /\ ~stopping' /\ stopping' \in BOOLEAN
        /\ queue' = queue /\ received' = received /\ accepted' = accepted
        /\ failedInRow' = failedInRow
    BY <1>3 DEF EndStop
  <2>3. CASE Head(lifecycle) = "stop"
    <3>1. /\ loopPromise' = 0 /\ UNCHANGED <<loopAbort, started, activeCall, receiveStats>>
          /\ caching' = caching /\ phase' = phase /\ attempts' = attempts /\ wire' = wire
          /\ aborted' = aborted
      BY <1>3, <2>3 DEF EndStop, loops
    <3>2. ClientTypes'
      BY <1>a, <2>1, <2>2, <3>1, Bounds DEF ClientTypes
    <3>3. LoopTypes' /\ DataTypes' /\ Fresh'
      BY <1>a, <2>2, <3>1 DEF LoopTypes, DataTypes, Fresh
    <3>4. Room'
      BY <1>a, <2>1, <2>2, <3>1, Bounds DEF Room, ClientTypes
    <3>5. QED
      BY <3>2, <3>3, <3>4 DEF TypeInv
  <2>4. CASE Head(lifecycle) # "stop"
    <3>1. /\ started' = started + 1 /\ loopAbort' = started' /\ loopPromise' = started'
          /\ activeCall' = started' /\ caching' = TRUE /\ receiveStats' = NoStats
          /\ phase' = [phase EXCEPT ![started'] = "streaming"]
          /\ attempts' = [attempts EXCEPT ![started'] = 1]
          /\ wire' = [wire EXCEPT ![started'] = "open"]
          /\ aborted' = aborted
      BY <1>3, <2>4 DEF EndStop
    <3>2. started + 1 \in Subscriptions
      BY <1>a, <2>1, Bounds DEF Room, ClientTypes, Subscriptions
    <3>3. ClientTypes'
      BY <1>a, <2>1, <2>2, <3>1, <3>2, Bounds DEF ClientTypes, Subscriptions
    <3>4. LoopTypes'
      BY <1>a, <3>1, <3>2 DEF LoopTypes, Phases
    <3>5. DataTypes'
      BY <1>a, <2>2, <3>1 DEF DataTypes, NoStats
    <3>6. Room'
      BY <1>a, <2>1, <2>2, <3>1, Bounds DEF Room, ClientTypes
    <3>7. Fresh'
      BY <1>a, <3>1, <3>2, Bounds DEF Fresh, LoopTypes, ClientTypes, Subscriptions
    <3>8. QED
      BY <3>3, <3>4, <3>5, <3>6, <3>7 DEF TypeInv
  <2>5. QED
    BY <2>3, <2>4
<1>4. ASSUME NEW s \in Subscriptions, Pop(s) PROVE TypeInv'
  <2>1. queue' \in [Subscriptions -> 0 .. Cap]
    BY <1>a, <1>4, Bounds DEF Pop, DataTypes
  <2>2. DataTypes'
    BY <1>a, <1>4, <2>1 DEF Pop, DataTypes
  <2>3. ClientTypes' /\ LoopTypes' /\ Room' /\ Fresh'
    BY <1>a, <1>4 DEF Pop, ClientTypes, LoopTypes, Room, Fresh, client, loops
  <2>4. QED
    BY <2>2, <2>3 DEF TypeInv
<1>5. ASSUME NEW s \in Subscriptions, Loop(s) \/ Stream(s) PROVE TypeInv'
  BY <1>5, LoopKeepsTypes, LoopKeepsData DEF TypeInv
<1>6. CASE UNCHANGED vars
  BY <1>a, <1>6 DEF TypeInv, ClientTypes, LoopTypes, DataTypes, Room, Fresh, vars, client, loops, data
<1>7. QED
  BY <1>1, <1>2, <1>3, <1>4, <1>5, <1>6 DEF Next, Lifecycle

\* Every variable of the client keeps its type, and no queue outgrows its capacity
\* whatever the messages bring.
THEOREM TypeCorrect == Spec => []TypeOK
<1>1. TypeInv => TypeOK
  BY Groups DEF TypeInv
<1>2. QED
  BY <1>1, InitType, NextType, PTL DEF Spec

(***************************************************************************)
(* One subscription at a time.  OneAtATime and CachingWithLoop are not      *)
(* inductive: what ties them to the steps is that the two references of the *)
(* client name the newest subscription or nothing, that the abort signal    *)
(* and loopAbort agree, and that an open stream has a loop that is not      *)
(* aborted.                                                                 *)
(***************************************************************************)

\* The references of the client name the newest subscription; once loopPromise
\* is cleared, that one is done too.
References ==
  /\ loopAbort \in {0, started} /\ loopPromise \in {0, started}
  /\ \A s \in Subscriptions : s < started => phase[s] = "done"
  /\ loopPromise = 0 /\ started # 0 => phase[started] = "done"
  /\ stopping => loopAbort = 0

\* The newest subscription is aborted exactly when loopAbort is null; a loop that
\* is aborted has no stream, and an open stream has its loop.
Signals ==
  /\ started # 0 => (aborted[started] <=> loopAbort = 0)
  /\ \A s \in Subscriptions :
       /\ s > started => ~aborted[s]
       /\ phase[s] = "streaming" => ~aborted[s]
       /\ wire[s] = "open" => phase[s] = "streaming"

LoopInv == TypeInv /\ References /\ Signals /\ CachingWithLoop

\* What a step of the loop or the stream of a subscription does to the others,
\* to itself and to the cache.
Moved(s) ==
  /\ \A t \in Subscriptions : t # s => phase'[t] = phase[t] /\ wire'[t] = wire[t]
  /\ phase[s] = "done" => phase'[s] = "done"
  /\ phase'[s] = "streaming" => ~aborted[s]
  /\ wire'[s] = "open" => phase'[s] = "streaming"
  /\ caching' = IF phase'[s] = "done" /\ phase[s] # "done" THEN CachingAfter(s) ELSE caching

\* Every step of a loop or a stream moves like that.
LEMMA LoopMoves ==
  ASSUME LoopInv, NEW s \in Subscriptions, Loop(s) \/ Stream(s)
  PROVE  Moved(s)
<1>a. /\ phase \in [Subscriptions -> Phases]
      /\ wire \in [Subscriptions -> {"none", "open", "cancelled", "over"}]
      /\ phase[s] = "streaming" => ~aborted[s]
      /\ wire[s] = "open" => phase[s] = "streaming"
  BY DEF LoopInv, TypeInv, LoopTypes, Signals
<1>b. ASSUME NEW n \in Nat, TryAgain(s, n), phase[s] \in {"ended", "awake"}, caching' = caching
      PROVE  Moved(s)
  BY <1>a, <1>b DEF TryAgain, Moved
<1>1. CASE AfterEnd(s)
  BY <1>1, <1>b DEF AfterEnd, Afresh
<1>2. CASE AfterFailure(s)
  BY <1>2, <1>a DEF AfterFailure, Moved
<1>3. CASE Wake(s)
  BY <1>3, <1>a DEF Wake, Moved
<1>4. CASE AfterSleep(s)
  <2>1. attempts[s] \in Nat
    BY DEF LoopInv, TypeInv, LoopTypes
  <2>2. QED
    BY <1>4, <1>b, <2>1 DEF AfterSleep
<1>5. CASE Finally(s)
  BY <1>5, <1>a DEF Finally, Moved
<1>6. ASSUME NEW outcome \in {"ended", "failed"}, Finish(s, outcome) PROVE Moved(s)
  <2>1. caching' = caching /\ wire' = [wire EXCEPT ![s] = "over"]
    BY <1>6 DEF Finish
  <2>2. CASE phase[s] = "streaming"
    <3>1. phase' = [phase EXCEPT ![s] = outcome]
      BY <1>6, <2>2 DEF Finish
    <3>2. QED
      BY <1>a, <2>1, <2>2, <3>1 DEF Moved
  <2>3. CASE phase[s] # "streaming"
    <3>1. phase' = phase
      BY <1>6, <1>a, <2>3 DEF Finish
    <3>2. QED
      BY <1>a, <2>1, <2>3, <3>1 DEF Moved
  <2>4. QED
    BY <2>2, <2>3
<1>7. CASE StreamEnds(s) \/ StreamFails(s)
  BY <1>6, <1>7 DEF StreamEnds, StreamFails
<1>8. CASE \E events \in 0 .. 2, throws \in BOOLEAN : Data(s, events, throws)
  <2>1. caching' = caching /\ phase' = phase /\ wire' = wire
    BY <1>8 DEF Data, loops
  <2>2. QED
    BY <1>a, <2>1 DEF Moved
<1>9. QED
  BY <1>1, <1>2, <1>3, <1>4, <1>5, <1>7, <1>8 DEF Loop, Stream

\* A step that leaves the client, the loops, the streams and the cache alone
\* keeps the invariant.
LEMMA LoopInvFrame ==
  ASSUME LoopInv, TypeInv',
         UNCHANGED <<loopAbort, loopPromise, started, stopping, caching, phase, aborted, wire>>
  PROVE  LoopInv'
BY DEF LoopInv, References, Signals, CachingWithLoop

\* A new client has no subscription.
LEMMA InitLoop == Init => LoopInv
<1> SUFFICES ASSUME Init PROVE LoopInv
  OBVIOUS
<1>1. TypeInv
  BY InitType
<1>2. References
  BY Bounds DEF Init, References, Subscriptions
<1>3. Signals
  BY DEF Init, Signals
<1>4. CachingWithLoop
  BY DEF Init, CachingWithLoop
<1>5. QED
  BY <1>1, <1>2, <1>3, <1>4 DEF LoopInv

\* Every step keeps the invariant.
LEMMA NextLoop == LoopInv /\ [Next]_vars => LoopInv'
<1> SUFFICES ASSUME LoopInv, [Next]_vars PROVE LoopInv'
  OBVIOUS
<1>t. TypeInv'
  BY NextType DEF LoopInv
<1>a. /\ TypeInv /\ References /\ Signals /\ CachingWithLoop
      /\ ClientTypes /\ LoopTypes /\ Room /\ Fresh
  BY DEF LoopInv, TypeInv
<1>1. CASE \E op \in {"subscribe", "stop"} : Call(op)
  BY <1>1, <1>t, LoopInvFrame DEF Call, loops
<1>2. CASE BeginStop
  <2>0. /\ started' = started /\ loopPromise' = loopPromise /\ loopAbort' = 0
        /\ caching' = FALSE
    BY <1>2 DEF BeginStop
  <2>1. CASE loopAbort = 0
    <3>1. phase' = phase /\ aborted' = aborted /\ wire' = wire
      BY <1>2, <2>1 DEF BeginStop, loops
    <3>2. References'
      BY <1>a, <2>0, <3>1 DEF References
    <3>3. Signals'
      BY <1>a, <2>0, <2>1, <3>1 DEF Signals
    <3>4. QED
      BY <1>t, <2>0, <3>2, <3>3 DEF LoopInv, CachingWithLoop
  <2>2. CASE loopAbort # 0
    <3>1. loopAbort = started /\ started \in Subscriptions
      BY <1>a, <2>2, Bounds DEF References, ClientTypes, Subscriptions
    <3>2. /\ aborted' = [aborted EXCEPT ![started] = TRUE]
          /\ phase' = [phase EXCEPT ![started] = Abort(phase[started])]
          /\ wire' = [wire EXCEPT ![started] = IF phase[started] = "streaming"
                                                 THEN CancelCall(wire[started]) ELSE wire[started]]
      BY <1>2, <2>2, <3>1 DEF BeginStop
    <3>3. References'
      BY <1>a, <2>0, <2>2, <3>1, <3>2, Bounds DEF References, LoopTypes, ClientTypes, Abort,
         Subscriptions
    <3>4. /\ Abort(phase[started]) # "streaming"
          /\ (IF phase[started] = "streaming" THEN CancelCall(wire[started])
                                                ELSE wire[started]) # "open"
      BY <1>a, <3>1 DEF Signals, Abort, CancelCall
    <3>5. Signals'
      <4>1. started' # 0 => (aborted'[started'] <=> loopAbort' = 0)
        BY <1>a, <2>0, <3>1, <3>2 DEF LoopTypes
      <4>2. ASSUME NEW s \in Subscriptions
            PROVE  /\ s > started' => ~aborted'[s]
                   /\ phase'[s] = "streaming" => ~aborted'[s]
                   /\ wire'[s] = "open" => phase'[s] = "streaming"
        <5>1. CASE s = started
          BY <1>a, <2>0, <3>1, <3>2, <3>4, <5>1, Bounds DEF LoopTypes, ClientTypes
        <5>2. CASE s # started
          <6>1. aborted'[s] = aborted[s] /\ phase'[s] = phase[s] /\ wire'[s] = wire[s]
            BY <1>a, <3>1, <3>2, <5>2 DEF LoopTypes
          <6>2. QED
            BY <1>a, <2>0, <6>1 DEF Signals
        <5>3. QED
          BY <5>1, <5>2
      <4>3. QED
        BY <4>1, <4>2 DEF Signals
    <3>6. QED
      BY <1>t, <2>0, <3>3, <3>5 DEF LoopInv, CachingWithLoop
  <2>3. QED
    BY <2>1, <2>2
<1>3. CASE EndStop
  <2>0. /\ ~stopping' /\ aborted' = aborted /\ loopAbort = 0 /\ ~caching
        /\ \A s \in Subscriptions : s <= started => phase[s] = "done"
    <3>1. ~stopping' /\ aborted' = aborted /\ loopAbort = 0 /\ LoopOver
      BY <1>3, <1>a DEF EndStop, References, loops
    <3>2. ~caching
      BY <1>a, <3>1 DEF CachingWithLoop
    <3>3. started # 0 => phase[started] = "done"
      BY <1>a, <3>1 DEF References, LoopOver
    <3>4. QED
      BY <1>a, <3>1, <3>2, <3>3, Bounds DEF References, ClientTypes, Subscriptions
  <2>1. CASE Head(lifecycle) = "stop"
    <3>1. /\ loopPromise' = 0 /\ loopAbort' = loopAbort /\ started' = started
          /\ caching' = caching /\ phase' = phase /\ wire' = wire
      BY <1>3, <2>1 DEF EndStop, loops
    <3>2. References'
      BY <1>a, <2>0, <3>1, Bounds DEF References, ClientTypes, Subscriptions
    <3>3. Signals'
      BY <1>a, <2>0, <3>1 DEF Signals
    <3>4. QED
      BY <1>t, <2>0, <3>1, <3>2, <3>3 DEF LoopInv, CachingWithLoop
  <2>2. CASE Head(lifecycle) # "stop"
    <3>1. /\ started' = started + 1 /\ loopAbort' = started + 1 /\ loopPromise' = started + 1
          /\ caching' = TRUE
          /\ phase' = [phase EXCEPT ![started + 1] = "streaming"]
          /\ wire' = [wire EXCEPT ![started + 1] = "open"]
      BY <1>3, <2>2 DEF EndStop
    <3>2. started \in Nat /\ started + 1 \in Subscriptions
      <4>1. started' \in 0 .. MaxCalls /\ started \in Nat
        BY <1>t, <1>a, Bounds DEF TypeInv, ClientTypes
      <4>2. QED
        BY <3>1, <4>1, Bounds DEF Subscriptions
    <3>3. References'
      BY <1>a, <2>0, <3>1, <3>2 DEF References, LoopTypes, Subscriptions
    <3>4. Signals'
      <4>1. ~aborted[started + 1]
        BY <1>a, <3>2 DEF Signals
      <4>2. ASSUME NEW s \in Subscriptions
            PROVE  /\ s > started' => ~aborted'[s]
                   /\ phase'[s] = "streaming" => ~aborted'[s]
                   /\ wire'[s] = "open" => phase'[s] = "streaming"
        <5>1. CASE s = started + 1
          BY <1>a, <2>0, <3>1, <3>2, <4>1, <5>1 DEF LoopTypes
        <5>2. CASE s # started + 1
          <6>1. aborted'[s] = aborted[s] /\ phase'[s] = phase[s] /\ wire'[s] = wire[s]
            BY <1>a, <2>0, <3>1, <5>2 DEF LoopTypes
          <6>2. s > started' => s > started
            BY <3>1, <3>2 DEF Subscriptions
          <6>3. QED
            BY <1>a, <6>1, <6>2 DEF Signals
        <5>3. QED
          BY <5>1, <5>2
      <4>3. started' # 0 /\ ~aborted'[started'] /\ loopAbort' # 0
        BY <2>0, <3>1, <3>2, <4>1
      <4>4. QED
        BY <4>2, <4>3 DEF Signals
    <3>5. CachingWithLoop'
      BY <1>a, <3>1, <3>2 DEF CachingWithLoop, LoopTypes
    <3>6. QED
      BY <1>t, <3>3, <3>4, <3>5 DEF LoopInv
  <2>3. QED
    BY <2>1, <2>2
<1>4. ASSUME NEW s \in Subscriptions, Pop(s) PROVE LoopInv'
  BY <1>4, <1>t, LoopInvFrame DEF Pop, client, loops
<1>5. ASSUME NEW s \in Subscriptions, Loop(s) \/ Stream(s) PROVE LoopInv'
  <2>1. Moved(s)
    BY <1>5, LoopMoves
  <2>2. /\ s \in 1 .. started
        /\ UNCHANGED <<loopAbort, loopPromise, started, stopping, aborted>>
    BY <1>5, <1>a, LoopStep DEF client
  <2>3. References'
    BY <1>a, <2>1, <2>2, Bounds DEF References, Moved, ClientTypes, Subscriptions
  <2>4. Signals'
    BY <1>a, <2>1, <2>2 DEF Signals, Moved
  <2>5. CachingWithLoop'
    <3>1. CASE loopAbort = 0
      <4>1. ~caching
        BY <1>a, <3>1 DEF CachingWithLoop
      <4>2. ~caching'
        BY <2>1, <4>1 DEF Moved, CachingAfter
      <4>3. QED
        BY <2>2, <3>1, <4>2 DEF CachingWithLoop
    <3>2. CASE loopAbort = s
      <4>1. s # 0
        BY <2>2, Bounds DEF ClientTypes
      <4>2. CASE phase'[s] = "done" /\ phase[s] # "done"
        <5>1. ~caching'
          BY <2>1, <3>2, <4>2 DEF Moved, CachingAfter
        <5>2. QED
          BY <2>2, <3>2, <4>2, <5>1 DEF CachingWithLoop
      <4>3. CASE ~(phase'[s] = "done" /\ phase[s] # "done")
        <5>1. caching' = caching /\ (phase'[s] = "done" <=> phase[s] = "done")
          BY <2>1, <4>3 DEF Moved
        <5>2. QED
          BY <1>a, <2>2, <3>2, <5>1 DEF CachingWithLoop
      <4>4. QED
        BY <4>2, <4>3
    <3>3. CASE loopAbort # 0 /\ loopAbort # s
      <4>1. loopAbort \in Subscriptions
        BY <1>a, <3>3, Bounds DEF ClientTypes, Subscriptions
      <4>2. phase'[loopAbort] = phase[loopAbort]
        BY <2>1, <3>3, <4>1 DEF Moved
      <4>3. caching' <=> caching
        BY <2>1, <3>3 DEF Moved, CachingAfter
      <4>4. QED
        BY <1>a, <2>2, <3>3, <4>2, <4>3 DEF CachingWithLoop
    <3>4. QED
      BY <3>1, <3>2, <3>3
  <2>6. QED
    BY <1>t, <2>3, <2>4, <2>5 DEF LoopInv
<1>6. CASE UNCHANGED vars
  BY <1>6, <1>t, LoopInvFrame DEF vars, client, loops
<1>7. QED
  BY <1>1, <1>2, <1>3, <1>4, <1>5, <1>6 DEF Next, Lifecycle

\* Every reachable state satisfies the invariant.
LEMMA LoopInvariant == Spec => []LoopInv
BY InitLoop, NextLoop, PTL DEF Spec

\* Subscriptions never overlap, whatever the transport does with a cancelled
\* stream and however the calls of subscribe() and stop() interleave.
THEOREM NeverOverlap == Spec => []OneAtATime
<1>1. LoopInv => OneAtATime
  <2> SUFFICES ASSUME LoopInv, NEW s \in Subscriptions, wire[s] = "open"
               PROVE  s = loopAbort
    BY DEF LoopInv, OneAtATime, References
  <2>1. phase[s] = "streaming" /\ ~aborted[s]
    BY DEF LoopInv, Signals
  <2>2. s = started
    BY <2>1, Actor, Bounds DEF LoopInv, TypeInv, ClientTypes, References, Subscriptions
  <2>3. QED
    BY <2>1, <2>2 DEF LoopInv, References, Signals, Subscriptions
<1>2. QED
  BY <1>1, LoopInvariant, PTL

\* The table cache runs exactly while a loop does that nobody stopped.
THEOREM CacheFollowsLoop == Spec => []CachingWithLoop
<1>1. LoopInv => CachingWithLoop
  BY DEF LoopInv
<1>2. QED
  BY <1>1, LoopInvariant, PTL

(***************************************************************************)
(* What is counted.                                                         *)
(***************************************************************************)

\* Only a message its subscription still wants changes what it received, and
\* only such a message lengthens its queue.
LEMMA Silence ==
  ASSUME TypeInv, [Next]_vars, NEW s \in Subscriptions, aborted[s]
  PROVE  received'[s] = received[s] /\ queue'[s] <= queue[s]
<1>a. /\ received \in [Subscriptions -> Nat] /\ queue \in [Subscriptions -> 0 .. Cap]
      /\ queue[s] \in Int /\ queue[s] <= queue[s]
  BY Bounds DEF TypeInv, DataTypes
<1>1. ASSUME received' = received, queue' = queue
      PROVE  received'[s] = received[s] /\ queue'[s] <= queue[s]
  BY <1>1, <1>a
<1>2. CASE (\E op \in {"subscribe", "stop"} : Call(op)) \/ BeginStop
  BY <1>1, <1>2 DEF Call, BeginStop, data
<1>3. CASE EndStop
  BY <1>1, <1>3 DEF EndStop
<1>4. ASSUME NEW t \in Subscriptions, Pop(t)
      PROVE  received'[s] = received[s] /\ queue'[s] <= queue[s]
  <2>1. received' = received /\ queue' = [queue EXCEPT ![t] = queue[t] - 1]
    BY <1>4 DEF Pop
  <2>2. QED
    BY <1>a, <2>1
<1>5. ASSUME NEW t \in Subscriptions, Loop(t)
      PROVE  received'[s] = received[s] /\ queue'[s] <= queue[s]
  BY <1>1, <1>5 DEF Loop, AfterEnd, AfterFailure, Wake, AfterSleep, Finally, data
<1>6. ASSUME NEW t \in Subscriptions, Stream(t)
      PROVE  received'[s] = received[s] /\ queue'[s] <= queue[s]
  <2>1. CASE StreamEnds(t) \/ StreamFails(t)
    BY <1>1, <2>1 DEF StreamEnds, StreamFails, Finish, data
  <2>2. CASE \E events \in 0 .. 2, throws \in BOOLEAN : Data(t, events, throws)
    <3>1. t # s
      BY <2>2 DEF Data, Listening
    <3>2. QED
      BY <1>a, <2>2, <3>1 DEF Data
  <2>3. QED
    BY <1>6, <2>1, <2>2 DEF Stream
<1>7. CASE UNCHANGED vars
  BY <1>1, <1>7 DEF vars, data
<1>8. QED
  BY <1>2, <1>3, <1>4, <1>5, <1>6, <1>7 DEF Next, Lifecycle

\* Once a subscription is stopped nothing reaches its queue, however late the
\* transport delivers what a cancelled stream still has.
THEOREM StoppedIsSilent == Spec => SilentAfterStop
<1>1. Spec => []TypeInv
  BY InitType, NextType, PTL DEF Spec
<1>2. TypeInv /\ [Next]_vars =>
        [\A s \in Subscriptions : aborted[s] => received'[s] = received[s] /\ queue'[s] <= queue[s]]_vars
  BY Silence
<1>3. QED
  BY <1>1, <1>2, PTL DEF Spec, SilentAfterStop

\* Nothing has been received for a subscription that has not started: with that,
\* the statistics follow the newest.
StatsInv ==
  LoopInv /\ StatsOfNewest /\ \A s \in Subscriptions : s > started => received[s] = 0

\* A message is counted for the newest subscription, because a loop that still
\* listens is the newest.
LEMMA NextStats == StatsInv /\ [Next]_vars => StatsInv'
<1> SUFFICES ASSUME StatsInv, [Next]_vars PROVE StatsInv'
  OBVIOUS
<1>l. LoopInv'
  BY NextLoop DEF StatsInv
<1>a. /\ LoopInv /\ StatsOfNewest /\ TypeInv
      /\ \A s \in Subscriptions : s > started => received[s] = 0
      /\ started \in Nat /\ started <= MaxCalls
      /\ received \in [Subscriptions -> Nat]
  BY Bounds DEF StatsInv, LoopInv, TypeInv, ClientTypes, DataTypes
<1>1. ASSUME UNCHANGED <<started, received, receiveStats>> PROVE StatsInv'
  BY <1>1, <1>a, <1>l DEF StatsInv, StatsOfNewest
<1>2. CASE (\E op \in {"subscribe", "stop"} : Call(op)) \/ BeginStop
  BY <1>1, <1>2 DEF Call, BeginStop, data
<1>3. CASE EndStop
  <2>1. CASE Head(lifecycle) = "stop"
    BY <1>1, <1>3, <2>1 DEF EndStop
  <2>2. CASE Head(lifecycle) # "stop"
    <3>1. started' = started + 1 /\ receiveStats' = NoStats /\ received' = received
      BY <1>3, <2>2 DEF EndStop
    <3>2. started + 1 \in Subscriptions
      BY <1>l, <1>a, <3>1, Bounds DEF LoopInv, TypeInv, ClientTypes, Subscriptions
    <3>3. received[started + 1] = 0
      BY <1>a, <3>2
    <3>4. StatsOfNewest'
      BY <1>a, <3>1, <3>3 DEF StatsOfNewest, NoStats
    <3>5. \A s \in Subscriptions : s > started' => received'[s] = 0
      BY <1>a, <3>1, Bounds DEF Subscriptions
    <3>6. QED
      BY <1>l, <3>4, <3>5 DEF StatsInv
  <2>3. QED
    BY <2>1, <2>2
<1>4. CASE \E s \in Subscriptions : Pop(s)
  BY <1>1, <1>4 DEF Pop, client
<1>5. CASE \E s \in Subscriptions : Loop(s)
  BY <1>1, <1>5 DEF Loop, AfterEnd, AfterFailure, Wake, AfterSleep, Finally, client, data
<1>6. ASSUME NEW s \in Subscriptions, Stream(s) PROVE StatsInv'
  <2>1. CASE StreamEnds(s) \/ StreamFails(s)
    BY <1>1, <2>1 DEF StreamEnds, StreamFails, Finish, client, data
  <2>2. CASE \E events \in 0 .. 2, throws \in BOOLEAN : Data(s, events, throws)
    <3>1. s = started
      BY <1>a, <2>2, Actor, Bounds DEF Data, Listening, LoopInv, References, Subscriptions
    <3>2. /\ received' = [received EXCEPT ![s] = received[s] + 1] /\ started' = started
          /\ receiveStats'.messages = receiveStats.messages + 1
      BY <2>2 DEF Data, client
    <3>3. QED
      BY <1>a, <1>l, <3>1, <3>2 DEF StatsInv, StatsOfNewest, Subscriptions
  <2>3. QED
    BY <1>6, <2>1, <2>2 DEF Stream
<1>7. CASE UNCHANGED vars
  BY <1>1, <1>7 DEF vars, client, data
<1>8. QED
  BY <1>2, <1>3, <1>4, <1>5, <1>6, <1>7 DEF Next, Lifecycle

\* The statistics count the messages of the newest subscription and no other.
THEOREM NewestCounted == Spec => []StatsOfNewest
<1>1. Init => StatsInv
  BY InitLoop DEF Init, StatsInv, StatsOfNewest, Zero
<1>2. StatsInv => StatsOfNewest
  BY DEF StatsInv
<1>3. QED
  BY <1>1, <1>2, NextStats, PTL DEF Spec

(***************************************************************************)
(* The limit of attempts.  attempts is one ahead of the failures while a    *)
(* stream is open and equal to them after one failed, so that a loop stops  *)
(* exactly at the limit.                                                    *)
(***************************************************************************)

OnBudget(s) ==
  /\ budget > 0 => failedInRow[s] <= budget
  /\ phase[s] = "none" => failedInRow[s] = 0
  /\ phase[s] = "streaming" => /\ attempts[s] = failedInRow[s] + 1
                               /\ budget > 0 => failedInRow[s] < budget
  /\ phase[s] \in {"failed", "sleeping", "awake"} => attempts[s] = failedInRow[s]
  /\ phase[s] \in {"finally", "done"} /\ ~aborted[s] => failedInRow[s] = budget

BudgetInv == TypeInv /\ \A s \in Subscriptions : OnBudget(s)

\* What is known of one subscription.
LEMMA Known ==
  ASSUME BudgetInv, NEW s \in Subscriptions
  PROVE  /\ OnBudget(s) /\ budget \in Nat /\ attempts[s] \in Nat /\ failedInRow[s] \in Nat
         /\ phase \in [Subscriptions -> Phases] /\ attempts \in [Subscriptions -> Nat]
         /\ failedInRow \in [Subscriptions -> Nat]
BY Bounds DEF BudgetInv, TypeInv, ClientTypes, LoopTypes, DataTypes

\* A step that leaves a subscription alone keeps its budget.
LEMMA BudgetFrame ==
  ASSUME NEW s, OnBudget(s), budget' = budget, phase'[s] = phase[s], attempts'[s] = attempts[s],
         failedInRow'[s] = failedInRow[s], aborted[s] => aborted'[s]
  PROVE  OnBudget(s)'
BY DEF OnBudget

\* A step of a loop or a stream keeps the budget of its own subscription.
LEMMA LoopBudget ==
  ASSUME BudgetInv, NEW s \in Subscriptions, Loop(s) \/ Stream(s)
  PROVE  OnBudget(s)'
<1>a. /\ OnBudget(s) /\ budget \in Nat /\ attempts[s] \in Nat /\ failedInRow[s] \in Nat
      /\ phase \in [Subscriptions -> Phases] /\ attempts \in [Subscriptions -> Nat]
      /\ failedInRow \in [Subscriptions -> Nat]
  BY Known
<1>b. budget' = budget /\ aborted' = aborted
  BY LoopStep DEF BudgetInv
<1>c. ASSUME NEW n \in Nat, TryAgain(s, n), failedInRow'[s] = n, budget > 0 => n <= budget
      PROVE  OnBudget(s)'
  <2>1. CASE aborted[s] \/ Exhausted(n)
    <3>1. phase'[s] = "finally" /\ (~aborted[s] => n = budget)
      BY <1>a, <1>c, <2>1 DEF TryAgain, Exhausted
    <3>2. QED
      BY <1>a, <1>b, <1>c, <3>1 DEF OnBudget
  <2>2. CASE ~(aborted[s] \/ Exhausted(n))
    <3>1. phase'[s] = "streaming" /\ attempts'[s] = n + 1 /\ (budget > 0 => n < budget)
      BY <1>a, <1>c, <2>2 DEF TryAgain, Exhausted
    <3>2. QED
      BY <1>a, <1>b, <1>c, <3>1 DEF OnBudget
  <2>3. QED
    BY <2>1, <2>2
<1>1. CASE AfterEnd(s)
  <2>1. TryAgain(s, 0) /\ failedInRow'[s] = 0
    BY <1>1, <1>a DEF AfterEnd, Afresh
  <2>2. QED
    BY <1>a, <1>c, <2>1
<1>2. CASE AfterFailure(s)
  <2>1. /\ phase'[s] = (IF aborted[s] THEN "finally" ELSE "sleeping") /\ phase[s] = "failed"
        /\ attempts' = attempts /\ failedInRow' = failedInRow
    BY <1>2, <1>a DEF AfterFailure
  <2>2. QED
    BY <1>a, <1>b, <2>1 DEF OnBudget
<1>3. CASE Wake(s)
  <2>1. /\ phase'[s] = "awake" /\ phase[s] = "sleeping"
        /\ attempts' = attempts /\ failedInRow' = failedInRow
    BY <1>3, <1>a DEF Wake
  <2>2. QED
    BY <1>a, <1>b, <2>1 DEF OnBudget
<1>4. CASE AfterSleep(s)
  <2>1. /\ TryAgain(s, attempts[s]) /\ failedInRow'[s] = attempts[s]
        /\ budget > 0 => attempts[s] <= budget
    BY <1>4, <1>a DEF AfterSleep, OnBudget
  <2>2. QED
    BY <1>a, <1>c, <2>1
<1>5. CASE Finally(s)
  <2>1. /\ phase'[s] = "done" /\ phase[s] = "finally"
        /\ attempts' = attempts /\ failedInRow' = failedInRow
    BY <1>5, <1>a DEF Finally
  <2>2. QED
    BY <1>a, <1>b, <2>1 DEF OnBudget
<1>6. CASE StreamEnds(s)
  <2>1. attempts' = attempts /\ failedInRow' = failedInRow
    BY <1>6 DEF StreamEnds, Finish
  <2>2. CASE phase[s] = "streaming"
    <3>1. phase'[s] = "ended"
      BY <1>6, <1>a, <2>2 DEF StreamEnds, Finish
    <3>2. QED
      BY <1>a, <1>b, <2>1, <3>1 DEF OnBudget
  <2>3. CASE phase[s] # "streaming"
    <3>1. phase'[s] = phase[s]
      BY <1>6, <1>a, <2>3 DEF StreamEnds, Finish
    <3>2. QED
      BY <1>a, <1>b, <2>1, <3>1, BudgetFrame
  <2>4. QED
    BY <2>2, <2>3
<1>7. CASE StreamFails(s)
  <2>1. /\ phase[s] = "streaming" /\ phase'[s] = "failed"
        /\ attempts' = attempts /\ failedInRow'[s] = failedInRow[s] + 1
    BY <1>7, <1>a DEF StreamFails, Finish, Listening
  <2>2. QED
    BY <1>a, <1>b, <2>1 DEF OnBudget
<1>8. CASE \E events \in 0 .. 2, throws \in BOOLEAN : Data(s, events, throws)
  <2>1. phase' = phase /\ attempts' = attempts /\ failedInRow' = failedInRow
    BY <1>8 DEF Data, loops
  <2>2. QED
    BY <1>a, <1>b, <2>1, BudgetFrame
<1>9. QED
  BY <1>1, <1>2, <1>3, <1>4, <1>5, <1>6, <1>7, <1>8 DEF Loop, Stream

\* A step of a loop or a stream leaves the others' budgets alone.
LEMMA OtherBudget ==
  ASSUME BudgetInv, NEW s \in Subscriptions, Loop(s) \/ Stream(s),
         NEW t \in Subscriptions, t # s
  PROVE  OnBudget(t)'
<1>1. budget' = budget /\ aborted' = aborted
  BY LoopStep DEF BudgetInv
<1>2. OnBudget(t) /\ phase'[t] = phase[t] /\ attempts'[t] = attempts[t]
  BY LoopStep, Known DEF BudgetInv, TypeInv, LoopTypes
<1>3. failedInRow'[t] = failedInRow[t]
  <2>1. failedInRow' = failedInRow \/ \E n \in Nat : failedInRow' = [failedInRow EXCEPT ![s] = n]
    BY Known DEF Loop, Stream, AfterEnd, AfterFailure, Wake, AfterSleep, Finally, StreamEnds,
       StreamFails, Data
  <2>2. QED
    BY <2>1, Known
<1>4. QED
  BY <1>1, <1>2, <1>3, BudgetFrame

\* Every step keeps every budget.
LEMMA NextBudget == BudgetInv /\ [Next]_vars => BudgetInv'
<1> SUFFICES ASSUME BudgetInv, [Next]_vars PROVE BudgetInv'
  OBVIOUS
<1>t. TypeInv'
  BY NextType DEF BudgetInv
<1>k. \A s \in Subscriptions : OnBudget(s)
  BY DEF BudgetInv
<1>1. ASSUME UNCHANGED <<budget, phase, attempts, aborted, failedInRow>> PROVE BudgetInv'
  BY <1>1, <1>t, <1>k, BudgetFrame DEF BudgetInv
<1>2. CASE \E op \in {"subscribe", "stop"} : Call(op)
  BY <1>1, <1>2 DEF Call, loops
<1>3. CASE BeginStop
  <2>1. ASSUME NEW s \in Subscriptions PROVE OnBudget(s)'
    <3>a. /\ OnBudget(s) /\ budget' = budget /\ failedInRow' = failedInRow /\ attempts' = attempts
          /\ phase \in [Subscriptions -> Phases] /\ aborted \in [Subscriptions -> BOOLEAN]
      BY <1>3, Known DEF BeginStop, loops, BudgetInv, TypeInv, LoopTypes
    <3>1. CASE loopAbort = s /\ s # 0
      <4>1. phase'[s] = Abort(phase[s]) /\ aborted'[s]
        BY <1>3, <3>a, <3>1 DEF BeginStop
      <4>2. QED
        BY <3>a, <4>1 DEF OnBudget, Abort
    <3>2. CASE loopAbort # s
      <4>1. phase'[s] = phase[s] /\ aborted'[s] = aborted[s]
        BY <1>3, <3>a, <3>2 DEF BeginStop, loops
      <4>2. QED
        BY <3>a, <4>1, BudgetFrame
    <3>3. s # 0
      BY Bounds DEF Subscriptions
    <3>4. QED
      BY <3>1, <3>2, <3>3
  <2>2. QED
    BY <1>t, <2>1 DEF BudgetInv
<1>4. CASE EndStop
  <2>1. CASE Head(lifecycle) = "stop"
    BY <1>1, <1>4, <2>1 DEF EndStop, loops
  <2>2. CASE Head(lifecycle) # "stop"
    <3>1. /\ started' = started + 1 /\ budget' = budget /\ aborted' = aborted
          /\ failedInRow' = failedInRow
          /\ phase' = [phase EXCEPT ![started + 1] = "streaming"]
          /\ attempts' = [attempts EXCEPT ![started + 1] = 1]
      BY <1>4, <2>2 DEF EndStop
    <3>2. ASSUME NEW s \in Subscriptions PROVE OnBudget(s)'
      <4>a. OnBudget(s) /\ budget \in Nat
        BY Known
      <4>b. phase \in [Subscriptions -> Phases] /\ attempts \in [Subscriptions -> Nat]
        BY Known
      <4>1. CASE s = started + 1
        <5>1. phase[s] = "none"
          BY <4>1, Bounds DEF BudgetInv, TypeInv, Fresh, ClientTypes
        <5>2. failedInRow'[s] = 0
          BY <3>1, <4>a, <5>1 DEF OnBudget
        <5>3. phase'[s] = "streaming" /\ attempts'[s] = 1
          BY <3>1, <4>1, <4>b
        <5>4. QED
          BY <3>1, <4>a, <5>2, <5>3 DEF OnBudget
      <4>2. CASE s # started + 1
        BY <3>1, <4>a, <4>b, <4>2, BudgetFrame
      <4>3. QED
        BY <4>1, <4>2
    <3>3. QED
      BY <1>t, <3>2 DEF BudgetInv
  <2>3. QED
    BY <2>1, <2>2
<1>5. CASE \E s \in Subscriptions : Pop(s)
  BY <1>1, <1>5 DEF Pop, loops
<1>6. ASSUME NEW s \in Subscriptions, Loop(s) \/ Stream(s) PROVE BudgetInv'
  BY <1>t, <1>6, LoopBudget, OtherBudget DEF BudgetInv
<1>7. CASE UNCHANGED vars
  BY <1>1, <1>7 DEF vars, loops
<1>8. QED
  BY <1>2, <1>3, <1>4, <1>5, <1>6, <1>7 DEF Next, Lifecycle

\* A loop with a limit gives up after exactly that many failures in a row.
THEOREM BudgetKept == Spec => []GivesUpOnBudget
<1>1. Init => BudgetInv
  <2> SUFFICES ASSUME Init PROVE BudgetInv
    OBVIOUS
  <2>1. ASSUME NEW s \in Subscriptions PROVE OnBudget(s)
    <3>1. phase[s] = "none" /\ failedInRow[s] = 0
      BY DEF Init, Zero
    <3>2. budget \in Nat
      BY Bounds DEF Init
    <3>3. QED
      BY <3>1, <3>2 DEF OnBudget
  <2>2. QED
    BY <2>1, InitType DEF BudgetInv
<1>2. BudgetInv => GivesUpOnBudget
  BY Known DEF OnBudget, GivesUpOnBudget
<1>3. QED
  BY <1>1, <1>2, NextBudget, PTL DEF Spec
===============================================================================
