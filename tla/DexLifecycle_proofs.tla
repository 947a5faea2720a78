-------------------------- MODULE DexLifecycle_proofs --------------------------
(***************************************************************************)
(* Theorems about the client around its subscriptions, for any number of    *)
(* calls, cancels and failures.                                             *)
(***************************************************************************)
EXTENDS DexLifecycle, SequenceTheorems, TLAPS

Attempts == [channel : Nat, outcome : {"flying", "ok", "failed"}]

\* The types the arguments below need.
Types ==
  /\ made \in Seq(Kinds) /\ Len(made) <= MaxCalls
  /\ queue \in Seq(Calls)
  /\ tasks \in [Calls -> Tasks]
  /\ filters \in [Calls -> Calls] /\ sent \in [Calls -> Calls]
  /\ attempts \in Seq(Attempts)
  /\ channel \in Nat /\ connected \in BOOLEAN

\* Whoever works, waits or runs belongs to a call that was made.
Made ==
  /\ \A n \in DOMAIN queue : queue[n] <= Len(made)
  /\ work.at \in {"joining", "connecting", "updating"} => work.call \in Calls /\ work.call <= Len(made)
  /\ \A i \in Calls : Running(i) => i <= Len(made)

\* While a work joins the old subscription or connects for a new one, none is active.
Between == work.at \in {"joining", "connecting"} => activeDex = Nobody

-------------------------------------------------------------------------------
(* What the steps of a task leave alone *)

\* A task that is done stays done, and takes hold of a stream only when it opens one.
LEMMA TaskStepKeeps ==
  ASSUME NEW t \in Tasks, NEW u \in Tasks, TaskStep(t, u)
  PROVE  /\ t.phase # "done"
         /\ u.holder => t.holder \/ t.phase = "opening"
         /\ u.cancelled = t.cancelled
<1>1. CASE Opened(t, u)
  BY <1>1 DEF Opened, Tasks
<1>2. CASE Written(t, u)
  BY <1>2 DEF Written, Tasks
<1>3. CASE Deafened(t, u)
  BY <1>3 DEF Deafened, Tasks
<1>4. CASE Lost(t, u)
  BY <1>4 DEF Lost, Tasks
<1>5. CASE LetGo(t, u)
  BY <1>5 DEF LetGo, Tasks
<1>6. CASE Retry(t, u)
  BY <1>6 DEF Retry, Tasks
<1>7. CASE Ended(t, u)
  BY <1>7 DEF Ended, Tasks
<1>8. QED
  BY <1>1, <1>2, <1>3, <1>4, <1>5, <1>6, <1>7 DEF TaskStep

\* A cancel moves no task, and takes its stream away.
LEMMA CancelledKeeps ==
  ASSUME NEW t \in Tasks, NEW u \in Tasks, Cancelled(t, u)
  PROVE  u.phase = t.phase /\ ~u.holder /\ u.cancelled
BY DEF Cancelled, Tasks

\* Cancelling many tasks at once does the same to each.
LEMMA CancelAllKeeps ==
  ASSUME Types, NEW S
  PROVE  /\ CancelAll(S) \in [Calls -> Tasks]
         /\ \A i \in Calls : CancelAll(S)[i].phase = tasks[i].phase
         /\ \A i \in Calls : CancelAll(S)[i].holder => tasks[i].holder
         /\ \A i \in Calls : tasks[i].cancelled => CancelAll(S)[i].cancelled
         /\ \A i \in Calls : i \in S => tasks[i].phase = "done" \/ CancelAll(S)[i].cancelled
<1>1. ASSUME NEW i \in Calls
      PROVE  /\ CancelAll(S)[i] \in Tasks
             /\ CancelAll(S)[i].phase = tasks[i].phase
             /\ CancelAll(S)[i].holder => tasks[i].holder
             /\ tasks[i].cancelled => CancelAll(S)[i].cancelled
             /\ i \in S => tasks[i].phase = "done" \/ CancelAll(S)[i].cancelled
  <2>1. tasks[i] \in Tasks
    BY DEF Types
  <2>2. CancelAll(S)[i] = IF i \in S /\ tasks[i].phase # "done"
                            THEN [tasks[i] EXCEPT !.cancelled = TRUE, !.holder = FALSE] ELSE tasks[i]
    BY DEF CancelAll
  <2>3. CASE i \in S /\ tasks[i].phase # "done"
    <3>1. CancelAll(S)[i] = [tasks[i] EXCEPT !.cancelled = TRUE, !.holder = FALSE]
      BY <2>2, <2>3
    <3>2. QED
      BY <2>1, <3>1 DEF Tasks
  <2>4. CASE ~(i \in S /\ tasks[i].phase # "done")
    BY <2>1, <2>2, <2>4
  <2>5. QED
    BY <2>3, <2>4
<1>2. CancelAll(S) = [i \in Calls |-> CancelAll(S)[i]]
  BY DEF CancelAll
<1>3. QED
  BY <1>1, <1>2

\* A fresh task is a task, without a stream.
LEMMA FreshTask == Fresh \in Tasks /\ Fresh.holder = FALSE /\ Fresh.cancelled = FALSE /\ Fresh.phase # "done"
BY DEF Fresh, Tasks, TaskPhases

-------------------------------------------------------------------------------
(* Types *)

\* Connecting keeps the attempts a list of attempts.
LEMMA ConnectTypes == Types /\ Connect => attempts' \in Seq(Attempts) /\ channel' \in Nat
<1> SUFFICES ASSUME Types, Connect PROVE attempts' \in Seq(Attempts) /\ channel' \in Nat
  OBVIOUS
<1>1. [channel |-> channel, outcome |-> "flying"] \in Attempts
  BY DEF Types, Attempts
<1>2. attempts \in Seq(Attempts) /\ channel \in Nat
  BY DEF Types
<1>3. channel' = channel
  BY DEF Connect
<1>4. attempts' = attempts \/ attempts' = Append(attempts, [channel |-> channel, outcome |-> "flying"])
  BY DEF Connect
<1>5. Append(attempts, [channel |-> channel, outcome |-> "flying"]) \in Seq(Attempts)
  BY <1>1, <1>2
<1>6. QED
  BY <1>2, <1>3, <1>4, <1>5

\* The first state has the types.
LEMMA InitTypes == Init => Types
<1> SUFFICES ASSUME Init PROVE Types
  OBVIOUS
<1>1. [Fresh EXCEPT !.phase = "done"] \in Tasks
  BY DEF Fresh, Tasks, TaskPhases
<1>2. made \in Seq(Kinds) /\ Len(made) <= MaxCalls
  BY LifecycleAssumption DEF Init
<1>3. queue \in Seq(Calls) /\ attempts \in Seq(Attempts)
  BY DEF Init
<1>4. filters \in [Calls -> Calls] /\ sent \in [Calls -> Calls]
  BY DEF Init
<1>5. tasks \in [Calls -> Tasks]
  BY <1>1 DEF Init
<1>6. channel \in Nat /\ connected \in BOOLEAN
  BY DEF Init
<1>7. QED
  BY <1>2, <1>3, <1>4, <1>5, <1>6 DEF Types

\* Every step keeps them.
LEMMA NextTypes == Types /\ Made /\ [Next]_vars => Types'
<1> SUFFICES ASSUME Types, Made, [Next]_vars PROVE Types'
  OBVIOUS
<1>0. MaxCalls \in Nat
  BY LifecycleAssumption
<1>1. ASSUME NEW kind \in Kinds, Call(kind) PROVE Types'
  <2>1. made' = Append(made, kind) /\ Len(made) < MaxCalls
    BY <1>1 DEF Call
  <2>2. made' \in Seq(Kinds) /\ Len(made') <= MaxCalls
    BY <1>0, <2>1 DEF Types
  <2>3. CASE Chain(kind)
    <3>0. Len(made) \in Nat
      BY DEF Types
    <3>1. Len(made) + 1 \in Calls
      BY <1>0, <2>1, <3>0 DEF Calls
    <3>2. queue' \in Seq(Calls)
      BY <2>3, <3>1 DEF Chain, Types
    <3>3. UNCHANGED <<tasks, filters, sent, attempts, channel>> /\ connected' = connected
      BY <2>3 DEF Chain, subs, link
    <3>4. QED
      BY <2>2, <3>2, <3>3 DEF Types
  <2>4. CASE Unchained(kind)
    <3>1. UNCHANGED <<tasks, filters, sent, queue>>
      BY <2>4 DEF Unchained, subs, chain
    <3>2. connected' = connected
      BY <2>4 DEF Unchained, Connect
    <3>3. attempts' \in Seq(Attempts) /\ channel' \in Nat
      BY <2>4, ConnectTypes DEF Unchained
    <3>4. QED
      BY <2>2, <3>1, <3>2, <3>3 DEF Types
  <2>5. QED
    BY <1>1, <2>3, <2>4 DEF Call
<1>2. ASSUME NEW c \in Calls, Resume(c) PROVE Types'
  <2>1. UNCHANGED <<made, queue, filters, sent, attempts, channel>> /\ connected' = connected
    BY <1>2 DEF Resume, chain, link
  <2>2. tasks' = [tasks EXCEPT ![c] = Fresh] \/ tasks' = tasks
    BY <1>2 DEF Resume
  <2>3. tasks' \in [Calls -> Tasks]
    BY <2>2, FreshTask DEF Types
  <2>4. QED
    BY <2>1, <2>3 DEF Types
<1>3. ASSUME NEW c \in Calls, CancelSubscription(c) PROVE Types'
  <2>1. UNCHANGED <<made, queue, filters, sent, attempts, channel>> /\ connected' = connected
    BY <1>3 DEF CancelSubscription, chain, link
  <2>2. tasks' \in [Calls -> Tasks]
    BY <1>3 DEF CancelSubscription, Types
  <2>3. QED
    BY <2>1, <2>2 DEF Types
<1>4. ASSUME NEW c \in Calls, Task(c) PROVE Types'
  <2>1. UNCHANGED <<made, queue, filters, attempts, channel>> /\ connected' = connected
    BY <1>4 DEF Task, chain, link
  <2>2. tasks' \in [Calls -> Tasks]
    BY <1>4 DEF Task, Types
  <2>3. sent' \in [Calls -> Calls]
    BY <1>4 DEF Task, Types, RequestFilters
  <2>4. QED
    BY <2>1, <2>2, <2>3 DEF Types
<1>5. ASSUME NEW c \in Calls, Connecting(c) PROVE Types'
  <2>1. UNCHANGED <<made, queue, tasks, filters, sent, channel>>
    BY <1>5 DEF Connecting, ConnectReady, ConnectFails, chain, subs
  <2>2. connected' \in BOOLEAN
    BY <1>5 DEF Connecting, ConnectReady, ConnectFails, Types
  <2>3. c \in DOMAIN attempts /\ attempts[c] \in Attempts
    BY <1>5 DEF Connecting, Types, Calls
  <2>4. [attempts[c] EXCEPT !.outcome = "ok"] \in Attempts /\ [attempts[c] EXCEPT !.outcome = "failed"] \in Attempts
    BY <2>3 DEF Attempts
  <2>5. attempts \in Seq(Attempts) /\ c \in 1 .. Len(attempts)
    BY <2>3 DEF Types
  <2>6. \/ attempts' = [attempts EXCEPT ![c] = [attempts[c] EXCEPT !.outcome = "ok"]]
        \/ attempts' = [attempts EXCEPT ![c] = [attempts[c] EXCEPT !.outcome = "failed"]]
    BY <1>5, <2>3 DEF Connecting, ConnectReady, ConnectFails
  <2>7. ASSUME NEW e \in Attempts PROVE [attempts EXCEPT ![c] = e] \in Seq(Attempts)
    BY <2>5, ExceptSeq
  <2>8. attempts' \in Seq(Attempts)
    BY <2>4, <2>6, <2>7
  <2>9. QED
    BY <2>1, <2>2, <2>8 DEF Types
<1>6. CASE Begin
  <2>1. UNCHANGED <<made, attempts, channel>> /\ connected' = connected
    BY <1>6 DEF Begin, link
  <2>2. queue' \in Seq(Calls) /\ Head(queue) \in Calls
    BY <1>6 DEF Begin, Types
  <2>3. CASE BeginUpdate(Head(queue))
    <3>1. tasks' = tasks
      BY <2>3 DEF BeginUpdate
    <3>2. filters' \in [Calls -> Calls]
      BY <2>2, <2>3 DEF BeginUpdate, Types
    <3>3. sent' \in [Calls -> Calls]
      BY <2>2, <2>3 DEF BeginUpdate, Types
    <3>4. QED
      BY <2>1, <2>2, <3>1, <3>2, <3>3 DEF Types
  <2>4. CASE BeginStop(Head(queue))
    <3>1. tasks' \in [Calls -> Tasks]
      BY <2>4, CancelAllKeeps DEF BeginStop
    <3>2. UNCHANGED <<filters, sent>>
      BY <2>4 DEF BeginStop
    <3>3. QED
      BY <2>1, <2>2, <3>1, <3>2 DEF Types
  <2>5. QED
    BY <1>6, <2>3, <2>4 DEF Begin
<1>7. CASE Joined
  <2>1. UNCHANGED <<made, queue, tasks, filters, sent>>
    BY <1>7 DEF Joined, subs
  <2>2. Connect \/ (UNCHANGED <<attempts, channel>> /\ connected' = connected)
    BY <1>7 DEF Joined
  <2>3. connected' = connected
    BY <2>2 DEF Connect
  <2>4. attempts' \in Seq(Attempts) /\ channel' \in Nat
    BY <2>2, ConnectTypes DEF Types
  <2>5. QED
    BY <2>1, <2>3, <2>4 DEF Types
<1>8. CASE StartDex
  <2>1. UNCHANGED <<made, queue, filters, sent, attempts, channel>> /\ connected' = connected
    BY <1>8 DEF StartDex, link
  <2>2. tasks' = [tasks EXCEPT ![work.call] = Fresh] \/ tasks' = tasks
    BY <1>8 DEF StartDex
  <2>3. tasks' \in [Calls -> Tasks]
    BY <2>2, FreshTask DEF Types
  <2>4. QED
    BY <2>1, <2>3 DEF Types
<1>9. CASE Updated
  <2>1. UNCHANGED <<made, queue, tasks, filters, sent, attempts, channel>> /\ connected' = connected
    BY <1>9 DEF Updated, link, subs
  <2>2. QED
    BY <2>1 DEF Types
<1>10. CASE Disconnect
  <2>1. UNCHANGED <<made, queue, filters, sent, attempts>> /\ connected' = FALSE
    BY <1>10 DEF Disconnect, Disconnected
  <2>2. channel' \in Nat
    BY <1>10 DEF Disconnect, Types
  <2>3. tasks' \in [Calls -> Tasks]
    BY <1>10, CancelAllKeeps DEF Disconnect
  <2>4. QED
    BY <2>1, <2>2, <2>3 DEF Types
<1>11. CASE UNCHANGED vars
  <2>1. UNCHANGED <<made, queue, tasks, filters, sent, attempts, channel>> /\ connected' = connected
    BY <1>11 DEF vars, chain, subs, link
  <2>2. QED
    BY <2>1 DEF Types
<1>12. QED
  BY <1>1, <1>2, <1>3, <1>4, <1>5, <1>6, <1>7, <1>8, <1>9, <1>10, <1>11 DEF Next, Works

-------------------------------------------------------------------------------
(* One DEX task at a time *)

\* What runs after a step ran before it, unless a call has just got its task.
StillRunning == \A i \in Calls : Running(i)' => Running(i)

\* Nobody runs at first.
LEMMA InitChain == Init => Made /\ Between /\ OneDexTask
<1> SUFFICES ASSUME Init PROVE Made /\ Between /\ OneDexTask
  OBVIOUS
<1>1. \A i \in Calls : ~Running(i)
  BY DEF Init, Running, Fresh
<1>2. queue = <<>> /\ work.at = "idle"
  BY DEF Init, Idle
<1>3. QED
  BY <1>1, <1>2 DEF Made, Between, OneDexTask

\* A step that starts no task and leaves the chain alone.
LEMMA ChainAlone ==
  ASSUME Types, Made, Between, OneDexTask, StillRunning,
         UNCHANGED <<made, queue, work, activeDex>>
  PROVE  (Made /\ Between /\ OneDexTask)'
<1>1. Made'
  BY DEF Made, StillRunning
<1>2. Between'
  BY DEF Between
<1>3. OneDexTask'
  BY DEF OneDexTask, StillRunning
<1>4. QED
  BY <1>1, <1>2, <1>3

\* No step lets two DEX tasks run.
LEMMA NextChain == Types /\ Made /\ Between /\ OneDexTask /\ [Next]_vars => (Made /\ Between /\ OneDexTask)'
<1> SUFFICES ASSUME Types, Made, Between, OneDexTask, [Next]_vars
             PROVE  (Made /\ Between /\ OneDexTask)'
  OBVIOUS
<1>a. /\ made \in Seq(Kinds) /\ queue \in Seq(Calls) /\ tasks \in [Calls -> Tasks]
      /\ Len(made) \in Nat /\ MaxCalls \in Nat
  BY LifecycleAssumption DEF Types
<1>b. Nobody \notin Calls
  BY <1>a DEF Nobody, Calls
<1>1. ASSUME NEW kind \in Kinds, Call(kind) PROVE (Made /\ Between /\ OneDexTask)'
  <2>1. made' = Append(made, kind) /\ Len(made') = Len(made) + 1
    BY <1>1, <1>a DEF Call
  <2>2. UNCHANGED <<work, activeDex, tasks>>
    BY <1>1 DEF Call, Chain, Unchained, chain, maps, subs
  <2>3. \A n \in DOMAIN queue' : queue'[n] <= Len(made')
    <3>1. queue' = queue \/ queue' = Append(queue, Len(made) + 1)
      BY <1>1 DEF Call, Chain, Unchained, chain
    <3>2. CASE queue' = queue
      BY <1>a, <2>1, <3>2 DEF Made, Calls
    <3>3. CASE queue' = Append(queue, Len(made) + 1)
      <4>1. ASSUME NEW n \in DOMAIN queue' PROVE queue'[n] <= Len(made')
        <5>1. CASE n \in DOMAIN queue
          <6>1. queue'[n] = queue[n] /\ queue[n] \in Calls
            BY <1>a, <3>3, <5>1
          <6>2. queue[n] <= Len(made)
            BY <5>1 DEF Made
          <6>3. QED
            BY <1>a, <2>1, <6>1, <6>2 DEF Calls
        <5>2. CASE n \notin DOMAIN queue
          BY <1>a, <2>1, <3>3, <4>1, <5>2
        <5>3. QED
          BY <5>1, <5>2
      <4>2. QED
        BY <4>1
    <3>4. QED
      BY <3>1, <3>2, <3>3
  <2>4. \A i \in Calls : i <= Len(made) => i <= Len(made') /\ made'[i] = made[i]
    BY <1>a, <2>1 DEF Calls
  <2>5. Made'
    BY <2>2, <2>3, <2>4 DEF Made, Running
  <2>6. Between'
    BY <2>2 DEF Between
  <2>7. OneDexTask'
    BY <2>2, <2>4 DEF OneDexTask, Running, Made
  <2>8. QED
    BY <2>5, <2>6, <2>7
<1>2. ASSUME NEW c \in Calls, Resume(c) PROVE (Made /\ Between /\ OneDexTask)'
  <2>1. UNCHANGED <<made, queue, work, activeDex>>
    BY <1>2 DEF Resume, chain
  <2>2. c <= Len(made) /\ (tasks' = tasks \/ (made[c] = "raw" /\ tasks' = [tasks EXCEPT ![c] = Fresh]))
    BY <1>2 DEF Resume, Resumable
  <2>3. \A i \in Calls : Running(i)' => Running(i) \/ (i = c /\ made[c] = "raw")
    BY <1>a, <2>2 DEF Running
  <2>4. Made'
    BY <2>1, <2>2, <2>3 DEF Made
  <2>5. Between'
    BY <2>1 DEF Between
  <2>6. OneDexTask'
    BY <2>1, <2>3 DEF OneDexTask
  <2>7. QED
    BY <2>4, <2>5, <2>6
<1>3. ASSUME NEW c \in Calls, CancelSubscription(c) PROVE (Made /\ Between /\ OneDexTask)'
  <2>1. UNCHANGED <<made, queue, work, activeDex>>
    BY <1>3 DEF CancelSubscription, chain
  <2>2. PICK u \in Tasks : Cancelled(tasks[c], u) /\ tasks' = [tasks EXCEPT ![c] = u]
    BY <1>3 DEF CancelSubscription
  <2>3. u.phase = tasks[c].phase
    BY <1>a, <2>2, CancelledKeeps
  <2>4. StillRunning
    BY <1>a, <2>2, <2>3 DEF StillRunning, Running
  <2>5. QED
    BY <2>1, <2>4, ChainAlone
<1>4. ASSUME NEW c \in Calls, Task(c) PROVE (Made /\ Between /\ OneDexTask)'
  <2>1. UNCHANGED <<made, queue, work, activeDex>>
    BY <1>4 DEF Task, chain
  <2>2. PICK u \in Tasks : TaskStep(tasks[c], u) /\ tasks' = [tasks EXCEPT ![c] = u]
    BY <1>4 DEF Task
  <2>3. tasks[c].phase # "done"
    BY <1>a, <2>2, TaskStepKeeps
  <2>4. StillRunning
    BY <1>a, <2>2, <2>3 DEF StillRunning, Running
  <2>5. QED
    BY <2>1, <2>4, ChainAlone
<1>5. ASSUME NEW c \in Calls, Connecting(c) PROVE (Made /\ Between /\ OneDexTask)'
  <2>1. UNCHANGED <<made, queue, work, activeDex, tasks>>
    BY <1>5 DEF Connecting, ConnectReady, ConnectFails, chain, maps, subs
  <2>2. StillRunning
    BY <2>1 DEF StillRunning, Running
  <2>3. QED
    BY <2>1, <2>2, ChainAlone
<1>6. CASE Begin
  <2>1. made' = made /\ queue # <<>> /\ queue' = Tail(queue) /\ work.at = "idle"
    BY <1>6 DEF Begin, Idle
  <2>2. Head(queue) \in Calls /\ Head(queue) <= Len(made)
    BY <1>a, <2>1 DEF Made
  <2>3. \A n \in DOMAIN queue' : queue'[n] <= Len(made)
    <3>1. ASSUME NEW n \in DOMAIN queue' PROVE queue'[n] <= Len(made)
      <4>1. n + 1 \in DOMAIN queue /\ queue'[n] = queue[n + 1]
        BY <1>a, <2>1, <3>1
      <4>2. QED
        BY <4>1 DEF Made
    <3>2. QED
      BY <3>1
  <2>4. CASE BeginUpdate(Head(queue))
    <3>1. UNCHANGED <<activeDex, tasks>>
      BY <2>4 DEF BeginUpdate
    <3>2. work' = work \/ (work'.at = "updating" /\ work'.call = Head(queue))
      BY <2>4 DEF BeginUpdate
    <3>3. Made'
      BY <2>1, <2>2, <2>3, <3>1, <3>2 DEF Made, Running
    <3>4. Between'
      BY <2>1, <3>1, <3>2 DEF Between
    <3>5. OneDexTask'
      BY <2>1, <3>1, <3>2 DEF OneDexTask, Running
    <3>6. QED
      BY <3>3, <3>4, <3>5
  <2>5. CASE BeginStop(Head(queue))
    <3>1. work'.call = Head(queue) /\ work'.at = "joining" /\ work'.on = activeDex /\ activeDex' = Nobody
      BY <2>5 DEF BeginStop
    <3>2. StillRunning
      BY <2>5, CancelAllKeeps DEF BeginStop, StillRunning, Running
    <3>3. Made'
      BY <2>1, <2>2, <2>3, <3>1, <3>2 DEF Made, StillRunning
    <3>4. Between'
      BY <3>1 DEF Between
    <3>5. \A i \in Calls : Running(i) /\ made[i] = "subscribe" => i = activeDex
      BY <2>1 DEF OneDexTask
    <3>6. OneDexTask'
      BY <2>1, <3>1, <3>2, <3>5 DEF OneDexTask, StillRunning
    <3>7. QED
      BY <3>3, <3>4, <3>6
  <2>6. QED
    BY <1>6, <2>4, <2>5 DEF Begin
<1>7. CASE Joined
  <2>1. UNCHANGED <<made, queue, activeDex, tasks>> /\ work.at = "joining"
    BY <1>7 DEF Joined, maps, subs
  <2>2. work' = Idle \/ (work'.at = "connecting" /\ work'.call = work.call)
    BY <1>7 DEF Joined
  <2>3. work'.at \in {"idle", "connecting"}
    BY <2>2 DEF Idle
  <2>4. work'.at = "connecting" => work'.call = work.call
    BY <2>2 DEF Idle
  <2>5. \A i \in Calls : made[i] = "subscribe" => ~Running(i)
    <3>1. ASSUME NEW i \in Calls, made[i] = "subscribe", Running(i) PROVE FALSE
      <4>1. i # activeDex
        BY <1>b, <2>1, <3>1 DEF Between
      <4>2. work.on = i
        BY <3>1, <4>1 DEF OneDexTask
      <4>3. tasks[i].phase = "done"
        BY <1>7, <1>b, <3>1, <4>2 DEF Joined, JoinDone
      <4>4. QED
        BY <3>1, <4>3 DEF Running
    <3>2. QED
      BY <3>1
  <2>6. Made'
    BY <2>1, <2>3, <2>4 DEF Made, Running
  <2>7. Between'
    BY <2>1 DEF Between
  <2>8. OneDexTask'
    BY <2>1, <2>5 DEF OneDexTask, Running
  <2>9. QED
    BY <2>6, <2>7, <2>8
<1>8. CASE StartDex
  <2>1. UNCHANGED <<made, queue>> /\ work'.at = "idle" /\ work.at = "connecting"
    BY <1>8 DEF StartDex, Idle
  <2>2. \A i \in Calls : made[i] = "subscribe" => ~Running(i)
    BY <1>b, <2>1 DEF OneDexTask, Between
  <2>3. CASE tasks' = tasks /\ activeDex' = activeDex
    <3>1. Made'
      BY <2>1, <2>3 DEF Made, Running
    <3>2. Between'
      BY <2>1 DEF Between
    <3>3. OneDexTask'
      BY <2>1, <2>2, <2>3 DEF OneDexTask, Running
    <3>4. QED
      BY <3>1, <3>2, <3>3
  <2>4. CASE tasks' = [tasks EXCEPT ![work.call] = Fresh] /\ activeDex' = work.call
    <3>1. work.call \in Calls /\ work.call <= Len(made)
      BY <2>1 DEF Made
    <3>2. \A i \in Calls : Running(i)' => Running(i) \/ i = work.call
      BY <1>a, <2>4 DEF Running
    <3>3. Made'
      BY <2>1, <3>1, <3>2 DEF Made
    <3>4. Between'
      BY <2>1 DEF Between
    <3>5. OneDexTask'
      BY <2>1, <2>2, <2>4, <3>2 DEF OneDexTask
    <3>6. QED
      BY <3>3, <3>4, <3>5
  <2>5. QED
    BY <1>8, <2>3, <2>4 DEF StartDex
<1>9. CASE Updated
  <2>1. UNCHANGED <<made, queue, activeDex, tasks>> /\ work.at = "updating" /\ work'.at = "idle"
    BY <1>9 DEF Updated, Idle, maps, subs
  <2>2. Made'
    BY <2>1 DEF Made, Running
  <2>3. Between'
    BY <2>1 DEF Between
  <2>4. OneDexTask'
    BY <2>1 DEF OneDexTask, Running
  <2>5. QED
    BY <2>2, <2>3, <2>4
<1>10. CASE Disconnect
  <2>1. UNCHANGED <<made, queue, work, activeDex>>
    BY <1>10 DEF Disconnect
  <2>2. StillRunning
    BY <1>10, CancelAllKeeps DEF Disconnect, StillRunning, Running
  <2>3. QED
    BY <2>1, <2>2, ChainAlone
<1>11. CASE UNCHANGED vars
  <2>1. UNCHANGED <<made, queue, work, activeDex, tasks>>
    BY <1>11 DEF vars, chain, maps, subs
  <2>2. StillRunning
    BY <2>1 DEF StillRunning, Running
  <2>3. QED
    BY <2>1, <2>2, ChainAlone
<1>12. QED
  BY <1>1, <1>2, <1>3, <1>4, <1>5, <1>6, <1>7, <1>8, <1>9, <1>10, <1>11 DEF Next, Works

\* The types and the chain hold together: a step keeps each only with the other.
LEMMA ChainHolds == Spec => [](Types /\ Made /\ Between /\ OneDexTask)
<1>1. Init => Types /\ Made /\ Between /\ OneDexTask
  BY InitTypes, InitChain
<1>2. Types /\ Made /\ Between /\ OneDexTask /\ [Next]_vars => (Types /\ Made /\ Between /\ OneDexTask)'
  BY NextTypes, NextChain
<1>3. QED
  BY <1>1, <1>2, PTL DEF Spec

\* OneDexTask, for any number of calls: subscribeDexEvents and the chain of
\* withDexLifecycle never let two DEX tasks run at once.
THEOREM NeverTwo == Spec => []OneDexTask
BY ChainHolds, PTL

-------------------------------------------------------------------------------
(* Filters and streams *)

\* No task holds a stream at first.
LEMMA InitFilters == Init => FiltersReachServer
<1> SUFFICES ASSUME Init PROVE FiltersReachServer
  OBVIOUS
<1>1. filters = sent
  BY DEF Init
<1>2. QED
  BY <1>1 DEF FiltersReachServer

\* A step that gives no task a stream and leaves the filters alone.
LEMMA FiltersAlone ==
  ASSUME FiltersReachServer, UNCHANGED <<filters, sent>>,
         \A i \in Calls : tasks'[i].holder => tasks[i].holder
  PROVE  FiltersReachServer'
BY DEF FiltersReachServer

\* Whoever holds a stream asked for its newest filters on it.
LEMMA NextFilters == Types /\ Made /\ FiltersReachServer /\ [Next]_vars => FiltersReachServer'
<1> SUFFICES ASSUME Types, Made, FiltersReachServer, [Next]_vars PROVE FiltersReachServer'
  OBVIOUS
<1>a. /\ tasks \in [Calls -> Tasks] /\ filters \in [Calls -> Calls] /\ sent \in [Calls -> Calls]
      /\ queue \in Seq(Calls)
  BY DEF Types
<1>1. CASE \/ \E kind \in Kinds : Call(kind)
           \/ \E c \in Calls : Connecting(c)
           \/ Joined \/ Updated \/ UNCHANGED vars
  <2>1. UNCHANGED <<filters, sent, tasks>>
    BY <1>1 DEF Call, Chain, Unchained, Connecting, ConnectReady, ConnectFails, Joined, Updated, vars, subs
  <2>2. QED
    BY <2>1, FiltersAlone
<1>2. ASSUME NEW c \in Calls, Resume(c) PROVE FiltersReachServer'
  <2>1. UNCHANGED <<filters, sent>> /\ (tasks' = tasks \/ tasks' = [tasks EXCEPT ![c] = Fresh])
    BY <1>2 DEF Resume
  <2>2. \A i \in Calls : tasks'[i].holder => tasks[i].holder
    BY <1>a, <2>1, FreshTask
  <2>3. QED
    BY <2>1, <2>2, FiltersAlone
<1>3. ASSUME NEW c \in Calls, CancelSubscription(c) PROVE FiltersReachServer'
  <2>1. UNCHANGED <<filters, sent>>
    BY <1>3 DEF CancelSubscription
  <2>2. PICK u \in Tasks : Cancelled(tasks[c], u) /\ tasks' = [tasks EXCEPT ![c] = u]
    BY <1>3 DEF CancelSubscription
  <2>3. ~u.holder
    BY <1>a, <2>2, CancelledKeeps
  <2>4. \A i \in Calls : tasks'[i].holder => tasks[i].holder
    BY <1>a, <2>2, <2>3
  <2>5. QED
    BY <2>1, <2>4, FiltersAlone
<1>4. ASSUME NEW c \in Calls, Task(c) PROVE FiltersReachServer'
  <2>1. PICK u \in Tasks : TaskStep(tasks[c], u) /\ tasks' = [tasks EXCEPT ![c] = u]
    BY <1>4 DEF Task
  <2>2. tasks'[c] = u /\ \A i \in Calls : i # c => tasks'[i] = tasks[i]
    BY <1>a, <2>1
  <2>3. filters' = filters
    BY <1>4 DEF Task
  <2>4. CASE tasks[c].phase = "opening" /\ u.holder
    <3>1. sent' = [sent EXCEPT ![c] = filters[c]]
      BY <1>4, <2>2, <2>4 DEF Task, RequestFilters
    <3>2. QED
      BY <1>a, <2>2, <2>3, <3>1 DEF FiltersReachServer
  <2>5. CASE ~(tasks[c].phase = "opening" /\ u.holder)
    <3>1. sent' = sent
      BY <1>4, <2>2, <2>5 DEF Task
    <3>2. u.holder => tasks[c].holder
      BY <1>a, <2>1, <2>5, TaskStepKeeps
    <3>3. \A i \in Calls : tasks'[i].holder => tasks[i].holder
      BY <2>2, <3>2
    <3>4. QED
      BY <2>3, <3>1, <3>3, FiltersAlone
  <2>6. QED
    BY <2>4, <2>5
<1>5. CASE Begin
  <2>1. CASE BeginUpdate(Head(queue))
    <3>1. tasks' = tasks
      BY <2>1 DEF BeginUpdate
    <3>2. CASE UNCHANGED <<filters, sent>>
      BY <3>1, <3>2, FiltersAlone
    <3>3. CASE dexSubscribers # <<>>
      <4> DEFINE i == Head(dexSubscribers)
                 c == Head(queue)
      <4>1. filters' = [filters EXCEPT ![i] = c]
        BY <2>1, <3>3 DEF BeginUpdate
      <4>2. CASE tasks[i].holder
        <5>1. sent' = [sent EXCEPT ![i] = c]
          BY <2>1, <3>3, <4>2 DEF BeginUpdate
        <5> HIDE DEF i, c
        <5>2. QED
          BY <1>a, <3>1, <4>1, <5>1 DEF FiltersReachServer
      <4>3. CASE ~tasks[i].holder
        <5>1. sent' = sent
          BY <2>1, <3>3, <4>3 DEF BeginUpdate
        <5> HIDE DEF i, c
        <5>2. QED
          BY <1>a, <3>1, <4>1, <4>3, <5>1 DEF FiltersReachServer
      <4>4. QED
        BY <4>2, <4>3
    <3>4. QED
      BY <2>1, <3>2, <3>3 DEF BeginUpdate
  <2>2. CASE BeginStop(Head(queue))
    <3>1. UNCHANGED <<filters, sent>> /\ tasks' = CancelAll(StopTarget)
      BY <2>2 DEF BeginStop
    <3>2. QED
      BY <3>1, CancelAllKeeps, FiltersAlone
  <2>3. QED
    BY <1>5, <2>1, <2>2 DEF Begin
<1>6. CASE StartDex
  <2>1. UNCHANGED <<filters, sent>> /\ (tasks' = tasks \/ tasks' = [tasks EXCEPT ![work.call] = Fresh])
    BY <1>6 DEF StartDex
  <2>2. \A i \in Calls : tasks'[i].holder => tasks[i].holder
    BY <1>a, <2>1, FreshTask
  <2>3. QED
    BY <2>1, <2>2, FiltersAlone
<1>7. CASE Disconnect
  <2>1. UNCHANGED <<filters, sent>> /\ tasks' = CancelAll(Everybody)
    BY <1>7 DEF Disconnect
  <2>2. QED
    BY <2>1, CancelAllKeeps, FiltersAlone
<1>8. QED
  BY <1>1, <1>2, <1>3, <1>4, <1>5, <1>6, <1>7 DEF Next, Works

\* FiltersReachServer, for any number of calls: however updateSubscription falls
\* between reconnects, requests and cancels, an open stream has the newest filters.
THEOREM FiltersReach == Spec => []FiltersReachServer
<1>1. Init => FiltersReachServer
  BY InitFilters
<1>2. Types /\ Made /\ FiltersReachServer /\ [Next]_vars => FiltersReachServer'
  BY NextFilters
<1>3. QED
  BY <1>1, <1>2, ChainHolds, PTL DEF Spec

-------------------------------------------------------------------------------
(* The connection *)

\* Whichever attempt made the channel ready is remembered.
Ready == \E a \in DOMAIN attempts : attempts[a] = [channel |-> channel, outcome |-> "ok"]

\* connect() leaves an attempt that succeeded as it is.
LEMMA ConnectReadyStays == Types /\ Connect /\ ConnectedMeansReady => ConnectedMeansReady'
<1> SUFFICES ASSUME Types, Connect, ConnectedMeansReady, connected' PROVE Ready'
  BY DEF ConnectedMeansReady, Ready
<1>1. connected' = connected /\ channel' = channel
  BY DEF Connect
<1>2. attempts' = attempts
  BY <1>1 DEF Connect
<1>3. QED
  BY <1>1, <1>2 DEF ConnectedMeansReady, Ready

\* No step makes connected true of a channel that is not.
LEMMA NextReady == Types /\ ConnectedMeansReady /\ [Next]_vars => ConnectedMeansReady'
<1> SUFFICES ASSUME Types, ConnectedMeansReady, [Next]_vars PROVE ConnectedMeansReady'
  OBVIOUS
<1>a. attempts \in Seq(Attempts)
  BY DEF Types
<1>1. ASSUME NEW kind \in Kinds, Call(kind) PROVE ConnectedMeansReady'
  <2>1. Connect \/ (UNCHANGED <<attempts, channel>> /\ connected' = connected)
    BY <1>1 DEF Call, Chain, Unchained, link
  <2>2. QED
    BY <2>1, ConnectReadyStays DEF ConnectedMeansReady
<1>2. ASSUME NEW c \in Calls, Connecting(c) PROVE ConnectedMeansReady'
  <2>1. c \in DOMAIN attempts /\ attempts[c] \in Attempts /\ attempts[c].outcome = "flying"
    BY <1>2, <1>a DEF Connecting, ConnectReady, ConnectFails, Flying, Calls
  <2>2. CASE ConnectReady(c)
    <3>1. attempts' = [attempts EXCEPT ![c] = [attempts[c] EXCEPT !.outcome = "ok"]]
      BY <2>2 DEF ConnectReady
    <3>2. [attempts[c] EXCEPT !.outcome = "ok"] = [channel |-> channel, outcome |-> "ok"]
      BY <2>1, <2>2 DEF ConnectReady, Attempts
    <3>3. channel' = channel
      BY <2>2 DEF ConnectReady
    <3>4. c \in DOMAIN attempts' /\ attempts'[c] = [channel |-> channel', outcome |-> "ok"]
      BY <1>a, <2>1, <3>1, <3>2, <3>3
    <3>5. QED
      BY <3>4 DEF ConnectedMeansReady
  <2>3. CASE ConnectFails(c)
    <3>1. attempts' = [attempts EXCEPT ![c] = [attempts[c] EXCEPT !.outcome = "failed"]]
      BY <2>3 DEF ConnectFails
    <3>2. channel' = channel /\ connected' = connected
      BY <2>3 DEF ConnectFails
    <3>3. ASSUME NEW a \in DOMAIN attempts, attempts[a] = [channel |-> channel, outcome |-> "ok"]
          PROVE  a \in DOMAIN attempts' /\ attempts'[a] = [channel |-> channel', outcome |-> "ok"]
      <4>1. a # c
        BY <2>1, <3>3
      <4>2. QED
        BY <1>a, <3>1, <3>2, <3>3, <4>1
    <3>4. QED
      BY <3>2, <3>3 DEF ConnectedMeansReady
  <2>4. QED
    BY <1>2, <2>2, <2>3 DEF Connecting
<1>3. CASE Joined
  <2>1. Connect \/ (UNCHANGED <<attempts, channel>> /\ connected' = connected)
    BY <1>3 DEF Joined
  <2>2. QED
    BY <2>1, ConnectReadyStays DEF ConnectedMeansReady
<1>4. CASE Disconnect
  BY <1>4 DEF Disconnect, Disconnected, ConnectedMeansReady
<1>5. CASE \/ \E c \in Calls : Resume(c) \/ CancelSubscription(c) \/ Task(c)
           \/ Begin \/ StartDex \/ Updated \/ UNCHANGED vars
  <2>1. UNCHANGED <<attempts, channel>> /\ connected' = connected
    BY <1>5 DEF Resume, CancelSubscription, Task, Begin, StartDex, Updated, vars, link
  <2>2. QED
    BY <2>1 DEF ConnectedMeansReady
<1>6. QED
  BY <1>1, <1>2, <1>3, <1>4, <1>5 DEF Next, Works

\* ConnectedMeansReady, for any number of calls: isConnected() never speaks of a
\* channel that disconnect() has closed, or of one that failed.
THEOREM ConnectedIsReady == Spec => []ConnectedMeansReady
<1>1. Init => ConnectedMeansReady
  BY DEF Init, ConnectedMeansReady
<1>2. Types /\ ConnectedMeansReady /\ [Next]_vars => ConnectedMeansReady'
  BY NextReady
<1>3. QED
  BY <1>1, <1>2, ChainHolds, PTL DEF Spec

-------------------------------------------------------------------------------
(* Calls in their turn *)

Base == Types /\ Made /\ Between /\ OneDexTask

\* Everybody who awaits a connection awaits an attempt that was made, on a channel
\* that was opened.
Linked ==
  /\ answer \in [Calls -> {"none", "ok", "error"}] /\ awaiting \in [Calls -> Nat]
  /\ connectPromise # Nobody => connectPromise \in DOMAIN attempts
  /\ \A i \in Calls : awaiting[i] # Nobody => awaiting[i] \in DOMAIN attempts
  /\ \A a \in DOMAIN attempts : attempts[a].channel <= channel
  /\ \A c \in Calls : c > Len(made) => answer[c] = "none"

\* The chain works on what it was called for.
WorkKinds ==
  /\ \A n \in DOMAIN queue : made[queue[n]] \in Chained
  /\ work.at # "idle" => /\ work.at \in {"joining", "connecting", "updating"}
                         /\ made[work.call] \in Chained
  /\ work.at = "updating" => made[work.call] = "update"
  /\ work.at = "connecting" => made[work.call] = "subscribe"
  /\ closing # Nobody => closing \in Calls /\ closing <= Len(made) /\ made[closing] = "disconnect"

\* A disconnect() that resolved.
Settled(d) == d <= Len(made) /\ made[d] = "disconnect" /\ answer[d] = "ok"

\* The chain serves the calls in the order in which they were made: first come those
\* that were answered, then the disconnect() that is closing, the work that runs and
\* the queue.
InTurn ==
  /\ \A m, n \in DOMAIN queue : m < n => queue[m] < queue[n]
  /\ work.at # "idle" => \A n \in DOMAIN queue : work.call < queue[n]
  /\ closing # Nobody => /\ \A n \in DOMAIN queue : closing < queue[n]
                         /\ work.at # "idle" => closing < work.call
  /\ \A d \in Calls : Settled(d) => /\ \A n \in DOMAIN queue : d < queue[n]
                                    /\ work.at # "idle" => d < work.call
                                    /\ closing # Nobody => d < closing

\* Calls keep their kinds.
LEMMA NextMade ==
  ASSUME Types, [Next]_vars
  PROVE  /\ Len(made) \in Nat /\ Len(made') \in Nat /\ Len(made) <= Len(made')
         /\ \A i \in Calls : i <= Len(made) => i <= Len(made') /\ made'[i] = made[i]
<1>0. made \in Seq(Kinds) /\ Len(made) \in Nat /\ MaxCalls \in Nat
  BY LifecycleAssumption DEF Types
<1>1. made' = made \/ \E kind \in Kinds : made' = Append(made, kind)
  BY DEF Next, Works, Call, Resume, CancelSubscription, Task, Connecting, ConnectReady, ConnectFails,
         Begin, Joined, StartDex, Updated, Disconnect, vars
<1>2. CASE made' = made
  BY <1>0, <1>2
<1>3. ASSUME NEW kind \in Kinds, made' = Append(made, kind)
      PROVE  /\ Len(made') = Len(made) + 1
             /\ \A i \in Calls : i <= Len(made) => made'[i] = made[i]
  BY <1>0, <1>3 DEF Calls
<1>4. QED
  BY <1>0, <1>1, <1>2, <1>3 DEF Calls

\* connect() adds an attempt or none.
LEMMA ConnectLinks ==
  ASSUME Types, Linked, Connect
  PROVE  /\ channel' = channel /\ Promised \in Nat
         /\ \A a \in DOMAIN attempts : a \in DOMAIN attempts' /\ attempts'[a] = attempts[a]
         /\ \A a \in DOMAIN attempts' : attempts'[a].channel <= channel
         /\ connectPromise' # Nobody => connectPromise' \in DOMAIN attempts'
         /\ Promised # Nobody => Promised \in DOMAIN attempts'
<1>0. attempts \in Seq(Attempts) /\ Len(attempts) \in Nat /\ DOMAIN attempts = 1 .. Len(attempts)
      /\ channel \in Nat
  BY DEF Types
<1>1. channel' = channel
  BY DEF Connect
<1>2. CASE connected \/ connectPromise # Nobody
  <2>1. attempts' = attempts /\ connectPromise' = connectPromise
    BY <1>2 DEF Connect
  <2>2. Promised = Nobody \/ Promised = connectPromise
    BY <1>2 DEF Promised
  <2>3. Promised \in Nat
    BY <1>0, <2>2 DEF Linked, Nobody
  <2>4. QED
    BY <1>1, <2>1, <2>2, <2>3 DEF Linked
<1>3. CASE ~(connected \/ connectPromise # Nobody)
  <2> DEFINE e == [channel |-> channel, outcome |-> "flying"]
  <2>1. /\ connectPromise' = Len(attempts) + 1 /\ attempts' = Append(attempts, e)
        /\ Promised = Len(attempts) + 1
    BY <1>3 DEF Connect, Promised
  <2>2. e.channel = channel /\ e \in Attempts
    BY <1>0 DEF Attempts
  <2> HIDE DEF e
  <2>3. /\ DOMAIN attempts' = 1 .. Len(attempts) + 1
        /\ \A a \in 1 .. Len(attempts) : attempts'[a] = attempts[a]
        /\ attempts'[Len(attempts) + 1] = e
    BY <1>0, <2>1, <2>2, AppendProperties
  <2>4. ASSUME NEW a \in DOMAIN attempts' PROVE attempts'[a].channel <= channel
    <3>1. a \in 1 .. Len(attempts) \/ a = Len(attempts) + 1
      BY <1>0, <2>3
    <3>2. QED
      BY <1>0, <2>2, <2>3, <3>1 DEF Linked
  <2>5. QED
    BY <1>0, <1>1, <2>1, <2>3, <2>4
<1>4. QED
  BY <1>2, <1>3

\* Nobody awaits anything at first.
LEMMA InitLinked == Init => Linked
<1> SUFFICES ASSUME Init PROVE Linked
  OBVIOUS
<1>1. answer \in [Calls -> {"none", "ok", "error"}] /\ awaiting \in [Calls -> Nat]
      /\ \A i \in Calls : answer[i] = "none" /\ awaiting[i] = Nobody
  BY DEF Init, Nobody
<1>2. connectPromise = Nobody /\ DOMAIN attempts = {}
  BY DEF Init
<1>3. QED
  BY <1>1, <1>2 DEF Linked

\* No step leaves a caller with an attempt that is not there.
LEMMA NextLinked == Base /\ Linked /\ WorkKinds /\ [Next]_vars => Linked'
<1> SUFFICES ASSUME Base, Linked, WorkKinds, [Next]_vars PROVE Linked'
  OBVIOUS
<1>0. /\ Len(made) \in Nat /\ Len(made') \in Nat /\ Len(made) <= Len(made')
      /\ attempts \in Seq(Attempts) /\ channel \in Nat /\ DOMAIN attempts = 1 .. Len(attempts)
      /\ answer \in [Calls -> {"none", "ok", "error"}] /\ awaiting \in [Calls -> Nat]
      /\ \A a \in DOMAIN attempts : attempts[a].channel \in Nat
      /\ Types
  <2>1. Types
    BY DEF Base
  <2>2. attempts \in Seq(Attempts) /\ DOMAIN attempts = 1 .. Len(attempts)
    BY <2>1 DEF Types
  <2>3. \A a \in DOMAIN attempts : attempts[a] \in Attempts
    BY <2>2
  <2>4. QED
    BY <2>1, <2>2, <2>3, NextMade DEF Linked, Types, Attempts
\* Answers are given to calls that were made.
<1> DEFINE Answered == /\ answer' \in [Calls -> {"none", "ok", "error"}]
                       /\ \A c \in Calls : c > Len(made') => answer'[c] = "none"
<1>1. ASSUME answer' = answer PROVE Answered
  BY <1>0, <1>1 DEF Linked, Calls
<1>2. ASSUME NEW c \in Calls, c <= Len(made), NEW r \in {"ok", "error"},
             answer' = [answer EXCEPT ![c] = r]
      PROVE  Answered
  <2>1. answer' \in [Calls -> {"none", "ok", "error"}]
        /\ \A d \in Calls : d # c => answer'[d] = answer[d]
    BY <1>0, <1>2
  <2>2. ASSUME NEW d \in Calls, d > Len(made') PROVE answer'[d] = "none"
    <3>1. d > Len(made) /\ d # c
      BY <1>0, <1>2, <2>2 DEF Calls
    <3>2. QED
      BY <2>1, <3>1 DEF Linked
  <2>3. QED
    BY <2>1, <2>2
<1> DEFINE Bound == /\ awaiting' \in [Calls -> Nat]
                    /\ connectPromise' # Nobody => connectPromise' \in DOMAIN attempts'
                    /\ \A i \in Calls : awaiting'[i] # Nobody => awaiting'[i] \in DOMAIN attempts'
                    /\ \A a \in DOMAIN attempts' : attempts'[a].channel <= channel'
<1>3. ASSUME UNCHANGED <<connectPromise, attempts, channel, awaiting>> PROVE Bound
  BY <1>3 DEF Linked
<1>4. ASSUME Connect, awaiting' = awaiting PROVE Bound
  BY <1>0, <1>4, ConnectLinks DEF Linked
<1>5. ASSUME Answered, Bound PROVE Linked'
  BY <1>5 DEF Linked
<1> HIDE DEF Answered, Bound
<1>6. ASSUME NEW kind \in Kinds, Call(kind) PROVE Linked'
  <2>1. answer' = answer
    BY <1>6 DEF Call, Chain, Unchained
  <2>2. CASE Chain(kind)
    BY <1>1, <1>3, <1>5, <2>1, <2>2 DEF Chain, link
  <2>3. CASE Unchained(kind)
    <3>1. Connect /\ awaiting' = [awaiting EXCEPT ![Len(made) + 1] = Promised]
      BY <2>3 DEF Unchained
    <3>2. /\ Promised \in Nat /\ channel' = channel
          /\ \A a \in DOMAIN attempts : a \in DOMAIN attempts'
          /\ \A a \in DOMAIN attempts' : attempts'[a].channel <= channel
          /\ connectPromise' # Nobody => connectPromise' \in DOMAIN attempts'
          /\ Promised # Nobody => Promised \in DOMAIN attempts'
      BY <1>0, <3>1, ConnectLinks
    <3>3. /\ awaiting' \in [Calls -> Nat]
          /\ \A i \in Calls : awaiting'[i] = awaiting[i] \/ awaiting'[i] = Promised
      BY <1>0, <3>1, <3>2
    <3>4. Bound
      BY <3>2, <3>3 DEF Linked, Bound
    <3>5. QED
      BY <1>1, <1>5, <2>1, <3>4
  <2>4. QED
    BY <1>6, <2>2, <2>3 DEF Call
<1>7. ASSUME NEW c \in Calls, Resume(c) PROVE Linked'
  <2>1. c <= Len(made) /\ \E r \in {"ok", "error"} : answer' = [answer EXCEPT ![c] = r]
    BY <1>7 DEF Resume, Resumable
  <2>2. QED
    BY <1>2, <1>3, <1>5, <1>7, <2>1 DEF Resume, link
<1>8. ASSUME NEW c \in Calls, CancelSubscription(c) \/ Task(c) PROVE Linked'
  BY <1>1, <1>3, <1>5, <1>8 DEF CancelSubscription, Task, link
<1>9. ASSUME NEW c \in Calls, Connecting(c) PROVE Linked'
  <2>1. /\ c \in DOMAIN attempts /\ UNCHANGED <<answer, awaiting, channel>>
        /\ connectPromise' = connectPromise \/ connectPromise' = Nobody
        /\ \E o \in {"ok", "failed"} : attempts' = [attempts EXCEPT ![c] = [attempts[c] EXCEPT !.outcome = o]]
    BY <1>0, <1>9 DEF Connecting, ConnectReady, ConnectFails, Calls
  <2>2. attempts[c] \in Attempts
    BY <1>0, <2>1
  <2>3. DOMAIN attempts' = DOMAIN attempts
        /\ \A a \in DOMAIN attempts : attempts'[a].channel = attempts[a].channel
    BY <1>0, <2>1, <2>2 DEF Attempts
  <2>4. Bound
    BY <2>1, <2>3 DEF Linked, Bound
  <2>5. QED
    BY <1>1, <1>5, <2>1, <2>4
<1>10. CASE Begin
  <2>1. UNCHANGED <<connectPromise, attempts, channel, awaiting>>
    BY <1>10 DEF Begin, link
  <2>2. Head(queue) \in Calls /\ Head(queue) <= Len(made)
    <3>1. queue # <<>> /\ queue \in Seq(Calls)
      BY <1>10, <1>0 DEF Begin, Types
    <3>2. 1 \in DOMAIN queue /\ Head(queue) = queue[1] /\ queue[1] \in Calls
      BY <3>1
    <3>3. QED
      BY <3>2 DEF Base, Made
  <2>3. answer' = answer \/ \E r \in {"ok", "error"} : answer' = [answer EXCEPT ![Head(queue)] = r]
    BY <1>10 DEF Begin, BeginUpdate, BeginStop
  <2>4. QED
    BY <1>1, <1>2, <1>3, <1>5, <2>1, <2>2, <2>3
<1>11. CASE Joined \/ StartDex \/ Updated
  <2>1. work.call \in Calls /\ work.call <= Len(made)
    BY <1>11 DEF Joined, StartDex, Updated, Base, Made
  <2>2. answer' = answer \/ \E r \in {"ok", "error"} : answer' = [answer EXCEPT ![work.call] = r]
    BY <1>11 DEF Joined, StartDex, Updated
  <2>3. /\ awaiting' = awaiting
        /\ Connect \/ UNCHANGED <<connectPromise, attempts, channel>>
    BY <1>11 DEF Joined, StartDex, Updated, link
  <2>4. QED
    BY <1>1, <1>2, <1>3, <1>4, <1>5, <2>1, <2>2, <2>3
<1>12. CASE Disconnect
  <2>1. /\ closing \in Calls /\ closing <= Len(made) /\ answer' = [answer EXCEPT ![closing] = "ok"]
        /\ UNCHANGED <<awaiting, attempts>> /\ channel' = channel + 1 /\ connectPromise' = Nobody
    BY <1>12 DEF Disconnect, WorkKinds
  <2>2. Bound
    BY <1>0, <2>1 DEF Linked, Bound
  <2>3. QED
    BY <1>2, <1>5, <2>1, <2>2
<1>13. CASE UNCHANGED vars
  BY <1>1, <1>3, <1>5, <1>13 DEF vars, link
<1>14. QED
  BY <1>6, <1>7, <1>8, <1>9, <1>10, <1>11, <1>12, <1>13 DEF Next, Works

\* Only the step that answers it settles a disconnect().
LEMMA NextSettled ==
  ASSUME Base, Linked, WorkKinds, [Next]_vars, ~Disconnect, NEW d \in Calls, Settled(d)'
  PROVE  Settled(d)
<1>0. /\ Len(made) \in Nat /\ Len(made') \in Nat /\ Len(made) <= Len(made')
      /\ \A i \in Calls : i <= Len(made) => i <= Len(made') /\ made'[i] = made[i]
      /\ answer \in [Calls -> {"none", "ok", "error"}]
  BY NextMade DEF Base, Linked
<1>1. d <= Len(made') /\ made'[d] = "disconnect" /\ answer'[d] = "ok"
  BY DEF Settled
<1>2. ASSUME answer' = answer PROVE Settled(d)
  <2>1. d <= Len(made)
    BY <1>0, <1>1, <1>2 DEF Linked, Calls
  <2>2. QED
    BY <1>0, <1>1, <1>2, <2>1 DEF Settled
<1>3. ASSUME NEW c \in Calls, made'[c] # "disconnect", NEW r, answer' = [answer EXCEPT ![c] = r]
      PROVE  Settled(d)
  <2>1. d # c
    BY <1>1, <1>3
  <2>2. answer'[d] = answer[d]
    BY <1>0, <1>3, <2>1
  <2>3. d <= Len(made)
    BY <1>0, <1>1, <2>2 DEF Linked, Calls
  <2>4. QED
    BY <1>0, <1>1, <2>2, <2>3 DEF Settled
<1>4. ASSUME NEW kind \in Kinds, Call(kind) PROVE Settled(d)
  BY <1>2, <1>4 DEF Call, Chain, Unchained
<1>5. ASSUME NEW c \in Calls, Resume(c) PROVE Settled(d)
  <2>1. made'[c] # "disconnect"
    BY <1>5 DEF Resume, Resumable, Chained
  <2>2. \E r \in {"ok", "error"} : answer' = [answer EXCEPT ![c] = r]
    BY <1>5 DEF Resume
  <2>3. QED
    BY <1>3, <2>1, <2>2
<1>6. ASSUME NEW c \in Calls, CancelSubscription(c) \/ Task(c) \/ Connecting(c) PROVE Settled(d)
  BY <1>2, <1>6 DEF CancelSubscription, Task, Connecting, ConnectReady, ConnectFails
<1>7. CASE Begin
  <2>1. CASE answer' = answer
    BY <1>2, <2>1
  <2>2. CASE answer' # answer
    <3>1. made' = made /\ made[Head(queue)] = "update" /\ BeginUpdate(Head(queue))
      BY <1>7, <2>2 DEF Begin, BeginStop
    <3>2. \E r \in {"ok", "error"} : answer' = [answer EXCEPT ![Head(queue)] = r]
      BY <2>2, <3>1 DEF BeginUpdate
    <3>3. Head(queue) \in Calls
      BY <1>7 DEF Begin, Base, Types
    <3>4. QED
      BY <1>3, <3>1, <3>2, <3>3
  <2>3. QED
    BY <2>1, <2>2
<1>8. CASE Joined \/ StartDex \/ Updated
  <2>1. work.call \in Calls /\ made' = made
    BY <1>8 DEF Joined, StartDex, Updated, Base, Made
  <2>2. CASE answer' = answer
    BY <1>2, <2>2
  <2>3. CASE answer' # answer
    <3>1. made[work.call] # "disconnect"
      BY <1>8, <2>3 DEF Joined, StartDex, Updated, WorkKinds
    <3>2. \E r \in {"ok", "error"} : answer' = [answer EXCEPT ![work.call] = r]
      BY <1>8, <2>3 DEF Joined, StartDex, Updated
    <3>3. QED
      BY <1>3, <2>1, <3>1, <3>2
  <2>4. QED
    BY <2>2, <2>3
<1>9. CASE UNCHANGED vars
  BY <1>2, <1>9 DEF vars
<1>10. QED
  BY <1>4, <1>5, <1>6, <1>7, <1>8, <1>9 DEF Next, Works

\* Nothing is in line at first.
LEMMA InitTurns == Init => WorkKinds /\ InTurn
<1> SUFFICES ASSUME Init PROVE WorkKinds /\ InTurn
  OBVIOUS
<1>1. DOMAIN queue = {} /\ work.at = "idle" /\ closing = Nobody /\ \A d \in Calls : ~Settled(d)
  BY DEF Init, Idle, Settled
<1>2. QED
  BY <1>1 DEF WorkKinds, InTurn

\* The queue without its head.
LEMMA QueueTail ==
  ASSUME Types, queue # <<>>
  PROVE  /\ Head(queue) = queue[1] /\ 1 \in DOMAIN queue /\ Head(queue) \in Calls
         /\ \A n \in DOMAIN queue : queue[n] \in Calls /\ n \in Nat
         /\ \A n \in DOMAIN Tail(queue) : /\ n + 1 \in DOMAIN queue /\ Tail(queue)[n] = queue[n + 1]
                                          /\ n \in Nat /\ 1 < n + 1
<1>1. queue \in Seq(Calls)
  BY DEF Types
<1>2. QED
  BY <1>1, HeadTailProperties, LenProperties

\* No step serves a call out of turn.
LEMMA NextTurns == Base /\ Linked /\ WorkKinds /\ InTurn /\ [Next]_vars => (WorkKinds /\ InTurn)'
<1> SUFFICES ASSUME Base, Linked, WorkKinds, InTurn, [Next]_vars PROVE (WorkKinds /\ InTurn)'
  OBVIOUS
<1>0. /\ Len(made) \in Nat /\ Len(made') \in Nat /\ Len(made) <= Len(made')
      /\ \A i \in Calls : i <= Len(made) => i <= Len(made') /\ made'[i] = made[i]
      /\ Types /\ queue \in Seq(Calls) /\ \A n \in DOMAIN queue : queue[n] \in Calls /\ queue[n] <= Len(made)
      /\ work.at # "idle" => work.call \in Calls /\ work.call <= Len(made)
  <2>1. Types /\ queue \in Seq(Calls)
    BY DEF Base, Types
  <2>2. \A n \in DOMAIN queue : queue[n] \in Calls /\ queue[n] <= Len(made)
    BY <2>1 DEF Base, Made
  <2>3. work.at # "idle" => work.call \in Calls /\ work.call <= Len(made)
    BY DEF Base, Made, WorkKinds
  <2>4. QED
    BY <2>1, <2>2, <2>3, NextMade
<1>1. ASSUME ~Disconnect, UNCHANGED <<made, queue, work, closing>> PROVE (WorkKinds /\ InTurn)'
  <2>1. \A d \in Calls : Settled(d)' => Settled(d)
    BY <1>1, NextSettled
  <2>2. WorkKinds'
    BY <1>1 DEF WorkKinds
  <2>3. InTurn'
    BY <1>1, <2>1 DEF InTurn
  <2>4. QED
    BY <2>2, <2>3
<1>2. CASE ~Disconnect /\ (UNCHANGED vars \/ \E c \in Calls : Resume(c) \/ CancelSubscription(c) \/ Task(c) \/ Connecting(c))
  <2>1. UNCHANGED <<made, queue, work, closing>>
    BY <1>2 DEF Resume, CancelSubscription, Task, Connecting, ConnectReady, ConnectFails, vars, chain
  <2>2. QED
    BY <1>1, <1>2, <2>1
<1>3. ASSUME ~Disconnect, NEW kind \in Kinds, Call(kind) PROVE (WorkKinds /\ InTurn)'
  <2>1. \A d \in Calls : Settled(d)' => Settled(d)
    BY <1>3, NextSettled
  <2>a. work' = work /\ closing' = closing
    BY <1>3 DEF Call, Chain, Unchained, chain
  <2>2. (queue' = queue) \/ (kind \in Chained /\ queue' = Append(queue, Len(made) + 1))
    BY <1>3 DEF Call, Chain, Unchained, chain
  <2>3. made'[Len(made) + 1] = kind
    <3>1. made \in Seq(Kinds) /\ made' = Append(made, kind)
      BY <1>0, <1>3 DEF Types, Call
    <3>2. QED
      BY <3>1, AppendProperties
  <2>4. ASSUME NEW n \in DOMAIN queue'
        PROVE  \/ n \in DOMAIN queue /\ queue'[n] = queue[n]
               \/ n = Len(queue) + 1 /\ queue'[n] = Len(made) + 1 /\ made'[queue'[n]] \in Chained
    <3>1. CASE queue' = queue
      BY <3>1
    <3>2. CASE kind \in Chained /\ queue' = Append(queue, Len(made) + 1)
      <4>1. n \in 1 .. Len(queue) + 1 /\ DOMAIN queue = 1 .. Len(queue) /\ Len(queue) \in Nat
        BY <1>0, <3>2
      <4>2. QED
        BY <1>0, <2>3, <3>2, <4>1
    <3>3. QED
      BY <2>2, <3>1, <3>2
  <2>5. DOMAIN queue = 1 .. Len(queue) /\ Len(queue) \in Nat
    BY <1>0
  <2>6. \A n \in DOMAIN queue' : made'[queue'[n]] \in Chained
    BY <1>0, <2>4 DEF WorkKinds
  <2>7. WorkKinds'
    <3>1. work.at # "idle" => made'[work.call] = made[work.call]
      BY <1>0
    <3>2. closing # Nobody => /\ closing \in Calls /\ closing <= Len(made')
                              /\ made'[closing] = "disconnect"
      BY <1>0 DEF WorkKinds
    <3>3. work.at # "idle" => /\ work.at \in {"joining", "connecting", "updating"}
                              /\ made'[work.call] \in Chained
      BY <3>1 DEF WorkKinds
    <3>4. work.at = "updating" => made'[work.call] = "update"
      BY <3>1 DEF WorkKinds
    <3>5. work.at = "connecting" => made'[work.call] = "subscribe"
      BY <3>1 DEF WorkKinds
    <3>6. work' = work /\ closing' = closing
      BY <2>a
    <3>7. QED
      BY <2>6, <3>2, <3>3, <3>4, <3>5, <3>6 DEF WorkKinds
  <2>8. ASSUME NEW b \in Calls, b <= Len(made), \A n \in DOMAIN queue : b < queue[n]
        PROVE  \A n \in DOMAIN queue' : b < queue'[n]
    BY <1>0, <2>4, <2>8 DEF Calls
  <2>9. \A m, n \in DOMAIN queue' : m < n => queue'[m] < queue'[n]
    <3>1. ASSUME NEW m \in DOMAIN queue', NEW n \in DOMAIN queue', m < n PROVE queue'[m] < queue'[n]
      <4>1. m \in DOMAIN queue /\ queue'[m] = queue[m]
        BY <2>4, <2>5, <3>1
      <4>2. CASE n \in DOMAIN queue /\ queue'[n] = queue[n]
        BY <3>1, <4>1, <4>2 DEF InTurn
      <4>3. CASE queue'[n] = Len(made) + 1
        <5>1. queue[m] \in Nat /\ queue[m] <= Len(made)
          BY <1>0, <4>1 DEF Calls
        <5>2. QED
          BY <1>0, <4>1, <4>3, <5>1
      <4>4. QED
        BY <2>4, <4>2, <4>3
    <3>2. QED
      BY <3>1
  <2>10. InTurn'
    <3>1. work.at # "idle" => \A n \in DOMAIN queue' : work.call < queue'[n]
      BY <1>0, <2>8 DEF InTurn
    <3>2. closing # Nobody => \A n \in DOMAIN queue' : closing < queue'[n]
      BY <2>8 DEF InTurn, WorkKinds
    <3>3. \A d \in Calls : Settled(d) => \A n \in DOMAIN queue' : d < queue'[n]
      BY <2>8 DEF InTurn, Settled
    <3>4. work' = work /\ closing' = closing
      BY <2>a
    <3>5. closing # Nobody /\ work.at # "idle" => closing < work.call
      BY DEF InTurn
    <3>6. ASSUME NEW d \in Calls, Settled(d)'
          PROVE  /\ \A n \in DOMAIN queue' : d < queue'[n]
                 /\ work.at # "idle" => d < work.call
                 /\ closing # Nobody => d < closing
      BY <2>1, <3>3, <3>6 DEF InTurn
    <3>7. QED
      BY <2>9, <3>1, <3>2, <3>4, <3>5, <3>6 DEF InTurn
  <2>11. QED
    BY <2>7, <2>10
<1>4. ASSUME ~Disconnect, Begin PROVE (WorkKinds /\ InTurn)'
  <2> DEFINE h == Head(queue)
  <2>1. \A d \in Calls : Settled(d)' => Settled(d)
    BY <1>4, NextSettled
  <2>2. /\ made' = made /\ closing' = closing /\ queue # <<>> /\ queue' = Tail(queue) /\ work.at = "idle"
    BY <1>4 DEF Begin, Idle
  <2>3. /\ h = queue[1] /\ 1 \in DOMAIN queue /\ h \in Calls
        /\ \A n \in DOMAIN queue' : /\ n + 1 \in DOMAIN queue /\ queue'[n] = queue[n + 1]
                                    /\ n \in Nat /\ 1 < n + 1
    BY <1>0, <2>2, QueueTail
  <2> DEFINE Ways == \/ work'.at = "idle"
                     \/ /\ work'.at \in {"joining", "updating"} /\ work'.call = h
                        /\ work'.at = "updating" => made[h] = "update"
  <2>4. Ways
    <3>1. CASE made[h] = "update" /\ BeginUpdate(h)
      <4>1. work' = work \/ \E i : work' = [call |-> h, at |-> "updating", on |-> i]
        BY <3>1 DEF BeginUpdate
      <4>2. QED
        BY <2>2, <3>1, <4>1
    <3>2. CASE BeginStop(h)
      BY <3>2 DEF BeginStop
    <3>3. QED
      BY <1>4, <3>1, <3>2 DEF Begin
  <2> HIDE DEF h
  <2>5. made[h] \in Chained /\ \A n \in DOMAIN queue' : h < queue'[n]
    BY <2>3 DEF WorkKinds, InTurn
  <2>6. WorkKinds'
    BY <2>2, <2>3, <2>4, <2>5 DEF WorkKinds
  <2>7. \A m, n \in DOMAIN queue' : m < n => queue'[m] < queue'[n]
    <3>1. ASSUME NEW m \in DOMAIN queue', NEW n \in DOMAIN queue', m < n PROVE queue'[m] < queue'[n]
      <4>1. m + 1 \in DOMAIN queue /\ n + 1 \in DOMAIN queue /\ m + 1 < n + 1
        BY <2>3, <3>1
      <4>2. QED
        BY <2>3, <4>1 DEF InTurn
    <3>2. QED
      BY <3>1
  <2>8. closing # Nobody => closing < h /\ \A n \in DOMAIN queue' : closing < queue'[n]
    BY <2>3 DEF InTurn
  <2>9. \A d \in Calls : Settled(d) => /\ d < h /\ \A n \in DOMAIN queue' : d < queue'[n]
                                       /\ closing # Nobody => d < closing
    BY <2>3 DEF InTurn
  <2>10. InTurn'
    BY <2>1, <2>2, <2>4, <2>5, <2>7, <2>8, <2>9 DEF InTurn
  <2>11. QED
    BY <2>6, <2>10
<1>5. ASSUME ~Disconnect, Joined PROVE (WorkKinds /\ InTurn)'
  <2>1. \A d \in Calls : Settled(d)' => Settled(d)
    BY <1>5, NextSettled
  <2>2. UNCHANGED <<made, queue>> /\ work.at = "joining" /\ closing = Nobody
    BY <1>5 DEF Joined
  <2>3. \/ work' = Idle /\ closing' = closing
        \/ work' = Idle /\ closing' = work.call /\ made[work.call] = "disconnect"
        \/ /\ work'.at = "connecting" /\ work'.call = work.call /\ closing' = closing
           /\ made[work.call] = "subscribe"
    BY <1>5 DEF Joined
  <2>4. Idle.at = "idle"
    BY DEF Idle
  <2>5. WorkKinds'
    BY <1>0, <2>2, <2>3, <2>4 DEF WorkKinds, Chained
  <2>6. InTurn'
    BY <2>1, <2>2, <2>3, <2>4 DEF InTurn
  <2>7. QED
    BY <2>5, <2>6
<1>6. ASSUME ~Disconnect, StartDex \/ Updated PROVE (WorkKinds /\ InTurn)'
  <2>1. \A d \in Calls : Settled(d)' => Settled(d)
    BY <1>6, NextSettled
  <2>2. UNCHANGED <<made, queue, closing>> /\ work'.at = "idle"
    BY <1>6 DEF StartDex, Updated, Idle
  <2>3. WorkKinds'
    BY <2>2 DEF WorkKinds
  <2>4. InTurn'
    BY <2>1, <2>2 DEF InTurn
  <2>5. QED
    BY <2>3, <2>4
<1>7. CASE Disconnect
  <2>1. /\ closing # Nobody /\ closing' = Nobody /\ UNCHANGED <<made, queue, work>>
        /\ answer' = [answer EXCEPT ![closing] = "ok"]
    BY <1>7 DEF Disconnect
  <2>2. \A d \in Calls : Settled(d)' => Settled(d) \/ d = closing
    BY <2>1 DEF Settled, Linked
  <2>3. WorkKinds'
    BY <2>1 DEF WorkKinds
  <2>4. InTurn'
    BY <2>1, <2>2 DEF InTurn
  <2>5. QED
    BY <2>3, <2>4
<1>8. QED
  BY <1>2, <1>3, <1>4, <1>5, <1>6, <1>7 DEF Next, Works

-------------------------------------------------------------------------------
(* The Map of DEX subscriptions *)

\* It holds the one DEX subscription whose task is not over, and that one is
\* cancelled by itself only while a work joins it.
Listed ==
  \/ dexSubscribers = <<>>
  \/ \E i \in Calls :
       /\ dexSubscribers = <<i>> /\ Running(i) /\ made[i] = "subscribe"
       /\ tasks[i].cancelled => work.at = "joining" /\ work.on = i

\* Taking an id out of a Map with one entry at most.
LEMMA Dropped ==
  ASSUME NEW i, NEW j
  PROVE  Without(<<>>, j) = <<>> /\ Without(<<i>>, j) = IF i = j THEN <<>> ELSE <<i>>
<1>1. Len(<<i>>) = 1 /\ <<i>>[1] = i /\ DOMAIN <<i>> = 1 .. 1 /\ 1 .. 1 = {1}
  OBVIOUS
<1>2. Without(<<>>, j) = <<>>
  BY DEF Without, RemoveFirst
<1>3. CASE i # j
  BY <1>1, <1>2, <1>3 DEF Without, RemoveFirst
<1>4. CASE i = j
  <2>1. {k \in 1 .. Len(<<i>>) : <<i>>[k] = j} = {1}
    BY <1>1, <1>4
  <2>2. Min({1}) = 1
    BY DEF Min
  <2>3. Without(<<i>>, j) = SubSeq(<<i>>, 1, 0) \o SubSeq(<<i>>, 2, 1)
    BY <1>1, <1>4, <2>1, <2>2 DEF Without, RemoveFirst, RemoveAt, SelectInSeq
  <2>4. SubSeq(<<i>>, 1, 0) = <<>> /\ SubSeq(<<i>>, 2, 1) = <<>>
    OBVIOUS
  <2>5. QED
    BY <1>2, <1>4, <2>3, <2>4
<1>5. QED
  BY <1>3, <1>4

\* When the next subscription gets its task the Map is empty, and so it is when the
\* work before it has been joined.
LEMMA NobodyListed ==
  ASSUME Base, Listed, work.at = "connecting" \/ (work.at = "joining" /\ JoinDone)
  PROVE  dexSubscribers = <<>>
<1>0. Nobody \notin Calls
  BY LifecycleAssumption DEF Nobody, Calls
<1>1. SUFFICES ASSUME NEW i \in Calls, Running(i), made[i] = "subscribe" PROVE FALSE
  BY DEF Listed
<1>2. activeDex = Nobody
  BY DEF Base, Between
<1>3. work.at = "joining" /\ work.on = i
  BY <1>0, <1>1, <1>2 DEF Base, OneDexTask
<1>4. tasks[i].phase = "done"
  BY <1>0, <1>3 DEF JoinDone
<1>5. QED
  BY <1>1, <1>4 DEF Running

\* A step that moves no task and leaves the Map and its calls alone.
LEMMA ListedAlone ==
  ASSUME Base, Listed, [Next]_vars, UNCHANGED <<tasks, dexSubscribers>>,
         work' = work \/ work.at # "joining"
  PROVE  Listed'
<1>1. CASE dexSubscribers = <<>>
  BY <1>1 DEF Listed
<1>2. ASSUME NEW i \in Calls, dexSubscribers = <<i>>, Running(i), made[i] = "subscribe",
             tasks[i].cancelled => work.at = "joining" /\ work.on = i
      PROVE  Listed'
  <2>1. made'[i] = made[i]
    BY <1>2, NextMade DEF Base, Made
  <2>2. QED
    BY <1>2, <2>1 DEF Listed, Running
<1>3. QED
  BY <1>1, <1>2 DEF Listed

\* The Map never keeps what is over, nor two.
LEMMA NextListed == Base /\ WorkKinds /\ Listed /\ [Next]_vars => Listed'
<1> SUFFICES ASSUME Base, WorkKinds, Listed, [Next]_vars PROVE Listed'
  OBVIOUS
<1>0. /\ tasks \in [Calls -> Tasks] /\ Nobody \notin Calls /\ Types
      /\ \A i \in Calls : Running(i) => i <= Len(made)
  BY LifecycleAssumption DEF Base, Types, Made, Nobody, Calls
<1>1. ASSUME NEW kind \in Kinds, Call(kind) PROVE Listed'
  <2>1. UNCHANGED <<work, tasks, dexSubscribers>>
    BY <1>1 DEF Call, Chain, Unchained, chain, subs, maps
  <2>2. QED
    BY <2>1, ListedAlone
<1>2. ASSUME NEW c \in Calls, Resume(c) PROVE Listed'
  <2>1. UNCHANGED <<made, work, dexSubscribers>> /\ made[c] # "subscribe"
    BY <1>2 DEF Resume, Resumable, chain, Chained
  <2>2. tasks' = tasks \/ tasks' = [tasks EXCEPT ![c] = Fresh]
    BY <1>2 DEF Resume
  <2>3. \A i \in Calls : i # c => tasks'[i] = tasks[i]
    BY <1>0, <2>2
  <2>4. QED
    BY <2>1, <2>3 DEF Listed, Running
<1>3. ASSUME NEW c \in Calls, CancelSubscription(c) \/ Task(c) PROVE Listed'
  <2>1. UNCHANGED <<made, work>>
    BY <1>3 DEF CancelSubscription, Task, chain
  <2>2. PICK u \in Tasks : /\ tasks' = [tasks EXCEPT ![c] = u]
                           /\ Cancelled(tasks[c], u) \/ TaskStep(tasks[c], u)
    BY <1>3 DEF CancelSubscription, Task
  <2>3. tasks'[c] = u /\ \A i \in Calls : i # c => tasks'[i] = tasks[i]
    BY <1>0, <2>2
  <2>4. \/ dexSubscribers' = Without(dexSubscribers, c)
        \/ /\ dexSubscribers' = dexSubscribers /\ u.phase # "done" /\ TaskStep(tasks[c], u)
    <3>1. CASE CancelSubscription(c)
      BY <3>1 DEF CancelSubscription
    <3>2. CASE Task(c)
      <4>1. PICK v \in Tasks : TaskStep(tasks[c], v) /\ tasks' = [tasks EXCEPT ![c] = v]
        BY <3>2 DEF Task
      <4>2. u = v
        BY <1>0, <2>3, <4>1
      <4>3. QED
        BY <2>3, <3>2, <4>1, <4>2 DEF Task, DropEntry
    <3>3. QED
      BY <1>3, <3>1, <3>2
  <2>5. CASE dexSubscribers = <<>>
    BY <2>4, <2>5, Dropped DEF Listed
  <2>6. ASSUME NEW i \in Calls, dexSubscribers = <<i>>, Running(i), made[i] = "subscribe",
               tasks[i].cancelled => work.at = "joining" /\ work.on = i
        PROVE  Listed'
    <3>1. dexSubscribers' = <<>> \/ (dexSubscribers' = <<i>> /\ i # c)
          \/ (dexSubscribers' = <<i>> /\ u.phase # "done" /\ TaskStep(tasks[c], u))
      BY <2>4, <2>6, Dropped
    <3>2. CASE dexSubscribers' = <<>>
      BY <3>2 DEF Listed
    <3>3. CASE dexSubscribers' = <<i>> /\ i # c
      BY <2>1, <2>3, <2>6, <3>3 DEF Listed, Running
    <3>4. CASE i = c /\ dexSubscribers' = <<i>> /\ u.phase # "done" /\ TaskStep(tasks[c], u)
      <4>1. u.cancelled = tasks[c].cancelled
        BY <1>0, <3>4, TaskStepKeeps
      <4>2. QED
        BY <2>1, <2>3, <2>6, <3>4, <4>1 DEF Listed, Running
    <3>5. QED
      BY <3>1, <3>2, <3>3, <3>4
  <2>7. QED
    BY <2>5, <2>6 DEF Listed
<1>4. ASSUME NEW c \in Calls, Connecting(c) PROVE Listed'
  <2>1. UNCHANGED <<work, tasks, dexSubscribers>>
    BY <1>4 DEF Connecting, ConnectReady, ConnectFails, chain, subs, maps
  <2>2. QED
    BY <2>1, ListedAlone
<1>5. CASE Begin
  <2>1. UNCHANGED <<made, dexSubscribers>> /\ work.at = "idle"
    BY <1>5 DEF Begin, Idle
  <2>2. CASE BeginUpdate(Head(queue))
    BY <2>1, <2>2, ListedAlone DEF BeginUpdate
  <2>3. CASE BeginStop(Head(queue))
    <3>1. tasks' = CancelAll(StopTarget) /\ work'.at = "joining" /\ work'.on = activeDex
      BY <2>3 DEF BeginStop
    <3>2. CASE dexSubscribers = <<>>
      BY <2>1, <3>2 DEF Listed
    <3>3. ASSUME NEW i \in Calls, dexSubscribers = <<i>>, Running(i), made[i] = "subscribe"
          PROVE  Listed'
      <4>1. i = activeDex
        BY <2>1, <3>3 DEF Base, OneDexTask
      <4>2. tasks'[i].phase = tasks[i].phase
        BY <1>0, <3>1, CancelAllKeeps
      <4>3. QED
        BY <2>1, <3>1, <3>3, <4>1, <4>2 DEF Listed, Running
    <3>4. QED
      BY <3>2, <3>3 DEF Listed
  <2>4. QED
    BY <1>5, <2>2, <2>3 DEF Begin
<1>6. CASE Joined
  <2>1. dexSubscribers = <<>>
    BY <1>6, NobodyListed DEF Joined
  <2>2. dexSubscribers' = dexSubscribers
    BY <1>6 DEF Joined, maps
  <2>3. QED
    BY <2>1, <2>2 DEF Listed
<1>7. CASE StartDex
  <2> DEFINE c == work.call
  <2>1. dexSubscribers = <<>> /\ made' = made
    BY <1>7, NobodyListed DEF StartDex
  <2>2. c \in Calls /\ made[c] = "subscribe"
    BY <1>7 DEF StartDex, Base, Made, WorkKinds
  <2>3. \/ dexSubscribers' = dexSubscribers
        \/ dexSubscribers' = Append(dexSubscribers, c) /\ tasks' = [tasks EXCEPT ![c] = Fresh]
    BY <1>7 DEF StartDex
  <2> HIDE DEF c
  <2>4. CASE dexSubscribers' = dexSubscribers
    BY <2>1, <2>4 DEF Listed
  <2>5. CASE dexSubscribers' = Append(dexSubscribers, c) /\ tasks' = [tasks EXCEPT ![c] = Fresh]
    <3>1. dexSubscribers' = <<c>>
      BY <2>1, <2>5
    <3>2. tasks'[c].phase # "done" /\ tasks'[c].cancelled = FALSE
      BY <1>0, <2>2, <2>5, FreshTask
    <3>3. QED
      BY <2>1, <2>2, <3>1, <3>2 DEF Listed, Running
  <2>6. QED
    BY <2>3, <2>4, <2>5
<1>8. CASE Updated
  <2>1. UNCHANGED <<tasks, dexSubscribers>> /\ work.at # "joining"
    BY <1>8 DEF Updated, subs, maps
  <2>2. QED
    BY <2>1, ListedAlone
<1>9. CASE Disconnect
  BY <1>9 DEF Disconnect, Listed
<1>10. CASE UNCHANGED vars
  <2>1. UNCHANGED <<work, tasks, dexSubscribers>>
    BY <1>10 DEF vars, chain, subs, maps
  <2>2. QED
    BY <2>1, ListedAlone
<1>11. QED
  BY <1>1, <1>2, <1>3, <1>4, <1>5, <1>6, <1>7, <1>8, <1>9, <1>10 DEF Next, Works

\* The Map, the connection and the turns hold in every state.
LEMMA TurnsHold == Spec => [](Base /\ Linked /\ WorkKinds /\ InTurn /\ Listed)
<1>1. Init => Base /\ Linked /\ WorkKinds /\ InTurn /\ Listed
  BY InitTypes, InitChain, InitLinked, InitTurns DEF Base, Init, Listed
<1>2. Base /\ [Next]_vars => Base'
  BY NextTypes, NextChain DEF Base
<1>3. Base /\ Linked /\ WorkKinds /\ [Next]_vars => Linked'
  BY NextLinked
<1>4. Base /\ Linked /\ WorkKinds /\ InTurn /\ [Next]_vars => WorkKinds' /\ InTurn'
  BY NextTurns
<1>5. Base /\ WorkKinds /\ Listed /\ [Next]_vars => Listed'
  BY NextListed
<1>6. QED
  BY <1>1, <1>2, <1>3, <1>4, <1>5, PTL DEF Spec

\* UpdateFindsActive, for any number of calls: an updateSubscription() that gets its
\* turn finds the active subscription first in the Map, with its task alive.
THEOREM UpdatesFindActive == Spec => []UpdateFindsActive
<1>1. Base /\ Listed => UpdateFindsActive
  <2> SUFFICES ASSUME Base, Listed, work = Idle, dexSubscribers # <<>>
               PROVE  dexSubscribers = <<activeDex>> /\ Live(activeDex)
    BY DEF UpdateFindsActive
  <2>1. work.at = "idle"
    BY DEF Idle
  <2>2. PICK i \in Calls : /\ dexSubscribers = <<i>> /\ Running(i) /\ made[i] = "subscribe"
                           /\ ~tasks[i].cancelled
    BY <2>1 DEF Listed
  <2>3. i = activeDex
    BY <2>1, <2>2 DEF Base, OneDexTask
  <2>4. QED
    BY <2>2, <2>3 DEF Live
<1>2. QED
  BY <1>1, TurnsHold, PTL

-------------------------------------------------------------------------------
(* What disconnect() silences *)

\* A task that no cancel has reached is in one of the Maps, where disconnect() finds it.
Registered == \A i \in Calls : Live(i) => i \in Everybody

\* A call outside the chain whose attempt belongs to a channel that was closed before
\* the attempt got anywhere: it will be refused.
Doomed(i) ==
  /\ awaiting[i] \in DOMAIN attempts
  /\ attempts[awaiting[i]].channel < channel /\ attempts[awaiting[i]].outcome # "ok"

\* Whatever was called before a disconnect() that resolved is neither alive nor able
\* to come alive.
Hushed ==
  \A i, d \in Calls :
    i < d /\ Settled(d) => ~Live(i) /\ (made[i] \notin Chained /\ answer[i] = "none" => Doomed(i))

\* Nothing that is live was not live before.
NothingNew == \A i \in Calls : Live(i)' => Live(i)

\* A step of one task, or a cancel, brings nothing to life.
LEMMA TaskNothingNew ==
  ASSUME Base, NEW c \in Calls, NEW u \in Tasks, tasks' = [tasks EXCEPT ![c] = u],
         Cancelled(tasks[c], u) \/ TaskStep(tasks[c], u)
  PROVE  NothingNew /\ (Live(c)' => TaskStep(tasks[c], u) /\ u.phase # "done")
<1>0. tasks \in [Calls -> Tasks] /\ tasks[c] \in Tasks
  BY DEF Base, Types
<1>1. tasks'[c] = u /\ \A i \in Calls : i # c => tasks'[i] = tasks[i]
  BY <1>0
<1>2. CASE Cancelled(tasks[c], u)
  <2>1. u.cancelled
    BY <1>0, <1>2, CancelledKeeps
  <2>2. QED
    BY <1>1, <2>1 DEF NothingNew, Live, Running
<1>3. CASE TaskStep(tasks[c], u)
  <2>1. tasks[c].phase # "done" /\ u.cancelled = tasks[c].cancelled
    BY <1>0, <1>3, TaskStepKeeps
  <2>2. QED
    BY <1>1, <1>3, <2>1 DEF NothingNew, Live, Running
<1>4. QED
  BY <1>2, <1>3

\* Neither does a cancel of many.
LEMMA CancelAllNothingNew ==
  ASSUME Base, NEW S, tasks' = CancelAll(S)
  PROVE  NothingNew /\ \A i \in Calls : i \in S => ~Live(i)'
<1>1. Types
  BY DEF Base
<1>2. \A i \in Calls : /\ tasks'[i].phase = tasks[i].phase
                       /\ tasks[i].cancelled => tasks'[i].cancelled
                       /\ i \in S => tasks[i].phase = "done" \/ tasks'[i].cancelled
  BY <1>1, CancelAllKeeps
<1>3. QED
  BY <1>2 DEF NothingNew, Live, Running

\* Only a raw subscription that connected and a DEX subscription bring a task to life.
LEMMA NextNothingNew ==
  ASSUME Base, [Next]_vars, ~StartDex, \A c \in Calls : ~Resume(c)
  PROVE  NothingNew
<1>1. CASE \/ \E kind \in Kinds : Call(kind)
           \/ \E c \in Calls : Connecting(c)
           \/ Joined \/ Updated \/ UNCHANGED vars
  <2>1. tasks' = tasks
    BY <1>1 DEF Call, Chain, Unchained, Connecting, ConnectReady, ConnectFails, Joined, Updated, vars, subs
  <2>2. QED
    BY <2>1 DEF NothingNew, Live, Running
<1>2. ASSUME NEW c \in Calls, CancelSubscription(c) \/ Task(c) PROVE NothingNew
  <2>1. \E u \in Tasks : /\ tasks' = [tasks EXCEPT ![c] = u]
                         /\ Cancelled(tasks[c], u) \/ TaskStep(tasks[c], u)
    BY <1>2 DEF CancelSubscription, Task
  <2>2. QED
    BY <2>1, TaskNothingNew
<1>3. CASE Begin
  <2>1. tasks' = tasks \/ tasks' = CancelAll(StopTarget)
    BY <1>3 DEF Begin, BeginUpdate, BeginStop
  <2>2. QED
    BY <2>1, CancelAllNothingNew DEF NothingNew, Live, Running
<1>4. CASE Disconnect
  BY <1>4, CancelAllNothingNew DEF Disconnect
<1>5. QED
  BY <1>1, <1>2, <1>3, <1>4 DEF Next, Works

\* Taking an id out of the Map leaves the others.
LEMMA OthersStay ==
  ASSUME Listed, NEW c, NEW i \in ToSet(dexSubscribers), i # c
  PROVE  i \in ToSet(Without(dexSubscribers, c))
<1>1. dexSubscribers # <<>>
  BY DEF ToSet
<1>2. PICK k \in Calls : dexSubscribers = <<k>>
  BY <1>1 DEF Listed
<1>3. i = k
  BY <1>2 DEF ToSet
<1>4. Without(dexSubscribers, c) = <<k>>
  BY <1>2, <1>3, Dropped
<1>5. QED
  BY <1>2, <1>4

\* Nothing that lives leaves the Maps.
LEMMA NextRegistered == Base /\ Listed /\ Registered /\ [Next]_vars => Registered'
<1> SUFFICES ASSUME Base, Listed, Registered, [Next]_vars PROVE Registered'
  OBVIOUS
<1>0. tasks \in [Calls -> Tasks]
  BY DEF Base, Types
<1>1. ASSUME NothingNew, UNCHANGED <<subscribers, dexSubscribers>> PROVE Registered'
  BY <1>1 DEF Registered, NothingNew, Everybody
<1>2. CASE \/ \E kind \in Kinds : Call(kind)
           \/ \E c \in Calls : Connecting(c)
           \/ Begin \/ Joined \/ Updated \/ UNCHANGED vars
  <2>1. UNCHANGED <<subscribers, dexSubscribers>>
    BY <1>2 DEF Call, Chain, Unchained, Connecting, ConnectReady, ConnectFails, Begin, Joined, Updated,
                vars, maps
  <2>2. CASE \E c \in Calls : Resume(c)
    <3>1. PICK c \in Calls : Resume(c)
      BY <2>2
    <3>2. tasks' = tasks \/ (tasks' = [tasks EXCEPT ![c] = Fresh] /\ c \in subscribers')
      BY <3>1 DEF Resume
    <3>3. \A i \in Calls : Live(i)' => Live(i) \/ i \in subscribers'
      BY <1>0, <3>2 DEF Live, Running
    <3>4. QED
      BY <2>1, <3>3 DEF Registered, Everybody
  <2>3. CASE StartDex
    <3>1. tasks' = tasks \/ dexSubscribers' = Append(dexSubscribers, work.call)
      BY <2>3 DEF StartDex
    <3>2. dexSubscribers = <<>>
      BY <2>3, NobodyListed DEF StartDex
    <3>3. tasks' = tasks
      BY <2>1, <3>1, <3>2
    <3>4. QED
      BY <1>1, <2>1, <3>3 DEF NothingNew, Live, Running
  <2>4. QED
    BY <1>1, <2>1, <2>2, <2>3, NextNothingNew
<1>3. ASSUME NEW c \in Calls, Resume(c) PROVE Registered'
  <2>1. /\ dexSubscribers' = dexSubscribers
        /\ \/ UNCHANGED <<tasks, subscribers>>
           \/ tasks' = [tasks EXCEPT ![c] = Fresh] /\ subscribers' = subscribers \cup {c}
    BY <1>3 DEF Resume
  <2>2. \A i \in Calls : Live(i)' => Live(i) \/ i \in subscribers'
    BY <1>0, <2>1 DEF Live, Running
  <2>3. QED
    BY <2>1, <2>2 DEF Registered, Everybody
<1>4. ASSUME NEW c \in Calls, CancelSubscription(c) \/ Task(c) PROVE Registered'
  <2>1. PICK u \in Tasks : /\ tasks' = [tasks EXCEPT ![c] = u]
                           /\ Cancelled(tasks[c], u) \/ TaskStep(tasks[c], u)
    BY <1>4 DEF CancelSubscription, Task
  <2>2. NothingNew /\ (Live(c)' => TaskStep(tasks[c], u) /\ u.phase # "done")
    BY <2>1, TaskNothingNew
  <2>3. CASE UNCHANGED <<subscribers, dexSubscribers>>
    BY <1>1, <2>2, <2>3
  <2>4. CASE /\ dexSubscribers' = Without(dexSubscribers, c) /\ subscribers' = subscribers \ {c}
             /\ ~Live(c)'
    <3>1. ASSUME NEW i \in Calls, Live(i)' PROVE i \in Everybody'
      <4>1. i # c /\ Live(i)
        BY <2>2, <2>4, <3>1 DEF NothingNew
      <4>2. i \in subscribers \/ i \in ToSet(dexSubscribers)
        BY <4>1 DEF Registered, Everybody
      <4>3. QED
        BY <2>4, <4>1, <4>2, OthersStay DEF Everybody
    <3>2. QED
      BY <3>1 DEF Registered
  <2>5. CASE CancelSubscription(c)
    <3>1. PICK v \in Tasks : Cancelled(tasks[c], v) /\ tasks' = [tasks EXCEPT ![c] = v]
      BY <2>5 DEF CancelSubscription
    <3>2. tasks'[c] = v /\ v.cancelled
      BY <1>0, <3>1, CancelledKeeps
    <3>3. ~Live(c)'
      BY <3>2 DEF Live
    <3>4. QED
      BY <2>4, <2>5, <3>3 DEF CancelSubscription
  <2>6. CASE Task(c)
    BY <2>3, <2>4, <2>6 DEF Task, DropEntry, Live, Running
  <2>7. QED
    BY <1>4, <2>5, <2>6
<1>5. CASE StartDex
  <2>1. dexSubscribers = <<>> /\ subscribers' = subscribers
    BY <1>5, NobodyListed DEF StartDex
  <2>2. \/ UNCHANGED <<tasks, dexSubscribers>>
        \/ tasks' = [tasks EXCEPT ![work.call] = Fresh] /\ dexSubscribers' = Append(dexSubscribers, work.call)
    BY <1>5 DEF StartDex
  <2>3. CASE UNCHANGED <<tasks, dexSubscribers>>
    BY <1>1, <2>1, <2>3 DEF NothingNew, Live, Running
  <2>4. CASE /\ tasks' = [tasks EXCEPT ![work.call] = Fresh]
             /\ dexSubscribers' = Append(dexSubscribers, work.call)
    <3>1. \A i \in Calls : Live(i)' => Live(i) \/ i = work.call
      BY <1>0, <2>4 DEF Live, Running
    <3>2. ToSet(dexSubscribers) = {} /\ ToSet(dexSubscribers') = {work.call}
      BY <2>1, <2>4 DEF ToSet
    <3>3. QED
      BY <2>1, <3>1, <3>2 DEF Registered, Everybody
  <2>5. QED
    BY <2>2, <2>3, <2>4
<1>6. CASE Disconnect
  <2>1. \A i \in Calls : Live(i)' => Live(i) /\ i \notin Everybody
    BY <1>6, CancelAllNothingNew DEF Disconnect, NothingNew
  <2>2. QED
    BY <2>1 DEF Registered
<1>7. QED
  BY <1>2, <1>3, <1>4, <1>5, <1>6 DEF Next, Works

\* An attempt on a channel that was closed never succeeds.
LEMMA NextDoomed ==
  ASSUME Base, Linked, [Next]_vars, NEW i \in Calls, i <= Len(made), Doomed(i)
  PROVE  Doomed(i)'
<1> DEFINE a == awaiting[i]
<1>0. /\ Len(made) \in Nat /\ awaiting \in [Calls -> Nat] /\ channel \in Nat
      /\ attempts \in Seq(Attempts) /\ Types
      /\ a \in DOMAIN attempts /\ attempts[a].channel < channel /\ attempts[a].outcome # "ok"
      /\ attempts[a].channel \in Nat
  <2>1. Types /\ attempts \in Seq(Attempts) /\ channel \in Nat /\ Len(made) \in Nat
    BY DEF Base, Types
  <2>2. attempts[a] \in Attempts
    BY <2>1 DEF Doomed
  <2>3. QED
    BY <2>1, <2>2 DEF Doomed, Linked, Attempts
<1> HIDE DEF a
<1>1. ASSUME awaiting'[i] = a, a \in DOMAIN attempts', attempts'[a].channel = attempts[a].channel,
             attempts'[a].outcome # "ok", channel' = channel \/ channel' = channel + 1
      PROVE  Doomed(i)'
  BY <1>0, <1>1 DEF Doomed
<1>2. ASSUME Connect, awaiting'[i] = a PROVE Doomed(i)'
  <2>1. channel' = channel /\ a \in DOMAIN attempts' /\ attempts'[a] = attempts[a]
    BY <1>0, <1>2, ConnectLinks
  <2>2. QED
    BY <1>0, <1>1, <1>2, <2>1
<1>3. ASSUME UNCHANGED <<attempts, awaiting>>, channel' = channel \/ channel' = channel + 1
      PROVE  Doomed(i)'
  <2>1. awaiting'[i] = a
    BY <1>3 DEF a
  <2>2. QED
    BY <1>0, <1>1, <1>3, <2>1
<1>4. ASSUME NEW kind \in Kinds, Call(kind) PROVE Doomed(i)'
  <2>1. CASE Chain(kind)
    BY <1>3, <2>1 DEF Chain, link
  <2>2. CASE Unchained(kind)
    <3>1. Connect /\ awaiting' = [awaiting EXCEPT ![Len(made) + 1] = Promised] /\ i # Len(made) + 1
      BY <1>0, <2>2 DEF Unchained, Calls
    <3>2. awaiting'[i] = a
      BY <1>0, <3>1 DEF a
    <3>3. QED
      BY <1>2, <3>1, <3>2
  <2>3. QED
    BY <1>4, <2>1, <2>2 DEF Call
<1>5. ASSUME NEW c \in Calls, Connecting(c) PROVE Doomed(i)'
  <2>1. c \in DOMAIN attempts /\ UNCHANGED <<awaiting, channel>>
    BY <1>0, <1>5 DEF Connecting, ConnectReady, ConnectFails, Calls
  <2>2. awaiting'[i] = a
    BY <2>1 DEF a
  <2>3. CASE ConnectReady(c)
    <3>1. c # a /\ attempts' = [attempts EXCEPT ![c] = [attempts[c] EXCEPT !.outcome = "ok"]]
      BY <1>0, <2>3 DEF ConnectReady
    <3>2. a \in DOMAIN attempts' /\ attempts'[a] = attempts[a]
      BY <1>0, <2>1, <3>1
    <3>3. QED
      BY <1>0, <1>1, <2>1, <2>2, <3>2
  <2>4. CASE ConnectFails(c)
    <3>1. attempts' = [attempts EXCEPT ![c] = [attempts[c] EXCEPT !.outcome = "failed"]]
      BY <2>4 DEF ConnectFails
    <3>2. attempts[c] \in Attempts
      BY <1>0, <2>1
    <3>3. attempts'[a] = attempts[a] \/ (a = c /\ attempts'[a] = [attempts[c] EXCEPT !.outcome = "failed"])
      BY <1>0, <2>1, <3>1
    <3>4. attempts'[a].channel = attempts[a].channel /\ attempts'[a].outcome # "ok"
      BY <1>0, <3>2, <3>3 DEF Attempts
    <3>5. a \in DOMAIN attempts'
      BY <1>0, <2>1, <3>1
    <3>6. QED
      BY <1>1, <2>1, <2>2, <3>4, <3>5
  <2>5. QED
    BY <1>5, <2>3, <2>4 DEF Connecting
<1>6. CASE Joined
  <2>1. awaiting' = awaiting /\ (Connect \/ UNCHANGED <<attempts, channel>>)
    BY <1>6 DEF Joined
  <2>2. QED
    BY <1>2, <1>3, <2>1 DEF a
<1>7. CASE \/ \E c \in Calls : Resume(c) \/ CancelSubscription(c) \/ Task(c)
           \/ Begin \/ StartDex \/ Updated \/ UNCHANGED vars
  <2>1. UNCHANGED <<attempts, awaiting, channel>>
    BY <1>7 DEF Resume, CancelSubscription, Task, Begin, StartDex, Updated, vars, link
  <2>2. QED
    BY <1>3, <2>1
<1>8. CASE Disconnect
  BY <1>3, <1>8 DEF Disconnect
<1>9. QED
  BY <1>4, <1>5, <1>6, <1>7, <1>8 DEF Next, Works

\* An answer is given once.
LEMMA AnswersStay ==
  ASSUME Base, Linked, [Next]_vars, NEW i \in Calls, answer'[i] = "none"
  PROVE  answer[i] = "none"
<1>0. answer \in [Calls -> {"none", "ok", "error"}]
  BY DEF Linked
<1>1. ASSUME NEW c, NEW r \in {"ok", "error"}, answer' = [answer EXCEPT ![c] = r] PROVE answer[i] = "none"
  BY <1>0, <1>1
<1>2. \/ answer' = answer
      \/ \E c : \E r \in {"ok", "error"} : answer' = [answer EXCEPT ![c] = r]
  <2>1. CASE \E c \in Calls : Resume(c)
    BY <2>1 DEF Resume
  <2>2. CASE Begin
    BY <2>2 DEF Begin, BeginUpdate, BeginStop
  <2>3. CASE Joined \/ StartDex \/ Updated \/ Disconnect
    BY <2>3 DEF Joined, StartDex, Updated, Disconnect
  <2>4. CASE \/ \E kind \in Kinds : Call(kind)
             \/ \E c \in Calls : CancelSubscription(c) \/ Task(c) \/ Connecting(c)
             \/ UNCHANGED vars
    BY <2>4 DEF Call, Chain, Unchained, CancelSubscription, Task, Connecting, ConnectReady, ConnectFails, vars
  <2>5. QED
    BY <2>1, <2>2, <2>3, <2>4 DEF Next, Works
<1>3. QED
  BY <1>1, <1>2

\* A step that brings none of the old calls to life and settles no disconnect().
LEMMA HushedAlone ==
  ASSUME Base, Linked, WorkKinds, Hushed, [Next]_vars, ~Disconnect,
         \A i, d \in Calls : i < d /\ Settled(d) => (Live(i)' => Live(i))
  PROVE  Hushed'
<1> SUFFICES ASSUME NEW i \in Calls, NEW d \in Calls, i < d, Settled(d)'
             PROVE  ~Live(i)' /\ (made'[i] \notin Chained /\ answer'[i] = "none" => Doomed(i)')
  BY DEF Hushed
<1>1. Settled(d)
  BY NextSettled
<1>2. ~Live(i) /\ (made[i] \notin Chained /\ answer[i] = "none" => Doomed(i))
  BY <1>1 DEF Hushed
<1>3. i <= Len(made) /\ made'[i] = made[i]
  <2>1. Len(made) \in Nat /\ (i <= Len(made) => made'[i] = made[i])
    BY NextMade DEF Base
  <2>2. d <= Len(made)
    BY <1>1 DEF Settled
  <2>3. QED
    BY <2>1, <2>2 DEF Calls
<1>4. ~Live(i)'
  BY <1>1, <1>2
<1>5. ASSUME made'[i] \notin Chained, answer'[i] = "none" PROVE Doomed(i)'
  BY <1>2, <1>3, <1>5, AnswersStay, NextDoomed
<1>6. QED
  BY <1>4, <1>5

\* No step brings anything to life that was called before a settled disconnect().
LEMMA NextHushed ==
  Base /\ Linked /\ WorkKinds /\ InTurn /\ Registered /\ Hushed /\ [Next]_vars => Hushed'
<1> SUFFICES ASSUME Base, Linked, WorkKinds, InTurn, Registered, Hushed, [Next]_vars PROVE Hushed'
  OBVIOUS
<1>0. tasks \in [Calls -> Tasks]
  BY DEF Base, Types
<1>1. ASSUME ~Disconnect, ~StartDex, \A c \in Calls : ~Resume(c) PROVE Hushed'
  BY <1>1, HushedAlone, NextNothingNew DEF NothingNew
<1>2. ASSUME ~Disconnect, NEW c \in Calls, Resume(c) PROVE Hushed'
  <2>1. CASE tasks' = tasks
    BY <1>2, <2>1, HushedAlone DEF Live, Running
  <2>2. CASE tasks' # tasks
    <3>1. /\ tasks' = [tasks EXCEPT ![c] = Fresh] /\ Succeeded(awaiting[c])
          /\ made[c] \notin Chained /\ answer[c] = "none"
      BY <1>2, <2>2 DEF Resume, Resumable
    <3>2. ~Doomed(c)
      <4>1. Nobody \notin DOMAIN attempts
        BY DEF Base, Types, Nobody
      <4>2. QED
        BY <3>1, <4>1 DEF Succeeded, Doomed
    <3>3. ASSUME NEW i \in Calls, NEW d \in Calls, i < d, Settled(d), Live(i)' PROVE Live(i)
      <4>1. i # c
        BY <3>1, <3>2, <3>3 DEF Hushed
      <4>2. QED
        BY <1>0, <3>1, <3>3, <4>1 DEF Live, Running
    <3>4. QED
      BY <1>2, <3>3, HushedAlone
  <2>3. QED
    BY <2>1, <2>2
<1>3. ASSUME ~Disconnect, StartDex PROVE Hushed'
  <2>1. work.at # "idle" /\ (tasks' = tasks \/ tasks' = [tasks EXCEPT ![work.call] = Fresh])
    BY <1>3 DEF StartDex
  <2>2. work.call \in Calls
    BY <1>3 DEF StartDex, Base, Made
  <2>3. ASSUME NEW i \in Calls, NEW d \in Calls, i < d, Settled(d), Live(i)' PROVE Live(i)
    <3>1. d < work.call
      BY <2>1, <2>3 DEF InTurn
    <3>2. i # work.call
      BY <2>2, <2>3, <3>1 DEF Calls
    <3>3. QED
      BY <1>0, <2>1, <2>3, <3>2 DEF Live, Running
  <2>4. QED
    BY <1>3, <2>3, HushedAlone
<1>4. CASE Disconnect
  <2> SUFFICES ASSUME NEW i \in Calls, NEW d \in Calls, i < d, Settled(d)'
               PROVE  ~Live(i)' /\ (made'[i] \notin Chained /\ answer'[i] = "none" => Doomed(i)')
    BY DEF Hushed
  <2>1. /\ tasks' = CancelAll(Everybody) /\ made' = made /\ closing \in Calls /\ closing <= Len(made)
        /\ answer' = [answer EXCEPT ![closing] = "ok"] /\ channel' = channel + 1
        /\ UNCHANGED <<attempts, awaiting>> /\ \A c \in Calls : ~Resumable(c)
    BY <1>4 DEF Disconnect, WorkKinds
  <2>2. ~Live(i)'
    BY <2>1, CancelAllNothingNew DEF Registered, NothingNew
  <2>3. i <= Len(made)
    <3>1. d <= Len(made)
      BY <2>1 DEF Settled
    <3>2. Len(made) \in Nat
      BY DEF Base, Types
    <3>3. QED
      BY <3>1, <3>2 DEF Calls
  <2>4. ASSUME made[i] \notin Chained, answer'[i] = "none" PROVE Doomed(i)'
    <3>1. Flying(awaiting[i])
      BY <2>1, <2>3, <2>4, AnswersStay DEF Resumable
    <3>2. awaiting[i] \in DOMAIN attempts /\ attempts[awaiting[i]].outcome = "flying"
      BY <3>1 DEF Flying, Linked
    <3>3. attempts[awaiting[i]].channel <= channel
      BY <3>2 DEF Linked
    <3>4. attempts[awaiting[i]] \in Attempts /\ channel \in Nat
      BY <3>2 DEF Base, Types
    <3>5. attempts[awaiting[i]].channel < channel + 1
      BY <3>3, <3>4 DEF Attempts
    <3>6. QED
      BY <2>1, <3>2, <3>5 DEF Doomed
  <2>5. QED
    BY <2>1, <2>2, <2>4
<1>5. QED
  BY <1>1, <1>2, <1>3, <1>4

\* DisconnectSilences, for any number of calls: once a disconnect() has resolved,
\* nothing that was called before it lives, and nothing of it comes alive later.
THEOREM DisconnectLeavesNone == Spec => []DisconnectSilences
<1>1. Init => Registered /\ Hushed
  <2>1. Init => \A i \in Calls : ~Live(i) /\ ~Settled(i)
    BY DEF Init, Live, Running, Settled, Fresh
  <2>2. QED
    BY <2>1 DEF Registered, Hushed
<1>2. Base /\ Listed /\ Registered /\ [Next]_vars => Registered'
  BY NextRegistered
<1>3. Base /\ Linked /\ WorkKinds /\ InTurn /\ Registered /\ Hushed /\ [Next]_vars => Hushed'
  BY NextHushed
<1>4. Hushed => DisconnectSilences
  BY DEF Hushed, DisconnectSilences, Settled
<1>5. QED
  BY <1>1, <1>2, <1>3, <1>4, TurnsHold, PTL DEF Spec
=================================================================================
