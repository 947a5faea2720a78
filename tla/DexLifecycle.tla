------------------------------ MODULE DexLifecycle ------------------------------
(***************************************************************************)
(* grpc/client.ts, class YellowstoneGrpc around its subscriptions: the      *)
(* promise chain withDexLifecycle, connect() and its shared promise,        *)
(* subscribeDexEvents, stop, updateSubscription, disconnect, and the raw    *)
(* subscriptions of subscribeTransactions, which take no part in the chain. *)
(*                                                                         *)
(* A call is the number of the position at which it was made; a             *)
(* subscription has the number of its call, and so has a set of filters.    *)
(***************************************************************************)
EXTENDS Integers, Sequences, SequencesExt, StreamTask

CONSTANTS
  MaxCalls,      \* bound: calls the application makes
  MaxCancels,    \* bound: subscriptions the application cancels itself
  MaxFailures    \* bound: connects that fail, and options that are rejected

ASSUME LifecycleAssumption == {MaxCalls, MaxCancels, MaxFailures} \subseteq Nat

Chained  == {"subscribe", "stop", "update", "disconnect"}
Kinds    == Chained \cup {"connect", "raw"}
Calls    == 1 .. MaxCalls
Nobody   == 0

VARIABLES
  made,          \* kinds of the calls made so far
  answer,        \* per call: what its promise settled to, if it did
  \* the lifecycle chain
  queue,         \* calls whose work waits in dexLifecycle
  work,          \* the work that runs: its call, where it awaits, and what
  closing,       \* a disconnect() whose stop() has just resolved
  activeDex,
  dexSubscribers,     \* ids, in the order of the Map
  subscribers,        \* ids of the raw subscriptions
  \* connect()
  connected,
  connectPromise,     \* the attempt it belongs to
  attempts,           \* per attempt: the channel it watches and its outcome
  channel,            \* how often the client was closed
  awaiting,           \* calls outside the chain: the attempt each awaits
  \* subscriptions
  tasks,
  filters,            \* currentTransactionFilters, currentAccountFilters
  sent,               \* the filters the open stream was asked for
  cancels, failures

chain  == <<queue, work, closing>>
maps   == <<activeDex, dexSubscribers, subscribers>>
link   == <<connected, connectPromise, attempts, channel, awaiting>>
subs   == <<tasks, filters, sent>>
bounds == <<cancels, failures>>
vars   == <<made, answer, chain, maps, link, subs, bounds>>

Idle == [call |-> Nobody, at |-> "idle", on |-> Nobody]

Init ==
  /\ made = <<>> /\ answer = [c \in Calls |-> "none"]
  /\ queue = <<>> /\ work = Idle /\ closing = Nobody
  /\ activeDex = Nobody /\ dexSubscribers = <<>> /\ subscribers = {}
  /\ connected = FALSE /\ connectPromise = Nobody /\ attempts = <<>> /\ channel = 1
  /\ awaiting = [c \in Calls |-> Nobody]
  /\ tasks = [c \in Calls |-> [Fresh EXCEPT !.phase = "done"]]
  /\ filters = [c \in Calls |-> c] /\ sent = [c \in Calls |-> c]
  /\ cancels = 0 /\ failures = 0

\* delete on the Map, which holds an id once.
Without(seq, id) == RemoveFirst(seq, id)

-------------------------------------------------------------------------------
(* connect() *)

Flying(a) == a # Nobody /\ attempts[a].outcome = "flying"

Succeeded(a) == IF a = Nobody THEN TRUE ELSE attempts[a].outcome = "ok"

\* What a caller of connect() awaits: nothing, the shared promise, or a new one.
Promised == IF connected THEN Nobody
            ELSE IF connectPromise # Nobody THEN connectPromise ELSE Len(attempts) + 1

Connect ==
  IF connected \/ connectPromise # Nobody
    THEN UNCHANGED <<connected, connectPromise, attempts, channel>>
    ELSE /\ connectPromise' = Len(attempts) + 1
         /\ attempts' = Append(attempts, [channel |-> channel, outcome |-> "flying"])
         /\ UNCHANGED <<connected, channel>>

\* waitForReady succeeds; on a closed channel it cannot.
ConnectReady(a) ==
  /\ Flying(a) /\ attempts[a].channel = channel
  /\ attempts' = [attempts EXCEPT ![a].outcome = "ok"]
  /\ connected' = TRUE
  /\ UNCHANGED <<made, answer, chain, maps, connectPromise, channel, awaiting, subs, bounds>>

\* It fails, or its channel was closed.  Every caller's catch clears the shared
\* promise, be it still this one or not.
ConnectFails(a) ==
  /\ Flying(a)
  /\ attempts[a].channel = channel => failures < MaxFailures
  /\ failures' = IF attempts[a].channel = channel THEN failures + 1 ELSE failures
  /\ attempts' = [attempts EXCEPT ![a].outcome = "failed"]
  /\ connectPromise' = Nobody
  /\ UNCHANGED <<made, answer, chain, maps, connected, channel, awaiting, subs, cancels>>

-------------------------------------------------------------------------------
(* The application's calls *)

Chain(kind) ==
  /\ kind \in Chained
  /\ queue' = Append(queue, Len(made) + 1)
  /\ UNCHANGED <<answer, work, closing, maps, link, subs>>

\* connect() itself, and subscribeTransactions, which connects first.
Unchained(kind) ==
  /\ kind \notin Chained
  /\ Connect
  /\ awaiting' = [awaiting EXCEPT ![Len(made) + 1] = Promised]
  /\ UNCHANGED <<answer, chain, maps, subs>>

Call(kind) ==
  /\ Len(made) < MaxCalls
  /\ made' = Append(made, kind)
  /\ Chain(kind) \/ Unchained(kind)
  /\ UNCHANGED bounds

\* The connection a call outside the chain awaited is there, or is not.
Resumable(c) ==
  c <= Len(made) /\ made[c] \notin Chained /\ answer[c] = "none" /\ ~Flying(awaiting[c])

Resume(c) ==
  /\ Resumable(c)
  /\ LET ok == Succeeded(awaiting[c])
     IN  /\ answer' = [answer EXCEPT ![c] = IF ok THEN "ok" ELSE "error"]
         /\ IF ok /\ made[c] = "raw"
              THEN /\ subscribers' = subscribers \cup {c}
                   /\ tasks' = [tasks EXCEPT ![c] = Fresh]
              ELSE UNCHANGED <<subscribers, tasks>>
  /\ UNCHANGED <<made, chain, activeDex, dexSubscribers, link, filters, sent, bounds>>

\* cancel() of a subscription's handle, and unsubscribe(): its entry leaves at once.
CancelSubscription(i) ==
  /\ cancels < MaxCancels /\ answer[i] = "ok"
  /\ \E u \in Tasks : Cancelled(tasks[i], u) /\ tasks' = [tasks EXCEPT ![i] = u]
  /\ dexSubscribers' = Without(dexSubscribers, i)
  /\ subscribers' = subscribers \ {i}
  /\ cancels' = cancels + 1
  /\ UNCHANGED <<made, answer, chain, activeDex, link, filters, sent, failures>>

-------------------------------------------------------------------------------
(* The works of the chain, one at a time *)

\* What cancel() does to the tasks of a set; a task that is over does not notice.
CancelAll(S) ==
  [i \in Calls |-> IF i \in S /\ tasks[i].phase # "done"
                     THEN [tasks[i] EXCEPT !.cancelled = TRUE, !.holder = FALSE]
                     ELSE tasks[i]]

\* Mutant: stop() waits for a task it has not cancelled.
StopNobody == {}

StopTarget == {activeDex}

\* stopDexUnlocked up to its join().
BeginStop(c) ==
  /\ tasks' = CancelAll(StopTarget)
  /\ work' = [call |-> c, at |-> "joining", on |-> activeDex]
  /\ activeDex' = Nobody
  /\ UNCHANGED <<answer, filters, sent>>

\* updateDexUnlocked: the first entry of the Map gets the filters, and its open
\* stream, if any, a request with them.
BeginUpdate(c) ==
  /\ IF dexSubscribers = <<>>
       THEN /\ answer' = [answer EXCEPT ![c] = "error"]
            /\ UNCHANGED <<work, filters, sent>>
       ELSE LET i == Head(dexSubscribers)
            IN  /\ filters' = [filters EXCEPT ![i] = c]
                /\ IF tasks[i].holder
                     THEN /\ sent' = [sent EXCEPT ![i] = c]
                          /\ work' = [call |-> c, at |-> "updating", on |-> i]
                          /\ UNCHANGED answer
                     ELSE /\ answer' = [answer EXCEPT ![c] = "ok"]
                          /\ UNCHANGED <<sent, work>>
  /\ UNCHANGED <<activeDex, tasks>>

Begin ==
  /\ work = Idle /\ queue # <<>>
  /\ queue' = Tail(queue)
  /\ IF made[Head(queue)] = "update" THEN BeginUpdate(Head(queue)) ELSE BeginStop(Head(queue))
  /\ UNCHANGED <<made, closing, dexSubscribers, subscribers, link, bounds>>

\* Mutant: the next subscription does not wait for the one before it.
JoinedAtOnce == TRUE

JoinDone == work.on # Nobody => tasks[work.on].phase = "done"

\* stopDexUnlocked is over.  What disconnect() does next runs before the work
\* that follows it in the chain gets past its first await.
Joined ==
  /\ work.at = "joining" /\ JoinDone /\ closing = Nobody
  /\ LET c == work.call
     IN  \/ /\ made[c] = "stop"
            /\ work' = Idle /\ answer' = [answer EXCEPT ![c] = "ok"]
            /\ UNCHANGED <<closing, connected, connectPromise, attempts, channel>>
         \/ /\ made[c] = "disconnect"
            /\ work' = Idle /\ closing' = c
            /\ UNCHANGED <<answer, connected, connectPromise, attempts, channel>>
         \/ /\ made[c] = "subscribe"
            /\ Connect
            /\ work' = [call |-> c, at |-> "connecting", on |-> Promised]
            /\ UNCHANGED <<answer, closing>>
  /\ UNCHANGED <<made, queue, maps, awaiting, subs, bounds>>

\* startDexEvents after its connect(): an option out of range, or a new task.
StartDex ==
  /\ work.at = "connecting" /\ ~Flying(work.on)
  /\ work' = Idle
  /\ LET c == work.call
         ok == Succeeded(work.on)
     IN  \/ /\ ok
            /\ answer' = [answer EXCEPT ![c] = "ok"]
            /\ tasks' = [tasks EXCEPT ![c] = Fresh]
            /\ dexSubscribers' = Append(dexSubscribers, c)
            /\ activeDex' = c
            /\ UNCHANGED failures
         \/ /\ ok => failures < MaxFailures
            /\ failures' = IF ok THEN failures + 1 ELSE failures
            /\ answer' = [answer EXCEPT ![c] = "error"]
            /\ UNCHANGED <<tasks, dexSubscribers, activeDex>>
  /\ UNCHANGED <<made, queue, closing, subscribers, link, filters, sent, cancels>>

\* The write callback of an update.
Updated ==
  /\ work.at = "updating"
  /\ work' = Idle
  /\ \E outcome \in {"ok", "error"} : answer' = [answer EXCEPT ![work.call] = outcome]
  /\ UNCHANGED <<made, queue, closing, maps, link, subs, bounds>>

\* Mutants: the connection still counts as open; raw subscriptions are forgotten.
StayConnected == UNCHANGED connected
DexOnly       == ToSet(dexSubscribers)

Everybody    == subscribers \cup ToSet(dexSubscribers)
Disconnected == connected' = FALSE

\* disconnect() after its stop().  Continuations of calls made before it have run.
Disconnect ==
  /\ closing # Nobody
  /\ \A c \in Calls : ~Resumable(c)
  /\ tasks' = CancelAll(Everybody)
  /\ subscribers' = {} /\ dexSubscribers' = <<>>
  /\ channel' = channel + 1 /\ Disconnected /\ connectPromise' = Nobody
  /\ answer' = [answer EXCEPT ![closing] = "ok"] /\ closing' = Nobody
  /\ UNCHANGED <<made, queue, work, activeDex, attempts, awaiting, filters, sent, bounds>>

-------------------------------------------------------------------------------
(* The stream tasks *)

\* Mutants: every request asks for the filters subscribe was called with; a task
\* that ends leaves its entry behind.
FirstFilters(i)  == i
KeepEntry(i)     == UNCHANGED dexSubscribers

RequestFilters(i) == filters[i]
DropEntry(i)      == dexSubscribers' = Without(dexSubscribers, i)

Task(i) ==
  /\ \E u \in Tasks : TaskStep(tasks[i], u) /\ tasks' = [tasks EXCEPT ![i] = u]
  /\ sent' = IF tasks[i].phase = "opening" /\ tasks'[i].holder
               THEN [sent EXCEPT ![i] = RequestFilters(i)] ELSE sent
  /\ IF tasks'[i].phase = "done"
       THEN DropEntry(i) /\ subscribers' = subscribers \ {i}
       ELSE UNCHANGED <<dexSubscribers, subscribers>>
  /\ UNCHANGED <<made, answer, chain, activeDex, link, filters, bounds>>

-------------------------------------------------------------------------------
Works == Begin \/ Joined \/ StartDex \/ Updated \/ Disconnect

Connecting(a) == a <= Len(attempts) /\ (ConnectReady(a) \/ ConnectFails(a))

Next ==
  \/ \E kind \in Kinds : Call(kind)
  \/ \E c \in Calls : Resume(c) \/ CancelSubscription(c) \/ Task(c) \/ Connecting(c)
  \/ Works

\* The event loop runs what is ready, a connect is answered or times out, and a
\* cancelled task runs to its end as far as DexSubscription says it does.
Fairness ==
  /\ WF_vars(Works)
  /\ \A c \in Calls : /\ WF_vars(Resume(c)) /\ WF_vars(Connecting(c))
                      /\ WF_vars(tasks[c].cancelled /\ Task(c))

Spec == Init /\ [][Next]_vars /\ Fairness

-------------------------------------------------------------------------------
(* Properties *)

Running(i) == tasks[i].phase # "done"
Live(i)    == Running(i) /\ ~tasks[i].cancelled

\* Every variable keeps its type.
TypeOK ==
  /\ made \in Seq(Kinds) /\ Len(made) <= MaxCalls
  /\ answer \in [Calls -> {"none", "ok", "error"}]
  /\ queue \in Seq(Calls)
  /\ work \in [call : Calls \cup {Nobody}, at : {"idle", "joining", "connecting", "updating"},
               on : Calls \cup {Nobody}]
  /\ {closing, activeDex, connectPromise} \subseteq Calls \cup {Nobody}
  /\ dexSubscribers \in Seq(Calls) /\ subscribers \subseteq Calls
  /\ connected \in BOOLEAN
  /\ attempts \in Seq([channel : Nat, outcome : {"flying", "ok", "failed"}])
  /\ awaiting \in [Calls -> Calls \cup {Nobody}]
  /\ tasks \in [Calls -> Tasks]
  /\ filters \in [Calls -> Calls] /\ sent \in [Calls -> Calls]
  /\ {channel, cancels, failures} \subseteq Nat

\* Two DEX subscriptions never run at the same time, not even while the older
\* one is on its way out: whatever runs is the active one or the one being joined.
OneDexTask ==
  \A i \in Calls :
    Running(i) /\ made[i] = "subscribe" => i = activeDex \/ (work.at = "joining" /\ work.on = i)

\* Whenever an update may begin, the first entry of dexSubscribers is the active
\* subscription, and its task runs: filters never land in one that is over.
UpdateFindsActive ==
  work = Idle /\ dexSubscribers # <<>> => dexSubscribers = <<activeDex>> /\ Live(activeDex)

\* An open stream was asked for the newest filters of its subscription, however
\* an update falls between reconnects, requests and cancels.
FiltersReachServer == \A i \in Calls : tasks[i].holder => sent[i] = filters[i]

\* Nothing that was subscribed before a disconnect() lives on after it, be it
\* queued, connecting or running when disconnect() was called.
DisconnectSilences ==
  \A i, d \in Calls : i < d /\ d <= Len(made) /\ made[d] = "disconnect" /\ answer[d] = "ok" => ~Live(i)

\* isConnected() is true only if the channel in use became ready.
ConnectedMeansReady ==
  connected => \E a \in DOMAIN attempts : attempts[a] = [channel |-> channel, outcome |-> "ok"]

\* Every call is answered, whatever else was called and whatever fails, except
\* that a task deaf to its stream's goodbye holds up the chain behind it.
CallsAnswered ==
  \A c \in Calls : c <= Len(made) ~> answer[c] # "none" \/ \E i \in Calls : tasks[i].deaf
===============================================================================
