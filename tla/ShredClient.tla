------------------------------- MODULE ShredClient -------------------------------
(***************************************************************************)
(* shredstream/client.ts: subscribe() and stop() queue behind each other in *)
(* lifecycleTail; each subscription runs one reconnect loop with its own    *)
(* abort signal and event queue; the address table cache runs beside it.    *)
(*                                                                         *)
(* Subscriptions are numbered in the order they start; loopAbort and        *)
(* loopPromise hold such a number, 0 for null.  A handler that settles a    *)
(* promise and the continuation that follows are two steps.                 *)
(***************************************************************************)
EXTENDS Integers, Sequences

CONSTANTS
  Budgets,       \* values of max_reconnect_attempts, 0 for no limit
  Cap,           \* ShredEventQueue.CAP
  MaxCalls,      \* bound: calls of subscribe() and stop()
  MaxMessages,   \* bound: messages of one subscription
  MaxFailures    \* bound: streams of one subscription that fail

ASSUME ClientAssumption ==
  /\ Budgets \subseteq Nat
  /\ Cap \in Nat \ {0}
  /\ {MaxCalls, MaxMessages, MaxFailures} \subseteq Nat

Subscriptions == 1 .. MaxCalls

VARIABLES
  budget,        \* config.max_reconnect_attempts
  \* the client
  lifecycle,     \* lifecycleTail: calls that have not returned, oldest first
  stopping,      \* the oldest of them is past the abort in stopUnlocked
  loopAbort, loopPromise,
  activeCall,    \* the subscription whose stream it is
  caching,       \* altCache is started
  receiveStats,
  \* each subscription
  started,       \* subscriptions so far
  phase,         \* its loop
  attempts, aborted,
  wire,          \* its newest stream: none, open, cancelled, over
  queue,         \* events in its queue
  \* history of each subscription, read by the properties only
  received, accepted, failedInRow

client == <<lifecycle, stopping, loopAbort, loopPromise, started>>
loops  == <<phase, attempts, aborted>>
data   == <<queue, received, accepted, receiveStats>>
vars   == <<budget, client, activeCall, caching, loops, wire, data, failedInRow>>

Phases == {"none", "streaming", "ended", "failed", "sleeping", "awake", "finally", "done"}

Zero == [s \in Subscriptions |-> 0]

Init ==
  /\ budget \in Budgets
  /\ lifecycle = <<>> /\ stopping = FALSE
  /\ loopAbort = 0 /\ loopPromise = 0 /\ activeCall = 0 /\ caching = FALSE
  /\ receiveStats = [messages |-> 0, events |-> 0]
  /\ started = 0
  /\ phase = [s \in Subscriptions |-> "none"] /\ attempts = Zero
  /\ aborted = [s \in Subscriptions |-> FALSE]
  /\ wire = [s \in Subscriptions |-> "none"]
  /\ queue = Zero /\ received = Zero /\ accepted = Zero /\ failedInRow = Zero

-------------------------------------------------------------------------------
(* The user *)

Call(op) ==
  /\ started + Len(lifecycle) < MaxCalls
  /\ lifecycle' = Append(lifecycle, op)
  /\ UNCHANGED <<budget, stopping, loopAbort, loopPromise, started, activeCall, caching, loops,
                 wire, data, failedInRow>>

Pop(s) ==
  /\ queue[s] > 0
  /\ queue' = [queue EXCEPT ![s] = @ - 1]
  /\ UNCHANGED <<budget, client, activeCall, caching, loops, wire, received, accepted, receiveStats,
                 failedInRow>>

-------------------------------------------------------------------------------
(* subscribe() and stop() *)

\* Mutant: an abort cancels the stream and leaves its end to the transport.
AbortByTransport(p) == IF p = "sleeping" THEN "awake" ELSE p

\* The abort listeners: streamOnce settles at once, sleepMs wakes up.
Abort(p) == CASE p = "streaming" -> "ended" [] p = "sleeping" -> "awake" [] OTHER -> p

CancelCall(w) == IF w = "open" THEN "cancelled" ELSE w

\* stopUnlocked up to its await.
BeginStop ==
  /\ lifecycle # <<>> /\ ~stopping
  /\ stopping' = TRUE
  /\ caching' = FALSE
  /\ IF loopAbort = 0 THEN UNCHANGED <<loops, wire>>
     ELSE /\ aborted' = [aborted EXCEPT ![loopAbort] = TRUE]
          /\ phase' = [phase EXCEPT ![loopAbort] = Abort(@)]
          /\ wire' = [wire EXCEPT ![loopAbort] = IF phase[loopAbort] = "streaming"
                                                   THEN CancelCall(@) ELSE @]
          /\ UNCHANGED attempts
  /\ loopAbort' = 0 /\ activeCall' = 0
  /\ UNCHANGED <<budget, lifecycle, loopPromise, started, data, failedInRow>>

\* Mutant: nobody waits for the loop to end.
NeverAwaited == TRUE

LoopOver == loopPromise # 0 => phase[loopPromise] = "done"

NoStats == [messages |-> 0, events |-> 0]

\* The rest of stop(), or of subscribe(): a loop whose first stream opens at once.
EndStop ==
  /\ stopping /\ LoopOver
  /\ stopping' = FALSE
  /\ lifecycle' = Tail(lifecycle)
  /\ IF Head(lifecycle) = "stop"
       THEN /\ loopPromise' = 0
            /\ UNCHANGED <<loopAbort, started, activeCall, caching, loops, wire, receiveStats>>
       ELSE /\ started' = started + 1
            /\ receiveStats' = NoStats
            /\ loopAbort' = started' /\ loopPromise' = started' /\ activeCall' = started'
            /\ caching' = TRUE
            /\ phase' = [phase EXCEPT ![started'] = "streaming"]
            /\ attempts' = [attempts EXCEPT ![started'] = 1]
            /\ wire' = [wire EXCEPT ![started'] = "open"]
            /\ UNCHANGED aborted
  /\ UNCHANGED <<budget, queue, received, accepted, failedInRow>>

-------------------------------------------------------------------------------
(* A stream: the data, error and end handlers.  A cancelled call may still
   deliver what it has.                                                       *)

\* Mutant: the handler does not look whether anybody still wants the message.
Unguarded(s) == TRUE

Listening(s) == ~aborted[s] /\ phase[s] = "streaming"

\* ShredEventQueue.push refuses what a full queue has no room for.
Pushed(events, held) == IF events < Cap - held THEN events ELSE Cap - held

\* A message with so many events: pushed while there is room, counted all at the
\* end, unless a transaction throws before.
Data(s, events, throws) ==
  /\ wire[s] \in {"open", "cancelled"} /\ received[s] < MaxMessages
  /\ Listening(s)
  /\ received' = [received EXCEPT ![s] = @ + 1]
  /\ queue' = [queue EXCEPT ![s] = @ + Pushed(events, @)]
  /\ accepted' = [accepted EXCEPT ![s] = @ + Pushed(events, queue[s])]
  /\ receiveStats' = [messages |-> receiveStats.messages + 1,
                      events |-> receiveStats.events + (IF throws THEN 0 ELSE events)]
  /\ UNCHANGED <<budget, client, activeCall, caching, loops, wire, failedInRow>>

\* finish(): the first of error, end and abort settles streamOnce.
Finish(s, outcome) ==
  /\ wire[s] \in {"open", "cancelled"}
  /\ wire' = [wire EXCEPT ![s] = "over"]
  /\ phase' = [phase EXCEPT ![s] = IF @ = "streaming" THEN outcome ELSE @]
  /\ activeCall' = IF phase[s] = "streaming" /\ activeCall = s THEN 0 ELSE activeCall
  /\ UNCHANGED <<budget, client, caching, attempts, aborted, data>>

\* The end of the stream, or an error with the code CANCELLED.
StreamEnds(s) == Finish(s, "ended") /\ UNCHANGED failedInRow

StreamFails(s) ==
  /\ Listening(s) /\ failedInRow[s] < MaxFailures
  /\ Finish(s, "failed")
  /\ failedInRow' = [failedInRow EXCEPT ![s] = @ + 1]

-------------------------------------------------------------------------------
(* runReconnectLoop *)

Exhausted(n) == budget > 0 /\ n >= budget

\* The head of the loop, after n attempts in a row.
TryAgain(s, n) ==
  IF aborted[s] \/ Exhausted(n)
    THEN /\ phase' = [phase EXCEPT ![s] = "finally"]
         /\ attempts' = [attempts EXCEPT ![s] = n]
         /\ UNCHANGED <<wire, activeCall>>
    ELSE /\ phase' = [phase EXCEPT ![s] = "streaming"]
         /\ attempts' = [attempts EXCEPT ![s] = n + 1]
         /\ wire' = [wire EXCEPT ![s] = "open"]
         /\ activeCall' = s

\* Mutant: a stream that ended cleanly counts like one that failed.
CountOn(s) == attempts[s]

Afresh(s) == 0

AfterEnd(s) ==
  /\ phase[s] = "ended"
  /\ TryAgain(s, Afresh(s))
  /\ failedInRow' = [failedInRow EXCEPT ![s] = 0]
  /\ UNCHANGED <<budget, client, caching, aborted, data>>

AfterFailure(s) ==
  /\ phase[s] = "failed"
  /\ phase' = [phase EXCEPT ![s] = IF aborted[s] THEN "finally" ELSE "sleeping"]
  /\ UNCHANGED <<budget, client, activeCall, caching, attempts, aborted, wire, data, failedInRow>>

\* The timer of sleepMs fires.
Wake(s) ==
  /\ phase[s] = "sleeping"
  /\ phase' = [phase EXCEPT ![s] = "awake"]
  /\ UNCHANGED <<budget, client, activeCall, caching, attempts, aborted, wire, data, failedInRow>>

AfterSleep(s) ==
  /\ phase[s] = "awake"
  /\ TryAgain(s, attempts[s])
  /\ UNCHANGED <<budget, client, caching, aborted, data, failedInRow>>

CachingAfter(s) == caching /\ loopAbort # s

\* The finally of subscribe(): a loop that ended by itself stops the cache.
Finally(s) ==
  /\ phase[s] = "finally"
  /\ phase' = [phase EXCEPT ![s] = "done"]
  /\ caching' = CachingAfter(s)
  /\ UNCHANGED <<budget, client, activeCall, attempts, aborted, wire, data, failedInRow>>

-------------------------------------------------------------------------------
Lifecycle == BeginStop \/ EndStop
Stream(s) == \/ StreamEnds(s) \/ StreamFails(s)
             \/ \E events \in 0 .. 2, throws \in BOOLEAN : Data(s, events, throws)
Loop(s)   == AfterEnd(s) \/ AfterFailure(s) \/ Wake(s) \/ AfterSleep(s) \/ Finally(s)

Next ==
  \/ \E op \in {"subscribe", "stop"} : Call(op)
  \/ Lifecycle
  \/ \E s \in Subscriptions : Pop(s) \/ Stream(s) \/ Loop(s)

\* The event loop runs what is ready and timers fire.  The transport owes
\* nothing, not even the end of a cancelled stream.
Fairness == WF_vars(Lifecycle) /\ \A s \in Subscriptions : WF_vars(Loop(s))

Spec == Init /\ [][Next]_vars /\ Fairness

-------------------------------------------------------------------------------
(* Properties *)

\* Every variable keeps its type; no queue outgrows its capacity.
TypeOK ==
  /\ budget \in Budgets
  /\ lifecycle \in Seq({"subscribe", "stop"}) /\ stopping \in BOOLEAN /\ caching \in BOOLEAN
  /\ started \in 0 .. MaxCalls /\ activeCall \in 0 .. started
  /\ loopAbort \in 0 .. started /\ loopPromise \in 0 .. started
  /\ receiveStats \in [messages : Nat, events : Nat]
  /\ phase \in [Subscriptions -> Phases] /\ attempts \in [Subscriptions -> Nat]
  /\ aborted \in [Subscriptions -> BOOLEAN]
  /\ wire \in [Subscriptions -> {"none", "open", "cancelled", "over"}]
  /\ queue \in [Subscriptions -> 0 .. Cap]
  /\ received \in [Subscriptions -> Nat] /\ accepted \in [Subscriptions -> Nat]
  /\ failedInRow \in [Subscriptions -> Nat]

\* Subscriptions never overlap: a new one starts after the loop before it is
\* done, and an open stream belongs to the subscription nobody has stopped.
OneAtATime ==
  \A s \in Subscriptions : /\ s < started => phase[s] = "done"
                           /\ wire[s] = "open" => s = loopAbort

\* The table cache refreshes exactly while a loop runs that nobody stopped: not
\* after stop(), nor after the loop gave up, and never under a new loop's feet.
CachingWithLoop == caching <=> loopAbort # 0 /\ phase[loopAbort] # "done"

\* Once a subscription is stopped nothing reaches its queue, however late the
\* transport delivers.
SilentAfterStop ==
  [][\A s \in Subscriptions : aborted[s] => received'[s] = received[s] /\ queue'[s] <= queue[s]]_vars

\* The statistics count the messages of the newest subscription and no other.
StatsOfNewest ==
  receiveStats.messages = IF started = 0 THEN 0 ELSE received[started]

\* A loop with a limit gives up after exactly that many failures in a row, and a
\* stream that ended cleanly starts the count again.
GivesUpOnBudget ==
  \A s \in Subscriptions :
    /\ budget > 0 => failedInRow[s] <= budget
    /\ phase[s] = "done" /\ ~aborted[s] => failedInRow[s] = budget

\* The oldest call of subscribe() or stop() always gets its turn and returns,
\* whatever the transport does with the stream it cancels; so all of them do.
CallsReturn == /\ lifecycle # <<>> ~> stopping
               /\ stopping ~> ~stopping

\* Without a limit a subscription nobody stops keeps opening streams.
KeepsTrying ==
  \A s \in Subscriptions : []<>(phase[s] \in {"none", "streaming"} \/ aborted[s] \/ budget > 0)

\* Neither the calls nor the loop ever get stuck (serializeLifecycle,
\* runReconnectLoop).
MovesOn == CallsReturn /\ KeepsTrying

\* max_reconnect_attempts is the largest number of reconnections (config.ts): a
\* loop that gave up has reconnected that often after the stream that failed.
ReconnectsUsed ==
  \A s \in Subscriptions : phase[s] = "done" /\ ~aborted[s] => failedInRow[s] = budget + 1

===============================================================================
