---------------------------- MODULE DexSubscription ----------------------------
(***************************************************************************)
(* grpc/client.ts, startDexEvents: one DEX subscription of a Yellowstone    *)
(* client.  A stream task connects, reads and reconnects; its data handler *)
(* fills a bounded ingress queue; setImmediate callbacks drain the queue,   *)
(* parse, deduplicate and emit; cancel() may run between any two of these. *)
(*                                                                         *)
(* The chain is the sequence Log of the slots of its updates: update n is  *)
(* the n-th one the provider has, and n is also its identity.  Every await *)
(* of the task is a value of phase.  An event handler and the continuation *)
(* it releases are two steps, because a consumer woken by the handler may  *)
(* call cancel() before the continuation runs.                             *)
(***************************************************************************)
EXTENDS Integers, Sequences, SequencesExt

CONSTANTS
  Log,             \* slot of each update of the chain, in order
  IngressSize,     \* options.ingressBufferSize
  DedupeSlots,     \* options.replayDedupeSlots
  Configs,         \* the option and provider combinations to start from
  MaxFailures,     \* bound: streams that fail or end
  MaxParseErrors,  \* bound: updates whose processing throws
  MaxRefusals,     \* bound: events the full public queue refuses
  MaxPings         \* bound: pings of the provider

AllConfigs == [autoReconnect : BOOLEAN, replayOnReconnect : BOOLEAN,
               dropOldest : BOOLEAN, providerReplays : BOOLEAN]

Positions == 1 .. Len(Log)

ASSUME SubscriptionAssumption ==
  /\ Log \in Seq(Nat \ {0})
  /\ \A i, j \in Positions : i < j => Log[i] <= Log[j]
  /\ {IngressSize, DedupeSlots} \subseteq Nat \ {0}
  /\ Configs \subseteq AllConfigs
  /\ {MaxFailures, MaxParseErrors, MaxRefusals, MaxPings} \subseteq Nat

VARIABLES
  config,
  \* the stream task
  phase, attempted,      \* attempted: attemptedReplay of this attempt
  receivedData, replayAllowed, failure,
  holder,                \* streamHolder.current is a stream
  idleWaiter,            \* the task is parked in waitForIngressIdle
  \* shared with the handlers
  isCancelled, status, ingress, drainScheduled,
  lastParsedSlot,        \* 0 where the code holds undefined
  seenOrder, continuityBreaks,
  \* the provider and the transport
  tip,                   \* updates the chain has so far
  wire,                  \* the newest stream: none, open, closing, closed
  cursor,                \* the next update the stream will carry
  failures, pings,
  \* history, read by the properties only
  handled,               \* updates parsed without an error
  out,                   \* updates whose event reached the public queue
  parseErrors, refusals, ingressDrops, cancelledInWrite

task      == <<phase, attempted, receivedData, replayAllowed, failure, holder, idleWaiter>>
queues    == <<ingress, drainScheduled>>
parser    == <<lastParsedSlot, seenOrder>>
transport == <<tip, wire, cursor, failures, pings>>
history   == <<handled, out, parseErrors, refusals, ingressDrops, cancelledInWrite>>
vars == <<config, task, isCancelled, status, queues, parser, continuityBreaks,
          transport, history>>

Phases == {"subscribe", "write", "stream", "failed", "ended",
           "drainFailed", "drainEnded", "backoff", "finally", "done"}

Init ==
  /\ config \in Configs
  /\ phase = "subscribe" /\ attempted = FALSE /\ receivedData = FALSE
  /\ replayAllowed = config.replayOnReconnect
  /\ failure = "none" /\ holder = FALSE /\ idleWaiter = FALSE
  /\ isCancelled = FALSE
  /\ status = [state |-> "connecting", broken |-> FALSE]
  /\ ingress = <<>> /\ drainScheduled = FALSE
  /\ lastParsedSlot = 0 /\ seenOrder = <<>>
  /\ continuityBreaks = 0
  /\ tip = 0 /\ wire = "none" /\ cursor = 1 /\ failures = 0 /\ pings = 0
  /\ handled = {} /\ out = <<>>
  /\ parseErrors = 0 /\ refusals = 0 /\ ingressDrops = 0 /\ cancelledInWrite = FALSE

\* transition(state, broken): continuityBroken is sticky.
Status(state, broken) == [state |-> state, broken |-> status.broken \/ broken]

-------------------------------------------------------------------------------
(* The chain and the transport (external) *)

Produce ==
  /\ tip < Len(Log)
  /\ tip' = tip + 1
  /\ UNCHANGED <<config, task, isCancelled, status, queues, parser, continuityBreaks,
                 wire, cursor, failures, pings, history>>

\* The first update the provider sends: from the requested slot, or live.
StartOf(replay) ==
  IF replay /\ \E p \in 1 .. tip : Log[p] >= lastParsedSlot
    THEN CHOOSE p \in 1 .. tip :
           /\ Log[p] >= lastParsedSlot
           /\ \A q \in 1 .. p - 1 : Log[q] < lastParsedSlot
    ELSE tip + 1

\* A stream whose replay request the provider does not serve carries nothing.
Serving == attempted => config.providerReplays

CancelStream == wire' = IF wire = "open" THEN "closing" ELSE wire

-------------------------------------------------------------------------------
(* Connecting *)

Parsed == lastParsedSlot # 0

\* Mutant: the request asks for live updates only.
NeverReplay == FALSE

\* shouldReplay: something was parsed only by an earlier attempt, so attempt > 1.
ShouldReplay == replayAllowed /\ Parsed

\* client.subscribe() resolves: a stream, cancelled at once if nobody wants it.
SubscribeOk ==
  /\ phase = "subscribe"
  /\ IF isCancelled
       THEN /\ wire' = "closing"
            /\ phase' = "finally"
            /\ UNCHANGED <<holder, attempted>>
       ELSE /\ wire' = "open"
            /\ holder' = TRUE
            /\ phase' = "write"
            /\ attempted' = ShouldReplay
  /\ UNCHANGED <<config, receivedData, replayAllowed, failure, idleWaiter, isCancelled, status,
                 queues, parser, continuityBreaks, tip, cursor, failures, pings, history>>

\* client.subscribe() or the request write rejects.
SetupFails(kind) ==
  /\ phase \in {"subscribe", "write"}
  /\ kind = "unsupported" => phase = "write" /\ ~Serving
  /\ kind = "other" => failures < MaxFailures \/ isCancelled
  /\ failures' = IF kind = "other" /\ ~isCancelled THEN failures + 1 ELSE failures
  /\ failure' = kind
  /\ phase' = "failed"
  /\ UNCHANGED <<config, attempted, receivedData, replayAllowed, holder, idleWaiter, isCancelled,
                 status, queues, parser, continuityBreaks, tip, wire, cursor, pings, history>>

\* The write callback succeeds; listeners are installed on the stream as it is
\* now, even if cancel() ran meanwhile and the stream has already said goodbye.
WriteOk ==
  /\ phase = "write"
  /\ phase' = "stream"
  /\ cursor' = StartOf(attempted)
  /\ status' = Status("connected", FALSE)
  /\ UNCHANGED <<config, attempted, receivedData, replayAllowed, failure, holder, idleWaiter,
                 isCancelled, queues, parser, continuityBreaks, tip, wire, failures, pings, history>>

-------------------------------------------------------------------------------
(* Reading: the data, error and end handlers *)

Ping ==
  /\ phase = "stream" /\ wire = "open" /\ ~isCancelled /\ pings < MaxPings
  /\ pings' = pings + 1
  /\ receivedData' = TRUE
  /\ UNCHANGED <<config, phase, attempted, replayAllowed, failure, holder, idleWaiter, isCancelled,
                 status, queues, parser, continuityBreaks, tip, wire, cursor, failures, history>>

\* Mutant: a drop goes unnoticed.
AnnounceNothing  == UNCHANGED <<status, ingressDrops>>

IngressFull  == Len(ingress) = IngressSize
AnnounceDrop == /\ status' = Status(status.state, TRUE)
                /\ ingressDrops' = ingressDrops + 1

\* ingress.push, and the break a full queue means.
Enqueue(update) ==
  IF IngressFull
    THEN /\ ingress' = IF config.dropOldest THEN Append(Tail(ingress), update) ELSE ingress
         /\ AnnounceDrop
    ELSE /\ ingress' = Append(ingress, update)
         /\ UNCHANGED <<status, ingressDrops>>

\* Mutant: a drain is scheduled only for the first update of a stream.
ScheduleOnce == drainScheduled' = (drainScheduled \/ ~receivedData)

ScheduleIngressDrain == drainScheduled' = TRUE

Data ==
  /\ phase = "stream" /\ wire = "open" /\ ~isCancelled
  /\ Serving /\ cursor <= tip
  /\ cursor' = cursor + 1
  /\ receivedData' = TRUE
  /\ Enqueue(cursor)
  /\ ScheduleIngressDrain
  /\ UNCHANGED <<config, phase, attempted, replayAllowed, failure, holder, idleWaiter, isCancelled,
                 parser, continuityBreaks, tip, wire, failures, pings, handled, out, parseErrors,
                 refusals, cancelledInWrite>>

\* Mutant: the loss of a stream is announced only when the next one is tried.
LoseSilently == UNCHANGED status

AnnounceLoss == status' = IF isCancelled THEN status ELSE Status("reconnecting", TRUE)

\* The stream says goodbye: it fails, it ends, or it obeys a cancel.  With the
\* listeners of phase "stream" installed the task learns of it; before, only
\* the error sink of cancelSubscribeStream is there to hear it.
Goodbye(next, kind) ==
  /\ \/ wire = "open" /\ phase = "stream" /\ kind = "unsupported" /\ ~Serving /\ next = "failed"
        /\ UNCHANGED failures
     \/ wire = "open" /\ phase = "stream" /\ kind = "other" /\ failures < MaxFailures
        /\ failures' = failures + 1
     \/ wire = "closing" /\ kind = "other" /\ UNCHANGED failures
  /\ wire' = "closed"
  /\ IF phase = "stream"
       THEN /\ phase' = next
            /\ failure' = kind
            /\ holder' = FALSE
            /\ AnnounceLoss
       ELSE UNCHANGED <<phase, failure, holder, status>>
  /\ UNCHANGED <<config, attempted, receivedData, replayAllowed, idleWaiter, isCancelled, queues,
                 parser, continuityBreaks, tip, cursor, pings, history>>

-------------------------------------------------------------------------------
(* Draining the ingress queue *)

\* Mutant: the window forgets what it has just remembered.
RetainNothing(order, slot) == <<>>

\* rememberParsedUpdate: identities leave in arrival order, once their slot is
\* more than DedupeSlots behind the highest one remembered.
Retain(order, slot) ==
  LET highest == Max({Log[p] : p \in ToSet(order)})
      stale(n) == \A i \in 1 .. n : Log[order[i]] < highest - DedupeSlots
      cut == CHOOSE n \in 0 .. Len(order) : stale(n) /\ (n = Len(order) \/ ~stale(n + 1))
  IN  SubSeq(order, cut + 1, Len(order))

Later(slot) == IF slot > lastParsedSlot THEN slot ELSE lastParsedSlot

\* Mutant: replayed updates are parsed again.
NeverReplayed(update) == FALSE

Replayed(update) == config.replayOnReconnect /\ update \in ToSet(seenOrder)

\* processUpdate: throw, skip a replayed update, or parse, emit and remember.
\* A throw (a parse failure or a conflicting account version) loses the update.
ProcessUpdate(update) ==
  \/ /\ parseErrors < MaxParseErrors
     /\ parseErrors' = parseErrors + 1
     /\ status' = Status(status.state, TRUE)
     /\ UNCHANGED <<lastParsedSlot, seenOrder, handled, out, refusals>>
  \/ /\ Replayed(update)
     /\ lastParsedSlot' = Later(Log[update])
     /\ UNCHANGED <<seenOrder, status, handled, out, refusals, parseErrors>>
  \/ /\ ~Replayed(update)
     /\ lastParsedSlot' = Later(Log[update])
     /\ seenOrder' = Retain(Append(seenOrder, update), Log[update])
     /\ handled' = handled \cup {update}
     /\ \/ /\ out' = Append(out, update)
           /\ UNCHANGED <<status, refusals>>
        \/ /\ refusals < MaxRefusals
           /\ refusals' = refusals + 1
           /\ status' = Status(status.state, TRUE)
           /\ UNCHANGED out
     /\ UNCHANGED parseErrors

\* One setImmediate callback.  The code handles up to parserBatchSize updates in
\* one; that is this step several times with nothing in between.
Drain ==
  /\ drainScheduled
  /\ IF ingress = <<>>
       THEN UNCHANGED <<ingress, parser, status, handled, out, refusals, parseErrors>>
       ELSE /\ ProcessUpdate(Head(ingress))
            /\ ingress' = Tail(ingress)
  /\ drainScheduled' = (ingress' # <<>>)
  /\ idleWaiter' = (idleWaiter /\ ingress' # <<>>)
  /\ UNCHANGED <<config, phase, attempted, receivedData, replayAllowed, failure, holder, isCancelled,
                 continuityBreaks, transport, ingressDrops, cancelledInWrite>>

-------------------------------------------------------------------------------
(* After a stream: catch, drain, back off, try again or finish *)

\* Mutant: the task does not wait for the updates it already received.
WaitForNothing == idleWaiter' = FALSE

WaitForIngressIdle == idleWaiter' = (ingress # <<>> \/ drainScheduled)

Catch ==
  /\ phase = "failed"
  /\ IF isCancelled
       THEN /\ phase' = "finally"
            /\ UNCHANGED <<status, holder, wire, idleWaiter>>
       ELSE /\ phase' = "drainFailed"
            /\ status' = Status("reconnecting", TRUE)
            /\ IF holder THEN CancelStream ELSE UNCHANGED wire
            /\ holder' = FALSE
            /\ WaitForIngressIdle
  /\ UNCHANGED <<config, attempted, receivedData, replayAllowed, failure, isCancelled, queues, parser,
                 continuityBreaks, tip, cursor, failures, pings, history>>

\* The stream ended without an error.
Ended ==
  /\ phase = "ended"
  /\ phase' = "drainEnded"
  /\ WaitForIngressIdle
  /\ UNCHANGED <<config, attempted, receivedData, replayAllowed, failure, holder, isCancelled, status,
                 queues, parser, continuityBreaks, transport, history>>

\* The provider refused to replay, as far as the task can tell.
Refused == attempted /\ ~receivedData /\ failure = "unsupported"

\* What this failed or ended stream adds to continuityBreakCount.
Break ==
  IF ~config.autoReconnect THEN (IF Parsed THEN 1 ELSE 0)
  ELSE IF phase = "drainFailed" /\ Refused THEN 1
  ELSE IF ~replayAllowed /\ Parsed THEN 1
  ELSE 0

Drained ==
  /\ phase \in {"drainFailed", "drainEnded"} /\ ~idleWaiter
  /\ IF phase = "drainEnded" /\ isCancelled
       THEN /\ phase' = "finally"
            /\ UNCHANGED <<continuityBreaks, replayAllowed>>
       ELSE /\ continuityBreaks' = continuityBreaks + Break
            /\ phase' = IF config.autoReconnect THEN "backoff" ELSE "finally"
            /\ replayAllowed' = IF config.autoReconnect /\ phase = "drainFailed" /\ Refused
                                  THEN FALSE ELSE replayAllowed
  /\ UNCHANGED <<config, attempted, receivedData, failure, holder, idleWaiter, isCancelled, status,
                 queues, parser, transport, history>>

\* Mutant: a cancelled task opens another stream.
NeverOver == FALSE

LoopOver == isCancelled

\* The timer fires or cancel() cuts it short; then the loop condition.
BackoffOver ==
  /\ phase = "backoff"
  /\ IF LoopOver
       THEN /\ phase' = "finally"
            /\ UNCHANGED <<attempted, receivedData, failure, status>>
       ELSE /\ phase' = "subscribe"
            /\ attempted' = FALSE
            /\ receivedData' = FALSE
            /\ failure' = "none"
            /\ status' = Status("reconnecting", FALSE)
  /\ UNCHANGED <<config, replayAllowed, holder, idleWaiter, isCancelled, queues, parser,
                 continuityBreaks, transport, history>>

\* finally: nothing is left to wait for, the queues close.
Finish ==
  /\ phase = "finally"
  /\ ~isCancelled => ingress = <<>> /\ ~drainScheduled
  /\ phase' = "done"
  /\ status' = Status("stopped", TRUE)
  /\ UNCHANGED <<config, attempted, receivedData, replayAllowed, failure, holder, idleWaiter,
                 isCancelled, queues, parser, continuityBreaks, transport, history>>

-------------------------------------------------------------------------------
(* cancel(), called by the user, by stop() or by a replacing subscription *)

\* Mutant: cancel() does not wake the task from waitForIngressIdle.
LeaveWaiter == UNCHANGED idleWaiter

ResolveIngressIdle == idleWaiter' = FALSE

Cancel ==
  /\ ~isCancelled /\ phase # "done"
  /\ isCancelled' = TRUE
  /\ status' = Status("stopped", TRUE)
  /\ IF holder THEN CancelStream ELSE UNCHANGED wire
  /\ holder' = FALSE
  /\ ingress' = <<>> /\ drainScheduled' = FALSE
  /\ ResolveIngressIdle
  /\ cancelledInWrite' = (phase = "write")
  /\ UNCHANGED <<config, phase, attempted, receivedData, replayAllowed, failure, parser,
                 continuityBreaks, tip, cursor, failures, pings, handled, out, parseErrors, refusals,
                 ingressDrops>>

\* The subscription has stopped; nothing happens any more.
Stopped == phase = "done" /\ UNCHANGED vars

-------------------------------------------------------------------------------
Setup   == SubscribeOk \/ WriteOk \/ \E kind \in {"other", "unsupported"} : SetupFails(kind)
Farewell == \E next \in {"failed", "ended"}, kind \in {"other", "unsupported"} : Goodbye(next, kind)
Resume  == Catch \/ Ended \/ Drained \/ BackoffOver \/ Finish

Next == Produce \/ Setup \/ Ping \/ Data \/ Farewell \/ Drain \/ Resume \/ Cancel \/ Stopped

\* The event loop runs what is ready; the transport answers a setup call, brings
\* what it has and ends what was cancelled.  It need not fail, and nobody needs
\* to call cancel().
Fairness ==
  /\ WF_vars(Resume) /\ WF_vars(Drain)
  /\ WF_vars(SubscribeOk) /\ WF_vars(WriteOk \/ \E k \in {"other", "unsupported"} : SetupFails(k))
  /\ WF_vars(Data) /\ WF_vars(Produce)
  /\ WF_vars((wire = "closing" \/ ~Serving) /\ Farewell)

Spec == Init /\ [][Next]_vars /\ Fairness

-------------------------------------------------------------------------------
(* Properties *)

States == {"connecting", "connected", "reconnecting", "stopped"}

\* Every variable keeps its type; the ingress queue respects its bound.
TypeOK ==
  /\ config \in Configs
  /\ phase \in Phases
  /\ {attempted, receivedData, replayAllowed, holder, idleWaiter, isCancelled,
       drainScheduled, cancelledInWrite} \subseteq BOOLEAN
  /\ failure \in {"none", "other", "unsupported"}
  /\ status \in [state : States, broken : BOOLEAN]
  /\ ingress \in Seq(Positions) /\ Len(ingress) <= IngressSize
  /\ seenOrder \in Seq(Positions)
  /\ lastParsedSlot \in {0} \cup {Log[p] : p \in Positions}
  /\ wire \in {"none", "open", "closing", "closed"}
  /\ tip \in 0 .. Len(Log) /\ cursor \in 1 .. Len(Log) + 1
  /\ handled \subseteq Positions /\ out \in Seq(Positions)
  /\ {continuityBreaks, failures, pings, parseErrors, refusals, ingressDrops} \subseteq Nat

\* Updates lost inside the process, all of them visible to the user.
LocalLosses == parseErrors + ingressDrops + refusals

\* However often the stream is replayed, the user sees no update twice: the
\* dedupe window always covers what fromSlot makes the provider send again.
DeliveredOnce == IsInjective(out)

\* Without a local loss the user also sees the updates in chain order, across
\* disconnects and replays.  Only what precedes the first update is exempt: the
\* replay of a slot the subscription joined midway brings its earlier part late.
DeliveredInOrder ==
  LocalLosses = 0 =>
    \A i, j \in DOMAIN out : i < j /\ out[1] < out[j] => out[i] < out[j]

\* Whatever is missing between two updates that were parsed was announced: the
\* status says continuityBroken, and a drop, an error or a continuity break was
\* counted.  A replay that was granted leaves no hole; only the part before the
\* first update the user got, in a slot the subscription joined midway, is filled
\* while the replay is under way.
GapReported ==
  \A q \in Positions :
    /\ q \notin ToSet(out)
    /\ \E p \in handled : p < q
    /\ \E r \in handled : q < r
    => status.broken /\ (LocalLosses + continuityBreaks > 0 \/ q < out[1])

\* An update in the ingress queue, and a task parked until the queue is idle,
\* always have a drain coming: neither is ever forgotten.
DrainIsComing == ingress # <<>> \/ idleWaiter => drainScheduled

\* No update of an old stream is parsed while a new one is set up, so the
\* replay point is final when the request is built.
QuietBetweenStreams ==
  phase \in {"backoff", "subscribe", "write", "done"} => ingress = <<>> /\ ~drainScheduled

\* The status tells the truth about a subscription nobody cancelled: connected
\* exactly while a stream is being read, stopped exactly when the task is done.
StatusTruthful ==
  ~isCancelled => /\ status.state = "connected" <=> phase = "stream"
                  /\ status.state = "stopped" <=> phase = "done"

\* The status of a cancelled subscription stays "stopped" and its task ends,
\* wherever cancel() found it, except while the request was being written.
CancelEnds == isCancelled /\ ~cancelledInWrite ~> phase = "done" /\ status.state = "stopped"

\* With auto-reconnect and replay, disconnects alone lose nothing: in the end
\* the user has every update since the first, unless a loss was counted.
Recovers ==
  <>[](\/ LocalLosses + continuityBreaks > 0 \/ isCancelled \/ phase = "done"
       \/ \A p \in Positions : (\E q \in handled : q <= p) => p \in ToSet(out))

\* The subscription as the client around it sees it.
Life ==
  [phase |-> CASE phase = "subscribe" -> "opening"
               [] phase = "write"     -> "writing"
               [] phase = "stream"    -> "reading"
               [] phase = "done"      -> "done"
               [] OTHER               -> "waiting",
   cancelled |-> isCancelled,
   holder |-> holder,
   deaf |-> phase \in {"write", "stream"} /\ wire = "closed"]

Client == INSTANCE StreamTask

\* With all its handlers, queues and waits the task lives the life DexLifecycle
\* assumes of it: in particular only a cancel during the request write makes it
\* deaf, it lets go of its stream before it asks for another, and it tries
\* again only if nobody cancelled it.
ImplementsStreamTask ==
  /\ Life = Client!Fresh
  /\ [][Client!TaskStep(Life, Life') \/ Client!Cancelled(Life, Life')]_Life


\* A provider that rejects fromSlot is reported as a continuity break (README).
RejectionCounted ==
  [][phase = "drainFailed" /\ phase' = "backoff" /\ attempted /\ failure = "unsupported"
       => continuityBreaks' > continuityBreaks]_vars
===============================================================================
