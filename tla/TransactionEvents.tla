---------------------------- MODULE TransactionEvents ----------------------------
(***************************************************************************)
(* From one transaction to its events: parseRpcTransaction of               *)
(* rpc_transaction.ts, with the merge of instruction events, the scan of    *)
(* the logs, core/trade_source.ts and grpc/log_instr_dedup.ts.              *)
(*                                                                          *)
(* The runtime executes calls, each inside the one on top of the stack, and *)
(* leaves two partial records of them: the instructions (with stack heights *)
(* or without) and the logs, which lose lines once they are full.  Then the *)
(* parser puts one list of events together from the two.  An event is       *)
(*   kind, key     what happened, and the identity (mint or pool, user)     *)
(*   from          the calls the event was put together from                *)
(*   accounts      whether the accounts of the instruction are in it        *)
(*   amounts       none, the limits the instruction asked for, or executed  *)
(*   router        the top-level instruction third_program points to        *)
(***************************************************************************)
EXTENDS SequencesExt

CONSTANTS
  Keys,          \* identities of trades
  MaxCalls,      \* calls of a transaction, event CPIs not counted
  MaxDepth,      \* height of the call stack
  MaxLost,       \* log lines that may be lost
  MaxUnknown,    \* instructions the decoders do not know
  LosesTail      \* a line that is lost takes all that are no shorter with it

ASSUME BoundsAssumption ==
  {MaxCalls, MaxDepth, MaxLost, MaxUnknown} \subseteq Nat /\ LosesTail \in BOOLEAN

VARIABLES
  calls,         \* every call, event CPIs included, in the order of execution
  stack,         \* the calls being executed
  emitted,       \* those among them that have emitted their event
  logs,          \* the lines recorded
  lost,          \* how many were not
  room,          \* what still fits: "ample", or "scarce" once a short line did not
  result         \* the events, once parsed

vars == <<calls, stack, emitted, logs, lost, room, result>>

Nothing  == 0
Unparsed == <<"unparsed">>

\* trade stands for a Pump buy or sell, swap for one whose program only logs
\* (Raydium CLMM), dlmm for a DLMM swap, which only has event CPIs.
Kinds == {"router", "trade", "create", "swap", "dlmm"}

Program(kind) ==
  CASE kind \in {"trade", "create"} -> "pump" [] kind = "router" -> "foreign" [] OTHER -> kind

HasCpi(kind) == kind \in {"trade", "create", "dlmm"}
HasLog(kind) == kind \in {"trade", "create", "swap"}

Init ==
  /\ calls = <<>> /\ stack = <<>> /\ emitted = {}
  /\ logs = <<>> /\ lost = 0 /\ room = "ample"
  /\ result = Unparsed

-------------------------------------------------------------------------------
(* The runtime *)

\* Record the lines of a step, three at most, in order.  Line i may be lost; a line
\* that no longer fits leaves room for "success" lines only, which are the shortest,
\* as data lines are the longest.
Record(lines) ==
  \E i \in 0..Len(lines) :
    LET full(j) == room = "scarce" \/ (LosesTail /\ i \in 1..(j - 1) /\ lines[i].line # "data")
        kept(j) == j \in DOMAIN lines /\ j # i /\ (full(j) => lines[j].line = "done")
        part(j) == IF kept(j) THEN <<lines[j]>> ELSE <<>>
    IN  /\ logs' = logs \o part(1) \o part(2) \o part(3)
        /\ lost' = lost + Len(lines) - (Len(logs') - Len(logs))
        /\ i # 0 => lost' <= MaxLost
        /\ room' = IF LosesTail /\ i # 0 /\ lines[i].line # "data" THEN "scarce" ELSE room

Line(line, c, id) ==
  [line |-> line, program |-> Program(c.kind), depth |-> c.depth, kind |-> c.kind, key |-> c.key,
   id |-> id]

Outers   == Cardinality({c \in DOMAIN calls : calls[c].depth = 1})
Unknown  == Cardinality({c \in DOMAIN calls : ~calls[c].known})
Plain    == Cardinality({c \in DOMAIN calls : calls[c].of = Nothing})
Top      == stack[Len(stack)]

\* A mint is created once, and traded only after that.
Possible(kind, key) ==
  kind = "create" => \A c \in DOMAIN calls : calls[c].kind \in {"create", "trade"} => calls[c].key # key

\* Routers call anything; a trade that calls another has told of itself before.
Invoke(kind, key, known) ==
  /\ result = Unparsed /\ Plain < MaxCalls /\ Len(stack) < MaxDepth
  /\ stack # <<>> => calls[Top].kind = "router" \/ (calls[Top].kind = "trade" /\ Top \in emitted)
  /\ Possible(kind, key)
  /\ ~known => kind \in {"trade", "swap"} /\ Unknown < MaxUnknown
  /\ LET depth == Len(stack) + 1
         c     == [kind |-> kind, key |-> key, known |-> known, depth |-> depth, of |-> Nothing,
                   outer |-> IF depth = 1 THEN Outers + 1 ELSE Outers]
     IN  /\ calls' = Append(calls, c)
         /\ stack' = Append(stack, Len(calls) + 1)
         /\ Record(<<Line("invoke", c, Len(calls) + 1)>>)
  /\ UNCHANGED <<emitted, result>>

\* The event of the call on top, as a data line of its own and as a CPI of the
\* program to itself, in so far as its kind has them.
Emit ==
  /\ stack # <<>> /\ Top \notin emitted /\ calls[Top].kind # "router"
  /\ emitted' = emitted \cup {Top}
  /\ LET c   == calls[Top]
         cpi == [c EXCEPT !.depth = @ + 1, !.of = Top, !.known = TRUE]
     IN  /\ calls' = IF HasCpi(c.kind) THEN Append(calls, cpi) ELSE calls
         /\ Record((IF HasLog(c.kind) THEN <<Line("data", c, Top)>> ELSE <<>>) \o
                   (IF HasCpi(c.kind) THEN <<Line("invoke", cpi, Nothing), Line("done", cpi, Nothing)>>
                                      ELSE <<>>))
  /\ UNCHANGED <<stack, result>>

Return ==
  /\ stack # <<>> /\ (Top \in emitted \/ calls[Top].kind = "router")
  /\ stack' = Front(stack)
  /\ Record(<<Line("done", calls[Top], Top)>>)
  /\ UNCHANGED <<calls, emitted, result>>

-------------------------------------------------------------------------------
(* parseOuterAndInnerInstructions and mergeInstructionEvents *)

OuterCall(outer) == CHOOSE c \in DOMAIN calls : calls[c].outer = outer /\ calls[c].depth = 1

\* markTradeExecutionSource: only trades carry a third_program.
Router(kind, outer) ==
  IF outer # Nothing /\ kind # "create"
    THEN IF Program(calls[OuterCall(outer)].kind) # Program(kind) THEN outer ELSE Nothing
    ELSE Nothing

\* clearPumpInstructionExecutionAmounts: the amounts of a Pump instruction are
\* limits, and do not pass for executed ones.
InstructionAmounts(kind) == IF kind = "trade" THEN "none" ELSE "limits"

\* The instruction of a call has its accounts, its event CPI the executed amounts.
Decoded(c) ==
  LET cpi == calls[c].of # Nothing
  IN  [kind |-> calls[c].kind, key |-> calls[c].key, router |-> Router(calls[c].kind, calls[c].outer),
       from |-> {IF cpi THEN calls[c].of ELSE c}, accounts |-> ~cpi,
       amounts |-> IF cpi THEN "executed" ELSE InstructionAmounts(calls[c].kind)]

\* The instructions the decoders make an event of.
IsItem(c) == calls[c].known /\ calls[c].kind # "router"

Conflicts(base, event) == base.kind = "trade" /\ base.key # event.key

\* mergeInstructionEvent, where it succeeds.
Mergeable(base, event) == base.kind = event.kind /\ ~Conflicts(base, event)
Joined(base, event) ==
  [base EXCEPT !.from = @ \cup event.from, !.accounts = @ \/ event.accounts]

\* Mutant: what the instruction event has already is not overwritten.
KeepBase(base, event) == Joined(base, event)

\* Pump trades take over amounts if there are any, creates what is not zero, and
\* all others whatever the inner event has.
MergedTrade(base, event) ==
  [Joined(base, event) EXCEPT !.amounts = IF event.amounts = "none" THEN @ ELSE event.amounts]
MergedCreate(base, event) ==
  [Joined(base, event) EXCEPT !.amounts = IF event.amounts = "none" THEN @ ELSE event.amounts]
Assigned(base, event) == [Joined(base, event) EXCEPT !.amounts = event.amounts]

Merged(base, event) ==
  CASE base.kind = "trade"  -> MergedTrade(base, event)
    [] base.kind = "create" -> MergedCreate(base, event)
    [] OTHER                -> Assigned(base, event)

Push(m, event) == [m EXCEPT !.out = Append(@, event)]

\* Mutant: an event CPI without an instruction to go into is forgotten.
Forgotten(m, event) == m

\* An event CPI without an instruction to go into is an event of its own.
Alone(m, event) == Push(m, event)

Into(m, at, event) == [m EXCEPT !.out[at] = Merged(@, event)]

\* What an instruction leaves for the CPIs after it to be merged into.
Target(m, c, heights) ==
  [outer |-> calls[c].outer, height |-> IF heights THEN calls[c].depth ELSE Nothing,
   at |-> Len(m.out) + 1, consumed |-> FALSE]

\* The greatest of some positions, 0 if there are none.
LastOf(S) == IF S = {} THEN 0 ELSE Max(S)

DirectChild(target, c, heights) ==
  /\ target.outer = calls[c].outer
  /\ target.height # Nothing /\ heights => calls[c].depth = target.height + 1

\* The targets an inner instruction leaves in place: its ancestors.
Ancestors(targets, c, heights) ==
  IF ~heights THEN <<>>
    ELSE LET above(t) == t.outer = calls[c].outer /\ (t.height # Nothing => t.height < calls[c].depth)
         IN  SubSeq(targets, 1, LastOf({i \in DOMAIN targets : above(targets[i])}))

MergeOuter(m, c) ==
  LET kind == calls[c].kind
      mine == <<Target(m, c, TRUE)>>
  IN  [Push(m, Decoded(c)) EXCEPT
         !.outerTarget = [outer |-> calls[c].outer, at |-> Len(m.out) + 1],
         !.trades = IF kind = "trade" THEN mine ELSE <<>>,
         !.dlmms = IF kind = "dlmm" THEN mine ELSE <<>>]

\* A trade's event CPI goes into the nearest instruction it is a child of, once.
MergeTradeCpi(m, c, heights) ==
  LET i == LastOf({k \in DOMAIN m.trades : DirectChild(m.trades[k], c, heights)})
  IN  IF i = 0 \/ m.trades[i].consumed THEN Alone(m, Decoded(c))
      ELSE LET at   == m.trades[i].at
               used == [m EXCEPT !.trades[i].consumed = TRUE]
           IN  IF Mergeable(m.out[at], Decoded(c)) THEN Into(used, at, Decoded(c))
                                                   ELSE Alone(used, Decoded(c))

MergeInnerTrade(m, c, heights) ==
  [Push(m, Decoded(c)) EXCEPT
     !.trades = Append(Ancestors(m.trades, c, heights), Target(m, c, heights))]

MergeDlmmCpi(m, c, heights) ==
  LET i == LastOf({k \in DOMAIN m.dlmms : DirectChild(m.dlmms[k], c, heights)})
  IN  IF i = 0 THEN Alone(m, Decoded(c))
      ELSE LET left == [m EXCEPT !.dlmms = SubSeq(@, 1, i)]
               at   == m.dlmms[i].at
           IN  IF Mergeable(m.out[at], Decoded(c)) THEN Into(left, at, Decoded(c))
                                                   ELSE Alone(left, Decoded(c))

\* Any other inner event joins the outer one it repeats.
MergeOther(m, c, heights) ==
  LET o     == m.outerTarget
      joins == o.outer = calls[c].outer /\ Mergeable(m.out[o.at], Decoded(c))
      next  == IF joins THEN Into(m, o.at, Decoded(c)) ELSE Push(m, Decoded(c))
      mine  == [Target(m, c, heights) EXCEPT !.at = IF joins THEN o.at ELSE @]
  IN  IF calls[c].kind = "dlmm"
        THEN [next EXCEPT !.dlmms = Append(Ancestors(m.dlmms, c, heights), mine)]
        ELSE next

MergeItem(m, c, heights) ==
  LET cpi == calls[c].of # Nothing
  IN  IF calls[c].depth = 1 THEN MergeOuter(m, c)
      ELSE CASE calls[c].kind = "trade" /\ cpi  -> MergeTradeCpi(m, c, heights)
             [] calls[c].kind = "trade" /\ ~cpi -> MergeInnerTrade(m, c, heights)
             [] calls[c].kind = "dlmm" /\ cpi   -> MergeDlmmCpi(m, c, heights)
             [] OTHER                           -> MergeOther(m, c, heights)

NoEvents ==
  [out |-> <<>>, outerTarget |-> [outer |-> Nothing, at |-> Nothing], trades |-> <<>>, dlmms |-> <<>>]

\* What the loop has made of the first n calls.
MergedUpTo(heights) ==
  LET upTo[n \in 0..Len(calls)] ==
        IF n = 0 THEN NoEvents
        ELSE IF IsItem(n) THEN MergeItem(upTo[n - 1], n, heights)
        ELSE upTo[n - 1]
  IN  upTo

InstructionEvents(heights) == MergedUpTo(heights)[Len(calls)].out

-------------------------------------------------------------------------------
(* The scan of the logs *)

\* The top-level instructions of a program, and those of the first n lines that tell
\* of their invocation.
TopCalls(program) == {c \in DOMAIN calls : calls[c].depth = 1 /\ Program(calls[c].kind) = program}
IsTopInvoke(l)    == l.line = "invoke" /\ l.depth = 1
TopInvokes(program, n) == {i \in 1..n : IsTopInvoke(logs[i]) /\ logs[i].program = program}

\* Mutant: every invocation of a program is taken for its first instruction.
FirstPosition(program, n) ==
  IF TopCalls(program) = {} THEN Nothing ELSE calls[Min(TopCalls(program))].outer

\* The nth top-level invocation of a program is its nth instruction, provided that
\* none of them is missing.
Position(program, n) ==
  LET at == TopCalls(program)
  IN  IF Cardinality(TopInvokes(program, Len(logs))) = Cardinality(at)
        THEN calls[CHOOSE c \in at : Cardinality({d \in at : d <= c}) = n].outer ELSE Nothing

\* logOuterIndices: a line belongs to the last top-level invocation up to it.
OuterIndex(n) ==
  LET i       == LastOf({k \in 1..n : IsTopInvoke(logs[k])})
      program == logs[i].program
  IN  IF i = 0 THEN Nothing ELSE Position(program, Cardinality(TopInvokes(program, i)))

\* activeProgramStack: an invocation cuts the stack to its depth, "success" cuts
\* off the last entry of its program and all above it.
Cut(active, l) ==
  LET n == l.depth - 1
  IN  Append([i \in 1..n |-> IF i <= Len(active) THEN active[i] ELSE "none"], l.program)

Completed(active, l) ==
  LET i == LastOf({k \in DOMAIN active : active[k] = l.program})
  IN  IF i = 0 THEN active ELSE SubSeq(active, 1, i - 1)

\* The matcher decodes data of a program in its own scope and outside the scope
\* of any program it supports.
InScope(active, l) ==
  active = <<>> \/ active[Len(active)] \in {"none", "foreign", l.program}

LogEvent(n) ==
  [kind |-> logs[n].kind, key |-> logs[n].key, router |-> Router(logs[n].kind, OuterIndex(n)),
   from |-> {logs[n].id}, accounts |-> FALSE, amounts |-> "executed"]

ScanLine(s, n) ==
  CASE logs[n].line = "invoke" -> [s EXCEPT !.active = Cut(@, logs[n])]
    [] logs[n].line = "done"   -> [s EXCEPT !.active = Completed(@, logs[n])]
    [] OTHER -> IF InScope(s.active, logs[n]) THEN [s EXCEPT !.out = Append(@, LogEvent(n))] ELSE s

\* What the loop has made of the first n lines.
ScannedUpTo ==
  LET upTo[n \in 0..Len(logs)] ==
        IF n = 0 THEN [active |-> <<>>, out |-> <<>>] ELSE ScanLine(upTo[n - 1], n)
  IN  upTo

LogEvents == ScannedUpTo[Len(logs)].out

-------------------------------------------------------------------------------
(* dedupeLogInstructionEvents *)

\* Mutants: sources are paired whatever their counts; creates stay where they were found.
AlwaysFair(log, ix, j) == TRUE
AsFound(events) == events

Base(e)    == <<e.kind, e.key>>
Counted(e) == e.kind # "create"

\* nextOccurrence: how many of the first n events have the identity of e.
Times(events, n, e) == Cardinality({j \in 1..n : Base(events[j]) = Base(e)})

\* The key of an event: its identity, and for trades its number among its equals.
Key(events, i) == <<Base(events[i]), IF Counted(events[i]) THEN Times(events, i, events[i]) ELSE 1>>

\* The two sources agree on how many there are.
Fair(log, ix, j) == Counted(log[j]) => Times(log, Len(log), log[j]) = Times(ix, Len(ix), log[j])

\* The log event an instruction event is merged into, if there is one.
Partner(log, ix, i) == LastOf({j \in DOMAIN log : Key(log, j) = Key(ix, i) /\ Fair(log, ix, j)})

\* mergeGrpcInstructionIntoLog fills in what the log event lacks: its own amounts stay.
Filled(log, ix) == Joined(log, ix)
Fill(d, at, event) == [d EXCEPT !.out[at] = Filled(@, event)]

\* What becomes of instruction event i: it goes into the log event that is its partner,
\* else into an instruction event of its key, else it stands for itself.
Place(d, log, ix, i) ==
  LET known == {j \in DOMAIN d.keys : d.keys[j] = Key(ix, i)}
  IN  IF Partner(log, ix, i) # 0 THEN Fill(d, Partner(log, ix, i), ix[i])
      ELSE IF known # {}         THEN Fill(d, Len(log) + Max(known), ix[i])
      ELSE [d EXCEPT !.out = Append(@, ix[i]), !.keys = Append(@, Key(ix, i))]

PlacedUpTo(log, ix) ==
  LET upTo[i \in 0..Len(ix)] ==
        IF i = 0 THEN [out |-> log, keys |-> <<>>] ELSE Place(upTo[i - 1], log, ix, i)
  IN  upTo

Dedupe(log, ix) == PlacedUpTo(log, ix)[Len(ix)].out

\* A create goes before the first trade of its mint.
Move(out, i) ==
  LET before == {j \in 1..(i - 1) : out[j].kind = "trade" /\ out[j].key = out[i].key}
  IN  IF out[i].kind = "create" /\ before # {}
        THEN InsertAt(RemoveAt(out, i), Min(before), out[i]) ELSE out

MovedUpTo(events) ==
  LET upTo[i \in 0..Len(events)] == IF i = 0 THEN events ELSE Move(upTo[i - 1], i)
  IN  upTo

CreatesFirst(events) == MovedUpTo(events)[Len(events)]

ParseRpcTransaction(heights) == CreatesFirst(Dedupe(LogEvents, InstructionEvents(heights)))

Parse ==
  /\ calls # <<>> /\ stack = <<>> /\ result = Unparsed
  /\ \E heights \in BOOLEAN :
       result' = <<IF heights THEN "heights" ELSE "flat", ParseRpcTransaction(heights)>>
  /\ UNCHANGED <<calls, stack, emitted, logs, lost, room>>

Next ==
  \/ \E kind \in Kinds, key \in Keys, known \in BOOLEAN : Invoke(kind, key, known)
  \/ Emit \/ Return \/ Parse

Spec == Init /\ [][Next]_vars

-------------------------------------------------------------------------------
(* Properties *)

Parsed == result # Unparsed
Events == ToSet(result[2])

Executed == {c \in DOMAIN calls : calls[c].of = Nothing /\ calls[c].kind # "router"}

\* An event never tells of two executions at once, the accounts of one with the
\* amounts of another, with stack heights or without: except for a program that only
\* logs, of which both the logs and the decoders have lost an execution.
NeverMixed ==
  Parsed => \A e \in Events :
              Cardinality(e.from) = 1 \/ (e.kind = "swap" /\ lost > 0 /\ Unknown > 0)

\* Whatever one of the two records shows of an execution ends up in an event.
NothingVanishes ==
  Parsed => \A c \in Executed :
              calls[c].known \/ HasCpi(calls[c].kind) \/ lost = 0 => \E e \in Events : c \in e.from

\* third_program is the top-level instruction the execution ran in, or nothing.
RouterTrue ==
  Parsed => \A e \in Events : \E c \in e.from : e.router \in {Nothing, calls[c].outer}

\* A mint's create comes before its trades, whichever records they were found in.
CreatePrecedesTrades ==
  Parsed => \A i, j \in DOMAIN result[2] :
              result[2][i].kind = "trade" /\ result[2][j].kind = "create"
                /\ result[2][i].key = result[2][j].key => j < i

\* With nothing lost and every instruction known, each execution is one event, with
\* its accounts, the amounts that were executed, and the router it ran in.
ExactWhenComplete ==
  Parsed /\ lost = 0 /\ Unknown = 0 =>
    /\ Len(result[2]) = Cardinality(Executed)
    /\ \A c \in Executed : \E e \in Events :
         /\ e.from = {c} /\ e.accounts /\ e.amounts = "executed"
         /\ e.router = Router(calls[c].kind, calls[c].outer)
===============================================================================
