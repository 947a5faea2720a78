------------------------------ MODULE Decoding ------------------------------
(***************************************************************************)
(* The parser as its callers see it: one thing is handed in, a log line,   *)
(* an event CPI, an instruction, an account or an event to complete, and   *)
(* one event or none comes out.  EventRouting, InstructionDecoders,        *)
(* AccountDecoders and AccountFill say what; this module says what may be  *)
(* handed in and what must hold of the answer.                             *)
(***************************************************************************)
EXTENDS EventRouting, AccountDecoders, AccountFill, FiniteSetsExt

CONSTANTS
  FilteredTypes,  \* how many event types a filter lists at most
  Elements,       \* the numbers of elements in the variable fields of a payload
  Markets, Users  \* the markets and users of the calls of one transaction

VARIABLES input, answer

vars == <<input, answer>>

Idle == [source |-> "idle"]
All == [mode |-> "all", types |-> {}]

TypeOK ==
  /\ input.source \in {"idle", "log", "cpi", "instruction", "account", "payload", "arguments", "data", "fill"}
  /\ (answer = Idle) = (input = Idle)

Init == input = Idle /\ answer = Idle

Answer(in, out) == input' = in /\ answer' = out

-----------------------------------------------------------------------------
(* What is handed in. *)

\* The filters that can tell some types apart; those of one program, with one type of another.
FiltersOver(types) ==
  {All} \cup [mode : {"include", "exclude"},
              types : {Range(list) : list \in [1 .. FilteredTypes -> types]}]
Stranger(p) == IF p = "Orca" THEN "RaydiumCpmmSwap" ELSE "OrcaWhirlpoolSwap"
Filters(p) == FiltersOver(FilterTypes[p] \cup {Stranger(p)})

\* Which instruction or which change an event records, for the types that depend on it.
KindsOf(d) ==
  CASE d = "TradeEvent" -> {"buy", "buy_exact_sol_in", "buy_exact_quote_in", "sell", "other"}
    [] d = "DammV2.LiquidityChange" -> {"add", "remove", "other"}
    [] OTHER -> {"other"}

\* The payload a program writes: its newest layout, complete.
Newest(layouts) == Full(layouts[Len(layouts)], 0)

\* A log line of a program the matcher was told, or was not.
Log ==
  /\ input = Idle
  /\ \E p \in Programs, scoped \in BOOLEAN : \E d \in DOMAIN Events[p] : \E kind \in KindsOf(d) :
       LET len == Newest(Events[p][d].layouts)
           who == IF scoped THEN p ELSE None
           any == LogEvent(All, who, d, kind, len, 0)
       IN \E f \in Filters(p) :
            Answer([source |-> "log", f |-> f, p |-> p, d |-> d, scoped |-> scoped],
                   [event |-> LogEvent(f, who, d, kind, len, 0), any |-> any])

\* The layouts of the event CPI, which some decoders have only for the log.
CpiLayouts(p, d) == IF d \in DOMAIN CpiEvents[p] THEN CpiEvents[p][d].layouts ELSE Events[p][d].layouts

\* An event CPI.
Cpi ==
  /\ input = Idle
  /\ \E p \in Programs : \E d \in DOMAIN Events[p], form \in CpiForms[p] : \E kind \in KindsOf(d) :
       LET len == Newest(CpiLayouts(p, d))
           any == CpiEvent(All, p, form, d, kind, len, 0)
       IN \E f \in Filters(p) :
            Answer([source |-> "cpi", f |-> f, p |-> p, d |-> d, scoped |-> TRUE],
                   [event |-> CpiEvent(f, p, form, d, kind, len, 0), any |-> any])

\* The numbers of accounts an instruction's forms start at and reach.
Counts(ix) == {f.least : f \in Range(ix.forms)} \cup {Max({f.least, Len(f.roles)}) : f \in Range(ix.forms)}

\* An instruction, top-level or a CPI, with all its accounts and arguments.
Instruction ==
  /\ input = Idle
  /\ \E p \in Programs, inner \in BOOLEAN : \E name \in DOMAIN Instructions[p], f \in Filters(p) :
       LET ix  == Instructions[p][name]
           out(g) == [Nothing EXCEPT !.type =
                        InstructionEvent(g, p, name, inner, Max(Counts(ix)), Full(ix.data, 0), 0)]
       IN Answer([source |-> "instruction", f |-> f, p |-> p, d |-> name, scoped |-> TRUE],
                 [event |-> out(f), any |-> out(All)])

\* The accounts of an owner: what each is and the number of bytes it has, behind its discriminator
\* where it has one.  The token and the system program keep no discriminator.
OwnAccounts(o) ==
  CASE o = "System" -> [name : {"Nonce"}, type : {"NonceAccount"}, len : {NONCE_SIZE}]
    [] o = "Token" -> UNION {[name : {a}, type : {TokenAccounts[a].type}, len : TokenAccounts[a].lengths] :
                               a \in DOMAIN TokenAccounts}
    [] OTHER -> UNION {LET tables == Accounts[o] @@ Snapshots[o]
                       IN [name : {a}, type : {tables[a].type}, len : {Full(tables[a].layout, 0)}] :
                         a \in DOMAIN Accounts[o] \cup DOMAIN Snapshots[o]}

\* An account, live or closed.
AccountUpdate ==
  /\ input = Idle
  /\ \E o \in Owners, live \in BOOLEAN : \E a \in OwnAccounts(o),
        f \in FiltersOver(AccountTypes(o) \cup {"AccountLiquiditySnapshot", "AccountRawSnapshot"}) :
       Answer([source |-> "account", f |-> f, p |-> o, d |-> a.name, type |-> a.type, live |-> live],
              [event |-> AccountEvent(f, o, a.name, live, a.len, 0),
               any |-> AccountEvent(All, o, a.name, live, a.len, 0)])

\* A payload that ends after a field, as an older version of the program would write it, or a byte
\* off; and the arguments of an instruction likewise.
Nearby(lengths) == {n + i : n \in lengths, i \in {-1, 0, 1}} \ {-1}

PayloadOf(p, d, form, layouts, k) ==
  LET ends     == UNION {Ends(l, k) : l \in Range(layouts)}
      full     == Full(layouts[Len(layouts)], k)
      answered == form = "log" \/ d \in DOMAIN CpiEvents[p]
  IN \E len \in Nearby(ends) :
       Answer([source |-> "payload", p |-> p, d |-> d, whole |-> len \in ends,
               complete |-> len = full /\ answered],
              [event |-> IF form = "log" THEN LogEvent(All, p, d, "add", len, k)
                         ELSE CpiEvent(All, p, form, d, "add", len, k)])

Payload ==
  /\ input = Idle
  /\ \E p \in Programs, k \in Elements : \E d \in DOMAIN Events[p], form \in CpiForms[p] \cup {"log"} :
       PayloadOf(p, d, form, IF form = "log" THEN Events[p][d].layouts ELSE CpiLayouts(p, d), k)

\* An account likewise, as its program kept it before it had all its fields.
Data ==
  /\ input = Idle
  /\ \E o \in Owners, k \in Elements : \E a \in DOMAIN Accounts[o] \cup DOMAIN Snapshots[o] :
       LET layout == (Accounts[o] @@ Snapshots[o])[a].layout
           ends   == Ends(layout, k)
           full   == Full(layout, k)
       IN \E len \in Nearby(ends) :
            Answer([source |-> "data", p |-> o, d |-> a, whole |-> len \in ends, complete |-> len = full],
                   [event |-> AccountEvent(All, o, a, TRUE, len, k)])

Arguments ==
  /\ input = Idle
  /\ \E p \in Programs, k \in Elements : \E name \in DOMAIN Instructions[p] :
       LET ix   == Instructions[p][name]
           ends == Ends(ix.data, k)
           full == Full(ix.data, k)
       IN \E len \in Nearby(ends), n \in Counts(ix) :
            LET r == Read(ix.data, len, k)
            IN Answer([source |-> "arguments", p |-> p, d |-> name, whole |-> len \in ends,
                       complete |-> len = full],
                      [event |-> [type |-> InstructionEvent(All, p, name, FALSE, n, len, k),
                                  astray |-> r.astray, lost |-> r.lost]])

\* The accounts the programs ask for where the decoder reads fewer.
IdlAccounts ==
  "PumpFun.create" :> 14 @@ "Launchlab.initialize" :> 18 @@ "Launchlab.initialize_v2" :> 18
    @@ "Launchlab.initialize_with_token_2022" :> 15

Callable(p) ==
  {name \in DOMAIN Instructions[p] : \E f \in Range(Instructions[p][name].forms) : f.roles # <<>>}
    \cup (IF p = "PumpSwap" THEN {"PumpSwap.boost_buy"} ELSE {})

AccountCounts(p, name) ==
  CASE name = "PumpSwap.boost_buy" -> {13}
    [] name \in DOMAIN IdlAccounts -> {IdlAccounts[name]}
    [] OTHER -> {Max({f.least, Len(f.roles)}) : f \in Range(Instructions[p][name].forms)}

EventType(p, name) == IF name = "PumpSwap.boost_buy" THEN "PumpSwapBuy" ELSE Instructions[p][name].type

Calls(p, id, key, user) ==
  UNION {[id : {id}, p : {p}, ix : {name}, n : AccountCounts(p, name), key : {key}, user : {user}] :
           name \in Callable(p)}

\* The calls of the transaction that makes the call own: alone, or with a second call of the program
\* before or after it, on the same market or another, for the same user or another, and maybe with
\* the very same accounts.
Company(own) ==
  LET others == UNION {Calls(own.p, id, key, user) : id \in {1, 2}, key \in Markets, user \in Users}
  IN {<<own>>} \cup {<<own, c>> : c \in others} \cup {<<c, own>> : c \in others}

\* The event of that call: most log lines name its market, and some its user.
Reported(own, marked, knows, cashback) ==
  LET type == EventType(own.p, own.ix)
      buy  == type \notin {"PumpFunSell", "PumpSwapSell"}
  IN [type |-> type, ix |-> IF buy THEN "buy" ELSE "sell", buy |-> buy, cashback |-> cashback,
      key |-> IF marked THEN Key(own.key) ELSE Absent, user |-> IF knows THEN User(own.user) ELSE Absent]

Fill ==
  /\ input = Idle
  /\ \E p \in DOMAIN KeyRole, knows, cashback \in BOOLEAN :
     \E marked \in {TRUE, p # "AmmV4"}, own \in Calls(p, 1, Min(Markets), Min(Users)) : \E calls \in Company(own) :
       LET ev == Reported(own, marked, knows, cashback)
       IN Answer([source |-> "fill", own |-> own, type |-> ev.type, alone |-> calls = <<own>>],
                 [filled |-> Filled(ev, calls)])

\* The next thing is handed in.
Proceed == input # Idle /\ Answer(Idle, Idle)

Next == Log \/ Cpi \/ Instruction \/ AccountUpdate \/ Payload \/ Data \/ Arguments \/ Fill \/ Proceed

Spec == Init /\ [][Next]_vars

-----------------------------------------------------------------------------
(* Properties. *)

\* The filter alone decides: the gates in front of the decoders (parseLogOptimized,
\* parseInnerInstructionUnified and parseInstructionUnified, each with its own lists of types) never
\* hold back an event the filter admits and never let one through it does not.  A Pump trade or
\* create out of a log line must also be of a type the filter names, if it names any of them.
Admitted(in, ev) ==
  /\ ev.type # None
  /\ ShouldInclude(in.f, ev.type)
  /\ (in.source = "log" /\ in.d = "TradeEvent") => SecondaryFilter(in.f, ev) = ev

FilterDecides ==
  input.source \in {"log", "cpi", "instruction", "account"} =>
    answer.event =
      IF ~Admitted(input, answer.any) THEN Nothing
      ELSE IF input.source \in {"log", "account"} THEN answer.any
      ELSE [answer.any EXCEPT !.type = Normalized(input.f, @)]

\* An event is reported as one of the program that emitted it and an account as what it is, whatever
\* the filter.  The matcher cannot keep that promise for a line of unknown program whose discriminator
\* two programs share; parseTokenAccount, which goes by length, does not for the longer mints and the
\* multisignature accounts of the token programs.
Shared ==
  {<<"Dlmm", d>> : d \in {"Swap", "AddLiquidity", "RemoveLiquidity", "SwapBaseIn"}}
    \cup {<<"Dbc", d>> : d \in {"EvtSwap", "EvtSwap2"}}
LikeTokenAccounts == {"Token.Mint2022", "Token.Multisig"}

NeverMistaken ==
  /\ (input.source \in {"log", "cpi", "instruction"} /\ answer.event.type # None)
       => \/ answer.event.type \in FilterTypes[input.p]
          \/ ~input.scoped /\ <<input.p, input.d>> \in Shared
  /\ (input.source = "account" /\ answer.event.type # None)
       => answer.event.type = IF input.d \in LikeTokenAccounts THEN "TokenAccount" ELSE input.type

\* A payload, arguments or an account that is complete gives an event: no length guard asks for more
\* than the fields behind it take.  Cut short anywhere, as an older version of a program or a
\* truncated log leaves them, they give an event whose fields are read from their own bytes, with
\* every key the program wrote, or no event.  The decoders of older formats, which have no length to go by, are known to
\* leave keys out, and two decoders with optional fields of unequal widths can mistake one for the
\* next, though never when the cut is between two fields.
Unguarded ==
  DOMAIN CpmmEvents \cup DOMAIN OrcaEvents
    \cup {"AmmV4.Deposit", "AmmV4.Withdraw", "Pools.Bootstrap", "Pools.PoolCreated"}
OptionalKey ==
  {"TradeEvent", "PumpFun.Complete", "PumpFun.Create", "PumpFun.create", "PumpSwap.create_pool", "Pump.Global"}

UnequalTail == {"TradeEvent", "PumpFun.create_v2"}

FieldsWhole ==
  input.source \in {"payload", "arguments", "data"} =>
    /\ answer.event.astray => input.d \in UnequalTail /\ ~input.whole
    /\ KEY \in answer.event.lost => input.d \in Unguarded \cup OptionalKey
    /\ input.complete => answer.event.type # None

\* Where the log and the instruction decoder differ on an account of the same call.
Disagreements ==
  {<<"Clmm.open_position", "user">>, <<"Clmm.open_position_v2", "user">>,
   <<"Clmm.open_position_with_token22_nft", "user">>, <<"Orca.increase_liquidity_v2", "position">>,
   <<"Orca.decrease_liquidity_v2", "position">>, <<"Cpmm.initialize_with_permission", "creator">>,
   <<"Cpmm.initialize_with_permission", "pool">>, <<"PumpFun.sell", "bonding_curve_v2">>}

\* The accounts an event is completed with are those of the call that emitted it, each in the role
\* the instruction decoder gives it too; other calls of the same program in the transaction leave
\* the event incomplete at worst.  Events matched by nothing have that only from a single call.
FilledFromOwnCall ==
  (input.source = "fill" /\ (input.alone \/ input.type \in Identified)) =>
    /\ \A r \in answer.filled :
         /\ r.account \in AccountsOf(input.own)
         /\ \A a \in RolesOf(input.own) :
              (a.field = r.field /\ <<input.own.ix, a.field>> \notin Disagreements)
                => r.account = At(input.own, a.index)
    /\ (input.alone /\ input.type \in Identified) => answer.filled # {}
=============================================================================
