---------------------------- MODULE Decoding_proofs ----------------------------
(***************************************************************************)
(* Proofs about the decoders: for filters that list any number of types,   *)
(* the filter alone decides and nothing is mistaken for something else.    *)
(***************************************************************************)
EXTENDS Decoding, WellFoundedInduction, TLAPS

(***************************************************************************)
(* Tables                                                                  *)
(***************************************************************************)

\* What a table of one row holds, and what a join of two tables does.
LEMMA RowHas == \A key, value, k : k \in DOMAIN (key :> value) <=> k = key
BY DEF :>

LEMMA RowAt == \A key, value : (key :> value)[key] = value
BY DEF :>

LEMMA JoinedHas == \A f, g, k : k \in DOMAIN Joined(f, g) <=> k \in DOMAIN f \/ k \in DOMAIN g
BY DEF Joined

LEMMA JoinedLeft == \A f, g, k : k \in DOMAIN f => Joined(f, g)[k] = f[k]
BY DEF Joined

LEMMA JoinedRight == \A f, g, k : k \in DOMAIN g /\ k \notin DOMAIN f => Joined(f, g)[k] = g[k]
BY DEF Joined

\* What a table holds, by the tables it is joined from.
LEMMA JoinHas == \A f, g, k : k \in DOMAIN (f @@ g) <=> k \in DOMAIN f \/ k \in DOMAIN g
BY JoinedHas DEF @@

LEMMA JoinLeft == \A f, g, k : k \in DOMAIN f => (f @@ g)[k] = f[k]
BY JoinedLeft DEF @@

LEMMA JoinRight == \A f, g, k : k \in DOMAIN g /\ k \notin DOMAIN f => (f @@ g)[k] = g[k]
BY JoinedRight DEF @@

\* Every row of the table has a type of S.
Typed(table, S) == \A k \in DOMAIN table : table[k].type \in S

\* Types, names and single rows of a table follow from its rows.
LEMMA RowTyped == \A key, value, S : value.type \in S => Typed(key :> value, S)
BY RowHas, RowAt DEF Typed

LEMMA JoinTyped == \A f, g, S : Typed(f, S) /\ Typed(g, S) => Typed(f @@ g, S)
BY JoinHas, JoinLeft, JoinRight DEF Typed

\* Every row of the table, but that of x, has a type of S.
Within(table, x, S) == \A k \in DOMAIN table : k = x \/ table[k].type \in S

LEMMA RowWithin == \A key, value, x, S : key = x \/ value.type \in S => Within(key :> value, x, S)
BY RowHas, RowAt DEF Within

LEMMA JoinWithin == \A f, g, x, S : Within(f, x, S) /\ Within(g, x, S) => Within(f @@ g, x, S)
BY JoinHas, JoinLeft, JoinRight DEF Within

\* Every key of the table is one of S.
Named(table, S) == \A k \in DOMAIN table : k \in S

LEMMA RowNamed == \A key, value, S : key \in S => Named(key :> value, S)
BY RowHas DEF Named

LEMMA JoinNamed == \A f, g, S : Named(f, S) /\ Named(g, S) => Named(f @@ g, S)
BY JoinHas DEF Named

\* The types of each program's tables, row by row.
LEMMA PumpFunEventsTypes == Within(PumpFunEvents, "TradeEvent", PUMPFUN_FILTER_TYPES \ {"PumpFunTrade"})
BY RowWithin, JoinWithin DEF PumpFunEvents, Ev, PUMPFUN_FILTER_TYPES, PUMPFUN_TRADE_FAMILY, PUMPFUN_CREATE_FAMILY, PUMPFUN_BUY_FAMILY

LEMMA PumpFunUpgradesTypes == Within(PumpFunUpgrades, "TradeEvent", PUMPFUN_FILTER_TYPES \ {"PumpFunTrade"})
BY RowWithin, JoinWithin DEF PumpFunUpgrades, Ev, PUMPFUN_FILTER_TYPES, PUMPFUN_TRADE_FAMILY, PUMPFUN_CREATE_FAMILY, PUMPFUN_BUY_FAMILY

LEMMA PumpFeesEventsTypes == Typed(PumpFeesEvents, PUMP_FEES_EVENT_TYPES)
BY RowTyped, JoinTyped DEF PumpFeesEvents, Ev, PUMP_FEES_EVENT_TYPES

LEMMA PumpSwapEventsTypes == Typed(PumpSwapEvents, PUMPSWAP_FILTER_TYPES)
BY RowTyped, JoinTyped DEF PumpSwapEvents, Ev, PUMPSWAP_FILTER_TYPES, PUMPSWAP_TRADE_FAMILY

LEMMA PumpSwapUpgradesTypes == Typed(PumpSwapUpgrades, PUMPSWAP_FILTER_TYPES)
BY RowTyped, JoinTyped DEF PumpSwapUpgrades, Ev, PUMPSWAP_FILTER_TYPES, PUMPSWAP_TRADE_FAMILY

LEMMA LaunchlabEventsTypes == Typed(LaunchlabEvents, RAYDIUM_LAUNCHLAB_FILTER_TYPES)
BY RowTyped, JoinTyped DEF LaunchlabEvents, Ev, RAYDIUM_LAUNCHLAB_FILTER_TYPES

LEMMA ClmmEventsTypes == Typed(ClmmEvents, RAYDIUM_CLMM_FILTER_TYPES)
BY RowTyped, JoinTyped DEF ClmmEvents, Ev, RAYDIUM_CLMM_FILTER_TYPES

LEMMA CpmmEventsTypes == Typed(CpmmEvents, RAYDIUM_CPMM_FILTER_TYPES)
BY RowTyped, JoinTyped DEF CpmmEvents, Ev, RAYDIUM_CPMM_FILTER_TYPES

LEMMA AmmV4EventsTypes == Typed(AmmV4Events, RAYDIUM_AMM_V4_FILTER_TYPES)
BY RowTyped, JoinTyped DEF AmmV4Events, Ev, RAYDIUM_AMM_V4_FILTER_TYPES

LEMMA OrcaEventsTypes == Typed(OrcaEvents, ORCA_WHIRLPOOL_FILTER_TYPES)
BY RowTyped, JoinTyped DEF OrcaEvents, Ev, ORCA_WHIRLPOOL_FILTER_TYPES

LEMMA PoolsEventsTypes == Typed(PoolsEvents, METEORA_POOLS_FILTER_TYPES)
BY RowTyped, JoinTyped DEF PoolsEvents, Ev, METEORA_POOLS_FILTER_TYPES

LEMMA DammV2EventsTypes == Within(DammV2Events, "DammV2.LiquidityChange", METEORA_DAMM_V2_FILTER_TYPES)
BY RowWithin, JoinWithin DEF DammV2Events, Ev, METEORA_DAMM_V2_FILTER_TYPES

LEMMA DbcEventsTypes == Typed(DbcEvents, METEORA_DBC_FILTER_TYPES)
BY RowTyped, JoinTyped DEF DbcEvents, Ev, METEORA_DBC_FILTER_TYPES

LEMMA DlmmEventsTypes == Typed(DlmmEvents, METEORA_DLMM_FILTER_TYPES)
BY RowTyped, JoinTyped DEF DlmmEvents, Ev, METEORA_DLMM_FILTER_TYPES

LEMMA DlmmLegacyEventsTypes == Typed(DlmmLegacyEvents, METEORA_DLMM_FILTER_TYPES)
BY RowTyped, JoinTyped DEF DlmmLegacyEvents, Ev, METEORA_DLMM_FILTER_TYPES

LEMMA RayLogTypes == Typed(RayLog, RAYDIUM_AMM_V4_FILTER_TYPES)
BY RowTyped, JoinTyped DEF RayLog, Ev, RAYDIUM_AMM_V4_FILTER_TYPES

PumpFunNames ==
  {"TradeEvent", "PumpFun.Create", "PumpFun.Migrate", "PumpFun.MigrateCreator"}
\* The discriminators of each program's tables.
LEMMA PumpFunEventsNamed == Named(PumpFunEvents, PumpFunNames)
BY RowNamed, JoinNamed DEF PumpFunEvents, PumpFunNames

PumpFunUpgradesNames ==
  {"PumpFun.PostCompleteBuy", "PumpFun.SweepBondingCurveFee", "PumpFun.Complete"}
LEMMA PumpFunUpgradesNamed == Named(PumpFunUpgrades, PumpFunUpgradesNames)
BY RowNamed, JoinNamed DEF PumpFunUpgrades, PumpFunUpgradesNames

PumpFeesNames ==
  {"PumpFees.CreateSharing", "PumpFees.Initialize", "PumpFees.Reset", "PumpFees.Revoke",
   "PumpFees.Transfer", "PumpFees.UpdateAdmin", "PumpFees.UpdateConfig", "PumpFees.UpdateShares",
   "PumpFees.UpsertTiers"}
LEMMA PumpFeesEventsNamed == Named(PumpFeesEvents, PumpFeesNames)
BY RowNamed, JoinNamed DEF PumpFeesEvents, PumpFeesNames

PumpSwapNames ==
  {"PumpSwap.Buy", "PumpSwap.Sell", "PumpSwap.CreatePool", "PumpSwap.Deposit", "PumpSwap.Withdraw"}
LEMMA PumpSwapEventsNamed == Named(PumpSwapEvents, PumpSwapNames)
BY RowNamed, JoinNamed DEF PumpSwapEvents, PumpSwapNames

PumpSwapUpgradesNames ==
  {"PumpSwap.SweepPoolFee"}
LEMMA PumpSwapUpgradesNamed == Named(PumpSwapUpgrades, PumpSwapUpgradesNames)
BY RowNamed, JoinNamed DEF PumpSwapUpgrades, PumpSwapUpgradesNames

LaunchlabNames ==
  {"TradeEvent", "Launchlab.PoolCreate"}
LEMMA LaunchlabEventsNamed == Named(LaunchlabEvents, LaunchlabNames)
BY RowNamed, JoinNamed DEF LaunchlabEvents, LaunchlabNames

ClmmNames ==
  {"SwapEvent", "Clmm.IncreaseLiquidity", "Clmm.DecreaseLiquidity", "Clmm.LiquidityChange",
   "Clmm.ConfigChange", "Clmm.CreatePersonalPosition", "Clmm.LiquidityCalculate",
   "Clmm.OpenLimitOrder", "Clmm.IncreaseLimitOrder", "Clmm.DecreaseLimitOrder",
   "Clmm.SettleLimitOrder", "Clmm.UpdateRewardInfos", "Clmm.CreatePool", "Clmm.CollectPersonalFee",
   "Clmm.CollectProtocolFee"}
LEMMA ClmmEventsNamed == Named(ClmmEvents, ClmmNames)
BY RowNamed, JoinNamed DEF ClmmEvents, ClmmNames

CpmmNames ==
  {"SwapEvent", "SwapBaseIn", "Cpmm.SwapBaseOut", "Cpmm.CreatePool", "Cpmm.Deposit",
   "Cpmm.Withdraw"}
LEMMA CpmmEventsNamed == Named(CpmmEvents, CpmmNames)
BY RowNamed, JoinNamed DEF CpmmEvents, CpmmNames

AmmV4Names ==
  {"AmmV4.SwapBaseIn", "AmmV4.SwapBaseOut", "AmmV4.Deposit", "AmmV4.Withdraw", "AmmV4.Initialize2",
   "AmmV4.WithdrawPnl"}
LEMMA AmmV4EventsNamed == Named(AmmV4Events, AmmV4Names)
BY RowNamed, JoinNamed DEF AmmV4Events, AmmV4Names

OrcaNames ==
  {"Orca.Traded", "Orca.LiquidityIncreased", "Orca.LiquidityDecreased", "Orca.PoolInitialized"}
LEMMA OrcaEventsNamed == Named(OrcaEvents, OrcaNames)
BY RowNamed, JoinNamed DEF OrcaEvents, OrcaNames

PoolsNames ==
  {"Swap", "AddLiquidity", "RemoveLiquidity", "Pools.Bootstrap", "Pools.PoolCreated",
   "Pools.SetPoolFees"}
LEMMA PoolsEventsNamed == Named(PoolsEvents, PoolsNames)
BY RowNamed, JoinNamed DEF PoolsEvents, PoolsNames

DammV2Names ==
  {"EvtSwap", "EvtSwap2", "EvtInitializePool", "DammV2.AddLiquidity", "DammV2.RemoveLiquidity",
   "DammV2.LiquidityChange", "DammV2.ClaimPositionFee", "DammV2.ClaimReward",
   "DammV2.CreatePosition", "DammV2.ClosePosition", "DammV2.UpdateDelegate", "DammV2.WithdrawDead",
   "DammV2.WithdrawIneligible", "DammV2.UpdateRewardFunder", "DammV2.UpdateRewardDuration",
   "DammV2.InitializeReward", "DammV2.FundReward", "DammV2.CreateConfig",
   "DammV2.CreateDynamicConfig"}
LEMMA DammV2EventsNamed == Named(DammV2Events, DammV2Names)
BY RowNamed, JoinNamed DEF DammV2Events, DammV2Names

DbcNames ==
  {"EvtSwap", "EvtSwap2", "Dbc.Swap2Hook", "EvtInitializePool", "Dbc.CurveComplete"}
LEMMA DbcEventsNamed == Named(DbcEvents, DbcNames)
BY RowNamed, JoinNamed DEF DbcEvents, DbcNames

DlmmNames ==
  {"Swap", "AddLiquidity", "RemoveLiquidity", "Dlmm.Swap2", "Dlmm.InitializePool",
   "Dlmm.InitializeBinArray", "Dlmm.CreatePosition", "Dlmm.ClosePosition", "Dlmm.ClaimReward2",
   "Dlmm.ClaimFee", "Dlmm.ClaimFee2"}
LEMMA DlmmEventsNamed == Named(DlmmEvents, DlmmNames)
BY RowNamed, JoinNamed DEF DlmmEvents, DlmmNames

DlmmLegacyNames ==
  {"SwapBaseIn", "Dlmm.LegacyAddLiquidity", "Dlmm.LegacyRemove", "Dlmm.LegacyInitialize",
   "Dlmm.LegacyCreatePos", "Dlmm.LegacyClosePos", "Dlmm.LegacyClaimFee"}
LEMMA DlmmLegacyEventsNamed == Named(DlmmLegacyEvents, DlmmLegacyNames)
BY RowNamed, JoinNamed DEF DlmmLegacyEvents, DlmmLegacyNames

RayLogNames ==
  {"AmmV4.RayLog"}
LEMMA RayLogNamed == Named(RayLog, RayLogNames)
BY RowNamed, JoinNamed DEF RayLog, RayLogNames

\* The row of x, if the table has one, is r.
Says(table, x, r) == x \in DOMAIN table => table[x] = r

LEMMA RowSays == \A key, value, x, r : (key = x => value = r) => Says(key :> value, x, r)
BY RowHas, RowAt DEF Says

LEMMA JoinSays == \A f, g, x, r : Says(f, x, r) /\ Says(g, x, r) => Says(f @@ g, x, r)
BY JoinHas, JoinLeft, JoinRight DEF Says

\* What the tables say of the discriminators that matter below.
LEMMA PumpTradeRow == Says(PumpFunEvents, "TradeEvent", Ev("PumpFunTrade", <<PumpTrade>>))
BY RowSays, JoinSays DEF PumpFunEvents

LEMMA LiquidityRow == Says(DammV2Events, "DammV2.LiquidityChange", Ev(None, <<DammLiquidityChange>>))
BY RowSays, JoinSays DEF DammV2Events

LEMMA LaunchlabTradeRow == Says(LaunchlabEvents, "TradeEvent", Ev("RaydiumLaunchlabTrade", <<LaunchlabTrade>>))
BY RowSays, JoinSays DEF LaunchlabEvents

LEMMA ClmmSwapRow == Says(ClmmEvents, "SwapEvent", Ev("RaydiumClmmSwap", <<ClmmSwap>>))
BY RowSays, JoinSays DEF ClmmEvents

LEMMA CpmmSwapRow == Says(CpmmEvents, "SwapEvent", Ev("RaydiumCpmmSwap", <<CpmmSwapEvent>>))
BY RowSays, JoinSays DEF CpmmEvents

LEMMA DammPoolRow == Says(DammV2Events, "EvtInitializePool", Ev("MeteoraDammV2InitializePool", <<DammInitializePool>>))
BY RowSays, JoinSays DEF DammV2Events

LEMMA DbcPoolRow == Says(DbcEvents, "EvtInitializePool", Ev("MeteoraDbcInitializePool", <<DbcInitializePool>>))
BY RowSays, JoinSays DEF DbcEvents

\* An upgrade of the Pump programs is no trade.
LEMMA PumpUpgradesNotTrade == "TradeEvent" \notin DOMAIN PumpFunUpgrades
BY PumpFunUpgradesNamed DEF Named, PumpFunUpgradesNames

(***************************************************************************)
(* The events of each program                                              *)
(***************************************************************************)

\* Which table is which program's.
LEMMA TheTables ==
  /\ Events["PumpFun"] = PumpFunEvents @@ PumpFunUpgrades
  /\ Events["PumpFees"] = PumpFeesEvents
  /\ Events["PumpSwap"] = PumpSwapEvents @@ PumpSwapUpgrades
  /\ Events["Launchlab"] = LaunchlabEvents
  /\ Events["Clmm"] = ClmmEvents
  /\ Events["Cpmm"] = CpmmEvents
  /\ Events["AmmV4"] = AmmV4Events @@ RayLog
  /\ Events["Orca"] = OrcaEvents
  /\ Events["Pools"] = PoolsEvents
  /\ Events["DammV2"] = DammV2Events
  /\ Events["Dbc"] = DbcEvents
  /\ Events["Dlmm"] = DlmmEvents @@ DlmmLegacyEvents
BY DEF Events

\* Which filter types are which program's.
LEMMA TheTypes ==
  /\ FilterTypes["PumpFun"] = PUMPFUN_FILTER_TYPES
  /\ FilterTypes["PumpFees"] = PUMP_FEES_EVENT_TYPES
  /\ FilterTypes["PumpSwap"] = PUMPSWAP_FILTER_TYPES
  /\ FilterTypes["Launchlab"] = RAYDIUM_LAUNCHLAB_FILTER_TYPES
  /\ FilterTypes["Clmm"] = RAYDIUM_CLMM_FILTER_TYPES
  /\ FilterTypes["Cpmm"] = RAYDIUM_CPMM_FILTER_TYPES
  /\ FilterTypes["AmmV4"] = RAYDIUM_AMM_V4_FILTER_TYPES
  /\ FilterTypes["Orca"] = ORCA_WHIRLPOOL_FILTER_TYPES
  /\ FilterTypes["Pools"] = METEORA_POOLS_FILTER_TYPES
  /\ FilterTypes["DammV2"] = METEORA_DAMM_V2_FILTER_TYPES
  /\ FilterTypes["Dbc"] = METEORA_DBC_FILTER_TYPES
  /\ FilterTypes["Dlmm"] = METEORA_DLMM_FILTER_TYPES
BY DEF FilterTypes

\* The twelve programs.
LEMMA ThePrograms ==
  Programs = {"PumpFun", "PumpFees", "PumpSwap", "Launchlab", "Clmm", "Cpmm", "AmmV4", "Orca", "Pools",
              "DammV2", "Dlmm", "Dbc"}
BY DEF Programs, FilterTypes

\* No program but PumpFun has a type of the general name, and none has None.
LEMMA TradeIsPumps ==
  \A p \in Programs : None \notin FilterTypes[p] /\ ("PumpFunTrade" \in FilterTypes[p] => p = "PumpFun")
<1> SUFFICES ASSUME NEW p \in Programs
             PROVE  None \notin FilterTypes[p] /\ ("PumpFunTrade" \in FilterTypes[p] => p = "PumpFun")
  OBVIOUS
<1> USE DEF None
<1>1. CASE p \in {"PumpFun", "PumpFees", "PumpSwap"}
  BY <1>1, TheTypes DEF PUMPFUN_FILTER_TYPES, PUMP_FEES_EVENT_TYPES, PUMPSWAP_FILTER_TYPES, PUMPSWAP_TRADE_FAMILY,
       PUMPFUN_TRADE_FAMILY, PUMPFUN_CREATE_FAMILY, PUMPFUN_BUY_FAMILY
<1>2. CASE p \in {"Launchlab", "Clmm", "Cpmm", "AmmV4"}
  BY <1>2, TheTypes DEF RAYDIUM_LAUNCHLAB_FILTER_TYPES, RAYDIUM_CLMM_FILTER_TYPES, RAYDIUM_CPMM_FILTER_TYPES,
       RAYDIUM_AMM_V4_FILTER_TYPES
<1>3. CASE p \in {"Orca", "Pools", "Dbc"}
  BY <1>3, TheTypes DEF ORCA_WHIRLPOOL_FILTER_TYPES, METEORA_POOLS_FILTER_TYPES, METEORA_DBC_FILTER_TYPES
<1>4. CASE p \in {"DammV2", "Dlmm"}
  BY <1>4, TheTypes DEF METEORA_DAMM_V2_FILTER_TYPES, METEORA_DLMM_FILTER_TYPES
<1>5. QED
  BY <1>1, <1>2, <1>3, <1>4, ThePrograms

\* The type of an event is one its program's gate is asked with, but for the two that depend on what
\* the event says.
LEMMA EventTypes ==
  ASSUME NEW p \in Programs, NEW d \in DOMAIN Events[p]
  PROVE  \/ Events[p][d].type \in FilterTypes[p] \ {"PumpFunTrade", None}
         \/ p = "PumpFun" /\ d = "TradeEvent" /\ Events[p][d].type = "PumpFunTrade"
         \/ p = "DammV2" /\ d = "DammV2.LiquidityChange" /\ Events[p][d].type = None
<1>1. CASE p = "PumpFun"
  <2>1. Within(Events[p], "TradeEvent", PUMPFUN_FILTER_TYPES \ {"PumpFunTrade"})
    BY <1>1, TheTables, PumpFunEventsTypes, PumpFunUpgradesTypes, JoinWithin
  <2>2. Says(Events[p], "TradeEvent", Ev("PumpFunTrade", <<PumpTrade>>))
    <3>1. Says(PumpFunUpgrades, "TradeEvent", Ev("PumpFunTrade", <<PumpTrade>>))
      BY PumpUpgradesNotTrade DEF Says
    <3>2. QED
      BY <1>1, <3>1, TheTables, PumpTradeRow, JoinSays
  <2>3. QED
    BY <1>1, <2>1, <2>2, TheTypes, TradeIsPumps DEF Within, Says, Ev
<1>2. CASE p = "DammV2"
  BY <1>2, DammV2EventsTypes, LiquidityRow, TheTables, TheTypes, TradeIsPumps DEF Within, Says, Ev
<1>3. ASSUME p \notin {"PumpFun", "DammV2"} PROVE Typed(Events[p], FilterTypes[p])
  <2>1. CASE p = "PumpSwap"
    BY <2>1, TheTables, TheTypes, PumpSwapEventsTypes, PumpSwapUpgradesTypes, JoinTyped
  <2>2. CASE p = "AmmV4"
    BY <2>2, TheTables, TheTypes, AmmV4EventsTypes, RayLogTypes, JoinTyped
  <2>3. CASE p = "Dlmm"
    BY <2>3, TheTables, TheTypes, DlmmEventsTypes, DlmmLegacyEventsTypes, JoinTyped
  <2>4. CASE p \in {"PumpFees", "Launchlab", "Clmm", "Cpmm", "Orca", "Pools", "Dbc"}
    BY <2>4, TheTables, TheTypes, PumpFeesEventsTypes, LaunchlabEventsTypes, ClmmEventsTypes, CpmmEventsTypes,
       OrcaEventsTypes, PoolsEventsTypes, DbcEventsTypes
  <2>5. QED
    BY <1>3, <2>1, <2>2, <2>3, <2>4, ThePrograms
<1>4. QED
  BY <1>1, <1>2, <1>3, TradeIsPumps DEF Typed

\* The program whose events a discriminator is for, and the discriminators two programs share.
SharedNames ==
  {"TradeEvent", "SwapEvent", "SwapBaseIn", "Swap", "AddLiquidity", "RemoveLiquidity", "EvtSwap", "EvtSwap2",
   "EvtInitializePool"}
Home(d) ==
  IF d \in PumpFunNames \cup PumpFunUpgradesNames THEN "PumpFun"
  ELSE IF d \in PumpFeesNames THEN "PumpFees"
  ELSE IF d \in PumpSwapNames \cup PumpSwapUpgradesNames THEN "PumpSwap"
  ELSE IF d \in LaunchlabNames THEN "Launchlab"
  ELSE IF d \in ClmmNames THEN "Clmm"
  ELSE IF d \in CpmmNames THEN "Cpmm"
  ELSE IF d \in AmmV4Names \cup RayLogNames THEN "AmmV4"
  ELSE IF d \in OrcaNames THEN "Orca"
  ELSE IF d \in PoolsNames THEN "Pools"
  ELSE IF d \in DammV2Names THEN "DammV2"
  ELSE IF d \in DbcNames THEN "Dbc" ELSE "Dlmm"

\* A discriminator that is not shared says which program it is of.
LEMMA HomeOf ==
  ASSUME NEW p \in Programs, NEW d \in DOMAIN Events[p], d \notin SharedNames
  PROVE  Home(d) = p
<1> USE DEF Home, PumpFunNames, PumpFunUpgradesNames, PumpFeesNames, PumpSwapNames, PumpSwapUpgradesNames
<1>1. CASE p = "PumpFun"
  <2>1. d \in PumpFunNames \cup PumpFunUpgradesNames
    BY <1>1, TheTables, JoinHas, PumpFunEventsNamed, PumpFunUpgradesNamed DEF Named
  <2>2. QED
    BY <1>1, <2>1
<1>2. CASE p = "PumpFees"
  <2>1. d \in PumpFeesNames
    BY <1>2, TheTables, PumpFeesEventsNamed DEF Named
  <2>2. QED
    BY <1>2, <2>1
<1>3. CASE p = "PumpSwap"
  <2>1. d \in PumpSwapNames \cup PumpSwapUpgradesNames
    BY <1>3, TheTables, JoinHas, PumpSwapEventsNamed, PumpSwapUpgradesNamed DEF Named
  <2>2. QED
    BY <1>3, <2>1
<1>4. CASE p = "Launchlab"
  <2>1. d \in LaunchlabNames
    BY <1>4, TheTables, LaunchlabEventsNamed DEF Named
  <2>2. QED
    BY <1>4, <2>1 DEF LaunchlabNames, SharedNames
<1> USE DEF LaunchlabNames
<1>5. CASE p = "Clmm"
  <2>1. d \in ClmmNames
    BY <1>5, TheTables, ClmmEventsNamed DEF Named
  <2>2. QED
    BY <1>5, <2>1 DEF ClmmNames, SharedNames
<1> USE DEF ClmmNames
<1>6. CASE p = "Cpmm"
  <2>1. d \in CpmmNames
    BY <1>6, TheTables, CpmmEventsNamed DEF Named
  <2>2. QED
    BY <1>6, <2>1 DEF CpmmNames, SharedNames
<1> USE DEF CpmmNames
<1>7. CASE p = "AmmV4"
  <2>1. d \in AmmV4Names \cup RayLogNames
    BY <1>7, TheTables, JoinHas, AmmV4EventsNamed, RayLogNamed DEF Named
  <2>2. QED
    BY <1>7, <2>1 DEF AmmV4Names, RayLogNames, SharedNames
<1> USE DEF AmmV4Names, RayLogNames
<1>8. CASE p = "Orca"
  <2>1. d \in OrcaNames
    BY <1>8, TheTables, OrcaEventsNamed DEF Named
  <2>2. QED
    BY <1>8, <2>1 DEF OrcaNames, SharedNames
<1> USE DEF OrcaNames
<1>9. CASE p = "Pools"
  <2>1. d \in PoolsNames
    BY <1>9, TheTables, PoolsEventsNamed DEF Named
  <2>2. QED
    BY <1>9, <2>1 DEF PoolsNames, SharedNames
<1> USE DEF PoolsNames
<1>10. CASE p = "DammV2"
  <2>1. d \in DammV2Names
    BY <1>10, TheTables, DammV2EventsNamed DEF Named
  <2>2. QED
    BY <1>10, <2>1 DEF DammV2Names, SharedNames
<1> USE DEF DammV2Names
<1>11. CASE p = "Dbc"
  <2>1. d \in DbcNames
    BY <1>11, TheTables, DbcEventsNamed DEF Named
  <2>2. QED
    BY <1>11, <2>1 DEF DbcNames, SharedNames
<1>12. CASE p = "Dlmm"
  <2>1. d \in DlmmNames \cup DlmmLegacyNames
    BY <1>12, TheTables, JoinHas, DlmmEventsNamed, DlmmLegacyEventsNamed DEF Named
  <2>2. QED
    BY <1>12, <2>1 DEF DbcNames, DlmmNames, DlmmLegacyNames, SharedNames
<1>13. QED
  BY <1>1, <1>2, <1>3, <1>4, <1>5, <1>6, <1>7, <1>8, <1>9, <1>10, <1>11, <1>12, ThePrograms

\* The programs that share each of those.
LEMMA SharedBy ==
  ASSUME NEW p \in Programs, NEW d \in DOMAIN Events[p]
  PROVE  /\ d = "TradeEvent" => p \in {"PumpFun", "Launchlab"}
         /\ d = "SwapEvent" => p \in {"Clmm", "Cpmm"}
         /\ d = "SwapBaseIn" => p \in {"Cpmm", "Dlmm"}
         /\ d \in {"Swap", "AddLiquidity", "RemoveLiquidity"} => p \in {"Pools", "Dlmm"}
         /\ d \in {"EvtSwap", "EvtSwap2", "EvtInitializePool"} => p \in {"DammV2", "Dbc"}
<1>1. CASE p \in {"PumpFun", "PumpFees", "PumpSwap"}
  BY <1>1, TheTables, JoinHas, PumpFunEventsNamed, PumpFunUpgradesNamed, PumpFeesEventsNamed, PumpSwapEventsNamed,
     PumpSwapUpgradesNamed
     DEF Named, PumpFunNames, PumpFunUpgradesNames, PumpFeesNames, PumpSwapNames, PumpSwapUpgradesNames
<1>2. CASE p \in {"Launchlab", "Clmm", "Cpmm"}
  BY <1>2, TheTables, LaunchlabEventsNamed, ClmmEventsNamed, CpmmEventsNamed
     DEF Named, LaunchlabNames, ClmmNames, CpmmNames
<1>3. CASE p \in {"AmmV4", "Orca", "Pools"}
  BY <1>3, TheTables, JoinHas, AmmV4EventsNamed, RayLogNamed, OrcaEventsNamed, PoolsEventsNamed
     DEF Named, AmmV4Names, RayLogNames, OrcaNames, PoolsNames
<1>4. CASE p \in {"DammV2", "Dbc", "Dlmm"}
  BY <1>4, TheTables, JoinHas, DammV2EventsNamed, DbcEventsNamed, DlmmEventsNamed, DlmmLegacyEventsNamed
     DEF Named, DammV2Names, DbcNames, DlmmNames, DlmmLegacyNames
<1>5. QED
  BY <1>1, <1>2, <1>3, <1>4, ThePrograms

(***************************************************************************)
(* Filters                                                                 *)
(***************************************************************************)

Filter(f) == f.mode \in {"all", "include", "exclude"}

\* The types that a filter may name when it means t.
PumpTrades == PUMPFUN_TRADE_FAMILY \cup {"PumpFunTrade"}
Kin(t) ==
  IF t \in PumpTrades THEN PumpTrades
  ELSE IF t \in PUMPFUN_CREATE_FAMILY THEN PUMPFUN_CREATE_FAMILY
  ELSE IF t \in PUMPSWAP_TRADE_FAMILY THEN PUMPSWAP_TRADE_FAMILY \cup {"PumpSwapTrade"}
  ELSE {t}

Families == PumpTrades \cup PUMPFUN_CREATE_FAMILY \cup PUMPSWAP_TRADE_FAMILY

\* A filter that admits a type names it or one of its family.
LEMMA NamedOrKin ==
  ASSUME NEW types, NEW t, IncludesOnly(types, t)
  PROVE  Meets(types, Kin(t)) /\ (t \notin Families => t \in types)
<1> USE DEF PUMPFUN_TRADE_FAMILY, PUMPFUN_BUY_FAMILY, PUMPFUN_CREATE_FAMILY, PUMPSWAP_TRADE_FAMILY, PumpTrades
<1>1. t \notin Families => t \in types
  BY DEF IncludesOnly, Families
<1>2. t \in Kin(t)
  BY DEF Kin
<1>3. CASE t \in types
  BY <1>1, <1>2, <1>3 DEF Meets
<1>4. CASE t \in PumpTrades
  BY <1>1, <1>4 DEF IncludesOnly, Kin, Meets
<1>5. CASE t \notin PumpTrades
  BY <1>1, <1>5 DEF IncludesOnly, Kin, Meets
<1>6. QED
  BY <1>3, <1>4, <1>5

\* A gate that is asked with everything a filter may mean t by lets through whoever admits t.
LEMMA GateOpens ==
  ASSUME NEW f, Filter(f), NEW S, NEW t \in S, Kin(t) \subseteq S, ShouldInclude(f, t)
  PROVE  IncludesAny(f, S)
<1>1. CASE f.mode = "include"
  <2>1. Meets(f.types, Kin(t))
    BY <1>1, NamedOrKin DEF ShouldInclude
  <2>2. QED
    BY <1>1, <2>1 DEF IncludesAny, Meets
<1>2. CASE f.mode # "include"
  BY <1>2 DEF IncludesAny
<1>3. QED
  BY <1>1, <1>2

\* The absent filter admits everything.
LEMMA AllAdmits ==
  /\ Filter(All)
  /\ \A t : ShouldInclude(All, t) /\ Normalized(All, t) = t
  /\ \A S : S # {} => IncludesAny(All, S)
  /\ \A ev : SecondaryFilter(All, ev) = Only(All, ev)
BY DEF All, Filter, ShouldInclude, Normalized, IncludesAny, SecondaryFilter

\* The types of a program's gate hold with a type what a filter may mean it by.
LEMMA KinTogether ==
  ASSUME NEW p \in Programs, NEW t \in FilterTypes[p]
  PROVE  Kin(t) \subseteq FilterTypes[p]
<1> USE DEF PUMPFUN_TRADE_FAMILY, PUMPFUN_BUY_FAMILY, PUMPFUN_CREATE_FAMILY, PUMPSWAP_TRADE_FAMILY
<1>1. CASE p = "PumpFun"
  BY <1>1, TheTypes DEF Kin, PumpTrades, PUMPFUN_FILTER_TYPES
<1>2. CASE p = "PumpSwap"
  BY <1>2, TheTypes DEF Kin, PumpTrades, PUMPSWAP_FILTER_TYPES
<1>3. ASSUME p \notin {"PumpFun", "PumpSwap"} PROVE t \notin Families
  <2> USE DEF Families, PumpTrades
  <2>1. CASE p \in {"PumpFees", "Launchlab", "Clmm"}
    BY <2>1, TheTypes DEF PUMP_FEES_EVENT_TYPES, RAYDIUM_LAUNCHLAB_FILTER_TYPES, RAYDIUM_CLMM_FILTER_TYPES
  <2>2. CASE p \in {"Cpmm", "AmmV4", "Orca", "Pools", "Dbc"}
    BY <2>2, TheTypes DEF RAYDIUM_CPMM_FILTER_TYPES, RAYDIUM_AMM_V4_FILTER_TYPES, ORCA_WHIRLPOOL_FILTER_TYPES,
         METEORA_POOLS_FILTER_TYPES, METEORA_DBC_FILTER_TYPES
  <2>3. CASE p \in {"DammV2", "Dlmm"}
    BY <2>3, TheTypes DEF METEORA_DAMM_V2_FILTER_TYPES, METEORA_DLMM_FILTER_TYPES
  <2>4. QED
    BY <1>3, <2>1, <2>2, <2>3, ThePrograms
<1>4. CASE p \notin {"PumpFun", "PumpSwap"}
  BY <1>3, <1>4 DEF Kin, Families
<1>5. QED
  BY <1>1, <1>2, <1>4

\* A filter that admits a type of a program wants the program.
LEMMA WantedProgram ==
  ASSUME NEW f, Filter(f), NEW p \in Programs, NEW t \in FilterTypes[p], ShouldInclude(f, t)
  PROVE  WantsProgram(f, p)
BY GateOpens, KinTogether DEF WantsProgram

\* The log matcher's own lists have what they are asked for.
LEMMA TheGates ==
  /\ \A p \in Programs : GateTypes[p] # {}
  /\ {"MeteoraDammV2AddLiquidity", "MeteoraDammV2RemoveLiquidity"} \subseteq GateTypes["DammV2"] \ Families
  /\ METEORA_DLMM_FILTER_TYPES \ {"MeteoraDlmmClaimReward"} \subseteq GateTypes["Dlmm"] \ Families
  /\ RAYDIUM_LAUNCHLAB_FILTER_TYPES \subseteq GateTypes["Launchlab"] \ Families
<1> USE DEF Families, PumpTrades, PUMPFUN_TRADE_FAMILY, PUMPFUN_BUY_FAMILY, PUMPFUN_CREATE_FAMILY,
            PUMPSWAP_TRADE_FAMILY
<1>1. /\ GateTypes["DammV2"] = METEORA_DAMM_V2_FILTER_TYPES \ {"MeteoraDammV2ClaimPositionFee", "MeteoraDammV2ClaimReward"}
      /\ GateTypes["Dlmm"] = METEORA_DLMM_FILTER_TYPES \ {"MeteoraDlmmClaimReward"}
      /\ GateTypes["PumpFun"] = PUMPFUN_FILTER_TYPES \ {"PumpFunPostCompleteBuy", "PumpFunSweepBondingCurveFee"}
      /\ GateTypes["PumpSwap"] = PUMPSWAP_FILTER_TYPES \ {"PumpSwapSweepPoolFee"}
      /\ \A p \in Programs \ {"DammV2", "Dlmm", "PumpFun", "PumpSwap"} : GateTypes[p] = FilterTypes[p]
  BY TheTypes, ThePrograms DEF GateTypes, FilterTypes
<1>2. "PumpFunTrade" \in GateTypes["PumpFun"] /\ "PumpSwapTrade" \in GateTypes["PumpSwap"]
  BY <1>1 DEF PUMPFUN_FILTER_TYPES, PUMPSWAP_FILTER_TYPES
<1>3. {"MeteoraDammV2AddLiquidity", "MeteoraDammV2RemoveLiquidity"} \subseteq GateTypes["DammV2"] \ Families
  BY <1>1 DEF METEORA_DAMM_V2_FILTER_TYPES
<1>4. METEORA_DLMM_FILTER_TYPES \ {"MeteoraDlmmClaimReward"} \subseteq GateTypes["Dlmm"] \ Families
  BY <1>1 DEF METEORA_DLMM_FILTER_TYPES
<1>5. RAYDIUM_LAUNCHLAB_FILTER_TYPES \subseteq GateTypes["Launchlab"] \ Families
  BY <1>1, TheTypes, ThePrograms DEF RAYDIUM_LAUNCHLAB_FILTER_TYPES
<1>6. "MeteoraDlmmSwap" \in GateTypes["Dlmm"]
  BY <1>4 DEF METEORA_DLMM_FILTER_TYPES
<1>7. ASSUME NEW p \in Programs \ {"DammV2", "Dlmm", "PumpFun", "PumpSwap"} PROVE FilterTypes[p] # {}
  <2>1. CASE p \in {"PumpFees", "Launchlab", "Clmm"}
    BY <2>1, TheTypes DEF PUMP_FEES_EVENT_TYPES, RAYDIUM_LAUNCHLAB_FILTER_TYPES, RAYDIUM_CLMM_FILTER_TYPES
  <2>2. CASE p \in {"Cpmm", "AmmV4", "Orca", "Pools", "Dbc"}
    BY <2>2, TheTypes DEF RAYDIUM_CPMM_FILTER_TYPES, RAYDIUM_AMM_V4_FILTER_TYPES, ORCA_WHIRLPOOL_FILTER_TYPES,
         METEORA_POOLS_FILTER_TYPES, METEORA_DBC_FILTER_TYPES
  <2>3. QED
    BY <1>7, <2>1, <2>2, ThePrograms
<1>8. ASSUME NEW p \in Programs PROVE GateTypes[p] # {}
  BY <1>1, <1>2, <1>3, <1>6, <1>7
<1>9. QED
  BY <1>3, <1>4, <1>5, <1>8

\* Such a list is no obstacle to who admits one of its types, unless the type has kin.
LEMMA ListedGate ==
  ASSUME NEW f, Filter(f), NEW p \in Programs, NEW t \in GateTypes[p] \ Families, ShouldInclude(f, t)
  PROVE  IncludesProgram(f, p)
<1>1. Kin(t) = {t}
  BY DEF Kin, Families
<1>2. QED
  BY <1>1, GateOpens DEF IncludesProgram

(***************************************************************************)
(* Log lines                                                               *)
(***************************************************************************)

\* The rows of the old DLMM table, none of which claims a reward.
LEMMA LegacyTypes == Typed(DlmmLegacyEvents, METEORA_DLMM_FILTER_TYPES \ {"MeteoraDlmmClaimReward"})
BY RowTyped, JoinTyped DEF DlmmLegacyEvents, Ev, METEORA_DLMM_FILTER_TYPES

\* Only Pump trades and DAMM liquidity changes have their type from what they record.
LEMMA ActualTypes ==
  /\ \A t, kind : t \notin {"PumpFunTrade", None} => ActualType(t, kind) = t
  /\ \A kind : ActualType("PumpFunTrade", kind) \in PumpTrades
  /\ \A kind : ActualType(None, kind) \in {None, "MeteoraDammV2AddLiquidity", "MeteoraDammV2RemoveLiquidity"}
BY DEF ActualType, None, PumpTrades, PUMPFUN_TRADE_FAMILY, PUMPFUN_BUY_FAMILY

\* A record with the fields of an event and no others.
Record(ev) == ev = [type |-> ev.type, astray |-> ev.astray, lost |-> ev.lost]

\* Whatever a decoder makes of a payload, the table says its type.
LEMMA DecodedType ==
  ASSUME NEW events, NEW d, NEW kind, NEW len, NEW k
  PROVE  /\ d \notin DOMAIN events => Decoded(events, d, kind, len, k) = Nothing
         /\ \/ Decoded(events, d, kind, len, k) = Nothing
            \/ Decoded(events, d, kind, len, k).type = ActualType(events[d].type, kind)
         /\ Record(Decoded(events, d, kind, len, k))
BY DEF Decoded, Record, Nothing

\* No event has no type.
LEMMA NothingIsNone == Nothing.type = None
BY DEF Nothing

\* Only and the secondary filter keep an event or drop it.
LEMMA KeptOrDropped ==
  ASSUME NEW f, NEW ev
  PROVE  /\ Only(f, ev) = IF ev.type # None /\ ShouldInclude(f, ev.type) THEN ev ELSE Nothing
         /\ SecondaryFilter(f, ev) \in {Nothing, Only(f, ev)}
BY DEF Only, SecondaryFilter

\* A filter that admits a Pump trade wants Pump trades.
LEMMA PumpWanted ==
  ASSUME NEW f, NEW t \in PumpTrades, ShouldInclude(f, t)
  PROVE  WantsPumpfunTrade(f)
BY DEF WantsPumpfunTrade, PumpTrades

\* The secondary filter is about Pump's trades and creates.
LEMMA SecondaryIsPumps ==
  ASSUME NEW f, Filter(f), NEW ev, ev.type \notin Families, ev.type # None, ShouldInclude(f, ev.type)
  PROVE  SecondaryFilter(f, ev) = ev
<1>1. Only(f, ev) = ev
  BY KeptOrDropped
<1>2. f.mode = "include" => ev.type \in f.types
  BY NamedOrKin DEF ShouldInclude
<1>3. ev.type \notin PUMPFUN_BUY_FAMILY
  BY DEF Families, PumpTrades, PUMPFUN_TRADE_FAMILY
<1>4. f.mode = "include" => TradeMatches(f.types, ev.type)
  BY <1>2, <1>3 DEF TradeMatches
<1>5. QED
  BY <1>1, <1>4 DEF SecondaryFilter

\* What is reported of an event under a filter, given what is without one.
Verdict(f, d, any) ==
  IF any.type # None /\ ShouldInclude(f, any.type) /\ (d = "TradeEvent" => SecondaryFilter(f, any) = any)
  THEN any ELSE Nothing

\* A gate in front of the filter changes nothing, if it lets through whoever admits the event.
LEMMA HarmlessGate ==
  ASSUME NEW f, Filter(f), NEW d, NEW ev, NEW gate \in BOOLEAN,
         ev.type # None /\ ShouldInclude(f, ev.type) => gate /\ (d = "TradeEvent" => SecondaryFilter(f, ev) = ev)
  PROVE  (IF gate THEN Only(f, ev) ELSE Nothing) = Verdict(f, d, Only(All, ev))
<1>1. CASE ev.type = None
  BY <1>1, NothingIsNone DEF Only, Verdict
<1>2. CASE ev.type # None
  BY <1>2, AllAdmits DEF Only, Verdict
<1>3. QED
  BY <1>1, <1>2

\* The same for the line of a Pump trade, which meets the secondary filter.
LEMMA HarmlessPumpGate ==
  ASSUME NEW f, Filter(f), NEW ev, ev.type \in PumpTrades \cup {None}
  PROVE  (IF WantsPumpfunTrade(f) THEN SecondaryFilter(f, ev) ELSE Nothing)
           = Verdict(f, "TradeEvent", SecondaryFilter(All, ev))
<1>1. CASE ev.type = None
  BY <1>1, NothingIsNone, AllAdmits DEF Only, SecondaryFilter, Verdict
<1>2. CASE ev.type # None
  <2>1. SecondaryFilter(All, ev) = ev
    BY <1>2, AllAdmits DEF Only
  <2>2. CASE ShouldInclude(f, ev.type)
    <3>1. WantsPumpfunTrade(f)
      BY <1>2, <2>2, PumpWanted
    <3>2. Only(f, ev) = ev
      BY <1>2, <2>2 DEF Only
    <3>3. SecondaryFilter(f, ev) \in {Nothing, ev}
      BY <3>2, KeptOrDropped
    <3>4. Nothing # ev
      BY <1>2, NothingIsNone
    <3>5. QED
      BY <1>2, <2>1, <2>2, <3>1, <3>3 DEF Verdict
  <2>3. CASE ~ShouldInclude(f, ev.type)
    <3>1. SecondaryFilter(f, ev) = Nothing
      BY <2>3, KeptOrDropped DEF Only
    <3>2. QED
      BY <2>1, <2>3, <3>1 DEF Verdict
  <2>4. QED
    BY <2>2, <2>3
<1>3. QED
  BY <1>1, <1>2

\* The filter alone decides about the line of a program the matcher was told.
LEMMA ScopedLine ==
  ASSUME NEW f, Filter(f), NEW p \in Programs, NEW d \in DOMAIN Events[p], NEW kind, NEW len, NEW k
  PROVE  LogEvent(f, p, d, kind, len, k) = Verdict(f, d, LogEvent(All, p, d, kind, len, k))
<1>1. p # None
  BY ThePrograms DEF None
<1>2. CASE p = "PumpFun" /\ d = "TradeEvent"
  <2> DEFINE ev == Decoded(PumpFunEvents, d, kind, len, k)
  <2>1. ev.type \in PumpTrades \cup {None}
    <3>1. d \in DOMAIN PumpFunEvents => PumpFunEvents[d].type = "PumpFunTrade"
      BY <1>2, PumpTradeRow DEF Says, Ev
    <3>2. QED
      BY <3>1, DecodedType, ActualTypes, NothingIsNone
  <2>2. \A g : LogEvent(g, p, d, kind, len, k) = IF WantsPumpfunTrade(g) THEN SecondaryFilter(g, ev) ELSE Nothing
    BY <1>1, <1>2 DEF LogEvent, LogGate
  <2>3. WantsPumpfunTrade(All)
    BY AllAdmits DEF WantsPumpfunTrade
  <2> HIDE DEF ev
  <2>4. QED
    BY <1>2, <2>1, <2>2, <2>3, HarmlessPumpGate
<1>3. CASE ~(p = "PumpFun" /\ d = "TradeEvent")
  <2> DEFINE ev == Decoded(Events[p], d, kind, len, k)
             T == Events[p][d].type
  <2>1. \A g : LogEvent(g, p, d, kind, len, k) = IF LogGate(g, p, d) THEN Only(g, ev) ELSE Nothing
    BY <1>1, <1>3 DEF LogEvent
  <2>2. \A g : LogGate(g, p, d) = IF ScopedType(p, d) # None THEN ShouldInclude(g, ScopedType(p, d)) ELSE IncludesProgram(g, p)
    BY <1>1, <1>3 DEF LogGate
  <2>3. LogGate(All, p, d)
    BY <2>2, AllAdmits, TheGates DEF IncludesProgram
  <2>4. ev.type \in {None, ActualType(T, kind)}
    BY DecodedType, NothingIsNone
  <2>5. ScopedType(p, d) \in {None, T}
    BY DEF ScopedType
  <2>6. ASSUME ev.type # None, ShouldInclude(f, ev.type) PROVE LogGate(f, p, d)
    <3>1. CASE ScopedType(p, d) # None
      <4>1. T \notin {None, "PumpFunTrade"}
        BY <1>3, <2>5, <3>1, EventTypes
      <4>2. ev.type = T
        BY <2>4, <2>6, <4>1, ActualTypes
      <4>3. QED
        BY <2>2, <2>5, <2>6, <3>1, <4>2
    <3>2. CASE ScopedType(p, d) = None
      <4>1. ev.type \in GateTypes[p] \ Families
        <5>1. CASE p = "Dlmm" /\ d \in DOMAIN DlmmLegacyEvents
          <6>1. d \notin DOMAIN DlmmEvents
            BY <5>1, DlmmEventsNamed, DlmmLegacyEventsNamed DEF Named, DlmmNames, DlmmLegacyNames
          <6>2. T = DlmmLegacyEvents[d].type
            BY <5>1, <6>1, TheTables, JoinRight
          <6>3. T \in METEORA_DLMM_FILTER_TYPES \ {"MeteoraDlmmClaimReward"}
            BY <5>1, <6>2, LegacyTypes DEF Typed
          <6>4. T \in GateTypes["Dlmm"] \ Families
            BY <6>3, TheGates
          <6>5. T \notin {None, "PumpFunTrade"}
            BY <1>3, <5>1, EventTypes
          <6>6. QED
            BY <2>4, <2>6, <5>1, <6>4, <6>5, ActualTypes
        <5>2. CASE ~(p = "Dlmm" /\ d \in DOMAIN DlmmLegacyEvents)
          <6>1. T = None
            BY <3>2, <5>2 DEF ScopedType
          <6>2. p = "DammV2"
            BY <1>3, <6>1, EventTypes DEF None
          <6>3. ev.type \in {"MeteoraDammV2AddLiquidity", "MeteoraDammV2RemoveLiquidity"}
            BY <2>4, <2>6, <6>1, ActualTypes
          <6>4. QED
            BY <6>2, <6>3, TheGates
        <5>3. QED
          BY <5>1, <5>2
      <4>2. QED
        BY <2>2, <2>6, <3>2, <4>1, ListedGate
    <3>3. QED
      BY <3>1, <3>2
  <2>7. ASSUME ev.type # None, ShouldInclude(f, ev.type), d = "TradeEvent" PROVE SecondaryFilter(f, ev) = ev
    <3>1. p = "Launchlab"
      BY <1>3, <2>7, SharedBy
    <3>2. T = "RaydiumLaunchlabTrade"
      BY <2>7, <3>1, TheTables, LaunchlabTradeRow DEF Says, Ev
    <3>3. ev.type = T /\ T \notin Families
      BY <2>4, <2>7, <3>2, ActualTypes DEF None, Families, PumpTrades, PUMPFUN_TRADE_FAMILY, PUMPFUN_BUY_FAMILY,
           PUMPFUN_CREATE_FAMILY, PUMPSWAP_TRADE_FAMILY
    <3> HIDE DEF ev, T
    <3>4. QED
      BY <2>7, <3>3, SecondaryIsPumps
  <2>8. LogGate(f, p, d) \in BOOLEAN
    BY <2>2 DEF IncludesProgram, IncludesAny, ShouldInclude, Meets, IncludesOnly, Excludes
  <2> HIDE DEF ev
  <2>9. (IF LogGate(f, p, d) THEN Only(f, ev) ELSE Nothing) = Verdict(f, d, Only(All, ev))
    BY <2>6, <2>7, <2>8, HarmlessGate
  <2>10. QED
    BY <2>1, <2>3, <2>9
<1>4. QED
  BY <1>2, <1>3

(***************************************************************************)
(* Lines of unknown programs                                               *)
(***************************************************************************)

\* A set of numbers that is not empty has a least one.
LEMMA LeastNat ==
  ASSUME NEW S, S \subseteq Nat, S # {}
  PROVE  \E n \in S : \A m \in S : n <= m
<1>1. PICK n \in S : \A m \in S : ~(<<m, n>> \in OpToRel(<, Nat))
  BY NatLessThanWellFounded, WFMin
<1>2. ASSUME NEW m \in S PROVE n <= m
  <2>1. m \in Nat /\ n \in Nat
    OBVIOUS
  <2>2. CASE m < n
    <3>1. <<m, n>> \in OpToRel(<, Nat)
      BY <2>1, <2>2 DEF OpToRel
    <3>2. QED
      BY <1>1, <3>1
  <2>3. QED
    BY <2>1, <2>2
<1>3. QED
  BY <1>2

\* The first of some tables that has a row.
LEMMA FirstIs ==
  ASSUME NEW n \in Nat, NEW tables, DOMAIN tables = 1 .. n, NEW d
  PROVE  \/ (\A i \in 1 .. n : d \notin DOMAIN tables[i]) /\ FirstWith(tables, d) = <<>>
         \/ \E i \in 1 .. n : /\ d \in DOMAIN tables[i] /\ FirstWith(tables, d) = tables[i]
                              /\ \A j \in 1 .. n : d \in DOMAIN tables[j] => i <= j
<1> DEFINE having == {i \in DOMAIN tables : d \in DOMAIN tables[i]}
<1>1. FirstWith(tables, d) = IF having = {} THEN <<>> ELSE tables[Min(having)]
  BY DEF FirstWith
<1>2. having \subseteq Nat
  OBVIOUS
<1>3. CASE having = {}
  BY <1>1, <1>3
<1>4. CASE having # {}
  <2>1. Min(having) \in having /\ \A y \in having : Min(having) <= y
    <3> HIDE DEF having
    <3>1. \E i \in having : \A m \in having : i <= m
      BY <1>2, <1>4, LeastNat
    <3>2. QED
      BY <3>1 DEF Min
  <2>2. QED
    BY <1>1, <1>4, <2>1
<1>5. QED
  BY <1>3, <1>4

\* An empty table has no rows.
LEMMA EmptyHasNone == \A d : d \notin DOMAIN << >>
OBVIOUS

\* The two orders, table by table.
CpmmReached == [d \in DOMAIN CpmmEvents \ {"SwapEvent", "Cpmm.CreatePool"} |-> CpmmEvents[d]]
ClaimReward2 == [d \in {"Dlmm.ClaimReward2"} |-> DlmmEvents[d]]

\* They agree but for the CPMM, whose decoder two lines do not reach, and at the end.
LEMMA TheOrders ==
  /\ DOMAIN TypeOrder = 1 .. 10 /\ DOMAIN DecoderOrder = 1 .. 11
  /\ \A i \in 1 .. 9 : i # 5 => TypeOrder[i] = DecoderOrder[i]
  /\ TypeOrder[1] = Events["PumpFun"] /\ TypeOrder[2] = Events["PumpFees"] /\ TypeOrder[3] = Events["PumpSwap"]
  /\ TypeOrder[4] = ClmmEvents /\ TypeOrder[5] = CpmmEvents /\ TypeOrder[6] = AmmV4Events
  /\ TypeOrder[7] = OrcaEvents /\ TypeOrder[8] = PoolsEvents /\ TypeOrder[9] = DammV2Events
  /\ TypeOrder[10] = ClaimReward2 /\ DecoderOrder[5] = CpmmReached
  /\ DecoderOrder[10] = LaunchlabEvents /\ DecoderOrder[11] = Events["Dlmm"]
BY TheTables DEF TypeOrder, DecoderOrder, CpmmReached, ClaimReward2

(***************************************************************************)
(* Payloads and their lengths                                              *)
(***************************************************************************)

\* What holds at 0 and is carried on from n - 1 to n holds up to N.
LEMMA Throughout ==
  ASSUME NEW N \in Nat, NEW K, 0 \in K, \A n \in 1 .. N : n - 1 \in K => n \in K
  PROVE  0 .. N \subseteq K
<1> DEFINE Bad == (0 .. N) \ K
<1> SUFFICES ASSUME Bad # {} PROVE FALSE
  OBVIOUS
<1>1. PICK n \in Bad : \A m \in Bad : n <= m
  <2>1. Bad \subseteq Nat
    OBVIOUS
  <2> HIDE DEF Bad
  <2>2. QED
    BY <2>1, LeastNat
<1>2. n \in 1 .. N /\ n - 1 \in 0 .. N /\ n - 1 < n
  OBVIOUS
<1>3. n - 1 \in K
  BY <1>1, <1>2
<1>4. QED
  BY <1>2, <1>3

Unread == [at |-> 0, own |-> 0, event |-> TRUE, lost |-> {}, astray |-> FALSE]

\* Read goes field by field.
LEMMA ReadUnfolds ==
  ASSUME NEW layout, NEW N \in Nat, Len(layout) = N, NEW len, NEW k
  PROVE  \E after : /\ Read(layout, len, k) = after[N] /\ after[0] = Unread
                    /\ \A i \in 1 .. N : after[i] = ReadField(after[i - 1], layout[i], len, k)
<1> DEFINE Goes(n, f) == f = [i \in 0 .. n |-> IF i = 0 THEN Unread ELSE ReadField(f[i - 1], layout[i], len, k)]
           K == {n \in 0 .. N : \E f : Goes(n, f)}
<1>1. 0 \in K
  <2>1. Goes(0, [i \in 0 .. 0 |-> Unread])
    OBVIOUS
  <2> HIDE DEF Goes
  <2>2. QED
    BY <2>1
<1>2. ASSUME NEW n \in 1 .. N, n - 1 \in K PROVE n \in K
  <2>1. PICK f : Goes(n - 1, f)
    BY <1>2
  <2> DEFINE g == [i \in 0 .. n |-> IF i = 0 THEN Unread ELSE ReadField(f[i - 1], layout[i], len, k)]
  <2>2. \A i \in 0 .. n - 1 : g[i] = f[i]
    BY <2>1
  <2>3. g = [i \in 0 .. n |-> IF i = 0 THEN Unread ELSE ReadField(f[i - 1], layout[i], len, k)]
    OBVIOUS
  <2> HIDE DEF g
  <2>4. Goes(n, g)
    <3>1. ASSUME NEW i \in 0 .. n, i # 0 PROVE f[i - 1] = g[i - 1]
      <4>1. i - 1 \in 0 .. n - 1
        BY <3>1
      <4>2. QED
        BY <2>2, <4>1
    <3>2. QED
      BY <2>3, <3>1
  <2> HIDE DEF Goes
  <2>5. QED
    BY <2>4
<1>3. 0 .. N \subseteq K
  <2> HIDE DEF K
  <2> QED
    BY ONLY <1>1, <1>2, N \in Nat, Throughout
<1>4. \E f : Goes(N, f)
  <2>1. N \in K
    BY <1>3
  <2> HIDE DEF Goes
  <2>2. QED
    BY <2>1
<1> DEFINE after[i \in 0 .. N] == IF i = 0 THEN Unread ELSE ReadField(after[i - 1], layout[i], len, k)
<1>5. Goes(N, after)
  BY <1>4
<1>6. Read(layout, len, k) = after[N]
  BY DEF Read, Unread
<1> HIDE DEF after
<1>7. after[0] = Unread /\ \A i \in 1 .. N : after[i] = ReadField(after[i - 1], layout[i], len, k)
  BY <1>5
<1>8. QED
  BY <1>6, <1>7

\* So does EndOf.
LEMMA EndUnfolds ==
  ASSUME NEW layout, NEW N \in Nat, Len(layout) = N, NEW k
  PROVE  /\ EndOf(layout, k, 0) = 0
         /\ \A i \in 1 .. N : EndOf(layout, k, i) = EndOf(layout, k, i - 1) + Size(layout[i], k)
<1> DEFINE Goes(n, f) == f = [i \in 0 .. n |-> IF i = 0 THEN 0 ELSE f[i - 1] + Size(layout[i], k)]
           K == {n \in 0 .. N : \E f : Goes(n, f)}
<1>1. 0 \in K
  <2>1. Goes(0, [i \in 0 .. 0 |-> 0])
    OBVIOUS
  <2> HIDE DEF Goes
  <2>2. QED
    BY <2>1
<1>2. ASSUME NEW n \in 1 .. N, n - 1 \in K PROVE n \in K
  <2>1. PICK f : Goes(n - 1, f)
    BY <1>2
  <2> DEFINE g == [i \in 0 .. n |-> IF i = 0 THEN 0 ELSE f[i - 1] + Size(layout[i], k)]
  <2>2. \A i \in 0 .. n - 1 : g[i] = f[i]
    BY <2>1
  <2>3. g = [i \in 0 .. n |-> IF i = 0 THEN 0 ELSE f[i - 1] + Size(layout[i], k)]
    OBVIOUS
  <2> HIDE DEF g
  <2>4. Goes(n, g)
    <3>1. ASSUME NEW i \in 0 .. n, i # 0 PROVE f[i - 1] = g[i - 1]
      <4>1. i - 1 \in 0 .. n - 1
        BY <3>1
      <4>2. QED
        BY <2>2, <4>1
    <3>2. QED
      BY <2>3, <3>1
  <2> HIDE DEF Goes
  <2>5. QED
    BY <2>4
<1>3. 0 .. N \subseteq K
  <2> HIDE DEF K
  <2> QED
    BY ONLY <1>1, <1>2, N \in Nat, Throughout
<1>4. \E f : Goes(N, f)
  <2>1. N \in K
    BY <1>3
  <2> HIDE DEF Goes
  <2>2. QED
    BY <2>1
<1> DEFINE end[i \in 0 .. N] == IF i = 0 THEN 0 ELSE end[i - 1] + Size(layout[i], k)
<1>5. Goes(N, end)
  BY <1>4
<1>6. \A i : EndOf(layout, k, i) = end[i]
  BY DEF EndOf
<1> HIDE DEF end
<1>7. end[0] = 0 /\ \A i \in 1 .. N : end[i] = end[i - 1] + Size(layout[i], k)
  BY <1>5
<1>8. QED
  BY <1>6, <1>7

Bounds == SUBSET (Nat \X Nat)
Needs == {"must", "zero", "null", "stay", "tail", "skip", "rest"}
AField == [w : Nat, each : Nat, most : Nat, need : Needs, fits : Bounds]
Layouts == Seq(AField)

\* What the operators of EventLayouts build is a field or a layout.
LEMMA VariableIs ==
  ASSUME NEW w \in Nat, NEW each \in Nat, NEW most \in Nat, NEW need \in Needs
  PROVE  Variable(w, each, most, need) \in AField
<1>1. {} \in Bounds
  BY DEF Bounds
<1>2. QED
  BY <1>1 DEF Variable, AField

LEMMA FieldIs == \A w \in Nat, need \in Needs : Field(w, need) \in AField
BY VariableIs DEF Field

\* A table of n rows is a sequence of n.
LEMMA SequenceOf ==
  ASSUME NEW S, NEW n \in Nat, NEW f \in [1 .. n -> S]
  PROVE  f \in Seq(S) /\ Len(f) = n
OBVIOUS

LEMMA FieldsAre ==
  ASSUME NEW ws \in Seq(Nat), NEW need \in Needs
  PROVE  /\ Fields(ws, need) \in Layouts /\ Len(Fields(ws, need)) = Len(ws)
         /\ \A i \in 1 .. Len(ws) : Fields(ws, need)[i] = Field(ws[i], need)
<1>1. DOMAIN ws = 1 .. Len(ws) /\ Len(ws) \in Nat
  OBVIOUS
<1>2. ASSUME NEW i \in 1 .. Len(ws) PROVE Field(ws[i], need) \in AField
  <2>1. ws[i] \in Nat
    OBVIOUS
  <2>2. QED
    BY <2>1, FieldIs
<1>3. Fields(ws, need) = [i \in 1 .. Len(ws) |-> Field(ws[i], need)]
  BY <1>1 DEF Fields
<1> HIDE DEF AField
<1>4. [i \in 1 .. Len(ws) |-> Field(ws[i], need)] \in [1 .. Len(ws) -> AField]
  BY <1>2
<1>5. Fields(ws, need) \in Seq(AField) /\ Len(Fields(ws, need)) = Len(ws)
  <2>1. Fields(ws, need) \in [1 .. Len(ws) -> AField]
    BY <1>3, <1>4
  <2>2. QED
    BY ONLY <1>1, <2>1, SequenceOf
<1>6. QED
  BY <1>3, <1>5 DEF Layouts

LEMMA RestIs == \A fits \in Bounds : Rest(fits) \in Layouts
<1> SUFFICES ASSUME NEW fits \in Bounds PROVE Rest(fits) \in Layouts
  OBVIOUS
<1>1. [Field(0, "rest") EXCEPT !.fits = fits] \in AField
  <2>1. [Field(0, "rest") EXCEPT !.fits = fits] = [w |-> 0, each |-> 0, most |-> 0, need |-> "rest", fits |-> fits]
    BY DEF Field, Variable
  <2>2. [w |-> 0, each |-> 0, most |-> 0, need |-> "rest", fits |-> fits] \in AField
    BY DEF AField, Needs
  <2>3. QED
    BY <2>1, <2>2
<1> HIDE DEF AField
<1>2. QED
  BY <1>1 DEF Rest, Layouts

LEMMA TextIs == Text("stay") \in Layouts /\ List(34, "tail") \in Layouts
<1>1. Variable(4, 1, Unlimited, "stay") \in AField /\ Variable(4, 34, MAX_SHAREHOLDERS, "tail") \in AField
  BY VariableIs DEF Unlimited, MAX_SHAREHOLDERS, Needs
<1> HIDE DEF AField
<1>2. QED
  BY <1>1 DEF Text, List, Layouts

LEMMA BoundsAre == \A n \in Nat : AtLeast(n) \in Bounds /\ Exactly(n) \in Bounds
BY DEF Bounds, AtLeast, Exactly, Unlimited

LEMMA JoinedLayouts == \A s, t \in Layouts : s \o t \in Layouts
BY DEF Layouts

\* Without elements in the variable fields, a field takes its width.
LEMMA SizeIs == \A f \in AField : Size(f, 0) = f.w /\ f.w \in Nat
BY DEF Size, AField

\* A payload ends at a number of bytes.
LEMMA EndsAreNumbers ==
  ASSUME NEW l \in Layouts
  PROVE  \A i \in 0 .. Len(l) : EndOf(l, 0, i) \in Nat
<1> DEFINE N == Len(l)
           K == {i \in 0 .. N : EndOf(l, 0, i) \in Nat}
<1>1. N \in Nat /\ \A i \in 1 .. N : l[i] \in AField
  BY DEF Layouts
<1> HIDE DEF N
<1>2. EndOf(l, 0, 0) = 0 /\ \A i \in 1 .. N : EndOf(l, 0, i) = EndOf(l, 0, i - 1) + Size(l[i], 0)
  BY <1>1, EndUnfolds DEF N
<1>3. 0 \in K
  BY <1>1, <1>2
<1>4. ASSUME NEW n \in 1 .. N, n - 1 \in K PROVE n \in K
  <2>1. EndOf(l, 0, n) = EndOf(l, 0, n - 1) + Size(l[n], 0) /\ Size(l[n], 0) \in Nat
    BY <1>1, <1>2, SizeIs
  <2>2. QED
    BY <1>4, <2>1
<1>5. 0 .. N \subseteq K
  <2> HIDE DEF K
  <2> QED
    BY ONLY <1>1, <1>3, <1>4, Throughout
<1>6. QED
  BY <1>5 DEF N

\* A layout after another takes what both take.
LEMMA FullJoin ==
  ASSUME NEW s \in Layouts, NEW t \in Layouts
  PROVE  Full(s \o t, 0) = Full(s, 0) + Full(t, 0) /\ Full(s, 0) \in Nat /\ Full(t, 0) \in Nat
<1> DEFINE st == s \o t
           M == Len(s)
           N == Len(t)
           K == {i \in 0 .. M : EndOf(st, 0, i) = EndOf(s, 0, i)}
           L == {i \in 0 .. N : EndOf(st, 0, M + i) = Full(s, 0) + EndOf(t, 0, i)}
<1>1. /\ M \in Nat /\ N \in Nat /\ st \in Layouts /\ Len(st) = M + N
      /\ \A i \in 1 .. M : st[i] = s[i] /\ s[i] \in AField
      /\ \A i \in 1 .. N : st[M + i] = t[i] /\ t[i] \in AField
  BY DEF Layouts
<1>2. /\ EndOf(s, 0, 0) = 0 /\ \A i \in 1 .. M : EndOf(s, 0, i) = EndOf(s, 0, i - 1) + Size(s[i], 0)
      /\ EndOf(t, 0, 0) = 0 /\ \A i \in 1 .. N : EndOf(t, 0, i) = EndOf(t, 0, i - 1) + Size(t[i], 0)
  BY <1>1, EndUnfolds
<1> HIDE DEF st
<1>3. EndOf(st, 0, 0) = 0 /\ \A i \in 1 .. M + N : EndOf(st, 0, i) = EndOf(st, 0, i - 1) + Size(st[i], 0)
  <2> HIDE DEF M, N
  <2>1. M + N \in Nat
    BY <1>1
  <2>2. QED
    BY <1>1, <2>1, EndUnfolds
<1>4. /\ \A i \in 0 .. M : EndOf(s, 0, i) \in Nat
      /\ \A i \in 0 .. N : EndOf(t, 0, i) \in Nat
  BY EndsAreNumbers
<1>5. Full(s, 0) = EndOf(s, 0, M) /\ Full(t, 0) = EndOf(t, 0, N)
  BY DEF Full
<1> HIDE DEF M, N
<1>6. 0 .. M \subseteq K
  <2>1. 0 \in K
    BY <1>1, <1>2, <1>3
  <2>2. ASSUME NEW n \in 1 .. M, n - 1 \in K PROVE n \in K
    BY <1>1, <1>2, <1>3, <2>2
  <2> HIDE DEF K
  <2>3. QED
    BY ONLY <1>1, <2>1, <2>2, Throughout
<1>7. 0 .. N \subseteq L
  <2>1. 0 \in L
    <3>1. EndOf(st, 0, M) = Full(s, 0)
      BY <1>1, <1>5, <1>6
    <3>2. Full(s, 0) \in Nat
      BY <1>1, <1>4, <1>5
    <3>3. QED
      BY <1>1, <1>2, <3>1, <3>2
  <2>2. ASSUME NEW n \in 1 .. N, n - 1 \in L PROVE n \in L
    <3>1. EndOf(st, 0, M + (n - 1)) = Full(s, 0) + EndOf(t, 0, n - 1)
      BY <2>2
    <3>2. EndOf(st, 0, M + n) = EndOf(st, 0, M + (n - 1)) + Size(t[n], 0)
      <4>1. M + n \in 1 .. M + N /\ M + n - 1 = M + (n - 1)
        BY <1>1
      <4>2. QED
        BY <1>1, <1>3, <4>1
    <3>3. EndOf(t, 0, n) = EndOf(t, 0, n - 1) + Size(t[n], 0) /\ Size(t[n], 0) \in Nat
      BY <1>1, <1>2, SizeIs
    <3>4. Full(s, 0) \in Nat /\ EndOf(t, 0, n - 1) \in Nat
      BY <1>1, <1>4, <1>5
    <3>5. EndOf(st, 0, M + n) = Full(s, 0) + EndOf(t, 0, n)
      BY <3>1, <3>2, <3>3, <3>4
    <3>6. QED
      BY <1>1, <3>5
  <2> HIDE DEF L
  <2>3. QED
    BY ONLY <1>1, <2>1, <2>2, Throughout
<1>8. EndOf(st, 0, M + N) = Full(s, 0) + EndOf(t, 0, N)
  BY <1>1, <1>7
<1>9. QED
  BY <1>1, <1>4, <1>5, <1>8 DEF Full, st

\* The layout starts with a guard on the number of bytes.
Opens(l, fits) == l \in Layouts /\ Len(l) >= 1 /\ l[1].need = "rest" /\ l[1].fits = fits

\* A layout that begins with a length guard gives no event where the guard fails.
LEMMA RestOpens == \A fits \in Bounds : Opens(Rest(fits), fits)
<1> SUFFICES ASSUME NEW fits \in Bounds PROVE Opens(Rest(fits), fits)
  OBVIOUS
<1>1. Rest(fits) = <<[w |-> 0, each |-> 0, most |-> 0, need |-> "rest", fits |-> fits]>>
  BY DEF Rest, Field, Variable
<1>2. Len(Rest(fits)) = 1 /\ Rest(fits)[1].need = "rest" /\ Rest(fits)[1].fits = fits
  BY <1>1
<1>3. QED
  BY <1>2, RestIs DEF Opens

LEMMA JoinOpens == \A s, t, fits : Opens(s, fits) /\ t \in Layouts => Opens(s \o t, fits)
<1> SUFFICES ASSUME NEW s, NEW t \in Layouts, NEW fits, Opens(s, fits) PROVE Opens(s \o t, fits)
  OBVIOUS
<1>1. s \in Seq(AField) /\ t \in Seq(AField) /\ Len(s) >= 1
  BY DEF Opens, Layouts
<1>2. Len(s \o t) >= 1 /\ (s \o t)[1] = s[1]
  BY <1>1
<1>3. s \o t \in Layouts
  BY JoinedLayouts DEF Opens
<1>4. QED
  BY <1>2, <1>3 DEF Opens

\* A guard at the start that the length does not meet is the end of it.
LEMMA Guarded ==
  ASSUME NEW l, NEW fits, Opens(l, fits), NEW len \in Nat, NEW k, \A b \in fits : len \notin b[1] .. b[2]
  PROVE  ~Read(l, len, k).event
<1> DEFINE N == Len(l)
<1>1. N \in Nat /\ N >= 1
  BY DEF Opens, Layouts
<1> HIDE DEF N
<1>2. PICK after : /\ Read(l, len, k) = after[N] /\ after[0] = Unread
                   /\ \A i \in 1 .. N : after[i] = ReadField(after[i - 1], l[i], len, k)
  BY <1>1, ReadUnfolds DEF N
<1>3. after[1] = [Unread EXCEPT !.event = FALSE]
  <2>1. after[1] = ReadField(Unread, l[1], len, k)
    BY <1>1, <1>2
  <2>2. l[1].need = "rest" /\ l[1].fits = fits
    BY DEF Opens
  <2>3. Unread.event /\ Unread.at = 0 /\ len - 0 = len
    BY DEF Unread
  <2>4. ~\E b \in l[1].fits : len - Unread.at \in b[1] .. b[2]
    BY <2>2, <2>3
  <2>5. QED
    BY <2>1, <2>2, <2>3, <2>4 DEF ReadField
<1>4. ~after[1].event
  BY <1>3 DEF Unread
<1> DEFINE K == {0} \cup {i \in 1 .. N : after[i] = after[1]}
<1>5. 0 \in K
  OBVIOUS
<1>6. ASSUME NEW n \in 1 .. N, n - 1 \in K PROVE n \in K
  <2>1. CASE n = 1
    BY <1>1, <2>1
  <2>2. CASE n # 1
    <3>1. after[n - 1] = after[1]
      BY <1>6, <2>2
    <3>2. after[n] = ReadField(after[n - 1], l[n], len, k)
      BY <1>2
    <3>3. after[n] = after[1]
      BY <1>4, <3>1, <3>2 DEF ReadField
    <3>4. QED
      BY <3>3
  <2>3. QED
    BY <2>1, <2>2
<1>7. 0 .. N \subseteq K
  <2> HIDE DEF K
  <2> QED
    BY ONLY <1>1, <1>5, <1>6, Throughout
<1>8. QED
  BY <1>1, <1>2, <1>4, <1>7

\* A decoder that needs every field gives no event of a payload shorter than all of them.
LEMMA AllNeeded ==
  ASSUME NEW l \in Layouts, \A i \in 1 .. Len(l) : l[i].need = "must", NEW len \in Nat, Read(l, len, 0).event
  PROVE  Full(l, 0) <= len
<1> DEFINE N == Len(l)
           Parts == {"at", "own", "event", "lost", "astray"}
           Whole(acc, end) == /\ DOMAIN acc = Parts /\ acc.event /\ ~acc.astray
                              /\ acc.at = end /\ acc.own = end /\ end <= len
<1>1. N \in Nat /\ \A i \in 1 .. N : l[i] \in AField /\ l[i].need = "must"
  BY DEF Layouts
<1>2. \A i \in 0 .. N : EndOf(l, 0, i) \in Nat
  BY EndsAreNumbers
<1> HIDE DEF N
<1>3. EndOf(l, 0, 0) = 0 /\ \A i \in 1 .. N : EndOf(l, 0, i) = EndOf(l, 0, i - 1) + Size(l[i], 0)
  BY <1>1, EndUnfolds DEF N
<1>4. PICK after : /\ Read(l, len, 0) = after[N] /\ after[0] = Unread
                   /\ \A i \in 1 .. N : after[i] = ReadField(after[i - 1], l[i], len, 0)
  BY <1>1, ReadUnfolds DEF N
<1> DEFINE K == {i \in 0 .. N : ~after[i].event \/ Whole(after[i], EndOf(l, 0, i))}
<1>5. 0 \in K
  <2>1. Whole(Unread, 0)
    BY DEF Unread
  <2> HIDE DEF Whole
  <2>2. QED
    BY <1>1, <1>3, <1>4, <2>1
<1>6. ASSUME NEW n \in 1 .. N, n - 1 \in K PROVE n \in K
  <2> DEFINE acc == after[n - 1]
             end == EndOf(l, 0, n - 1)
             size == Size(l[n], 0)
  <2>1. after[n] = ReadField(acc, l[n], len, 0) /\ EndOf(l, 0, n) = end + size
    BY <1>3, <1>4
  <2>2. end \in Nat /\ size \in Nat /\ l[n].need = "must"
    BY <1>1, <1>2, SizeIs
  <2>3. ~acc.event \/ Whole(acc, end)
    BY <1>6
  <2>4. ~TooMany(l[n], 0)
    BY DEF TooMany, MAX_SHAREHOLDERS
  <2> HIDE DEF acc, end, size
  <2>5. CASE ~acc.event
    <3>1. after[n] = acc
      BY <2>1, <2>5 DEF ReadField
    <3>2. QED
      BY <2>5, <3>1
  <2>6. CASE Whole(acc, end) /\ end + size <= len
    <3>1. after[n] = [[acc EXCEPT !.own = @ + size] EXCEPT !.at = @ + size, !.astray = @ \/ acc.at # acc.own]
      BY <2>1, <2>2, <2>4, <2>6 DEF ReadField, size
    <3>2. Whole(after[n], end + size)
      BY <2>2, <2>6, <3>1
    <3> HIDE DEF Whole
    <3>3. QED
      BY <2>1, <3>2
  <2>7. CASE Whole(acc, end) /\ ~(end + size <= len)
    <3>1. after[n] = [acc EXCEPT !.event = FALSE]
      BY <2>1, <2>2, <2>4, <2>7 DEF ReadField, size
    <3>2. ~after[n].event
      BY <2>7, <3>1
    <3>3. QED
      BY <3>2
  <2>8. QED
    BY <2>3, <2>5, <2>6, <2>7
<1>7. 0 .. N \subseteq K
  <2> HIDE DEF K
  <2> QED
    BY ONLY <1>1, <1>5, <1>6, Throughout
<1>8. EndOf(l, 0, N) <= len
  <2>1. N \in K /\ after[N].event
    BY <1>1, <1>4, <1>7
  <2>2. QED
    BY <2>1
<1>9. QED
  BY <1>8 DEF Full, N

\* The layout takes n bytes, and n at least, when its variable fields are empty.
Takes(l, n) == l \in Layouts /\ Full(l, 0) = n
TakesOver(l, n) == l \in Layouts /\ Full(l, 0) \in Nat /\ Full(l, 0) >= n

\* How long a payload is follows from the fields its layout is joined from.
LEMMA JoinTakes == \A s, t : \A m, n \in Nat : Takes(s, m) /\ Takes(t, n) => Takes(s \o t, m + n)
BY FullJoin, JoinedLayouts DEF Takes

LEMMA JoinTakesOver == \A s, t : \A n \in Nat : TakesOver(s, n) /\ t \in Layouts => TakesOver(s \o t, n)
BY FullJoin, JoinedLayouts DEF TakesOver

LEMMA OneTakes ==
  ASSUME NEW f \in AField
  PROVE  Takes(<<f>>, f.w)
<1> DEFINE l == <<f>>
<1>1. l \in Layouts /\ 1 \in Nat /\ Len(l) = 1 /\ l[1] = f
  BY DEF Layouts
<1> HIDE DEF l
<1>2. EndOf(l, 0, 0) = 0 /\ \A i \in 1 .. 1 : EndOf(l, 0, i) = EndOf(l, 0, i - 1) + Size(l[i], 0)
  BY <1>1, EndUnfolds
<1>3. Full(l, 0) = EndOf(l, 0, 1)
  BY <1>1 DEF Full
<1>4. QED
  BY <1>1, <1>2, <1>3, SizeIs DEF Takes, l

LEMMA RestTakes == \A fits \in Bounds : Takes(Rest(fits), 0)
<1> SUFFICES ASSUME NEW fits \in Bounds PROVE Takes(Rest(fits), 0)
  OBVIOUS
<1> DEFINE f == [w |-> 0, each |-> 0, most |-> 0, need |-> "rest", fits |-> fits]
<1>1. Rest(fits) = <<f>>
  BY DEF Rest, Field, Variable
<1>2. f \in AField /\ f.w = 0
  BY DEF AField, Needs
<1> HIDE DEF f
<1>3. Takes(<<f>>, f.w)
  BY <1>2, OneTakes
<1>4. QED
  BY <1>1, <1>2, <1>3

\* Fields of fixed width, one by one.
LEMMA FieldsTake ==
  ASSUME NEW ws \in Seq(Nat), NEW need \in Needs
  PROVE  /\ EndOf(Fields(ws, need), 0, 0) = 0
         /\ \A i \in 1 .. Len(ws) : EndOf(Fields(ws, need), 0, i) = EndOf(Fields(ws, need), 0, i - 1) + ws[i]
         /\ Full(Fields(ws, need), 0) = EndOf(Fields(ws, need), 0, Len(ws))
<1> DEFINE l == Fields(ws, need)
<1>1. l \in Layouts /\ Len(l) = Len(ws) /\ \A i \in 1 .. Len(ws) : l[i] = Field(ws[i], need)
  BY FieldsAre
<1>2. Len(ws) \in Nat /\ \A i \in 1 .. Len(ws) : ws[i] \in Nat
  OBVIOUS
<1> HIDE DEF l
<1>3. EndOf(l, 0, 0) = 0 /\ \A i \in 1 .. Len(ws) : EndOf(l, 0, i) = EndOf(l, 0, i - 1) + Size(l[i], 0)
  BY <1>1, <1>2, EndUnfolds
<1>4. \A i \in 1 .. Len(ws) : Size(l[i], 0) = ws[i]
  <2> SUFFICES ASSUME NEW i \in 1 .. Len(ws) PROVE Size(l[i], 0) = ws[i]
    OBVIOUS
  <2>1. l[i] = Field(ws[i], need) /\ Field(ws[i], need) \in AField
    BY <1>1, <1>2, FieldIs
  <2>2. Field(ws[i], need).w = ws[i]
    BY DEF Field, Variable
  <2>3. QED
    BY <2>1, <2>2, SizeIs
<1>5. QED
  BY <1>1, <1>3, <1>4 DEF Full, l

LEMMA EightsTake ==
  ASSUME NEW n \in Nat, NEW need \in Needs
  PROVE  Takes(Fields(Rep(8, n), need), 8 * n)
<1> DEFINE ws == Rep(8, n)
           l == Fields(ws, need)
           K == {i \in 0 .. n : EndOf(l, 0, i) = 8 * i}
<1>1. ws \in Seq(Nat) /\ Len(ws) = n /\ \A i \in 1 .. n : ws[i] = 8
  BY DEF Rep
<1>2. /\ l \in Layouts /\ EndOf(l, 0, 0) = 0 /\ Full(l, 0) = EndOf(l, 0, n)
      /\ \A i \in 1 .. n : EndOf(l, 0, i) = EndOf(l, 0, i - 1) + 8
  <2> HIDE DEF ws
  <2>1. QED
    BY <1>1, FieldsTake, FieldsAre
<1> HIDE DEF l, ws
<1>3. 0 \in K
  BY <1>2
<1>4. ASSUME NEW i \in 1 .. n, i - 1 \in K PROVE i \in K
  BY <1>2, <1>4
<1>5. 0 .. n \subseteq K
  <2> HIDE DEF K
  <2> QED
    BY ONLY n \in Nat, <1>3, <1>4, Throughout
<1>6. EndOf(l, 0, n) = 8 * n
  BY <1>5
<1>7. QED
  BY <1>2, <1>6 DEF Takes, l, ws

Laid(l, ws) ==
  /\ l \in Layouts /\ EndOf(l, 0, 0) = 0 /\ Full(l, 0) = EndOf(l, 0, Len(ws))
  /\ \A i \in 1 .. Len(ws) : EndOf(l, 0, i) = EndOf(l, 0, i - 1) + ws[i]

LEMMA MustTakes == \A ws \in Seq(Nat) : Laid(Must(ws), ws)
<1>1. "must" \in Needs
  BY DEF Needs
<1>2. QED
  BY <1>1, FieldsTake, FieldsAre DEF Must, Laid

LEMMA StayTakes == \A ws \in Seq(Nat) : Laid(Stay(ws), ws)
<1>1. "stay" \in Needs
  BY DEF Needs
<1>2. QED
  BY <1>1, FieldsTake, FieldsAre DEF Stay, Laid

LEMMA FieldsLaid == \A ws \in Seq(Nat), need \in Needs : Fields(ws, need) \in Layouts
BY FieldsAre

\* The layouts whose lengths tell programs apart that share a discriminator.
LEMMA PumpTradeLong == TakesOver(PumpTrade, 217)
<1> DEFINE a == <<KEY, 8, 8, 1, KEY>>
           b == <<KEY, 8, 8, KEY, 8, 8>>
           start == Rest(AtLeast(217)) \o Must(a) \o Must(Rep(8, 5)) \o Must(b)
<1> USE DEF KEY
<1>1. Takes(Rest(AtLeast(217)), 0)
  BY RestTakes, BoundsAre
<1>2. Takes(Must(a), 81)
  <2>1. a \in Seq(Nat) /\ Len(a) = 5 /\ a[1] = 32 /\ a[2] = 8 /\ a[3] = 8 /\ a[4] = 1 /\ a[5] = 32
    OBVIOUS
  <2> HIDE DEF a
  <2>2. Laid(Must(a), a)
    BY <2>1, MustTakes
  <2>3. QED
    BY <2>1, <2>2 DEF Takes, Laid
<1>3. Takes(Must(Rep(8, 5)), 40)
  <2>1. "must" \in Needs /\ 8 * 5 = 40
    BY DEF Needs
  <2>2. QED
    BY <2>1, EightsTake DEF Must
<1>4. Takes(Must(b), 96)
  <2>1. b \in Seq(Nat) /\ Len(b) = 6 /\ b[1] = 32 /\ b[2] = 8 /\ b[3] = 8 /\ b[4] = 32 /\ b[5] = 8 /\ b[6] = 8
    OBVIOUS
  <2> HIDE DEF b
  <2>2. Laid(Must(b), b)
    BY <2>1, MustTakes
  <2>3. QED
    BY <2>1, <2>2 DEF Takes, Laid
<1>5. Takes(start, 217)
  <2> HIDE DEF a, b
  <2>1. Takes(Rest(AtLeast(217)) \o Must(a), 0 + 81)
    BY <1>1, <1>2, JoinTakes
  <2>2. Takes(Rest(AtLeast(217)) \o Must(a) \o Must(Rep(8, 5)), (0 + 81) + 40)
    BY <1>3, <2>1, JoinTakes
  <2>3. Takes(start, ((0 + 81) + 40) + 96)
    BY <1>4, <2>2, JoinTakes
  <2>4. QED
    BY <2>3
<1>6. TakesOver(start, 217)
  BY <1>5 DEF Takes, TakesOver
<1>7. /\ Zero(<<1>>) \in Layouts /\ Zero(Rep(8, 4)) \in Layouts /\ Zero(<<1, 8, 8>>) \in Layouts
      /\ Stay(<<8, 8>>) \in Layouts /\ Stay(<<KEY>>) \in Layouts /\ Stay(Rep(8, 6)) \in Layouts
  <2>1. /\ <<1>> \in Seq(Nat) /\ <<1, 8, 8>> \in Seq(Nat) /\ <<8, 8>> \in Seq(Nat) /\ <<KEY>> \in Seq(Nat)
        /\ Rep(8, 4) \in Seq(Nat) /\ Rep(8, 6) \in Seq(Nat)
    BY DEF Rep
  <2>2. QED
    BY <2>1, FieldsLaid DEF Zero, Stay, Needs
<1>8. PumpTrade = start \o Zero(<<1>>) \o Zero(Rep(8, 4)) \o Text("stay") \o Zero(<<1, 8, 8>>) \o Stay(<<8, 8>>)
                    \o List(34, "tail") \o Stay(<<KEY>>) \o Stay(Rep(8, 6))
  BY DEF PumpTrade
<1> HIDE DEF start
<1>9. TakesOver(start \o Zero(<<1>>) \o Zero(Rep(8, 4)) \o Text("stay") \o Zero(<<1, 8, 8>>), 217)
  BY <1>6, <1>7, TextIs, JoinTakesOver
<1>10. QED
  BY <1>7, <1>8, <1>9, TextIs, JoinTakesOver

\* The lengths of the payloads whose discriminators two programs share.
LEMMA LaunchlabTradeLength == Takes(LaunchlabTrade, 139)
<1> USE DEF KEY
<1>1. Takes(Rest(Exactly(139)), 0)
  BY RestTakes, BoundsAre
<1>2. Takes(Must(<<KEY>>), 32)
  <2> DEFINE a == <<KEY>>
  <2>1. a \in Seq(Nat) /\ Len(a) = 1 /\ a[1] = 32
    OBVIOUS
  <2> HIDE DEF a
  <2>2. Laid(Must(a), a)
    BY <2>1, MustTakes
  <2>3. Takes(Must(a), 32)
    BY <2>1, <2>2 DEF Takes, Laid
  <2>4. QED
    BY <2>3 DEF a
<1>3. Takes(Must(Rep(8, 13)), 104)
  <2>1. "must" \in Needs /\ 8 * 13 = 104
    BY DEF Needs
  <2>2. QED
    BY <2>1, EightsTake DEF Must
<1>4. Takes(Must(<<1, 1, 1>>), 3)
  <2> DEFINE a == <<1, 1, 1>>
  <2>1. a \in Seq(Nat) /\ Len(a) = 3 /\ a[1] = 1 /\ a[2] = 1 /\ a[3] = 1
    OBVIOUS
  <2> HIDE DEF a
  <2>2. Laid(Must(a), a)
    BY <2>1, MustTakes
  <2>3. Takes(Must(a), 3)
    BY <2>1, <2>2 DEF Takes, Laid
  <2>4. QED
    BY <2>3 DEF a
<1>5. Takes(Rest(Exactly(139)) \o Must(<<KEY>>), 0 + 32)
  BY <1>1, <1>2, JoinTakes
<1>6. Takes(Rest(Exactly(139)) \o Must(<<KEY>>) \o Must(Rep(8, 13)), (0 + 32) + 104)
  BY <1>3, <1>5, JoinTakes
<1>7. Takes(LaunchlabTrade, ((0 + 32) + 104) + 3)
  BY <1>4, <1>6, JoinTakes DEF LaunchlabTrade
<1>8. QED
  BY <1>7

LEMMA CpmmSwapLength == Takes(CpmmSwapEvent, 162)
<1> DEFINE a == <<KEY>>
           b == <<1>>
           c == <<KEY, KEY, 8, 8, 1>>
           guard == Exactly(81) \cup AtLeast(162)
<1> USE DEF KEY
<1>1. Takes(Rest(guard), 0)
  <2>1. guard \in Bounds
    BY BoundsAre DEF Bounds
  <2> HIDE DEF guard
  <2>2. QED
    BY <2>1, RestTakes
<1>2. Takes(Must(a), 32)
  <2>1. a \in Seq(Nat) /\ Len(a) = 1 /\ a[1] = 32
    OBVIOUS
  <2> HIDE DEF a
  <2>2. Laid(Must(a), a)
    BY <2>1, MustTakes
  <2>3. QED
    BY <2>1, <2>2 DEF Takes, Laid
<1>3. Takes(Must(Rep(8, 6)), 48)
  <2>1. "must" \in Needs /\ 8 * 6 = 48
    BY DEF Needs
  <2>2. QED
    BY <2>1, EightsTake DEF Must
<1>4. Takes(Must(b), 1)
  <2>1. b \in Seq(Nat) /\ Len(b) = 1 /\ b[1] = 1
    OBVIOUS
  <2> HIDE DEF b
  <2>2. Laid(Must(b), b)
    BY <2>1, MustTakes
  <2>3. QED
    BY <2>1, <2>2 DEF Takes, Laid
<1>5. Takes(Stay(c), 81)
  <2>1. c \in Seq(Nat) /\ Len(c) = 5 /\ c[1] = 32 /\ c[2] = 32 /\ c[3] = 8 /\ c[4] = 8 /\ c[5] = 1
    OBVIOUS
  <2> HIDE DEF c
  <2>2. Laid(Stay(c), c)
    BY <2>1, StayTakes
  <2>3. QED
    BY <2>1, <2>2 DEF Takes, Laid
<1>6. CpmmSwapEvent = Rest(guard) \o Must(a) \o Must(Rep(8, 6)) \o Must(b) \o Stay(c)
  BY DEF CpmmSwapEvent
<1> HIDE DEF a, b, c, guard
<1>7. Takes(Rest(guard) \o Must(a), 0 + 32)
  BY <1>1, <1>2, JoinTakes
<1>8. Takes(Rest(guard) \o Must(a) \o Must(Rep(8, 6)), (0 + 32) + 48)
  BY <1>3, <1>7, JoinTakes
<1>9. Takes(Rest(guard) \o Must(a) \o Must(Rep(8, 6)) \o Must(b), ((0 + 32) + 48) + 1)
  BY <1>4, <1>8, JoinTakes
<1>10. Takes(CpmmSwapEvent, (((0 + 32) + 48) + 1) + 81)
  BY <1>5, <1>6, <1>9, JoinTakes
<1>11. QED
  BY <1>10

LEMMA ClmmSwapLength == Takes(ClmmSwap, 197) /\ \A i \in 1 .. Len(ClmmSwap) : ClmmSwap[i].need = "must"
<1> DEFINE a == <<KEY, KEY, KEY, KEY, 8, 8, 8, 8, 1, 16, 16, 4>>
<1>1. /\ a \in Seq(Nat) /\ Len(a) = 12 /\ a[1] = 32 /\ a[2] = 32 /\ a[3] = 32 /\ a[4] = 32 /\ a[5] = 8 /\ a[6] = 8
      /\ a[7] = 8 /\ a[8] = 8 /\ a[9] = 1 /\ a[10] = 16 /\ a[11] = 16 /\ a[12] = 4
  BY DEF KEY
<1>2. ClmmSwap = Must(a)
  BY DEF ClmmSwap
<1> HIDE DEF a
<1>3. Laid(ClmmSwap, a)
  BY <1>1, <1>2, MustTakes
<1>4. "must" \in Needs
  BY DEF Needs
<1>5. Len(ClmmSwap) = 12 /\ \A i \in 1 .. 12 : ClmmSwap[i] = Field(a[i], "must")
  BY <1>1, <1>2, <1>4, FieldsAre DEF Must
<1>6. Takes(ClmmSwap, 197)
  <2>1. EndOf(ClmmSwap, 0, 6) = 144
    BY <1>1, <1>3 DEF Laid
  <2>2. EndOf(ClmmSwap, 0, 12) = 197
    BY <1>1, <1>3, <2>1 DEF Laid
  <2>3. QED
    BY <1>1, <1>3, <2>2 DEF Takes, Laid
<1>7. QED
  BY <1>5, <1>6 DEF Field, Variable

LEMMA DbcInitializePoolLength == Takes(DbcInitializePool, 137)
<1> DEFINE a == <<KEY, KEY, KEY, KEY, 1, 8>>
<1>1. a \in Seq(Nat) /\ Len(a) = 6 /\ a[1] = 32 /\ a[2] = 32 /\ a[3] = 32 /\ a[4] = 32 /\ a[5] = 1 /\ a[6] = 8
  BY DEF KEY
<1>2. DbcInitializePool = Must(a)
  BY DEF DbcInitializePool
<1> HIDE DEF a
<1>3. Laid(DbcInitializePool, a)
  BY <1>1, <1>2, MustTakes
<1>4. QED
  BY <1>1, <1>3 DEF Takes, Laid

\* The length guards of the shared discriminators.
LEMMA TheGuards ==
  /\ Opens(PumpTrade, AtLeast(217)) /\ Opens(LaunchlabTrade, Exactly(139))
  /\ Opens(DammInitializePool, AtLeast(332))
<1> USE DEF KEY
<1>1. \A ws \in Seq(Nat) : Must(ws) \in Layouts /\ Zero(ws) \in Layouts /\ Stay(ws) \in Layouts
  BY FieldsLaid DEF Must, Zero, Stay, Needs
<1>2. \A n \in Nat : Opens(Rest(AtLeast(n)), AtLeast(n)) /\ Opens(Rest(Exactly(n)), Exactly(n))
  BY RestOpens, BoundsAre
<1>3. Opens(PumpTrade, AtLeast(217))
  <2>1. /\ Must(<<KEY, 8, 8, 1, KEY>>) \in Layouts /\ Must(<<KEY, 8, 8, KEY, 8, 8>>) \in Layouts
        /\ Must(Rep(8, 5)) \in Layouts /\ Zero(<<1>>) \in Layouts /\ Zero(Rep(8, 4)) \in Layouts
        /\ Zero(<<1, 8, 8>>) \in Layouts /\ Stay(<<8, 8>>) \in Layouts /\ Stay(<<KEY>>) \in Layouts
        /\ Stay(Rep(8, 6)) \in Layouts
    <3>1. /\ <<KEY, 8, 8, 1, KEY>> \in Seq(Nat) /\ <<KEY, 8, 8, KEY, 8, 8>> \in Seq(Nat) /\ <<1>> \in Seq(Nat)
          /\ <<1, 8, 8>> \in Seq(Nat) /\ <<8, 8>> \in Seq(Nat) /\ <<KEY>> \in Seq(Nat)
          /\ Rep(8, 5) \in Seq(Nat) /\ Rep(8, 4) \in Seq(Nat) /\ Rep(8, 6) \in Seq(Nat)
      BY DEF Rep
    <3>2. QED
      BY <3>1, <1>1
  <2>2. Opens(Rest(AtLeast(217)) \o Must(<<KEY, 8, 8, 1, KEY>>) \o Must(Rep(8, 5)) \o Must(<<KEY, 8, 8, KEY, 8, 8>>)
                \o Zero(<<1>>), AtLeast(217))
    BY <1>2, <2>1, JoinOpens
  <2>3. QED
    BY <2>1, <2>2, TextIs, JoinOpens DEF PumpTrade
<1>4. Opens(LaunchlabTrade, Exactly(139))
  <2>1. Must(<<KEY>>) \in Layouts /\ Must(Rep(8, 13)) \in Layouts /\ Must(<<1, 1, 1>>) \in Layouts
    <3>1. <<KEY>> \in Seq(Nat) /\ Rep(8, 13) \in Seq(Nat) /\ <<1, 1, 1>> \in Seq(Nat)
      BY DEF Rep
    <3>2. QED
      BY <3>1, <1>1
  <2>2. QED
    BY <1>2, <2>1, JoinOpens DEF LaunchlabTrade
<1>5. Opens(DammInitializePool, AtLeast(332))
  <2>1. Must(Rep(KEY, 6)) \in Layouts /\ Must(<<27, 2, 1>>) \in Layouts
    <3>1. Rep(KEY, 6) \in Seq(Nat) /\ <<27, 2, 1>> \in Seq(Nat)
      BY DEF Rep
    <3>2. QED
      BY <3>1, <1>1
  <2>2. Must(<<16, 16, 1, 1, 16, 16, 8, 1, 1, 8, 8, 8, 8, 1>>) \in Layouts
    <3>1. <<16, 16, 1, 1, 16, 16, 8, 1, 1, 8, 8, 8, 8, 1>> \in Seq(Nat)
      OBVIOUS
    <3>2. QED
      BY <3>1, <1>1
  <2>3. Option(32) \in Layouts
    <3>1. Variable(1, 32, 1, "must") \in AField
      BY VariableIs DEF Needs
    <3>2. QED
      BY <3>1 DEF Option, Layouts
  <2>4. Rest(AtLeast(31)) \in Layouts /\ Rest(AtLeast(109)) \in Layouts
    BY RestIs, BoundsAre
  <2>5. DammPoolFees \in Layouts
    BY <2>1, <2>3, <2>4, JoinedLayouts DEF DammPoolFees
  <2>6. QED
    BY <1>2, <2>1, <2>2, <2>4, <2>5, JoinOpens DEF DammInitializePool
<1>6. QED
  BY <1>3, <1>4, <1>5

\* The lengths these decoders take.
LEMMA TheLengths ==
  ASSUME NEW len \in Nat, NEW k
  PROVE  /\ Read(PumpTrade, len, k).event => len >= 217
         /\ Read(LaunchlabTrade, len, k).event => len = 139
         /\ Read(DammInitializePool, len, k).event => len >= 332
<1>1. Read(PumpTrade, len, k).event => len >= 217
  <2> SUFFICES ASSUME len < 217 PROVE ~Read(PumpTrade, len, k).event
    OBVIOUS
  <2>1. \A b \in AtLeast(217) : len \notin b[1] .. b[2]
    BY DEF AtLeast
  <2>2. QED
    BY <2>1, TheGuards, Guarded
<1>2. Read(LaunchlabTrade, len, k).event => len = 139
  <2> SUFFICES ASSUME len # 139 PROVE ~Read(LaunchlabTrade, len, k).event
    OBVIOUS
  <2>1. \A b \in Exactly(139) : len \notin b[1] .. b[2]
    BY DEF Exactly
  <2>2. QED
    BY <2>1, TheGuards, Guarded
<1>3. Read(DammInitializePool, len, k).event => len >= 332
  <2> SUFFICES ASSUME len < 332 PROVE ~Read(DammInitializePool, len, k).event
    OBVIOUS
  <2>1. \A b \in AtLeast(332) : len \notin b[1] .. b[2]
    BY DEF AtLeast
  <2>2. QED
    BY <2>1, TheGuards, Guarded
<1>4. QED
  BY <1>1, <1>2, <1>3

\* A decoder with one layout gives nothing when that gives no event.
LEMMA OnlyLayout ==
  ASSUME NEW events, NEW d, NEW kind, NEW len, NEW k, NEW l, events[d].layouts = <<l>>, ~Read(l, len, k).event
  PROVE  Decoded(events, d, kind, len, k) = Nothing
BY DEF Decoded

(***************************************************************************)
(* Lines of unknown programs, decided                                      *)
(***************************************************************************)

\* Whose table it is, in the order of the decoders; the tenth of the types is the DLMM's.
Place ==
  <<"PumpFun", "PumpFees", "PumpSwap", "Clmm", "Cpmm", "AmmV4", "Orca", "Pools", "DammV2", "Launchlab", "Dlmm">>

\* Where in the order of the decoders each program is.
LEMMA ThePlaces ==
  /\ Place[1] = "PumpFun" /\ Place[2] = "PumpFees" /\ Place[3] = "PumpSwap" /\ Place[4] = "Clmm"
  /\ Place[5] = "Cpmm" /\ Place[6] = "AmmV4" /\ Place[7] = "Orca" /\ Place[8] = "Pools" /\ Place[9] = "DammV2"
  /\ Place[10] = "Launchlab" /\ Place[11] = "Dlmm"
BY DEF Place

\* Of the DLMM's rows only ClaimReward2 is a claim.
LEMMA ClaimRewardHas == "Dlmm.ClaimReward2" \in DOMAIN DlmmEvents
BY JoinHas, RowHas DEF DlmmEvents

LEMMA ClaimRewardTypes ==
  Within(DlmmEvents, "Dlmm.ClaimReward2", METEORA_DLMM_FILTER_TYPES \ {"MeteoraDlmmClaimReward"})
BY RowWithin, JoinWithin DEF DlmmEvents, Ev, METEORA_DLMM_FILTER_TYPES

\* A row of either order is a row of the program's table.
LEMMA DecoderOf ==
  ASSUME NEW i \in 1 .. 11, NEW d \in DOMAIN DecoderOrder[i]
  PROVE  d \in DOMAIN Events[Place[i]] /\ DecoderOrder[i][d] = Events[Place[i]][d]
<1>1. CASE i \in {1, 2, 3}
  BY <1>1, TheOrders, ThePlaces
<1>2. CASE i \in {4, 7, 8, 9}
  BY <1>2, TheOrders, ThePlaces, TheTables
<1>3. CASE i = 5
  BY <1>3, TheOrders, ThePlaces, TheTables DEF CpmmReached
<1>4. CASE i = 6
  BY <1>4, TheOrders, ThePlaces, TheTables, JoinHas, JoinLeft
<1>5. CASE i \in {10, 11}
  BY <1>5, TheOrders, ThePlaces, TheTables
<1>6. QED
  BY <1>1, <1>2, <1>3, <1>4, <1>5

\* A row of the order of types is a row of the table of a program.
LEMMA TypeOf ==
  ASSUME NEW i \in 1 .. 10, NEW d \in DOMAIN TypeOrder[i]
  PROVE  LET q == IF i = 10 THEN "Dlmm" ELSE Place[i]
         IN q \in Programs /\ d \in DOMAIN Events[q] /\ TypeOrder[i][d] = Events[q][d]
<1>1. CASE i \in {1, 2, 3}
  BY <1>1, TheOrders, ThePlaces, ThePrograms
<1>2. CASE i \in {4, 7, 8, 9}
  BY <1>2, TheOrders, ThePlaces, TheTables, ThePrograms
<1>3. CASE i = 5
  BY <1>3, TheOrders, ThePlaces, TheTables, ThePrograms
<1>4. CASE i = 6
  BY <1>4, TheOrders, ThePlaces, TheTables, JoinHas, JoinLeft, ThePrograms
<1>5. CASE i = 10
  <2>1. d = "Dlmm.ClaimReward2" /\ TypeOrder[i][d] = DlmmEvents[d]
    BY <1>5, TheOrders DEF ClaimReward2
  <2>2. d \in DOMAIN Events["Dlmm"] /\ Events["Dlmm"][d] = DlmmEvents[d]
    BY <2>1, ClaimRewardHas, TheTables, JoinHas, JoinLeft
  <2>3. QED
    BY <1>5, <2>1, <2>2, ThePrograms
<1>6. QED
  BY <1>1, <1>2, <1>3, <1>4, <1>5

\* Both orders find the same row, if they find one.  One only the decoders find is of LaunchLab or
\* the DLMM, and not one the order of the types would have met before.
LEMMA SameRow ==
  ASSUME NEW d, d \notin {"TradeEvent", "SwapBaseIn"}
  PROVE  LET t == FirstWith(TypeOrder, d)
             e == FirstWith(DecoderOrder, d)
         IN \/ \E q \in Programs : /\ d \in DOMAIN t /\ d \in DOMAIN Events[q] /\ t[d] = Events[q][d]
                                   /\ d \in DOMAIN e => e[d] = Events[q][d]
            \/ d \notin DOMAIN t /\ d \notin DOMAIN e
            \/ /\ d \notin DOMAIN t /\ d \notin DOMAIN PoolsEvents /\ d # "Dlmm.ClaimReward2"
               /\ \E q \in {"Launchlab", "Dlmm"} : d \in DOMAIN Events[q] /\ e[d] = Events[q][d]
<1> DEFINE t == FirstWith(TypeOrder, d)
           e == FirstWith(DecoderOrder, d)
<1>1. \/ (\A i \in 1 .. 10 : d \notin DOMAIN TypeOrder[i]) /\ t = <<>>
      \/ \E i \in 1 .. 10 : /\ d \in DOMAIN TypeOrder[i] /\ t = TypeOrder[i]
                            /\ \A j \in 1 .. 10 : d \in DOMAIN TypeOrder[j] => i <= j
  <2>1. 10 \in Nat /\ DOMAIN TypeOrder = 1 .. 10
    BY TheOrders
  <2>2. QED
    BY <2>1, FirstIs
<1>2. \/ (\A i \in 1 .. 11 : d \notin DOMAIN DecoderOrder[i]) /\ e = <<>>
      \/ \E i \in 1 .. 11 : /\ d \in DOMAIN DecoderOrder[i] /\ e = DecoderOrder[i]
                            /\ \A j \in 1 .. 11 : d \in DOMAIN DecoderOrder[j] => i <= j
  <2>1. 11 \in Nat /\ DOMAIN DecoderOrder = 1 .. 11
    BY TheOrders
  <2>2. QED
    BY <2>1, FirstIs
<1> HIDE DEF t, e
<1>3. CASE \A i \in 1 .. 10 : d \notin DOMAIN TypeOrder[i]
  <2>1. d \notin DOMAIN t
    BY <1>1, <1>3, EmptyHasNone
  <2>2. CASE e = <<>>
    BY <2>1, <2>2, EmptyHasNone DEF t, e
  <2>3. CASE e # <<>>
    <3>1. PICK i \in 1 .. 11 : d \in DOMAIN DecoderOrder[i] /\ e = DecoderOrder[i]
      BY <1>2, <2>3
    <3>2. i \in {10, 11}
      <4>1. CASE i = 5
        BY <1>3, <3>1, <4>1, TheOrders DEF CpmmReached
      <4>2. CASE i \in 1 .. 9 /\ i # 5
        BY <1>3, <3>1, <4>2, TheOrders
      <4>3. QED
        BY <4>1, <4>2
    <3>3. d \notin DOMAIN PoolsEvents /\ d # "Dlmm.ClaimReward2"
      BY <1>3, TheOrders DEF ClaimReward2
    <3>4. d \in DOMAIN Events[Place[i]] /\ e[d] = Events[Place[i]][d] /\ Place[i] \in {"Launchlab", "Dlmm"}
      BY <3>1, <3>2, DecoderOf, ThePlaces
    <3>5. QED
      BY <2>1, <3>3, <3>4 DEF t, e
  <2>4. QED
    BY <2>2, <2>3
<1>4. ASSUME NEW i \in 1 .. 10, d \in DOMAIN TypeOrder[i], t = TypeOrder[i],
             \A j \in 1 .. 10 : d \in DOMAIN TypeOrder[j] => i <= j
      PROVE  \E q \in Programs : /\ d \in DOMAIN t /\ d \in DOMAIN Events[q] /\ t[d] = Events[q][d]
                                 /\ d \in DOMAIN e => e[d] = Events[q][d]
  <2> DEFINE q == IF i = 10 THEN "Dlmm" ELSE Place[i]
  <2>1. q \in Programs /\ d \in DOMAIN Events[q] /\ t[d] = Events[q][d]
    BY <1>4, TypeOf
  <2>2. ASSUME d \in DOMAIN e PROVE e[d] = Events[q][d]
    <3>1. PICK n \in 1 .. 11 : /\ d \in DOMAIN DecoderOrder[n] /\ e = DecoderOrder[n]
                               /\ \A j \in 1 .. 11 : d \in DOMAIN DecoderOrder[j] => n <= j
      BY <1>2, <2>2, EmptyHasNone
    <3>2. Place[n] \in Programs
      BY ThePlaces, ThePrograms
    <3>3. d \in DOMAIN Events[Place[n]] /\ e[d] = Events[Place[n]][d]
      BY <3>1, DecoderOf
    <3>4. Place[n] = q
      <4>1. CASE d \notin SharedNames
        <5> HIDE DEF q
        <5>1. QED
          BY <2>1, <3>2, <3>3, <4>1, HomeOf
      <4>2. CASE d = "SwapEvent"
        <5>1. Place[n] \in {"Clmm", "Cpmm"} /\ q \in {"Clmm", "Cpmm"}
          <6> HIDE DEF q
          <6>1. QED
            BY <2>1, <3>2, <3>3, <4>2, SharedBy
        <5>2. n \in {4, 5} /\ i \in {4, 5}
          BY <5>1, ThePlaces
        <5>3. n # 5
          BY <3>1, <4>2, TheOrders DEF CpmmReached
        <5>4. i = 4
          BY <1>4, <3>1, <5>2, <5>3, TheOrders
        <5>5. QED
          BY <5>2, <5>3, <5>4
      <4>3. CASE d \in {"Swap", "AddLiquidity", "RemoveLiquidity"}
        <5>1. Place[n] \in {"Pools", "Dlmm"} /\ q \in {"Pools", "Dlmm"}
          <6> HIDE DEF q
          <6>1. QED
            BY <2>1, <3>2, <3>3, <4>3, SharedBy
        <5>2. n \in {8, 11} /\ i \in {8, 10}
          BY <5>1, ThePlaces
        <5>3. i # 10
          BY <1>4, <4>3, TheOrders DEF ClaimReward2
        <5>4. n = 8
          BY <1>4, <3>1, <5>2, <5>3, TheOrders
        <5>5. QED
          BY <5>2, <5>3, <5>4
      <4>4. CASE d \in {"EvtSwap", "EvtSwap2", "EvtInitializePool"}
        <5>1. Place[n] \in {"DammV2", "Dbc"} /\ q \in {"DammV2", "Dbc"}
          <6> HIDE DEF q
          <6>1. QED
            BY <2>1, <3>2, <3>3, <4>4, SharedBy
        <5>2. n = 9 /\ i = 9
          BY <5>1, ThePlaces
        <5>3. QED
          BY <5>2
      <4>5. QED
        BY <4>1, <4>2, <4>3, <4>4 DEF SharedNames
    <3>5. QED
      BY <3>3, <3>4
  <2>3. QED
    BY <1>4, <2>1, <2>2
<1>5. QED
  BY <1>1, <1>3, <1>4 DEF t, e

\* SwapBaseIn is an event of the CPMM and of the DLMM.
LEMMA CpmmSwapBaseInRow == Says(CpmmEvents, "SwapBaseIn", Ev("RaydiumCpmmSwap", <<CpmmSwapBaseIn>>))
BY RowSays, JoinSays DEF CpmmEvents

LEMMA DlmmSwapBaseInRow == Says(DlmmLegacyEvents, "SwapBaseIn", Ev("MeteoraDlmmSwap", <<DlmmSwap>>))
BY RowSays, JoinSays DEF DlmmLegacyEvents

LEMMA SwapBaseInTypes ==
  \A q \in {"Cpmm", "Dlmm"} :
    "SwapBaseIn" \in DOMAIN Events[q] => Events[q]["SwapBaseIn"].type \in {"RaydiumCpmmSwap", "MeteoraDlmmSwap"}
<1>1. "SwapBaseIn" \in DOMAIN Events["Cpmm"] => Events["Cpmm"]["SwapBaseIn"].type = "RaydiumCpmmSwap"
  BY TheTables, CpmmSwapBaseInRow DEF Says, Ev
<1>2. "SwapBaseIn" \in DOMAIN Events["Dlmm"] => Events["Dlmm"]["SwapBaseIn"].type = "MeteoraDlmmSwap"
  <2>1. "SwapBaseIn" \notin DOMAIN DlmmEvents
    BY DlmmEventsNamed DEF Named, DlmmNames
  <2>2. QED
    BY <2>1, TheTables, JoinHas, JoinRight, DlmmSwapBaseInRow DEF Says, Ev
<1>3. QED
  BY <1>1, <1>2

\* The decoders whose events the filter is asked about again.
AskedAgain ==
  Upgrades \cup {"SwapBaseIn"} \cup DOMAIN DammV2Events \cup DOMAIN LaunchlabEvents
    \cup (DOMAIN Events.Dlmm \ DOMAIN PoolsEvents)

\* A gate that opens for exactly those who admit the event is the filter.
LEMMA ExactGate ==
  ASSUME NEW f, NEW d, d # "TradeEvent", NEW ev, NEW gate,
         ev = Nothing \/ (ev.type # None /\ gate = ShouldInclude(f, ev.type))
  PROVE  (IF gate THEN ev ELSE Nothing) = Verdict(f, d, ev)
BY NothingIsNone DEF Verdict

\* What a gate says is true or false.
LEMMA AdmitsOrNot == \A f, t, S : Filter(f) => ShouldInclude(f, t) \in BOOLEAN /\ IncludesAny(f, S) \in BOOLEAN
BY DEF Filter, ShouldInclude, IncludesAny, IncludesOnly, Excludes, Meets

LEMMA UnscopedGates == \A f, d : Filter(f) => AllowsUnscoped(f, d) \in BOOLEAN
BY AdmitsOrNot DEF AllowsUnscoped, WantsPumpfunTrade, WantsSupportedLogs, IncludesProgram

\* Everyone supports somebody.
LEMMA AllSupported == WantsSupportedLogs(All) /\ WantsPumpfunTrade(All) /\ \A d : AllowsUnscoped(All, d)
<1>1. WantsSupportedLogs(All)
  <2>1. "Dbc" \in Programs
    BY ThePrograms
  <2>2. QED
    BY <2>1, AllAdmits, TheGates DEF WantsSupportedLogs, IncludesProgram
<1>2. WantsPumpfunTrade(All)
  BY AllAdmits DEF WantsPumpfunTrade
<1>3. QED
  BY <1>1, <1>2, AllAdmits DEF AllowsUnscoped

\* What the line of an unknown program whose discriminator no two programs' trades share decodes to,
\* and how its gate judges it.
LEMMA UnscopedDecoded ==
  ASSUME NEW f, Filter(f), NEW d, d \notin {"TradeEvent", "SwapBaseIn"}, NEW kind, NEW len, NEW k
  PROVE  LET ev == Decoded(FirstWith(DecoderOrder, d), d, kind, len, k)
         IN /\ ev.type # None /\ ShouldInclude(f, ev.type) => AllowsUnscoped(f, d)
            /\ d \notin AskedAgain => ev = Nothing \/ (ev.type # None /\ AllowsUnscoped(f, d) = ShouldInclude(f, ev.type))
<1> DEFINE t == FirstWith(TypeOrder, d)
           e == FirstWith(DecoderOrder, d)
           ev == Decoded(e, d, kind, len, k)
<1>1. AllowsUnscoped(f, d) = IF d \in DOMAIN t /\ t[d].type # None THEN ShouldInclude(f, t[d].type) ELSE WantsSupportedLogs(f)
  BY DEF AllowsUnscoped, UnscopedType
<1>2. /\ d \notin DOMAIN e => ev = Nothing
      /\ ev = Nothing \/ ev.type = ActualType(e[d].type, kind)
  BY DecodedType
<1>3. \/ \E q \in Programs : /\ d \in DOMAIN t /\ d \in DOMAIN Events[q] /\ t[d] = Events[q][d]
                             /\ d \in DOMAIN e => e[d] = Events[q][d]
      \/ d \notin DOMAIN t /\ d \notin DOMAIN e
      \/ /\ d \notin DOMAIN t /\ d \notin DOMAIN PoolsEvents /\ d # "Dlmm.ClaimReward2"
         /\ \E q \in {"Launchlab", "Dlmm"} : d \in DOMAIN Events[q] /\ e[d] = Events[q][d]
  BY SameRow
<1> HIDE DEF t, e, ev
<1>4. CASE ev = Nothing
  BY <1>4, NothingIsNone DEF ev, e
<1>5. ASSUME ev # Nothing,
             NEW q \in Programs, d \in DOMAIN t, d \in DOMAIN Events[q], t[d] = Events[q][d], e[d] = Events[q][d]
      PROVE  /\ ev.type # None /\ ShouldInclude(f, ev.type) => AllowsUnscoped(f, d)
             /\ d \notin AskedAgain => ev.type # None /\ AllowsUnscoped(f, d) = ShouldInclude(f, ev.type)
  <2> DEFINE T == Events[q][d].type
  <2>1. CASE T \notin {"PumpFunTrade", None}
    <3>1. ev.type = T
      BY <1>2, <1>5, <2>1, ActualTypes
    <3>2. AllowsUnscoped(f, d) = ShouldInclude(f, T)
      BY <1>1, <1>5, <2>1
    <3>3. QED
      BY <2>1, <3>1, <3>2
  <2>2. CASE T \in {"PumpFunTrade", None}
    <3>1. q = "DammV2" /\ T = None /\ d = "DammV2.LiquidityChange"
      BY <1>5, <2>2, EventTypes
    <3>2. d \in AskedAgain
      BY <1>5, <3>1, TheTables DEF AskedAgain
    <3>3. ASSUME ev.type # None, ShouldInclude(f, ev.type) PROVE AllowsUnscoped(f, d)
      <4>1. ev.type \in GateTypes["DammV2"] \ Families
        BY <1>2, <1>5, <3>1, <3>3, ActualTypes, TheGates
      <4>2. IncludesProgram(f, "DammV2")
        BY <3>1, <3>3, <4>1, ListedGate
      <4>3. QED
        BY <1>1, <1>5, <3>1, <4>2 DEF WantsSupportedLogs
    <3>4. QED
      BY <3>2, <3>3
  <2>3. QED
    BY <2>1, <2>2
<1>6. ASSUME ev # Nothing, d \notin DOMAIN t, d \notin DOMAIN PoolsEvents, d # "Dlmm.ClaimReward2",
             NEW q \in {"Launchlab", "Dlmm"}, d \in DOMAIN Events[q], e[d] = Events[q][d]
      PROVE  /\ d \in AskedAgain
             /\ ev.type # None /\ ShouldInclude(f, ev.type) => AllowsUnscoped(f, d)
  <2> DEFINE T == Events[q][d].type
  <2>1. d \in AskedAgain
    BY <1>6, TheTables DEF AskedAgain
  <2>2. q \in Programs
    BY ThePrograms
  <2>3. T \in FilterTypes[q] \ {"PumpFunTrade", None}
    BY <1>6, <2>2, EventTypes
  <2>4. T \in GateTypes[q] \ Families
    <3>1. CASE q = "Launchlab"
      BY <2>3, <3>1, TheTypes, TheGates
    <3>2. CASE q = "Dlmm"
      <4>1. T # "MeteoraDlmmClaimReward"
        <5>1. CASE d \in DOMAIN DlmmEvents
          <6>1. T = DlmmEvents[d].type
            BY <3>2, <5>1, TheTables, JoinLeft
          <6>2. QED
            BY <1>6, <5>1, <6>1, ClaimRewardTypes DEF Within
        <5>2. CASE d \notin DOMAIN DlmmEvents
          <6>1. d \in DOMAIN DlmmLegacyEvents /\ T = DlmmLegacyEvents[d].type
            BY <1>6, <3>2, <5>2, TheTables, JoinHas, JoinRight
          <6>2. QED
            BY <6>1, LegacyTypes DEF Typed
        <5>3. QED
          BY <5>1, <5>2
      <4>2. QED
        BY <2>3, <3>2, <4>1, TheTypes, TheGates
    <3>3. QED
      BY <3>1, <3>2
  <2>5. ev.type = T
    BY <1>2, <1>6, <2>3, ActualTypes
  <2>6. ShouldInclude(f, T) => IncludesProgram(f, q)
    <3> HIDE DEF T
    <3>1. QED
      BY <2>2, <2>4, ListedGate
  <2>7. QED
    BY <1>1, <1>6, <2>1, <2>2, <2>5, <2>6 DEF WantsSupportedLogs
<1>7. CASE ev # Nothing
  <2>1. d \in DOMAIN e
    BY <1>2, <1>7
  <2>2. \/ \E q \in Programs : d \in DOMAIN t /\ d \in DOMAIN Events[q] /\ t[d] = Events[q][d] /\ e[d] = Events[q][d]
        \/ /\ d \notin DOMAIN t /\ d \notin DOMAIN PoolsEvents /\ d # "Dlmm.ClaimReward2"
           /\ \E q \in {"Launchlab", "Dlmm"} : d \in DOMAIN Events[q] /\ e[d] = Events[q][d]
    BY <1>3, <2>1
  <2>3. /\ ev.type # None /\ ShouldInclude(f, ev.type) => AllowsUnscoped(f, d)
        /\ d \notin AskedAgain => ev.type # None /\ AllowsUnscoped(f, d) = ShouldInclude(f, ev.type)
    BY <1>5, <1>6, <1>7, <2>2
  <2>4. QED
    BY <2>3 DEF ev, e
<1>8. QED
  BY <1>4, <1>7

\* The two programs whose old swaps share a discriminator are asked about together.
LEMMA SwapBaseInDecoded ==
  ASSUME NEW f, NEW kind, NEW len, NEW k
  PROVE  LET ev == Decoded(FirstWith(DecoderOrder, "SwapBaseIn"), "SwapBaseIn", kind, len, k)
         IN ev.type # None /\ ShouldInclude(f, ev.type) => AllowsUnscoped(f, "SwapBaseIn")
<1> DEFINE d == "SwapBaseIn"
           e == FirstWith(DecoderOrder, d)
           ev == Decoded(e, d, kind, len, k)
<1>1. /\ d \notin DOMAIN e => ev = Nothing
      /\ ev = Nothing \/ ev.type = ActualType(e[d].type, kind)
  BY DecodedType
<1>2. AllowsUnscoped(f, d) = (ShouldInclude(f, "RaydiumCpmmSwap") \/ ShouldInclude(f, "MeteoraDlmmSwap"))
  BY DEF AllowsUnscoped
<1>3. \/ (\A i \in 1 .. 11 : d \notin DOMAIN DecoderOrder[i]) /\ e = <<>>
      \/ \E i \in 1 .. 11 : /\ d \in DOMAIN DecoderOrder[i] /\ e = DecoderOrder[i]
                            /\ \A j \in 1 .. 11 : d \in DOMAIN DecoderOrder[j] => i <= j
  <2>1. 11 \in Nat /\ DOMAIN DecoderOrder = 1 .. 11
    BY TheOrders
  <2>2. QED
    BY <2>1, FirstIs
<1> HIDE DEF e, ev
<1>4. CASE d \notin DOMAIN e
  BY <1>1, <1>4, NothingIsNone DEF ev, e
<1>5. CASE d \in DOMAIN e
  <2>1. PICK i \in 1 .. 11 : d \in DOMAIN DecoderOrder[i] /\ e = DecoderOrder[i]
    BY <1>3, <1>5, EmptyHasNone
  <2>2. d \in DOMAIN Events[Place[i]] /\ e[d] = Events[Place[i]][d] /\ Place[i] \in Programs
    BY <2>1, DecoderOf, ThePlaces, ThePrograms
  <2>3. Place[i] \in {"Cpmm", "Dlmm"}
    BY <2>2, SharedBy
  <2>4. e[d].type \in {"RaydiumCpmmSwap", "MeteoraDlmmSwap"}
    BY <2>2, <2>3, SwapBaseInTypes
  <2>5. ev.type \in {None, "RaydiumCpmmSwap", "MeteoraDlmmSwap"}
    BY <1>1, <2>4, ActualTypes, NothingIsNone DEF None
  <2>6. QED
    BY <1>2, <2>5 DEF ev, e
<1>6. QED
  BY <1>4, <1>5

\* A payload is not a trade of Pump's and of LaunchLab's: the lengths tell them apart.
LEMMA OneTrade ==
  ASSUME NEW kind, NEW len \in Nat, NEW k
  PROVE  \/ Decoded(PumpFunEvents, "TradeEvent", kind, len, k) = Nothing
         \/ Decoded(LaunchlabEvents, "TradeEvent", kind, len, k) = Nothing
<1>1. CASE len < 217
  <2>1. ~Read(PumpTrade, len, k).event
    BY <1>1, TheLengths
  <2>2. CASE "TradeEvent" \in DOMAIN PumpFunEvents
    <3>1. PumpFunEvents["TradeEvent"].layouts = <<PumpTrade>>
      BY <2>2, PumpTradeRow DEF Says, Ev
    <3>2. QED
      BY <2>1, <3>1, OnlyLayout
  <2>3. QED
    BY <2>2, DecodedType
<1>2. CASE ~(len < 217)
  <2>1. ~Read(LaunchlabTrade, len, k).event
    BY <1>2, TheLengths
  <2>2. CASE "TradeEvent" \in DOMAIN LaunchlabEvents
    <3>1. LaunchlabEvents["TradeEvent"].layouts = <<LaunchlabTrade>>
      BY <2>2, LaunchlabTradeRow DEF Says, Ev
    <3>2. QED
      BY <2>1, <3>1, OnlyLayout
  <2>3. QED
    BY <2>2, DecodedType
<1>3. QED
  BY <1>1, <1>2

\* A TradeEvent of an unknown program is a trade of Pump or of the Launchlab.
LEMMA TradeTypes ==
  ASSUME NEW kind, NEW len, NEW k
  PROVE  /\ Decoded(PumpFunEvents, "TradeEvent", kind, len, k).type \in PumpTrades \cup {None}
         /\ Decoded(LaunchlabEvents, "TradeEvent", kind, len, k).type \in {"RaydiumLaunchlabTrade", None}
<1>1. "TradeEvent" \in DOMAIN PumpFunEvents => PumpFunEvents["TradeEvent"].type = "PumpFunTrade"
  BY PumpTradeRow DEF Says, Ev
<1>2. "TradeEvent" \in DOMAIN LaunchlabEvents => LaunchlabEvents["TradeEvent"].type = "RaydiumLaunchlabTrade"
  BY LaunchlabTradeRow DEF Says, Ev
<1>3. "RaydiumLaunchlabTrade" \notin {"PumpFunTrade", None}
  BY DEF None
<1>4. Decoded(PumpFunEvents, "TradeEvent", kind, len, k).type \in PumpTrades \cup {None}
  BY <1>1, DecodedType, ActualTypes, NothingIsNone
<1>5. Decoded(LaunchlabEvents, "TradeEvent", kind, len, k).type \in {"RaydiumLaunchlabTrade", None}
  BY <1>2, <1>3, DecodedType, ActualTypes, NothingIsNone
<1>6. QED
  BY <1>4, <1>5

\* The line of a trade, whoever made it.
LEMMA UnscopedTradeLine ==
  ASSUME NEW f, Filter(f), NEW kind, NEW len \in Nat, NEW k
  PROVE  LogEvent(f, None, "TradeEvent", kind, len, k)
           = Verdict(f, "TradeEvent", LogEvent(All, None, "TradeEvent", kind, len, k))
<1> DEFINE pump == Decoded(PumpFunEvents, "TradeEvent", kind, len, k)
           lab == Decoded(LaunchlabEvents, "TradeEvent", kind, len, k)
           Pump(g) == IF WantsPumpfunTrade(g) THEN SecondaryFilter(g, pump) ELSE Nothing
           Lab(g) == IF ShouldInclude(g, "RaydiumLaunchlabTrade") THEN Only(g, lab) ELSE Nothing
<1>1. \A g : LogEvent(g, None, "TradeEvent", kind, len, k)
               = IF WantsPumpfunTrade(g) \/ ShouldInclude(g, "RaydiumLaunchlabTrade")
                 THEN (IF Pump(g).type # None THEN Pump(g) ELSE Lab(g)) ELSE Nothing
  BY DEF LogEvent, LogGate, AllowsUnscoped, UnscopedTrade, None
<1>2. pump = Nothing \/ lab = Nothing
  BY OneTrade
<1>3. pump.type \in PumpTrades \cup {None} /\ lab.type \in {"RaydiumLaunchlabTrade", None}
  BY TradeTypes
<1> HIDE DEF pump, lab
<1>4. \A g : Only(g, Nothing) = Nothing /\ SecondaryFilter(g, Nothing) = Nothing
  BY NothingIsNone DEF Only, SecondaryFilter
<1>5. CASE pump = Nothing
  <2>1. \A g : Pump(g) = Nothing
    BY <1>4, <1>5
  <2>2. \A g : LogEvent(g, None, "TradeEvent", kind, len, k) = Lab(g)
    <3> HIDE DEF Pump
    <3>1. QED
      BY <1>1, <2>1, NothingIsNone
  <2>3. Lab(All) = Only(All, lab)
    BY AllAdmits
  <2>4. ASSUME lab.type # None, ShouldInclude(f, lab.type)
        PROVE  ShouldInclude(f, "RaydiumLaunchlabTrade") /\ SecondaryFilter(f, lab) = lab
    <3>1. lab.type = "RaydiumLaunchlabTrade"
      BY <1>3, <2>4
    <3>2. lab.type \notin Families
      BY <3>1 DEF Families, PumpTrades, PUMPFUN_TRADE_FAMILY, PUMPFUN_BUY_FAMILY, PUMPFUN_CREATE_FAMILY,
           PUMPSWAP_TRADE_FAMILY
    <3>3. QED
      BY <2>4, <3>1, <3>2, SecondaryIsPumps
  <2>5. ShouldInclude(f, "RaydiumLaunchlabTrade") \in BOOLEAN
    BY AdmitsOrNot
  <2>6. Lab(f) = Verdict(f, "TradeEvent", Only(All, lab))
    BY <2>4, <2>5, HarmlessGate
  <2> HIDE DEF Lab
  <2>7. QED
    BY <2>2, <2>3, <2>6
<1>6. CASE lab = Nothing
  <2>1. \A g : Lab(g) = Nothing
    BY <1>4, <1>6
  <2>2. \A g : Pump(g).type = None => Pump(g) = Nothing
    <3>1. \A g : SecondaryFilter(g, pump) \in {Nothing, pump} /\ (pump.type = None => SecondaryFilter(g, pump) = Nothing)
      BY KeptOrDropped
    <3>2. QED
      BY <3>1
  <2>3. \A g : ~WantsPumpfunTrade(g) => Pump(g) = Nothing
    OBVIOUS
  <2>4. \A g : LogEvent(g, None, "TradeEvent", kind, len, k) = Pump(g)
    <3> HIDE DEF Pump, Lab
    <3>1. QED
      BY <1>1, <2>1, <2>2, <2>3, NothingIsNone
  <2>5. Pump(All) = SecondaryFilter(All, pump)
    BY AllSupported
  <2>6. Pump(f) = Verdict(f, "TradeEvent", SecondaryFilter(All, pump))
    BY <1>3, HarmlessPumpGate
  <2> HIDE DEF Pump
  <2>7. QED
    BY <2>4, <2>5, <2>6
<1>7. QED
  BY <1>2, <1>5, <1>6

\* The filter alone decides about the line of a program the matcher was not told, too.
LEMMA UnscopedLine ==
  ASSUME NEW f, Filter(f), NEW d, NEW kind, NEW len, NEW k, d = "TradeEvent" => len \in Nat
  PROVE  LogEvent(f, None, d, kind, len, k) = Verdict(f, d, LogEvent(All, None, d, kind, len, k))
<1>1. CASE d = "TradeEvent"
  BY <1>1, UnscopedTradeLine
<1>2. CASE d # "TradeEvent"
  <2> DEFINE ev == Decoded(FirstWith(DecoderOrder, d), d, kind, len, k)
             Asked(g) == IF d \in AskedAgain THEN Only(g, ev) ELSE ev
  <2>1. \A g : LogEvent(g, None, d, kind, len, k) = IF AllowsUnscoped(g, d) THEN Asked(g) ELSE Nothing
    BY <1>2 DEF LogEvent, LogGate, AskedAgain, None
  <2>2. ev.type # None /\ ShouldInclude(f, ev.type) => AllowsUnscoped(f, d)
    BY <1>2, UnscopedDecoded, SwapBaseInDecoded
  <2>3. d \notin AskedAgain => ev = Nothing \/ (ev.type # None /\ AllowsUnscoped(f, d) = ShouldInclude(f, ev.type))
    <3>1. "SwapBaseIn" \in AskedAgain
      BY DEF AskedAgain
    <3>2. QED
      BY <1>2, <3>1, UnscopedDecoded
  <2> HIDE DEF ev
  <2>4. LogEvent(All, None, d, kind, len, k) = Asked(All)
    BY <2>1, AllSupported
  <2>5. CASE d \in AskedAgain
    <3>1. (IF AllowsUnscoped(f, d) THEN Only(f, ev) ELSE Nothing) = Verdict(f, d, Only(All, ev))
      BY <1>2, <2>2, UnscopedGates, HarmlessGate
    <3>2. QED
      BY <2>1, <2>4, <2>5, <3>1
  <2>6. CASE d \notin AskedAgain
    <3>1. (IF AllowsUnscoped(f, d) THEN ev ELSE Nothing) = Verdict(f, d, ev)
      BY <1>2, <2>3, <2>6, ExactGate
    <3>2. QED
      BY <2>1, <2>4, <2>6, <3>1
  <2>7. QED
    BY <2>5, <2>6
<1>3. QED
  BY <1>1, <1>2

\* Every program has filter types.
LEMMA FilterTypesHold == \A p \in Programs : FilterTypes[p] # {}
<1> SUFFICES ASSUME NEW p \in Programs PROVE FilterTypes[p] # {}
  OBVIOUS
<1>1. CASE p \in {"PumpFun", "PumpFees", "PumpSwap", "Launchlab", "Clmm"}
  BY <1>1, TheTypes DEF PUMPFUN_FILTER_TYPES, PUMP_FEES_EVENT_TYPES, PUMPSWAP_FILTER_TYPES,
       RAYDIUM_LAUNCHLAB_FILTER_TYPES, RAYDIUM_CLMM_FILTER_TYPES
<1>2. CASE p \in {"Cpmm", "AmmV4", "Orca", "Pools", "Dbc", "DammV2", "Dlmm"}
  BY <1>2, TheTypes DEF RAYDIUM_CPMM_FILTER_TYPES, RAYDIUM_AMM_V4_FILTER_TYPES, ORCA_WHIRLPOOL_FILTER_TYPES,
       METEORA_POOLS_FILTER_TYPES, METEORA_DBC_FILTER_TYPES, METEORA_DAMM_V2_FILTER_TYPES, METEORA_DLMM_FILTER_TYPES
<1>3. QED
  BY <1>1, <1>2, ThePrograms

(***************************************************************************)
(* Event CPIs                                                              *)
(***************************************************************************)

\* An event of a program is reported under a type of the program.
LEMMA ReportedTypes ==
  ASSUME NEW p \in Programs, NEW d \in DOMAIN Events[p], NEW kind, NEW ev,
         ev = Nothing \/ ev.type = ActualType(Events[p][d].type, kind)
  PROVE  ev.type \in FilterTypes[p] \cup {None}
<1>1. CASE ev = Nothing
  BY <1>1, NothingIsNone
<1>2. CASE ev.type = ActualType(Events[p][d].type, kind)
  <2>1. CASE Events[p][d].type \in FilterTypes[p] \ {"PumpFunTrade", None}
    BY <1>2, <2>1, ActualTypes
  <2>2. CASE p = "PumpFun" /\ Events[p][d].type = "PumpFunTrade"
    <3>1. ev.type \in PumpTrades
      BY <1>2, <2>2, ActualTypes
    <3>2. PumpTrades \subseteq FilterTypes[p]
      BY <2>2, TheTypes DEF PumpTrades, PUMPFUN_FILTER_TYPES
    <3>3. QED
      BY <3>1, <3>2
  <2>3. CASE p = "DammV2" /\ Events[p][d].type = None
    <3>1. ev.type \in {None, "MeteoraDammV2AddLiquidity", "MeteoraDammV2RemoveLiquidity"}
      BY <1>2, <2>3, ActualTypes
    <3>2. {"MeteoraDammV2AddLiquidity", "MeteoraDammV2RemoveLiquidity"} \subseteq FilterTypes[p]
      BY <2>3, TheTypes DEF METEORA_DAMM_V2_FILTER_TYPES
    <3>3. QED
      BY <3>1, <3>2
  <2>4. QED
    BY <2>1, <2>2, <2>3, EventTypes
<1>3. QED
  BY <1>1, <1>2

\* The decoders of the event CPIs report under the types of the log's.
LEMMA DammRows ==
  /\ Says(DammV2Events, "EvtSwap", Ev("MeteoraDammV2Swap", <<DammSwap>>))
  /\ Says(DammV2Events, "DammV2.CreatePosition", Ev("MeteoraDammV2CreatePosition", <<DammCreatePosition>>))
  /\ Says(DammV2Events, "DammV2.ClosePosition", Ev("MeteoraDammV2ClosePosition", <<DammClosePosition>>))
  /\ Says(DammV2Events, "DammV2.AddLiquidity", Ev("MeteoraDammV2AddLiquidity", <<DammAddLiquidity>>))
  /\ Says(DammV2Events, "DammV2.RemoveLiquidity", Ev("MeteoraDammV2RemoveLiquidity", <<DammRemoveLiquidity>>))
<1>1. Says(DammV2Events, "EvtSwap", Ev("MeteoraDammV2Swap", <<DammSwap>>))
  BY RowSays, JoinSays DEF DammV2Events
<1>2. Says(DammV2Events, "DammV2.CreatePosition", Ev("MeteoraDammV2CreatePosition", <<DammCreatePosition>>))
  BY RowSays, JoinSays DEF DammV2Events
<1>3. Says(DammV2Events, "DammV2.ClosePosition", Ev("MeteoraDammV2ClosePosition", <<DammClosePosition>>))
  BY RowSays, JoinSays DEF DammV2Events
<1>4. Says(DammV2Events, "DammV2.AddLiquidity", Ev("MeteoraDammV2AddLiquidity", <<DammAddLiquidity>>))
  BY RowSays, JoinSays DEF DammV2Events
<1>5. Says(DammV2Events, "DammV2.RemoveLiquidity", Ev("MeteoraDammV2RemoveLiquidity", <<DammRemoveLiquidity>>))
  BY RowSays, JoinSays DEF DammV2Events
<1>6. QED
  BY <1>1, <1>2, <1>3, <1>4, <1>5

\* An event CPI is of the type the log line is of.
LEMMA DammCpiTypes ==
  \A d \in DOMAIN DammCpiEvents : d \in DOMAIN DammV2Events /\ DammCpiEvents[d].type = DammV2Events[d].type
<1> SUFFICES ASSUME NEW d \in DOMAIN DammCpiEvents
             PROVE  d \in DOMAIN DammV2Events /\ DammCpiEvents[d].type = DammV2Events[d].type
  OBVIOUS
<1>1. d \in DOMAIN DammV2Events
  BY DEF DammCpiEvents
<1>2. DammCpiEvents[d] =
        CASE d = "EvtSwap" -> Ev("MeteoraDammV2Swap", <<DammSwapCpi>>)
          [] d = "DammV2.CreatePosition" -> Ev("MeteoraDammV2CreatePosition", <<DammPositionCpi>>)
          [] d = "DammV2.ClosePosition" -> Ev("MeteoraDammV2ClosePosition", <<DammPositionCpi>>)
          [] d = "DammV2.AddLiquidity" -> Ev("MeteoraDammV2AddLiquidity", <<DammAddLiquidityCpi>>)
          [] d = "DammV2.RemoveLiquidity" -> Ev("MeteoraDammV2RemoveLiquidity", <<DammRemoveLiquidityCpi>>)
          [] OTHER -> DammV2Events[d]
  BY DEF DammCpiEvents
<1>3. QED
  BY <1>1, <1>2, DammRows DEF Says, Ev

LEMMA CpiTypes ==
  ASSUME NEW p \in Programs, NEW d \in DOMAIN CpiEvents[p]
  PROVE  d \in DOMAIN Events[p] /\ CpiEvents[p][d].type = Events[p][d].type
<1>1. /\ CpiEvents["PumpFun"] = [e \in DOMAIN PumpFunEvents \ {"PumpFun.MigrateCreator"} |-> PumpFunEvents[e]]
      /\ CpiEvents["PumpSwap"] = PumpSwapEvents
      /\ CpiEvents["Cpmm"] = [e \in DOMAIN CpmmEvents \ {"SwapEvent"} |-> CpmmEvents[e]]
      /\ CpiEvents["AmmV4"] = AmmV4Events
      /\ CpiEvents["DammV2"] = DammCpiEvents
      /\ \A q \in Programs \ {"PumpFun", "PumpSwap", "Cpmm", "AmmV4", "DammV2"} : CpiEvents[q] = Events[q]
  BY ThePrograms DEF CpiEvents, Events
<1>2. CASE p = "PumpFun"
  BY <1>1, <1>2, TheTables, JoinHas, JoinLeft
<1>3. CASE p = "PumpSwap"
  BY <1>1, <1>3, TheTables, JoinHas, JoinLeft
<1>4. CASE p = "Cpmm"
  BY <1>1, <1>4, TheTables
<1>5. CASE p = "AmmV4"
  BY <1>1, <1>5, TheTables, JoinHas, JoinLeft
<1>6. CASE p = "DammV2"
  BY <1>1, <1>6, TheTables, DammCpiTypes
<1>7. QED
  BY <1>1, <1>2, <1>3, <1>4, <1>5, <1>6

\* Only a Pump trade is ever reported under another name, the general one.
LEMMA NormalizedTypes ==
  ASSUME NEW f, NEW t
  PROVE  /\ Normalized(f, None) = None
         /\ Normalized(f, t) # t => t \in PUMPFUN_TRADE_FAMILY /\ Normalized(f, t) = "PumpFunTrade"
BY DEF Normalized, None, PUMPFUN_TRADE_FAMILY, PUMPFUN_BUY_FAMILY

\* That name is of the same program.
LEMMA NormalizedHome ==
  ASSUME NEW f, NEW p \in Programs, NEW t \in FilterTypes[p]
  PROVE  Normalized(f, t) \in FilterTypes[p]
<1>1. CASE Normalized(f, t) = t
  BY <1>1
<1>2. CASE Normalized(f, t) # t
  <2>1. t \in PUMPFUN_TRADE_FAMILY /\ Normalized(f, t) = "PumpFunTrade"
    BY <1>2, NormalizedTypes
  <2>2. "PumpFunTrade" \in Kin(t)
    BY <2>1 DEF Kin, PumpTrades
  <2>3. QED
    BY <2>1, <2>2, KinTogether
<1>3. QED
  BY <1>1, <1>2

\* The event with the type the caller asked for it by.
Renamed(f, ev) == [ev EXCEPT !.type = Normalized(f, @)]

\* Nothing stays nothing, and without a filter everything keeps its name.
LEMMA NothingRenamed == \A f : Renamed(f, Nothing) = Nothing
<1> SUFFICES ASSUME NEW f PROVE Renamed(f, Nothing) = Nothing
  OBVIOUS
<1>1. Normalized(f, Nothing.type) = Nothing.type
  BY NormalizedTypes, NothingIsNone
<1>2. QED
  BY <1>1 DEF Renamed, Nothing

LEMMA AllRenamesNothing ==
  ASSUME NEW ev, Record(ev)
  PROVE  Renamed(All, ev) = ev
<1>1. Normalized(All, ev.type) = ev.type
  BY AllAdmits
<1>2. QED
  BY <1>1 DEF Renamed, Record

\* The name the caller asked for is one of the program's, too.
LEMMA RenamedHome ==
  ASSUME NEW f, NEW ev, Record(ev), NEW p \in Programs, ev.type \in FilterTypes[p] \cup {None}
  PROVE  Renamed(f, ev).type \in FilterTypes[p] \cup {None}
<1>1. Renamed(f, ev).type = Normalized(f, ev.type)
  BY DEF Renamed, Record
<1>2. QED
  BY <1>1, NormalizedHome, NormalizedTypes

\* The filter alone decides about an event CPI.
LEMMA CpiDecided ==
  ASSUME NEW f, Filter(f), NEW p \in Programs, NEW d \in DOMAIN Events[p], NEW form \in CpiForms[p], NEW kind, NEW len,
         NEW k
  PROVE  LET any == CpiEvent(All, p, form, d, kind, len, k)
         IN /\ CpiEvent(f, p, form, d, kind, len, k)
                 = IF any.type # None /\ ShouldInclude(f, any.type) THEN Renamed(f, any) ELSE Nothing
            /\ any.type \in FilterTypes[p] \cup {None}
            /\ Record(any)
<1> DEFINE events == IF d \in Upgrades THEN Events[p] ELSE CpiEvents[p]
           ev == Decoded(events, d, kind, len, k)
           any == CpiEvent(All, p, form, d, kind, len, k)
           gate(g) == d \in Upgrades \/ WantsProgram(g, p)
<1>1. \A g : CpiEvent(g, p, form, d, kind, len, k) = IF gate(g) THEN Renamed(g, Only(g, ev)) ELSE Nothing
  BY DEF CpiEvent, FilterDexEvent, Renamed
<1>2. ev.type \in FilterTypes[p] \cup {None}
  <2>1. ev = Nothing \/ ev.type = ActualType(Events[p][d].type, kind)
    <3>1. d \in DOMAIN events => events[d].type = Events[p][d].type
      BY CpiTypes
    <3> HIDE DEF events
    <3>2. QED
      BY <3>1, DecodedType
  <2> HIDE DEF ev
  <2>2. QED
    BY <2>1, ReportedTypes
<1>3. Record(ev) /\ Record(Nothing)
  BY DecodedType DEF Record, Nothing
<1> HIDE DEF ev, events
<1>4. gate(All)
  <2>1. FilterTypes[p] # {}
    BY FilterTypesHold
  <2>2. QED
    BY <2>1, AllAdmits DEF WantsProgram
<1>5. any = IF ev.type # None THEN ev ELSE Nothing
  <2>1. any = Renamed(All, Only(All, ev))
    BY <1>1, <1>4
  <2>2. Only(All, ev) = IF ev.type # None THEN ev ELSE Nothing
    BY AllAdmits DEF Only
  <2>3. QED
    BY <1>3, <2>1, <2>2, AllRenamesNothing
<1>6. ASSUME ev.type # None, ShouldInclude(f, ev.type) PROVE gate(f)
  BY <1>2, <1>6, WantedProgram
<1>7. CpiEvent(f, p, form, d, kind, len, k) = IF gate(f) THEN Renamed(f, Only(f, ev)) ELSE Nothing
  BY <1>1
<1> HIDE DEF gate, any
<1>8. Only(f, ev) = IF ev.type # None /\ ShouldInclude(f, ev.type) THEN ev ELSE Nothing
  BY DEF Only
<1>9. CpiEvent(f, p, form, d, kind, len, k)
        = IF any.type # None /\ ShouldInclude(f, any.type) THEN Renamed(f, any) ELSE Nothing
  BY <1>5, <1>6, <1>7, <1>8, NothingIsNone, NothingRenamed
<1>10. any.type \in FilterTypes[p] \cup {None}
  BY <1>2, <1>5, NothingIsNone
<1>11. Record(any)
  BY <1>3, <1>5
<1>12. QED
  BY <1>9, <1>10, <1>11 DEF any

(***************************************************************************)
(* Instructions                                                            *)
(***************************************************************************)

\* An instruction is of the type its row says.
LEMMA IxFormsType == \A type, data, forms : IxForms(type, data, forms).type = type
BY DEF IxForms

LEMMA IxType == \A type, data, least, roles : Ix(type, data, least, roles).type = type
BY IxFormsType DEF Ix

LEMMA IxFormsTyped == \A key, type, data, forms, S : type \in S => Typed(key :> IxForms(type, data, forms), S)
BY RowTyped, IxFormsType

LEMMA IxTyped == \A key, type, data, least, roles, S : type \in S => Typed(key :> Ix(type, data, least, roles), S)
BY IxFormsTyped DEF Ix

\* The types of each program's instructions, row by row.
LEMMA PumpFunIxTypes == Typed(PumpFunIx, PUMPFUN_FILTER_TYPES)
<1>1. /\ "PumpFunBuy" \in PUMPFUN_FILTER_TYPES /\ "PumpFunBuyExactSolIn" \in PUMPFUN_FILTER_TYPES
      /\ "PumpFunCreate" \in PUMPFUN_FILTER_TYPES /\ "PumpFunCreateV2" \in PUMPFUN_FILTER_TYPES
      /\ "PumpFunSell" \in PUMPFUN_FILTER_TYPES
  BY DEF PUMPFUN_FILTER_TYPES, PUMPFUN_TRADE_FAMILY, PUMPFUN_CREATE_FAMILY, PUMPFUN_BUY_FAMILY
<1>2. \A key, type : type \in PUMPFUN_FILTER_TYPES => Typed(key :> BuyIx(type), PUMPFUN_FILTER_TYPES)
  BY <1>1, IxTyped, IxFormsTyped, ZenonT(30) DEF BuyIx
<1>3. \A key : Typed(key :> SellIx, PUMPFUN_FILTER_TYPES)
  BY <1>1, IxTyped, IxFormsTyped, ZenonT(30) DEF SellIx
<1>4. QED
  BY <1>1, <1>2, <1>3, IxTyped, JoinTyped, ZenonT(60) DEF PumpFunIx

LEMMA PumpFeesIxTypes == Typed(PumpFeesIx, PUMP_FEES_EVENT_TYPES)
<1>1. /\ "PumpFeesCreateFeeSharingConfig" \in PUMP_FEES_EVENT_TYPES /\ "PumpFeesInitializeFeeConfig" \in PUMP_FEES_EVENT_TYPES
      /\ "PumpFeesResetFeeSharingConfig" \in PUMP_FEES_EVENT_TYPES /\ "PumpFeesRevokeFeeSharingAuthority" \in PUMP_FEES_EVENT_TYPES
      /\ "PumpFeesTransferFeeSharingAuthority" \in PUMP_FEES_EVENT_TYPES /\ "PumpFeesUpdateAdmin" \in PUMP_FEES_EVENT_TYPES
      /\ "PumpFeesUpdateFeeConfig" \in PUMP_FEES_EVENT_TYPES /\ "PumpFeesUpdateFeeShares" \in PUMP_FEES_EVENT_TYPES
      /\ "PumpFeesUpsertFeeTiers" \in PUMP_FEES_EVENT_TYPES
  BY DEF PUMP_FEES_EVENT_TYPES
<1>2. \A key : Typed(key :> UpdateSharesIx, PUMP_FEES_EVENT_TYPES)
  BY <1>1, IxTyped, IxFormsTyped, ZenonT(30) DEF UpdateSharesIx
<1>3. QED
  BY <1>1, <1>2, IxTyped, JoinTyped, ZenonT(60) DEF PumpFeesIx

LEMMA PumpSwapIxTypes == Typed(PumpSwapIx, PUMPSWAP_FILTER_TYPES)
<1>1. /\ "PumpSwapBuy" \in PUMPSWAP_FILTER_TYPES /\ "PumpSwapCreatePool" \in PUMPSWAP_FILTER_TYPES
      /\ "PumpSwapLiquidityAdded" \in PUMPSWAP_FILTER_TYPES /\ "PumpSwapLiquidityRemoved" \in PUMPSWAP_FILTER_TYPES
      /\ "PumpSwapSell" \in PUMPSWAP_FILTER_TYPES
  BY DEF PUMPSWAP_FILTER_TYPES, PUMPSWAP_TRADE_FAMILY
<1>2. \A key, type : type \in PUMPSWAP_FILTER_TYPES => Typed(key :> Compact(type), PUMPSWAP_FILTER_TYPES)
  BY <1>1, IxTyped, IxFormsTyped, ZenonT(30) DEF Compact
<1>3. \A key, type : type \in PUMPSWAP_FILTER_TYPES => Typed(key :> PumpSwapLiquidityIx(type), PUMPSWAP_FILTER_TYPES)
  BY <1>1, IxTyped, IxFormsTyped, ZenonT(30) DEF PumpSwapLiquidityIx
<1>4. QED
  BY <1>1, <1>2, <1>3, IxTyped, IxFormsTyped, JoinTyped, ZenonT(60) DEF PumpSwapIx

LEMMA LaunchlabIxTypes == Typed(LaunchlabIx, RAYDIUM_LAUNCHLAB_FILTER_TYPES)
<1>1. /\ "RaydiumLaunchlabMigrateAmm" \in RAYDIUM_LAUNCHLAB_FILTER_TYPES /\ "RaydiumLaunchlabPoolCreate" \in RAYDIUM_LAUNCHLAB_FILTER_TYPES
      /\ "RaydiumLaunchlabTrade" \in RAYDIUM_LAUNCHLAB_FILTER_TYPES
  BY DEF RAYDIUM_LAUNCHLAB_FILTER_TYPES
<1>2. \A key : Typed(key :> LaunchlabTradeIx, RAYDIUM_LAUNCHLAB_FILTER_TYPES)
  BY <1>1, IxTyped, IxFormsTyped, ZenonT(30) DEF LaunchlabTradeIx
<1>3. \A key : Typed(key :> LaunchlabInitializeIx, RAYDIUM_LAUNCHLAB_FILTER_TYPES)
  BY <1>1, IxTyped, IxFormsTyped, ZenonT(30) DEF LaunchlabInitializeIx
<1>4. \A key : Typed(key :> LaunchlabToken2022Ix, RAYDIUM_LAUNCHLAB_FILTER_TYPES)
  BY <1>1, IxTyped, IxFormsTyped, ZenonT(30) DEF LaunchlabToken2022Ix
<1>5. QED
  BY <1>1, <1>2, <1>3, <1>4, IxTyped, JoinTyped, ZenonT(60) DEF LaunchlabIx

LEMMA ClmmIxTypes == Typed(ClmmIx, RAYDIUM_CLMM_FILTER_TYPES)
<1>1. /\ "RaydiumClmmClosePosition" \in RAYDIUM_CLMM_FILTER_TYPES /\ "RaydiumClmmCreatePool" \in RAYDIUM_CLMM_FILTER_TYPES
      /\ "RaydiumClmmDecreaseLiquidity" \in RAYDIUM_CLMM_FILTER_TYPES /\ "RaydiumClmmIncreaseLiquidity" \in RAYDIUM_CLMM_FILTER_TYPES
      /\ "RaydiumClmmOpenPosition" \in RAYDIUM_CLMM_FILTER_TYPES /\ "RaydiumClmmSwap" \in RAYDIUM_CLMM_FILTER_TYPES
  BY DEF RAYDIUM_CLMM_FILTER_TYPES
<1>2. \A key : Typed(key :> ClmmSwapIx, RAYDIUM_CLMM_FILTER_TYPES)
  BY <1>1, IxTyped, IxFormsTyped, ZenonT(30) DEF ClmmSwapIx
<1>3. \A key, pool : Typed(key :> ClmmOpenIx(pool), RAYDIUM_CLMM_FILTER_TYPES)
  BY <1>1, IxTyped, IxFormsTyped, ZenonT(30) DEF ClmmOpenIx
<1>4. QED
  BY <1>1, <1>2, <1>3, IxTyped, JoinTyped, ZenonT(60) DEF ClmmIx

LEMMA CpmmIxTypes == Typed(CpmmIx, RAYDIUM_CPMM_FILTER_TYPES)
<1>1. /\ "RaydiumCpmmDeposit" \in RAYDIUM_CPMM_FILTER_TYPES /\ "RaydiumCpmmInitialize" \in RAYDIUM_CPMM_FILTER_TYPES
      /\ "RaydiumCpmmSwap" \in RAYDIUM_CPMM_FILTER_TYPES /\ "RaydiumCpmmWithdraw" \in RAYDIUM_CPMM_FILTER_TYPES
  BY DEF RAYDIUM_CPMM_FILTER_TYPES
<1>2. \A key : Typed(key :> CpmmSwapIx, RAYDIUM_CPMM_FILTER_TYPES)
  BY <1>1, IxTyped, IxFormsTyped, ZenonT(30) DEF CpmmSwapIx
<1>3. \A key, type : type \in RAYDIUM_CPMM_FILTER_TYPES => Typed(key :> CpmmLiquidityIx(type), RAYDIUM_CPMM_FILTER_TYPES)
  BY <1>1, IxTyped, IxFormsTyped, ZenonT(30) DEF CpmmLiquidityIx
<1>4. QED
  BY <1>1, <1>2, <1>3, IxTyped, JoinTyped, ZenonT(60) DEF CpmmIx

LEMMA AmmV4IxTypes == Typed(AmmV4Ix, RAYDIUM_AMM_V4_FILTER_TYPES)
<1>1. /\ "RaydiumAmmV4Swap" \in RAYDIUM_AMM_V4_FILTER_TYPES
  BY DEF RAYDIUM_AMM_V4_FILTER_TYPES
<1>2. \A key : Typed(key :> AmmV4SwapIx, RAYDIUM_AMM_V4_FILTER_TYPES)
  BY <1>1, IxTyped, IxFormsTyped, ZenonT(30) DEF AmmV4SwapIx
<1>3. \A key : Typed(key :> AmmV4ModernIx, RAYDIUM_AMM_V4_FILTER_TYPES)
  BY <1>1, IxTyped, IxFormsTyped, ZenonT(30) DEF AmmV4ModernIx
<1>4. QED
  BY <1>1, <1>2, <1>3, IxTyped, JoinTyped, ZenonT(60) DEF AmmV4Ix

LEMMA OrcaIxTypes == Typed(OrcaIx, ORCA_WHIRLPOOL_FILTER_TYPES)
<1>1. /\ "OrcaWhirlpoolLiquidityDecreased" \in ORCA_WHIRLPOOL_FILTER_TYPES /\ "OrcaWhirlpoolLiquidityIncreased" \in ORCA_WHIRLPOOL_FILTER_TYPES
      /\ "OrcaWhirlpoolPoolInitialized" \in ORCA_WHIRLPOOL_FILTER_TYPES /\ "OrcaWhirlpoolSwap" \in ORCA_WHIRLPOOL_FILTER_TYPES
  BY DEF ORCA_WHIRLPOOL_FILTER_TYPES
<1>2. \A key, pool : Typed(key :> OrcaSwapIx(pool), ORCA_WHIRLPOOL_FILTER_TYPES)
  BY <1>1, IxTyped, IxFormsTyped, ZenonT(30) DEF OrcaSwapIx
<1>3. \A key, type, position, extra : type \in ORCA_WHIRLPOOL_FILTER_TYPES => Typed(key :> OrcaLiquidityIx(type, position, extra), ORCA_WHIRLPOOL_FILTER_TYPES)
  BY <1>1, IxTyped, IxFormsTyped, ZenonT(30) DEF OrcaLiquidityIx
<1>4. QED
  BY <1>1, <1>2, <1>3, IxTyped, JoinTyped, ZenonT(60) DEF OrcaIx

LEMMA PoolsIxTypes == Typed(PoolsIx, METEORA_POOLS_FILTER_TYPES)
<1>1. /\ "MeteoraPoolsAddLiquidity" \in METEORA_POOLS_FILTER_TYPES /\ "MeteoraPoolsPoolCreated" \in METEORA_POOLS_FILTER_TYPES
      /\ "MeteoraPoolsRemoveLiquidity" \in METEORA_POOLS_FILTER_TYPES /\ "MeteoraPoolsSwap" \in METEORA_POOLS_FILTER_TYPES
  BY DEF METEORA_POOLS_FILTER_TYPES
<1>2. QED
  BY <1>1, IxTyped, JoinTyped, ZenonT(60) DEF PoolsIx

LEMMA DlmmIxTypes == Typed(DlmmIx, METEORA_DLMM_FILTER_TYPES)
<1>1. /\ "MeteoraDlmmAddLiquidity" \in METEORA_DLMM_FILTER_TYPES /\ "MeteoraDlmmClaimFee" \in METEORA_DLMM_FILTER_TYPES
      /\ "MeteoraDlmmClosePosition" \in METEORA_DLMM_FILTER_TYPES /\ "MeteoraDlmmCreatePosition" \in METEORA_DLMM_FILTER_TYPES
      /\ "MeteoraDlmmInitializeBinArray" \in METEORA_DLMM_FILTER_TYPES /\ "MeteoraDlmmInitializePool" \in METEORA_DLMM_FILTER_TYPES
      /\ "MeteoraDlmmRemoveLiquidity" \in METEORA_DLMM_FILTER_TYPES /\ "MeteoraDlmmSwap" \in METEORA_DLMM_FILTER_TYPES
  BY DEF METEORA_DLMM_FILTER_TYPES
<1>2. \A key, type, from : type \in METEORA_DLMM_FILTER_TYPES => Typed(key :> DlmmLiquidityIx(type, from), METEORA_DLMM_FILTER_TYPES)
  BY <1>1, IxTyped, ZenonT(30) DEF DlmmLiquidityIx
<1>3. \A key, first : Typed(key :> DlmmPositionIx(first), METEORA_DLMM_FILTER_TYPES)
  BY <1>1, IxTyped, ZenonT(30) DEF DlmmPositionIx
<1>4. \A key, amounts : Typed(key :> DlmmSwapIx(amounts), METEORA_DLMM_FILTER_TYPES)
  BY <1>1, IxTyped, ZenonT(30) DEF DlmmSwapIx
<1>5. \A key, owner : Typed(key :> DlmmClaimFeeIx(owner), METEORA_DLMM_FILTER_TYPES)
  BY <1>1, IxTyped, ZenonT(30) DEF DlmmClaimFeeIx
<1>6. Typed(DlmmPositionsIx, METEORA_DLMM_FILTER_TYPES)
  BY <1>1, <1>2, <1>3, IxTyped, JoinTyped, ZenonT(60) DEF DlmmPositionsIx
<1>7. Typed(DlmmSwapsIx, METEORA_DLMM_FILTER_TYPES)
  BY <1>4, <1>5, JoinTyped, ZenonT(60) DEF DlmmSwapsIx
<1>8. QED
  BY <1>6, <1>7, JoinTyped DEF DlmmIx

LEMMA DammIxTypes == Typed(DammIx, METEORA_DAMM_V2_FILTER_TYPES)
<1>1. /\ "MeteoraDammV2AddLiquidity" \in METEORA_DAMM_V2_FILTER_TYPES /\ "MeteoraDammV2ClosePosition" \in METEORA_DAMM_V2_FILTER_TYPES
      /\ "MeteoraDammV2CreatePosition" \in METEORA_DAMM_V2_FILTER_TYPES /\ "MeteoraDammV2InitializePool" \in METEORA_DAMM_V2_FILTER_TYPES
      /\ "MeteoraDammV2RemoveLiquidity" \in METEORA_DAMM_V2_FILTER_TYPES /\ "MeteoraDammV2Swap" \in METEORA_DAMM_V2_FILTER_TYPES
  BY DEF METEORA_DAMM_V2_FILTER_TYPES
<1>2. QED
  BY <1>1, IxTyped, IxFormsTyped, JoinTyped, ZenonT(60) DEF DammIx

\* An instruction's event has a type of its program.
LEMMA InstructionTypes ==
  ASSUME NEW p \in Programs, NEW name \in DOMAIN Instructions[p]
  PROVE  Instructions[p][name].type \in FilterTypes[p]
<1>1. /\ Instructions["PumpFun"] = PumpFunIx /\ Instructions["PumpFees"] = PumpFeesIx
      /\ Instructions["PumpSwap"] = PumpSwapIx /\ Instructions["Launchlab"] = LaunchlabIx
      /\ Instructions["Clmm"] = ClmmIx /\ Instructions["Cpmm"] = CpmmIx /\ Instructions["AmmV4"] = AmmV4Ix
      /\ Instructions["Orca"] = OrcaIx /\ Instructions["Pools"] = PoolsIx /\ Instructions["DammV2"] = DammIx
      /\ Instructions["Dlmm"] = DlmmIx /\ Instructions["Dbc"] = <<>>
  BY DEF Instructions
<1>2. CASE p \in {"PumpFun", "PumpFees", "PumpSwap", "Launchlab"}
  BY <1>1, <1>2, TheTypes, PumpFunIxTypes, PumpFeesIxTypes, PumpSwapIxTypes, LaunchlabIxTypes DEF Typed
<1>3. CASE p \in {"Clmm", "Cpmm", "AmmV4", "Orca"}
  BY <1>1, <1>3, TheTypes, ClmmIxTypes, CpmmIxTypes, AmmV4IxTypes, OrcaIxTypes DEF Typed
<1>4. CASE p \in {"Pools", "DammV2", "Dlmm"}
  BY <1>1, <1>4, TheTypes, PoolsIxTypes, DammIxTypes, DlmmIxTypes DEF Typed
<1>5. CASE p = "Dbc"
  BY <1>1, <1>5, EmptyHasNone
<1>6. QED
  BY <1>2, <1>3, <1>4, <1>5, ThePrograms

\* Nobody who admits a type is kept from instructions altogether.
LEMMA InstructionsAllowed ==
  ASSUME NEW f, Filter(f), NEW p \in Programs, NEW t \in FilterTypes[p], ShouldInclude(f, t)
  PROVE  AllowsInstructionParsing(f)
<1> SUFFICES ASSUME f.mode = "include" PROVE Meets(f.types, INSTRUCTION_EVENT_TYPES)
  BY DEF AllowsInstructionParsing
<1>1. Meets(f.types, Kin(t))
  BY NamedOrKin DEF ShouldInclude
<1>2. Kin(t) \subseteq INSTRUCTION_EVENT_TYPES
  BY KinTogether DEF INSTRUCTION_EVENT_TYPES
<1>3. QED
  BY <1>1, <1>2 DEF Meets

\* The filter alone decides about an instruction.
LEMMA InstructionDecided ==
  ASSUME NEW f, Filter(f), NEW p \in Programs, NEW name \in DOMAIN Instructions[p], NEW inner, NEW n, NEW len, NEW k
  PROVE  LET out(g) == [Nothing EXCEPT !.type = InstructionEvent(g, p, name, inner, n, len, k)]
         IN /\ out(f) = IF out(All).type # None /\ ShouldInclude(f, out(All).type) THEN Renamed(f, out(All)) ELSE Nothing
            /\ out(All).type \in FilterTypes[p] \cup {None}
<1> DEFINE ix == Instructions[p][name]
           decodes == (inner => MayParse(p, name)) /\ Decodes(ix, n, len, k)
           event(g) == InstructionEvent(g, p, name, inner, n, len, k)
           out(g) == [Nothing EXCEPT !.type = event(g)]
<1>1. \A g : event(g) = IF decodes /\ AllowsInstructionParsing(g) /\ WantsProgram(g, p) /\ ShouldInclude(g, ix.type)
                        THEN Normalized(g, ix.type) ELSE None
  BY DEF InstructionEvent, None
<1>2. ix.type \in FilterTypes[p] /\ ix.type # None
  BY InstructionTypes, TradeIsPumps
<1> HIDE DEF ix, decodes, event
<1>3. event(All) = IF decodes THEN ix.type ELSE None
  <2>1. AllowsInstructionParsing(All) /\ WantsProgram(All, p)
    BY <1>2, AllAdmits, InstructionsAllowed, WantedProgram
  <2>2. QED
    BY <1>1, <2>1, AllAdmits
<1>4. event(f) = IF decodes /\ ShouldInclude(f, ix.type) THEN Normalized(f, ix.type) ELSE None
  BY <1>1, <1>2, InstructionsAllowed, WantedProgram
<1>5. \A t : [Nothing EXCEPT !.type = t].type = t
  BY DEF Nothing
<1>6. [Nothing EXCEPT !.type = None] = Nothing
  <2>1. Record(Nothing)
    BY DEF Record, Nothing
  <2>2. Nothing.type = None
    BY NothingIsNone
  <2>3. [Nothing EXCEPT !.type = Nothing.type] = Nothing
    BY <2>1 DEF Record
  <2>4. QED
    BY <2>2, <2>3
<1>7. \A t : Renamed(f, [Nothing EXCEPT !.type = t]) = [Nothing EXCEPT !.type = Normalized(f, t)]
  BY DEF Renamed, Nothing
<1>8. CASE decodes
  BY <1>2, <1>3, <1>4, <1>5, <1>6, <1>7, <1>8 DEF event
<1>9. CASE ~decodes
  BY <1>3, <1>4, <1>5, <1>6, <1>9 DEF event
<1>10. QED
  BY <1>8, <1>9

(***************************************************************************)
(* Accounts                                                                *)
(***************************************************************************)

\* An account is of the type its row says.
LEMMA StoredTyped == \A key, type, layout, S : type \in S => Typed(key :> Stored(type, layout), S)
BY RowTyped DEF Stored

LEMMA SizedTyped == \A key, type, body, ws, S : type \in S => Typed(key :> Sized(type, body, ws), S)
BY StoredTyped DEF Sized

LEMMA SnapshotTyped == \A key, ws : Typed(key :> Snapshot(ws), {"AccountLiquiditySnapshot"})
BY StoredTyped DEF Snapshot

\* The types of the accounts that are decoded.
DecodedTypes ==
  {"AccountPumpFunGlobal", "AccountPumpFunBondingCurve", "AccountPumpFunFeeConfig", "AccountPumpFunSharingConfig",
   "AccountPumpFunGlobalVolumeAccumulator", "AccountPumpFunUserVolumeAccumulator", "AccountPumpSwapGlobalConfig",
   "AccountPumpSwapPool", "AccountRaydiumClmmAmmConfig", "AccountRaydiumClmmPoolState",
   "AccountRaydiumClmmTickArrayState", "AccountRaydiumCpmmAmmConfig", "AccountRaydiumCpmmPoolState",
   "AccountOrcaWhirlpool", "AccountOrcaPosition", "AccountOrcaTickArray", "AccountOrcaFeeTier",
   "AccountOrcaWhirlpoolsConfig"}

\* Which tables are which owner's.
LEMMA TheAccounts ==
  /\ Owners = {"PumpFun", "PumpFees", "PumpSwap", "Clmm", "Cpmm", "Orca", "Launchlab", "Dlmm", "System", "Token"}
  /\ Accounts["PumpFun"] = PumpAccounts /\ Accounts["PumpFees"] = PumpAccounts
  /\ Accounts["PumpSwap"] = PumpSwapAccounts /\ Accounts["Clmm"] = ClmmAccounts
  /\ Accounts["Cpmm"] = CpmmAccounts /\ Accounts["Orca"] = OrcaAccounts
  /\ Accounts["Launchlab"] = << >> /\ Accounts["Dlmm"] = << >>
  /\ Accounts["System"] = << >> /\ Accounts["Token"] = << >>
BY DEF Owners, Accounts, NoAccounts

\* The types of each owner's accounts, row by row.
LEMMA PumpAccountsTypes == Typed(PumpAccounts, DecodedTypes)
<1>1. /\ "AccountPumpFunGlobal" \in DecodedTypes /\ "AccountPumpFunBondingCurve" \in DecodedTypes
      /\ "AccountPumpFunFeeConfig" \in DecodedTypes /\ "AccountPumpFunSharingConfig" \in DecodedTypes
      /\ "AccountPumpFunGlobalVolumeAccumulator" \in DecodedTypes
      /\ "AccountPumpFunUserVolumeAccumulator" \in DecodedTypes
  BY DEF DecodedTypes
<1>2. QED
  BY <1>1, StoredTyped, JoinTyped, ZenonT(30) DEF PumpAccounts

LEMMA PumpSwapAccountsTypes == Typed(PumpSwapAccounts, DecodedTypes)
<1>1. "AccountPumpSwapGlobalConfig" \in DecodedTypes /\ "AccountPumpSwapPool" \in DecodedTypes
  BY DEF DecodedTypes
<1>2. QED
  BY <1>1, StoredTyped, JoinTyped, ZenonT(30) DEF PumpSwapAccounts

LEMMA ClmmAccountsTypes == Typed(ClmmAccounts, DecodedTypes)
<1>1. /\ "AccountRaydiumClmmAmmConfig" \in DecodedTypes /\ "AccountRaydiumClmmPoolState" \in DecodedTypes
      /\ "AccountRaydiumClmmTickArrayState" \in DecodedTypes
  BY DEF DecodedTypes
<1>2. QED
  BY <1>1, SizedTyped, JoinTyped DEF ClmmAccounts

LEMMA CpmmAccountsTypes == Typed(CpmmAccounts, DecodedTypes)
<1>1. "AccountRaydiumCpmmAmmConfig" \in DecodedTypes /\ "AccountRaydiumCpmmPoolState" \in DecodedTypes
  BY DEF DecodedTypes
<1>2. QED
  BY <1>1, SizedTyped, JoinTyped, SMTT(20) DEF CpmmAccounts

LEMMA OrcaAccountsTypes == Typed(OrcaAccounts, DecodedTypes)
<1>1. /\ "AccountOrcaWhirlpool" \in DecodedTypes /\ "AccountOrcaPosition" \in DecodedTypes
      /\ "AccountOrcaTickArray" \in DecodedTypes /\ "AccountOrcaFeeTier" \in DecodedTypes
      /\ "AccountOrcaWhirlpoolsConfig" \in DecodedTypes
  BY DEF DecodedTypes
<1>2. QED
  BY <1>1, SizedTyped, JoinTyped DEF OrcaAccounts

LEMMA AccountsTypes == \A o \in Owners : Typed(Accounts[o], DecodedTypes)
<1>1. Typed(<< >>, DecodedTypes)
  BY EmptyHasNone DEF Typed
<1>2. QED
  BY <1>1, TheAccounts, PumpAccountsTypes, PumpSwapAccountsTypes, ClmmAccountsTypes, CpmmAccountsTypes,
     OrcaAccountsTypes

\* The tables of snapshots, of the owners that have one.
LEMMA TheSnapshots ==
  /\ Typed(Snapshots["Launchlab"], {"AccountLiquiditySnapshot"})
  /\ Typed(Snapshots["Dlmm"], {"AccountLiquiditySnapshot"})
  /\ Typed(Snapshots["Orca"], {"AccountLiquiditySnapshot"})
  /\ Typed(Snapshots["Clmm"], {"AccountLiquiditySnapshot"})
  /\ Named(Snapshots["Orca"], {"Orca.DynamicTickArray", "Orca.Oracle"})
  /\ Named(Snapshots["Clmm"], {"Clmm.Bitmap"})
  /\ \A o \in Owners \ {"Launchlab", "Dlmm", "Orca", "Clmm"} : Snapshots[o] = << >>
<1>1. /\ "Launchlab" \in Owners /\ "Dlmm" \in Owners /\ "Orca" \in Owners /\ "Clmm" \in Owners
  BY TheAccounts
<1>2. Typed(Snapshots["Launchlab"], {"AccountLiquiditySnapshot"})
  <2>1. Snapshots["Launchlab"] = "PoolState" :> Snapshot(<<133, KEY, KEY, KEY, KEY, 160>>)
                                   @@ "GlobalConfig" :> Snapshot(<<27>>)
                                   @@ "Launchlab.PlatformConfig" :> Snapshot(<<720>>)
    BY <1>1 DEF Snapshots
  <2>2. QED
    BY <2>1, SnapshotTyped, JoinTyped
<1>3. Typed(Snapshots["Dlmm"], {"AccountLiquiditySnapshot"})
  <2>1. Snapshots["Dlmm"] = "Dlmm.Pool" :> Snapshot(<<68, 4, 2, 6, KEY, KEY, 752>>)
                              @@ "Dlmm.BinArray" :> Snapshot(<<8, 8, KEY, 10080>>)
                              @@ "Dlmm.Bitmap" :> Snapshot(<<KEY, 1536>>)
    BY <1>1 DEF Snapshots
  <2>2. QED
    BY <2>1, SnapshotTyped, JoinTyped
<1>4. Snapshots["Orca"] = "Orca.DynamicTickArray" :> Stored("AccountLiquiditySnapshot", DynamicTicks)
                            @@ "Orca.Oracle" :> Snapshot(<<KEY, 214>>)
  BY <1>1 DEF Snapshots
<1>5. Typed(Snapshots["Orca"], {"AccountLiquiditySnapshot"})
  <2>1. "AccountLiquiditySnapshot" \in {"AccountLiquiditySnapshot"}
    OBVIOUS
  <2>2. QED
    BY <1>4, <2>1, SnapshotTyped, StoredTyped, JoinTyped, ZenonT(30)
<1>6. Named(Snapshots["Orca"], {"Orca.DynamicTickArray", "Orca.Oracle"})
  BY <1>4, RowNamed, JoinNamed
<1>7. Snapshots["Clmm"] = "Clmm.Bitmap" :> Snapshot(<<KEY, 1792>>)
  BY <1>1 DEF Snapshots
<1>8. Typed(Snapshots["Clmm"], {"AccountLiquiditySnapshot"}) /\ Named(Snapshots["Clmm"], {"Clmm.Bitmap"})
  BY <1>7, SnapshotTyped, RowNamed
<1>9. \A o \in Owners \ {"Launchlab", "Dlmm", "Orca", "Clmm"} : Snapshots[o] = << >>
  BY DEF Snapshots, NoAccounts
<1>10. QED
  BY <1>2, <1>3, <1>5, <1>6, <1>8, <1>9

LEMMA SnapshotsTypes == \A o \in Owners : Typed(Snapshots[o], {"AccountLiquiditySnapshot"})
<1>1. Typed(<< >>, {"AccountLiquiditySnapshot"})
  BY EmptyHasNone DEF Typed
<1>2. QED
  BY <1>1, TheSnapshots

\* The names of the accounts of the owners that have snapshots too.
LEMMA OrcaAccountsNamed ==
  Named(OrcaAccounts, {"Orca.Whirlpool", "Orca.Position", "Orca.TickArray", "Orca.FeeTier", "Orca.WhirlpoolsConfig"})
BY RowNamed, JoinNamed DEF OrcaAccounts

LEMMA ClmmAccountsNamed == Named(ClmmAccounts, {"AmmConfig", "PoolState", "Clmm.TickArray"})
BY RowNamed, JoinNamed DEF ClmmAccounts

\* Accounts with a discriminator have other names than those of the token programs.
AccountNames ==
  {"Pump.Global", "Pump.BondingCurve", "Pump.FeeConfig", "Pump.SharingConfig", "Pump.GlobalVolume",
   "Pump.UserVolume", "GlobalConfig", "PumpSwap.Pool", "AmmConfig", "PoolState", "Clmm.TickArray",
   "Orca.Whirlpool", "Orca.Position", "Orca.TickArray", "Orca.FeeTier", "Orca.WhirlpoolsConfig",
   "Launchlab.PlatformConfig", "Dlmm.Pool", "Dlmm.BinArray", "Dlmm.Bitmap", "Orca.DynamicTickArray",
   "Orca.Oracle", "Clmm.Bitmap"}

LEMMA AccountsNamed == \A o \in Owners : Named(Accounts[o], AccountNames) /\ Named(Snapshots[o], AccountNames)
<1>1. Named(PumpAccounts, AccountNames) /\ Named(PumpSwapAccounts, AccountNames)
  BY RowNamed, JoinNamed DEF PumpAccounts, PumpSwapAccounts, AccountNames
<1>2. Named(ClmmAccounts, AccountNames) /\ Named(CpmmAccounts, AccountNames) /\ Named(OrcaAccounts, AccountNames)
  BY RowNamed, JoinNamed DEF ClmmAccounts, CpmmAccounts, OrcaAccounts, AccountNames
<1>3. Named(<< >>, AccountNames)
  BY EmptyHasNone DEF Named
<1>4. Named(Snapshots["Launchlab"], AccountNames) /\ Named(Snapshots["Dlmm"], AccountNames)
  <2>1. "Launchlab" \in Owners /\ "Dlmm" \in Owners
    BY TheAccounts
  <2>2. QED
    BY <2>1, RowNamed, JoinNamed DEF Snapshots, AccountNames
<1>5. Named(Snapshots["Orca"], AccountNames) /\ Named(Snapshots["Clmm"], AccountNames)
  BY TheSnapshots DEF Named, AccountNames
<1>6. \A o \in Owners : Named(Accounts[o], AccountNames)
  BY <1>1, <1>2, <1>3, TheAccounts
<1>7. \A o \in Owners : Named(Snapshots[o], AccountNames)
  BY <1>3, <1>4, <1>5, TheSnapshots
<1>8. QED
  BY <1>6, <1>7

\* No account is both decoded and kept whole.
LEMMA KeptOrDecoded ==
  ASSUME NEW o \in Owners, NEW a \in DOMAIN Snapshots[o]
  PROVE  a \notin DOMAIN Accounts[o] /\ o \notin {"System", "Token"}
<1>1. o \in {"Launchlab", "Dlmm", "Orca", "Clmm"}
  BY TheSnapshots, EmptyHasNone
<1>2. CASE o \in {"Launchlab", "Dlmm"}
  BY <1>2, TheAccounts, EmptyHasNone
<1>3. CASE o = "Orca"
  BY <1>3, TheAccounts, TheSnapshots, OrcaAccountsNamed DEF Named
<1>4. CASE o = "Clmm"
  BY <1>4, TheAccounts, TheSnapshots, ClmmAccountsNamed DEF Named
<1>5. QED
  BY <1>1, <1>2, <1>3, <1>4

\* The types an account is reported under stand for themselves.
LEMMA NoFamily ==
  /\ \A t \in DecodedTypes \cup {"TokenAccount", "TokenInfo", "NonceAccount", "AccountLiquiditySnapshot"} :
       t \notin Families /\ t # None
  /\ \A f, t : f.mode = "include" /\ ShouldInclude(f, t) /\ t \notin Families => t \in f.types
<1>1. \A t \in DecodedTypes \cup {"TokenAccount", "TokenInfo", "NonceAccount", "AccountLiquiditySnapshot"} :
        t \notin Families /\ t # None
  BY DEF DecodedTypes, Families, PumpTrades, PUMPFUN_TRADE_FAMILY, PUMPFUN_BUY_FAMILY, PUMPFUN_CREATE_FAMILY,
         PUMPSWAP_TRADE_FAMILY, None
<1>2. ASSUME NEW f, NEW t, f.mode = "include", ShouldInclude(f, t), t \notin Families
      PROVE  t \in f.types
  <2>1. IncludesOnly(f.types, t)
    BY <1>2 DEF ShouldInclude
  <2>2. QED
    BY <1>2, <2>1 DEF IncludesOnly, Families, PumpTrades, PUMPFUN_TRADE_FAMILY
<1>3. QED
  BY <1>1, <1>2

\* The account decoders say nothing as the others do.
LEMMA NoEventIsNothing == NoEvent = Nothing /\ NoEvent.type = None
BY DEF NoEvent, Nothing, None

\* An account decoder reports the type of its row or nothing.
LEMMA ReadingTypes == \A account, len, k : Reading(account, len, k) = NoEvent \/ Reading(account, len, k).type = account.type
BY DEF Reading

\* The types the decoders of an owner report are those the gate in front of them asks about.
LEMMA OwnersTypes ==
  ASSUME NEW o \in Owners, NEW a, NEW len, NEW k
  PROVE  \/ OwnersEvent(o, a, len, k).type = None
         \/ /\ OwnersEvent(o, a, len, k).type \in AccountTypes(o)
            /\ OwnersEvent(o, a, len, k).type \notin Families
            /\ OwnersEvent(o, a, len, k).type \in ACCOUNT_EVENT_TYPES
<1> DEFINE ev == OwnersEvent(o, a, len, k)
<1>1. CASE o = "System"
  <2>1. ev.type \in {None, "NonceAccount"}
    BY <1>1 DEF OwnersEvent, NoEvent, None
  <2>2. "NonceAccount" \in AccountTypes(o) /\ "NonceAccount" \in ACCOUNT_EVENT_TYPES
    BY <1>1 DEF AccountTypes, ACCOUNT_EVENT_TYPES
  <2>3. QED
    BY <2>1, <2>2, NoFamily
<1>2. CASE o = "Token"
  <2>1. ev.type \in {None, "TokenAccount", "TokenInfo"}
    BY <1>2 DEF OwnersEvent, NoEvent, TokenType, None
  <2>2. /\ {"TokenAccount", "TokenInfo"} \subseteq AccountTypes(o)
        /\ {"TokenAccount", "TokenInfo"} \subseteq ACCOUNT_EVENT_TYPES
    BY <1>2 DEF AccountTypes, ACCOUNT_EVENT_TYPES
  <2>3. QED
    BY <2>1, <2>2, NoFamily
<1>3. CASE o \notin {"System", "Token"}
  <2>1. CASE a \in DOMAIN Accounts[o]
    <3>1. ev = NoEvent \/ ev.type = Accounts[o][a].type
      BY <1>3, <2>1, ReadingTypes DEF OwnersEvent
    <3>2. Accounts[o][a].type \in AccountTypes(o) /\ Accounts[o][a].type \in ACCOUNT_EVENT_TYPES
      BY <1>3, <2>1 DEF AccountTypes, ACCOUNT_EVENT_TYPES
    <3>3. Accounts[o][a].type \in DecodedTypes
      BY <2>1, AccountsTypes DEF Typed
    <3>4. QED
      BY <3>1, <3>2, <3>3, NoFamily, NoEventIsNothing
  <2>2. CASE a \notin DOMAIN Accounts[o]
    BY <1>3, <2>2, NoEventIsNothing DEF OwnersEvent
  <2>3. QED
    BY <2>1, <2>2
<1>4. QED
  BY <1>1, <1>2, <1>3

\* A snapshot is reported as one or not at all.
LEMMA SnapshotsReport ==
  ASSUME NEW o \in Owners, NEW a, NEW live, NEW len, NEW k, SnapshotEvent(o, a, live, len, k).type # None
  PROVE  /\ SnapshotEvent(o, a, live, len, k).type = "AccountLiquiditySnapshot"
         /\ a \in DOMAIN Snapshots[o]
         /\ OwnersEvent(o, a, len, k) = NoEvent
<1>1. a \in DOMAIN Snapshots[o] /\ SnapshotEvent(o, a, live, len, k) = Reading(Snapshots[o][a], len, k)
  BY NoEventIsNothing DEF SnapshotEvent
<1>2. Snapshots[o][a].type = "AccountLiquiditySnapshot"
  BY <1>1, SnapshotsTypes DEF Typed
<1>3. OwnersEvent(o, a, len, k) = NoEvent
  BY <1>1, KeptOrDecoded DEF OwnersEvent
<1>4. QED
  BY <1>1, <1>2, <1>3, ReadingTypes, NoEventIsNothing

\* The filter alone decides about an account, and what it admits is the snapshot or the decoded account.
LEMMA AccountDecided ==
  ASSUME NEW f, Filter(f), NEW o \in Owners, NEW a, NEW live, NEW len, NEW k
  PROVE  LET out(g) == AccountEvent(g, o, a, live, len, k)
             any    == out(All)
         IN /\ out(f) = IF any.type # None /\ ShouldInclude(f, any.type) THEN any ELSE Nothing
            /\ any \in {Nothing, SnapshotEvent(o, a, live, len, k), OwnersEvent(o, a, len, k)}
<1> DEFINE shot == SnapshotEvent(o, a, live, len, k)
           ev   == OwnersEvent(o, a, len, k)
           out(g) == AccountEvent(g, o, a, live, len, k)
           gate(g) == \E t \in AccountTypes(o) : ShouldInclude(g, t)
           barred(g) == g.mode = "include" /\ ~Meets(g.types, ACCOUNT_EVENT_TYPES)
           snap == "AccountLiquiditySnapshot"
<1>1. \A g : out(g) = IF barred(g) THEN Nothing
                      ELSE IF ShouldInclude(g, snap) /\ shot.type # None THEN shot
                      ELSE IF ~gate(g) THEN Nothing
                      ELSE IF ev.type # None /\ ShouldInclude(g, ev.type) THEN ev
                      ELSE Nothing
  BY NoEventIsNothing DEF AccountEvent, None
<1>2. shot.type # None => shot.type = snap /\ ev = Nothing
  BY SnapshotsReport, NoEventIsNothing
<1>3. ev.type # None => ev.type \in AccountTypes(o) /\ ev.type \notin Families /\ ev.type \in ACCOUNT_EVENT_TYPES
  BY OwnersTypes
<1>4. snap \notin Families /\ snap \in ACCOUNT_EVENT_TYPES
  BY NoFamily DEF ACCOUNT_EVENT_TYPES
<1>5. \A g, t : t \in ACCOUNT_EVENT_TYPES /\ t \notin Families /\ ShouldInclude(g, t) => ~barred(g)
  BY NoFamily DEF Meets
<1>6. \A g : ev.type # None /\ ShouldInclude(g, ev.type) => gate(g)
  BY <1>3
<1>7. ~barred(All) /\ \A t : ShouldInclude(All, t)
  BY AllAdmits DEF All
<1> HIDE DEF shot, ev, out, gate, barred, snap
<1>8. out(All) = IF shot.type # None THEN shot ELSE IF ev.type # None THEN ev ELSE Nothing
  BY <1>1, <1>6, <1>7
<1>9. CASE shot.type # None
  <2>1. out(All) = shot /\ shot.type = snap /\ ev.type = None
    BY <1>2, <1>8, <1>9, NothingIsNone
  <2>2. out(f) = IF ShouldInclude(f, snap) THEN shot ELSE Nothing
    BY <1>1, <1>4, <1>5, <1>9, <2>1
  <2>3. QED
    BY <1>9, <2>1, <2>2 DEF out, shot, ev
<1>10. CASE shot.type = None /\ ev.type # None
  <2>1. out(All) = ev
    BY <1>8, <1>10
  <2>2. out(f) = IF ShouldInclude(f, ev.type) THEN ev ELSE Nothing
    BY <1>1, <1>3, <1>5, <1>6, <1>10
  <2>3. QED
    BY <1>10, <2>1, <2>2 DEF out, shot, ev
<1>11. CASE shot.type = None /\ ev.type = None
  <2>1. out(All) = Nothing /\ out(f) = Nothing
    BY <1>1, <1>8, <1>11
  <2>2. QED
    BY <2>1, NothingIsNone DEF out, shot, ev
<1>12. QED
  BY <1>9, <1>10, <1>11

\* An account is reported as what it is, a longer mint or a multisignature account as a token account.
LEMMA AccountsAreThemselves ==
  ASSUME NEW o \in Owners, NEW a \in OwnAccounts(o), NEW live
  PROVE  LET any == AccountEvent(All, o, a.name, live, a.len, 0)
         IN any.type # None => any.type = IF a.name \in LikeTokenAccounts THEN "TokenAccount" ELSE a.type
<1> DEFINE shot == SnapshotEvent(o, a.name, live, a.len, 0)
           ev   == OwnersEvent(o, a.name, a.len, 0)
           any  == AccountEvent(All, o, a.name, live, a.len, 0)
<1>1. any \in {Nothing, shot, ev}
  BY AllAdmits, AccountDecided
<1>2. CASE o = "System"
  <2>1. a.name = "Nonce" /\ a.type = "NonceAccount" /\ a.len = 80
    BY <1>2 DEF OwnAccounts, NONCE_SIZE
  <2>2. shot.type = None
    BY <1>2, SnapshotsReport, KeptOrDecoded
  <2>3. ev.type = "NonceAccount"
    BY <1>2, <2>1 DEF OwnersEvent, NONCE_SIZE, NoEvent
  <2>4. QED
    BY <1>1, <2>1, <2>2, <2>3, NothingIsNone DEF LikeTokenAccounts
<1>3. CASE o = "Token"
  <2>1. PICK x \in DOMAIN TokenAccounts : a.name = x /\ a.type = TokenAccounts[x].type /\ a.len \in TokenAccounts[x].lengths
    BY <1>3 DEF OwnAccounts
  <2>2. shot.type = None
    BY <1>3, SnapshotsReport, KeptOrDecoded
  <2>3. ev.type = TokenType(a.len)
    BY <1>3 DEF OwnersEvent, NoEvent
  <2>4. TokenType(a.len) = IF a.name \in LikeTokenAccounts THEN "TokenAccount" ELSE a.type
    <3> DEFINE names == {"Token.Account", "Token.Account2022", "Token.Mint", "Token.Mint2022", "Token.Multisig"}
               row(t, S) == [type |-> t, lengths |-> S]
    <3>1. Named(TokenAccounts, names)
      BY RowNamed, JoinNamed DEF TokenAccounts
    <3>2. /\ Says(TokenAccounts, "Token.Account", row("TokenAccount", {165}))
          /\ Says(TokenAccounts, "Token.Account2022", row("TokenAccount", {170, 182}))
          /\ Says(TokenAccounts, "Token.Mint", row("TokenInfo", {82}))
          /\ Says(TokenAccounts, "Token.Mint2022", row("TokenInfo", {202, 234}))
          /\ Says(TokenAccounts, "Token.Multisig", row("none", {355}))
      BY RowSays, JoinSays DEF TokenAccounts, TOKEN_ACCOUNT_SIZE, MINT_SIZE
    <3>3. QED
      BY <2>1, <3>1, <3>2 DEF Named, Says, TokenType, TOKEN_ACCOUNT_SIZE, MINT_SIZE, LikeTokenAccounts
  <2>5. QED
    BY <1>1, <2>2, <2>3, <2>4, NothingIsNone
<1>4. CASE o \notin {"System", "Token"}
  <2>1. PICK x \in DOMAIN Accounts[o] \cup DOMAIN Snapshots[o] :
          a.name = x /\ a.type = (Accounts[o] @@ Snapshots[o])[x].type
    BY <1>4 DEF OwnAccounts
  <2>2. x \notin LikeTokenAccounts
    BY <2>1, AccountsNamed DEF Named, AccountNames, LikeTokenAccounts
  <2>3. CASE x \in DOMAIN Accounts[o]
    <3>1. a.type = Accounts[o][x].type
      BY <2>1, <2>3, JoinLeft
    <3>2. shot.type = None
      BY <2>1, <2>3, SnapshotsReport, KeptOrDecoded
    <3>3. ev = NoEvent \/ ev.type = a.type
      BY <1>4, <2>1, <2>3, <3>1, ReadingTypes DEF OwnersEvent
    <3>4. QED
      BY <1>1, <2>1, <2>2, <3>2, <3>3, NothingIsNone, NoEventIsNothing
  <2>4. CASE x \notin DOMAIN Accounts[o]
    <3>1. a.type = "AccountLiquiditySnapshot"
      BY <2>1, <2>4, JoinRight, SnapshotsTypes DEF Typed
    <3>2. ev = NoEvent
      BY <1>4, <2>1, <2>4 DEF OwnersEvent
    <3>3. QED
      BY <1>1, <2>1, <2>2, <3>1, <3>2, SnapshotsReport, NothingIsNone, NoEventIsNothing
  <2>5. QED
    BY <2>3, <2>4
<1>5. QED
  BY <1>2, <1>3, <1>4

(***************************************************************************)
(* Log lines and the programs they are of                                  *)
(***************************************************************************)

\* The line of a program the matcher was told is an event of that program or nothing.
LEMMA ScopedTypes ==
  ASSUME NEW f, NEW p \in Programs, NEW d \in DOMAIN Events[p], NEW kind, NEW len, NEW k
  PROVE  LogEvent(f, p, d, kind, len, k).type \in FilterTypes[p] \cup {None}
<1> DEFINE events == IF p = "PumpFun" /\ d = "TradeEvent" THEN PumpFunEvents ELSE Events[p]
           ev == Decoded(events, d, kind, len, k)
           line == LogEvent(f, p, d, kind, len, k)
<1>1. p # None
  BY ThePrograms DEF None
<1>2. line \in {Nothing, Only(f, ev), SecondaryFilter(f, ev)}
  BY <1>1 DEF LogEvent
<1>3. line \in {Nothing, ev}
  <2> HIDE DEF line, ev
  <2>1. QED
    BY <1>2, KeptOrDropped
<1>4. ev = Nothing \/ ev.type = ActualType(Events[p][d].type, kind)
  <2>1. CASE p = "PumpFun" /\ d = "TradeEvent"
    <3>1. d \in DOMAIN PumpFunEvents => Events[p][d] = PumpFunEvents[d]
      BY <2>1, TheTables, JoinLeft
    <3>2. QED
      BY <2>1, <3>1, DecodedType
  <2>2. CASE ~(p = "PumpFun" /\ d = "TradeEvent")
    BY <2>2, DecodedType
  <2>3. QED
    BY <2>1, <2>2
<1>5. ev.type \in FilterTypes[p] \cup {None}
  <2> HIDE DEF ev
  <2>1. QED
    BY <1>4, ReportedTypes
<1>6. QED
  BY <1>3, <1>5, NothingIsNone DEF line

\* The newest layouts of the rows two programs share.
LEMMA SharedRows ==
  /\ "TradeEvent" \in DOMAIN Events["PumpFun"] => Events["PumpFun"]["TradeEvent"].layouts = <<PumpTrade>>
  /\ "TradeEvent" \in DOMAIN Events["Launchlab"] => Events["Launchlab"]["TradeEvent"].layouts = <<LaunchlabTrade>>
  /\ "SwapEvent" \in DOMAIN Events["Clmm"] => Events["Clmm"]["SwapEvent"].layouts = <<ClmmSwap>>
  /\ "SwapEvent" \in DOMAIN Events["Cpmm"] => Events["Cpmm"]["SwapEvent"].layouts = <<CpmmSwapEvent>>
  /\ "EvtInitializePool" \in DOMAIN Events["DammV2"]
       => Events["DammV2"]["EvtInitializePool"].layouts = <<DammInitializePool>>
  /\ "EvtInitializePool" \in DOMAIN Events["Dbc"] => Events["Dbc"]["EvtInitializePool"].layouts = <<DbcInitializePool>>
<1>1. Says(Events["PumpFun"], "TradeEvent", Ev("PumpFunTrade", <<PumpTrade>>))
  <2>1. Says(PumpFunUpgrades, "TradeEvent", Ev("PumpFunTrade", <<PumpTrade>>))
    BY PumpUpgradesNotTrade DEF Says
  <2>2. QED
    BY <2>1, TheTables, PumpTradeRow, JoinSays
<1>2. QED
  BY <1>1, TheTables, LaunchlabTradeRow, ClmmSwapRow, CpmmSwapRow, DammPoolRow, DbcPoolRow DEF Says, Ev

\* The newest layout of a decoder that has one.
LEMMA NewestOfOne == \A l : Newest(<<l>>) = Full(l, 0)
BY DEF Newest

LEMMA NewestOf ==
  /\ "TradeEvent" \in DOMAIN Events["PumpFun"]
       => Newest(Events["PumpFun"]["TradeEvent"].layouts) \in Nat /\ Newest(Events["PumpFun"]["TradeEvent"].layouts) >= 217
  /\ "TradeEvent" \in DOMAIN Events["Launchlab"] => Newest(Events["Launchlab"]["TradeEvent"].layouts) = 139
  /\ "SwapEvent" \in DOMAIN Events["Cpmm"] => Newest(Events["Cpmm"]["SwapEvent"].layouts) = 162
  /\ "EvtInitializePool" \in DOMAIN Events["Dbc"] => Newest(Events["Dbc"]["EvtInitializePool"].layouts) = 137
<1>1. Newest(<<PumpTrade>>) \in Nat /\ Newest(<<PumpTrade>>) >= 217
  BY NewestOfOne, PumpTradeLong DEF TakesOver
<1>2. Newest(<<LaunchlabTrade>>) = 139 /\ Newest(<<CpmmSwapEvent>>) = 162 /\ Newest(<<DbcInitializePool>>) = 137
  BY NewestOfOne, LaunchlabTradeLength, CpmmSwapLength, DbcInitializePoolLength DEF Takes
<1>3. QED
  BY <1>1, <1>2, SharedRows

\* A trade is decoded as the trade of the program whose layout it has.
LEMMA UnscopedTradeTypes ==
  ASSUME NEW f, NEW p \in {"PumpFun", "Launchlab"}, NEW kind, NEW k, "TradeEvent" \in DOMAIN Events[p]
  PROVE  LogEvent(f, None, "TradeEvent", kind, Newest(Events[p]["TradeEvent"].layouts), k).type \in FilterTypes[p] \cup {None}
<1> DEFINE len == Newest(Events[p]["TradeEvent"].layouts)
           pump == Decoded(PumpFunEvents, "TradeEvent", kind, len, k)
           lab == Decoded(LaunchlabEvents, "TradeEvent", kind, len, k)
           line == LogEvent(f, None, "TradeEvent", kind, len, k)
<1>1. len \in Nat
  BY NewestOf
<1> HIDE DEF len
<1>2. line \in {Nothing, SecondaryFilter(f, pump), Only(f, lab)}
  BY DEF LogEvent, UnscopedTrade, None
<1>3. line \in {Nothing, pump, lab}
  <2> HIDE DEF line, pump, lab
  <2>1. QED
    BY <1>2, KeptOrDropped
<1>4. pump.type \in PumpTrades \cup {None} /\ lab.type \in {"RaydiumLaunchlabTrade", None}
  BY TradeTypes
<1>5. CASE p = "PumpFun"
  <2>1. ~Read(LaunchlabTrade, len, k).event
    BY <1>1, <1>5, NewestOf, TheLengths DEF len
  <2>2. lab = Nothing
    <3>1. "TradeEvent" \in DOMAIN LaunchlabEvents => LaunchlabEvents["TradeEvent"].layouts = <<LaunchlabTrade>>
      BY LaunchlabTradeRow DEF Says, Ev
    <3>2. QED
      BY <2>1, <3>1, OnlyLayout, DecodedType
  <2>3. PumpTrades \subseteq FilterTypes[p]
    BY <1>5, TheTypes DEF PumpTrades, PUMPFUN_FILTER_TYPES
  <2> HIDE DEF line, pump, lab
  <2>4. line.type \in FilterTypes[p] \cup {None}
    BY <1>3, <1>4, <2>2, <2>3, NothingIsNone
  <2>5. QED
    BY <2>4 DEF line, len
<1>6. CASE p = "Launchlab"
  <2>1. ~Read(PumpTrade, len, k).event
    BY <1>1, <1>6, NewestOf, TheLengths DEF len
  <2>2. pump = Nothing
    <3>1. "TradeEvent" \in DOMAIN PumpFunEvents => PumpFunEvents["TradeEvent"].layouts = <<PumpTrade>>
      BY PumpTradeRow DEF Says, Ev
    <3>2. QED
      BY <2>1, <3>1, OnlyLayout, DecodedType
  <2>3. "RaydiumLaunchlabTrade" \in FilterTypes[p]
    BY <1>6, TheTypes DEF RAYDIUM_LAUNCHLAB_FILTER_TYPES
  <2> HIDE DEF line, pump, lab
  <2>4. line.type \in FilterTypes[p] \cup {None}
    BY <1>3, <1>4, <2>2, <2>3, NothingIsNone
  <2>5. QED
    BY <2>4 DEF line, len
<1>7. QED
  BY <1>5, <1>6

\* What a decoder of the wrong program makes of these lengths.
LEMMA WrongLengths ==
  ASSUME NEW events, NEW d, NEW kind
  PROVE  /\ events[d].layouts = <<ClmmSwap>> => Decoded(events, d, kind, 162, 0) = Nothing
         /\ events[d].layouts = <<DammInitializePool>> => Decoded(events, d, kind, 137, 0) = Nothing
<1>1. ~Read(ClmmSwap, 162, 0).event
  <2>1. ClmmSwap \in Layouts /\ Full(ClmmSwap, 0) = 197
    BY ClmmSwapLength DEF Takes
  <2>2. ~(197 <= 162) /\ 162 \in Nat
    OBVIOUS
  <2>3. QED
    BY <2>1, <2>2, ClmmSwapLength, AllNeeded
<1>2. ~Read(DammInitializePool, 137, 0).event
  <2>1. ~(137 >= 332) /\ 137 \in Nat
    OBVIOUS
  <2>2. QED
    BY <2>1, TheLengths
<1>3. QED
  BY <1>1, <1>2, OnlyLayout

\* The first decoder for a discriminator is that of the program, or one that makes nothing of the
\* payload, but for the discriminators whose lengths do not tell the programs apart.
LEMMA FirstDecoder ==
  ASSUME NEW p \in Programs, NEW d \in DOMAIN Events[p], d # "TradeEvent", <<p, d>> \notin Shared, NEW kind
  PROVE  LET ev == Decoded(FirstWith(DecoderOrder, d), d, kind, Newest(Events[p][d].layouts), 0)
         IN ev = Nothing \/ ev.type = ActualType(Events[p][d].type, kind)
<1> DEFINE e == FirstWith(DecoderOrder, d)
           len == Newest(Events[p][d].layouts)
           ev == Decoded(e, d, kind, len, 0)
<1>1. /\ d \notin DOMAIN e => ev = Nothing
      /\ ev = Nothing \/ ev.type = ActualType(e[d].type, kind)
  BY DecodedType
<1>2. \/ (\A i \in 1 .. 11 : d \notin DOMAIN DecoderOrder[i]) /\ e = <<>>
      \/ \E i \in 1 .. 11 : /\ d \in DOMAIN DecoderOrder[i] /\ e = DecoderOrder[i]
                            /\ \A j \in 1 .. 11 : d \in DOMAIN DecoderOrder[j] => i <= j
  <2>1. 11 \in Nat /\ DOMAIN DecoderOrder = 1 .. 11
    BY TheOrders
  <2>2. QED
    BY <2>1, FirstIs
<1> HIDE DEF e
<1>3. SUFFICES ASSUME d \in DOMAIN e PROVE ev = Nothing \/ ev.type = ActualType(Events[p][d].type, kind)
  BY <1>1 DEF e
<1>4. PICK i \in 1 .. 11 : /\ d \in DOMAIN DecoderOrder[i] /\ e = DecoderOrder[i]
                           /\ \A j \in 1 .. 11 : d \in DOMAIN DecoderOrder[j] => i <= j
  BY <1>2, <1>3, EmptyHasNone
<1> DEFINE q == Place[i]
<1>5. q \in Programs /\ d \in DOMAIN Events[q] /\ e[d] = Events[q][d]
  BY <1>4, DecoderOf, ThePlaces, ThePrograms
<1> HIDE DEF ev, len
<1>6. SUFFICES q = p \/ ev = Nothing
  BY <1>1, <1>5
<1>7. CASE d \notin SharedNames
  <2> HIDE DEF q
  <2>1. QED
    BY <1>5, <1>7, HomeOf
<1>8. CASE d = "SwapEvent"
  <2>1. q \in {"Clmm", "Cpmm"} /\ p \in {"Clmm", "Cpmm"}
    <3> HIDE DEF q
    <3>1. QED
      BY <1>5, <1>8, SharedBy
  <2>2. i \in {4, 5}
    BY <2>1, ThePlaces
  <2>3. i # 5
    BY <1>4, <1>8, TheOrders DEF CpmmReached
  <2>4. q = "Clmm"
    BY <2>2, <2>3, ThePlaces
  <2> HIDE DEF q
  <2>5. ASSUME p = "Cpmm" PROVE ev = Nothing
    <3>1. len = 162
      BY <1>8, <2>5, NewestOf DEF len
    <3>2. e[d].layouts = <<ClmmSwap>>
      BY <1>5, <1>8, <2>4, SharedRows
    <3>3. QED
      BY <3>1, <3>2, WrongLengths DEF ev
  <2>6. QED
    BY <2>1, <2>4, <2>5
<1>9. CASE d = "SwapBaseIn"
  <2>1. q \in {"Cpmm", "Dlmm"} /\ p \in {"Cpmm", "Dlmm"}
    <3> HIDE DEF q
    <3>1. QED
      BY <1>5, <1>9, SharedBy
  <2>2. i \in {5, 11} /\ p = "Cpmm"
    BY <1>9, <2>1, ThePlaces DEF Shared
  <2>3. d \in DOMAIN DecoderOrder[5]
    <3>1. d \in DOMAIN CpmmEvents
      BY <2>2, TheTables
    <3>2. QED
      BY <1>9, <3>1, TheOrders DEF CpmmReached
  <2>4. i = 5
    BY <1>4, <2>2, <2>3
  <2>5. QED
    BY <2>2, <2>4, ThePlaces
<1>10. CASE d \in {"Swap", "AddLiquidity", "RemoveLiquidity"}
  <2>1. q \in {"Pools", "Dlmm"} /\ p \in {"Pools", "Dlmm"}
    <3> HIDE DEF q
    <3>1. QED
      BY <1>5, <1>10, SharedBy
  <2>2. i \in {8, 11} /\ p = "Pools"
    BY <1>10, <2>1, ThePlaces DEF Shared
  <2>3. d \in DOMAIN DecoderOrder[8]
    BY <2>2, TheTables, TheOrders
  <2>4. i = 8
    BY <1>4, <2>2, <2>3
  <2>5. QED
    BY <2>2, <2>4, ThePlaces
<1>11. CASE d \in {"EvtSwap", "EvtSwap2", "EvtInitializePool"}
  <2>1. q \in {"DammV2", "Dbc"} /\ p \in {"DammV2", "Dbc"}
    <3> HIDE DEF q
    <3>1. QED
      BY <1>5, <1>11, SharedBy
  <2>2. i = 9
    BY <2>1, ThePlaces
  <2>3. q = "DammV2"
    BY <2>2, ThePlaces
  <2> HIDE DEF q
  <2>4. ASSUME p = "Dbc" PROVE ev = Nothing
    <3>1. d = "EvtInitializePool"
      BY <1>11, <2>4 DEF Shared
    <3>2. len = 137
      BY <2>4, <3>1, NewestOf DEF len
    <3>3. e[d].layouts = <<DammInitializePool>>
      BY <1>5, <2>3, <3>1, SharedRows
    <3>4. QED
      BY <3>2, <3>3, WrongLengths DEF ev
  <2>5. QED
    BY <2>1, <2>3, <2>4
<1>12. QED
  BY <1>7, <1>8, <1>9, <1>10, <1>11 DEF SharedNames

\* So is the line of a program it was not told.
LEMMA UnscopedTypes ==
  ASSUME NEW f, NEW p \in Programs, NEW d \in DOMAIN Events[p], <<p, d>> \notin Shared, NEW kind
  PROVE  LogEvent(f, None, d, kind, Newest(Events[p][d].layouts), 0).type \in FilterTypes[p] \cup {None}
<1>1. CASE d = "TradeEvent"
  <2>1. p \in {"PumpFun", "Launchlab"}
    BY <1>1, SharedBy
  <2>2. QED
    BY <1>1, <2>1, UnscopedTradeTypes
<1>2. CASE d # "TradeEvent"
  <2> DEFINE ev == Decoded(FirstWith(DecoderOrder, d), d, kind, Newest(Events[p][d].layouts), 0)
             line == LogEvent(f, None, d, kind, Newest(Events[p][d].layouts), 0)
  <2>1. line \in {Nothing, ev, Only(f, ev)}
    BY <1>2 DEF LogEvent, None
  <2>2. ev = Nothing \/ ev.type = ActualType(Events[p][d].type, kind)
    BY <1>2, FirstDecoder
  <2> HIDE DEF ev, line
  <2>3. line \in {Nothing, ev}
    BY <2>1, KeptOrDropped
  <2>4. ev.type \in FilterTypes[p] \cup {None}
    BY <2>2, ReportedTypes
  <2>5. line.type \in FilterTypes[p] \cup {None}
    BY <2>3, <2>4, NothingIsNone
  <2>6. QED
    BY <2>5 DEF line
<1>3. QED
  BY <1>1, <1>2

(***************************************************************************)
(* The theorems                                                            *)
(***************************************************************************)

\* The filters of the model are filters, whatever types they list.
LEMMA FiltersAreFilters ==
  /\ \A types : \A f \in FiltersOver(types) : Filter(f)
  /\ \A p : \A f \in Filters(p) : Filter(f)
BY DEF FiltersOver, Filters, Filter, All

\* What the answer says when something was handed in.
Right(in, out) ==
  /\ in.source \in {"log", "cpi", "instruction", "account"} =>
       out.event = IF ~Admitted(in, out.any) THEN Nothing
                   ELSE IF in.source \in {"log", "account"} THEN out.any
                   ELSE Renamed(in.f, out.any)
  /\ (in.source \in {"log", "cpi", "instruction"} /\ out.event.type # None)
       => out.event.type \in FilterTypes[in.p] \/ (~in.scoped /\ <<in.p, in.d>> \in Shared)
  /\ (in.source = "account" /\ out.event.type # None)
       => out.event.type = IF in.d \in LikeTokenAccounts THEN "TokenAccount" ELSE in.type

\* What each action answers is right.
LEMMA LogRight == Log => Right(input', answer')
<1> SUFFICES ASSUME Log PROVE Right(input', answer')
  OBVIOUS
<1>1. PICK p \in Programs, scoped \in BOOLEAN : \E d \in DOMAIN Events[p] : \E kind \in KindsOf(d) : \E f \in Filters(p) :
        Answer([source |-> "log", f |-> f, p |-> p, d |-> d, scoped |-> scoped],
               [event |-> LogEvent(f, IF scoped THEN p ELSE None, d, kind, Newest(Events[p][d].layouts), 0),
                any |-> LogEvent(All, IF scoped THEN p ELSE None, d, kind, Newest(Events[p][d].layouts), 0)])
  BY DEF Log
<1>2. PICK d \in DOMAIN Events[p] : \E kind \in KindsOf(d) : \E f \in Filters(p) :
        Answer([source |-> "log", f |-> f, p |-> p, d |-> d, scoped |-> scoped],
               [event |-> LogEvent(f, IF scoped THEN p ELSE None, d, kind, Newest(Events[p][d].layouts), 0),
                any |-> LogEvent(All, IF scoped THEN p ELSE None, d, kind, Newest(Events[p][d].layouts), 0)])
  BY <1>1
<1> DEFINE len == Newest(Events[p][d].layouts)
           who == IF scoped THEN p ELSE None
<1>3. PICK kind \in KindsOf(d), f \in Filters(p) :
        Answer([source |-> "log", f |-> f, p |-> p, d |-> d, scoped |-> scoped],
               [event |-> LogEvent(f, who, d, kind, len, 0), any |-> LogEvent(All, who, d, kind, len, 0)])
  BY <1>2
<1> DEFINE ev == LogEvent(f, who, d, kind, len, 0)
           any == LogEvent(All, who, d, kind, len, 0)
<1>4. Filter(f)
  BY FiltersAreFilters
<1>5. d = "TradeEvent" => len \in Nat
  <2>1. d = "TradeEvent" => p \in {"PumpFun", "Launchlab"}
    BY SharedBy
  <2>2. 139 \in Nat
    OBVIOUS
  <2>3. QED
    BY <2>1, <2>2, NewestOf
<1> HIDE DEF len
<1>6. ev = Verdict(f, d, any)
  <2>1. CASE scoped
    BY <1>4, <2>1, ScopedLine
  <2>2. CASE ~scoped
    BY <1>4, <1>5, <2>2, UnscopedLine
  <2>3. QED
    BY <2>1, <2>2
<1>7. ev.type \in FilterTypes[p] \cup {None} \/ (~scoped /\ <<p, d>> \in Shared)
  <2>1. CASE scoped
    BY <2>1, ScopedTypes
  <2>2. CASE ~scoped
    BY <2>2, UnscopedTypes DEF len
  <2>3. QED
    BY <2>1, <2>2
<1>8. /\ input' = [source |-> "log", f |-> f, p |-> p, d |-> d, scoped |-> scoped]
      /\ answer' = [event |-> ev, any |-> any]
  BY <1>3 DEF Answer
<1> HIDE DEF ev, any
<1>9. QED
  BY <1>6, <1>7, <1>8 DEF Right, Admitted, Verdict

LEMMA CpiRight == Cpi => Right(input', answer')
<1> SUFFICES ASSUME Cpi PROVE Right(input', answer')
  OBVIOUS
<1>1. PICK p \in Programs : \E d \in DOMAIN Events[p], form \in CpiForms[p] : \E kind \in KindsOf(d), f \in Filters(p) :
        Answer([source |-> "cpi", f |-> f, p |-> p, d |-> d, scoped |-> TRUE],
               [event |-> CpiEvent(f, p, form, d, kind, Newest(CpiLayouts(p, d)), 0),
                any |-> CpiEvent(All, p, form, d, kind, Newest(CpiLayouts(p, d)), 0)])
  BY DEF Cpi
<1>2. PICK d \in DOMAIN Events[p], form \in CpiForms[p] : \E kind \in KindsOf(d), f \in Filters(p) :
        Answer([source |-> "cpi", f |-> f, p |-> p, d |-> d, scoped |-> TRUE],
               [event |-> CpiEvent(f, p, form, d, kind, Newest(CpiLayouts(p, d)), 0),
                any |-> CpiEvent(All, p, form, d, kind, Newest(CpiLayouts(p, d)), 0)])
  BY <1>1
<1>3. PICK kind \in KindsOf(d), f \in Filters(p) :
        Answer([source |-> "cpi", f |-> f, p |-> p, d |-> d, scoped |-> TRUE],
               [event |-> CpiEvent(f, p, form, d, kind, Newest(CpiLayouts(p, d)), 0),
                any |-> CpiEvent(All, p, form, d, kind, Newest(CpiLayouts(p, d)), 0)])
  BY <1>2
<1> DEFINE ev == CpiEvent(f, p, form, d, kind, Newest(CpiLayouts(p, d)), 0)
           any == CpiEvent(All, p, form, d, kind, Newest(CpiLayouts(p, d)), 0)
<1>4. /\ ev = IF any.type # None /\ ShouldInclude(f, any.type) THEN Renamed(f, any) ELSE Nothing
      /\ any.type \in FilterTypes[p] \cup {None}
      /\ Record(any)
  BY FiltersAreFilters, CpiDecided
<1>5. /\ input' = [source |-> "cpi", f |-> f, p |-> p, d |-> d, scoped |-> TRUE]
      /\ answer' = [event |-> ev, any |-> any]
  BY <1>3 DEF Answer
<1> HIDE DEF ev, any
<1>6. ev.type \in FilterTypes[p] \cup {None}
  BY <1>4, RenamedHome, NothingIsNone
<1>7. QED
  BY <1>4, <1>5, <1>6 DEF Right, Admitted

LEMMA InstructionRight == Instruction => Right(input', answer')
<1> SUFFICES ASSUME Instruction PROVE Right(input', answer')
  OBVIOUS
<1>1. PICK p \in Programs, inner \in BOOLEAN : \E name \in DOMAIN Instructions[p], f \in Filters(p) :
        LET ix  == Instructions[p][name]
            out(g) == [Nothing EXCEPT !.type =
                         InstructionEvent(g, p, name, inner, Max(Counts(ix)), Full(ix.data, 0), 0)]
        IN Answer([source |-> "instruction", f |-> f, p |-> p, d |-> name, scoped |-> TRUE],
                  [event |-> out(f), any |-> out(All)])
  BY DEF Instruction
<1>2. PICK name \in DOMAIN Instructions[p], f \in Filters(p) :
        LET ix  == Instructions[p][name]
            out(g) == [Nothing EXCEPT !.type =
                         InstructionEvent(g, p, name, inner, Max(Counts(ix)), Full(ix.data, 0), 0)]
        IN Answer([source |-> "instruction", f |-> f, p |-> p, d |-> name, scoped |-> TRUE],
                  [event |-> out(f), any |-> out(All)])
  BY <1>1
<1> DEFINE ix == Instructions[p][name]
           out(g) == [Nothing EXCEPT !.type =
                        InstructionEvent(g, p, name, inner, Max(Counts(ix)), Full(ix.data, 0), 0)]
<1>3. /\ out(f) = IF out(All).type # None /\ ShouldInclude(f, out(All).type) THEN Renamed(f, out(All)) ELSE Nothing
      /\ out(All).type \in FilterTypes[p] \cup {None}
  BY FiltersAreFilters, InstructionDecided
<1>4. Renamed(f, out(All)).type = Normalized(f, out(All).type)
  <2>1. \A t : [[Nothing EXCEPT !.type = t] EXCEPT !.type = Normalized(f, @)].type
                 = Normalized(f, [Nothing EXCEPT !.type = t].type)
    BY DEF Nothing
  <2>2. QED
    BY <2>1 DEF Renamed
<1>5. /\ input' = [source |-> "instruction", f |-> f, p |-> p, d |-> name, scoped |-> TRUE]
      /\ answer' = [event |-> out(f), any |-> out(All)]
  BY <1>2 DEF Answer
<1> HIDE DEF out
<1>6. out(f).type \in FilterTypes[p] \cup {None}
  BY <1>3, <1>4, NormalizedHome, NormalizedTypes, NothingIsNone
<1>7. QED
  BY <1>3, <1>5, <1>6 DEF Right, Admitted

LEMMA AccountRight == AccountUpdate => Right(input', answer')
<1> SUFFICES ASSUME AccountUpdate PROVE Right(input', answer')
  OBVIOUS
<1>1. PICK o \in Owners, live \in BOOLEAN : \E a \in OwnAccounts(o) :
        \E f \in FiltersOver(AccountTypes(o) \cup {"AccountLiquiditySnapshot", "AccountRawSnapshot"}) :
          Answer([source |-> "account", f |-> f, p |-> o, d |-> a.name, type |-> a.type, live |-> live],
                 [event |-> AccountEvent(f, o, a.name, live, a.len, 0),
                  any |-> AccountEvent(All, o, a.name, live, a.len, 0)])
  BY DEF AccountUpdate
<1>2. PICK a \in OwnAccounts(o) :
        \E f \in FiltersOver(AccountTypes(o) \cup {"AccountLiquiditySnapshot", "AccountRawSnapshot"}) :
          Answer([source |-> "account", f |-> f, p |-> o, d |-> a.name, type |-> a.type, live |-> live],
                 [event |-> AccountEvent(f, o, a.name, live, a.len, 0),
                  any |-> AccountEvent(All, o, a.name, live, a.len, 0)])
  BY <1>1
<1>3. PICK f : /\ Filter(f)
               /\ Answer([source |-> "account", f |-> f, p |-> o, d |-> a.name, type |-> a.type, live |-> live],
                         [event |-> AccountEvent(f, o, a.name, live, a.len, 0),
                          any |-> AccountEvent(All, o, a.name, live, a.len, 0)])
  BY <1>2, FiltersAreFilters
<1> DEFINE ev == AccountEvent(f, o, a.name, live, a.len, 0)
           any == AccountEvent(All, o, a.name, live, a.len, 0)
<1>4. ev = IF any.type # None /\ ShouldInclude(f, any.type) THEN any ELSE Nothing
  BY <1>3, AccountDecided
<1>5. any.type # None => any.type = IF a.name \in LikeTokenAccounts THEN "TokenAccount" ELSE a.type
  BY AccountsAreThemselves
<1>6. /\ input' = [source |-> "account", f |-> f, p |-> o, d |-> a.name, type |-> a.type, live |-> live]
      /\ answer' = [event |-> ev, any |-> any]
  BY <1>3 DEF Answer
<1> HIDE DEF ev, any
<1>7. QED
  BY <1>4, <1>5, <1>6, NothingIsNone DEF Right, Admitted

\* The answer is right at all times.
LEMMA AlwaysRight == Spec => []Right(input, answer)
<1>1. Init => Right(input, answer)
  BY DEF Init, Idle, Right
<1>2. Right(input, answer) /\ [Next]_vars => Right(input, answer)'
  <2> SUFFICES ASSUME Right(input, answer), [Next]_vars PROVE Right(input', answer')
    OBVIOUS
  <2>1. CASE Log
    BY <2>1, LogRight
  <2>2. CASE Cpi
    BY <2>2, CpiRight
  <2>3. CASE Instruction
    BY <2>3, InstructionRight
  <2>4. CASE AccountUpdate
    BY <2>4, AccountRight
  <2>5. /\ Payload => input'.source = "payload"
        /\ Data => input'.source = "data"
        /\ Arguments => input'.source = "arguments"
        /\ Fill => input'.source = "fill"
        /\ Proceed => input'.source = "idle"
    <3>1. ASSUME Payload PROVE input'.source = "payload"
      <4>1. \E in, out : Answer(in, out) /\ in.source = "payload"
        BY <3>1 DEF Payload, PayloadOf
      <4>2. QED
        BY <4>1 DEF Answer
    <3>2. ASSUME Data PROVE input'.source = "data"
      <4>1. \E in, out : Answer(in, out) /\ in.source = "data"
        BY <3>2 DEF Data
      <4>2. QED
        BY <4>1 DEF Answer
    <3>3. ASSUME Arguments PROVE input'.source = "arguments"
      <4>1. \E in, out : Answer(in, out) /\ in.source = "arguments"
        BY <3>3 DEF Arguments
      <4>2. QED
        BY <4>1 DEF Answer
    <3>4. ASSUME Fill PROVE input'.source = "fill"
      <4>1. PICK p \in DOMAIN KeyRole, knows \in BOOLEAN, cashback \in BOOLEAN :
              \E marked \in {TRUE, p # "AmmV4"}, own \in Calls(p, 1, Min(Markets), Min(Users)) :
              \E calls \in Company(own) : \E ev :
                Answer([source |-> "fill", own |-> own, type |-> ev.type, alone |-> calls = <<own>>],
                       [filled |-> Filled(ev, calls)])
        BY <3>4, Zenon DEF Fill
      <4>2. QED
        BY <4>1 DEF Answer
    <3>5. ASSUME Proceed PROVE input'.source = "idle"
      BY <3>5 DEF Proceed, Answer, Idle
    <3>6. QED
      BY <3>1, <3>2, <3>3, <3>4, <3>5
  <2>6. CASE Payload \/ Data \/ Arguments \/ Fill \/ Proceed
    BY <2>5, <2>6 DEF Right
  <2>7. CASE UNCHANGED vars
    BY <2>7 DEF vars
  <2>8. QED
    BY <2>1, <2>2, <2>3, <2>4, <2>6, <2>7 DEF Next
<1>3. QED
  BY <1>1, <1>2, PTL DEF Spec

\* The filter alone decides what is reported, however many types it lists: a log line, of a known or
\* an unknown program, an event CPI, an instruction and an account give the event they give without a
\* filter, under the name the caller asked for it by, or nothing.
THEOREM FilterAlwaysDecides == Spec => []FilterDecides
<1>1. Right(input, answer) => FilterDecides
  BY DEF Right, FilterDecides, Renamed
<1>2. QED
  BY <1>1, AlwaysRight, PTL

\* Nothing is reported as an event of another program or another kind of account, but for the
\* discriminators and lengths that two of them share.
THEOREM NeverTakenForAnother == Spec => []NeverMistaken
<1>1. Right(input, answer) => NeverMistaken
  BY DEF Right, NeverMistaken
<1>2. QED
  BY <1>1, AlwaysRight, PTL

=================================================================================
