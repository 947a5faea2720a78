---------------------------- MODULE EventRouting ----------------------------
(***************************************************************************)
(* Which decoder an event payload reaches and which events leave, for the  *)
(* two ways programs emit events: a "Program data:" log line               *)
(* (src/src/logs/optimized_matcher.ts) and an inner instruction to the     *)
(* program itself, the event CPI (src/src/instr/inner.ts).                 *)
(*                                                                         *)
(* A discriminator is a string; two programs' events that share the eight  *)
(* bytes share the string.  The discriminators of one program only carry   *)
(* its name.                                                               *)
(***************************************************************************)
EXTENDS EventFilters, EventLayouts, Tables, FiniteSetsExt

None == "none"

\* An event as a program emits it: the type it is reported under and the layouts tried, in order.
Ev(type, layouts) == [type |-> type, layouts |-> layouts]

PumpFunEvents ==
     "TradeEvent"                  :> Ev("PumpFunTrade", <<PumpTrade>>)
  @@ "PumpFun.Create"              :> Ev("PumpFunCreate", <<PumpCreateLegacy, PumpCreate>>)
  @@ "PumpFun.Migrate"             :> Ev("PumpFunMigrate", <<PumpMigrate>>)
  @@ "PumpFun.MigrateCreator"      :> Ev("PumpFunMigrateBondingCurveCreator", <<PumpMigrateCreator>>)

PumpFunUpgrades ==
     "PumpFun.PostCompleteBuy"      :> Ev("PumpFunPostCompleteBuy", <<PumpPostCompleteBuy>>)
  @@ "PumpFun.SweepBondingCurveFee" :> Ev("PumpFunSweepBondingCurveFee", <<PumpSweepBondingCurveFee>>)
  @@ "PumpFun.Complete"             :> Ev("PumpFunComplete", <<PumpComplete>>)

PumpFeesEvents ==
     "PumpFees.CreateSharing" :> Ev("PumpFeesCreateFeeSharingConfig", <<FeesCreateSharing>>)
  @@ "PumpFees.Initialize"    :> Ev("PumpFeesInitializeFeeConfig", <<FeesInitialize>>)
  @@ "PumpFees.Reset"         :> Ev("PumpFeesResetFeeSharingConfig", <<FeesReset>>)
  @@ "PumpFees.Revoke"        :> Ev("PumpFeesRevokeFeeSharingAuthority", <<FeesRevoke>>)
  @@ "PumpFees.Transfer"      :> Ev("PumpFeesTransferFeeSharingAuthority", <<FeesTransfer>>)
  @@ "PumpFees.UpdateAdmin"   :> Ev("PumpFeesUpdateAdmin", <<FeesUpdateAdmin>>)
  @@ "PumpFees.UpdateConfig"  :> Ev("PumpFeesUpdateFeeConfig", <<FeesUpdateConfig>>)
  @@ "PumpFees.UpdateShares"  :> Ev("PumpFeesUpdateFeeShares", <<FeesUpdateShares>>)
  @@ "PumpFees.UpsertTiers"   :> Ev("PumpFeesUpsertFeeTiers", <<FeesUpsertTiers>>)

PumpSwapEvents ==
     "PumpSwap.Buy"        :> Ev("PumpSwapBuy", <<PumpSwapBuyLegacy, PumpSwapBuy>>)
  @@ "PumpSwap.Sell"       :> Ev("PumpSwapSell", <<PumpSwapSell>>)
  @@ "PumpSwap.CreatePool" :> Ev("PumpSwapCreatePool", <<PumpSwapCreatePool>>)
  @@ "PumpSwap.Deposit"    :> Ev("PumpSwapLiquidityAdded", <<PumpSwapLiquidity>>)
  @@ "PumpSwap.Withdraw"   :> Ev("PumpSwapLiquidityRemoved", <<PumpSwapLiquidity>>)

PumpSwapUpgrades == "PumpSwap.SweepPoolFee" :> Ev("PumpSwapSweepPoolFee", <<PumpSwapSweepPoolFee>>)

LaunchlabEvents ==
     "TradeEvent"           :> Ev("RaydiumLaunchlabTrade", <<LaunchlabTrade>>)
  @@ "Launchlab.PoolCreate" :> Ev("RaydiumLaunchlabPoolCreate", <<LaunchlabPoolCreate>>)

ClmmEvents ==
     "SwapEvent"                   :> Ev("RaydiumClmmSwap", <<ClmmSwap>>)
  @@ "Clmm.IncreaseLiquidity"      :> Ev("RaydiumClmmIncreaseLiquidity", <<ClmmIncreaseLiquidity>>)
  @@ "Clmm.DecreaseLiquidity"      :> Ev("RaydiumClmmDecreaseLiquidity", <<ClmmDecreaseLiquidity>>)
  @@ "Clmm.LiquidityChange"        :> Ev("RaydiumClmmLiquidityChange", <<ClmmLiquidityChange>>)
  @@ "Clmm.ConfigChange"           :> Ev("RaydiumClmmConfigChange", <<ClmmConfigChange>>)
  @@ "Clmm.CreatePersonalPosition" :> Ev("RaydiumClmmCreatePersonalPosition", <<ClmmCreatePersonalPosition>>)
  @@ "Clmm.LiquidityCalculate"     :> Ev("RaydiumClmmLiquidityCalculate", <<ClmmLiquidityCalculate>>)
  @@ "Clmm.OpenLimitOrder"         :> Ev("RaydiumClmmOpenLimitOrder", <<ClmmOpenLimitOrder>>)
  @@ "Clmm.IncreaseLimitOrder"     :> Ev("RaydiumClmmIncreaseLimitOrder", <<ClmmIncreaseLimitOrder>>)
  @@ "Clmm.DecreaseLimitOrder"     :> Ev("RaydiumClmmDecreaseLimitOrder", <<ClmmDecreaseLimitOrder>>)
  @@ "Clmm.SettleLimitOrder"       :> Ev("RaydiumClmmSettleLimitOrder", <<ClmmSettleLimitOrder>>)
  @@ "Clmm.UpdateRewardInfos"      :> Ev("RaydiumClmmUpdateRewardInfos", <<ClmmUpdateRewardInfos>>)
  @@ "Clmm.CreatePool"             :> Ev("RaydiumClmmCreatePool", <<ClmmCreatePool>>)
  @@ "Clmm.CollectPersonalFee"     :> Ev("RaydiumClmmCollectFee", <<ClmmCollectPersonalFee>>)
  @@ "Clmm.CollectProtocolFee"     :> Ev("RaydiumClmmCollectFee", <<ClmmCollectProtocolFee>>)

CpmmEvents ==
     "SwapEvent"        :> Ev("RaydiumCpmmSwap", <<CpmmSwapEvent>>)
  @@ "SwapBaseIn"       :> Ev("RaydiumCpmmSwap", <<CpmmSwapBaseIn>>)
  @@ "Cpmm.SwapBaseOut" :> Ev("RaydiumCpmmSwap", <<CpmmSwapBaseOut>>)
  @@ "Cpmm.CreatePool"  :> Ev("RaydiumCpmmInitialize", <<CpmmCreatePool>>)
  @@ "Cpmm.Deposit"     :> Ev("RaydiumCpmmDeposit", <<CpmmDeposit>>)
  @@ "Cpmm.Withdraw"    :> Ev("RaydiumCpmmWithdraw", <<CpmmWithdraw>>)

AmmV4Events ==
     "AmmV4.SwapBaseIn"  :> Ev("RaydiumAmmV4Swap", <<AmmSwapBaseIn>>)
  @@ "AmmV4.SwapBaseOut" :> Ev("RaydiumAmmV4Swap", <<AmmSwapBaseOut>>)
  @@ "AmmV4.Deposit"     :> Ev("RaydiumAmmV4Deposit", <<AmmDeposit>>)
  @@ "AmmV4.Withdraw"    :> Ev("RaydiumAmmV4Withdraw", <<AmmWithdraw>>)
  @@ "AmmV4.Initialize2" :> Ev("RaydiumAmmV4Initialize2", <<AmmInitialize2>>)
  @@ "AmmV4.WithdrawPnl" :> Ev("RaydiumAmmV4WithdrawPnl", <<AmmWithdrawPnl>>)
RayLog == "AmmV4.RayLog" :> Ev("RaydiumAmmV4Swap", <<AmmRayLog>>)

OrcaEvents ==
     "Orca.Traded"             :> Ev("OrcaWhirlpoolSwap", <<OrcaTraded>>)
  @@ "Orca.LiquidityIncreased" :> Ev("OrcaWhirlpoolLiquidityIncreased", <<OrcaLiquidityIncreased>>)
  @@ "Orca.LiquidityDecreased" :> Ev("OrcaWhirlpoolLiquidityDecreased", <<OrcaLiquidityDecreased>>)
  @@ "Orca.PoolInitialized"    :> Ev("OrcaWhirlpoolPoolInitialized", <<OrcaPoolInitialized>>)

PoolsEvents ==
     "Swap"                :> Ev("MeteoraPoolsSwap", <<PoolsSwap>>)
  @@ "AddLiquidity"        :> Ev("MeteoraPoolsAddLiquidity", <<PoolsAddLiquidity>>)
  @@ "RemoveLiquidity"     :> Ev("MeteoraPoolsRemoveLiquidity", <<PoolsRemoveLiquidity>>)
  @@ "Pools.Bootstrap"     :> Ev("MeteoraPoolsBootstrapLiquidity", <<PoolsBootstrapLiquidity>>)
  @@ "Pools.PoolCreated"   :> Ev("MeteoraPoolsPoolCreated", <<PoolsPoolCreated>>)
  @@ "Pools.SetPoolFees"   :> Ev("MeteoraPoolsSetPoolFees", <<PoolsSetPoolFees>>)

DammV2Events ==
     "EvtSwap"                     :> Ev("MeteoraDammV2Swap", <<DammSwap>>)
  @@ "EvtSwap2"                    :> Ev("MeteoraDammV2Swap", <<DammSwap2>>)
  @@ "EvtInitializePool"           :> Ev("MeteoraDammV2InitializePool", <<DammInitializePool>>)
  @@ "DammV2.AddLiquidity"         :> Ev("MeteoraDammV2AddLiquidity", <<DammAddLiquidity>>)
  @@ "DammV2.RemoveLiquidity"      :> Ev("MeteoraDammV2RemoveLiquidity", <<DammRemoveLiquidity>>)
  @@ "DammV2.LiquidityChange"      :> Ev(None, <<DammLiquidityChange>>)
  @@ "DammV2.ClaimPositionFee"     :> Ev("MeteoraDammV2ClaimPositionFee", <<DammClaimPositionFee>>)
  @@ "DammV2.ClaimReward"          :> Ev("MeteoraDammV2ClaimReward", <<DammClaimReward>>)
  @@ "DammV2.CreatePosition"       :> Ev("MeteoraDammV2CreatePosition", <<DammCreatePosition>>)
  @@ "DammV2.ClosePosition"        :> Ev("MeteoraDammV2ClosePosition", <<DammClosePosition>>)
  @@ "DammV2.UpdateDelegate"       :> Ev("MeteoraDammV2UpdateDelegatePermission", <<DammUpdateDelegatePermission>>)
  @@ "DammV2.WithdrawDead"         :> Ev("MeteoraDammV2WithdrawDeadLiquidityReward", <<DammWithdrawDeadReward>>)
  @@ "DammV2.WithdrawIneligible"   :> Ev("MeteoraDammV2WithdrawIneligibleReward", <<DammWithdrawIneligibleReward>>)
  @@ "DammV2.UpdateRewardFunder"   :> Ev("MeteoraDammV2UpdateRewardFunder", <<DammUpdateRewardFunder>>)
  @@ "DammV2.UpdateRewardDuration" :> Ev("MeteoraDammV2UpdateRewardDuration", <<DammUpdateRewardDuration>>)
  @@ "DammV2.InitializeReward"     :> Ev("MeteoraDammV2InitializeReward", <<DammInitializeReward>>)
  @@ "DammV2.FundReward"           :> Ev("MeteoraDammV2FundReward", <<DammFundReward>>)
  @@ "DammV2.CreateConfig"         :> Ev("MeteoraDammV2CreateConfig", <<DammCreateConfig>>)
  @@ "DammV2.CreateDynamicConfig"  :> Ev("MeteoraDammV2CreateDynamicConfig", <<DammCreateDynamicConfig>>)

DbcEvents ==
     "EvtSwap"           :> Ev("MeteoraDbcSwap", <<DbcSwap>>)
  @@ "EvtSwap2"          :> Ev("MeteoraDbcSwap", <<DbcSwap2>>)
  @@ "Dbc.Swap2Hook"     :> Ev("MeteoraDbcSwap", <<DbcSwap2>>)
  @@ "EvtInitializePool" :> Ev("MeteoraDbcInitializePool", <<DbcInitializePool>>)
  @@ "Dbc.CurveComplete" :> Ev("MeteoraDbcCurveComplete", <<DbcCurveComplete>>)

\* The events whose discriminator the matcher has a type for, and the legacy ones it only decodes.
DlmmEvents ==
     "Swap"                    :> Ev("MeteoraDlmmSwap", <<DlmmSwap>>)
  @@ "AddLiquidity"            :> Ev("MeteoraDlmmAddLiquidity", <<DlmmLiquidity>>)
  @@ "RemoveLiquidity"         :> Ev("MeteoraDlmmRemoveLiquidity", <<DlmmLiquidity>>)
  @@ "Dlmm.Swap2"              :> Ev("MeteoraDlmmSwap", <<DlmmSwap2>>)
  @@ "Dlmm.InitializePool"     :> Ev("MeteoraDlmmInitializePool", <<DlmmInitPool>>)
  @@ "Dlmm.InitializeBinArray" :> Ev("MeteoraDlmmInitializeBinArray", <<DlmmInitBinArray>>)
  @@ "Dlmm.CreatePosition"     :> Ev("MeteoraDlmmCreatePosition", <<DlmmCreatePos>>)
  @@ "Dlmm.ClosePosition"      :> Ev("MeteoraDlmmClosePosition", <<DlmmClosePos>>)
  @@ "Dlmm.ClaimReward2"       :> Ev("MeteoraDlmmClaimReward", <<DlmmClaimReward2>>)
  @@ "Dlmm.ClaimFee"           :> Ev("MeteoraDlmmClaimFee", <<DlmmClaimFee>>)
  @@ "Dlmm.ClaimFee2"          :> Ev("MeteoraDlmmClaimFee", <<DlmmClaimFee2>>)
DlmmLegacyEvents ==
     "SwapBaseIn"               :> Ev("MeteoraDlmmSwap", <<DlmmSwap>>)
  @@ "Dlmm.LegacyAddLiquidity"  :> Ev("MeteoraDlmmAddLiquidity", <<DlmmLiquidity>>)
  @@ "Dlmm.LegacyRemove"        :> Ev("MeteoraDlmmRemoveLiquidity", <<DlmmLiquidity>>)
  @@ "Dlmm.LegacyInitialize"    :> Ev("MeteoraDlmmInitializePool", <<DlmmLegacyInitPool>>)
  @@ "Dlmm.LegacyCreatePos"     :> Ev("MeteoraDlmmCreatePosition", <<DlmmLegacyCreatePos>>)
  @@ "Dlmm.LegacyClosePos"      :> Ev("MeteoraDlmmClosePosition", <<DlmmLegacyClosePos>>)
  @@ "Dlmm.LegacyClaimFee"      :> Ev("MeteoraDlmmClaimFee", <<DlmmClaimFee>>)

\* What each program's log decoder knows.
Events ==
  [PumpFun  |-> PumpFunEvents @@ PumpFunUpgrades, PumpFees |-> PumpFeesEvents,
   PumpSwap |-> PumpSwapEvents @@ PumpSwapUpgrades, Launchlab |-> LaunchlabEvents,
   Clmm |-> ClmmEvents, Cpmm |-> CpmmEvents, AmmV4 |-> AmmV4Events @@ RayLog, Orca |-> OrcaEvents,
   Pools |-> PoolsEvents, DammV2 |-> DammV2Events, Dbc |-> DbcEvents,
   Dlmm |-> DlmmEvents @@ DlmmLegacyEvents]

Upgrades == DOMAIN PumpFunUpgrades \cup DOMAIN PumpSwapUpgrades

Nothing == [type |-> None, astray |-> FALSE, lost |-> {}]

\* The type an event is reported under: Pump trades by the name of the instruction they record,
\* liquidity changes by their change_type; an unknown change_type is no event.
ActualType(type, kind) ==
  CASE type = "PumpFunTrade" /\ kind \in {"buy", "buy_exact_quote_in"} -> "PumpFunBuy"
    [] type = "PumpFunTrade" /\ kind = "buy_exact_sol_in" -> "PumpFunBuyExactSolIn"
    [] type = "PumpFunTrade" /\ kind = "sell" -> "PumpFunSell"
    [] type = None /\ kind = "add" -> "MeteoraDammV2AddLiquidity"
    [] type = None /\ kind = "remove" -> "MeteoraDammV2RemoveLiquidity"
    [] OTHER -> type

\* The event of a payload of len bytes, k elements in its variable fields, under one table.
Decoded(events, d, kind, len, k) ==
  IF d \notin DOMAIN events THEN Nothing
  ELSE LET layouts == events[d].layouts
           hits    == {i \in DOMAIN layouts : Read(layouts[i], len, k).event}
       IN IF hits = {} THEN Nothing
          ELSE LET r == Read(layouts[Min(hits)], len, k)
               IN [type |-> ActualType(events[d].type, kind), astray |-> r.astray, lost |-> r.lost]

Only(f, ev) == IF ev.type # None /\ ShouldInclude(f, ev.type) THEN ev ELSE Nothing

-----------------------------------------------------------------------------
(* Log lines: parseLogOptimized. *)

\* Mutant: the list of DLMM types was not extended by the fee claims.
GateTypesBehind ==
  [FilterTypes EXCEPT !.Dlmm = @ \ {"MeteoraDlmmClaimReward", "MeteoraDlmmClaimFee"}]

\* filterIncludesProgram: the lists the matcher asks with lag behind those of grpc/types.ts.
GateTypes ==
  [FilterTypes EXCEPT
     !.PumpFun  = @ \ {"PumpFunPostCompleteBuy", "PumpFunSweepBondingCurveFee"},
     !.PumpSwap = @ \ {"PumpSwapSweepPoolFee"},
     !.DammV2   = @ \ {"MeteoraDammV2ClaimPositionFee", "MeteoraDammV2ClaimReward"},
     !.Dlmm     = @ \ {"MeteoraDlmmClaimReward"}]

IncludesProgram(f, p) == IncludesAny(f, GateTypes[p])
WantsSupportedLogs(f) == \E p \in Programs : IncludesProgram(f, p)
WantsPumpfunTrade(f) == \E t \in PUMPFUN_TRADE_FAMILY \cup {"PumpFunTrade"} : ShouldInclude(f, t)

\* programScopedDiscriminatorToEventType: the type the line of a known program is filtered by before
\* it is decoded; None when the matcher cannot tell.
ScopedType(p, d) ==
  IF d \in DOMAIN Events[p] /\ ~(p = "Dlmm" /\ d \in DOMAIN DlmmLegacyEvents) THEN Events[p][d].type ELSE None

\* discriminatorToEventType: the type the line of an unknown program is filtered by, the first match.
TypeOrder ==
  <<PumpFunEvents @@ PumpFunUpgrades, PumpFeesEvents, PumpSwapEvents @@ PumpSwapUpgrades, ClmmEvents,
    CpmmEvents, AmmV4Events, OrcaEvents, PoolsEvents, DammV2Events,
    [d \in {"Dlmm.ClaimReward2"} |-> DlmmEvents[d]]>>

\* The decoders such a line is tried with.  Those of the DBC and two of the CPMM are never reached.
DecoderOrder ==
  <<PumpFunEvents @@ PumpFunUpgrades, PumpFeesEvents, PumpSwapEvents @@ PumpSwapUpgrades, ClmmEvents,
    [d \in DOMAIN CpmmEvents \ {"SwapEvent", "Cpmm.CreatePool"} |-> CpmmEvents[d]],
    AmmV4Events, OrcaEvents, PoolsEvents, DammV2Events, LaunchlabEvents,
    DlmmEvents @@ DlmmLegacyEvents>>

FirstWith(tables, d) ==
  LET having == {i \in DOMAIN tables : d \in DOMAIN tables[i]}
  IN IF having = {} THEN <<>> ELSE tables[Min(having)]

UnscopedType(d) == LET t == FirstWith(TypeOrder, d) IN IF d \in DOMAIN t THEN t[d].type ELSE None

\* The filter's word before the payload is looked at.
AllowsUnscoped(f, d) ==
  IF d = "TradeEvent" THEN WantsPumpfunTrade(f) \/ ShouldInclude(f, "RaydiumLaunchlabTrade")
  ELSE IF d = "SwapBaseIn" THEN ShouldInclude(f, "RaydiumCpmmSwap") \/ ShouldInclude(f, "MeteoraDlmmSwap")
  ELSE IF UnscopedType(d) # None THEN ShouldInclude(f, UnscopedType(d))
  ELSE WantsSupportedLogs(f)

LogGate(f, p, d) ==
  IF p = None THEN AllowsUnscoped(f, d)
  ELSE IF p = "PumpFun" /\ d = "TradeEvent" THEN WantsPumpfunTrade(f)
  ELSE IF ScopedType(p, d) # None THEN ShouldInclude(f, ScopedType(p, d))
  ELSE IncludesProgram(f, p)

\* applyPumpfunSecondaryFilter: who lists a concrete trade or create type gets the trades listed.
SPECIFIC_TYPES == PUMPFUN_TRADE_FAMILY \cup PUMPFUN_CREATE_FAMILY
TradeMatches(types, t) == IF t \in PUMPFUN_BUY_FAMILY THEN Meets(types, PUMPFUN_BUY_FAMILY) ELSE t \in types
SecondaryFilter(f, ev) ==
  IF f.mode = "include" /\ Meets(f.types, SPECIFIC_TYPES) /\ ~TradeMatches(f.types, ev.type)
  THEN Nothing ELSE Only(f, ev)

\* parseUnscopedPumpfunLaunchlabTrade: the Pump decoder first, then LaunchLab's.
UnscopedTrade(f, kind, len, k) ==
  LET pump == IF WantsPumpfunTrade(f)
              THEN SecondaryFilter(f, Decoded(PumpFunEvents, "TradeEvent", kind, len, k)) ELSE Nothing
  IN IF pump.type # None THEN pump
     ELSE IF ShouldInclude(f, "RaydiumLaunchlabTrade")
     THEN Only(f, Decoded(LaunchlabEvents, "TradeEvent", kind, len, k))
     ELSE Nothing

\* A line whose program is p, None when the caller does not know it.
LogEvent(f, p, d, kind, len, k) ==
  IF ~LogGate(f, p, d) THEN Nothing
  ELSE IF p = "PumpFun" /\ d = "TradeEvent" THEN SecondaryFilter(f, Decoded(PumpFunEvents, d, kind, len, k))
  ELSE IF p # None THEN Only(f, Decoded(Events[p], d, kind, len, k))
  ELSE IF d = "TradeEvent" THEN UnscopedTrade(f, kind, len, k)
  ELSE IF d \in Upgrades \cup {"SwapBaseIn"} \cup DOMAIN DammV2Events \cup DOMAIN LaunchlabEvents
               \cup (DOMAIN Events.Dlmm \ DOMAIN PoolsEvents)
  THEN Only(f, Decoded(FirstWith(DecoderOrder, d), d, kind, len, k))
  ELSE Decoded(FirstWith(DecoderOrder, d), d, kind, len, k)

-----------------------------------------------------------------------------
(* Event CPIs: parseInnerInstructionUnified. *)

\* Where the event's discriminator stands in the sixteen bytes: behind Anchor's event tag ("prefix"),
\* or before the tag older programs end theirs with ("suffix").
CpiForms ==
  [p \in Programs |->
     CASE p \in {"PumpFun", "PumpFees", "Dlmm"} -> {"prefix", "suffix"}
       [] p \in {"PumpSwap", "DammV2", "Dbc"} -> {"prefix"}
       [] OTHER -> {"suffix"}]

DammCpiEvents ==
  [d \in DOMAIN DammV2Events \ {"EvtInitializePool"} |->
     CASE d = "EvtSwap" -> Ev("MeteoraDammV2Swap", <<DammSwapCpi>>)
       [] d = "DammV2.CreatePosition" -> Ev("MeteoraDammV2CreatePosition", <<DammPositionCpi>>)
       [] d = "DammV2.ClosePosition" -> Ev("MeteoraDammV2ClosePosition", <<DammPositionCpi>>)
       [] d = "DammV2.AddLiquidity" -> Ev("MeteoraDammV2AddLiquidity", <<DammAddLiquidityCpi>>)
       [] d = "DammV2.RemoveLiquidity" -> Ev("MeteoraDammV2RemoveLiquidity", <<DammRemoveLiquidityCpi>>)
       [] OTHER -> DammV2Events[d]]

CpiEvents ==
  [Events EXCEPT
     !.PumpFun  = [d \in DOMAIN PumpFunEvents \ {"PumpFun.MigrateCreator"} |-> PumpFunEvents[d]],
     !.PumpSwap = PumpSwapEvents,
     !.Cpmm     = [d \in DOMAIN CpmmEvents \ {"SwapEvent"} |-> CpmmEvents[d]],
     !.AmmV4    = AmmV4Events,
     !.DammV2   = DammCpiEvents]

\* filterDexEvent, which also renames.
FilterDexEvent(f, ev) == LET kept == Only(f, ev) IN [kept EXCEPT !.type = Normalized(f, @)]

CpiEvent(f, p, form, d, kind, len, k) ==
  IF d \in Upgrades THEN FilterDexEvent(f, Decoded(Events[p], d, kind, len, k))
  ELSE IF ~WantsProgram(f, p) \/ form \notin CpiForms[p] THEN Nothing
  ELSE FilterDexEvent(f, Decoded(CpiEvents[p], d, kind, len, k))
=============================================================================
