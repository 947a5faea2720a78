---------------------------- MODULE EventFilters ----------------------------
(***************************************************************************)
(* The event type filters of src/src/grpc/types.ts: which types a filter   *)
(* admits, which programs it is interested in, and how a Pump trade is     *)
(* renamed for a caller who asked for trades in general.                   *)
(*                                                                         *)
(* A filter is a record [mode, types].  Mode "all" is the absent filter,   *)
(* "include" eventTypeFilterIncludeOnly, "exclude" eventTypeFilterExclude. *)
(***************************************************************************)
EXTENDS Sequences

\* The event types of each program, by the list the program's gate is asked with.
PUMPFUN_BUY_FAMILY == {"PumpFunBuy", "PumpFunBuyExactSolIn"}
PUMPFUN_TRADE_FAMILY == PUMPFUN_BUY_FAMILY \cup {"PumpFunSell"}
PUMPFUN_CREATE_FAMILY == {"PumpFunCreate", "PumpFunCreateV2"}
PUMPSWAP_TRADE_FAMILY == {"PumpSwapBuy", "PumpSwapSell"}

PUMPFUN_FILTER_TYPES ==
  {"PumpFunTrade", "PumpFunComplete", "PumpFunMigrate", "PumpFunPostCompleteBuy",
   "PumpFunSweepBondingCurveFee", "PumpFunMigrateBondingCurveCreator"}
    \cup PUMPFUN_TRADE_FAMILY \cup PUMPFUN_CREATE_FAMILY

PUMP_FEES_EVENT_TYPES ==
  {"PumpFeesCreateFeeSharingConfig", "PumpFeesInitializeFeeConfig", "PumpFeesResetFeeSharingConfig",
   "PumpFeesRevokeFeeSharingAuthority", "PumpFeesTransferFeeSharingAuthority", "PumpFeesUpdateAdmin",
   "PumpFeesUpdateFeeConfig", "PumpFeesUpdateFeeShares", "PumpFeesUpsertFeeTiers"}

PUMPSWAP_FILTER_TYPES ==
  {"PumpSwapSweepPoolFee", "PumpSwapTrade", "PumpSwapCreatePool", "PumpSwapLiquidityAdded",
   "PumpSwapLiquidityRemoved"} \cup PUMPSWAP_TRADE_FAMILY

METEORA_DAMM_V2_FILTER_TYPES ==
  {"MeteoraDammV2Swap", "MeteoraDammV2AddLiquidity", "MeteoraDammV2RemoveLiquidity",
   "MeteoraDammV2CreatePosition", "MeteoraDammV2ClaimPositionFee", "MeteoraDammV2ClaimReward",
   "MeteoraDammV2InitializePool", "MeteoraDammV2ClosePosition", "MeteoraDammV2UpdateDelegatePermission",
   "MeteoraDammV2WithdrawDeadLiquidityReward", "MeteoraDammV2WithdrawIneligibleReward",
   "MeteoraDammV2UpdateRewardFunder", "MeteoraDammV2UpdateRewardDuration",
   "MeteoraDammV2InitializeReward", "MeteoraDammV2FundReward", "MeteoraDammV2CreateConfig",
   "MeteoraDammV2CreateDynamicConfig"}

METEORA_DBC_FILTER_TYPES == {"MeteoraDbcSwap", "MeteoraDbcInitializePool", "MeteoraDbcCurveComplete"}

METEORA_POOLS_FILTER_TYPES ==
  {"MeteoraPoolsSwap", "MeteoraPoolsAddLiquidity", "MeteoraPoolsRemoveLiquidity",
   "MeteoraPoolsBootstrapLiquidity", "MeteoraPoolsPoolCreated", "MeteoraPoolsSetPoolFees"}

METEORA_DLMM_FILTER_TYPES ==
  {"MeteoraDlmmSwap", "MeteoraDlmmAddLiquidity", "MeteoraDlmmRemoveLiquidity", "MeteoraDlmmInitializePool",
   "MeteoraDlmmInitializeBinArray", "MeteoraDlmmCreatePosition", "MeteoraDlmmClosePosition",
   "MeteoraDlmmClaimFee", "MeteoraDlmmClaimReward"}

RAYDIUM_CLMM_FILTER_TYPES ==
  {"RaydiumClmmSwap", "RaydiumClmmIncreaseLiquidity", "RaydiumClmmDecreaseLiquidity",
   "RaydiumClmmLiquidityChange", "RaydiumClmmConfigChange", "RaydiumClmmCreatePersonalPosition",
   "RaydiumClmmLiquidityCalculate", "RaydiumClmmOpenLimitOrder", "RaydiumClmmIncreaseLimitOrder",
   "RaydiumClmmDecreaseLimitOrder", "RaydiumClmmSettleLimitOrder", "RaydiumClmmUpdateRewardInfos",
   "RaydiumClmmCreatePool", "RaydiumClmmOpenPosition", "RaydiumClmmOpenPositionWithTokenExtNft",
   "RaydiumClmmClosePosition", "RaydiumClmmCollectFee"}

RAYDIUM_CPMM_FILTER_TYPES ==
  {"RaydiumCpmmSwap", "RaydiumCpmmDeposit", "RaydiumCpmmWithdraw", "RaydiumCpmmInitialize"}
RAYDIUM_AMM_V4_FILTER_TYPES ==
  {"RaydiumAmmV4Swap", "RaydiumAmmV4Deposit", "RaydiumAmmV4Withdraw", "RaydiumAmmV4WithdrawPnl",
   "RaydiumAmmV4Initialize2"}
ORCA_WHIRLPOOL_FILTER_TYPES ==
  {"OrcaWhirlpoolSwap", "OrcaWhirlpoolLiquidityIncreased", "OrcaWhirlpoolLiquidityDecreased",
   "OrcaWhirlpoolPoolInitialized"}
RAYDIUM_LAUNCHLAB_FILTER_TYPES ==
  {"RaydiumLaunchlabTrade", "RaydiumLaunchlabPoolCreate", "RaydiumLaunchlabMigrateAmm"}

\* The list eventTypeFilterIncludesX passes for each program X.
FilterTypes ==
  [PumpFun  |-> PUMPFUN_FILTER_TYPES,         PumpFees  |-> PUMP_FEES_EVENT_TYPES,
   PumpSwap |-> PUMPSWAP_FILTER_TYPES,        Launchlab |-> RAYDIUM_LAUNCHLAB_FILTER_TYPES,
   Clmm     |-> RAYDIUM_CLMM_FILTER_TYPES,    Cpmm      |-> RAYDIUM_CPMM_FILTER_TYPES,
   AmmV4    |-> RAYDIUM_AMM_V4_FILTER_TYPES,  Orca      |-> ORCA_WHIRLPOOL_FILTER_TYPES,
   Pools    |-> METEORA_POOLS_FILTER_TYPES,   DammV2    |-> METEORA_DAMM_V2_FILTER_TYPES,
   Dlmm     |-> METEORA_DLMM_FILTER_TYPES,    Dbc       |-> METEORA_DBC_FILTER_TYPES]

Programs == DOMAIN FilterTypes

INSTRUCTION_EVENT_TYPES == UNION {FilterTypes[p] : p \in Programs}

-----------------------------------------------------------------------------
Meets(a, b) == a \cap b # {}

\* shouldInclude of eventTypeFilterIncludeOnly: a listed type, and the types a family name or a
\* sibling stands for.
IncludesOnly(types, t) ==
  \/ t \in types
  \/ t = "PumpFunTrade" /\ Meets(types, PUMPFUN_TRADE_FAMILY)
  \/ t \in PUMPFUN_TRADE_FAMILY /\ "PumpFunTrade" \in types
  \/ t \in PUMPFUN_BUY_FAMILY /\ Meets(types, PUMPFUN_BUY_FAMILY)
  \/ t \in PUMPFUN_CREATE_FAMILY /\ Meets(types, PUMPFUN_CREATE_FAMILY)
  \/ t \in PUMPSWAP_TRADE_FAMILY /\ "PumpSwapTrade" \in types

\* shouldInclude of eventTypeFilterExclude: everything but a listed type and what it stands for.
Excludes(types, t) ==
  \/ t \in types
  \/ t \in PUMPFUN_TRADE_FAMILY /\ "PumpFunTrade" \in types
  \/ t \in PUMPFUN_BUY_FAMILY /\ Meets(types, PUMPFUN_BUY_FAMILY)
  \/ t \in PUMPFUN_CREATE_FAMILY /\ Meets(types, PUMPFUN_CREATE_FAMILY)
  \/ t \in PUMPSWAP_TRADE_FAMILY /\ "PumpSwapTrade" \in types

ShouldInclude(f, t) ==
  CASE f.mode = "include" -> IncludesOnly(f.types, t)
    [] f.mode = "exclude" -> ~Excludes(f.types, t)
    [] OTHER -> TRUE

\* eventTypeFilterIncludesAny: an include list must share a type with the list asked about, family
\* names standing for themselves only; any other filter must admit one of its types.
IncludesAny(f, types) ==
  IF f.mode = "include" THEN Meets(f.types, types) ELSE \E t \in types : ShouldInclude(f, t)

\* The gate before a program's instructions are decoded.
WantsProgram(f, p) == IncludesAny(f, FilterTypes[p])

\* The gate before any instruction is decoded.
AllowsInstructionParsing(f) == f.mode = "include" => Meets(f.types, INSTRUCTION_EVENT_TYPES)

\* eventTypeFilterNormalizeDexEvent: who asked for PumpFunTrade and for no concrete trade type gets
\* every Pump trade under that name.
Normalized(f, t) ==
  IF /\ f.mode = "include"
     /\ "PumpFunTrade" \in f.types
     /\ ~Meets(f.types, PUMPFUN_TRADE_FAMILY)
     /\ t \in PUMPFUN_TRADE_FAMILY
  THEN "PumpFunTrade" ELSE t
=============================================================================
