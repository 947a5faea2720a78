---------------------------- MODULE EventLayouts ----------------------------
(***************************************************************************)
(* The byte layouts src/src/logs/*.ts decodes event payloads by: for every *)
(* decoder the length guards it starts with and the fields it reads, in    *)
(* order, with what it does about one the payload is too short for.        *)
(*                                                                         *)
(* A field is w bytes, then "each" bytes per element of variable content   *)
(* (text, lists, options).  need says what a missing field means:          *)
(*   must  the decoder gives no event                                      *)
(*   zero  a default value; the offset moves on over the missing bytes     *)
(*   null  the reader's null goes into the event; the offset moves on      *)
(*   stay  a default value; the offset stays where it was                  *)
(*   tail  a list without its count is empty, one cut short is no event    *)
(*   skip  no field: the decoder moves on without looking                  *)
(*   rest  no field: a guard on the number of bytes left                   *)
(***************************************************************************)
EXTENDS Integers, Sequences

KEY == 32
MAX_SHAREHOLDERS == 64
Unlimited == 100000

Variable(w, each, most, need) == [w |-> w, each |-> each, most |-> most, need |-> need, fits |-> {}]
Field(w, need) == Variable(w, 0, 0, need)
Fields(ws, need) == [i \in DOMAIN ws |-> Field(ws[i], need)]
Must(ws) == Fields(ws, "must")
Zero(ws) == Fields(ws, "zero")
Null(ws) == Fields(ws, "null")
Stay(ws) == Fields(ws, "stay")
Past(ws) == Fields(ws, "skip")
Rep(w, n) == [i \in 1..n |-> w]

\* A u32 length and that many bytes; a u32 count and that many elements of w bytes, MAX_SHAREHOLDERS
\* at most; a tag byte and, when it is 1, w bytes.
Text(need) == <<Variable(4, 1, Unlimited, need)>>
List(w, need) == <<Variable(4, w, MAX_SHAREHOLDERS, need)>>
Option(w) == <<Variable(1, w, 1, "must")>>

AtLeast(n) == {<<n, Unlimited>>}
Exactly(n) == {<<n, n>>}
Rest(fits) == <<[Field(0, "rest") EXCEPT !.fits = fits]>>

-----------------------------------------------------------------------------
Size(f, k) == f.w + f.each * (IF f.most = 1 /\ k > 1 THEN 1 ELSE k)
TooMany(f, k) == f.most = MAX_SHAREHOLDERS /\ k > f.most

\* One field, read from a payload of len bytes whose variable contents have k elements.  at is the
\* decoder's offset and own where the field really is.
ReadField(acc, f, len, k) ==
  LET size  == Size(f, k)
      whole == acc.at + size <= len
      own   == [acc EXCEPT !.own = @ + size]
      taken == [own EXCEPT !.at = @ + size, !.astray = @ \/ acc.at # acc.own]
      gone  == [own EXCEPT !.lost = @ \cup {f.w}]
      none  == [acc EXCEPT !.event = FALSE]
  IN IF ~acc.event THEN acc
     ELSE IF f.need = "rest" THEN (IF \E b \in f.fits : len - acc.at \in b[1]..b[2] THEN acc ELSE none)
     ELSE IF f.need = "skip" THEN [own EXCEPT !.at = @ + size]
     ELSE IF f.need = "tail" /\ acc.at + f.w > len THEN gone
     ELSE IF f.need = "stay" /\ ~whole THEN gone
     ELSE IF f.need \in {"zero", "null"} /\ ~whole THEN [gone EXCEPT !.at = @ + size]
     ELSE IF ~whole \/ TooMany(f, k) THEN none
     ELSE taken

\* What a decoder makes of such a payload: whether it gives an event, the widths of the fields whose
\* bytes were not there, and whether it read one where another field's bytes are.
Read(layout, len, k) ==
  LET after[i \in 0 .. Len(layout)] ==
        IF i = 0 THEN [at |-> 0, own |-> 0, event |-> TRUE, lost |-> {}, astray |-> FALSE]
        ELSE ReadField(after[i - 1], layout[i], len, k)
  IN  after[Len(layout)]

\* The offset its first i fields end at.
EndOf(layout, k, i) ==
  LET end[n \in 0 .. Len(layout)] == IF n = 0 THEN 0 ELSE end[n - 1] + Size(layout[n], k)
  IN  end[i]

\* The offsets its fields end at.
Ends(layout, k) == {EndOf(layout, k, i) : i \in 0 .. Len(layout)}

\* The length of a payload whose fields are all there.
Full(layout, k) == EndOf(layout, k, Len(layout))

-----------------------------------------------------------------------------
(* logs/pump.ts *)

PumpTrade ==
  Rest(AtLeast(217)) \o Must(<<KEY, 8, 8, 1, KEY>>) \o Must(Rep(8, 5)) \o Must(<<KEY, 8, 8, KEY, 8, 8>>)
    \o Zero(<<1>>) \o Zero(Rep(8, 4)) \o Text("stay") \o Zero(<<1, 8, 8>>)
    \o Stay(<<8, 8>>) \o List(34, "tail") \o Stay(<<KEY>>) \o Stay(Rep(8, 6))

CreateHead == Text("must") \o Text("must") \o Text("must")
PumpCreateLegacy == CreateHead \o Rest(Exactly(96)) \o Must(Rep(KEY, 3))
PumpCreate ==
  CreateHead \o Rest(AtLeast(201)) \o Must(Rep(KEY, 4)) \o Must(Rep(8, 5)) \o Must(<<KEY, 1>>)
    \o Zero(<<1, KEY, 8, 8, 1, 1>>)

PumpMigrate == Rest(AtLeast(160)) \o Must(<<KEY, KEY, 8, 8, 8, KEY, 8, KEY>>)
PumpMigrateCreator == Rest(AtLeast(168)) \o Must(<<8>>) \o Must(Rep(KEY, 5))

(* logs/pump_upgrade.ts *)

PumpPostCompleteBuy == Rest(Exactly(224)) \o Must(Rep(KEY, 4)) \o Must(Rep(8, 12))
PumpSweepBondingCurveFee == Rest(Exactly(145)) \o Must(<<8, KEY, KEY, KEY, KEY, 8, 1>>)
PumpComplete == Rest(Exactly(104) \cup Exactly(136)) \o Must(<<KEY, KEY, KEY, 8>>) \o Stay(<<KEY>>)
PumpSwapSweepPoolFee == Rest(Exactly(177)) \o Must(<<8>>) \o Must(Rep(KEY, 5)) \o Must(<<8, 1>>)

(* logs/pump_amm.ts *)

\* Mutant: the tail is read field by field, whatever its length.
PumpSwapTailAnyLength == Stay(<<8, 8, 8, 8, 16, 1, 8, 8, 8, 8>>)

\* parseTradeTail: the fields later program versions added, all of a version's or none.
PumpSwapTail ==
  Rest(Exactly(0) \cup Exactly(16) \cup Exactly(32) \cup Exactly(57) \cup Exactly(73) \cup AtLeast(81))
    \o Stay(<<8, 8, 8, 8, 16, 1, 8, 8, 8, 8>>)

BuyHead == Must(Rep(8, 14)) \o Must(Rep(KEY, 7)) \o Must(<<8, 8, 1, 8, 8, 8, 8>>)
PumpSwapBuyLegacy == Rest(Exactly(385)) \o BuyHead
PumpSwapBuy == Rest(AtLeast(397)) \o BuyHead \o Must(<<8>>) \o Text("must") \o PumpSwapTail
PumpSwapSell == Rest(AtLeast(352)) \o Must(Rep(8, 14)) \o Must(Rep(KEY, 7)) \o Must(<<8, 8>>) \o PumpSwapTail

PumpSwapCreatePool ==
  Rest(Exactly(326) \cup AtLeast(335)) \o Must(<<8, 2, KEY, KEY, KEY, 1, 1>>) \o Must(Rep(8, 7))
    \o Must(<<1>>) \o Must(Rep(KEY, 5)) \o Must(<<1>>) \o Stay(<<8, 1, 1>>)

PumpSwapLiquidity == Rest(AtLeast(248)) \o Must(Rep(8, 11)) \o Must(Rep(KEY, 5))

(* logs/pump_fees.ts: whatever is left after the last field is no event either. *)

FeesCreateSharing ==
  Must(<<8, KEY, KEY>>) \o Option(KEY) \o Must(<<KEY, KEY>>) \o List(34, "must") \o Must(<<1>>) \o Rest(Exactly(0))
FeesInitialize == Rest(Exactly(72)) \o Must(<<8, KEY, KEY>>)
FeesReset ==
  Must(<<8, KEY, KEY, KEY>>) \o List(34, "must") \o Must(<<KEY>>) \o List(34, "must") \o Rest(Exactly(0))
FeesRevoke == Rest(Exactly(104)) \o Must(<<8, KEY, KEY, KEY>>)
FeesTransfer == Rest(Exactly(136)) \o Must(<<8, KEY, KEY, KEY, KEY>>)
FeesUpdateAdmin == Rest(Exactly(72)) \o Must(<<8, KEY, KEY>>)
FeesUpdateConfig == Must(<<8, KEY, KEY>>) \o List(40, "must") \o Must(<<24>>) \o Rest(Exactly(0))
FeesUpdateShares == Must(<<8, KEY, KEY, KEY>>) \o List(34, "must") \o Rest(Exactly(0))
FeesUpsertTiers == Must(<<8, KEY, KEY>>) \o List(40, "must") \o Must(<<1>>) \o Rest(Exactly(0))

(* logs/raydium_launchlab.ts: the trade reads 88..103 and 136..138, and the u64s between, of 139 bytes. *)

\* Mutant: a longer payload will do.
LaunchlabTradeOrLonger == Rest(AtLeast(139)) \o Must(<<KEY>>) \o Must(Rep(8, 13)) \o Must(<<1, 1, 1>>)

LaunchlabTrade == Rest(Exactly(139)) \o Must(<<KEY>>) \o Must(Rep(8, 13)) \o Must(<<1, 1, 1>>)
LaunchlabPoolCreate ==
  Rest(AtLeast(97)) \o Must(<<KEY, KEY, KEY, 1>>) \o Text("must") \o Text("must") \o Text("must")

(* logs/raydium_clmm.ts: a zero field before a must is as good as a must. *)

ClmmSwap == Must(<<KEY, KEY, KEY, KEY, 8, 8, 8, 8, 1, 16, 16, 4>>)
ClmmIncreaseLiquidity == Must(<<KEY, 16, 8, 8, 8, 8>>)
ClmmDecreaseLiquidity == Must(<<KEY, 16>>) \o Must(Rep(8, 9))
ClmmCreatePool == Must(<<KEY, KEY, 2, KEY, 16, 4, KEY, KEY>>)
ClmmCollectPersonalFee == Must(<<KEY, KEY, KEY>>) \o Zero(<<8, 8>>)
ClmmCollectProtocolFee == Must(<<KEY, KEY, KEY>>) \o Zero(<<8, 8>>)
ClmmLiquidityChange == Must(<<KEY, 4, 4, 4, 16, 16>>)
ClmmConfigChange == Must(<<2, KEY, 4, 4, 2, 4, KEY>>)
ClmmCreatePersonalPosition == Must(<<KEY, KEY, KEY, 4, 4, 16>>) \o Zero(<<8, 8, 8>>) \o Must(<<8>>)
ClmmLiquidityCalculate == Must(<<16, 16, 4>>) \o Zero(Rep(8, 5)) \o Must(<<8>>)
OrderHead == Must(<<KEY, KEY, 1, 4>>)
ClmmOpenLimitOrder == OrderHead \o Zero(<<8>>) \o Must(<<8>>)
ClmmIncreaseLimitOrder == OrderHead \o Zero(<<8, 8>>) \o Must(<<8>>)
ClmmDecreaseLimitOrder == OrderHead \o Zero(<<8, 8, 8>>) \o Must(<<8>>)
ClmmSettleLimitOrder == OrderHead \o Zero(<<8, 8>>) \o Must(<<8>>)
ClmmUpdateRewardInfos == Must(<<16, 16, 16>>)

(* logs/raydium_cpmm.ts *)

CpmmSwapEvent ==
  Rest(Exactly(81) \cup AtLeast(162)) \o Must(<<KEY>>) \o Must(Rep(8, 6)) \o Must(<<1>>)
    \o Stay(<<KEY, KEY, 8, 8, 1>>)
CpmmSwapBaseIn == Null(<<KEY>>) \o Past(<<KEY>>) \o Zero(<<8>>) \o Past(<<8>>) \o Zero(<<8>>) \o Null(<<1>>)
CpmmSwapBaseOut == Null(<<KEY>>) \o Past(<<KEY, 8>>) \o Zero(<<8, 8>>) \o Null(<<1>>)
CpmmCreatePool == Null(<<KEY>>) \o Past(<<KEY, KEY>>) \o Null(<<KEY>>) \o Zero(<<8, 8>>)
CpmmDeposit == Null(<<KEY, KEY>>) \o Zero(<<8, 8, 8>>)
CpmmWithdraw == Null(<<KEY, KEY>>) \o Zero(<<8, 8, 8>>)

(* logs/raydium_amm.ts *)

AmmRayLog == Rest(Exactly(57)) \o Must(<<1>>) \o Must(Rep(8, 7))
AmmSwapBaseIn == Must(<<KEY, KEY>>) \o Zero(<<8, 8>>)
AmmSwapBaseOut == Must(<<KEY, KEY>>) \o Zero(<<8, 8>>)
AmmDeposit == Null(<<KEY, KEY>>) \o Zero(<<8, 8, 8>>)
AmmWithdraw == Null(<<KEY, KEY>>) \o Zero(<<8>>)
AmmWithdrawPnl == Must(<<KEY, KEY>>)
AmmInitialize2 == Must(<<KEY, KEY>>) \o Null(<<1>>) \o Zero(<<8, 8, 8>>)

(* logs/orca.ts *)

OrcaTraded == Null(<<KEY, 1, 16, 16>>) \o Zero(Rep(8, 6))
OrcaLiquidityIncreased == Null(<<KEY, KEY, 4, 4, 16>>) \o Zero(Rep(8, 4))
OrcaLiquidityDecreased == Null(<<KEY, KEY, 4, 4, 16>>) \o Zero(Rep(8, 4))
OrcaPoolInitialized == Null(<<KEY, KEY, KEY, KEY, 2, KEY, KEY, 1, 1, 16>>)

(* logs/meteora_amm.ts *)

PoolsSwap == Zero(Rep(8, 5))
PoolsAddLiquidity == Zero(<<8, 8, 8>>)
PoolsRemoveLiquidity == Zero(<<8, 8, 8>>)
PoolsBootstrapLiquidity == Zero(<<8, 8, 8>>) \o Null(<<KEY>>)
PoolsSetPoolFees == Rest(AtLeast(64)) \o Must(<<8, 8, 8, 8, KEY>>)
PoolsPoolCreated == Null(<<KEY, KEY, KEY, 1, KEY>>)

(* logs/meteora_dbc.ts *)

DbcSwap == Must(<<KEY, KEY, 1, 1, 8, 8, 8, 8, 16, 8, 8, 8>>) \o Zero(<<8>>) \o Must(<<8>>)
DbcSwap2 ==
  Rest(AtLeast(179)) \o Must(<<KEY, KEY, 1, 1, 8, 8, 1, 8, 8, 8, 8, 16>>) \o Must(Rep(8, 6))
DbcInitializePool == Must(<<KEY, KEY, KEY, KEY, 1, 8>>)
DbcCurveComplete == Must(<<KEY, KEY, 8, 8>>)

(* logs/meteora_damm.ts *)

DammSwap ==
  Must(<<KEY>>) \o Past(<<KEY>>) \o Must(<<1, 1>>) \o Zero(Rep(8, 4)) \o Must(<<16>>) \o Zero(<<8, 8, 8>>)
    \o Past(<<8>>) \o Zero(<<8>>)
DammSwap2 ==
  Must(<<KEY, 1, 1, 1>>) \o Zero(<<8, 8>>) \o Must(<<1>>) \o Zero(Rep(8, 4)) \o Must(<<16>>)
    \o Zero(Rep(8, 10))
DammCreatePosition == Rest(AtLeast(128)) \o Must(Rep(KEY, 4))
DammClosePosition == Rest(AtLeast(128)) \o Must(Rep(KEY, 4))
DammAddLiquidity == Rest(AtLeast(160)) \o Must(<<KEY, KEY, KEY, 16>>) \o Must(Rep(8, 6))
DammRemoveLiquidity == Rest(AtLeast(144)) \o Must(<<KEY, KEY, KEY, 16>>) \o Must(Rep(8, 4))
DammLiquidityChange ==
  Rest(AtLeast(177)) \o Must(<<KEY, KEY, KEY>>) \o Must(Rep(8, 6)) \o Must(<<16, 8, 8, 1>>)
DammPoolFees == Rest(AtLeast(31)) \o Must(<<27, 2, 1>>) \o Option(32)
DammInitializePool ==
  Rest(AtLeast(332)) \o Must(Rep(KEY, 6)) \o DammPoolFees \o Rest(AtLeast(109))
    \o Must(<<16, 16, 1, 1, 16, 16, 8, 1, 1, 8, 8, 8, 8, 1>>)
DammClaimPositionFee == Rest(AtLeast(112)) \o Must(<<KEY, KEY, KEY, 8, 8>>)
DammClaimReward == Rest(AtLeast(137)) \o Must(<<KEY, KEY, KEY, KEY, 1, 8>>)
DammUpdateDelegatePermission == Must(<<KEY, KEY, 4>>) \o Option(KEY)
DammWithdrawDeadReward == Must(<<KEY, KEY, 8>>)
DammWithdrawIneligibleReward == Must(<<KEY, KEY, 8>>)
DammUpdateRewardFunder == Rest(AtLeast(97)) \o Must(<<KEY, 1, KEY, KEY>>)
DammUpdateRewardDuration == Rest(AtLeast(49)) \o Must(<<KEY, 1, 8, 8>>)
DammInitializeReward == Rest(AtLeast(137)) \o Must(<<KEY, KEY, KEY, KEY, 1, 8>>)
DammFundReward == Rest(AtLeast(153)) \o Must(<<KEY, KEY, KEY, 1, 8, 8, 8, 16, 16>>)
DynamicFeeParameters == 32
DammCreateConfig ==
  Rest(AtLeast(27)) \o Must(<<27, 2, 1>>) \o Option(DynamicFeeParameters)
    \o Must(<<KEY, KEY, 1, 16, 16, 1, 8, KEY, 16>>)
DammCreateDynamicConfig == Must(<<KEY, KEY, 8, 16>>)

(* logs/meteora_dlmm.ts *)

DlmmSwap == Rest(AtLeast(129)) \o Must(<<KEY, KEY, 4, 4, 8, 8, 1, 8, 8, 16, 8>>)
DlmmSwap2 == Rest(AtLeast(147)) \o Must(<<KEY, KEY, 4, 4, 1, 16>>) \o Must(Rep(8, 7)) \o Must(<<1, 1>>)
DlmmLiquidity == Rest(AtLeast(116)) \o Must(<<KEY, KEY, KEY, 8, 8, 4>>)
DlmmInitPool == Rest(AtLeast(98)) \o Must(<<KEY, 2>>) \o Past(<<KEY, KEY>>)
DlmmLegacyInitPool == Rest(AtLeast(70)) \o Must(<<KEY, KEY, 4, 2>>)
DlmmInitBinArray == Rest(AtLeast(72)) \o Must(<<KEY, KEY, 8>>)
DlmmCreatePos == Rest(AtLeast(96)) \o Must(<<KEY, KEY, KEY>>)
DlmmLegacyCreatePos == Rest(AtLeast(104)) \o Must(<<KEY, KEY, KEY, 4, 4>>)
DlmmClosePos == Rest(AtLeast(64)) \o Must(<<KEY, KEY>>)
DlmmLegacyClosePos == Rest(AtLeast(96)) \o Must(<<KEY, KEY, KEY>>)
DlmmClaimReward2 == Rest(AtLeast(116)) \o Must(<<KEY, KEY, KEY, 8, 8, 4>>)
DlmmClaimFee == Rest(AtLeast(112)) \o Must(<<KEY, KEY, KEY, 8, 8>>)
DlmmClaimFee2 == Rest(AtLeast(116)) \o Must(<<KEY, KEY, KEY, 8, 8>>) \o Past(<<4>>)

(* instr/meteora_damm_ix.ts: the event CPI decoders of DAMM v2, which differ from the log's. *)

DammSwapCpi == Must(<<KEY, 1, 1, 8, 8, 8, 16>>) \o Must(Rep(8, 6))
DammPositionCpi == Must(Rep(KEY, 4))
DammAddLiquidityCpi == Must(<<KEY, KEY, KEY, 16>>) \o Must(Rep(8, 6))
DammRemoveLiquidityCpi == Must(<<KEY, KEY, KEY, 16>>) \o Must(Rep(8, 4))
=============================================================================
