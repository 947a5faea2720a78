--------------------------- MODULE AccountDecoders ---------------------------
(***************************************************************************)
(* Account updates: src/src/accounts/*.ts and                              *)
(* src/src/liquidity_snapshot.ts.  An account is known by its owner and by *)
(* the eight bytes its data starts with; the layouts describe the data     *)
(* behind them, in the terms of EventLayouts.                              *)
(***************************************************************************)
EXTENDS EventFilters, EventLayouts, Tables

KEYS(n) == n * KEY

Stored(type, layout) == [type |-> type, layout |-> layout]

\* bodyAfterDiscriminator: a decoder that asks for a number of bytes before it reads anything.
Sized(type, body, ws) == Stored(type, Rest(AtLeast(body)) \o Must(ws))

-----------------------------------------------------------------------------
(* accounts/pumpfun.ts, for the accounts of the pump program and of its fee program *)

PumpGlobal ==
  Rest(AtLeast(1037)) \o Must(<<1, KEY, KEY>>) \o Must(Rep(8, 5)) \o Must(<<KEY, 1, 8, 8, KEYS(7), KEY, KEY>>)
    \o Must(<<1, KEY, KEY, 1, KEYS(7), 1, KEYS(8), 8, 8, KEY>>) \o Zero(<<1, 8, KEY, 1, 1>>)

PumpBondingCurve ==
  Rest(Exactly(107) \cup Exactly(116) \cup AtLeast(117)) \o Must(Rep(8, 5)) \o Must(<<1, KEY, 1, 1, KEY>>)
    \o Zero(<<8, 1, 1, 8, 8, 1, 8, 8, 8>>)

\* Two lists of fee tiers, and one more set of fees in the newer accounts.
PumpFeeConfig ==
  Must(<<1, KEY, 8, 8, 8>>) \o List(40, "must") \o List(40, "must")
    \o Rest(Exactly(0) \cup AtLeast(24)) \o Stay(<<8, 8, 8>>)

PumpSharingConfig == Must(<<1, 1, 1, KEY, KEY, 1>>) \o List(34, "must")
PumpGlobalVolume == Must(<<8, 8, 8, KEY, 30 * 8, 30 * 8>>)
PumpUserVolume == Must(<<KEY, 1>>) \o Must(Rep(8, 4)) \o Must(<<1, 8, 8, 8, 8>>)

PumpAccounts ==
     "Pump.Global"        :> Stored("AccountPumpFunGlobal", PumpGlobal)
  @@ "Pump.BondingCurve"  :> Stored("AccountPumpFunBondingCurve", PumpBondingCurve)
  @@ "Pump.FeeConfig"     :> Stored("AccountPumpFunFeeConfig", PumpFeeConfig)
  @@ "Pump.SharingConfig" :> Stored("AccountPumpFunSharingConfig", PumpSharingConfig)
  @@ "Pump.GlobalVolume"  :> Stored("AccountPumpFunGlobalVolumeAccumulator", PumpGlobalVolume)
  @@ "Pump.UserVolume"    :> Stored("AccountPumpFunUserVolumeAccumulator", PumpUserVolume)

(* accounts/pumpswap.ts *)

PumpSwapGlobalConfig ==
  Rest(AtLeast(634)) \o Must(<<KEY, 8, 8, 1, KEYS(8), 8, KEY, KEY, KEY, 1, KEYS(7)>>)

PumpSwapPool ==
  Rest(Exactly(244) \cup Exactly(253) \cup Exactly(262) \cup AtLeast(263)) \o Must(<<1, 2>>) \o Must(Rep(KEY, 6)) \o Must(<<8, KEY, 1, 1>>)
    \o Zero(<<16, 8, 1, 1, 8, 8>>)

PumpSwapAccounts ==
     "GlobalConfig"  :> Stored("AccountPumpSwapGlobalConfig", PumpSwapGlobalConfig)
  @@ "PumpSwap.Pool" :> Stored("AccountPumpSwapPool", PumpSwapPool)

(* accounts/raydium_orca.ts *)

ClmmAmmConfig == <<1, 2, KEY, 4, 4, 2, 4, 4, KEY, 8, 8, 8>>
ClmmReward == 1 + 3 * 8 + 16 + 2 * 8 + KEYS(3) + 16
ClmmDynamicFee == 3 * 2 + 5 * 4 + 8 + 46
ClmmPoolState ==
  <<1>> \o Rep(KEY, 7) \o <<1, 1, 2, 16, 16, 4, 2, 2, 16, 16, 8, 8, 4 * 16, 1, 1, 6, 3 * ClmmReward>>
    \o <<16 * 8, 4 * 8, 8, 8, 8, 8, ClmmDynamicFee, 14 * 8, 32 * 8>>
ClmmTick == 4 + 7 * 16 + 3 * 8 + 16 + 3 * 4
ClmmTickArray == <<KEY, 4, 60 * ClmmTick, 1, 8, 107>>
ClmmAccounts ==
     "AmmConfig"      :> Sized("AccountRaydiumClmmAmmConfig", 109, ClmmAmmConfig)
  @@ "PoolState"      :> Sized("AccountRaydiumClmmPoolState", 1536, ClmmPoolState)
  @@ "Clmm.TickArray" :> Sized("AccountRaydiumClmmTickArrayState", 10232, ClmmTickArray)

CpmmAmmConfig == <<1, 1, 2, 8, 8, 8, 8, KEY, KEY, 8, 15 * 8>>
CpmmPoolState == Rep(KEY, 10) \o Rep(1, 5) \o Rep(8, 7) \o <<1, 1, 6, 8, 8, 28 * 8>>
CpmmAccounts ==
     "AmmConfig" :> Sized("AccountRaydiumCpmmAmmConfig", 228, CpmmAmmConfig)
  @@ "PoolState" :> Sized("AccountRaydiumCpmmPoolState", 629, CpmmPoolState)

OrcaReward == KEYS(3) + 2 * 16
OrcaWhirlpool ==
  <<KEY, 1, 2, 2, 2, 2, 16, 16, 4, 8, 8, KEY, KEY, 16, KEY, KEY, 16, 8, 3 * OrcaReward>>
OrcaPosition == <<KEY, KEY, 16, 4, 4, 16, 8, 16, 8, 3 * (16 + 8)>>
OrcaTick == 1 + 7 * 16
OrcaTickArray == <<4, 88 * OrcaTick, KEY>>
OrcaAccounts ==
     "Orca.Whirlpool"        :> Sized("AccountOrcaWhirlpool", 645, OrcaWhirlpool)
  @@ "Orca.Position"         :> Sized("AccountOrcaPosition", 208, OrcaPosition)
  @@ "Orca.TickArray"        :> Sized("AccountOrcaTickArray", 9980, OrcaTickArray)
  @@ "Orca.FeeTier"          :> Sized("AccountOrcaFeeTier", 36, <<KEY, 2, 2>>)
  @@ "Orca.WhirlpoolsConfig" :> Sized("AccountOrcaWhirlpoolsConfig", 98, <<KEY, KEY, KEY, 2>>)

NoAccounts == <<>>

\* parsePumpfunAccount, parsePumpswapAccount, parseRaydiumClmmAccount and the rest: the decoders of
\* each owner.  The Launchlab and the DLMM have accounts in snapshots only.
Accounts ==
  [PumpFun |-> PumpAccounts, PumpFees |-> PumpAccounts, PumpSwap |-> PumpSwapAccounts, Clmm |-> ClmmAccounts,
   Cpmm |-> CpmmAccounts, Orca |-> OrcaAccounts, Launchlab |-> NoAccounts, Dlmm |-> NoAccounts,
   System |-> NoAccounts, Token |-> NoAccounts]

Owners == DOMAIN Accounts

-----------------------------------------------------------------------------
(* liquidity_snapshot.ts: accounts kept whole, the identities in them read once they are long enough *)

\* A dynamic tick array of k initialized ticks; of its ticks the others take a byte each.
DynamicTicks == Must(<<4, KEY, 16, 88>>) \o <<Variable(0, 112, 88, "must")>>

Snapshot(ws) == Stored("AccountLiquiditySnapshot", Must(ws))

\* The bytes up to the length asked for, without the discriminator.
Snapshots ==
  [o \in Owners |->
     CASE o = "Launchlab" -> "PoolState" :> Snapshot(<<133, KEY, KEY, KEY, KEY, 160>>)
                               @@ "GlobalConfig" :> Snapshot(<<27>>)
                               @@ "Launchlab.PlatformConfig" :> Snapshot(<<720>>)
       [] o = "Dlmm" -> "Dlmm.Pool" :> Snapshot(<<68, 4, 2, 6, KEY, KEY, 752>>)
                          @@ "Dlmm.BinArray" :> Snapshot(<<8, 8, KEY, 10080>>)
                          @@ "Dlmm.Bitmap" :> Snapshot(<<KEY, 1536>>)
       [] o = "Orca" -> "Orca.DynamicTickArray" :> Stored("AccountLiquiditySnapshot", DynamicTicks)
                          @@ "Orca.Oracle" :> Snapshot(<<KEY, 214>>)
       [] o = "Clmm" -> "Clmm.Bitmap" :> Snapshot(<<KEY, 1792>>)
       [] OTHER -> NoAccounts]

-----------------------------------------------------------------------------
(* accounts/token.ts and accounts/nonce.ts, for accounts of fixed size without a discriminator *)

NONCE_SIZE == 80
MINT_SIZE == 82
TOKEN_ACCOUNT_SIZE == 165

\* parseTokenAccount tells mints from token accounts by length alone.
TokenType(len) ==
  IF len < MINT_SIZE THEN "none" ELSE IF len < TOKEN_ACCOUNT_SIZE THEN "TokenInfo" ELSE "TokenAccount"

\* What the token program keeps, at the lengths it keeps it, those of Token-2022 with an extension
\* included.
TokenAccounts ==
     "Token.Account"     :> [type |-> "TokenAccount", lengths |-> {TOKEN_ACCOUNT_SIZE}]
  @@ "Token.Account2022" :> [type |-> "TokenAccount", lengths |-> {170, 182}]
  @@ "Token.Mint"        :> [type |-> "TokenInfo", lengths |-> {MINT_SIZE}]
  @@ "Token.Mint2022"    :> [type |-> "TokenInfo", lengths |-> {202, 234}]
  @@ "Token.Multisig"    :> [type |-> "none", lengths |-> {355}]

-----------------------------------------------------------------------------
ACCOUNT_EVENT_TYPES ==
  {"TokenAccount", "TokenInfo", "NonceAccount", "AccountLiquiditySnapshot"}
    \cup UNION {{Accounts[o][a].type : a \in DOMAIN Accounts[o]} : o \in Owners}

\* The types asked for in front of each owner's decoders.
AccountTypes(o) ==
  CASE o = "System" -> {"NonceAccount"}
    [] o = "Token" -> {"TokenAccount", "TokenInfo"}
    [] OTHER -> {Accounts[o][a].type : a \in DOMAIN Accounts[o]}

NoEvent == [type |-> "none", astray |-> FALSE, lost |-> {}]

Reading(account, len, k) ==
  LET r == Read(account.layout, len, k)
  IN IF r.event THEN [type |-> account.type, astray |-> r.astray, lost |-> r.lost] ELSE NoEvent

\* The decoder of the owner, by the account's discriminator; len counts the bytes behind it, for
\* token and nonce accounts all bytes.
OwnersEvent(o, a, len, k) ==
  IF o = "System" THEN (IF len = NONCE_SIZE THEN [NoEvent EXCEPT !.type = "NonceAccount"] ELSE NoEvent)
  ELSE IF o = "Token" THEN [NoEvent EXCEPT !.type = TokenType(len)]
  ELSE IF a \in DOMAIN Accounts[o] THEN Reading(Accounts[o][a], len, k)
  ELSE NoEvent

\* parseLiquidityAccount; live: it has lamports and is no program.
SnapshotEvent(o, a, live, len, k) ==
  IF live /\ a \in DOMAIN Snapshots[o] THEN Reading(Snapshots[o][a], len, k) ELSE NoEvent

\* parseAccountUnified.
AccountEvent(f, o, a, live, len, k) ==
  LET shot == SnapshotEvent(o, a, live, len, k)
      ev   == OwnersEvent(o, a, len, k)
  IN IF f.mode = "include" /\ ~Meets(f.types, ACCOUNT_EVENT_TYPES) THEN NoEvent
     ELSE IF ShouldInclude(f, "AccountLiquiditySnapshot") /\ shot.type # "none" THEN shot
     ELSE IF ~\E t \in AccountTypes(o) : ShouldInclude(f, t) THEN NoEvent
     ELSE IF ev.type # "none" /\ ShouldInclude(f, ev.type) THEN ev
     ELSE NoEvent
=============================================================================
