---------------------------- MODULE AccountFill ----------------------------
(***************************************************************************)
(* How the parser completes an event with accounts: a log line carries few *)
(* of them, so src/src/core/account_dispatcher_rpc.ts looks for the call   *)
(* of the transaction the event came from and takes the rest from there,   *)
(* by the index tables of src/src/core/account_fill_*.ts.                  *)
(*                                                                         *)
(* A call is [id, p, ix, n, key, user]: an instruction of program p with n *)
(* accounts, working on the market key for a user.  An event is            *)
(* [type, ix, buy, key, user, cashback], what its log line says.  The      *)
(* calls of a transaction come in the order of buildProgramInvokesMap.     *)
(***************************************************************************)
EXTENDS InstructionDecoders, FiniteSetsExt

\* Account values.  Absent is the default key, which stands for "no account" everywhere.
Absent == <<0, 0>>
Key(k) == <<1, k>>
User(u) == <<2, u>>
Account(id, i) == <<2 + id, i>>

\* The role an event and its call are matched by.
KeyRole ==
  [PumpFun |-> "mint", PumpSwap |-> "pool", Launchlab |-> "pool_state", Clmm |-> "personal_position",
   AmmV4 |-> "amm", Cpmm |-> "pool_id", Orca |-> "whirlpool", Dlmm |-> "pool"]

\* The accounts of the boost buy, which no instruction decoder knows.
BoostRoles ==
  <<"pool", "_", "_", "base_mint", "quote_mint", "pool_base_token_account", "pool_quote_token_account",
    "user", "_", "base_token_program", "quote_token_program">>

RolesOf(c) ==
  IF c.ix = "PumpSwap.boost_buy" THEN Taken(BoostRoles, c.n) ELSE AccountFields(Instructions[c.p][c.ix], c.n)

RolesAt(c, i) == {a.field : a \in {r \in RolesOf(c) : r.index = i}}

\* The account of a call that has these roles.
InRoles(c, roles, i) ==
  IF KeyRole[c.p] \in roles THEN Key(c.key) ELSE IF "user" \in roles THEN User(c.user) ELSE Account(c.id, i)

\* makeInvokeAccountGetter.
At(c, i) == IF i >= c.n THEN Absent ELSE InRoles(c, RolesAt(c, i), i)

AccountsOf(c) == {At(c, i) : i \in 0..(c.n - 1)}

-----------------------------------------------------------------------------
(* Which call: 0 when none, or when several could be it. *)

\* Mutant: the first one that could be it.
TheFirst(s) == IF s = {} THEN 0 ELSE Min(s)

TheOnly(s) == IF \E i \in s : s = {i} THEN CHOOSE i \in s : TRUE ELSE 0

\* fillPumpTrade: discriminator -> mint index, user index, direction, accounts of the IDL.
Layout(mint, user, buy, least) == [mint |-> mint, user |-> user, buy |-> buy, least |-> least]
PumpTradeLayouts ==
     "PumpFun.buy"                   :> Layout(2, 6, TRUE, 16)
  @@ "PumpFun.buy_exact_sol_in"      :> Layout(2, 6, TRUE, 16)
  @@ "PumpFun.sell"                  :> Layout(2, 6, FALSE, 14)
  @@ "PumpFun.buy_v2"                :> Layout(1, 13, TRUE, 27)
  @@ "PumpFun.buy_exact_quote_in_v2" :> Layout(1, 13, TRUE, 27)
  @@ "PumpFun.sell_v2"               :> Layout(1, 13, FALSE, 26)
  @@ "PumpFun.buy_v3"                :> Layout(1, 8, TRUE, 17)
  @@ "PumpFun.buy_exact_quote_in_v3" :> Layout(1, 8, TRUE, 17)
  @@ "PumpFun.sell_v3"               :> Layout(1, 8, FALSE, 17)

SameUser(e, c, i) == e.user # Absent => At(c, i) = e.user

IsPumpTrade(e, c) ==
  /\ c.ix \in DOMAIN PumpTradeLayouts
  /\ LET l == PumpTradeLayouts[c.ix]
     IN l.buy = e.buy /\ c.n >= l.least /\ At(c, l.mint) = e.key /\ SameUser(e, c, l.user)

PumpTradeCall(e, calls) == IF e.key = Absent THEN 0 ELSE TheOnly({i \in DOMAIN calls : IsPumpTrade(e, calls[i])})

\* fillSwap.
CompactTrades == {"PumpSwap.compact_buy", "PumpSwap.compact_buy_exact", "PumpSwap.compact_sell"}
SwapTrades(buy) ==
  IF buy THEN {"PumpSwap.buy", "PumpSwap.buy_exact_quote_in", "PumpSwap.compact_buy",
               "PumpSwap.compact_buy_exact", "PumpSwap.boost_buy"}
  ELSE {"PumpSwap.sell", "PumpSwap.compact_sell"}
LeastForSwap(c, buy) ==
  IF c.ix = "PumpSwap.boost_buy" THEN 13 ELSE IF c.ix \in CompactTrades THEN 17 ELSE IF buy THEN 23 ELSE 21

IsSwap(e, c) ==
  /\ c.ix \in SwapTrades(e.buy)
  /\ c.n >= LeastForSwap(c, e.buy)
  /\ At(c, 0) = e.key
  /\ SameUser(e, c, IF c.ix = "PumpSwap.boost_buy" THEN 7 ELSE 1)

SwapCall(e, calls) == IF e.key = Absent THEN 0 ELSE TheOnly({i \in DOMAIN calls : IsSwap(e, calls[i])})

\* fillCreate: a PumpFunCreate event may also come from create_v2.
IsCreate(e, c) ==
  /\ c.ix = "PumpFun.create_v2" \/ (c.ix = "PumpFun.create" /\ e.type # "PumpFunCreateV2")
  /\ c.n >= IF c.ix = "PumpFun.create_v2" THEN 16 ELSE 14
  /\ e.key # Absent => At(c, 0) = e.key

CreateCall(e, calls) == TheOnly({i \in DOMAIN calls : IsCreate(e, calls[i])})

\* tryFill with an anchor: the calls that have the event's market at that account, if they agree on
\* their first eighteen accounts.
Anchor(at, only) == [at |-> at, only |-> only]
Anchors ==
     "RaydiumClmmIncreaseLiquidity" :> Anchor(4, {"Clmm.increase_liquidity", "Clmm.increase_liquidity_v2"})
  @@ "RaydiumClmmDecreaseLiquidity" :> Anchor(2, {"Clmm.decrease_liquidity", "Clmm.decrease_liquidity_v2"})
  @@ "RaydiumLaunchlabTrade"        :> Anchor(4, DOMAIN LaunchlabIx)
  @@ "RaydiumLaunchlabPoolCreate"   :> Anchor(5, DOMAIN LaunchlabIx)
  @@ "RaydiumAmmV4Swap"             :> Anchor(1, DOMAIN AmmV4Ix)

Agree(c, d) == \A i \in 0..17 : At(c, i) = At(d, i)

AnchoredCall(e, calls, anchor) ==
  LET fit == {i \in DOMAIN calls :
                calls[i].ix \in anchor.only /\ (e.key # Absent => At(calls[i], anchor.at) = e.key)}
  IN IF \/ fit = {}
        \/ e.key = Absent /\ e.type # "RaydiumAmmV4Swap"
        \/ \E i, j \in fit : ~Agree(calls[i], calls[j])
     THEN 0 ELSE Max(fit)

\* tryFill without one: the call with the most accounts, the first of them.
MaxAccountsCall(calls) ==
  Min({i \in DOMAIN calls : \A j \in DOMAIN calls : calls[j].n <= calls[i].n} \cup {Len(calls)})

PUMP_TRADES == PUMPFUN_TRADE_FAMILY \cup {"PumpFunTrade"}
Identified == PUMP_TRADES \cup PUMPFUN_CREATE_FAMILY \cup PUMPSWAP_TRADE_FAMILY \cup DOMAIN Anchors

SelectedCall(e, calls) ==
  CASE e.type \in PUMP_TRADES -> PumpTradeCall(e, calls)
    [] e.type \in PUMPFUN_CREATE_FAMILY -> CreateCall(e, calls)
    [] e.type \in PUMPSWAP_TRADE_FAMILY -> SwapCall(e, calls)
    [] e.type \in DOMAIN Anchors -> AnchoredCall(e, calls, Anchors[e.type])
    [] OTHER -> MaxAccountsCall(calls)

-----------------------------------------------------------------------------
(* What is taken from it: the role tables of core/account_fill_*.ts. *)

(* account_fill_pumpfun.ts *)

FillV3 ==
  <<"global", "mint", "quote_mint", "token_program", "quote_token_program", "bonding_curve",
    "associated_bonding_curve", "associated_quote_bonding_curve", "user", "associated_user",
    "associated_quote_user", "user_volume_accumulator", "fee_config", "buyback_fee_recipient",
    "system_program", "event_authority", "program">>
FillV2 ==
  <<"global", "_", "quote_mint", "token_program", "quote_token_program", "associated_token_program",
    "fee_recipient", "associated_quote_fee_recipient", "buyback_fee_recipient",
    "associated_quote_buyback_fee_recipient", "bonding_curve", "associated_bonding_curve",
    "associated_quote_bonding_curve", "user", "associated_user", "associated_quote_user",
    "creator_vault", "associated_creator_vault", "sharing_config">>
FillSellV2 ==
  FillV2 \o <<"user_volume_accumulator", "associated_user_volume_accumulator", "fee_config", "fee_program",
              "system_program", "event_authority", "program">>
FillBuyV2 ==
  FillV2 \o <<"global_volume_accumulator", "user_volume_accumulator", "associated_user_volume_accumulator",
              "fee_config", "fee_program", "system_program", "event_authority", "program">>
FillLegacy(vault, tokens) ==
  <<"global", "fee_recipient", "_", "bonding_curve", "associated_bonding_curve", "associated_user", "user",
    "system_program", vault, tokens, "event_authority", "program">>
FillBuy ==
  FillLegacy("token_program", "creator_vault")
    \o <<"global_volume_accumulator", "user_volume_accumulator", "fee_config", "fee_program",
         "bonding_curve_v2", "buyback_fee_recipient">>

\* A sell's last accounts: seventeen of them name them all, else the event's cashback flag decides.
FillSell(e, c) ==
  FillLegacy("creator_vault", "token_program") \o <<"fee_config", "fee_program">>
    \o IF At(c, 16) # Absent THEN <<"user_volume_accumulator", "bonding_curve_v2", "buyback_fee_recipient">>
       ELSE IF e.cashback THEN <<"user_volume_accumulator", "bonding_curve_v2">>
       ELSE <<"bonding_curve_v2", "buyback_fee_recipient">>

FillPumpTrade(e, c) ==
  IF "program" \in RolesAt(c, 16) /\ At(c, 1) = e.key THEN FillV3
  ELSE IF e.ix \in {"buy_v2", "sell_v2", "buy_exact_quote_in_v2"} \/ At(c, 1) = e.key
  THEN (IF e.ix = "sell_v2" \/ (~e.buy /\ e.ix = "sell") THEN FillSellV2 ELSE FillBuyV2)
  ELSE IF e.buy THEN FillBuy ELSE FillSell(e, c)

FillCreate ==
  <<"mint", "mint_authority", "bonding_curve", "associated_bonding_curve", "global", "_", "_", "user",
    "system_program", "token_program", "associated_token_program", "_", "event_authority", "program">>
FillCreateV2 ==
  <<"mint", "mint_authority", "bonding_curve", "associated_bonding_curve", "global", "user",
    "system_program", "token_program", "associated_token_program", "mayhem_program_id", "global_params",
    "sol_vault", "mayhem_state", "mayhem_token_vault", "event_authority", "program">>

(* account_fill_pumpswap.ts *)

FillSwapHead ==
  <<"pool", "user", "_", "base_mint", "quote_mint", "user_base_token_account", "user_quote_token_account",
    "pool_base_token_account", "pool_quote_token_account">>
FillSwapCompact ==
  FillSwapHead \o <<"base_token_program", "quote_token_program", "_", "_", "_", "fee_recipient_quote_token_account">>
FillSwapLong ==
  FillSwapHead \o <<"protocol_fee_recipient", "protocol_fee_recipient_token_account", "base_token_program",
                    "quote_token_program", "_", "_", "_", "_", "coin_creator_vault_ata",
                    "coin_creator_vault_authority">>
FillUpgrade(at) == Upto(FillSwapLong, at) \o <<"pool_v2", "fee_recipient", "fee_recipient_quote_token_account">>
FillPoolV2(at) == Upto(FillSwapLong, at) \o <<"pool_v2">>
FillBoost ==
  <<"pool", "_", "_", "base_mint", "quote_mint", "pool_base_token_account", "pool_quote_token_account", "_",
    "_", "base_token_program", "quote_token_program">>

FillSwap(e, c) ==
  IF c.ix = "PumpSwap.boost_buy" THEN FillBoost
  ELSE IF c.ix \in CompactTrades THEN FillSwapCompact
  ELSE IF e.buy /\ At(c, 26) # Absent THEN FillUpgrade(24)
  ELSE IF At(c, 25) # Absent THEN FillUpgrade(23)
  ELSE IF e.buy THEN FillPoolV2(23)
  ELSE IF At(c, 23) # Absent THEN FillUpgrade(21)
  ELSE FillPoolV2(21)

FillCreatePool ==
  <<"pool", "_", "creator", "base_mint", "quote_mint", "lp_mint", "user_base_token_account",
    "user_quote_token_account">>

(* account_fill_raydium_launchlab.ts *)

FillLaunchlabTrade ==
  <<"user", "_", "global_config", "platform_config", "pool_state", "user_base_token", "user_quote_token",
    "base_vault", "quote_vault", "base_mint", "quote_mint", "base_token_program", "quote_token_program",
    "_", "_", "system_program", "platform_associated_account", "creator_associated_account">>

\* The program's own id behind the accounts tells the two initialize layouts apart.
FillLaunchlabPool(c) ==
  <<"payer", "creator", "global_config", "platform_config", "_", "pool_state", "base_mint", "quote_mint",
    "base_vault", "quote_vault">>
    \o CASE c.n > 17 /\ c.ix # "Launchlab.initialize_with_token_2022" -> <<"_">> \o TokenPrograms
         [] c.n > 14 /\ c.ix = "Launchlab.initialize_with_token_2022" -> TokenPrograms
         [] OTHER -> <<>>

(* account_fill_raydium.ts *)

FillAmmV4Swap(c) ==
  IF At(c, 8) = Absent /\ At(c, 7) # Absent
  THEN <<"token_program", "amm", "amm_authority", "pool_coin_token_account", "pool_pc_token_account",
         "user_source_token_account", "user_destination_token_account", "user_source_owner">>
  ELSE IF At(c, 17) = Absent THEN Upto(<<"_", "amm">>, 16) \o <<"user_source_owner">>
  ELSE Upto(<<"_", "amm">>, 17) \o <<"user_source_owner">>

\* The events that take their accounts from a single table, whatever the call.
FillPosition == <<"user", "_", "position_nft_mint">>
FillTables ==
     "PumpSwapCreatePool"              :> FillCreatePool
  @@ "RaydiumLaunchlabTrade"           :> FillLaunchlabTrade
  @@ "RaydiumClmmSwap"                 :> <<"sender", "_", "pool_state">>
  @@ "RaydiumClmmCreatePool"           :> <<"creator">>
  @@ "RaydiumClmmOpenPosition"         :> FillPosition
  @@ "RaydiumClmmOpenPositionWithTokenExtNft" :> FillPosition
  @@ "RaydiumClmmClosePosition"        :> <<"user", "position_nft_mint">>
  @@ "RaydiumClmmIncreaseLiquidity"    :> <<"user", "_", "pool">>
  @@ "RaydiumClmmDecreaseLiquidity"    :> <<"user", "_", "_", "pool">>
  @@ "RaydiumCpmmSwap"                 :> <<"_", "_", "_", "pool_id">>
  @@ "RaydiumCpmmDeposit"              :> <<"user">>
  @@ "RaydiumCpmmWithdraw"             :> <<"user">>
  @@ "RaydiumCpmmInitialize"           :> <<"creator", "_", "_", "pool">>
  @@ "RaydiumAmmV4Deposit"             :> <<"token_program", "_", "amm_authority">>
  @@ "RaydiumAmmV4Withdraw"            :> <<"token_program", "_", "amm_authority", "amm_open_orders">>
  @@ "OrcaWhirlpoolLiquidityIncreased" :> <<"_", "_", "_", "position">>
  @@ "OrcaWhirlpoolLiquidityDecreased" :> <<"_", "_", "_", "position">>
  @@ "MeteoraDlmmSwap"                 :> Skip(4) \o <<"user_token_in", "user_token_out", "token_x_mint", "token_y_mint">>

FillTable(e, c) ==
  CASE e.type \in PUMP_TRADES -> FillPumpTrade(e, c)
    [] e.type \in PUMPFUN_CREATE_FAMILY -> IF c.ix = "PumpFun.create_v2" THEN FillCreateV2 ELSE FillCreate
    [] e.type \in PUMPSWAP_TRADE_FAMILY -> FillSwap(e, c)
    [] e.type = "RaydiumLaunchlabPoolCreate" -> FillLaunchlabPool(c)
    [] e.type = "RaydiumAmmV4Swap" -> FillAmmV4Swap(c)
    [] e.type \in DOMAIN FillTables -> FillTables[e.type]
    [] OTHER -> <<>>

\* A default key leaves the field empty.
Completed(roles, c) ==
  {[field |-> roles[i], account |-> At(c, i - 1)] :
     i \in {j \in DOMAIN roles : roles[j] # "_" /\ At(c, j - 1) # Absent}}

\* The fields fillAccountsFromTransactionDataRpc gives an event that carries none of them, with the
\* account each gets.
Filled(e, calls) ==
  LET at == SelectedCall(e, calls)
  IN IF at = 0 THEN {} ELSE Completed(FillTable(e, calls[at]), calls[at])
=============================================================================
