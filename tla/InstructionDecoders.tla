------------------------ MODULE InstructionDecoders ------------------------
(***************************************************************************)
(* The instruction decoders of src/src/instr/*_ix.ts: for every            *)
(* instruction of a program the type of its event, the layout of the data  *)
(* behind the discriminator, how many accounts the decoder insists on and  *)
(* which account it takes each field of the event from.                    *)
(*                                                                         *)
(* Roles are listed in account order from account 0; "_" is an account the *)
(* decoder does not read.  An account that is not there leaves its field   *)
(* empty.                                                                  *)
(***************************************************************************)
EXTENDS EventLayouts, EventFilters, Tables

Skip(n) == [i \in 1..n |-> "_"]
Upto(roles, n) == roles \o Skip(n - Len(roles))

\* An instruction with one account layout, and one whose layout depends on the number of accounts:
\* the forms in the order they are tried, each from "least" accounts on.
Form(least, roles) == [least |-> least, roles |-> roles]
IxForms(type, data, forms) == [type |-> type, data |-> data, forms |-> forms]
Ix(type, data, least, roles) == IxForms(type, data, <<Form(least, roles)>>)

\* The form a decoder takes for n accounts, none if there are too few for any.
FormsFor(ix, n) == SelectSeq(ix.forms, LAMBDA f : n >= f.least)

\* The account index behind each field, of the accounts there are.
Taken(roles, n) ==
  {[field |-> roles[i], index |-> i - 1] : i \in {j \in DOMAIN roles : roles[j] # "_" /\ j <= n}}

AccountFields(ix, n) ==
  LET fit == FormsFor(ix, n) IN IF fit = <<>> THEN {} ELSE Taken(Head(fit).roles, n)

\* Whether the decoder gives an event for n accounts and len bytes behind the discriminator.
Decodes(ix, n, len, k) == FormsFor(ix, n) # <<>> /\ Read(ix.data, len, k).event

-----------------------------------------------------------------------------
(* pumpfun_ix.ts *)

BuyRoles ==
  <<"global", "fee_recipient", "mint", "bonding_curve", "associated_bonding_curve", "associated_user",
    "user", "system_program", "token_program", "creator_vault", "event_authority", "program",
    "global_volume_accumulator", "user_volume_accumulator", "fee_config", "fee_program",
    "bonding_curve_v2", "buyback_fee_recipient">>

SellRoles ==
  <<"global", "fee_recipient", "mint", "bonding_curve", "associated_bonding_curve", "associated_user",
    "user", "system_program", "creator_vault", "token_program", "event_authority", "program",
    "fee_config", "fee_program">>

TradeV2Roles ==
  <<"global", "mint", "quote_mint", "token_program", "quote_token_program", "associated_token_program",
    "fee_recipient", "associated_quote_fee_recipient", "buyback_fee_recipient",
    "associated_quote_buyback_fee_recipient", "bonding_curve", "associated_bonding_curve",
    "associated_quote_bonding_curve", "user", "associated_user", "associated_quote_user",
    "creator_vault", "associated_creator_vault", "sharing_config">>
TradeV2Tail ==
  <<"user_volume_accumulator", "associated_user_volume_accumulator", "fee_config", "fee_program",
    "system_program", "event_authority", "program">>
BuyV2Roles == TradeV2Roles \o <<"global_volume_accumulator">> \o TradeV2Tail
SellV2Roles == TradeV2Roles \o TradeV2Tail

TradeV3Roles ==
  <<"global", "mint", "quote_mint", "token_program", "quote_token_program", "bonding_curve",
    "associated_bonding_curve", "associated_quote_bonding_curve", "user", "associated_user",
    "associated_quote_user", "user_volume_accumulator", "fee_config", "buyback_fee_recipient",
    "system_program", "event_authority", "program">>

CreateRoles == <<"mint", "_", "bonding_curve", "_", "_", "_", "_", "user">>
CreateV2Roles ==
  <<"mint", "mint_authority", "bonding_curve", "associated_bonding_curve", "global", "user",
    "system_program", "token_program", "associated_token_program", "mayhem_program_id", "global_params",
    "sol_vault", "mayhem_state", "mayhem_token_vault", "event_authority", "program">>

BuyIx(type) == Ix(type, Zero(<<8, 8, 1>>), 16, BuyRoles)
SellIx ==
  IxForms("PumpFunSell", Zero(<<8, 8>>),
    <<Form(17, SellRoles \o <<"user_volume_accumulator", "bonding_curve_v2", "buyback_fee_recipient">>),
      Form(16, SellRoles \o <<"bonding_curve_v2", "buyback_fee_recipient">>),
      Form(14, SellRoles \o <<"bonding_curve_v2">>)>>)

PumpFunIx ==
     "PumpFun.buy"                   :> BuyIx("PumpFunBuy")
  @@ "PumpFun.buy_exact_sol_in"      :> BuyIx("PumpFunBuyExactSolIn")
  @@ "PumpFun.sell"                  :> SellIx
  @@ "PumpFun.buy_v2"                :> Ix("PumpFunBuy", Zero(<<8, 8>>), 2, BuyV2Roles)
  @@ "PumpFun.buy_exact_quote_in_v2" :> Ix("PumpFunBuy", Zero(<<8, 8>>), 2, BuyV2Roles)
  @@ "PumpFun.sell_v2"               :> Ix("PumpFunSell", Zero(<<8, 8>>), 2, SellV2Roles)
  @@ "PumpFun.buy_v3"                :> Ix("PumpFunBuy", Rest({<<16, 17>>}) \o Must(<<8, 8>>) \o Stay(<<1>>), 17, TradeV3Roles)
  @@ "PumpFun.buy_exact_quote_in_v3" :> Ix("PumpFunBuy", Rest({<<16, 17>>}) \o Must(<<8, 8>>) \o Stay(<<1>>), 17, TradeV3Roles)
  @@ "PumpFun.sell_v3"               :> Ix("PumpFunSell", Rest(Exactly(16)) \o Must(<<8, 8>>), 17, TradeV3Roles)
  @@ "PumpFun.create"                :> Ix("PumpFunCreate", CreateHead \o Stay(<<KEY>>), 8, CreateRoles)
  @@ "PumpFun.create_v2"             :> Ix("PumpFunCreateV2", CreateHead \o Must(<<KEY, 1>>) \o Stay(<<1, 8, 1>>), 16, CreateV2Roles)

(* pumpswap_ix.ts *)

SwapRoles ==
  <<"pool", "user", "_", "base_mint", "quote_mint", "user_base_token_account", "user_quote_token_account",
    "pool_base_token_account", "pool_quote_token_account", "protocol_fee_recipient",
    "protocol_fee_recipient_token_account", "base_token_program", "quote_token_program">> \o Skip(4)
    \o <<"coin_creator_vault_ata", "coin_creator_vault_authority">>
UpgradeRoles == <<"pool_v2", "fee_recipient", "fee_recipient_quote_token_account">>

\* fillBuyUpgradeAccounts, fillSellUpgradeAccounts.
SwapBuyForms ==
  <<Form(27, Upto(SwapRoles, 24) \o UpgradeRoles), Form(26, Upto(SwapRoles, 23) \o UpgradeRoles),
    Form(13, Upto(SwapRoles, 23) \o <<"pool_v2">>)>>
SwapSellForms ==
  <<Form(26, Upto(SwapRoles, 23) \o UpgradeRoles), Form(24, Upto(SwapRoles, 21) \o UpgradeRoles),
    Form(13, Upto(SwapRoles, 21) \o <<"pool_v2">>)>>

CompactRoles ==
  SubSeq(SwapRoles, 1, 9) \o <<"base_token_program", "quote_token_program">> \o Skip(3)
    \o <<"fee_recipient_quote_token_account">> \o Skip(2)
Compact(type) == Ix(type, Rest(Exactly(16)) \o Must(<<8, 8>>), 17, CompactRoles)

PumpSwapLiquidityIx(type) ==
  Ix(type, Must(<<8, 8, 8>>), 15,
     <<"pool", "_", "user">> \o Skip(3)
       \o <<"user_base_token_account", "user_quote_token_account", "user_pool_token_account">>)

PumpSwapIx ==
     "PumpSwap.buy"                :> IxForms("PumpSwapBuy", Zero(<<8, 8>>), SwapBuyForms)
  @@ "PumpSwap.buy_exact_quote_in" :> IxForms("PumpSwapBuy", Zero(<<8, 8>>), SwapBuyForms)
  @@ "PumpSwap.sell"               :> IxForms("PumpSwapSell", Zero(<<8, 8>>), SwapSellForms)
  @@ "PumpSwap.compact_buy"        :> Compact("PumpSwapBuy")
  @@ "PumpSwap.compact_buy_exact"  :> Compact("PumpSwapBuy")
  @@ "PumpSwap.compact_sell"       :> Compact("PumpSwapSell")
  @@ "PumpSwap.create_pool"        :>
       Ix("PumpSwapCreatePool", Zero(<<2, 8, 8, KEY, 1, 1, 8, 1, 1>>), 8,
          <<"pool", "_", "creator", "base_mint", "quote_mint", "lp_mint", "user_base_token_account",
            "user_quote_token_account">>)
  @@ "PumpSwap.deposit"            :> PumpSwapLiquidityIx("PumpSwapLiquidityAdded")
  @@ "PumpSwap.withdraw"           :> PumpSwapLiquidityIx("PumpSwapLiquidityRemoved")

(* pump_fees_ix.ts *)

ResetRoles == <<"new_admin", "_", "_", "old_admin", "_", "mint", "sharing_config">>
SharesRoles == <<"_", "_", "admin", "_", "mint", "sharing_config", "bonding_curve", "pump_creator_vault">>
UpdateSharesIx == Ix("PumpFeesUpdateFeeShares", List(34, "must") \o Rest(Exactly(0)), 6, SharesRoles)

PumpFeesIx ==
     "PumpFees.create_fee_sharing_config"  :>
       Ix("PumpFeesCreateFeeSharingConfig", <<>>, 5,
          <<"_", "_", "admin", "_", "mint", "sharing_config", "_", "bonding_curve", "_", "_", "pool">>)
  @@ "PumpFees.update_fee_shares"          :> UpdateSharesIx
  @@ "PumpFees.update_fee_shares_v2"       :> UpdateSharesIx
  @@ "PumpFees.initialize_fee_config"      :> Ix("PumpFeesInitializeFeeConfig", <<>>, 2, <<"admin", "fee_config">>)
  @@ "PumpFees.reset_fee_sharing_config"   :> Ix("PumpFeesResetFeeSharingConfig", <<>>, 7, ResetRoles)
  @@ "PumpFees.reset_fee_sharing_config_v2" :> Ix("PumpFeesResetFeeSharingConfig", <<>>, 7, ResetRoles)
  @@ "PumpFees.revoke_fee_sharing"         :>
       Ix("PumpFeesRevokeFeeSharingAuthority", <<>>, 4, <<"admin", "_", "mint", "sharing_config">>)
  @@ "PumpFees.transfer_fee_sharing"       :>
       Ix("PumpFeesTransferFeeSharingAuthority", <<>>, 5, <<"old_admin", "_", "mint", "sharing_config", "new_admin">>)
  @@ "PumpFees.update_admin"               :> Ix("PumpFeesUpdateAdmin", <<>>, 3, <<"old_admin", "_", "new_admin">>)
  @@ "PumpFees.update_fee_config"          :>
       Ix("PumpFeesUpdateFeeConfig", List(40, "must") \o Must(<<24>>) \o Rest(Exactly(0)), 2, <<"fee_config", "admin">>)
  @@ "PumpFees.upsert_fee_tiers"           :>
       Ix("PumpFeesUpsertFeeTiers", List(40, "must") \o Must(<<1>>) \o Rest(Exactly(0)), 2, <<"fee_config", "admin">>)

(* raydium_launchlab_ix.ts: the two event discriminators are decoded like the log lines. *)

LaunchlabTradeRoles ==
  <<"user", "_", "global_config", "platform_config", "pool_state", "user_base_token", "user_quote_token",
    "base_vault", "quote_vault", "base_mint", "quote_mint", "base_token_program", "quote_token_program",
    "_", "_", "system_program", "platform_associated_account", "creator_associated_account">>
LaunchlabPoolRoles ==
  <<"payer", "creator", "global_config", "platform_config", "_", "pool_state", "base_mint", "quote_mint",
    "base_vault", "quote_vault">>
LaunchlabTradeIx == Ix("RaydiumLaunchlabTrade", Rest(AtLeast(16)) \o Must(<<8, 8>>), 5, LaunchlabTradeRoles)
MintParams == Must(<<1>>) \o CreateHead
TokenPrograms == <<"base_token_program", "quote_token_program">>
LaunchlabInitializeIx ==
  Ix("RaydiumLaunchlabPoolCreate", MintParams, 6, LaunchlabPoolRoles \o Skip(1) \o TokenPrograms)
LaunchlabToken2022Ix == Ix("RaydiumLaunchlabPoolCreate", MintParams, 6, LaunchlabPoolRoles \o TokenPrograms)

LaunchlabIx ==
     "Launchlab.buy_exact_in"      :> LaunchlabTradeIx
  @@ "Launchlab.buy_exact_out"     :> LaunchlabTradeIx
  @@ "Launchlab.sell_exact_in"     :> LaunchlabTradeIx
  @@ "Launchlab.sell_exact_out"    :> LaunchlabTradeIx
  @@ "Launchlab.initialize"        :> LaunchlabInitializeIx
  @@ "Launchlab.initialize_v2"     :> LaunchlabInitializeIx
  @@ "Launchlab.initialize_with_token_2022" :> LaunchlabToken2022Ix
  @@ "Launchlab.migrate_to_amm"    :>
       Ix("RaydiumLaunchlabMigrateAmm", Rest(AtLeast(9)) \o Past(<<9>>), 32,
          <<"user", "base_mint", "quote_mint">> \o Skip(9) \o <<"destination_program", "new_pool">> \o Skip(9)
            \o <<"old_pool">>)
  @@ "Launchlab.migrate_to_cpswap" :>
       Ix("RaydiumLaunchlabMigrateAmm", <<>>, 28,
          <<"user", "base_mint", "quote_mint", "platform_config", "destination_program", "new_pool">>
            \o Skip(11) \o <<"old_pool">>)
  @@ "Launchlab.TradeEvent"        :> Ix("RaydiumLaunchlabTrade", LaunchlabTrade, 0, <<>>)
  @@ "Launchlab.PoolCreateEvent"   :> Ix("RaydiumLaunchlabPoolCreate", LaunchlabPoolCreate, 0, <<>>)

(* raydium_clmm_ix.ts *)

ClmmSwapIx ==
  Ix("RaydiumClmmSwap", Must(<<8, 8, 16, 1>>), 0,
     <<"sender", "_", "pool_state", "token_account_0", "token_account_1">>)
ClmmPoolRoles ==
  <<"creator", "_", "pool", "token_0_mint", "token_1_mint", "token_vault_0", "token_vault_1">>
ClmmOpenIx(pool) ==
  Ix("RaydiumClmmOpenPosition", Must(<<4, 4, 4, 4, 16, 8, 8>>), 0,
     Upto(<<"_", "user", "position_nft_mint">>, pool) \o <<"pool">>)

ClmmIx ==
     "Clmm.swap"                  :> ClmmSwapIx
  @@ "Clmm.swap_v2"               :> ClmmSwapIx
  @@ "Clmm.increase_liquidity_v2" :>
       Ix("RaydiumClmmIncreaseLiquidity", Must(<<16, 8, 8>>), 0, <<"user", "_", "pool", "_", "personal_position">>)
  @@ "Clmm.decrease_liquidity_v2" :>
       Ix("RaydiumClmmDecreaseLiquidity", Must(<<16, 8, 8>>), 0, <<"user", "_", "personal_position", "pool">>)
  @@ "Clmm.create_pool"           :> Ix("RaydiumClmmCreatePool", Must(<<16, 8>>), 0, ClmmPoolRoles)
  @@ "Clmm.create_customizable_pool" :>
       Ix("RaydiumClmmCreatePool", Rest(Exactly(18)) \o Must(<<16, 1, 1>>), 13, ClmmPoolRoles)
  @@ "Clmm.open_position"         :> ClmmOpenIx(5)
  @@ "Clmm.open_position_v2"      :> ClmmOpenIx(5)
  @@ "Clmm.open_position_with_token22_nft" :> ClmmOpenIx(4)
  @@ "Clmm.close_position"        :> Ix("RaydiumClmmClosePosition", <<>>, 0, <<"user", "position_nft_mint">>)

(* raydium_cpmm_ix.ts *)

CpmmSwapIx == Ix("RaydiumCpmmSwap", Must(<<8, 8>>), 0, <<"_", "_", "_", "pool_id">>)
CpmmLiquidityIx(type) == Ix(type, Must(<<8, 8, 8>>), 0, <<"user", "_", "pool">>)

CpmmIx ==
     "Cpmm.swap_base_in"    :> CpmmSwapIx
  @@ "Cpmm.swap_base_out"   :> CpmmSwapIx
  @@ "Cpmm.initialize"      :> Ix("RaydiumCpmmInitialize", Must(<<8, 8, 8>>), 20, <<"creator", "_", "_", "pool">>)
  @@ "Cpmm.initialize_with_permission" :>
       Ix("RaydiumCpmmInitialize", Must(<<8, 8, 8, 1>>), 21, <<"_", "creator", "_", "_", "pool">>)
  @@ "Cpmm.deposit"         :> CpmmLiquidityIx("RaydiumCpmmDeposit")
  @@ "Cpmm.withdraw"        :> CpmmLiquidityIx("RaydiumCpmmWithdraw")

(* raydium_amm_v4_ix.ts: one byte of discriminator; 17 accounts leave the target orders out. *)

AmmV4Tail ==
  <<"pool_coin_token_account", "pool_pc_token_account", "serum_program", "serum_market", "serum_bids",
    "serum_asks", "serum_event_queue", "serum_coin_vault_account", "serum_pc_vault_account",
    "serum_vault_signer", "user_source_token_account", "user_destination_token_account",
    "user_source_owner">>
AmmV4Head == <<"token_program", "amm", "amm_authority", "amm_open_orders">>
AmmV4ModernRoles ==
  <<"token_program", "amm", "amm_authority", "pool_coin_token_account", "pool_pc_token_account",
    "user_source_token_account", "user_destination_token_account", "user_source_owner">>

\* SWAP and swapAccountIndexes.
AmmV4SwapForms ==
  <<Form(18, AmmV4Head \o <<"amm_target_orders">> \o AmmV4Tail), Form(17, AmmV4Head \o AmmV4Tail),
    Form(0, AmmV4Head \o <<"amm_target_orders">> \o AmmV4Tail)>>
AmmV4SwapIx == IxForms("RaydiumAmmV4Swap", Must(<<8, 8>>), AmmV4SwapForms)
AmmV4ModernIx == Ix("RaydiumAmmV4Swap", Must(<<8, 8>>), 8, AmmV4ModernRoles)

AmmV4Ix ==
     "AmmV4.swap_base_in"     :> AmmV4SwapIx
  @@ "AmmV4.swap_base_out"    :> AmmV4SwapIx
  @@ "AmmV4.swap_base_in_v2"  :> AmmV4ModernIx
  @@ "AmmV4.swap_base_out_v2" :> AmmV4ModernIx

(* orca_whirlpool_ix.ts *)

OrcaSwapIx(pool) == Ix("OrcaWhirlpoolSwap", Must(<<8, 8, 16, 1, 1>>), 0, Skip(pool) \o <<"whirlpool">>)
OrcaLiquidityIx(type, position, extra) ==
  Ix(type, Must(<<16, 8, 8>> \o extra), 0, Upto(<<"whirlpool">>, position) \o <<"position">>)

OrcaIx ==
     "Orca.swap"                  :> OrcaSwapIx(2)
  @@ "Orca.swap_v2"               :> OrcaSwapIx(4)
  @@ "Orca.increase_liquidity"    :> OrcaLiquidityIx("OrcaWhirlpoolLiquidityIncreased", 3, <<>>)
  @@ "Orca.increase_liquidity_v2" :> OrcaLiquidityIx("OrcaWhirlpoolLiquidityIncreased", 5, <<1>>)
  @@ "Orca.decrease_liquidity"    :> OrcaLiquidityIx("OrcaWhirlpoolLiquidityDecreased", 3, <<>>)
  @@ "Orca.decrease_liquidity_v2" :> OrcaLiquidityIx("OrcaWhirlpoolLiquidityDecreased", 5, <<1>>)
  @@ "Orca.initialize_pool"       :>
       Ix("OrcaWhirlpoolPoolInitialized", Must(<<2, 16>>), 0,
          <<"_", "whirlpool", "whirlpools_config", "token_mint_a", "token_mint_b">> \o Skip(3)
            \o <<"token_program_a", "token_program_b">>)

(* meteora_pools_ix.ts *)

PoolsIx ==
     "Pools.swap"                    :> Ix("MeteoraPoolsSwap", Must(<<8, 8>>), 1, <<"pool">>)
  @@ "Pools.add_balance_liquidity"   :> Ix("MeteoraPoolsAddLiquidity", Must(<<8, 8, 8>>), 1, <<"pool">>)
  @@ "Pools.remove_balance_liquidity" :> Ix("MeteoraPoolsRemoveLiquidity", Must(<<8, 8, 8>>), 1, <<"pool">>)
  @@ "Pools.initialize_with_config"  :>
       Ix("MeteoraPoolsPoolCreated", Must(<<8, 8>>), 5, <<"pool", "_", "lp_mint", "token_a_mint", "token_b_mint">>)
  @@ "Pools.initialize_with_config2" :>
       Ix("MeteoraPoolsPoolCreated", Must(<<8, 8>>) \o Option(8), 5,
          <<"pool", "_", "lp_mint", "token_a_mint", "token_b_mint">>)

(* meteora_dlmm_ix.ts *)

DlmmPairRoles == <<"pool">> \o Skip(7) \o <<"creator">>
DlmmLiquidityIx(type, from) == Ix(type, <<>>, from + 1, Upto(<<"position", "pool">>, from) \o <<"from">>)
DlmmPositionIx(first) ==
  Ix("MeteoraDlmmCreatePosition", Must(<<4, 4>>), first + 3, Skip(first) \o <<"position", "pool", "owner">>)
DlmmSwapIx(amounts) ==
  Ix("MeteoraDlmmSwap", amounts, 1,
     <<"pool", "_", "_", "_", "user_token_in", "user_token_out">> \o Skip(4) \o <<"from">>)
DlmmClaimFeeIx(owner) ==
  Ix("MeteoraDlmmClaimFee", <<>>, owner + 1, Upto(<<"pool", "position">>, owner) \o <<"owner">>)

DlmmPositionsIx ==
     "Dlmm.initialize_lb_pair"      :> Ix("MeteoraDlmmInitializePool", Must(<<4, 2>>), 1, DlmmPairRoles)
  @@ "Dlmm.initialize_lb_pair2"     :> Ix("MeteoraDlmmInitializePool", Must(<<4>>), 1, DlmmPairRoles)
  @@ "Dlmm.initialize_bin_array"    :> Ix("MeteoraDlmmInitializeBinArray", Must(<<8>>), 1, <<"pool", "bin_array">>)
  @@ "Dlmm.add_liquidity"           :> DlmmLiquidityIx("MeteoraDlmmAddLiquidity", 11)
  @@ "Dlmm.add_liquidity2"          :> DlmmLiquidityIx("MeteoraDlmmAddLiquidity", 9)
  @@ "Dlmm.remove_liquidity"        :> DlmmLiquidityIx("MeteoraDlmmRemoveLiquidity", 11)
  @@ "Dlmm.remove_liquidity2"       :> DlmmLiquidityIx("MeteoraDlmmRemoveLiquidity", 9)
  @@ "Dlmm.initialize_position"     :> DlmmPositionIx(1)
  @@ "Dlmm.initialize_position2"    :> DlmmPositionIx(1)
  @@ "Dlmm.initialize_position_pda" :> DlmmPositionIx(2)
  @@ "Dlmm.close_position"          :>
       Ix("MeteoraDlmmClosePosition", <<>>, 5, <<"position", "pool", "_", "_", "owner">>)
  @@ "Dlmm.close_position2"         :> Ix("MeteoraDlmmClosePosition", <<>>, 2, <<"position", "owner">>)

DlmmSwapsIx ==
     "Dlmm.swap"                    :> DlmmSwapIx(Rest(AtLeast(16)) \o Must(<<8, 8>>))
  @@ "Dlmm.swap2"                   :> DlmmSwapIx(Rest(AtLeast(16)) \o Must(<<8, 8>>))
  @@ "Dlmm.swap_exact_out"          :> DlmmSwapIx(Must(<<8>>) \o Zero(<<8>>))
  @@ "Dlmm.swap_exact_out2"         :> DlmmSwapIx(Must(<<8>>) \o Zero(<<8>>))
  @@ "Dlmm.swap_with_price_impact"  :> DlmmSwapIx(Must(<<8>>))
  @@ "Dlmm.swap_with_price_impact2" :> DlmmSwapIx(Must(<<8>>))
  @@ "Dlmm.claim_fee"               :> DlmmClaimFeeIx(4)
  @@ "Dlmm.claim_fee2"              :> DlmmClaimFeeIx(2)

DlmmIx == DlmmPositionsIx @@ DlmmSwapsIx

(* meteora_damm_ix.ts: the swap takes its vaults and mints only when all of them are there. *)

DammSwapForms ==
  <<Form(11, <<"_", "pool", "_", "_", "token_a_vault", "token_b_vault", "token_a_mint", "token_b_mint", "_",
               "token_a_program", "token_b_program">>),
    Form(0, <<"_", "pool">>)>>
DammRemoveRoles == <<"_", "pool", "position">> \o Skip(7) \o <<"owner">>

DammIx ==
     "DammV2.swap"          :> IxForms("MeteoraDammV2Swap", Must(<<8, 8>>), DammSwapForms)
  @@ "DammV2.swap2"         :> IxForms("MeteoraDammV2Swap", Must(<<8, 8, 1>>), DammSwapForms)
  @@ "DammV2.add_liquidity" :>
       Ix("MeteoraDammV2AddLiquidity", Must(<<16, 8, 8>>), 0, <<"pool", "position">> \o Skip(7) \o <<"owner">>)
  @@ "DammV2.remove_liquidity"     :> Ix("MeteoraDammV2RemoveLiquidity", Must(<<16, 8, 8>>), 0, DammRemoveRoles)
  @@ "DammV2.remove_all_liquidity" :> Ix("MeteoraDammV2RemoveLiquidity", Must(<<8, 8>>), 0, DammRemoveRoles)
  @@ "DammV2.initialize_pool"      :>
       Ix("MeteoraDammV2InitializePool", Must(<<16, 16>>) \o Option(8), 10,
          <<"creator", "position_nft_mint">> \o Skip(4) \o <<"pool", "position", "token_a_mint", "token_b_mint">>)
  @@ "DammV2.create_position"      :>
       Ix("MeteoraDammV2CreatePosition", <<>>, 5, <<"owner", "position_nft_mint", "_", "pool", "position">>)
  @@ "DammV2.close_position"       :>
       Ix("MeteoraDammV2ClosePosition", <<>>, 7, <<"position_nft_mint", "_", "pool", "position", "_", "_", "owner">>)

-----------------------------------------------------------------------------
\* The decoder parseInstructionUnified calls for each program; the DBC has none.
Instructions ==
  [PumpFun |-> PumpFunIx, PumpFees |-> PumpFeesIx, PumpSwap |-> PumpSwapIx, Launchlab |-> LaunchlabIx,
   Clmm |-> ClmmIx, Cpmm |-> CpmmIx, AmmV4 |-> AmmV4Ix, Orca |-> OrcaIx, Pools |-> PoolsIx,
   DammV2 |-> DammIx, Dlmm |-> DlmmIx, Dbc |-> << >>]

\* normalInstructionDataMayParse: what is left of them when the instruction is a CPI.
MayParse(p, name) ==
  /\ p # "DammV2"
  /\ name \notin {"Launchlab.migrate_to_amm", "Launchlab.migrate_to_cpswap", "Launchlab.TradeEvent",
                  "Launchlab.PoolCreateEvent"}

\* parseInstructionUnified and, for a CPI, parseInnerCompiledInstructionIfSupported: the type of the
\* event an instruction with n accounts and len bytes of arguments gives, "none" if it gives none.
InstructionEvent(f, p, name, inner, n, len, k) ==
  LET ix == Instructions[p][name]
  IN IF /\ inner => MayParse(p, name)
        /\ AllowsInstructionParsing(f)
        /\ WantsProgram(f, p)
        /\ Decodes(ix, n, len, k)
        /\ ShouldInclude(f, ix.type)
     THEN Normalized(f, ix.type) ELSE "none"
=============================================================================
