------------------------------ MODULE Parsers ------------------------------
(***************************************************************************)
(* The readers of src/app/src/generated: an instruction taken apart again, *)
(* its kind told from its first bytes and its accounts named one after the *)
(* other.  The application does not call them; indexers and explorers of   *)
(* the program do.  They name what the program reads by place, so builder, *)
(* reader and program have to agree on every list.                         *)
(***************************************************************************)
EXTENDS GeneratedClient

\* An error the reader throws.
Throws == [error |-> TRUE]

\* Mutant: the first account is read twice.
Parsed_OneBehind(ix, rows) ==
  IF Len(ix.metas) < Len(rows) THEN Throws
  ELSE [ accounts |-> [a \in {rows[i].account : i \in DOMAIN rows} |->
                         LET i == CHOOSE j \in DOMAIN rows : rows[j].account = a
                         IN ix.metas[IF i = 1 THEN 1 ELSE i - 1]],
         data |-> ix.args ]

\* The accounts of the list by name, in order; those that follow are left alone.
Parsed(ix, rows) ==
  IF Len(ix.metas) < Len(rows) THEN Throws
  ELSE [ accounts |-> [a \in {rows[i].account : i \in DOMAIN rows} |->
                         ix.metas[CHOOSE i \in DOMAIN rows : rows[i].account = a]],
         data |-> ix.args ]

ParseAdminAcceptOwnershipInstruction(ix) == Parsed(ix, AdminAcceptOwnershipRows)
ParseAdminModifyFeeInstruction(ix) == Parsed(ix, AdminRows)
ParseAdminTransferOwnershipInstruction(ix) == Parsed(ix, AdminTransferOwnershipRows)
ParseAdminUpdateContributionAmountMinUsdInstruction(ix) == Parsed(ix, AdminRows)
ParseAdminUpdateDustThresholdUsdInstruction(ix) == Parsed(ix, AdminRows)
ParseAdminUpdateFundrisingPeriodMaxInstruction(ix) == Parsed(ix, AdminRows)
ParseAdminUpdateIdlePeriodInstruction(ix) == Parsed(ix, AdminRows)
ParseAdminUpdateMaxAssetCountInstruction(ix) == Parsed(ix, AdminRows)
ParseAdminUpdateMaxSlippageBpsInstruction(ix) == Parsed(ix, AdminRows)
ParseAdminUpdateOperatorInstruction(ix) == Parsed(ix, AdminUpdateOperatorRows)
ParseAdminUpdateOracleMaxAgeInstruction(ix) == Parsed(ix, AdminRows)
ParseAdminUpdateRaiseAmountMinUsdInstruction(ix) == Parsed(ix, AdminRows)
ParseAdminUpdateWithdrawCooldownMaxInstruction(ix) == Parsed(ix, AdminRows)
ParseApproveOraclePoolInstruction(ix) == Parsed(ix, OracleRows)
ParseCloseOraclePoolInstruction(ix) == Parsed(ix, OracleRows)
ParseCloseVaultInstruction(ix) == Parsed(ix, CloseVaultRows)
ParseCreateAdminPoolInstruction(ix) == Parsed(ix, CreateAdminPoolRows)
ParseCreateInvestorPoolInstruction(ix) == Parsed(ix, CreateInvestorPoolRows)
ParseCreateMoneyManagerPoolInstruction(ix) == Parsed(ix, CreateMoneyManagerPoolRows)
ParseCreateOraclePoolInstruction(ix) == Parsed(ix, CreateOraclePoolRows)
ParseCreateVaultInstruction(ix) == Parsed(ix, CreateVaultRows)
ParseDepositTokenFundInstruction(ix) == Parsed(ix, DepositTokenFundRows)
ParseGetPriceInfoInstruction(ix) == Parsed(ix, GetPriceInfoRows)
ParseRevokeTradingDelegateInstruction(ix) == Parsed(ix, RevokeTradingDelegateRows)
ParseSetTradingDelegateInstruction(ix) == Parsed(ix, SetTradingDelegateRows)
ParseSwapInstruction(ix) == Parsed(ix, SwapRows)
ParseUpdateOraclePoolInstruction(ix) == Parsed(ix, OracleRows)
ParseWithdrawMoneyManagementFeeInstruction(ix) == Parsed(ix, WithdrawMoneyManagementFeeRows)
ParseWithdrawTokenFundInstruction(ix) == Parsed(ix, WithdrawTokenFundRows)

\* The kind of an instruction, by its first eight bytes, which `name' stands for.
InstructionTypes ==
  { "admin_accept_ownership", "admin_modify_fee",
    "admin_transfer_ownership", "admin_update_contribution_amount_min_usd",
    "admin_update_dust_threshold_usd", "admin_update_fundrising_period_max",
    "admin_update_idle_period", "admin_update_max_asset_count",
    "admin_update_max_slippage_bps", "admin_update_operator",
    "admin_update_oracle_max_age", "admin_update_raise_amount_min_usd",
    "admin_update_withdraw_cooldown_max", "approve_oracle_pool",
    "close_oracle_pool", "close_vault",
    "create_admin_pool", "create_investor_pool",
    "create_money_manager_pool", "create_oracle_pool",
    "create_vault", "deposit_token_fund",
    "get_price_info", "revoke_trading_delegate",
    "set_trading_delegate", "swap",
    "update_oracle_pool", "withdraw_money_management_fee",
    "withdraw_token_fund" }
IdentifyFbytVaultInstruction(ix) == IF ix.name \in InstructionTypes THEN ix.name ELSE Throws

ParseFbytVaultInstruction(ix) ==
  LET type == IdentifyFbytVaultInstruction(ix) IN
  CASE type = "admin_accept_ownership" -> ParseAdminAcceptOwnershipInstruction(ix)
    [] type = "admin_modify_fee" -> ParseAdminModifyFeeInstruction(ix)
    [] type = "admin_transfer_ownership" -> ParseAdminTransferOwnershipInstruction(ix)
    [] type = "admin_update_contribution_amount_min_usd" ->
           ParseAdminUpdateContributionAmountMinUsdInstruction(ix)
    [] type = "admin_update_dust_threshold_usd" ->
           ParseAdminUpdateDustThresholdUsdInstruction(ix)
    [] type = "admin_update_fundrising_period_max" ->
           ParseAdminUpdateFundrisingPeriodMaxInstruction(ix)
    [] type = "admin_update_idle_period" -> ParseAdminUpdateIdlePeriodInstruction(ix)
    [] type = "admin_update_max_asset_count" -> ParseAdminUpdateMaxAssetCountInstruction(ix)
    [] type = "admin_update_max_slippage_bps" -> ParseAdminUpdateMaxSlippageBpsInstruction(ix)
    [] type = "admin_update_operator" -> ParseAdminUpdateOperatorInstruction(ix)
    [] type = "admin_update_oracle_max_age" -> ParseAdminUpdateOracleMaxAgeInstruction(ix)
    [] type = "admin_update_raise_amount_min_usd" ->
           ParseAdminUpdateRaiseAmountMinUsdInstruction(ix)
    [] type = "admin_update_withdraw_cooldown_max" ->
           ParseAdminUpdateWithdrawCooldownMaxInstruction(ix)
    [] type = "approve_oracle_pool" -> ParseApproveOraclePoolInstruction(ix)
    [] type = "close_oracle_pool" -> ParseCloseOraclePoolInstruction(ix)
    [] type = "close_vault" -> ParseCloseVaultInstruction(ix)
    [] type = "create_admin_pool" -> ParseCreateAdminPoolInstruction(ix)
    [] type = "create_investor_pool" -> ParseCreateInvestorPoolInstruction(ix)
    [] type = "create_money_manager_pool" -> ParseCreateMoneyManagerPoolInstruction(ix)
    [] type = "create_oracle_pool" -> ParseCreateOraclePoolInstruction(ix)
    [] type = "create_vault" -> ParseCreateVaultInstruction(ix)
    [] type = "deposit_token_fund" -> ParseDepositTokenFundInstruction(ix)
    [] type = "get_price_info" -> ParseGetPriceInfoInstruction(ix)
    [] type = "revoke_trading_delegate" -> ParseRevokeTradingDelegateInstruction(ix)
    [] type = "set_trading_delegate" -> ParseSetTradingDelegateInstruction(ix)
    [] type = "swap" -> ParseSwapInstruction(ix)
    [] type = "update_oracle_pool" -> ParseUpdateOraclePoolInstruction(ix)
    [] type = "withdraw_money_management_fee" -> ParseWithdrawMoneyManagementFeeInstruction(ix)
    [] type = "withdraw_token_fund" -> ParseWithdrawTokenFundInstruction(ix)
    [] OTHER -> Throws

=============================================================================
