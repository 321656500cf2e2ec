--------------------------- MODULE GeneratedClient ---------------------------
(***************************************************************************)
(* The instruction builders of src/app/src/generated: what each puts at    *)
(* which place of an instruction's account list, with which flags, and     *)
(* which addresses it fills in when the caller gives none.  `input' is the *)
(* record the caller passes; input ?? default is the `input.x ?? default'  *)
(* of the code.  A builder called Get...InstructionAsync derives the       *)
(* missing addresses, the one without Async only knows program ids.  Of    *)
(* the two forms of an instruction the ones the application calls are      *)
(* here, with what they call.                                              *)
(*                                                                         *)
(* Arguments are carried only where another component reads them; amounts  *)
(* and limits are those of modules Vault and AdminPool.                    *)
(***************************************************************************)
EXTENDS Addresses, Sequences

\* What is given, and the default for what is not.
input ?? default ==
  [a \in DOMAIN input \cup DOMAIN default |-> IF a \in DOMAIN input THEN input[a] ELSE default[a]]

\* A row of an account list.
Ro(a) == [account |-> a, mut |-> FALSE, signer |-> FALSE]
Mut(a) == [account |-> a, mut |-> TRUE, signer |-> FALSE]
Signer(a) == [account |-> a, mut |-> FALSE, signer |-> TRUE]
SignerMut(a) == [account |-> a, mut |-> TRUE, signer |-> TRUE]

Meta(address, row) == [address |-> address, mut |-> row.mut, signer |-> row.signer]

Instruction(name, input, rows, arguments) ==
  [ name  |-> name,
    metas |-> [i \in DOMAIN rows |-> Meta(input[rows[i].account], rows[i])],
    args  |-> [a \in arguments |-> input[a]] ]

\* The defaults.
WithAdminPool(input) == input ?? [adminPool |-> FindAdminPoolPda]
WithOraclePool(input) ==
  input ?? [oraclePool |-> FindOraclePoolPda(input.adminPool, input.tokenMint)]
WithMoneyManagerPool(input) ==
  input ?? [moneyManagerPool |-> FindMoneyManagerPoolPda(input.adminPool, input.moneyManager)]
WithAssetRegistry(input) == input ?? [assetRegistry |-> FindAssetRegistryPda(input.vaultPool)]
WithInvestorPool(input) ==
  input ?? [investorPool |-> FindInvestorPoolPda(input.investor, input.adminPool,
                                                 input.vaultPool, input.tokenMint)]
WithSystemProgram(input) == input ?? [systemProgram |-> SystemProgram]
WithTokenProgram(input) == input ?? [tokenProgram |-> TokenProgram]
WithTokenPrograms(input) == WithTokenProgram(input) ?? [tokenProgram2022 |-> Token2022Program]

-----------------------------------------------------------------------------
(* The protocol's account, its owner and its limits.                        *)

CreateAdminPoolRows ==
  << SignerMut("admin"), Mut("operator"), Ro("program"), Ro("programData"),
     Mut("adminPool"), Ro("systemProgram") >>
GetCreateAdminPoolInstruction(input) ==
  Instruction("create_admin_pool", WithSystemProgram(input ?? [program |-> FbytProgram]),
              CreateAdminPoolRows, {})

\* Every handler that sets a limit takes the same two accounts.
AdminRows == << SignerMut("admin"), Mut("adminPool") >>

GetAdminModifyFeeInstruction(input) == Instruction("admin_modify_fee", input, AdminRows, {})
GetAdminModifyFeeInstructionAsync(input) == GetAdminModifyFeeInstruction(WithAdminPool(input))

GetAdminUpdateContributionAmountMinUsdInstruction(input) ==
  Instruction("admin_update_contribution_amount_min_usd", input, AdminRows, {})
GetAdminUpdateContributionAmountMinUsdInstructionAsync(input) ==
  GetAdminUpdateContributionAmountMinUsdInstruction(WithAdminPool(input))

GetAdminUpdateDustThresholdUsdInstruction(input) ==
  Instruction("admin_update_dust_threshold_usd", input, AdminRows, {})
GetAdminUpdateDustThresholdUsdInstructionAsync(input) ==
  GetAdminUpdateDustThresholdUsdInstruction(WithAdminPool(input))

GetAdminUpdateFundrisingPeriodMaxInstruction(input) ==
  Instruction("admin_update_fundrising_period_max", input, AdminRows, {})
GetAdminUpdateFundrisingPeriodMaxInstructionAsync(input) ==
  GetAdminUpdateFundrisingPeriodMaxInstruction(WithAdminPool(input))

GetAdminUpdateIdlePeriodInstruction(input) ==
  Instruction("admin_update_idle_period", input, AdminRows, {})
GetAdminUpdateIdlePeriodInstructionAsync(input) ==
  GetAdminUpdateIdlePeriodInstruction(WithAdminPool(input))

GetAdminUpdateMaxAssetCountInstruction(input) ==
  Instruction("admin_update_max_asset_count", input, AdminRows, {})
GetAdminUpdateMaxAssetCountInstructionAsync(input) ==
  GetAdminUpdateMaxAssetCountInstruction(WithAdminPool(input))

GetAdminUpdateMaxSlippageBpsInstruction(input) ==
  Instruction("admin_update_max_slippage_bps", input, AdminRows, {})
GetAdminUpdateMaxSlippageBpsInstructionAsync(input) ==
  GetAdminUpdateMaxSlippageBpsInstruction(WithAdminPool(input))

GetAdminUpdateOracleMaxAgeInstruction(input) ==
  Instruction("admin_update_oracle_max_age", input, AdminRows, {})
GetAdminUpdateOracleMaxAgeInstructionAsync(input) ==
  GetAdminUpdateOracleMaxAgeInstruction(WithAdminPool(input))

GetAdminUpdateRaiseAmountMinUsdInstruction(input) ==
  Instruction("admin_update_raise_amount_min_usd", input, AdminRows, {})
GetAdminUpdateRaiseAmountMinUsdInstructionAsync(input) ==
  GetAdminUpdateRaiseAmountMinUsdInstruction(WithAdminPool(input))

GetAdminUpdateWithdrawCooldownMaxInstruction(input) ==
  Instruction("admin_update_withdraw_cooldown_max", input, AdminRows, {})
GetAdminUpdateWithdrawCooldownMaxInstructionAsync(input) ==
  GetAdminUpdateWithdrawCooldownMaxInstruction(WithAdminPool(input))

AdminUpdateOperatorRows == << SignerMut("admin"), Mut("operator"), Mut("adminPool") >>
GetAdminUpdateOperatorInstruction(input) ==
  Instruction("admin_update_operator", input, AdminUpdateOperatorRows, {})
GetAdminUpdateOperatorInstructionAsync(input) ==
  GetAdminUpdateOperatorInstruction(WithAdminPool(input))

AdminTransferOwnershipRows ==
  << SignerMut("admin"), Mut("pendingAdmin"), Mut("adminPool") >>
GetAdminTransferOwnershipInstruction(input) ==
  Instruction("admin_transfer_ownership", input, AdminTransferOwnershipRows, {})
GetAdminTransferOwnershipInstructionAsync(input) ==
  GetAdminTransferOwnershipInstruction(WithAdminPool(input))

AdminAcceptOwnershipRows == << SignerMut("pendingAdmin"), Mut("adminPool") >>
GetAdminAcceptOwnershipInstruction(input) ==
  Instruction("admin_accept_ownership", input, AdminAcceptOwnershipRows, {})
GetAdminAcceptOwnershipInstructionAsync(input) ==
  GetAdminAcceptOwnershipInstruction(WithAdminPool(input))

-----------------------------------------------------------------------------
(* The oracle registry.                                                     *)

CreateOraclePoolRows ==
  << SignerMut("requester"), Mut("adminPool"), Mut("tokenMint"), Mut("oraclePool"),
     Ro("systemProgram") >>
GetCreateOraclePoolInstruction(input) ==
  Instruction("create_oracle_pool", WithSystemProgram(input), CreateOraclePoolRows, {"feedId"})
GetCreateOraclePoolInstructionAsync(input) ==
  GetCreateOraclePoolInstruction(WithOraclePool(WithAdminPool(input)))

OracleRows == << SignerMut("admin"), Mut("adminPool"), Mut("tokenMint"), Mut("oraclePool") >>

GetApproveOraclePoolInstruction(input) ==
  Instruction("approve_oracle_pool", input, OracleRows, {})
GetApproveOraclePoolInstructionAsync(input) ==
  GetApproveOraclePoolInstruction(WithOraclePool(WithAdminPool(input)))

GetUpdateOraclePoolInstruction(input) ==
  Instruction("update_oracle_pool", input, OracleRows, {"feedId"})
GetUpdateOraclePoolInstructionAsync(input) ==
  GetUpdateOraclePoolInstruction(WithOraclePool(WithAdminPool(input)))

GetCloseOraclePoolInstruction(input) ==
  Instruction("close_oracle_pool", input, OracleRows, {})
GetCloseOraclePoolInstructionAsync(input) ==
  GetCloseOraclePoolInstruction(WithOraclePool(WithAdminPool(input)))

GetPriceInfoRows ==
  << SignerMut("payer"), Ro("adminPool"), Mut("priceUpdate"), Ro("systemProgram") >>
GetGetPriceInfoInstruction(input) ==
  Instruction("get_price_info", WithSystemProgram(input), GetPriceInfoRows, {"feedId"})
GetGetPriceInfoInstructionAsync(input) == GetGetPriceInfoInstruction(WithAdminPool(input))

-----------------------------------------------------------------------------
(* Vaults and positions.                                                    *)

CreateMoneyManagerPoolRows ==
  << Ro("adminPool"), SignerMut("moneyManager"), Mut("moneyManagerPool"),
     Ro("systemProgram") >>
GetCreateMoneyManagerPoolInstruction(input) ==
  Instruction("create_money_manager_pool", WithSystemProgram(input),
              CreateMoneyManagerPoolRows, {})
GetCreateMoneyManagerPoolInstructionAsync(input) ==
  GetCreateMoneyManagerPoolInstruction(WithMoneyManagerPool(WithAdminPool(input)))

CreateVaultRows ==
  << Mut("adminPool"), Mut("admin"), SignerMut("moneyManager"),
     Mut("moneyManagerPool"), Mut("vaultPool"), Mut("assetRegistry"),
     Ro("oraclePool"), Ro("priceUpdate"), Mut("tokenMint"), Ro("systemProgram") >>
GetCreateVaultInstruction(input) ==
  Instruction("create_vault", WithSystemProgram(input), CreateVaultRows, {})
\* The vault itself is always the caller's to name.
GetCreateVaultInstructionAsync(input) ==
  GetCreateVaultInstruction(WithAssetRegistry(WithMoneyManagerPool(WithAdminPool(input))))

CreateInvestorPoolRows ==
  << SignerMut("investor"), Ro("adminPool"), Mut("vaultPool"), Mut("tokenMint"),
     Mut("investorPool"), Ro("systemProgram") >>
GetCreateInvestorPoolInstruction(input) ==
  Instruction("create_investor_pool", WithSystemProgram(input), CreateInvestorPoolRows, {})
GetCreateInvestorPoolInstructionAsync(input) ==
  GetCreateInvestorPoolInstruction(WithInvestorPool(WithAdminPool(input)))

DepositTokenFundRows ==
  << SignerMut("investor"), Ro("adminPool"), Mut("vaultPool"), Mut("assetRegistry"),
     Mut("investorPool"), Mut("oraclePool"), Mut("fromAccount"), Mut("toAccount"),
     Mut("tokenMint"), Ro("priceUpdate"), Ro("tokenProgram"), Ro("systemProgram") >>
GetDepositTokenFundInstruction(input) ==
  Instruction("deposit_token_fund", WithSystemProgram(WithTokenProgram(input)),
              DepositTokenFundRows, {})
WithDepositAccounts(input) ==
  LET i == WithTokenProgram(input)
  IN i ?? [fromAccount |-> FindAssociatedTokenPda(i.investor, i.tokenProgram, i.tokenMint),
           toAccount   |-> FindAssociatedTokenPda(i.vaultPool, i.tokenProgram, i.tokenMint)]
GetDepositTokenFundInstructionAsync(input) ==
  GetDepositTokenFundInstruction(
    WithDepositAccounts(WithInvestorPool(WithAssetRegistry(WithAdminPool(input)))))

WithdrawTokenFundRows ==
  << SignerMut("investor"), Mut("moneyManager"), Ro("adminPool"), Mut("vaultPool"),
     Mut("assetRegistry"), Mut("investorPool"), Ro("tokenProgram"),
     Ro("tokenProgram2022"), Ro("systemProgram") >>
GetWithdrawTokenFundInstruction(input) ==
  Instruction("withdraw_token_fund", WithSystemProgram(WithTokenPrograms(input)),
              WithdrawTokenFundRows, {})
\* The position is the caller's to name: its address needs the mint, which is not given.
GetWithdrawTokenFundInstructionAsync(input) ==
  GetWithdrawTokenFundInstruction(WithAssetRegistry(WithAdminPool(input)))

SwapRows ==
  << Mut("adminPool"), Mut("admin"), SignerMut("trader"), Mut("tokenMint"),
     Mut("vaultPool"), Mut("assetRegistry"), Ro("inputMint"), Ro("inputMintProgram"),
     Ro("outputMint"), Ro("outputMintProgram"), Mut("vaultInputTokenAccount"),
     Mut("vaultOutputTokenAccount"), Mut("oraclePoolFrom"), Mut("oraclePoolTo"),
     Ro("inputPriceUpdate"), Ro("outputPriceUpdate"), Ro("jupiterProgram"),
     Ro("systemProgram") >>
GetSwapInstruction(input) ==
  Instruction("swap", WithSystemProgram(input ?? [jupiterProgram |-> JupiterProgram]),
              SwapRows, {})

CloseVaultRows ==
  << Ro("adminPool"), Mut("vaultPool"), SignerMut("moneyManager"), Mut("tokenMint") >>
GetCloseVaultInstruction(input) == Instruction("close_vault", input, CloseVaultRows, {})
GetCloseVaultInstructionAsync(input) == GetCloseVaultInstruction(WithAdminPool(input))

SetTradingDelegateRows == << Mut("vaultPool"), Signer("moneyManager") >>
GetSetTradingDelegateInstruction(input) ==
  Instruction("set_trading_delegate", input, SetTradingDelegateRows, {"tradingDelegate"})

RevokeTradingDelegateRows == << Mut("vaultPool"), Signer("moneyManager") >>
GetRevokeTradingDelegateInstruction(input) ==
  Instruction("revoke_trading_delegate", input, RevokeTradingDelegateRows, {})

WithdrawMoneyManagementFeeRows ==
  << Ro("adminPool"), SignerMut("operator"), Mut("vaultPool"), Ro("assetRegistry"),
     Ro("tokenProgram"), Ro("tokenProgram2022") >>
GetWithdrawMoneyManagementFeeInstruction(input) ==
  Instruction("withdraw_money_management_fee", WithTokenPrograms(input),
              WithdrawMoneyManagementFeeRows, {})
GetWithdrawMoneyManagementFeeInstructionAsync(input) ==
  GetWithdrawMoneyManagementFeeInstruction(WithAssetRegistry(WithAdminPool(input)))

=============================================================================
