----------------------------- MODULE Pages_proofs -----------------------------
(***************************************************************************)
(* The pages and the program they send transactions to, for any wallets,   *)
(* mints, feeds and clicks, and any number of vaults: every account stays  *)
(* where its seeds put it, decodable and with the accounts it goes with;   *)
(* the portfolio is exact; and a sent instruction reads back as the        *)
(* program takes it.                                                       *)
(*                                                                         *)
(* The invariant of the chain has to say of each account more than the     *)
(* properties do: that a position's vault is of its mint, that a token     *)
(* account's address has the program of its mint, that a registry lists    *)
(* mints.  Nothing an instruction does depends on the page it came from,   *)
(* so the argument is in three parts: what any instruction leaves of a     *)
(* chain, if the few fields that the program stores unread are keys and    *)
(* feeds; that a transaction is a sequence of instructions; and that each  *)
(* page builds such instructions.                                          *)
(***************************************************************************)
EXTENDS Pages, Sums_proofs, TLAPS

AssetRegistries == [type : {"AssetRegistry"}, asset_mints : Seq(Mints)]
AccountTypes ==
  { "AdminPool", "OraclePool", "MoneyManagerPool", "VaultPool", "InvestorPool",
    "AssetRegistry", "TokenAccount" }

\* A vault at its address, with its registry and a manager's pool that has counted it.
VaultOK(c, address) ==
  LET vault == c[address]
      pool == FindMoneyManagerPoolPda(AdminPool, vault.money_manager)
  IN /\ vault \in VaultPools
     /\ address = VaultPoolAddress(AdminPool, vault.money_manager, vault.index)
     /\ Holds(c, FindAssetRegistryPda(address), "AssetRegistry")
     /\ Holds(c, pool, "MoneyManagerPool")
     /\ vault.index < c[pool].vaults_amount

\* A position at its address, in a vault of its mint.
PositionOK(c, address) ==
  LET position == c[address]
  IN /\ position \in InvestorPools(c)
     /\ address = Position(position.investor, position.vault_pool, position.token_mint)
     /\ c[position.vault_pool].token_mint = position.token_mint

AccountOK(c, address) ==
  LET account == c[address]
  IN /\ account.type \in AccountTypes
     /\ account.type = "AdminPool" => account \in AdminPools /\ address = AdminPool
     /\ account.type = "OraclePool" =>
          account \in OraclePools /\ address = Oracle(account.token_mint)
     /\ account.type = "MoneyManagerPool" =>
          /\ account \in MoneyManagerPools
          /\ \E k \in Keys : address = FindMoneyManagerPoolPda(AdminPool, k)
     /\ account.type = "AssetRegistry" =>
          /\ account \in AssetRegistries
          /\ \E v \in Vaults(c) : address = FindAssetRegistryPda(v)
     /\ account.type = "VaultPool" => VaultOK(c, address)
     /\ account.type = "InvestorPool" => PositionOK(c, address)
     /\ account.type = "TokenAccount" =>
          /\ account.mint \in Mints
          /\ address = FindAssociatedTokenPda(account.owner, MintProgram[account.mint],
                                              account.mint)

ChainInv(c) == \A address \in DOMAIN c : AccountOK(c, address)

-----------------------------------------------------------------------------
(* What an account relies on of others.                                     *)

\* No account goes but an oracle, and what positions and vaults rely on stays.
Lasts(c, d) ==
  \A x \in DOMAIN c : c[x].type # "OraclePool" =>
    /\ x \in DOMAIN d
    /\ d[x].type = c[x].type
    /\ c[x].type = "VaultPool" => d[x].token_mint = c[x].token_mint
    /\ c[x].type = "MoneyManagerPool" => d[x].vaults_amount >= c[x].vaults_amount

LEMMA Untouched ==
  ASSUME NEW c, NEW d, ChainInv(c), Lasts(c, d),
         \A x \in DOMAIN d : d[x].type = "MoneyManagerPool" => d[x].vaults_amount \in Nat,
         NEW x \in DOMAIN c, d[x] = c[x]
  PROVE  AccountOK(d, x)
<1>0. AccountOK(c, x)
  BY DEF ChainInv
<1>1. CASE c[x].type = "VaultPool"
  <2> DEFINE registry == FindAssetRegistryPda(x)
             pool == FindMoneyManagerPoolPda(AdminPool, c[x].money_manager)
  <2>1. VaultOK(c, x)
    BY <1>0, <1>1 DEF AccountOK
  <2>2. /\ registry \in DOMAIN c /\ c[registry].type = "AssetRegistry"
        /\ pool \in DOMAIN c /\ c[pool].type = "MoneyManagerPool"
        /\ c[x].index < c[pool].vaults_amount
        /\ c[x] \in VaultPools
        /\ x = VaultPoolAddress(AdminPool, c[x].money_manager, c[x].index)
    BY <2>1 DEF VaultOK, Holds
  <2> HIDE DEF registry, pool
  <2>3. /\ registry \in DOMAIN d /\ d[registry].type = "AssetRegistry"
        /\ pool \in DOMAIN d /\ d[pool].type = "MoneyManagerPool"
        /\ d[pool].vaults_amount >= c[pool].vaults_amount
    BY <2>2 DEF Lasts
  <2>4. c[pool].vaults_amount \in Nat /\ d[pool].vaults_amount \in Nat /\ c[x].index \in Nat
    <3>1. AccountOK(c, pool)
      BY <2>2 DEF ChainInv
    <3>2. c[pool] \in MoneyManagerPools
      BY <2>2, <3>1 DEF AccountOK
    <3> QED
      BY <2>2, <2>3, <3>2 DEF MoneyManagerPools, VaultPools
  <2>5. d[x].index < d[pool].vaults_amount
    BY <2>2, <2>3, <2>4
  <2>6. VaultOK(d, x)
    BY <2>2, <2>3, <2>5 DEF VaultOK, Holds, registry, pool
  <2> QED
    BY <1>1, <2>6 DEF AccountOK, AccountTypes
<1>2. CASE c[x].type = "InvestorPool"
  <2> DEFINE v == c[x].vault_pool
  <2>1. PositionOK(c, x)
    BY <1>0, <1>2 DEF AccountOK
  <2>2. /\ c[x] \in InvestorPools(c) /\ v \in DOMAIN c /\ c[v].type = "VaultPool"
        /\ c[v].token_mint = c[x].token_mint
        /\ x = Position(c[x].investor, v, c[x].token_mint)
    BY <2>1 DEF PositionOK, InvestorPools, Vaults
  <2>3. v \in DOMAIN d /\ d[v].type = "VaultPool" /\ d[v].token_mint = c[v].token_mint
    BY <2>2 DEF Lasts
  <2>4. v \in Vaults(d)
    BY <2>3 DEF Vaults
  <2>5. c[x] \in InvestorPools(d)
    BY <2>2, <2>4 DEF InvestorPools
  <2>6. PositionOK(d, x)
    BY <2>2, <2>3, <2>5 DEF PositionOK
  <2> QED
    BY <1>2, <2>6 DEF AccountOK, AccountTypes
<1>3. CASE c[x].type = "AssetRegistry"
  <2>1. PICK v \in Vaults(c) : x = FindAssetRegistryPda(v)
    BY <1>0, <1>3 DEF AccountOK
  <2>2. v \in Vaults(d)
    BY DEF Lasts, Vaults
  <2> QED
    BY <1>0, <1>3, <2>1, <2>2 DEF AccountOK
<1>4. CASE c[x].type \notin {"VaultPool", "InvestorPool", "AssetRegistry"}
  BY <1>0, <1>4 DEF AccountOK
<1> QED
  BY <1>1, <1>2, <1>3, <1>4

\* So of a chain that lasts only the accounts that are new or changed have to be looked at.
LEMMA ChainStep ==
  ASSUME NEW c, NEW d, ChainInv(c), Lasts(c, d),
         \A x \in DOMAIN d : AccountOK(d, x) \/ (x \in DOMAIN c /\ d[x] = c[x])
  PROVE  ChainInv(d)
<1>1. \A x \in DOMAIN d : d[x].type = "MoneyManagerPool" => d[x].vaults_amount \in Nat
  BY DEF AccountOK, ChainInv, MoneyManagerPools
<1> QED
  BY <1>1, Untouched DEF ChainInv

-----------------------------------------------------------------------------
(* The lists of accounts: builder, parser and struct.                       *)

\* The rows by which the client builds and reads each instruction.
RowsOf ==
  [ admin_accept_ownership |-> AdminAcceptOwnershipRows,
    admin_modify_fee |-> AdminRows,
    admin_transfer_ownership |-> AdminTransferOwnershipRows,
    admin_update_contribution_amount_min_usd |-> AdminRows,
    admin_update_dust_threshold_usd |-> AdminRows,
    admin_update_fundrising_period_max |-> AdminRows,
    admin_update_idle_period |-> AdminRows,
    admin_update_max_asset_count |-> AdminRows,
    admin_update_max_slippage_bps |-> AdminRows,
    admin_update_operator |-> AdminUpdateOperatorRows,
    admin_update_oracle_max_age |-> AdminRows,
    admin_update_raise_amount_min_usd |-> AdminRows,
    admin_update_withdraw_cooldown_max |-> AdminRows,
    approve_oracle_pool |-> OracleRows,
    close_oracle_pool |-> OracleRows,
    close_vault |-> CloseVaultRows,
    create_admin_pool |-> CreateAdminPoolRows,
    create_investor_pool |-> CreateInvestorPoolRows,
    create_money_manager_pool |-> CreateMoneyManagerPoolRows,
    create_oracle_pool |-> CreateOraclePoolRows,
    create_vault |-> CreateVaultRows,
    deposit_token_fund |-> DepositTokenFundRows,
    get_price_info |-> GetPriceInfoRows,
    revoke_trading_delegate |-> RevokeTradingDelegateRows,
    set_trading_delegate |-> SetTradingDelegateRows,
    swap |-> SwapRows,
    update_oracle_pool |-> OracleRows,
    withdraw_money_management_fee |-> WithdrawMoneyManagementFeeRows,
    withdraw_token_fund |-> WithdrawTokenFundRows ]

\* The same accounts in the same order, each once.
AgreeOn(rows, struct, n) ==
  /\ DOMAIN rows = 1..n /\ Len(rows) = n
  /\ DOMAIN struct = 1..n /\ Len(struct) = n
  /\ \A i \in 1..n : rows[i].account = ClientName[struct[i].account]
  /\ \A i \in 1..n : \A j \in 1..n : rows[i].account = rows[j].account => i = j

LEMMA RowsAgree ==
  \A name \in DOMAIN Structs : \E n \in Nat : AgreeOn(RowsOf[name], Structs[name], n)
<1> USE DEF SignerMut, Signer, Mut, Ro
<1>1. AgreeOn(RowsOf["admin_accept_ownership"], Structs["admin_accept_ownership"], 2)
  BY DEF AgreeOn, RowsOf, Structs, ClientName, AdminAcceptOwnershipRows
<1>2. \A name \in LimitInstructions : AgreeOn(RowsOf[name], Structs[name], 2)
  <2>1. AgreeOn(AdminRows, Structs["admin_modify_fee"], 2)
    BY DEF AgreeOn, Structs, ClientName, AdminRows
  <2>2. \A name \in LimitInstructions : RowsOf[name] = AdminRows
    BY DEF RowsOf, LimitInstructions
  <2>3. \A name \in LimitInstructions : Structs[name] = Structs["admin_modify_fee"]
    <3> HIDE DEF SignerMut, Signer, Mut, Ro
    <3> QED
      BY DEF Structs, LimitInstructions
  <2> QED
    BY <2>1, <2>2, <2>3
<1>3. AgreeOn(RowsOf["revoke_trading_delegate"], Structs["revoke_trading_delegate"], 2)
  BY DEF AgreeOn, RowsOf, Structs, ClientName, RevokeTradingDelegateRows
<1>4. AgreeOn(RowsOf["set_trading_delegate"], Structs["set_trading_delegate"], 2)
  BY DEF AgreeOn, RowsOf, Structs, ClientName, SetTradingDelegateRows
<1>5. AgreeOn(RowsOf["admin_transfer_ownership"], Structs["admin_transfer_ownership"], 3)
  BY DEF AgreeOn, RowsOf, Structs, ClientName, AdminTransferOwnershipRows
<1>6. AgreeOn(RowsOf["admin_update_operator"], Structs["admin_update_operator"], 3)
  BY DEF AgreeOn, RowsOf, Structs, ClientName, AdminUpdateOperatorRows
<1>7. /\ AgreeOn(RowsOf["approve_oracle_pool"], Structs["approve_oracle_pool"], 4)
      /\ AgreeOn(RowsOf["close_oracle_pool"], Structs["close_oracle_pool"], 4)
      /\ AgreeOn(RowsOf["update_oracle_pool"], Structs["update_oracle_pool"], 4)
  BY DEF AgreeOn, RowsOf, Structs, ClientName, OracleRows
<1>8. AgreeOn(RowsOf["close_vault"], Structs["close_vault"], 4)
  BY DEF AgreeOn, RowsOf, Structs, ClientName, CloseVaultRows
<1>9. AgreeOn(RowsOf["create_money_manager_pool"], Structs["create_money_manager_pool"], 4)
  BY DEF AgreeOn, RowsOf, Structs, ClientName, CreateMoneyManagerPoolRows
<1>10. AgreeOn(RowsOf["get_price_info"], Structs["get_price_info"], 4)
  BY DEF AgreeOn, RowsOf, Structs, ClientName, GetPriceInfoRows
<1>11. AgreeOn(RowsOf["create_oracle_pool"], Structs["create_oracle_pool"], 5)
  BY DEF AgreeOn, RowsOf, Structs, ClientName, CreateOraclePoolRows
<1>12. AgreeOn(RowsOf["create_admin_pool"], Structs["create_admin_pool"], 6)
  BY DEF AgreeOn, RowsOf, Structs, ClientName, CreateAdminPoolRows
<1>13. AgreeOn(RowsOf["create_investor_pool"], Structs["create_investor_pool"], 6)
  BY DEF AgreeOn, RowsOf, Structs, ClientName, CreateInvestorPoolRows
<1>14. AgreeOn(RowsOf["withdraw_money_management_fee"], Structs["withdraw_money_management_fee"], 6)
  BY DEF AgreeOn, RowsOf, Structs, ClientName, WithdrawMoneyManagementFeeRows
<1>15. AgreeOn(RowsOf["withdraw_token_fund"], Structs["withdraw_token_fund"], 9)
  BY DEF AgreeOn, RowsOf, Structs, ClientName, WithdrawTokenFundRows
<1>16. AgreeOn(RowsOf["create_vault"], Structs["create_vault"], 10)
  BY DEF AgreeOn, RowsOf, Structs, ClientName, CreateVaultRows
<1>17. AgreeOn(RowsOf["deposit_token_fund"], Structs["deposit_token_fund"], 12)
  BY DEF AgreeOn, RowsOf, Structs, ClientName, DepositTokenFundRows
<1>18. AgreeOn(RowsOf["swap"], Structs["swap"], 18)
  BY DEF AgreeOn, RowsOf, Structs, ClientName, SwapRows
<1>19. \A name \in DOMAIN Structs :
        name \in { "admin_accept_ownership", "admin_modify_fee",
                  "admin_update_contribution_amount_min_usd",
                  "admin_update_dust_threshold_usd", "admin_update_fundrising_period_max",
                  "admin_update_idle_period", "admin_update_max_asset_count",
                  "admin_update_max_slippage_bps", "admin_update_oracle_max_age",
                  "admin_update_raise_amount_min_usd", "admin_update_withdraw_cooldown_max",
                  "revoke_trading_delegate", "set_trading_delegate",
                  "admin_transfer_ownership", "admin_update_operator", "approve_oracle_pool",
                  "close_oracle_pool", "update_oracle_pool", "close_vault",
                  "create_money_manager_pool", "get_price_info", "create_oracle_pool",
                  "create_admin_pool", "create_investor_pool", "withdraw_money_management_fee",
                  "withdraw_token_fund", "create_vault", "deposit_token_fund", "swap" }
  BY DEF Structs
<1> QED
  BY <1>1, <1>2, <1>3, <1>4, <1>5, <1>6, <1>7, <1>8, <1>9, <1>10, <1>11, <1>12, <1>13, <1>14,
     <1>15, <1>16, <1>17, <1>18, <1>19 DEF LimitInstructions

LEMMA ParsedByRows ==
  ASSUME NEW ix, ix.name \in DOMAIN Structs
  PROVE  ParseFbytVaultInstruction(ix) = Parsed(ix, RowsOf[ix.name])
BY DEF Structs, ParseFbytVaultInstruction, IdentifyFbytVaultInstruction, InstructionTypes,
       RowsOf, ParseAdminAcceptOwnershipInstruction, ParseAdminModifyFeeInstruction,
       ParseAdminTransferOwnershipInstruction,
       ParseAdminUpdateContributionAmountMinUsdInstruction,
       ParseAdminUpdateDustThresholdUsdInstruction,
       ParseAdminUpdateFundrisingPeriodMaxInstruction, ParseAdminUpdateIdlePeriodInstruction,
       ParseAdminUpdateMaxAssetCountInstruction, ParseAdminUpdateMaxSlippageBpsInstruction,
       ParseAdminUpdateOperatorInstruction, ParseAdminUpdateOracleMaxAgeInstruction,
       ParseAdminUpdateRaiseAmountMinUsdInstruction,
       ParseAdminUpdateWithdrawCooldownMaxInstruction, ParseApproveOraclePoolInstruction,
       ParseCloseOraclePoolInstruction, ParseCloseVaultInstruction,
       ParseCreateAdminPoolInstruction, ParseCreateInvestorPoolInstruction,
       ParseCreateMoneyManagerPoolInstruction, ParseCreateOraclePoolInstruction,
       ParseCreateVaultInstruction, ParseDepositTokenFundInstruction,
       ParseGetPriceInfoInstruction, ParseRevokeTradingDelegateInstruction,
       ParseSetTradingDelegateInstruction, ParseSwapInstruction,
       ParseUpdateOraclePoolInstruction, ParseWithdrawMoneyManagementFeeInstruction,
       ParseWithdrawTokenFundInstruction

\* What a parser shows of an instruction that is long enough.
LEMMA ReadBack ==
  ASSUME NEW ix, ix.name \in DOMAIN Structs, Len(ix.metas) \in Nat,
         Len(ix.metas) >= Len(Structs[ix.name])
  PROVE  LET rows == Structs[ix.name]
             read == ParseFbytVaultInstruction(ix)
         IN /\ DOMAIN read.accounts = {ClientName[rows[j].account] : j \in DOMAIN rows}
            /\ \A j \in DOMAIN rows : read.accounts[ClientName[rows[j].account]] = ix.metas[j]
<1> DEFINE rows == RowsOf[ix.name]
           struct == Structs[ix.name]
           read == ParseFbytVaultInstruction(ix)
           byName == [a \in {rows[i].account : i \in DOMAIN rows} |->
                        ix.metas[CHOOSE i \in DOMAIN rows : rows[i].account = a]]
<1>1. PICK n \in Nat : AgreeOn(rows, struct, n)
  BY RowsAgree
<1>2. /\ DOMAIN rows = 1..n /\ Len(rows) = n /\ DOMAIN struct = 1..n /\ Len(struct) = n
      /\ \A i \in 1..n : rows[i].account = ClientName[struct[i].account]
      /\ \A i \in 1..n : \A j \in 1..n : rows[i].account = rows[j].account => i = j
  BY <1>1 DEF AgreeOn
<1>3. read = Parsed(ix, rows)
  BY ParsedByRows
<1> HIDE DEF rows, struct, read
<1>4. Len(ix.metas) >= Len(struct)
  BY DEF struct
<1>5. read.accounts = byName
  BY <1>2, <1>3, <1>4 DEF Parsed
<1>6. DOMAIN byName = {ClientName[struct[j].account] : j \in DOMAIN struct}
  BY <1>2
<1>7. ASSUME NEW j \in 1..n PROVE byName[ClientName[struct[j].account]] = ix.metas[j]
  <2>1. (CHOOSE i \in DOMAIN rows : rows[i].account = rows[j].account) = j
    BY <1>2
  <2> QED
    BY <1>2, <2>1
<1> QED
  BY <1>2, <1>5, <1>6, <1>7 DEF struct, read

-----------------------------------------------------------------------------
(* What an instruction leaves of a chain.                                   *)

\* The fields the program stores without looking at them are of their kind, and the
\* accounts are a list at least as long as the struct.
InstructionOK(ix) ==
  /\ ix.name \in DOMAIN Structs
       \cup {"create_associated_token_idempotent", "transfer_sol", "sync_native"}
  /\ ix.name \in DOMAIN Structs =>
       ix.metas \in Seq(Range(ix.metas)) /\ Len(ix.metas) >= Len(Structs[ix.name])
  /\ ix.name \in {"create_admin_pool", "admin_update_operator"} => ix.metas[2].address \in Keys
  /\ ix.name = "admin_transfer_ownership" => ix.metas[2].address \in Keys \cup {Default}
  /\ ix.name \in {"create_oracle_pool", "update_oracle_pool"} => ix.args.feedId \in Feeds
  /\ ix.name = "set_trading_delegate" => ix.args.tradingDelegate \in Keys \cup {Default}
  /\ ix.name = "create_associated_token_idempotent" => ix.args.mint \in Mints

\* An account is the one at its row's place.
LEMMA AccountAt ==
  ASSUME NEW ix, NEW rows, NEW i \in DOMAIN rows,
         \A j \in DOMAIN rows : rows[j].account = rows[i].account => j = i
  PROVE  Accounts(ix, rows)[rows[i].account] = ix.metas[i].address
<1>1. (CHOOSE j \in DOMAIN rows : rows[j].account = rows[i].account) = i
  OBVIOUS
<1> QED
  BY <1>1 DEF Accounts

\* A signer is the wallet.
LEMMA SignerAt ==
  ASSUME NEW ix, NEW rows, NEW wallet, FlagsMet(ix, rows, wallet),
         NEW i \in DOMAIN rows, rows[i].signer
  PROVE  ix.metas[i].address = wallet
BY DEF FlagsMet

\* No account is listed twice, so each is at the place of its row.
LEMMA StructAt ==
  ASSUME NEW ix, ix.name \in DOMAIN Structs, NEW i \in DOMAIN Structs[ix.name]
  PROVE  Accounts(ix, Structs[ix.name])[Structs[ix.name][i].account] = ix.metas[i].address
<1> DEFINE rows == RowsOf[ix.name]
           struct == Structs[ix.name]
<1>1. PICK n \in Nat : AgreeOn(rows, struct, n)
  BY RowsAgree
<1>2. \A j \in DOMAIN struct : struct[j].account = struct[i].account => j = i
  <2>1. /\ DOMAIN struct = 1..n
        /\ \A j \in 1..n : rows[j].account = ClientName[struct[j].account]
        /\ \A j \in 1..n : \A k \in 1..n : rows[j].account = rows[k].account => j = k
    BY <1>1 DEF AgreeOn
  <2> HIDE DEF rows, struct
  <2>2. i \in 1..n
    BY <2>1 DEF struct
  <2> QED
    BY <2>1, <2>2
<1> HIDE DEF struct
<1>3. Accounts(ix, struct)[struct[i].account] = ix.metas[i].address
  BY <1>2, AccountAt DEF struct
<1> QED
  BY <1>3 DEF struct

\* The accounts an instruction stores in others.
LEMMA StoredAccounts ==
  ASSUME NEW ix, NEW wallet, FlagsMet(ix, Structs[ix.name], wallet)
  PROVE  LET a == Accounts(ix, Structs[ix.name])
         IN /\ ix.name \in {"create_admin_pool", "admin_update_operator"} =>
                 a.operator = ix.metas[2].address
            /\ ix.name = "admin_transfer_ownership" => a.pending_admin = ix.metas[2].address
            /\ ix.name = "admin_accept_ownership" => a.pending_admin = wallet
            /\ ix.name \in {"create_money_manager_pool", "create_vault"} => a.money_manager = wallet
            /\ ix.name = "create_investor_pool" => a.investor = wallet
<1>1. {"create_admin_pool", "admin_update_operator", "admin_transfer_ownership",
       "admin_accept_ownership", "create_money_manager_pool", "create_vault",
       "create_investor_pool"} \subseteq DOMAIN Structs
  BY DEF Structs
<1>2. CASE ix.name = "create_admin_pool"
  <2>1. /\ 2 \in DOMAIN Structs["create_admin_pool"]
        /\ Structs["create_admin_pool"][2].account = "operator"
    BY DEF Structs, SignerMut, Mut, Ro
  <2> QED
    BY <1>1, <1>2, <2>1, StructAt
<1>3. CASE ix.name = "admin_update_operator"
  <2>1. /\ 2 \in DOMAIN Structs["admin_update_operator"]
        /\ Structs["admin_update_operator"][2].account = "operator"
    BY DEF Structs, SignerMut, Mut, Ro
  <2> QED
    BY <1>1, <1>3, <2>1, StructAt
<1>4. CASE ix.name = "admin_transfer_ownership"
  <2>1. /\ 2 \in DOMAIN Structs["admin_transfer_ownership"]
        /\ Structs["admin_transfer_ownership"][2].account = "pending_admin"
    BY DEF Structs, SignerMut, Mut, Ro
  <2> QED
    BY <1>1, <1>4, <2>1, StructAt
<1>5. CASE ix.name = "admin_accept_ownership"
  <2>1. /\ 1 \in DOMAIN Structs["admin_accept_ownership"]
        /\ Structs["admin_accept_ownership"][1].account = "pending_admin"
        /\ Structs["admin_accept_ownership"][1].signer
    BY DEF Structs, SignerMut, Mut, Ro
  <2> QED
    BY <1>1, <1>5, <2>1, StructAt, SignerAt
<1>6. CASE ix.name = "create_money_manager_pool"
  <2>1. /\ 2 \in DOMAIN Structs["create_money_manager_pool"]
        /\ Structs["create_money_manager_pool"][2].account = "money_manager"
        /\ Structs["create_money_manager_pool"][2].signer
    BY DEF Structs, SignerMut, Mut, Ro
  <2> QED
    BY <1>1, <1>6, <2>1, StructAt, SignerAt
<1>7. CASE ix.name = "create_vault"
  <2>1. /\ 3 \in DOMAIN Structs["create_vault"]
        /\ Structs["create_vault"][3].account = "money_manager"
        /\ Structs["create_vault"][3].signer
    BY DEF Structs, SignerMut, Mut, Ro
  <2> QED
    BY <1>1, <1>7, <2>1, StructAt, SignerAt
<1>8. CASE ix.name = "create_investor_pool"
  <2>1. /\ 1 \in DOMAIN Structs["create_investor_pool"]
        /\ Structs["create_investor_pool"][1].account = "investor"
        /\ Structs["create_investor_pool"][1].signer
    BY DEF Structs, SignerMut, Mut, Ro
  <2> QED
    BY <1>1, <1>8, <2>1, StructAt, SignerAt
<1> QED
  BY <1>2, <1>3, <1>4, <1>5, <1>6, <1>7, <1>8

\* What lasts, lasts.
LEMMA LastsItself ==
  ASSUME NEW c, ChainInv(c)
  PROVE  Lasts(c, c)
BY DEF Lasts, ChainInv, AccountOK, MoneyManagerPools

LEMMA LastsOn ==
  ASSUME NEW c, NEW d, NEW e, ChainInv(c), ChainInv(d), ChainInv(e), Lasts(c, d), Lasts(d, e)
  PROVE  Lasts(c, e)
<1>1. \A f \in {c, d, e} : \A x \in DOMAIN f :
        f[x].type = "MoneyManagerPool" => f[x].vaults_amount \in Nat
  BY DEF ChainInv, AccountOK, MoneyManagerPools
<1> QED
  BY <1>1 DEF Lasts

LEMMA Opened ==
  ASSUME NEW c, ChainInv(c), NEW x, x \notin DOMAIN c, NEW account,
         AccountOK(Put(c, x, account), x)
  PROVE  ChainInv(Put(c, x, account)) /\ Lasts(c, Put(c, x, account))
<1> DEFINE d == Put(c, x, account)
<1>1. DOMAIN d = DOMAIN c \cup {x} /\ \A y \in DOMAIN c : d[y] = c[y]
  BY DEF Put
<1>2. \A y \in DOMAIN c : c[y].type = "MoneyManagerPool" => c[y].vaults_amount >= c[y].vaults_amount
  BY DEF ChainInv, AccountOK, MoneyManagerPools
<1> HIDE DEF d
<1>3. Lasts(c, d)
  BY <1>1, <1>2 DEF Lasts
<1>4. AccountOK(d, x)
  BY DEF d
<1>5. ChainInv(d)
  BY <1>1, <1>3, <1>4, ChainStep
<1> QED
  BY <1>3, <1>5 DEF d

LEMMA Changed ==
  ASSUME NEW c, ChainInv(c), NEW x \in DOMAIN c, NEW account,
         account.type = c[x].type, c[x].type = "VaultPool" => account.token_mint = c[x].token_mint,
         c[x].type # "MoneyManagerPool",
         AccountOK([c EXCEPT ![x] = account], x)
  PROVE  ChainInv([c EXCEPT ![x] = account]) /\ Lasts(c, [c EXCEPT ![x] = account])
<1> DEFINE d == [c EXCEPT ![x] = account]
<1>1. DOMAIN d = DOMAIN c /\ d[x] = account /\ \A y \in DOMAIN c : y # x => d[y] = c[y]
  OBVIOUS
<1>2. \A y \in DOMAIN c : c[y].type = "MoneyManagerPool" => c[y].vaults_amount >= c[y].vaults_amount
  BY DEF ChainInv, AccountOK, MoneyManagerPools
<1> HIDE DEF d
<1>3. Lasts(c, d)
  BY <1>1, <1>2 DEF Lasts
<1>4. AccountOK(d, x)
  BY DEF d
<1>5. ChainInv(d)
  BY <1>1, <1>3, <1>4, ChainStep
<1> QED
  BY <1>3, <1>5 DEF d

\* A closed oracle: nothing relies on one.
LEMMA OracleClosed ==
  ASSUME NEW c, ChainInv(c), NEW x \in DOMAIN c, c[x].type = "OraclePool"
  PROVE  ChainInv(Restrict(c, DOMAIN c \ {x})) /\ Lasts(c, Restrict(c, DOMAIN c \ {x}))
<1> DEFINE d == Restrict(c, DOMAIN c \ {x})
<1>1. DOMAIN d = DOMAIN c \ {x} /\ \A y \in DOMAIN d : d[y] = c[y]
  BY DEF Restrict
<1>2. \A y \in DOMAIN c : c[y].type = "MoneyManagerPool" => c[y].vaults_amount >= c[y].vaults_amount
  BY DEF ChainInv, AccountOK, MoneyManagerPools
<1> HIDE DEF d
<1>3. Lasts(c, d)
  BY <1>1, <1>2 DEF Lasts
<1>4. ChainInv(d)
  BY <1>1, <1>3, ChainStep
<1> QED
  BY <1>3, <1>4 DEF d

\* An account that relies on no other.
LEMMA AloneOK ==
  ASSUME NEW d, NEW x,
         \/ d[x] \in AdminPools /\ x = AdminPool
         \/ d[x] \in OraclePools /\ x = Oracle(d[x].token_mint)
         \/ /\ d[x] \in MoneyManagerPools
            /\ \E k \in Keys : x = FindMoneyManagerPoolPda(AdminPool, k)
         \/ /\ d[x] \in AssetRegistries
            /\ \E v \in Vaults(d) : x = FindAssetRegistryPda(v)
         \/ /\ d[x].type = "TokenAccount" /\ d[x].mint \in Mints
            /\ x = FindAssociatedTokenPda(d[x].owner, MintProgram[d[x].mint], d[x].mint)
  PROVE  AccountOK(d, x)
BY DEF AccountOK, AccountTypes, AdminPools, OraclePools, MoneyManagerPools, AssetRegistries

\* The four accounts a new vault touches.
LEMMA VaultCreated ==
  ASSUME NEW c, ChainInv(c), NEW a, NEW e, NEW manager \in Keys,
         Holds(c, AdminPool, "AdminPool"),
         a.money_manager = manager,
         a.money_manager_pool = FindMoneyManagerPoolPda(AdminPool, manager),
         Holds(c, a.money_manager_pool, "MoneyManagerPool"),
         a.vault_pool = VaultPoolAddress(AdminPool, manager, VaultIndex(c, a.money_manager_pool)),
         a.vault_pool \notin DOMAIN c,
         a.asset_registry = FindAssetRegistryPda(a.vault_pool),
         a.asset_registry \notin DOMAIN c,
         a.token_mint \in Mints,
         e = [c EXCEPT ![AdminPool].vault_pool_count = @ + 1,
                       ![a.money_manager_pool].vaults_amount = @ + 1]
  PROVE  LET d == Put(Put(e, a.vault_pool, NewVault(c, a)), a.asset_registry,
                      [type |-> "AssetRegistry", asset_mints |-> <<>>])
         IN ChainInv(d) /\ Lasts(c, d)
<1> DEFINE pool == a.money_manager_pool
           v == a.vault_pool
           r == a.asset_registry
           vault == NewVault(c, a)
           registry == [type |-> "AssetRegistry", asset_mints |-> <<>>]
           d == Put(Put(e, v, vault), r, registry)
<1>1. /\ AdminPool \in DOMAIN c /\ c[AdminPool].type = "AdminPool"
      /\ pool \in DOMAIN c /\ c[pool].type = "MoneyManagerPool"
      /\ AdminPool # pool
  BY DEF Holds
<1>2. /\ AccountOK(c, AdminPool) /\ AccountOK(c, pool)
  BY <1>1 DEF ChainInv
<1>3. c[AdminPool] \in AdminPools /\ c[pool] \in MoneyManagerPools
  BY <1>1, <1>2 DEF AccountOK
<1>4. v # r
  BY DEF FindAssetRegistryPda, VaultPoolAddress
<1>5. /\ DOMAIN e = DOMAIN c
      /\ e[AdminPool] = [c[AdminPool] EXCEPT !.vault_pool_count = @ + 1]
      /\ e[pool] = [c[pool] EXCEPT !.vaults_amount = @ + 1]
      /\ \A x \in DOMAIN c : x \notin {AdminPool, pool} => e[x] = c[x]
  BY <1>1
<1>6. /\ DOMAIN d = DOMAIN c \cup {v, r}
      /\ d[v] = vault /\ d[r] = registry
      /\ \A x \in DOMAIN c : d[x] = e[x]
  BY <1>4, <1>5 DEF Put
<1> HIDE DEF vault, registry, d, pool, v, r
<1>7. e[AdminPool] \in AdminPools /\ e[AdminPool].type = "AdminPool"
  BY <1>3, <1>5 DEF AdminPools
<1>8. /\ e[pool] \in MoneyManagerPools /\ e[pool].type = "MoneyManagerPool"
      /\ e[pool].vaults_amount = c[pool].vaults_amount + 1 /\ c[pool].vaults_amount \in Nat
  <2>1. c[pool].vaults_amount \in Nat /\ c[pool].vaults_amount + 1 \in Nat
    BY <1>3 DEF MoneyManagerPools
  <2>2. e[pool].vaults_amount = c[pool].vaults_amount + 1
    BY <1>3, <1>5 DEF MoneyManagerPools
  <2>3. e[pool] \in MoneyManagerPools
    <3>1. \A p \in MoneyManagerPools, n \in Nat :
            [p EXCEPT !.vaults_amount = n] \in MoneyManagerPools
      BY DEF MoneyManagerPools
    <3>2. e[pool] = [c[pool] EXCEPT !.vaults_amount = c[pool].vaults_amount + 1]
      BY <1>5
    <3> QED
      BY <1>3, <2>1, <3>1, <3>2
  <2> QED
    BY <2>1, <2>2, <2>3 DEF MoneyManagerPools
<1>9. Lasts(c, d)
  <2>1. \A y \in DOMAIN c : c[y].type = "MoneyManagerPool" => c[y].vaults_amount \in Nat
    BY DEF ChainInv, AccountOK, MoneyManagerPools
  <2>2. \A x \in DOMAIN c : x \notin {AdminPool, pool} => d[x] = c[x]
    BY <1>5, <1>6
  <2>3. d[AdminPool].type = "AdminPool"
    BY <1>1, <1>6, <1>7
  <2>4. d[pool].type = "MoneyManagerPool" /\ d[pool].vaults_amount >= c[pool].vaults_amount
    <3>1. d[pool] = e[pool]
      BY <1>1, <1>6
    <3> QED
      BY <1>8, <3>1
  <2> QED
    BY <1>1, <1>6, <2>1, <2>2, <2>3, <2>4 DEF Lasts
<1>10. AccountOK(d, AdminPool) /\ AccountOK(d, pool)
  <2>1. pool = FindMoneyManagerPoolPda(AdminPool, manager)
    BY DEF pool
  <2> QED
    BY <1>1, <1>6, <1>7, <1>8, <2>1, AloneOK
<1>11. AccountOK(d, r)
  <2>1. registry \in AssetRegistries
    BY DEF registry, AssetRegistries
  <2>2. v \in Vaults(d) /\ r = FindAssetRegistryPda(v)
    BY <1>6 DEF Vaults, NewVault, vault, r, v
  <2> QED
    BY <1>6, <2>1, <2>2, AloneOK
<1>12. AccountOK(d, v)
  <2>1. /\ vault \in VaultPools /\ vault.money_manager = manager
        /\ vault.index = c[pool].vaults_amount /\ vault.type = "VaultPool"
    BY <1>8 DEF NewVault, VaultIndex, VaultPools, vault, pool
  <2>2. v = VaultPoolAddress(AdminPool, manager, vault.index)
    BY <2>1 DEF v, pool, VaultIndex
  <2>3. Holds(d, r, "AssetRegistry") /\ r = FindAssetRegistryPda(v)
    BY <1>6 DEF Holds, registry, r, v
  <2>4. /\ Holds(d, pool, "MoneyManagerPool") /\ pool = FindMoneyManagerPoolPda(AdminPool, manager)
        /\ vault.index < d[pool].vaults_amount
    BY <1>1, <1>6, <1>8, <2>1 DEF Holds, pool
  <2>5. VaultOK(d, v)
    BY <1>6, <2>1, <2>2, <2>3, <2>4 DEF VaultOK
  <2> QED
    BY <1>6, <2>1, <2>5 DEF AccountOK, AccountTypes
<1>13. \A x \in DOMAIN d : AccountOK(d, x) \/ (x \in DOMAIN c /\ d[x] = c[x])
  BY <1>5, <1>6, <1>10, <1>11, <1>12
<1>14. ChainInv(d)
  BY <1>9, <1>13, ChainStep
<1> QED
  BY <1>9, <1>14 DEF d, v, r, vault, registry

LEMMA InstructionKeeps ==
  ASSUME NEW c, ChainInv(c), NEW ix, InstructionOK(ix), NEW wallet \in Keys,
         ix.name \in DOMAIN Structs, FlagsMet(ix, Structs[ix.name], wallet),
         NEW a, a = Accounts(ix, Structs[ix.name]), Accepts(c, ix, a)
  PROVE  ChainInv(Effect(c, ix, a)) /\ Lasts(c, Effect(c, ix, a))
<1>0. /\ ix.name \in {"create_admin_pool", "admin_update_operator"} => a.operator \in Keys
      /\ ix.name = "admin_transfer_ownership" => a.pending_admin \in Keys \cup {Default}
      /\ ix.name = "admin_accept_ownership" => a.pending_admin \in Keys
      /\ ix.name \in {"create_money_manager_pool", "create_vault"} => a.money_manager \in Keys
      /\ ix.name = "create_investor_pool" => a.investor \in Keys
      /\ ix.name \in {"create_oracle_pool", "update_oracle_pool"} => ix.args.feedId \in Feeds
      /\ ix.name = "set_trading_delegate" => ix.args.tradingDelegate \in Keys \cup {Default}
  BY StoredAccounts DEF InstructionOK
<1>1. CASE ix.name = "create_admin_pool"
  <2> DEFINE new == [ type |-> "AdminPool", admin |-> a.admin, pending_admin |-> Default,
                      operator |-> a.operator, vault_pool_count |-> 0 ]
  <2>1. /\ AdminPool \notin DOMAIN c /\ a.admin = UpgradeAuthority
        /\ Effect(c, ix, a) = Put(c, AdminPool, new)
    BY <1>1 DEF Accepts, Effect
  <2>2. new \in AdminPools
    BY <1>0, <1>1, <2>1, ProgramAssumption DEF AdminPools
  <2>3. Put(c, AdminPool, new)[AdminPool] = new
    BY DEF Put
  <2> HIDE DEF new
  <2> QED
    BY <2>1, <2>2, <2>3, AloneOK, Opened
<1>2. CASE ix.name \in {"admin_update_operator", "admin_transfer_ownership",
                       "admin_accept_ownership"}
  <2>1. AdminPool \in DOMAIN c /\ c[AdminPool].type = "AdminPool"
    BY <1>2 DEF Accepts, IsAdminPool, Holds, DelegateInstructions
  <2>2. c[AdminPool] \in AdminPools
    BY <2>1 DEF ChainInv, AccountOK
  <2>3. PICK p \in AdminPools : Effect(c, ix, a) = [c EXCEPT ![AdminPool] = p]
    <3>1. CASE ix.name = "admin_update_operator"
      <4>1. [c[AdminPool] EXCEPT !.operator = a.operator] \in AdminPools
        BY <1>0, <2>2, <3>1 DEF AdminPools
      <4>2. Effect(c, ix, a) = [c EXCEPT ![AdminPool].operator = a.operator]
        BY <3>1 DEF Effect
      <4> QED
        BY <4>1, <4>2
    <3>2. CASE ix.name = "admin_transfer_ownership"
      <4>1. [c[AdminPool] EXCEPT !.pending_admin = a.pending_admin] \in AdminPools
        BY <1>0, <2>2, <3>2 DEF AdminPools
      <4>2. Effect(c, ix, a) = [c EXCEPT ![AdminPool].pending_admin = a.pending_admin]
        BY <3>2 DEF Effect
      <4> QED
        BY <4>1, <4>2
    <3>3. CASE ix.name = "admin_accept_ownership"
      <4>1. [c[AdminPool] EXCEPT !.admin = a.pending_admin, !.pending_admin = Default]
              \in AdminPools
        BY <1>0, <2>2, <3>3 DEF AdminPools
      <4>2. Effect(c, ix, a) =
              [c EXCEPT ![AdminPool].admin = a.pending_admin, ![AdminPool].pending_admin = Default]
        BY <3>3 DEF Effect
      <4>3. Effect(c, ix, a) =
              [c EXCEPT ![AdminPool] = [c[AdminPool] EXCEPT !.admin = a.pending_admin,
                                                            !.pending_admin = Default]]
        BY <2>1, <4>2
      <4> QED
        BY <4>1, <4>3
    <3> QED
      BY <1>2, <3>1, <3>2, <3>3
  <2>4. p.type = "AdminPool" /\ [c EXCEPT ![AdminPool] = p][AdminPool] = p
    BY <2>1 DEF AdminPools
  <2>5. AccountOK([c EXCEPT ![AdminPool] = p], AdminPool)
    BY <2>4, AloneOK
  <2> QED
    BY <2>1, <2>3, <2>4, <2>5, Changed
<1>3. CASE ix.name = "create_oracle_pool"
  <2> DEFINE x == a.oracle_pool
             new == [ type |-> "OraclePool", token_mint |-> a.token_mint,
                      feed_id |-> ix.args.feedId, is_approved |-> FALSE ]
  <2>1. /\ a.token_mint \in Mints /\ x = Oracle(a.token_mint) /\ x \notin DOMAIN c
    BY <1>3 DEF Accepts, IsAdminPool, Oracle, DelegateInstructions
  <2>2. Effect(c, ix, a) = Put(c, x, new)
    BY <1>3 DEF Effect
  <2>3. new \in OraclePools /\ x = Oracle(new.token_mint)
    BY <1>0, <1>3, <2>1 DEF OraclePools
  <2>4. Put(c, x, new)[x] = new
    BY DEF Put
  <2> HIDE DEF new, x
  <2> QED
    BY <2>1, <2>2, <2>3, <2>4, AloneOK, Opened DEF x
<1>4. CASE ix.name \in OracleInstructions
  <2> DEFINE x == a.oracle_pool
  <2>1. x \in DOMAIN c /\ c[x].type = "OraclePool"
    BY <1>4 DEF Accepts, OracleAtSeeds, IsOraclePool, Holds, OracleInstructions,
                DelegateInstructions
  <2>2. c[x] \in OraclePools /\ x = Oracle(c[x].token_mint)
    BY <2>1 DEF ChainInv, AccountOK
  <2>3. CASE ix.name = "close_oracle_pool"
    <3>1. Effect(c, ix, a) = Restrict(c, DOMAIN c \ {x})
      BY <2>3 DEF Effect
    <3> QED
      BY <2>1, <3>1, OracleClosed
  <2>4. CASE ix.name # "close_oracle_pool"
    <3>1. PICK p \in OraclePools : /\ Effect(c, ix, a) = [c EXCEPT ![x] = p]
                                   /\ p.token_mint = c[x].token_mint
      <4>1. CASE ix.name = "approve_oracle_pool"
        <5>1. /\ [c[x] EXCEPT !.is_approved = TRUE] \in OraclePools
              /\ [c[x] EXCEPT !.is_approved = TRUE].token_mint = c[x].token_mint
          BY <2>2 DEF OraclePools
        <5>2. Effect(c, ix, a) = [c EXCEPT ![x].is_approved = TRUE]
          BY <4>1 DEF Effect
        <5> QED
          BY <5>1, <5>2
      <4>2. CASE ix.name = "update_oracle_pool"
        <5>1. /\ [c[x] EXCEPT !.feed_id = ix.args.feedId] \in OraclePools
              /\ [c[x] EXCEPT !.feed_id = ix.args.feedId].token_mint = c[x].token_mint
          BY <1>0, <2>2, <4>2 DEF OraclePools
        <5>2. Effect(c, ix, a) = [c EXCEPT ![x] = [c[x] EXCEPT !.feed_id = ix.args.feedId]]
          BY <4>2 DEF Effect, FeedReplaced
        <5> QED
          BY <5>1, <5>2
      <4> QED
        BY <1>4, <2>4, <4>1, <4>2 DEF OracleInstructions
    <3>2. p.type = "OraclePool" /\ [c EXCEPT ![x] = p][x] = p
      BY <2>1 DEF OraclePools
    <3> DEFINE d == [c EXCEPT ![x] = p]
    <3>3. d[x] \in OraclePools /\ x = Oracle(d[x].token_mint)
      BY <2>2, <3>1, <3>2
    <3> HIDE DEF x, d
    <3>4. AccountOK(d, x)
      BY <3>3, AloneOK
    <3> QED
      BY <2>1, <3>1, <3>2, <3>4, Changed DEF d
  <2> QED
    BY <2>3, <2>4
<1>5. CASE ix.name = "create_money_manager_pool"
  <2> DEFINE x == a.money_manager_pool
             new == [type |-> "MoneyManagerPool", vaults_amount |-> 0]
  <2>1. x \notin DOMAIN c /\ x = FindMoneyManagerPoolPda(AdminPool, a.money_manager)
    BY <1>5 DEF Accepts, IsAdminPool, DelegateInstructions
  <2>2. Effect(c, ix, a) = Put(c, x, new)
    BY <1>5 DEF Effect
  <2>3. new \in MoneyManagerPools /\ Put(c, x, new)[x] = new
    BY DEF MoneyManagerPools, Put
  <2> HIDE DEF new, x
  <2> QED
    BY <1>0, <1>5, <2>1, <2>2, <2>3, AloneOK, Opened
<1>6. CASE ix.name = "create_vault"
  <2>1. IsAdminPool(c, a) /\ MayCreateVault(c, a)
    BY <1>6 DEF Accepts, DelegateInstructions
  <2>2. a.token_mint \in Mints
    <3>1. a.oracle_pool \in DOMAIN c /\ c[a.oracle_pool].type = "OraclePool"
          /\ c[a.oracle_pool].token_mint = a.token_mint
      BY <2>1 DEF MayCreateVault, IsOraclePool, Holds
    <3>2. c[a.oracle_pool] \in OraclePools
      BY <3>1 DEF ChainInv, AccountOK
    <3> QED
      BY <3>1, <3>2 DEF OraclePools
  <2>3. Effect(c, ix, a) =
          Put(Put([c EXCEPT ![AdminPool].vault_pool_count = @ + 1,
                            ![a.money_manager_pool].vaults_amount = @ + 1],
                  a.vault_pool, NewVault(c, a)),
              a.asset_registry, [type |-> "AssetRegistry", asset_mints |-> <<>>])
    BY <1>6 DEF Effect
  <2>4. /\ Holds(c, AdminPool, "AdminPool")
        /\ a.money_manager_pool = FindMoneyManagerPoolPda(AdminPool, a.money_manager)
        /\ Holds(c, a.money_manager_pool, "MoneyManagerPool")
        /\ a.vault_pool = VaultPoolAddress(AdminPool, a.money_manager,
                                           VaultIndex(c, a.money_manager_pool))
        /\ a.vault_pool \notin DOMAIN c
        /\ a.asset_registry = FindAssetRegistryPda(a.vault_pool)
        /\ a.asset_registry \notin DOMAIN c
    BY <2>1 DEF IsAdminPool, MayCreateVault
  <2> QED
    BY <1>0, <1>6, <2>2, <2>3, <2>4, VaultCreated
<1>7. CASE ix.name = "create_investor_pool"
  <2> DEFINE x == a.investor_pool
             v == a.vault_pool
             new == [ type |-> "InvestorPool", investor |-> a.investor, vault_pool |-> v,
                      token_mint |-> a.token_mint ]
             d == Put(c, x, new)
  <2>1. /\ v \in DOMAIN c /\ c[v].type = "VaultPool" /\ c[v].token_mint = a.token_mint
        /\ x = Position(a.investor, v, a.token_mint) /\ x \notin DOMAIN c
    BY <1>7 DEF Accepts, IsAdminPool, VaultOfMint, IsVault, Holds, Position, DelegateInstructions
  <2>2. Effect(c, ix, a) = d
    BY <1>7 DEF Effect
  <2>3. v # x /\ d[x] = new /\ v \in DOMAIN d /\ d[v] = c[v]
    BY <2>1 DEF Put
  <2>4. a.token_mint \in Mints
    BY <2>1 DEF ChainInv, AccountOK, VaultOK, VaultPools
  <2> HIDE DEF d, x, v
  <2>5. /\ new \in InvestorPools(d) /\ new.investor = a.investor /\ new.vault_pool = v
        /\ new.token_mint = a.token_mint /\ new.type = "InvestorPool"
    BY <1>0, <1>7, <2>1, <2>3, <2>4 DEF InvestorPools, Vaults
  <2> HIDE DEF new
  <2>6. AccountOK(d, x)
    BY <2>1, <2>3, <2>5 DEF AccountOK, AccountTypes, PositionOK
  <2> QED
    BY <2>1, <2>2, <2>6, Opened DEF d
<1>8. CASE ix.name = "swap"
  <2> DEFINE x == a.asset_registry
             listed == Registered(Registered(c[x].asset_mints, a.input_mint), a.output_mint)
             new == [c[x] EXCEPT !.asset_mints = listed]
  <2>1. /\ IsRegistry(c, a) /\ MaySwap(c, a)
    BY <1>8 DEF Accepts, DelegateInstructions
  <2>2. x \in DOMAIN c /\ c[x].type = "AssetRegistry"
    BY <2>1 DEF IsRegistry, Holds
  <2>3. c[x] \in AssetRegistries /\ \E v \in Vaults(c) : x = FindAssetRegistryPda(v)
    BY <2>2 DEF ChainInv, AccountOK
  <2>4. a.input_mint \in Mints /\ a.output_mint \in Mints
    <3>1. ASSUME NEW y, NEW mint, NEW owner, NEW program, IsAssociated(c, y, mint, owner, program)
          PROVE  mint \in Mints
      <4>1. /\ y \in DOMAIN c /\ c[y].type = "TokenAccount"
            /\ y = FindAssociatedTokenPda(owner, program, mint)
        BY <3>1 DEF IsAssociated, Holds
      <4>2. /\ c[y].mint \in Mints
            /\ y = FindAssociatedTokenPda(c[y].owner, MintProgram[c[y].mint], c[y].mint)
        BY <4>1 DEF ChainInv, AccountOK
      <4> QED
        BY <4>1, <4>2 DEF FindAssociatedTokenPda
    <3> QED
      BY <2>1, <3>1 DEF MaySwap
  <2>5. \A mints \in Seq(Mints), mint \in Mints : Registered(mints, mint) \in Seq(Mints)
    BY DEF Registered
  <2>6. listed \in Seq(Mints)
    BY <2>3, <2>4, <2>5 DEF AssetRegistries
  <2>7. new \in AssetRegistries /\ new.type = "AssetRegistry"
    BY <2>3, <2>6 DEF AssetRegistries
  <2>8. Effect(c, ix, a) = [c EXCEPT ![x] = new]
    BY <1>8 DEF Effect
  <2>9. [c EXCEPT ![x] = new][x] = new
    BY <2>2
  <2> HIDE DEF new, x
  <2>10. AccountOK([c EXCEPT ![x] = new], x)
    <3>1. Vaults(c) \subseteq Vaults([c EXCEPT ![x] = new])
      BY <2>2, <2>7, <2>9 DEF Vaults
    <3> QED
      BY <2>3, <2>7, <2>9, <3>1, AloneOK
  <2> QED
    BY <2>2, <2>7, <2>8, <2>10, Changed
<1>9. CASE ix.name \in DelegateInstructions
  <2> DEFINE x == a.vault_pool
  <2>1. x \in DOMAIN c /\ c[x].type = "VaultPool"
    BY <1>9 DEF Accepts, VaultOfManager, IsVault, Holds, DelegateInstructions
  <2>2. VaultOK(c, x)
    BY <2>1 DEF ChainInv, AccountOK
  <2>3. PICK k \in Keys \cup {Default} : Effect(c, ix, a) = [c EXCEPT ![x].trading_delegate = k]
    BY <1>0, <1>9 DEF Effect, DelegateInstructions
  <2> DEFINE new == [c[x] EXCEPT !.trading_delegate = k]
             d == [c EXCEPT ![x] = new]
             registry == FindAssetRegistryPda(x)
             pool == FindMoneyManagerPoolPda(AdminPool, c[x].money_manager)
  <2>4. /\ new \in VaultPools /\ new.type = "VaultPool" /\ new.token_mint = c[x].token_mint
        /\ new.money_manager = c[x].money_manager /\ new.index = c[x].index
    BY <2>2 DEF VaultOK, VaultPools
  <2>5. d[x] = new /\ DOMAIN d = DOMAIN c /\ \A y \in DOMAIN c : y # x => d[y] = c[y]
    BY <2>1
  <2>6. /\ registry \in DOMAIN c /\ c[registry].type = "AssetRegistry"
        /\ pool \in DOMAIN c /\ c[pool].type = "MoneyManagerPool"
        /\ c[x].index < c[pool].vaults_amount
        /\ x = VaultPoolAddress(AdminPool, c[x].money_manager, c[x].index)
    BY <2>2 DEF VaultOK, Holds
  <2>7. Effect(c, ix, a) = d
    BY <2>3
  <2> HIDE DEF new, d, x
  <2>8. registry # x /\ pool # x
    BY <2>1, <2>6
  <2>9. VaultOK(d, x)
    BY <2>4, <2>5, <2>6, <2>8 DEF VaultOK, Holds
  <2>10. AccountOK(d, x)
    BY <2>4, <2>5, <2>9 DEF AccountOK, AccountTypes
  <2> QED
    BY <2>1, <2>4, <2>7, <2>10, Changed DEF d
<1>10. CASE ix.name \notin {"create_admin_pool", "admin_update_operator",
                           "admin_transfer_ownership", "admin_accept_ownership",
                           "create_oracle_pool", "create_money_manager_pool", "create_vault",
                           "create_investor_pool", "swap"}
                         \cup OracleInstructions \cup DelegateInstructions
  <2>1. Effect(c, ix, a) = c
    BY <1>10 DEF Effect, OracleInstructions, DelegateInstructions
  <2> QED
    BY <2>1, LastsItself
<1> QED
  BY <1>1, <1>2, <1>3, <1>4, <1>5, <1>6, <1>7, <1>8, <1>9, <1>10

\* Whatever the instruction, and whichever program runs it.
LEMMA ExecutedKeeps ==
  ASSUME NEW c, ChainInv(c), NEW ix, InstructionOK(ix), NEW wallet \in Keys,
         NEW d \in Executed(c, ix, wallet)
  PROVE  ChainInv(d) /\ Lasts(c, d)
<1>1. CASE ix.name \in DOMAIN Structs
  <2> DEFINE a == Accounts(ix, Structs[ix.name])
  <2>1. FlagsMet(ix, Structs[ix.name], wallet) /\ Accepts(c, ix, a) /\ d = Effect(c, ix, a)
    BY <1>1 DEF Executed
  <2> HIDE DEF a
  <2> QED
    BY <1>1, <2>1, InstructionKeeps DEF a
<1>2. CASE ix.name \notin DOMAIN Structs
  <2>1. d \in Foreign(c, ix)
    BY <1>2 DEF Executed
  <2>2. CASE ix.name = "create_associated_token_idempotent"
    <3> DEFINE x == FindAssociatedTokenPda(ix.args.owner, ix.args.tokenProgram, ix.args.mint)
               new == [type |-> "TokenAccount", owner |-> ix.args.owner, mint |-> ix.args.mint]
    <3>1. d \in CreateAssociatedToken(c, ix.args)
      BY <2>1, <2>2 DEF Foreign
    <3>2. /\ ix.args.tokenProgram = MintProgram[ix.args.mint]
          /\ d = c \/ (x \notin DOMAIN c /\ d = Put(c, x, new))
      BY <3>1 DEF CreateAssociatedToken
    <3>3. ix.args.mint \in Mints
      BY <2>2 DEF InstructionOK
    <3>4. Put(c, x, new)[x] = new
      BY DEF Put
    <3>5. /\ new.type = "TokenAccount" /\ new.mint \in Mints
          /\ x = FindAssociatedTokenPda(new.owner, MintProgram[new.mint], new.mint)
      BY <3>2, <3>3
    <3> HIDE DEF x, new
    <3> QED
      BY <3>2, <3>4, <3>5, AloneOK, Opened, LastsItself
  <2>3. CASE ix.name # "create_associated_token_idempotent"
    BY <1>2, <2>1, <2>3, LastsItself DEF Foreign, InstructionOK
  <2> QED
    BY <2>2, <2>3
<1> QED
  BY <1>1, <1>2

-----------------------------------------------------------------------------
(* A transaction.                                                           *)

TxOK(tx) == tx \in Seq(Range(tx)) /\ \A ix \in Range(tx) : InstructionOK(ix)

\* The recursive definition has a solution, so it may be unfolded.
LEMMA RunsStep ==
  ASSUME NEW c, NEW tx, NEW wallet, NEW n \in Nat, n = Len(tx)
  PROVE  /\ Runs(c, tx, wallet)[0] = {c}
         /\ \A i \in 1..n :
              Runs(c, tx, wallet)[i] = ExecutedOn(Runs(c, tx, wallet)[i - 1], tx[i], wallet)
<1> DEFINE Solves(s, m) ==
             s = [i \in 0..m |-> IF i = 0 THEN {c} ELSE ExecutedOn(s[i - 1], tx[i], wallet)]
           Solvable == {m \in Nat : \E s : Solves(s, m)}
<1>1. 0 \in Solvable
  <2>1. Solves([i \in 0..0 |-> {c}], 0)
    OBVIOUS
  <2> QED
    BY <2>1
<1>2. ASSUME NEW m \in Nat, m \in Solvable PROVE m + 1 \in Solvable
  <2>1. PICK s : Solves(s, m)
    BY <1>2
  <2> DEFINE t == [i \in 0..(m + 1) |-> IF i <= m THEN s[i]
                                       ELSE ExecutedOn(s[m], tx[m + 1], wallet)]
  <2>2. \A i \in 0..m : s[i] = IF i = 0 THEN {c} ELSE ExecutedOn(s[i - 1], tx[i], wallet)
    BY <2>1
  <2>3. \A i \in 0..(m + 1) : t[i] = IF i = 0 THEN {c} ELSE ExecutedOn(t[i - 1], tx[i], wallet)
    <3>1. ASSUME NEW i \in 0..m
          PROVE  t[i] = IF i = 0 THEN {c} ELSE ExecutedOn(t[i - 1], tx[i], wallet)
      <4>1. t[i] = s[i] /\ (i # 0 => i - 1 \in 0..m /\ t[i - 1] = s[i - 1])
        OBVIOUS
      <4> QED
        BY <2>2, <4>1
    <3>2. t[m + 1] = ExecutedOn(t[m], tx[m + 1], wallet)
      OBVIOUS
    <3>3. \A i \in 0..(m + 1) : i \in 0..m \/ (i = m + 1 /\ i # 0 /\ i - 1 = m)
      OBVIOUS
    <3> QED
      BY <3>1, <3>2, <3>3
  <2>4. Solves(t, m + 1)
    BY <2>3
  <2> HIDE DEF t, Solves
  <2> QED
    BY <2>4
<1>3. n \in Solvable
  <2> HIDE DEF Solvable
  <2>1. Nat \subseteq Solvable
    BY <1>1, <1>2, NatSetInduction
  <2> QED
    BY <2>1
<1>4. PICK s : Solves(s, n)
  BY <1>3
<1>5. Solves(Runs(c, tx, wallet), n)
  BY <1>4 DEF Runs
<1> DEFINE f == Runs(c, tx, wallet)
<1>6. f = [i \in 0..n |-> IF i = 0 THEN {c} ELSE ExecutedOn(f[i - 1], tx[i], wallet)]
  BY <1>5
<1> HIDE DEF f
<1>7. \A i \in 0..n : f[i] = IF i = 0 THEN {c} ELSE ExecutedOn(f[i - 1], tx[i], wallet)
  BY <1>6, Zenon
<1>8. 0 \in 0..n /\ \A i \in 1..n : i \in 0..n /\ i # 0
  OBVIOUS
<1>9. f[0] = {c} /\ \A i \in 1..n : f[i] = ExecutedOn(f[i - 1], tx[i], wallet)
  BY <1>7, <1>8
<1> QED
  BY <1>9 DEF f

LEMMA LandedKeeps ==
  ASSUME NEW c, ChainInv(c), NEW tx, TxOK(tx), NEW wallet \in Keys
  PROVE  \A d \in Landed(c, tx, wallet) : ChainInv(d) /\ Lasts(c, d)
<1> DEFINE f == Runs(c, tx, wallet)
<1>1. PICK n \in Nat : n = Len(tx)
  BY DEF TxOK
<1> DEFINE S == {i \in Nat : i <= n => \A d \in f[i] : ChainInv(d) /\ Lasts(c, d)}
<1>2. f[0] = {c} /\ \A i \in 1..n : f[i] = ExecutedOn(f[i - 1], tx[i], wallet)
  BY <1>1, RunsStep
<1> HIDE DEF f
<1>3. 0 \in S
  BY <1>2, LastsItself
<1>4. ASSUME NEW i \in Nat, i \in S PROVE i + 1 \in S
  <2> SUFFICES ASSUME i + 1 <= n, NEW d \in f[i + 1] PROVE ChainInv(d) /\ Lasts(c, d)
    OBVIOUS
  <2>1. i + 1 \in 1..n /\ (i + 1) - 1 = i
    BY <1>1
  <2>2. PICK e \in f[i] : d \in Executed(e, tx[i + 1], wallet)
    BY <1>2, <2>1 DEF ExecutedOn
  <2>3. ChainInv(e) /\ Lasts(c, e)
    BY <1>1, <1>4, <2>1
  <2>4. InstructionOK(tx[i + 1])
    <3>1. i + 1 \in DOMAIN tx
      BY <1>1, <2>1 DEF TxOK
    <3> QED
      BY <3>1 DEF TxOK, Range
  <2> QED
    BY <2>2, <2>3, <2>4, ExecutedKeeps, LastsOn
<1>5. Nat \subseteq S
  <2> HIDE DEF S
  <2> QED
    BY <1>3, <1>4, NatSetInduction
<1>6. \A d \in f[Len(tx)] : ChainInv(d) /\ Lasts(c, d)
  BY <1>1, <1>5
<1> QED
  BY <1>6 DEF Landed, f

-----------------------------------------------------------------------------
(* What the builders make.                                                  *)

IsList(s) == s \in Seq(Range(s))

LEMMA ListIntro ==
  ASSUME NEW n \in Nat, NEW s, s = [i \in 1..n |-> s[i]]
  PROVE  IsList(s) /\ Len(s) = n
<1>1. \A i \in 1..n : s[i] \in Range(s)
  BY DEF Range
<1>2. \A S : (\A i \in 1..n : s[i] \in S) => s \in Seq(S) /\ Len(s) = n
  OBVIOUS
<1>3. s \in Seq(Range(s)) /\ Len(s) = n
  BY <1>1, <1>2
<1> QED
  BY <1>3 DEF IsList

LEMMA ListOf ==
  ASSUME NEW U, NEW s \in Seq(U)
  PROVE  IsList(s) /\ Range(s) \subseteq U
<1>1. Len(s) \in Nat /\ s = [i \in 1..Len(s) |-> s[i]] /\ \A i \in DOMAIN s : s[i] \in U
  OBVIOUS
<1>2. IsList(s)
  BY <1>1, ListIntro
<1> QED
  BY <1>1, <1>2 DEF Range

LEMMA ListConcat ==
  ASSUME NEW s, NEW t, IsList(s), IsList(t)
  PROVE  /\ IsList(s \o t) /\ Len(s \o t) = Len(s) + Len(t)
         /\ \A i \in 1..Len(s) : (s \o t)[i] = s[i]
         /\ Range(s \o t) \subseteq Range(s) \cup Range(t)
<1> DEFINE U == Range(s) \cup Range(t)
<1>1. s \in Seq(U) /\ t \in Seq(U)
  BY DEF IsList
<1> HIDE DEF U
<1>2. s \o t \in Seq(U) /\ Len(s \o t) = Len(s) + Len(t)
  BY <1>1
<1>3. \A i \in 1..Len(s) : (s \o t)[i] = s[i]
  BY <1>1
<1>4. IsList(s \o t) /\ Range(s \o t) \subseteq U
  BY <1>2, ListOf
<1> QED
  BY <1>2, <1>3, <1>4 DEF U

\* What the caller gives stays.
LEMMA Given ==
  ASSUME NEW input, NEW default, NEW a \in DOMAIN input
  PROVE  a \in DOMAIN (input ?? default) /\ (input ?? default)[a] = input[a]
BY DEF ??

\* An instruction built by its rows, other accounts after those of the struct or none.
BuiltFrom(ix, name, input, arguments) ==
  LET plain == Instruction(name, input, RowsOf[name], arguments)
  IN ix = plain \/ \E more : IsList(more) /\ ix = WithRemaining(plain, more)

LEMMA Built ==
  ASSUME NEW name \in DOMAIN Structs, NEW input, NEW arguments,
         NEW ix, BuiltFrom(ix, name, input, arguments)
  PROVE  /\ ix.name = name /\ ix.args = [a \in arguments |-> input[a]]
         /\ IsList(ix.metas) /\ Len(ix.metas) >= Len(Structs[name])
         /\ \A i \in DOMAIN RowsOf[name] :
              ix.metas[i].address = input[RowsOf[name][i].account]
<1> DEFINE rows == RowsOf[name]
           plain == Instruction(name, input, rows, arguments)
           metas == [i \in DOMAIN rows |-> Meta(input[rows[i].account], rows[i])]
<1>1. PICK n \in Nat : DOMAIN rows = 1..n /\ Len(Structs[name]) = n
  BY RowsAgree DEF AgreeOn
<1> HIDE DEF rows
<1>2. IsList(metas) /\ Len(metas) = n
  <2>1. metas = [i \in 1..n |-> metas[i]]
    BY <1>1
  <2> HIDE DEF metas
  <2> QED
    BY <2>1, ListIntro
<1>3. \A i \in 1..n : metas[i].address = input[rows[i].account]
  BY <1>1 DEF Meta
<1>4. /\ plain.name = name /\ plain.metas = metas
      /\ plain.args = [a \in arguments |-> input[a]]
  BY DEF Instruction
<1> HIDE DEF metas
<1>5. CASE ix = plain
  BY <1>1, <1>2, <1>3, <1>4, <1>5 DEF rows
<1>6. CASE ix # plain
  <2>1. PICK more : IsList(more) /\ ix = WithRemaining(plain, more)
    BY <1>6 DEF BuiltFrom, rows
  <2>2. ix.name = name /\ ix.metas = metas \o more /\ ix.args = plain.args
    BY <1>4, <2>1 DEF Instruction, WithRemaining
  <2>3. /\ IsList(metas \o more) /\ Len(metas \o more) = n + Len(more)
        /\ \A i \in 1..n : (metas \o more)[i] = metas[i]
    BY <1>2, <2>1, ListConcat
  <2>4. Len(more) \in Nat
    BY <2>1 DEF IsList
  <2> HIDE DEF plain
  <2> QED
    BY <1>1, <1>3, <1>4, <2>2, <2>3, <2>4 DEF rows
<1> QED
  BY <1>5, <1>6

\* Most instructions store nothing unread.
Storing ==
  { "create_admin_pool", "admin_update_operator", "admin_transfer_ownership",
    "create_oracle_pool", "update_oracle_pool", "set_trading_delegate" }
LEMMA PlainOK ==
  ASSUME NEW name \in DOMAIN Structs, name \notin Storing, NEW input, NEW arguments,
         NEW ix, BuiltFrom(ix, name, input, arguments)
  PROVE  InstructionOK(ix)
<1>1. /\ ix.name = name /\ ix.args = [a \in arguments |-> input[a]]
      /\ IsList(ix.metas) /\ Len(ix.metas) >= Len(Structs[name])
      /\ \A i \in DOMAIN RowsOf[name] : ix.metas[i].address = input[RowsOf[name][i].account]
  BY Built
<1>2. name # "create_associated_token_idempotent"
  BY DEF Structs
<1> QED
  BY <1>1, <1>2 DEF InstructionOK, Storing, IsList

\* Those that do: the key at the second place, or the argument.
LEMMA StoringOK ==
  ASSUME NEW name \in Storing, NEW input, NEW arguments,
         NEW ix, BuiltFrom(ix, name, input, arguments),
         name \in {"create_admin_pool", "admin_update_operator"} => input["operator"] \in Keys,
         name = "admin_transfer_ownership" => input["pendingAdmin"] \in Keys \cup {Default},
         name \in {"create_oracle_pool", "update_oracle_pool"} =>
           "feedId" \in arguments /\ input["feedId"] \in Feeds,
         name = "set_trading_delegate" =>
           "tradingDelegate" \in arguments /\ input["tradingDelegate"] \in Keys \cup {Default}
  PROVE  InstructionOK(ix)
<1>1. name \in DOMAIN Structs /\ name # "create_associated_token_idempotent"
  BY DEF Structs, Storing
<1>2. /\ ix.name = name /\ ix.args = [a \in arguments |-> input[a]]
      /\ IsList(ix.metas) /\ Len(ix.metas) >= Len(Structs[name])
      /\ \A i \in DOMAIN RowsOf[name] : ix.metas[i].address = input[RowsOf[name][i].account]
  BY <1>1, Built
<1>3. /\ \A n \in {"create_admin_pool", "admin_update_operator"} :
           2 \in DOMAIN RowsOf[n] /\ RowsOf[n][2].account = "operator"
      /\ 2 \in DOMAIN RowsOf["admin_transfer_ownership"]
      /\ RowsOf["admin_transfer_ownership"][2].account = "pendingAdmin"
  BY DEF RowsOf, CreateAdminPoolRows, AdminUpdateOperatorRows, AdminTransferOwnershipRows,
         SignerMut, Mut, Ro
<1>4. /\ name \in {"create_admin_pool", "admin_update_operator"} => ix.metas[2].address \in Keys
      /\ name = "admin_transfer_ownership" => ix.metas[2].address \in Keys \cup {Default}
  BY <1>2, <1>3
<1>5. /\ name \in {"create_oracle_pool", "update_oracle_pool"} => ix.args.feedId \in Feeds
      /\ name = "set_trading_delegate" => ix.args.tradingDelegate \in Keys \cup {Default}
  BY <1>2
<1> QED
  BY <1>1, <1>2, <1>4, <1>5 DEF InstructionOK, IsList

\* Those that the pages send, whatever their input.
LEMMA PlainBuilders ==
  ASSUME NEW input
  PROVE  /\ InstructionOK(GetAdminAcceptOwnershipInstructionAsync(input))
         /\ InstructionOK(GetApproveOraclePoolInstructionAsync(input))
         /\ InstructionOK(GetCloseOraclePoolInstructionAsync(input))
         /\ InstructionOK(GetGetPriceInfoInstructionAsync(input))
         /\ InstructionOK(GetCreateMoneyManagerPoolInstructionAsync(input))
         /\ InstructionOK(GetCreateVaultInstructionAsync(input))
         /\ InstructionOK(GetCreateInvestorPoolInstructionAsync(input))
         /\ InstructionOK(GetDepositTokenFundInstructionAsync(input))
         /\ InstructionOK(GetSwapInstruction(input))
         /\ InstructionOK(GetCloseVaultInstructionAsync(input))
         /\ InstructionOK(GetRevokeTradingDelegateInstruction(input))
<1>1. \E full :
        BuiltFrom(GetAdminAcceptOwnershipInstructionAsync(input),
                  "admin_accept_ownership", full, {})
  BY DEF GetAdminAcceptOwnershipInstructionAsync,
         GetAdminAcceptOwnershipInstruction, BuiltFrom, RowsOf
<1>2. \E full :
        BuiltFrom(GetApproveOraclePoolInstructionAsync(input), "approve_oracle_pool", full, {})
  BY DEF GetApproveOraclePoolInstructionAsync,
         GetApproveOraclePoolInstruction, BuiltFrom, RowsOf
<1>3. \E full :
        BuiltFrom(GetCloseOraclePoolInstructionAsync(input), "close_oracle_pool", full, {})
  BY DEF GetCloseOraclePoolInstructionAsync,
         GetCloseOraclePoolInstruction, BuiltFrom, RowsOf
<1>4. \E full :
        BuiltFrom(GetGetPriceInfoInstructionAsync(input), "get_price_info", full, {"feedId"})
  BY DEF GetGetPriceInfoInstructionAsync,
         GetGetPriceInfoInstruction, BuiltFrom, RowsOf
<1>5. \E full :
        BuiltFrom(GetCreateMoneyManagerPoolInstructionAsync(input),
                  "create_money_manager_pool", full, {})
  BY DEF GetCreateMoneyManagerPoolInstructionAsync,
         GetCreateMoneyManagerPoolInstruction, BuiltFrom, RowsOf
<1>6. \E full : BuiltFrom(GetCreateVaultInstructionAsync(input), "create_vault", full, {})
  BY DEF GetCreateVaultInstructionAsync,
         GetCreateVaultInstruction, BuiltFrom, RowsOf
<1>7. \E full :
        BuiltFrom(GetCreateInvestorPoolInstructionAsync(input), "create_investor_pool", full, {})
  BY DEF GetCreateInvestorPoolInstructionAsync,
         GetCreateInvestorPoolInstruction, BuiltFrom, RowsOf
<1>8. \E full :
        BuiltFrom(GetDepositTokenFundInstructionAsync(input), "deposit_token_fund", full, {})
  BY DEF GetDepositTokenFundInstructionAsync,
         GetDepositTokenFundInstruction, BuiltFrom, RowsOf
<1>9. \E full : BuiltFrom(GetSwapInstruction(input), "swap", full, {})
  BY DEF GetSwapInstruction, BuiltFrom, RowsOf
<1>10. \E full : BuiltFrom(GetCloseVaultInstructionAsync(input), "close_vault", full, {})
  BY DEF GetCloseVaultInstructionAsync,
         GetCloseVaultInstruction, BuiltFrom, RowsOf
<1>11. \E full :
         BuiltFrom(GetRevokeTradingDelegateInstruction(input), "revoke_trading_delegate", full, {})
  BY DEF GetRevokeTradingDelegateInstruction, BuiltFrom, RowsOf
<1>12. {"admin_accept_ownership", "approve_oracle_pool", "close_oracle_pool", "get_price_info",
        "create_money_manager_pool", "create_vault", "create_investor_pool",
        "deposit_token_fund", "swap", "close_vault", "revoke_trading_delegate"}
         \subseteq DOMAIN Structs \ Storing
  BY DEF Structs, Storing
<1> QED
  BY <1>1, <1>2, <1>3, <1>4, <1>5, <1>6,
     <1>7, <1>8, <1>9, <1>10, <1>11, <1>12, PlainOK

LEMMA LimitBuilders ==
  ASSUME NEW input
  PROVE  \A ix \in {
           GetAdminModifyFeeInstructionAsync(input),
           GetAdminUpdateMaxSlippageBpsInstructionAsync(input),
           GetAdminUpdateMaxAssetCountInstructionAsync(input),
           GetAdminUpdateOracleMaxAgeInstructionAsync(input),
           GetAdminUpdateIdlePeriodInstructionAsync(input),
           GetAdminUpdateFundrisingPeriodMaxInstructionAsync(input),
           GetAdminUpdateWithdrawCooldownMaxInstructionAsync(input),
           GetAdminUpdateRaiseAmountMinUsdInstructionAsync(input),
           GetAdminUpdateContributionAmountMinUsdInstructionAsync(input),
           GetAdminUpdateDustThresholdUsdInstructionAsync(input) } :
           InstructionOK(ix)
<1>1. ASSUME NEW name \in LimitInstructions
      PROVE  InstructionOK(Instruction(name, WithAdminPool(input), AdminRows, {}))
  <2>1. RowsOf[name] = AdminRows
    BY DEF RowsOf, LimitInstructions
  <2>2. name \in DOMAIN Structs /\ name \notin Storing
    BY DEF Structs, Storing, LimitInstructions
  <2>3. BuiltFrom(Instruction(name, WithAdminPool(input), AdminRows, {}), name,
                  WithAdminPool(input), {})
    BY <2>1 DEF BuiltFrom
  <2> QED
    BY <2>2, <2>3, PlainOK
<1> QED
  BY <1>1 DEF LimitInstructions,
         GetAdminModifyFeeInstruction, GetAdminModifyFeeInstructionAsync,
         GetAdminUpdateMaxSlippageBpsInstruction, GetAdminUpdateMaxSlippageBpsInstructionAsync,
         GetAdminUpdateMaxAssetCountInstruction, GetAdminUpdateMaxAssetCountInstructionAsync,
         GetAdminUpdateOracleMaxAgeInstruction, GetAdminUpdateOracleMaxAgeInstructionAsync,
         GetAdminUpdateIdlePeriodInstruction, GetAdminUpdateIdlePeriodInstructionAsync,
         GetAdminUpdateFundrisingPeriodMaxInstruction,
         GetAdminUpdateFundrisingPeriodMaxInstructionAsync,
         GetAdminUpdateWithdrawCooldownMaxInstruction,
         GetAdminUpdateWithdrawCooldownMaxInstructionAsync,
         GetAdminUpdateRaiseAmountMinUsdInstruction,
         GetAdminUpdateRaiseAmountMinUsdInstructionAsync,
         GetAdminUpdateContributionAmountMinUsdInstruction,
         GetAdminUpdateContributionAmountMinUsdInstructionAsync,
         GetAdminUpdateDustThresholdUsdInstruction, GetAdminUpdateDustThresholdUsdInstructionAsync

\* The two that are followed by legs.
LEMMA LeggedBuilders ==
  ASSUME NEW input, NEW more, IsList(more)
  PROVE  /\ InstructionOK(WithRemaining(GetWithdrawTokenFundInstructionAsync(input), more))
         /\ InstructionOK(WithRemaining(GetWithdrawMoneyManagementFeeInstructionAsync(input),
                                        more))
<1>1. \E full : BuiltFrom(WithRemaining(GetWithdrawTokenFundInstructionAsync(input), more),
                          "withdraw_token_fund", full, {})
  BY DEF GetWithdrawTokenFundInstructionAsync, GetWithdrawTokenFundInstruction, BuiltFrom, RowsOf
<1>2. \E full : BuiltFrom(WithRemaining(GetWithdrawMoneyManagementFeeInstructionAsync(input),
                                        more),
                          "withdraw_money_management_fee", full, {})
  BY DEF GetWithdrawMoneyManagementFeeInstructionAsync, GetWithdrawMoneyManagementFeeInstruction,
         BuiltFrom, RowsOf
<1>3. {"withdraw_token_fund", "withdraw_money_management_fee"} \subseteq DOMAIN Structs \ Storing
  BY DEF Structs, Storing
<1> QED
  BY <1>1, <1>2, <1>3, PlainOK

\* Those that store what they are given.
LEMMA StoringBuilders ==
  ASSUME NEW input
  PROVE  /\ "operator" \in DOMAIN input /\ input["operator"] \in Keys =>
              /\ InstructionOK(GetCreateAdminPoolInstruction(input))
              /\ InstructionOK(GetAdminUpdateOperatorInstructionAsync(input))
         /\ "pendingAdmin" \in DOMAIN input /\ input["pendingAdmin"] \in Keys \cup {Default} =>
              InstructionOK(GetAdminTransferOwnershipInstructionAsync(input))
         /\ "feedId" \in DOMAIN input /\ input["feedId"] \in Feeds =>
              /\ InstructionOK(GetCreateOraclePoolInstructionAsync(input))
              /\ InstructionOK(GetUpdateOraclePoolInstructionAsync(input))
         /\ input["tradingDelegate"] \in Keys \cup {Default} =>
              InstructionOK(GetSetTradingDelegateInstruction(input))
<1> DEFINE pooled == WithOraclePool(WithAdminPool(input))
           admin == WithSystemProgram(input ?? [program |-> FbytProgram])
<1>1. ASSUME NEW a \in DOMAIN input
      PROVE  /\ admin[a] = input[a]
             /\ WithAdminPool(input)[a] = input[a] /\ pooled[a] = input[a]
             /\ WithSystemProgram(pooled)[a] = input[a]
  <2>1. /\ a \in DOMAIN (input ?? [program |-> FbytProgram])
        /\ (input ?? [program |-> FbytProgram])[a] = input[a]
    BY Given
  <2>2. admin[a] = input[a]
    BY <2>1, Given DEF WithSystemProgram
  <2>3. a \in DOMAIN WithAdminPool(input) /\ WithAdminPool(input)[a] = input[a]
    BY Given DEF WithAdminPool
  <2>4. a \in DOMAIN pooled /\ pooled[a] = input[a]
    BY <2>3, Given DEF WithOraclePool
  <2>5. WithSystemProgram(pooled)[a] = input[a]
    BY <2>4, Given DEF WithSystemProgram
  <2> QED
    BY <2>2, <2>3, <2>4, <2>5
<1>2. BuiltFrom(GetCreateAdminPoolInstruction(input), "create_admin_pool", admin, {})
  BY DEF GetCreateAdminPoolInstruction, BuiltFrom, RowsOf
<1>3. BuiltFrom(GetAdminUpdateOperatorInstructionAsync(input), "admin_update_operator",
                WithAdminPool(input), {})
  BY DEF GetAdminUpdateOperatorInstructionAsync, GetAdminUpdateOperatorInstruction,
         BuiltFrom, RowsOf
<1>4. BuiltFrom(GetAdminTransferOwnershipInstructionAsync(input), "admin_transfer_ownership",
                WithAdminPool(input), {})
  BY DEF GetAdminTransferOwnershipInstructionAsync, GetAdminTransferOwnershipInstruction,
         BuiltFrom, RowsOf
<1>5. BuiltFrom(GetCreateOraclePoolInstructionAsync(input), "create_oracle_pool",
                WithSystemProgram(pooled), {"feedId"})
  BY DEF GetCreateOraclePoolInstructionAsync, GetCreateOraclePoolInstruction, BuiltFrom, RowsOf
<1>6. BuiltFrom(GetUpdateOraclePoolInstructionAsync(input), "update_oracle_pool",
                pooled, {"feedId"})
  BY DEF GetUpdateOraclePoolInstructionAsync, GetUpdateOraclePoolInstruction, BuiltFrom, RowsOf
<1>7. BuiltFrom(GetSetTradingDelegateInstruction(input), "set_trading_delegate",
                input, {"tradingDelegate"})
  BY DEF GetSetTradingDelegateInstruction, BuiltFrom, RowsOf
<1> HIDE DEF pooled, admin
<1>8. "operator" \in DOMAIN input /\ input["operator"] \in Keys =>
        /\ InstructionOK(GetCreateAdminPoolInstruction(input))
        /\ InstructionOK(GetAdminUpdateOperatorInstructionAsync(input))
  BY <1>1, <1>2, <1>3, StoringOK DEF Storing
<1>9. "pendingAdmin" \in DOMAIN input /\ input["pendingAdmin"] \in Keys \cup {Default} =>
        InstructionOK(GetAdminTransferOwnershipInstructionAsync(input))
  BY <1>1, <1>4, StoringOK DEF Storing
<1>10. "feedId" \in DOMAIN input /\ input["feedId"] \in Feeds =>
         /\ InstructionOK(GetCreateOraclePoolInstructionAsync(input))
         /\ InstructionOK(GetUpdateOraclePoolInstructionAsync(input))
  BY <1>1, <1>5, <1>6, StoringOK DEF Storing
<1>11. input["tradingDelegate"] \in Keys \cup {Default} =>
         InstructionOK(GetSetTradingDelegateInstruction(input))
  BY <1>7, StoringOK DEF Storing
<1> QED
  BY <1>8, <1>9, <1>10, <1>11

\* Those of other programs.
LEMMA ForeignBuilders ==
  /\ \A payer, owner, mint, program :
       mint \in Mints => InstructionOK(CreateAta(payer, owner, mint, program))
  /\ \A input, rows, arguments :
       /\ InstructionOK(Instruction("transfer_sol", input, rows, arguments))
       /\ InstructionOK(Instruction("sync_native", input, rows, arguments))
<1>1. {"create_associated_token_idempotent", "transfer_sol", "sync_native"}
        \cap DOMAIN Structs = {}
  BY DEF Structs
<1>2. \A name, input, rows, arguments :
        /\ Instruction(name, input, rows, arguments).name = name
        /\ Instruction(name, input, rows, arguments).args = [a \in arguments |-> input[a]]
  BY DEF Instruction
<1>3. ASSUME NEW payer, NEW owner, NEW mint \in Mints, NEW program
      PROVE  InstructionOK(CreateAta(payer, owner, mint, program))
  <2> DEFINE ix == CreateAta(payer, owner, mint, program)
             input == [payer |-> payer, owner |-> owner, mint |-> mint, tokenProgram |-> program]
  <2>1. ix.name = "create_associated_token_idempotent"
    BY <1>2 DEF CreateAta
  <2>2. ix.args = [a \in {"owner", "mint", "tokenProgram"} |-> input[a]]
    BY <1>2 DEF CreateAta
  <2>3. ix.args.mint = mint
    BY <2>2
  <2> HIDE DEF ix
  <2>4. InstructionOK(ix)
    BY <1>1, <2>1, <2>3 DEF InstructionOK
  <2> QED
    BY <2>4 DEF ix
<1>4. ASSUME NEW input, NEW rows, NEW arguments,
             NEW name \in {"transfer_sol", "sync_native"}
      PROVE  InstructionOK(Instruction(name, input, rows, arguments))
  BY <1>1, <1>2 DEF InstructionOK
<1> QED
  BY <1>3, <1>4

-----------------------------------------------------------------------------
(* What the pages build.                                                    *)

LEMMA TxOne ==
  ASSUME NEW ix, InstructionOK(ix)
  PROVE  TxOK(<<ix>>)
<1>1. <<ix>> \in Seq({ix})
  OBVIOUS
<1>2. IsList(<<ix>>) /\ Range(<<ix>>) \subseteq {ix}
  BY <1>1, ListOf
<1> QED
  BY <1>2 DEF TxOK, IsList

LEMMA TxConcat ==
  ASSUME NEW s, NEW t, TxOK(s), TxOK(t)
  PROVE  TxOK(s \o t)
<1>1. IsList(s \o t) /\ Range(s \o t) \subseteq Range(s) \cup Range(t)
  BY ListConcat DEF TxOK, IsList
<1> QED
  BY <1>1 DEF TxOK, IsList

LEMMA TxWhen ==
  ASSUME NEW condition, NEW tx, condition => TxOK(tx)
  PROVE  TxOK(When(condition, tx))
<1>1. IsList(<< >>)
  BY DEF IsList
<1>2. Range(<< >>) = {}
  BY DEF Range
<1>3. TxOK(<< >>)
  BY <1>1, <1>2 DEF TxOK, IsList
<1> QED
  BY <1>3 DEF When, NoTx

\* What is laid out flat is what was in the entries.
LEMMA FlatList ==
  ASSUME NEW n \in Nat, NEW each, Len(each) = n, NEW size \in {2, 4}
  PROVE  /\ IsList(Flat(each, size))
         /\ \A x \in Range(Flat(each, size)) : \E i \in 1..n, j \in 1..size : x = each[i][j]
<1> DEFINE s == Flat(each, size)
<1>1. size * n \in Nat /\ s = [i \in 1..(size * n) |-> s[i]]
  <2>1. 2 * n \in Nat /\ 4 * n \in Nat
    OBVIOUS
  <2> QED
    BY <2>1 DEF Flat
<1>2. \A i \in 1..(size * n) : s[i] = each[((i - 1) \div size) + 1][((i - 1) % size) + 1]
  BY DEF Flat
<1> HIDE DEF s
<1>3. IsList(s)
  BY <1>1, ListIntro
<1>4. ASSUME NEW x \in Range(s) PROVE \E i \in 1..n, j \in 1..size : x = each[i][j]
  <2>1. PICK k \in 1..(size * n) : x = s[k]
    BY <1>1 DEF Range
  <2>2. ((k - 1) \div size) + 1 \in 1..n /\ ((k - 1) % size) + 1 \in 1..size
    <3>1. CASE size = 2
      BY <3>1
    <3>2. CASE size = 4
      BY <3>2
    <3> QED
      BY <3>1, <3>2
  <2> QED
    BY <1>2, <2>1, <2>2
<1> QED
  BY <1>3, <1>4 DEF s

\* A vault's base mint and what it traded.
LEMMA VaultMints ==
  ASSUME NEW c, ChainInv(c), NEW vault \in Vaults(c)
  PROVE  c[vault].token_mint \in Mints /\ TradedMints(c, vault) \in Seq(Mints)
<1>1. VaultOK(c, vault)
  BY DEF Vaults, ChainInv, AccountOK
<1> DEFINE registry == FindAssetRegistryPda(vault)
<1>2. c[vault].token_mint \in Mints /\ Holds(c, registry, "AssetRegistry")
  BY <1>1 DEF VaultOK, VaultPools
<1>3. c[registry] \in AssetRegistries
  BY <1>2 DEF Holds, ChainInv, AccountOK
<1> QED
  BY <1>2, <1>3 DEF TradedMints, AssetRegistries

LEMMA FeeMintsAreMints ==
  ASSUME NEW c, ChainInv(c), NEW vault \in Vaults(c)
  PROVE  FeeMints(c, vault) \in Seq(Mints)
<1> DEFINE all == <<c[vault].token_mint>> \o TradedMints(c, vault)
           n == Len(all)
           Solves(s, m) ==
             s = [i \in 0..m |-> IF i = 0 THEN << >> ELSE Registered(s[i - 1], all[i])]
           Solvable == {m \in Nat : \E s : Solves(s, m)}
           f == CHOOSE g : Solves(g, n)
<1>1. all \in Seq(Mints)
  BY VaultMints
<1>2. FeeMints(c, vault) = f[n]
  BY DEF FeeMints
<1> HIDE DEF all
<1>3. 0 \in Solvable
  <2>1. Solves([i \in 0..0 |-> << >>], 0)
    OBVIOUS
  <2> QED
    BY <2>1
<1>4. ASSUME NEW m \in Nat, m \in Solvable PROVE m + 1 \in Solvable
  <2>1. PICK s : Solves(s, m)
    BY <1>4
  <2> DEFINE t == [i \in 0..(m + 1) |-> IF i <= m THEN s[i] ELSE Registered(s[m], all[m + 1])]
  <2>2. \A i \in 0..m : s[i] = IF i = 0 THEN << >> ELSE Registered(s[i - 1], all[i])
    BY <2>1
  <2>3. \A i \in 0..(m + 1) : t[i] = IF i = 0 THEN << >> ELSE Registered(t[i - 1], all[i])
    <3>1. ASSUME NEW i \in 0..m
          PROVE  t[i] = IF i = 0 THEN << >> ELSE Registered(t[i - 1], all[i])
      <4>1. t[i] = s[i] /\ (i # 0 => i - 1 \in 0..m /\ t[i - 1] = s[i - 1])
        OBVIOUS
      <4> QED
        BY <2>2, <4>1
    <3>2. t[m + 1] = Registered(t[m], all[m + 1])
      OBVIOUS
    <3>3. \A i \in 0..(m + 1) : i \in 0..m \/ (i = m + 1 /\ i # 0 /\ i - 1 = m)
      OBVIOUS
    <3> QED
      BY <3>1, <3>2, <3>3
  <2>4. Solves(t, m + 1)
    BY <2>3
  <2> HIDE DEF t, Solves
  <2> QED
    BY <2>4
<1>5. n \in Nat /\ n \in Solvable
  <2> HIDE DEF Solvable
  <2>1. Nat \subseteq Solvable
    BY <1>3, <1>4, NatSetInduction
  <2> QED
    BY <1>1, <2>1
<1>6. Solves(f, n)
  BY <1>5
<1> HIDE DEF f
<1>7. \A i \in 0..n : f[i] = IF i = 0 THEN << >> ELSE Registered(f[i - 1], all[i])
  BY <1>6, Zenon
<1> DEFINE S == {i \in Nat : i <= n => f[i] \in Seq(Mints)}
<1>8. 0 \in S
  <2>1. 0 \in 0..n
    BY <1>5
  <2>2. f[0] = << >>
    BY <1>7, <2>1
  <2>3. f[0] \in Seq(Mints)
    BY <2>2
  <2> HIDE DEF n
  <2> QED
    BY <2>3
<1>9. ASSUME NEW i \in Nat, i \in S PROVE i + 1 \in S
  <2> SUFFICES ASSUME i + 1 <= n PROVE f[i + 1] \in Seq(Mints)
    OBVIOUS
  <2>1. /\ i + 1 \in 0..n /\ i + 1 # 0 /\ (i + 1) - 1 = i
        /\ f[i] \in Seq(Mints) /\ all[i + 1] \in Mints
    BY <1>1, <1>5, <1>9
  <2>2. f[i + 1] = Registered(f[i], all[i + 1])
    BY <1>7, <2>1
  <2> QED
    BY <2>1, <2>2 DEF Registered
<1>10. Nat \subseteq S
  <2> HIDE DEF S
  <2> QED
    BY <1>8, <1>9, NatSetInduction
<1> QED
  BY <1>2, <1>5, <1>10

LEMMA TxTuples ==
  ASSUME NEW x, InstructionOK(x), NEW y, InstructionOK(y), NEW z, InstructionOK(z)
  PROVE  TxOK(<<x, y>>) /\ TxOK(<<x, y, z>>)
<1>1. <<x, y>> \in Seq({x, y, z}) /\ <<x, y, z>> \in Seq({x, y, z})
  OBVIOUS
<1>2. \A s \in {<<x, y>>, <<x, y, z>>} : IsList(s) /\ Range(s) \subseteq {x, y, z}
  BY <1>1, ListOf
<1> QED
  BY <1>2 DEF TxOK, IsList

\* The bootstrap script, the create page, and the two transactions of no page.
LEMMA SetupOK ==
  ASSUME NEW c, NEW k \in Clicks
  PROVE  /\ TxOK(BootstrapTx(c, k))
         /\ TxOK(CreateVaultTx(c, k))
         /\ k.page = "propose" => TxOK(ProposeTx(c, k))
         /\ k.page = "fund" => TxOK(FundTx(c, k))
<1>1. TxOK(BootstrapTx(c, k))
  <2> DEFINE input == [ admin |-> k.wallet, operator |-> k.wallet, program |-> FbytProgram,
                        programData |-> ProgramDataAddress, adminPool |-> AdminPool ]
  <2>1. "operator" \in DOMAIN input /\ input["operator"] \in Keys
    BY ClicksAssumption
  <2>2. BootstrapTx(c, k) = When(~HasAdminPool(c), << GetCreateAdminPoolInstruction(input) >>)
    BY DEF BootstrapTx
  <2> HIDE DEF input
  <2>3. TxOK(<< GetCreateAdminPoolInstruction(input) >>)
    BY <2>1, StoringBuilders, TxOne
  <2> QED
    BY <2>2, <2>3, TxWhen
<1>2. TxOK(CreateVaultTx(c, k))
  <2>1. \A input : /\ TxOK(<< GetCreateMoneyManagerPoolInstructionAsync(input) >>)
                   /\ TxOK(<< GetCreateVaultInstructionAsync(input) >>)
    BY PlainBuilders, TxOne
  <2> QED
    BY <2>1, TxWhen, TxConcat DEF CreateVaultTx
<1>3. ASSUME k.page = "propose" PROVE TxOK(ProposeTx(c, k))
  <2> DEFINE input == [requester |-> k.wallet, tokenMint |-> k.mint, feedId |-> k.feed]
  <2>1. "feedId" \in DOMAIN input /\ input["feedId"] \in Feeds
    BY <1>3, ClicksAssumption
  <2>2. ProposeTx(c, k) = << GetCreateOraclePoolInstructionAsync(input) >>
    BY DEF ProposeTx
  <2> HIDE DEF input
  <2> QED
    BY <2>1, <2>2, StoringBuilders, TxOne
<1>4. ASSUME k.page = "fund" PROVE TxOK(FundTx(c, k))
  <2>1. k.mint \in Mints
    BY <1>4, ClicksAssumption
  <2> QED
    BY <2>1, ForeignBuilders, TxOne DEF FundTx
<1> QED
  BY <1>1, <1>2, <1>3, <1>4

\* The admin page.
LEMMA AdminPageOK ==
  ASSUME NEW c, NEW k \in Clicks
  PROVE  /\ k.page = "onboard" => TxOK(OnboardTx(c, k))
         /\ k.page = "update" => TxOK(UpdateOracleTx(c, k))
         /\ TxOK(CloseOracleTx(c, k)) /\ TxOK(CheckPriceTx(c, k))
         /\ \A tx \in LimitTxs(c, k) : TxOK(tx)
         /\ k.page = "operator" => TxOK(SetOperatorTx(c, k))
         /\ k.page = "transfer" => TxOK(TransferTx(c, k))
         /\ TxOK(AcceptTx(c, k))
<1>1. ASSUME k.page = "onboard" PROVE TxOK(OnboardTx(c, k))
  <2> DEFINE input == [requester |-> k.wallet, tokenMint |-> k.mint, feedId |-> k.feed]
             open == << GetCreateOraclePoolInstructionAsync(input) >>
             approve == << GetApproveOraclePoolInstructionAsync(
                             [admin |-> k.wallet, tokenMint |-> k.mint]) >>
  <2>1. "feedId" \in DOMAIN input /\ input["feedId"] \in Feeds
    BY <1>1, ClicksAssumption
  <2>2. OnboardTx(c, k) =
          When(IsAdmin(c, k), When(~HasOracle(c, k.mint), open) \o approve)
    BY DEF OnboardTx
  <2> HIDE DEF input
  <2>3. TxOK(open) /\ TxOK(approve)
    BY <2>1, StoringBuilders, PlainBuilders, TxOne
  <2> HIDE DEF open, approve
  <2> QED
    BY <2>2, <2>3, TxWhen, TxConcat
<1>2. ASSUME k.page = "update" PROVE TxOK(UpdateOracleTx(c, k))
  <2> DEFINE input == [admin |-> k.wallet, tokenMint |-> k.mint, feedId |-> k.feed]
  <2>1. "feedId" \in DOMAIN input /\ input["feedId"] \in Feeds
    BY <1>2, ClicksAssumption
  <2>2. UpdateOracleTx(c, k) = When(IsAdmin(c, k), << GetUpdateOraclePoolInstructionAsync(input) >>)
    BY DEF UpdateOracleTx
  <2> HIDE DEF input
  <2> QED
    BY <2>1, <2>2, StoringBuilders, TxOne, TxWhen
<1>3. TxOK(CloseOracleTx(c, k)) /\ TxOK(CheckPriceTx(c, k)) /\ TxOK(AcceptTx(c, k))
  BY PlainBuilders, TxOne, TxWhen DEF CloseOracleTx, CheckPriceTx, AcceptTx
<1>4. ASSUME NEW tx \in LimitTxs(c, k) PROVE TxOK(tx)
  BY LimitBuilders, TxOne DEF LimitTxs
<1>5. ASSUME k.page = "operator" PROVE TxOK(SetOperatorTx(c, k))
  <2> DEFINE input == [admin |-> k.wallet, operator |-> k.to]
  <2>1. "operator" \in DOMAIN input /\ input["operator"] \in Keys
    BY <1>5, ClicksAssumption
  <2>2. SetOperatorTx(c, k) =
          When(IsAdmin(c, k), << GetAdminUpdateOperatorInstructionAsync(input) >>)
    BY DEF SetOperatorTx
  <2> HIDE DEF input
  <2> QED
    BY <2>1, <2>2, StoringBuilders, TxOne, TxWhen
<1>6. ASSUME k.page = "transfer" PROVE TxOK(TransferTx(c, k))
  <2> DEFINE input == [admin |-> k.wallet, pendingAdmin |-> k.to]
  <2>1. "pendingAdmin" \in DOMAIN input /\ input["pendingAdmin"] \in Keys \cup {Default}
    BY <1>6, ClicksAssumption
  <2>2. TransferTx(c, k) =
          When(IsAdmin(c, k), << GetAdminTransferOwnershipInstructionAsync(input) >>)
    BY DEF TransferTx
  <2> HIDE DEF input
  <2> QED
    BY <2>1, <2>2, StoringBuilders, TxOne, TxWhen
<1> QED
  BY <1>1, <1>2, <1>3, <1>4, <1>5, <1>6

\* The pages of a vault.
LEMMA InvestorPagesOK ==
  ASSUME NEW c, ChainInv(c), NEW k \in Clicks, k.vault \in Vaults(c)
  PROVE  TxOK(DepositTx(c, k)) /\ TxOK(RedeemTx(c, k))
<1> DEFINE mint == c[k.vault].token_mint
           manager == c[k.vault].money_manager
<1>1. mint \in Mints
  BY VaultMints
<1>2. \A payer, owner : InstructionOK(CreateAta(payer, owner, mint, TokenProgram))
  BY <1>1, ForeignBuilders
<1>3. TxOK(DepositTx(c, k))
  <2> DEFINE ata == << CreateAta(k.wallet, k.vault, mint, TokenProgram) >>
             wrap == When(mint = WsolMint, WrapSol(k.wallet))
             open == When(OpensPosition(c, k, mint),
                          << GetCreateInvestorPoolInstructionAsync(
                               [ investor |-> k.wallet, vaultPool |-> k.vault,
                                 tokenMint |-> mint ]) >>)
             deposit == << GetDepositTokenFundInstructionAsync(
               [ investor |-> k.wallet, vaultPool |-> k.vault, oraclePool |-> Oracle(mint),
                 fromAccount |-> Ata(k.wallet, mint), tokenMint |-> mint,
                 priceUpdate |-> PriceAccount(c, mint), tokenProgram |-> TokenProgram ]) >>
  <2>1. DepositTx(c, k) = When(HasOracle(c, mint), wrap \o ata \o open \o deposit)
    BY DEF DepositTx
  <2>2. TxOK(ata)
    BY <1>2, TxOne
  <2>3. TxOK(wrap)
    <3>1. ASSUME mint = WsolMint PROVE TxOK(WrapSol(k.wallet))
      BY <1>2, <3>1, ForeignBuilders, TxTuples DEF WrapSol
    <3> QED
      BY <3>1, TxWhen
  <2>4. TxOK(open)
    BY PlainBuilders, TxOne, TxWhen
  <2>5. TxOK(deposit)
    BY PlainBuilders, TxOne
  <2> HIDE DEF ata, wrap, open, deposit, mint
  <2> QED
    BY <2>1, <2>2, <2>3, <2>4, <2>5, TxConcat, TxWhen
<1>4. TxOK(RedeemTx(c, k))
  <2> DEFINE input == [ investor |-> k.wallet, moneyManager |-> manager, vaultPool |-> k.vault,
                        investorPool |-> Position(k.wallet, k.vault, mint),
                        tokenProgram |-> TokenProgram, tokenProgram2022 |-> Token2022Program ]
             leg == << R(Oracle(mint)), R(PriceAccount(c, mint)), R(mint), W(Ata(k.vault, mint)),
                       W(Ata(k.wallet, mint)), W(Ata(manager, mint)), W(Ata(Admin(c), mint)) >>
             redeem == WithRemaining(GetWithdrawTokenFundInstructionAsync(input), leg)
             ready == /\ HasAdminPool(c) /\ HasOracle(c, mint)
                      /\ HasPosition(c, k.wallet, k.vault, mint)
             ata(owner) == CreateAta(k.wallet, owner, mint, TokenProgram)
  <2>1. RedeemTx(c, k) = When(ready, << ata(manager), ata(Admin(c)), redeem >>)
    BY DEF RedeemTx
  <2>2. IsList(leg)
    <3>1. \A a, b, d, e, f, g, h : IsList(<<a, b, d, e, f, g, h>>)
      <4> TAKE a, b, d, e, f, g, h
      <4>1. <<a, b, d, e, f, g, h>> \in Seq({a, b, d, e, f, g, h})
        OBVIOUS
      <4> QED
        BY <4>1, ListOf
    <3> QED
      BY <3>1
  <2> HIDE DEF leg, input
  <2>3. InstructionOK(redeem)
    BY <2>2, LeggedBuilders
  <2>4. \A owner : InstructionOK(ata(owner))
    BY <1>2
  <2> HIDE DEF redeem, ata, ready
  <2>5. TxOK(<< ata(manager), ata(Admin(c)), redeem >>)
    BY <2>3, <2>4, TxTuples
  <2> QED
    BY <2>1, <2>5, TxWhen
<1> QED
  BY <1>3, <1>4

LEMMA ManagerPagesOK ==
  ASSUME NEW c, ChainInv(c), NEW k \in Clicks, k.vault \in Vaults(c)
  PROVE  /\ k.page = "delegate" => TxOK(SetDelegateTx(c, k))
         /\ TxOK(RevokeDelegateTx(c, k)) /\ TxOK(CloseVaultTx(c, k))
         /\ TxOK(DemoTradeTx(c, k)) /\ TxOK(KeeperTradeTx(c, k))
         /\ k.page = "jupiter" => TxOK(JupiterTradeTx(c, k))
<1>1. ASSUME k.page = "delegate" PROVE TxOK(SetDelegateTx(c, k))
  <2> DEFINE input == [vaultPool |-> k.vault, moneyManager |-> k.wallet, tradingDelegate |-> k.to]
  <2>1. input["tradingDelegate"] \in Keys \cup {Default}
    BY <1>1, ClicksAssumption
  <2>2. SetDelegateTx(c, k) = When(IsManager(c, k), << GetSetTradingDelegateInstruction(input) >>)
    BY DEF SetDelegateTx
  <2> HIDE DEF input
  <2> QED
    BY <2>1, <2>2, StoringBuilders, TxOne, TxWhen
<1>2. TxOK(RevokeDelegateTx(c, k)) /\ TxOK(CloseVaultTx(c, k))
  BY PlainBuilders, TxOne, TxWhen DEF RevokeDelegateTx, CloseVaultTx
<1>3. \A out, program, price : InstructionOK(SwapOf(c, k, out, program, price))
  BY PlainBuilders DEF SwapOf
<1>4. TxOK(DemoTradeTx(c, k)) /\ TxOK(KeeperTradeTx(c, k))
  BY <1>3, TxOne, TxWhen DEF DemoTradeTx, KeeperTradeTx
<1>5. ASSUME k.page = "jupiter" PROVE TxOK(JupiterTradeTx(c, k))
  <2>1. k.mint \in Mints
    BY <1>5, ClicksAssumption
  <2>2. InstructionOK(CreateAta(k.wallet, k.vault, k.mint, MintProgram[k.mint]))
    BY <2>1, ForeignBuilders
  <2> QED
    BY <1>3, <2>2, TxTuples, TxWhen DEF JupiterTradeTx
<1> QED
  BY <1>1, <1>2, <1>4, <1>5

LEMMA FeePageOK ==
  ASSUME NEW c, ChainInv(c), NEW k \in Clicks, k.vault \in Vaults(c)
  PROVE  TxOK(FeeTx(c, k))
<1> DEFINE mints == FeeMints(c, k.vault)
           n == Len(mints)
           manager == c[k.vault].money_manager
           ata(owner, m) == CreateAta(k.wallet, owner, m, TokenProgram)
           leg(m) == << R(m), W(Ata(k.vault, m)), W(Ata(manager, m)), W(Ata(Admin(c), m)) >>
           atas == [i \in DOMAIN mints |-> << ata(manager, mints[i]), ata(Admin(c), mints[i]) >>]
           legs == [i \in DOMAIN mints |-> leg(mints[i])]
           input == [ operator |-> k.wallet, vaultPool |-> k.vault,
                      tokenProgram |-> TokenProgram, tokenProgram2022 |-> Token2022Program ]
           fees == WithRemaining(GetWithdrawMoneyManagementFeeInstructionAsync(input),
                                 Flat(legs, 4))
<1>1. FeeTx(c, k) = When(HasAdminPool(c) /\ c[AdminPool].operator = k.wallet,
                         Flat(atas, 2) \o << fees >>)
  BY DEF FeeTx
<1>2. mints \in Seq(Mints) /\ n \in Nat /\ DOMAIN mints = 1..n
  BY FeeMintsAreMints
<1>3. ASSUME NEW i \in 1..n
      PROVE  \A owner : InstructionOK(ata(owner, mints[i]))
  BY <1>2, ForeignBuilders
<1> HIDE DEF mints, n, ata, leg
<1>4. Len(atas) = n /\ Len(legs) = n
  BY <1>2
<1>5. ASSUME NEW i \in 1..n, NEW j \in 1..2 PROVE InstructionOK(atas[i][j])
  <2>1. atas[i][1] = ata(manager, mints[i]) /\ atas[i][2] = ata(Admin(c), mints[i])
    BY <1>2
  <2> HIDE DEF atas
  <2>2. j = 1 \/ j = 2
    OBVIOUS
  <2> QED
    BY <1>3, <2>1, <2>2
<1> HIDE DEF atas, legs, input
<1>6. TxOK(Flat(atas, 2))
  <2>1. /\ IsList(Flat(atas, 2))
        /\ \A x \in Range(Flat(atas, 2)) : \E i \in 1..n, j \in 1..2 : x = atas[i][j]
    BY <1>2, <1>4, FlatList
  <2> QED
    BY <1>5, <2>1 DEF TxOK, IsList
<1>7. IsList(Flat(legs, 4))
  BY <1>2, <1>4, FlatList
<1>8. TxOK(<< fees >>)
  BY <1>7, LeggedBuilders, TxOne
<1> HIDE DEF fees
<1> QED
  BY <1>1, <1>6, <1>8, TxConcat, TxWhen

LEMMA PagesBuild ==
  ASSUME NEW c, ChainInv(c), NEW k \in Clicks, NEW tx \in Txs(c, k)
  PROVE  TxOK(tx)
<1> DEFINE VaultPages == { "deposit", "redeem", "delegate", "revoke", "close vault",
                           "demo trade", "jupiter", "keeper", "fee" }
<1>1. k.page \in VaultPages => k.vault \in Vaults(c)
  <2>1. k.page \in VaultPages => "vault" \in DOMAIN k
    BY ClicksAssumption
  <2> QED
    BY <2>1 DEF Txs
<1>2. ~("vault" \in DOMAIN k /\ k.vault \notin Vaults(c))
  BY DEF Txs
<1>3. \A t : tx \in Single(t) => tx = t
  BY DEF Single
<1>4. CASE k.page \in {"bootstrap", "create", "propose", "fund"}
  BY <1>2, <1>3, <1>4, SetupOK DEF Txs
<1>5. CASE k.page \in {"onboard", "update", "close oracle", "check price", "limits", "operator",
                       "transfer", "accept"}
  BY <1>2, <1>3, <1>5, AdminPageOK DEF Txs
<1>6. CASE k.page \in {"deposit", "redeem"}
  BY <1>1, <1>2, <1>3, <1>6, InvestorPagesOK DEF Txs
<1>7. CASE k.page \in {"delegate", "revoke", "close vault", "demo trade", "jupiter", "keeper"}
  BY <1>1, <1>2, <1>3, <1>7, ManagerPagesOK DEF Txs
<1>8. CASE k.page = "fee"
  BY <1>1, <1>2, <1>3, <1>8, FeePageOK DEF Txs
<1> QED
  BY <1>4, <1>5, <1>6, <1>7, <1>8, ClicksAssumption

-----------------------------------------------------------------------------
(* The pages.                                                               *)

\* What is under way is a transaction of a wallet, and the program's accounts are in order.
PagesInv ==
  /\ ChainInv(chain)
  /\ Pending => request.click.wallet \in Keys /\ TxOK(request.tx)

LEMMA PagesInitOK == PagesInit => PagesInv
BY DEF PagesInit, PagesInv, ChainInv, Pending

LEMMA PagesStep == PagesInv /\ [Next]_vars => PagesInv'
<1> SUFFICES ASSUME PagesInv, [Next]_vars PROVE PagesInv'
  OBVIOUS
<1>1. ASSUME NEW k \in Clicks, Click(k) PROVE PagesInv'
  <2>1. PICK tx \in Txs(chain, k) : request' = [click |-> k, tx |-> tx]
    BY <1>1 DEF Click
  <2>2. chain' = chain /\ ChainInv(chain)
    BY <1>1 DEF Click, PagesInv
  <2>3. TxOK(tx) /\ k.wallet \in Keys
    BY <2>2, PagesBuild, ClicksAssumption
  <2>4. request'.click = k /\ request'.tx = tx
    BY <2>1
  <2> QED
    BY <2>2, <2>3, <2>4 DEF PagesInv
<1>2. ASSUME NEW k \in Clicks, Other(k) PROVE PagesInv'
  <2>1. PICK tx \in Txs(chain, k) : chain' \in Landed(chain, tx, k.wallet)
    BY <1>2 DEF Other
  <2>2. TxOK(tx) /\ k.wallet \in Keys /\ ChainInv(chain)
    BY PagesBuild, ClicksAssumption DEF PagesInv
  <2>3. ChainInv(chain')
    BY <2>1, <2>2, LandedKeeps
  <2>4. request' = request
    BY <1>2 DEF Other
  <2> QED
    BY <2>3, <2>4 DEF PagesInv, Pending
<1>3. ASSUME Land PROVE PagesInv'
  <2>1. ChainInv(chain) /\ request.click.wallet \in Keys /\ TxOK(request.tx)
    BY <1>3 DEF Land, PagesInv
  <2>2. chain' = chain \/ chain' \in Landed(chain, request.tx, request.click.wallet)
    BY <1>3 DEF Land, LandedRequest
  <2>3. ChainInv(chain')
    BY <2>1, <2>2, LandedKeeps
  <2>4. ~Pending'
    BY <1>3 DEF Land, Pending, NoRequest, NoTx
  <2> QED
    BY <2>3, <2>4 DEF PagesInv
<1>4. ASSUME Drop PROVE PagesInv'
  BY <1>4 DEF Drop, PagesInv, Pending, NoRequest, NoTx
<1>5. ASSUME UNCHANGED vars PROVE PagesInv'
  BY <1>5 DEF vars, PagesInv, Pending
<1> QED
  BY <1>1, <1>2, <1>3, <1>4, <1>5 DEF Next

\* Whatever the pages and others send, and in whatever order it lands, the accounts are in
\* order and so is the transaction under way.
THEOREM PagesInvariance == PagesSpec => []PagesInv
<1> QED
  BY PagesInitOK, PagesStep, PTL DEF PagesSpec

\* Every account is decodable, where the client looks for it, and has the accounts it goes
\* with (create_vault.rs, create_investor_pool.rs and the finders of generated/pdas).
THEOREM ChainOKTheorem == PagesSpec => []ChainOK
<1>1. PagesInv => ChainOK
  <2> SUFFICES ASSUME PagesInv, NEW address \in DOMAIN chain
               PROVE  LET account == chain[address] IN
                      /\ \/ account \in AdminPools \cup OraclePools \cup MoneyManagerPools
                                        \cup VaultPools \cup InvestorPools(chain)
                         \/ IsAssetRegistry(account)
                         \/ account.type = "TokenAccount"
                      /\ account.type \notin {"AssetRegistry", "MoneyManagerPool"} =>
                           address = DerivedAddress(account)
                      /\ account.type = "VaultPool" =>
                           /\ Holds(chain, FindAssetRegistryPda(address), "AssetRegistry")
                           /\ account.index
                                < chain[FindMoneyManagerPoolPda(AdminPool, account.money_manager)]
                                    .vaults_amount
    BY DEF ChainOK
  <2> DEFINE account == chain[address]
  <2>1. AccountOK(chain, address)
    BY DEF PagesInv, ChainInv
  <2>2. account.type = "VaultPool" => VaultOK(chain, address)
    BY <2>1 DEF AccountOK
  <2>3. account.type = "InvestorPool" => PositionOK(chain, address)
    BY <2>1 DEF AccountOK
  <2>4. account.type = "AssetRegistry" => IsAssetRegistry(account)
    <3>1. \A s \in Seq(Mints) : Range(s) \subseteq Mints
      BY ListOf
    <3> QED
      BY <2>1, <3>1 DEF AccountOK, AssetRegistries, IsAssetRegistry
  <2>5. account.type \notin {"AssetRegistry", "MoneyManagerPool"} =>
          address = DerivedAddress(account)
    <3>1. CASE account.type = "VaultPool"
      BY <2>2, <3>1 DEF VaultOK, DerivedAddress
    <3>2. CASE account.type = "InvestorPool"
      BY <2>3, <3>2 DEF PositionOK, DerivedAddress
    <3>3. CASE account.type = "AdminPool"
      BY <2>1, <3>3 DEF AccountOK, DerivedAddress, AdminPool
    <3>4. CASE account.type = "OraclePool"
      BY <2>1, <3>4 DEF AccountOK, DerivedAddress
    <3>5. CASE account.type = "TokenAccount"
      BY <2>1, <3>5 DEF AccountOK, DerivedAddress
    <3> QED
      BY <2>1, <3>1, <3>2, <3>3, <3>4, <3>5 DEF AccountOK, AccountTypes
  <2>6. \/ account \in AdminPools \cup OraclePools \cup MoneyManagerPools \cup VaultPools
                         \cup InvestorPools(chain)
        \/ IsAssetRegistry(account)
        \/ account.type = "TokenAccount"
    BY <2>1, <2>2, <2>3, <2>4 DEF AccountOK, AccountTypes, VaultOK, PositionOK
  <2>7. account.type = "VaultPool" =>
          /\ Holds(chain, FindAssetRegistryPda(address), "AssetRegistry")
          /\ account.index < chain[FindMoneyManagerPoolPda(AdminPool, account.money_manager)]
                               .vaults_amount
    BY <2>2 DEF VaultOK
  <2> QED
    BY <2>5, <2>6, <2>7
<1> QED
  BY <1>1, PagesInvariance, PTL

\* The portfolio page shows a wallet each vault it has a funded position in and no
\* other, whichever positions are emptied (portfolio/page.tsx, create_investor_pool.rs).
THEOREM PortfolioExactTheorem == PagesSpec => []PortfolioExact
<1>1. PagesInv => PortfolioExact
  <2> SUFFICES ASSUME PagesInv, NEW k \in Keys, NEW funded \in SUBSET Positions(chain)
               PROVE  PortfolioOf(chain, funded, k) =
                        {chain[b].vault_pool : b \in {x \in funded : chain[x].investor = k}}
    BY DEF PortfolioExact
  <2>1. \A x \in Positions(chain) : PositionOK(chain, x)
    BY DEF PagesInv, ChainInv, AccountOK, Positions
  <2>2. ASSUME NEW v \in PortfolioOf(chain, funded, k)
        PROVE  \E b \in funded : chain[b].investor = k /\ chain[b].vault_pool = v
    <3> DEFINE b == Position(k, v, chain[v].token_mint)
    <3>1. b \in funded /\ b \in Positions(chain)
      BY DEF PortfolioOf
    <3>2. b = Position(chain[b].investor, chain[b].vault_pool, chain[b].token_mint)
      BY <2>1, <3>1 DEF PositionOK
    <3>3. chain[b].investor = k /\ chain[b].vault_pool = v
      BY <3>2 DEF Position, FindInvestorPoolPda
    <3> QED
      BY <3>1, <3>3
  <2>3. ASSUME NEW b \in funded, chain[b].investor = k
        PROVE  chain[b].vault_pool \in PortfolioOf(chain, funded, k)
    <3> DEFINE v == chain[b].vault_pool
    <3>1. b \in Positions(chain)
      OBVIOUS
    <3>2. v \in Vaults(chain) /\ b = Position(k, v, chain[v].token_mint)
      BY <2>1, <2>3, <3>1 DEF PositionOK, InvestorPools
    <3> QED
      BY <2>3, <3>1, <3>2 DEF PortfolioOf
  <2> QED
    BY <2>2, <2>3
<1> QED
  BY <1>1, PagesInvariance, PTL

\* Builders, parsers and program agree on the account list of every sent instruction
\* (generated/instructions and the structs of the program).
THEOREM ParsedBackTheorem == PagesSpec => []ParsedBack
<1>1. PagesInv => ParsedBack
  <2> SUFFICES ASSUME PagesInv, Pending, NEW i \in DOMAIN request.tx,
                      request.tx[i].name \in DOMAIN Structs
               PROVE  LET ix == request.tx[i]
                          rows == Structs[ix.name]
                          read == ParseFbytVaultInstruction(ix)
                      IN /\ DOMAIN read.accounts = {ClientName[rows[j].account] : j \in DOMAIN rows}
                         /\ \A j \in DOMAIN rows :
                              read.accounts[ClientName[rows[j].account]] = ix.metas[j]
    BY DEF ParsedBack
  <2> DEFINE ix == request.tx[i]
  <2>1. InstructionOK(ix)
    BY DEF PagesInv, TxOK, Range
  <2>2. Len(ix.metas) \in Nat /\ Len(ix.metas) >= Len(Structs[ix.name])
    BY <2>1 DEF InstructionOK
  <2> QED
    BY <2>2, ReadBack
<1> QED
  BY <1>1, PagesInvariance, PTL

=============================================================================
