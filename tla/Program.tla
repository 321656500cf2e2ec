------------------------------- MODULE Program -------------------------------
(***************************************************************************)
(* The fbyt_vault program as a transaction meets it: which accounts each   *)
(* instruction expects at which place of its list, the constraints it puts *)
(* on them, and the accounts it opens, changes and closes.  Amounts, terms *)
(* and clocks are those of modules Vault and AdminPool and are taken as    *)
(* met: an instruction is refused here for its accounts alone.             *)
(*                                                                         *)
(* The chain is a function from the addresses in use to the accounts at    *)
(* them.  Mints and price accounts belong to other programs and are there  *)
(* from the start.                                                         *)
(***************************************************************************)
EXTENDS GeneratedClient, Functions

CONSTANTS
  Keys,           \* the wallets
  UpgradeAuthority,
  Default,        \* Pubkey::default(), which stands for no delegate and no nominee
  Mints,
  MintProgram,    \* the token program of each mint
  Feeds           \* the price feeds

ASSUME ProgramAssumption ==
  /\ UpgradeAuthority \in Keys
  /\ Default \notin Keys
  /\ MintProgram \in [Mints -> TokenPrograms]

AdminPool == FindAdminPoolPda
Holds(c, address, type) == address \in DOMAIN c /\ c[address].type = type
Put(c, address, account) ==
  [x \in DOMAIN c \cup {address} |-> IF x = address THEN account ELSE c[x]]
PriceFeed(address) == CHOOSE f \in Feeds : address = CanonicalPriceAccount(f)
IsPriceUpdate(address) == \E f \in Feeds : address = CanonicalPriceAccount(f)

\* The accounts of every instruction in the order of its struct, with the flags the
\* struct asks for.
Structs ==
  LET admin == << SignerMut("admin"), Mut("admin_pool") >>
      oracle == << SignerMut("admin"), Mut("admin_pool"), Mut("token_mint"), Mut("oracle_pool") >>
  IN [ create_admin_pool |->
         << SignerMut("admin"), Mut("operator"), Ro("program"), Ro("program_data"),
            Mut("admin_pool"), Ro("system_program") >>,
       admin_modify_fee |-> admin,
       admin_update_contribution_amount_min_usd |-> admin,
       admin_update_dust_threshold_usd |-> admin,
       admin_update_fundrising_period_max |-> admin,
       admin_update_idle_period |-> admin,
       admin_update_max_asset_count |-> admin,
       admin_update_max_slippage_bps |-> admin,
       admin_update_oracle_max_age |-> admin,
       admin_update_raise_amount_min_usd |-> admin,
       admin_update_withdraw_cooldown_max |-> admin,
       admin_update_operator |-> << SignerMut("admin"), Mut("operator"), Mut("admin_pool") >>,
       admin_transfer_ownership |->
         << SignerMut("admin"), Mut("pending_admin"), Mut("admin_pool") >>,
       admin_accept_ownership |-> << SignerMut("pending_admin"), Mut("admin_pool") >>,
       create_oracle_pool |->
         << SignerMut("requester"), Mut("admin_pool"), Mut("token_mint"), Mut("oracle_pool"),
            Ro("system_program") >>,
       approve_oracle_pool |-> oracle,
       update_oracle_pool |-> oracle,
       close_oracle_pool |-> oracle,
       get_price_info |->
         << SignerMut("payer"), Ro("admin_pool"), Mut("price_update"), Ro("system_program") >>,
       create_money_manager_pool |->
         << Ro("admin_pool"), SignerMut("money_manager"), Mut("money_manager_pool"),
            Ro("system_program") >>,
       create_vault |->
         << Mut("admin_pool"), Mut("admin"), SignerMut("money_manager"),
            Mut("money_manager_pool"), Mut("vault_pool"), Mut("asset_registry"),
            Ro("oracle_pool"), Ro("price_update"), Mut("token_mint"), Ro("system_program") >>,
       create_investor_pool |->
         << SignerMut("investor"), Ro("admin_pool"), Mut("vault_pool"), Mut("token_mint"),
            Mut("investor_pool"), Ro("system_program") >>,
       deposit_token_fund |->
         << SignerMut("investor"), Ro("admin_pool"), Mut("vault_pool"), Mut("asset_registry"),
            Mut("investor_pool"), Mut("oracle_pool"), Mut("from_account"), Mut("to_account"),
            Mut("token_mint"), Ro("price_update"), Ro("token_program"), Ro("system_program") >>,
       withdraw_token_fund |->
         << SignerMut("investor"), Mut("money_manager"), Ro("admin_pool"), Mut("vault_pool"),
            Mut("asset_registry"), Mut("investor_pool"), Ro("token_program"),
            Ro("token_program2022"), Ro("system_program") >>,
       swap |->
         << Mut("admin_pool"), Mut("admin"), SignerMut("trader"), Mut("token_mint"),
            Mut("vault_pool"), Mut("asset_registry"), Ro("input_mint"),
            Ro("input_mint_program"), Ro("output_mint"), Ro("output_mint_program"),
            Mut("vault_input_token_account"), Mut("vault_output_token_account"),
            Mut("oracle_pool_from"), Mut("oracle_pool_to"), Ro("input_price_update"),
            Ro("output_price_update"), Ro("jupiter_program"), Ro("system_program") >>,
       close_vault |->
         << Ro("admin_pool"), Mut("vault_pool"), SignerMut("money_manager"), Mut("token_mint") >>,
       set_trading_delegate |-> << Mut("vault_pool"), Signer("money_manager") >>,
       revoke_trading_delegate |-> << Mut("vault_pool"), Signer("money_manager") >>,
       withdraw_money_management_fee |->
         << Ro("admin_pool"), SignerMut("operator"), Mut("vault_pool"), Ro("asset_registry"),
            Ro("token_program"), Ro("token_program2022") >> ]

\* An instruction read by position, as the program reads it; `remaining' follows.
FlagsMet(ix, rows, wallet) ==
  /\ Len(ix.metas) >= Len(rows)
  /\ \A i \in DOMAIN rows :
       /\ rows[i].mut => ix.metas[i].mut
       /\ rows[i].signer => ix.metas[i].signer /\ ix.metas[i].address = wallet
Accounts(ix, rows) ==
  [a \in {rows[i].account : i \in DOMAIN rows} |->
     ix.metas[CHOOSE i \in DOMAIN rows : rows[i].account = a].address]
Groups(ix, rows, size) ==
  LET n == Len(ix.metas) - Len(rows)
  IN [g \in 1..(n \div size) |->
        [i \in 1..size |-> ix.metas[Len(rows) + (g - 1) * size + i]]]

-----------------------------------------------------------------------------
(* Constraints; `a' is the record of an instruction's accounts.             *)

\* seeds = [ADMIN_POOL_SEED], on every instruction but the two of the delegate.
IsAdminPool(c, a) == a.admin_pool = AdminPool /\ Holds(c, AdminPool, "AdminPool")
Admin(c) == c[AdminPool].admin

IsOraclePool(c, a) ==
  /\ Holds(c, a.oracle_pool, "OraclePool")
  /\ c[a.oracle_pool].token_mint = a.token_mint
OracleAtSeeds(c, a) ==
  IsOraclePool(c, a) /\ a.oracle_pool = FindOraclePoolPda(a.admin_pool, a.token_mint)

\* The price account shows the feed the oracle names.
Priced(c, oracle, price) ==
  /\ IsPriceUpdate(price)
  /\ PriceFeed(price) = c[oracle].feed_id
ApprovedAndPriced(c, oracle, price) == c[oracle].is_approved /\ Priced(c, oracle, price)

IsVault(c, a) == Holds(c, a.vault_pool, "VaultPool")
VaultOfMint(c, a) == IsVault(c, a) /\ c[a.vault_pool].token_mint = a.token_mint
VaultOfManager(c, a) == IsVault(c, a) /\ c[a.vault_pool].money_manager = a.money_manager
IsRegistry(c, a) ==
  /\ a.asset_registry = FindAssetRegistryPda(a.vault_pool)
  /\ Holds(c, a.asset_registry, "AssetRegistry")

\* associated_token::mint, ::authority and ::token_program
IsAssociated(c, account, mint, owner, program) ==
  /\ program \in TokenPrograms
  /\ account = FindAssociatedTokenPda(owner, program, mint)
  /\ Holds(c, account, "TokenAccount")
\* The checks on a token account handed over in the remaining accounts.
TokenAccountOf(c, meta, mint, owner) ==
  /\ meta.mut
  /\ Holds(c, meta.address, "TokenAccount")
  /\ c[meta.address].owner = owner
  /\ c[meta.address].mint = mint

RedeemedLeg(c, a, g) ==
  LET mint == g[3].address IN
  /\ mint \in Mints
  /\ Holds(c, g[1].address, "OraclePool")
  /\ c[g[1].address].token_mint = mint
  /\ ApprovedAndPriced(c, g[1].address, g[2].address)
  /\ TokenAccountOf(c, g[4], mint, a.vault_pool)
  /\ TokenAccountOf(c, g[5], mint, a.investor)
  /\ TokenAccountOf(c, g[6], mint, a.money_manager)
  /\ TokenAccountOf(c, g[7], mint, Admin(c))

FeeLeg(c, a, g) ==
  LET mint == g[1].address IN
  /\ mint \in Mints
  /\ TokenAccountOf(c, g[2], mint, a.vault_pool)
  /\ TokenAccountOf(c, g[3], mint, c[a.vault_pool].money_manager)
  /\ TokenAccountOf(c, g[4], mint, Admin(c))

CanonicallyPriced(c, oracle, price) ==
  /\ Holds(c, oracle, "OraclePool")
  /\ c[oracle].is_approved
  /\ price = CanonicalPriceAccount(c[oracle].feed_id)

MaySwap(c, a) ==
  /\ a.trader \in {c[a.vault_pool].money_manager, c[a.vault_pool].trading_delegate} \ {Default}
  /\ IsAssociated(c, a.vault_input_token_account, a.input_mint, a.vault_pool,
                  a.input_mint_program)
  /\ IsAssociated(c, a.vault_output_token_account, a.output_mint, a.vault_pool,
                  a.output_mint_program)
  /\ CanonicallyPriced(c, a.oracle_pool_from, a.input_price_update)
  /\ CanonicallyPriced(c, a.oracle_pool_to, a.output_price_update)
  /\ a.jupiter_program = JupiterProgram

-----------------------------------------------------------------------------
(* Each instruction: what it asks of its accounts and what it makes of      *)
(* them.                                                                    *)

LimitInstructions ==
  { "admin_modify_fee", "admin_update_contribution_amount_min_usd",
    "admin_update_dust_threshold_usd", "admin_update_fundrising_period_max",
    "admin_update_idle_period", "admin_update_max_asset_count",
    "admin_update_max_slippage_bps", "admin_update_oracle_max_age",
    "admin_update_raise_amount_min_usd", "admin_update_withdraw_cooldown_max" }
OracleInstructions == {"approve_oracle_pool", "update_oracle_pool", "close_oracle_pool"}
DelegateInstructions == {"set_trading_delegate", "revoke_trading_delegate"}

\* Mutant: numbered by the count of all vaults.
VaultIndex_OfProtocol(c, mmPool) == c[AdminPool].vault_pool_count
VaultIndex(c, mmPool) == c[mmPool].vaults_amount

MayCreateVault(c, a) ==
  /\ a.admin = Admin(c)
  /\ a.money_manager_pool = FindMoneyManagerPoolPda(a.admin_pool, a.money_manager)
  /\ Holds(c, a.money_manager_pool, "MoneyManagerPool")
  /\ a.vault_pool = VaultPoolAddress(a.admin_pool, a.money_manager,
                                     VaultIndex(c, a.money_manager_pool))
  /\ a.vault_pool \notin DOMAIN c
  /\ a.asset_registry = FindAssetRegistryPda(a.vault_pool)
  /\ a.asset_registry \notin DOMAIN c
  /\ IsOraclePool(c, a)
  /\ ApprovedAndPriced(c, a.oracle_pool, a.price_update)

MayDeposit(c, a) ==
  /\ VaultOfMint(c, a) /\ IsRegistry(c, a)
  /\ a.investor_pool = FindInvestorPoolPda(a.investor, a.admin_pool, a.vault_pool, a.token_mint)
  /\ Holds(c, a.investor_pool, "InvestorPool")
  /\ IsOraclePool(c, a)
  /\ ApprovedAndPriced(c, a.oracle_pool, a.price_update)
  /\ IsAssociated(c, a.from_account, a.token_mint, a.investor, a.token_program)
  /\ IsAssociated(c, a.to_account, a.token_mint, a.vault_pool, a.token_program)

MayWithdraw(c, a, groups) ==
  /\ VaultOfManager(c, a) /\ IsRegistry(c, a)
  /\ a.investor_pool = FindInvestorPoolPda(a.investor, a.admin_pool, a.vault_pool,
                                           c[a.vault_pool].token_mint)
  /\ Holds(c, a.investor_pool, "InvestorPool")
  /\ a.token_program = TokenProgram /\ a.token_program2022 = Token2022Program
  /\ \A g \in DOMAIN groups : RedeemedLeg(c, a, groups[g])

MayTakeFee(c, a, groups) ==
  /\ a.operator = c[AdminPool].operator
  /\ IsVault(c, a) /\ IsRegistry(c, a)
  /\ a.token_program = TokenProgram /\ a.token_program2022 = Token2022Program
  /\ \A g \in DOMAIN groups : FeeLeg(c, a, groups[g])

Accepts(c, ix, a) ==
  LET n == ix.name rows == Structs[n] IN
  IF n = "create_admin_pool"
  THEN /\ a.admin_pool = AdminPool /\ AdminPool \notin DOMAIN c
       /\ a.program = FbytProgram /\ a.program_data = ProgramDataAddress
       /\ a.admin = UpgradeAuthority
  ELSE IF n \in DelegateInstructions THEN VaultOfManager(c, a)
  ELSE
    /\ IsAdminPool(c, a)
    /\ n \in LimitInstructions \cup OracleInstructions
             \cup {"admin_update_operator", "admin_transfer_ownership"} => a.admin = Admin(c)
    /\ n = "admin_accept_ownership" => a.pending_admin = c[AdminPool].pending_admin
    /\ n = "create_oracle_pool" =>
         /\ a.token_mint \in Mints
         /\ a.oracle_pool = FindOraclePoolPda(a.admin_pool, a.token_mint)
         /\ a.oracle_pool \notin DOMAIN c
    /\ n \in OracleInstructions => OracleAtSeeds(c, a)
    /\ n = "get_price_info" =>
         IsPriceUpdate(a.price_update) /\ PriceFeed(a.price_update) = ix.args.feedId
    /\ n = "create_money_manager_pool" =>
         /\ a.money_manager_pool = FindMoneyManagerPoolPda(a.admin_pool, a.money_manager)
         /\ a.money_manager_pool \notin DOMAIN c
    /\ n = "create_vault" => MayCreateVault(c, a)
    /\ n = "create_investor_pool" =>
         /\ VaultOfMint(c, a)
         /\ a.investor_pool =
              FindInvestorPoolPda(a.investor, a.admin_pool, a.vault_pool, a.token_mint)
         /\ a.investor_pool \notin DOMAIN c
    /\ n = "deposit_token_fund" => MayDeposit(c, a)
    /\ n = "withdraw_token_fund" => MayWithdraw(c, a, Groups(ix, rows, 7))
    /\ n = "swap" => a.admin = Admin(c) /\ VaultOfMint(c, a) /\ IsRegistry(c, a) /\ MaySwap(c, a)
    /\ n = "close_vault" => VaultOfMint(c, a) /\ VaultOfManager(c, a)
    /\ n = "withdraw_money_management_fee" => MayTakeFee(c, a, Groups(ix, rows, 4))

\* is_approved stays as it was.
FeedReplaced(oracle, feed) == [oracle EXCEPT !.feed_id = feed]

\* Mutant: the index is taken after the counter has moved.
NewVault_LateIndex(c, a) ==
  [ type |-> "VaultPool", money_manager |-> a.money_manager, token_mint |-> a.token_mint,
    index |-> VaultIndex(c, a.money_manager_pool) + 1, trading_delegate |-> Default ]
NewVault(c, a) ==
  [ type |-> "VaultPool", money_manager |-> a.money_manager, token_mint |-> a.token_mint,
    index |-> VaultIndex(c, a.money_manager_pool), trading_delegate |-> Default ]

\* A traded mint is registered once.
Registered(mints, mint) == IF mint \in Range(mints) THEN mints ELSE Append(mints, mint)

Effect(c, ix, a) ==
  LET n == ix.name IN
  CASE n = "create_admin_pool" ->
         Put(c, AdminPool, [ type |-> "AdminPool", admin |-> a.admin, pending_admin |-> Default,
                             operator |-> a.operator, vault_pool_count |-> 0 ])
    [] n = "admin_update_operator" -> [c EXCEPT ![AdminPool].operator = a.operator]
    [] n = "admin_transfer_ownership" ->
         [c EXCEPT ![AdminPool].pending_admin = a.pending_admin]
    [] n = "admin_accept_ownership" ->
         [c EXCEPT ![AdminPool].admin = a.pending_admin, ![AdminPool].pending_admin = Default]
    [] n = "create_oracle_pool" ->
         Put(c, a.oracle_pool, [ type |-> "OraclePool", token_mint |-> a.token_mint,
                                 feed_id |-> ix.args.feedId, is_approved |-> FALSE ])
    [] n = "approve_oracle_pool" -> [c EXCEPT ![a.oracle_pool].is_approved = TRUE]
    [] n = "update_oracle_pool" ->
         [c EXCEPT ![a.oracle_pool] = FeedReplaced(c[a.oracle_pool], ix.args.feedId)]
    [] n = "close_oracle_pool" -> Restrict(c, DOMAIN c \ {a.oracle_pool})
    [] n = "create_money_manager_pool" ->
         Put(c, a.money_manager_pool, [type |-> "MoneyManagerPool", vaults_amount |-> 0])
    [] n = "create_vault" ->
         Put(Put([c EXCEPT ![AdminPool].vault_pool_count = @ + 1,
                           ![a.money_manager_pool].vaults_amount = @ + 1],
                 a.vault_pool, NewVault(c, a)),
             a.asset_registry, [type |-> "AssetRegistry", asset_mints |-> <<>>])
    [] n = "create_investor_pool" ->
         Put(c, a.investor_pool, [ type |-> "InvestorPool", investor |-> a.investor,
                                   vault_pool |-> a.vault_pool, token_mint |-> a.token_mint ])
    [] n = "swap" -> [c EXCEPT ![a.asset_registry].asset_mints =
                        Registered(Registered(@, a.input_mint), a.output_mint)]
    [] n = "set_trading_delegate" ->
         [c EXCEPT ![a.vault_pool].trading_delegate = ix.args.tradingDelegate]
    [] n = "revoke_trading_delegate" -> [c EXCEPT ![a.vault_pool].trading_delegate = Default]
    [] OTHER -> c   \* amounts, limits and clocks only

-----------------------------------------------------------------------------
(* Transactions.                                                            *)

\* Instructions of other programs: a token account opened unless it is there, SOL moved
\* into a wrapped-SOL account, and its balance brought up to date.
CreateAssociatedToken(c, a) ==
  IF a.tokenProgram # MintProgram[a.mint] THEN {}
  ELSE LET address == FindAssociatedTokenPda(a.owner, a.tokenProgram, a.mint)
       IN {IF address \in DOMAIN c THEN c
           ELSE Put(c, address, [type |-> "TokenAccount", owner |-> a.owner, mint |-> a.mint])}
Foreign(c, ix) ==
  CASE ix.name = "create_associated_token_idempotent" -> CreateAssociatedToken(c, ix.args)
    [] ix.name = "transfer_sol" -> {c}
    [] ix.name = "sync_native" -> IF Holds(c, ix.args.account, "TokenAccount") THEN {c} ELSE {}

\* The chains an instruction can leave: one, or none when it is refused.
Executed(c, ix, wallet) ==
  IF ix.name \notin DOMAIN Structs THEN Foreign(c, ix)
  ELSE IF ~FlagsMet(ix, Structs[ix.name], wallet) THEN {}
  ELSE LET a == Accounts(ix, Structs[ix.name])
       IN IF Accepts(c, ix, a) THEN {Effect(c, ix, a)} ELSE {}

\* A transaction runs its instructions in order, all of them or none.
ExecutedOn(chains, ix, wallet) == UNION {Executed(d, ix, wallet) : d \in chains}
Runs(c, tx, wallet) ==
  LET chains[i \in 0..Len(tx)] ==
        IF i = 0 THEN {c} ELSE ExecutedOn(chains[i - 1], tx[i], wallet)
  IN chains
Landed(c, tx, wallet) == Runs(c, tx, wallet)[Len(tx)]

=============================================================================
