-------------------------------- MODULE Pages --------------------------------
(***************************************************************************)
(* The pages that send transactions: the bootstrap script, the admin page, *)
(* the create page, a vault's page and its manage page, and the keeper's   *)
(* trade.  A click reads the chain and builds a transaction from what it   *)
(* read; the wallet signs it and it lands later, all of it or not at all,  *)
(* on a chain that others have changed by then.                            *)
(*                                                                         *)
(* A page reads part of the chain when it is opened and part at the click; *)
(* both are taken at the click, and the time between is part of the time   *)
(* the transaction is under way.                                           *)
(***************************************************************************)
EXTENDS Program, Parsers, FiniteSets

CONSTANTS
  Clicks,        \* the clicks considered
  WsolMint,      \* the native mint
  DemoOutMint,   \* the output mint of the demo trade
  MaxVaults      \* bound on the vaults of one manager

\* A click names its page, the wallet, and what is typed or picked on the page.
ASSUME ClicksAssumption ==
  \A k \in Clicks :
    /\ k.page \in {"bootstrap", "create", "onboard", "update", "close oracle", "check price",
                   "limits", "operator", "transfer", "accept", "deposit", "redeem", "delegate",
                   "revoke", "close vault", "demo trade", "jupiter", "keeper", "fee", "propose",
                   "fund"}
    /\ k.wallet \in Keys
    /\ k.page \in {"create", "onboard", "update", "close oracle", "jupiter", "keeper", "propose",
                   "fund"} => "mint" \in DOMAIN k /\ k.mint \in Mints
    /\ k.page \in {"onboard", "update", "check price", "propose", "demo trade"} => k.feed \in Feeds
    /\ k.page = "operator" => k.to \in Keys
    /\ k.page \in {"transfer", "delegate"} => k.to \in Keys \cup {Default}
    /\ k.page \in {"deposit", "redeem", "delegate", "revoke", "close vault", "demo trade",
                   "jupiter", "keeper", "fee"} => "vault" \in DOMAIN k

VARIABLES
  chain,         \* the accounts
  request        \* the transaction under way, if any

vars == <<chain, request>>

NoTx == << >>
NoRequest == [tx |-> NoTx]
When(condition, tx) == IF condition THEN tx ELSE NoTx

\* getCreateAssociatedTokenIdempotentInstructionAsync
CreateAta(payer, owner, mint, program) ==
  Instruction("create_associated_token_idempotent",
              [payer |-> payer, owner |-> owner, mint |-> mint, tokenProgram |-> program],
              << SignerMut("payer"), Ro("owner"), Ro("mint"), Ro("tokenProgram") >>,
              {"owner", "mint", "tokenProgram"})
WithRemaining(ix, metas) == [ix EXCEPT !.metas = @ \o metas]
W(address) == Meta(address, Mut("remaining"))
R(address) == Meta(address, Ro("remaining"))

Position(wallet, vault, mint) == FindInvestorPoolPda(wallet, AdminPool, vault, mint)
Oracle(mint) == FindOraclePoolPda(AdminPool, mint)
HasOracle(c, mint) == Holds(c, Oracle(mint), "OraclePool")
Approved(c, mint) == HasOracle(c, mint) /\ c[Oracle(mint)].is_approved
PriceAccount(c, mint) == CanonicalPriceAccount(c[Oracle(mint)].feed_id)
HasAdminPool(c) == Holds(c, AdminPool, "AdminPool")
HasManagerPool(c, manager) ==
  Holds(c, FindMoneyManagerPoolPda(AdminPool, manager), "MoneyManagerPool")
HasPosition(c, wallet, vault, mint) == Holds(c, Position(wallet, vault, mint), "InvestorPool")
TradedMints(c, vault) == c[FindAssetRegistryPda(vault)].asset_mints
Vaults(c) == {v \in DOMAIN c : c[v].type = "VaultPool"}

-----------------------------------------------------------------------------
(* Setting up: scripts/bootstrap.ts and app/create/page.tsx.                *)

BootstrapTx(c, k) ==
  When(~HasAdminPool(c),
    << GetCreateAdminPoolInstruction(
         [ admin |-> k.wallet, operator |-> k.wallet, program |-> FbytProgram,
           programData |-> ProgramDataAddress, adminPool |-> AdminPool ]) >>)

\* The page numbers the vault by the count of all vaults.
NewVaultAddress(c, manager) ==
  VaultPoolAddress(AdminPool, manager, c[AdminPool].vault_pool_count)

CreateVaultTx(c, k) ==
  When(HasAdminPool(c) /\ Approved(c, k.mint),
    When(~HasManagerPool(c, k.wallet),
         << GetCreateMoneyManagerPoolInstructionAsync([moneyManager |-> k.wallet]) >>)
    \o
    << GetCreateVaultInstructionAsync(
         [ admin |-> Admin(c), moneyManager |-> k.wallet,
           vaultPool |-> NewVaultAddress(c, k.wallet),
           assetRegistry |-> FindAssetRegistryPda(NewVaultAddress(c, k.wallet)),
           oraclePool |-> Oracle(k.mint), priceUpdate |-> PriceAccount(c, k.mint),
           tokenMint |-> k.mint ]) >>)

-----------------------------------------------------------------------------
(* app/admin/page.tsx.  Its buttons are dead for any but the admin, and the *)
(* pending admin.                                                           *)

IsAdmin(c, k) == HasAdminPool(c) /\ k.wallet = Admin(c)
Me(k) == [admin |-> k.wallet]

OnboardTx(c, k) ==
  When(IsAdmin(c, k),
    When(~HasOracle(c, k.mint),
         << GetCreateOraclePoolInstructionAsync(
              [requester |-> k.wallet, tokenMint |-> k.mint, feedId |-> k.feed]) >>)
    \o << GetApproveOraclePoolInstructionAsync([admin |-> k.wallet, tokenMint |-> k.mint]) >>)
UpdateOracleTx(c, k) ==
  When(IsAdmin(c, k), << GetUpdateOraclePoolInstructionAsync(
                           [admin |-> k.wallet, tokenMint |-> k.mint, feedId |-> k.feed]) >>)
CloseOracleTx(c, k) ==
  When(IsAdmin(c, k),
       << GetCloseOraclePoolInstructionAsync([admin |-> k.wallet, tokenMint |-> k.mint]) >>)
CheckPriceTx(c, k) ==
  When(IsAdmin(c, k), << GetGetPriceInfoInstructionAsync(
                           [ payer |-> k.wallet, feedId |-> k.feed,
                             priceUpdate |-> CanonicalPriceAccount(k.feed) ]) >>)

\* One submit button for the fees and one for each limit.
LimitTxs(c, k) ==
  IF ~IsAdmin(c, k) THEN {}
  ELSE {<<ix>> : ix \in
         { GetAdminModifyFeeInstructionAsync(Me(k)),
           GetAdminUpdateMaxSlippageBpsInstructionAsync(Me(k)),
           GetAdminUpdateMaxAssetCountInstructionAsync(Me(k)),
           GetAdminUpdateOracleMaxAgeInstructionAsync(Me(k)),
           GetAdminUpdateIdlePeriodInstructionAsync(Me(k)),
           GetAdminUpdateFundrisingPeriodMaxInstructionAsync(Me(k)),
           GetAdminUpdateWithdrawCooldownMaxInstructionAsync(Me(k)),
           GetAdminUpdateRaiseAmountMinUsdInstructionAsync(Me(k)),
           GetAdminUpdateContributionAmountMinUsdInstructionAsync(Me(k)),
           GetAdminUpdateDustThresholdUsdInstructionAsync(Me(k)) }}

SetOperatorTx(c, k) ==
  When(IsAdmin(c, k), << GetAdminUpdateOperatorInstructionAsync(
                           [admin |-> k.wallet, operator |-> k.to]) >>)
TransferTx(c, k) ==
  When(IsAdmin(c, k), << GetAdminTransferOwnershipInstructionAsync(
                           [admin |-> k.wallet, pendingAdmin |-> k.to]) >>)
AcceptTx(c, k) ==
  When(HasAdminPool(c) /\ c[AdminPool].pending_admin = k.wallet,
       << GetAdminAcceptOwnershipInstructionAsync([pendingAdmin |-> k.wallet]) >>)

-----------------------------------------------------------------------------
(* components/VaultDetail.tsx: anyone's deposit and redemption.             *)

WrapSol(wallet) ==
  LET account == Ata(wallet, WsolMint)
      input == [from |-> wallet, account |-> account]
  IN << CreateAta(wallet, wallet, WsolMint, TokenProgram),
        Instruction("transfer_sol", input, << SignerMut("from"), Mut("account") >>, {}),
        Instruction("sync_native", input, << Mut("account") >>, {"account"}) >>

\* Mutant: the position is opened again on every deposit.
OpensPosition_Always(c, k, mint) == TRUE
OpensPosition(c, k, mint) == ~HasPosition(c, k.wallet, k.vault, mint)

DepositTx(c, k) ==
  LET mint == c[k.vault].token_mint IN
  When(HasOracle(c, mint),
    When(mint = WsolMint, WrapSol(k.wallet))
    \o << CreateAta(k.wallet, k.vault, mint, TokenProgram) >>
    \o When(OpensPosition(c, k, mint),
            << GetCreateInvestorPoolInstructionAsync(
                 [investor |-> k.wallet, vaultPool |-> k.vault, tokenMint |-> mint]) >>)
    \o << GetDepositTokenFundInstructionAsync(
            [ investor |-> k.wallet, vaultPool |-> k.vault, oraclePool |-> Oracle(mint),
              fromAccount |-> Ata(k.wallet, mint), tokenMint |-> mint,
              priceUpdate |-> PriceAccount(c, mint), tokenProgram |-> TokenProgram ]) >>)

\* The one leg the page hands over: the base token's.  That there are shares to redeem is
\* checked too, but is a matter of amounts.
RedeemTx(c, k) ==
  LET mint == c[k.vault].token_mint
      manager == c[k.vault].money_manager IN
  When(HasAdminPool(c) /\ HasOracle(c, mint) /\ HasPosition(c, k.wallet, k.vault, mint),
    << CreateAta(k.wallet, manager, mint, TokenProgram),
       CreateAta(k.wallet, Admin(c), mint, TokenProgram),
       WithRemaining(
         GetWithdrawTokenFundInstructionAsync(
           [ investor |-> k.wallet, moneyManager |-> manager, vaultPool |-> k.vault,
             investorPool |-> Position(k.wallet, k.vault, mint),
             tokenProgram |-> TokenProgram, tokenProgram2022 |-> Token2022Program ]),
         << R(Oracle(mint)), R(PriceAccount(c, mint)), R(mint), W(Ata(k.vault, mint)),
            W(Ata(k.wallet, mint)), W(Ata(manager, mint)), W(Ata(Admin(c), mint)) >>) >>)

-----------------------------------------------------------------------------
(* components/ManageVault.tsx, whose buttons work for the manager, the fee's *)
(* for the operator; and the keeper's trade for the delegate.               *)

IsManager(c, k) == c[k.vault].money_manager = k.wallet

SetDelegateTx(c, k) ==
  When(IsManager(c, k), << GetSetTradingDelegateInstruction(
         [vaultPool |-> k.vault, moneyManager |-> k.wallet, tradingDelegate |-> k.to]) >>)
RevokeDelegateTx(c, k) ==
  When(IsManager(c, k),
       << GetRevokeTradingDelegateInstruction([vaultPool |-> k.vault, moneyManager |-> k.wallet]) >>)
CloseVaultTx(c, k) ==
  When(IsManager(c, k), << GetCloseVaultInstructionAsync(
         [ moneyManager |-> k.wallet, vaultPool |-> k.vault,
           tokenMint |-> c[k.vault].token_mint ]) >>)

\* The swap of the vault's base token for `out', of whose token account the page says
\* which program it is under and whose price account it takes from `price'.
SwapOf(c, k, out, program, price) ==
  LET mint == c[k.vault].token_mint IN
  GetSwapInstruction(
    [ adminPool |-> AdminPool, admin |-> Admin(c), trader |-> k.wallet, tokenMint |-> mint,
      vaultPool |-> k.vault, assetRegistry |-> FindAssetRegistryPda(k.vault),
      inputMint |-> mint, inputMintProgram |-> TokenProgram,
      outputMint |-> out, outputMintProgram |-> program,
      vaultInputTokenAccount |-> Ata(k.vault, mint),
      vaultOutputTokenAccount |-> Ata(k.vault, out),
      oraclePoolFrom |-> Oracle(mint), oraclePoolTo |-> Oracle(out),
      inputPriceUpdate |-> PriceAccount(c, mint), outputPriceUpdate |-> price,
      jupiterProgram |-> JupiterProgram, systemProgram |-> SystemProgram ])

\* On a local network: the demo asset, priced by the feed it was seeded with.
DemoTradeTx(c, k) ==
  When(IsManager(c, k) /\ HasAdminPool(c) /\ HasOracle(c, c[k.vault].token_mint),
       << SwapOf(c, k, DemoOutMint, TokenProgram, CanonicalPriceAccount(k.feed)) >>)
JupiterTradeTx(c, k) ==
  When(IsManager(c, k) /\ HasAdminPool(c) /\ HasOracle(c, c[k.vault].token_mint)
         /\ HasOracle(c, k.mint),
       << CreateAta(k.wallet, k.vault, k.mint, MintProgram[k.mint]),
          SwapOf(c, k, k.mint, MintProgram[k.mint], PriceAccount(c, k.mint)) >>)
KeeperTradeTx(c, k) ==
  When(/\ c[k.vault].trading_delegate = k.wallet
       /\ HasOracle(c, c[k.vault].token_mint) /\ HasOracle(c, k.mint),
       << SwapOf(c, k, k.mint, TokenProgram, PriceAccount(c, k.mint)) >>)

\* The vault's base mint and every mint it has traded, each once.
FeeMints(c, vault) ==
  LET all == <<c[vault].token_mint>> \o TradedMints(c, vault)
      distinct[i \in 0..Len(all)] == IF i = 0 THEN << >> ELSE Registered(distinct[i - 1], all[i])
  IN distinct[Len(all)]
\* What `each' holds, one after the other, `size' of every entry.
Flat(each, size) ==
  [i \in 1..(size * Len(each)) |-> each[((i - 1) \div size) + 1][((i - 1) % size) + 1]]
FeeTx(c, k) ==
  LET mints == FeeMints(c, k.vault)
      manager == c[k.vault].money_manager
      fees == GetWithdrawMoneyManagementFeeInstructionAsync(
                [ operator |-> k.wallet, vaultPool |-> k.vault,
                  tokenProgram |-> TokenProgram, tokenProgram2022 |-> Token2022Program ])
      leg(m) == << R(m), W(Ata(k.vault, m)), W(Ata(manager, m)), W(Ata(Admin(c), m)) >>
  IN When(HasAdminPool(c) /\ c[AdminPool].operator = k.wallet,
       Flat([i \in DOMAIN mints |->
               << CreateAta(k.wallet, manager, mints[i], TokenProgram),
                  CreateAta(k.wallet, Admin(c), mints[i], TokenProgram) >>], 2)
       \o << WithRemaining(fees, Flat([i \in DOMAIN mints |-> leg(mints[i])], 4)) >>)

-----------------------------------------------------------------------------
(* Transactions that no page of the application sends: an asset proposed by *)
(* someone who calls the program, a token account opened by who pays into   *)
(* it.                                                                      *)

ProposeTx(c, k) ==
  << GetCreateOraclePoolInstructionAsync(
       [requester |-> k.wallet, tokenMint |-> k.mint, feedId |-> k.feed]) >>
FundTx(c, k) == << CreateAta(k.wallet, k.to, k.mint, MintProgram[k.mint]) >>

-----------------------------------------------------------------------------
(* What a click can send; none when the page refuses it.                    *)

Single(tx) == {tx} \ {NoTx}
Txs(c, k) ==
  IF "vault" \in DOMAIN k /\ k.vault \notin Vaults(c) THEN {}
  ELSE CASE k.page = "bootstrap"    -> Single(BootstrapTx(c, k))
         [] k.page = "create"       -> Single(CreateVaultTx(c, k))
         [] k.page = "onboard"      -> Single(OnboardTx(c, k))
         [] k.page = "update"       -> Single(UpdateOracleTx(c, k))
         [] k.page = "close oracle" -> Single(CloseOracleTx(c, k))
         [] k.page = "check price"  -> Single(CheckPriceTx(c, k))
         [] k.page = "limits"       -> LimitTxs(c, k)
         [] k.page = "operator"     -> Single(SetOperatorTx(c, k))
         [] k.page = "transfer"     -> Single(TransferTx(c, k))
         [] k.page = "accept"       -> Single(AcceptTx(c, k))
         [] k.page = "deposit"      -> Single(DepositTx(c, k))
         [] k.page = "redeem"       -> Single(RedeemTx(c, k))
         [] k.page = "delegate"     -> Single(SetDelegateTx(c, k))
         [] k.page = "revoke"       -> Single(RevokeDelegateTx(c, k))
         [] k.page = "close vault"  -> Single(CloseVaultTx(c, k))
         [] k.page = "demo trade"   -> Single(DemoTradeTx(c, k))
         [] k.page = "jupiter"      -> Single(JupiterTradeTx(c, k))
         [] k.page = "keeper"       -> Single(KeeperTradeTx(c, k))
         [] k.page = "fee"          -> Single(FeeTx(c, k))
         [] k.page = "propose"      -> Single(ProposeTx(c, k))
         [] k.page = "fund"         -> Single(FundTx(c, k))

\* Bounds the vaults of a manager.
WithinBound(c, k) ==
  k.page = "create" =>
    Cardinality({v \in Vaults(c) : c[v].money_manager = k.wallet}) < MaxVaults

\* The button is pressed and the wallet signs.
Click(k) ==
  /\ request = NoRequest
  /\ WithinBound(chain, k)
  /\ \E tx \in Txs(chain, k) : request' = [click |-> k, tx |-> tx]
  /\ UNCHANGED chain

Pending == request # NoRequest
LandedRequest(c) == Landed(c, request.tx, request.click.wallet)

\* The transaction is processed, or refused and the page shows the error.
Land ==
  /\ Pending
  /\ chain' \in (IF LandedRequest(chain) = {} THEN {chain} ELSE LandedRequest(chain))
  /\ request' = NoRequest

\* It is dropped by the network, or its blockhash runs out.
Drop ==
  /\ Pending
  /\ request' = NoRequest
  /\ UNCHANGED chain

\* Someone else clicks, and lands while the request is under way.
Other(k) ==
  /\ Pending
  /\ WithinBound(chain, k)
  /\ \E tx \in Txs(chain, k) : chain' \in Landed(chain, tx, k.wallet)
  /\ UNCHANGED request

\* Before the protocol is set up.
PagesInit ==
  /\ chain = << >>
  /\ request = NoRequest

Next == (\E k \in Clicks : Click(k) \/ Other(k)) \/ Land \/ Drop

PagesSpec == PagesInit /\ [][Next]_vars

-----------------------------------------------------------------------------
(* Accounts as the client decodes them.                                     *)

AdminPools == [ type : {"AdminPool"}, admin : Keys, pending_admin : Keys \cup {Default},
                operator : Keys, vault_pool_count : Nat ]
OraclePools == [type : {"OraclePool"}, token_mint : Mints, feed_id : Feeds, is_approved : BOOLEAN]
MoneyManagerPools == [type : {"MoneyManagerPool"}, vaults_amount : Nat]
VaultPools == [ type : {"VaultPool"}, money_manager : Keys, token_mint : Mints, index : Nat,
                trading_delegate : Keys \cup {Default} ]
InvestorPools(c) ==
  [type : {"InvestorPool"}, investor : Keys, vault_pool : Vaults(c), token_mint : Mints]
IsAssetRegistry(account) ==
  account.type = "AssetRegistry" /\ Range(account.asset_mints) \subseteq Mints

\* The address the client derives from an account's own fields.
DerivedAddress(account) ==
  CASE account.type = "AdminPool" -> FindAdminPoolPda
    [] account.type = "OraclePool" -> Oracle(account.token_mint)
    [] account.type = "VaultPool" ->
         VaultPoolAddress(AdminPool, account.money_manager, account.index)
    [] account.type = "InvestorPool" ->
         Position(account.investor, account.vault_pool, account.token_mint)
    [] account.type = "TokenAccount" ->
         FindAssociatedTokenPda(account.owner, MintProgram[account.mint], account.mint)

\* Every account is decodable, is where the client looks for it, and has the accounts it
\* goes with: a vault its registry and a manager's pool that has counted it.
ChainOK ==
  \A address \in DOMAIN chain :
    LET account == chain[address] IN
    /\ \/ account \in AdminPools \cup OraclePools \cup MoneyManagerPools \cup VaultPools
                      \cup InvestorPools(chain)
       \/ IsAssetRegistry(account)
       \/ account.type = "TokenAccount"
    /\ account.type \notin {"AssetRegistry", "MoneyManagerPool"} =>
         address = DerivedAddress(account)
    /\ account.type = "VaultPool" =>
         /\ Holds(chain, FindAssetRegistryPda(address), "AssetRegistry")
         /\ account.index
              < chain[FindMoneyManagerPoolPda(AdminPool, account.money_manager)].vaults_amount

-----------------------------------------------------------------------------
(* app/portfolio/page.tsx: every vault, and of each the position at the     *)
(* address derived for the wallet, if it holds shares.  Shares are amounts  *)
(* of module Vault; `funded' is the set of the positions that hold any.     *)

Positions(c) == {x \in DOMAIN c : c[x].type = "InvestorPool"}

PortfolioOf(c, funded, wallet) ==
  {v \in Vaults(c) : LET position == Position(wallet, v, c[v].token_mint)
                     IN position \in Positions(c) /\ position \in funded}

\* Whichever positions hold shares, the portfolio shows a wallet the vaults it holds shares
\* of, each of them and no other, whatever others hold; a position redeemed to nothing is
\* not shown, and does not hide another (app/portfolio/page.tsx, investorPoolAddress).
PortfolioExact ==
  \A k \in Keys : \A funded \in SUBSET Positions(chain) :
    PortfolioOf(chain, funded, k) =
      {chain[x].vault_pool : x \in {y \in funded : chain[y].investor = k}}

-----------------------------------------------------------------------------
(* When a page's transaction ought to be accepted.                          *)

Classic(mint) == MintProgram[mint] = TokenProgram
HasAccount(c, owner, mint) == Ata(owner, mint) \in DOMAIN c
MayTrade(c, k, out) ==
  LET base == c[k.vault].token_mint IN
  /\ Approved(c, base) /\ Approved(c, out)
  /\ HasAccount(c, k.vault, base)

Ready(c, k) ==
  LET p == k.page
      base == IF "vault" \in DOMAIN k THEN c[k.vault].token_mint ELSE WsolMint
  IN /\ p = "bootstrap" => k.wallet = UpgradeAuthority
     \* The page counts all vaults, the program the manager's.
     /\ p = "create" =>
          Cardinality(Vaults(c)) = Cardinality({v \in Vaults(c) : c[v].money_manager = k.wallet})
     /\ p \in {"update", "close oracle"} => HasOracle(c, k.mint)
     /\ p = "propose" => HasAdminPool(c) /\ ~HasOracle(c, k.mint)
     /\ p \in {"deposit", "redeem"} => Approved(c, base) /\ Classic(base)
     /\ p = "deposit" => base = WsolMint \/ HasAccount(c, k.wallet, base)
     /\ p = "demo trade" =>
          /\ MayTrade(c, k, DemoOutMint)
          /\ HasAccount(c, k.vault, DemoOutMint)
          /\ c[Oracle(DemoOutMint)].feed_id = k.feed
     /\ p \in {"jupiter", "keeper"} => MayTrade(c, k, k.mint)
     /\ p = "keeper" => HasAccount(c, k.vault, k.mint)
     /\ p = "fee" => \A m \in Range(FeeMints(c, k.vault)) :
                        Classic(m) /\ HasAccount(c, k.vault, m)

\* A trade into a mint of the newer token program, from the catalog or by a bot.
NewerOutput(k) == k.page \in {"jupiter", "keeper"} /\ ~Classic(k.mint)

\* A page's transaction is accepted by the chain it was built on exactly when the protocol
\* is ready for it: no account is passed at the wrong place, with the wrong flag or from
\* the wrong seeds, and none that the program asks for is missing.  Not said of the trades
\* into the newer token program's mints, which are CatalogTradesAccepted's.
AcceptedWhenReady ==
  [][~Pending /\ Pending' /\ ~NewerOutput(request'.click) =>
       (LandedRequest(chain) # {} <=> Ready(chain, request.click))']_vars

\* What the manage page says of its catalog trade, "Token-2022 aware": it is accepted
\* whenever the protocol is ready, under whichever program the output mint is.
CatalogTradesAccepted ==
  [][~Pending /\ Pending' /\ request'.click.page = "jupiter" =>
       (Ready(chain, request.click) => LandedRequest(chain) # {})']_vars

\* What the create page says of itself: "The base mint must already have an admin-approved
\* oracle", and nothing else of the protocol has to be just so.
CreatesAccepted ==
  [][~Pending /\ Pending' /\ request'.click.page = "create" => (LandedRequest(chain) # {})']_vars

\* What of the chain a transaction under way depends on.
At(c, address) == IF address \in DOMAIN c THEN c[address] ELSE [type |-> "none"]
DependsOn(c, k) ==
  LET p == k.page
      base == IF "vault" \in DOMAIN k THEN c[k.vault].token_mint ELSE WsolMint
  IN << IF p \in {"bootstrap", "accept", "deposit", "delegate", "revoke", "close vault",
                    "check price", "propose", "fund"}
          THEN HasAdminPool(c) ELSE Admin(c),
        IF p = "accept" THEN c[AdminPool].pending_admin ELSE Default,
        IF p = "fee" THEN c[AdminPool].operator ELSE Default,
        IF p \in {"deposit", "redeem", "demo trade", "jupiter", "keeper"}
          THEN At(c, Oracle(base)) ELSE << >>,
        IF "mint" \in DOMAIN k THEN At(c, Oracle(k.mint)) ELSE << >>,
        IF p = "demo trade" THEN At(c, Oracle(DemoOutMint)) ELSE << >>,
        IF p = "create" THEN At(c, FindMoneyManagerPoolPda(AdminPool, k.wallet)) ELSE << >>,
        IF p = "deposit" THEN HasPosition(c, k.wallet, k.vault, base) ELSE FALSE,
        IF p = "keeper" THEN c[k.vault].trading_delegate ELSE Default >>

\* A transaction under way is not spoilt by what others do elsewhere: of the deposits,
\* trades, new vaults and oracle changes that land before it, only those to what it
\* depends on can have it refused.
SpoiltOnlyByItsOwn ==
  [][ /\ Pending /\ request' = request
      /\ LandedRequest(chain) # {}
      /\ DependsOn(chain, request.click) = DependsOn(chain', request.click)
      => LandedRequest(chain') # {} ]_vars

-----------------------------------------------------------------------------
(* A sent instruction read back.                                            *)

\* The names of the structs' accounts as the client spells them.
ClientName ==
  [ admin |-> "admin", admin_pool |-> "adminPool", asset_registry |-> "assetRegistry",
    from_account |-> "fromAccount", input_mint |-> "inputMint",
    input_mint_program |-> "inputMintProgram", input_price_update |-> "inputPriceUpdate",
    investor |-> "investor", investor_pool |-> "investorPool",
    jupiter_program |-> "jupiterProgram", money_manager |-> "moneyManager",
    money_manager_pool |-> "moneyManagerPool", operator |-> "operator",
    oracle_pool |-> "oraclePool", oracle_pool_from |-> "oraclePoolFrom",
    oracle_pool_to |-> "oraclePoolTo", output_mint |-> "outputMint",
    output_mint_program |-> "outputMintProgram",
    output_price_update |-> "outputPriceUpdate", payer |-> "payer",
    pending_admin |-> "pendingAdmin", price_update |-> "priceUpdate",
    program |-> "program", program_data |-> "programData", requester |-> "requester",
    system_program |-> "systemProgram", to_account |-> "toAccount",
    token_mint |-> "tokenMint", token_program |-> "tokenProgram",
    token_program2022 |-> "tokenProgram2022", trader |-> "trader",
    vault_input_token_account |-> "vaultInputTokenAccount",
    vault_output_token_account |-> "vaultOutputTokenAccount", vault_pool |-> "vaultPool" ]

\* Whoever reads a sent instruction with the generated parsers sees, under the name of each
\* account, the one the program takes for it (parse...Instruction, by the structs of
\* src/programs): builders, parsers and program agree on every list.
ParsedBack ==
  Pending =>
    \A i \in DOMAIN request.tx :
      LET ix == request.tx[i]
          rows == Structs[ix.name]
          read == ParseFbytVaultInstruction(ix)
      IN ix.name \in DOMAIN Structs =>
           /\ DOMAIN read.accounts = {ClientName[rows[j].account] : j \in DOMAIN rows}
           /\ \A j \in DOMAIN rows : read.accounts[ClientName[rows[j].account]] = ix.metas[j]

=============================================================================
