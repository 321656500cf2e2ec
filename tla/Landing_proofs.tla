---------------------------- MODULE Landing_proofs ----------------------------
(***************************************************************************)
(* A transaction under way and the chain it lands on, for any wallets,     *)
(* mints, feeds and clicks: what others do meanwhile has it refused only   *)
(* by a change of what it depends on.                                      *)
(*                                                                         *)
(* Of two chains, an earlier and a later one, the later has all that the   *)
(* earlier had, but for the oracles (Kept).  A transaction that the        *)
(* earlier takes is run on both side by side: what its first instructions  *)
(* open is opened on both, so the two stay alike, and its last one finds   *)
(* on the later chain what it found on the earlier.                        *)
(***************************************************************************)
EXTENDS Pages_proofs

-----------------------------------------------------------------------------
(* Addresses tell what is at them.                                          *)

\* What is at an address is of the address's kind, and says of itself what the address does.
LEMMA Places ==
  ASSUME NEW c, ChainInv(c), NEW x \in DOMAIN c
  PROVE  /\ c[x].type \in AccountTypes
         /\ x = AdminPool => c[x].type = "AdminPool"
         /\ \A m : x = Oracle(m) => c[x].type = "OraclePool" /\ c[x].token_mint = m
         /\ \A k : x = FindMoneyManagerPoolPda(AdminPool, k) => c[x].type = "MoneyManagerPool"
         /\ \A v : x = FindAssetRegistryPda(v) =>
                c[x].type = "AssetRegistry" /\ v \in Vaults(c)
         /\ \A k, n : x = VaultPoolAddress(AdminPool, k, n) =>
                c[x].type = "VaultPool" /\ c[x].money_manager = k /\ c[x].index = n
         /\ \A k, v, m : x = Position(k, v, m) => c[x].type = "InvestorPool"
         /\ \A o, p, m : x = FindAssociatedTokenPda(o, p, m) =>
                c[x].type = "TokenAccount" /\ c[x].owner = o /\ c[x].mint = m
<1>0. AccountOK(c, x)
  BY DEF ChainInv
<1> DEFINE Word == IF c[x].type = "TokenAccount" THEN "AssociatedToken" ELSE c[x].type
<1>1. c[x].type \in AccountTypes
  BY <1>0 DEF AccountOK
<1>2. x[1] = Word
  <2>1. CASE c[x].type = "AdminPool"
    BY <1>0, <2>1 DEF AccountOK, AdminPool, FindAdminPoolPda
  <2>2. CASE c[x].type = "OraclePool"
    BY <1>0, <2>2 DEF AccountOK, Oracle, FindOraclePoolPda
  <2>3. CASE c[x].type = "MoneyManagerPool"
    BY <1>0, <2>3 DEF AccountOK, FindMoneyManagerPoolPda
  <2>4. CASE c[x].type = "AssetRegistry"
    BY <1>0, <2>4 DEF AccountOK, FindAssetRegistryPda
  <2>5. CASE c[x].type = "VaultPool"
    BY <1>0, <2>5 DEF AccountOK, VaultOK, VaultPoolAddress
  <2>6. CASE c[x].type = "InvestorPool"
    BY <1>0, <2>6 DEF AccountOK, PositionOK, Position, FindInvestorPoolPda
  <2>7. CASE c[x].type = "TokenAccount"
    BY <1>0, <2>7 DEF AccountOK, FindAssociatedTokenPda
  <2> QED
    BY <1>1, <2>1, <2>2, <2>3, <2>4, <2>5, <2>6, <2>7 DEF AccountTypes
<1>3. x = AdminPool => c[x].type = "AdminPool"
  BY <1>1, <1>2 DEF AdminPool, FindAdminPoolPda, AccountTypes
<1>4. ASSUME NEW m, x = Oracle(m) PROVE c[x].type = "OraclePool" /\ c[x].token_mint = m
  <2>1. c[x].type = "OraclePool"
    BY <1>1, <1>2, <1>4 DEF Oracle, FindOraclePoolPda, AccountTypes
  <2>2. x = Oracle(c[x].token_mint)
    BY <1>0, <2>1 DEF AccountOK
  <2> QED
    BY <1>4, <2>1, <2>2 DEF Oracle, FindOraclePoolPda
<1>5. ASSUME NEW k, x = FindMoneyManagerPoolPda(AdminPool, k) PROVE c[x].type = "MoneyManagerPool"
  BY <1>1, <1>2, <1>5 DEF FindMoneyManagerPoolPda, AccountTypes
<1>6. ASSUME NEW v, x = FindAssetRegistryPda(v)
      PROVE  c[x].type = "AssetRegistry" /\ v \in Vaults(c)
  <2>1. c[x].type = "AssetRegistry"
    BY <1>1, <1>2, <1>6 DEF FindAssetRegistryPda, AccountTypes
  <2>2. PICK w \in Vaults(c) : x = FindAssetRegistryPda(w)
    BY <1>0, <2>1 DEF AccountOK
  <2> QED
    BY <1>6, <2>1, <2>2 DEF FindAssetRegistryPda
<1>7. ASSUME NEW k, NEW n, x = VaultPoolAddress(AdminPool, k, n)
      PROVE  c[x].type = "VaultPool" /\ c[x].money_manager = k /\ c[x].index = n
  <2>1. c[x].type = "VaultPool"
    BY <1>1, <1>2, <1>7 DEF VaultPoolAddress, AccountTypes
  <2>2. x = VaultPoolAddress(AdminPool, c[x].money_manager, c[x].index)
    BY <1>0, <2>1 DEF AccountOK, VaultOK
  <2> QED
    BY <1>7, <2>1, <2>2 DEF VaultPoolAddress
<1>8. ASSUME NEW k, NEW v, NEW m, x = Position(k, v, m) PROVE c[x].type = "InvestorPool"
  BY <1>1, <1>2, <1>8 DEF Position, FindInvestorPoolPda, AccountTypes
<1>9. ASSUME NEW o, NEW p, NEW m, x = FindAssociatedTokenPda(o, p, m)
      PROVE  c[x].type = "TokenAccount" /\ c[x].owner = o /\ c[x].mint = m
  <2>1. c[x].type = "TokenAccount"
    BY <1>1, <1>2, <1>9 DEF FindAssociatedTokenPda, AccountTypes
  <2>2. x = FindAssociatedTokenPda(c[x].owner, MintProgram[c[x].mint], c[x].mint)
    BY <1>0, <2>1 DEF AccountOK
  <2> QED
    BY <1>9, <2>1, <2>2 DEF FindAssociatedTokenPda
<1> QED
  BY <1>1, <1>3, <1>4, <1>5, <1>6, <1>7, <1>8, <1>9

\* An oracle is the one of its mint.
LEMMA OraclePlace ==
  ASSUME NEW c, ChainInv(c), NEW x, Holds(c, x, "OraclePool")
  PROVE  x = Oracle(c[x].token_mint)
BY DEF ChainInv, AccountOK, Holds

-----------------------------------------------------------------------------
(* What a later chain has of an earlier one.                                *)

\* Whatever is not an oracle is there, and says who owns it and what mint it is of.
Kept(c, d) ==
  \A x \in DOMAIN c : c[x].type # "OraclePool" =>
    /\ x \in DOMAIN d /\ d[x].type = c[x].type
    /\ c[x].type = "VaultPool" =>
         d[x].token_mint = c[x].token_mint /\ d[x].money_manager = c[x].money_manager
    /\ c[x].type = "TokenAccount" => d[x].owner = c[x].owner /\ d[x].mint = c[x].mint

\* A vault's manager and a token account's owner and mint are in their addresses.
LEMMA LastingIsKept ==
  ASSUME NEW c, NEW d, ChainInv(c), ChainInv(d), Lasts(c, d)
  PROVE  Kept(c, d)
<1> SUFFICES ASSUME NEW x \in DOMAIN c, c[x].type # "OraclePool"
             PROVE  /\ x \in DOMAIN d /\ d[x].type = c[x].type
                    /\ c[x].type = "VaultPool" => /\ d[x].token_mint = c[x].token_mint
                                                  /\ d[x].money_manager = c[x].money_manager
                    /\ c[x].type = "TokenAccount" =>
                         d[x].owner = c[x].owner /\ d[x].mint = c[x].mint
  BY DEF Kept
<1>1. /\ x \in DOMAIN d /\ d[x].type = c[x].type
      /\ c[x].type = "VaultPool" => d[x].token_mint = c[x].token_mint
  BY DEF Lasts
<1>2. ASSUME c[x].type = "VaultPool" PROVE d[x].money_manager = c[x].money_manager
  <2>1. x = VaultPoolAddress(AdminPool, c[x].money_manager, c[x].index)
    BY <1>2 DEF ChainInv, AccountOK, VaultOK
  <2> QED
    BY <1>1, <2>1, Places
<1>3. ASSUME c[x].type = "TokenAccount" PROVE d[x].owner = c[x].owner /\ d[x].mint = c[x].mint
  <2>1. x = FindAssociatedTokenPda(c[x].owner, MintProgram[c[x].mint], c[x].mint)
    BY <1>3 DEF ChainInv, AccountOK
  <2> QED
    BY <1>1, <2>1, Places
<1> QED
  BY <1>1, <1>2, <1>3

\* The same, or nothing, is at an address of both.
LEMMA SameAt ==
  ASSUME NEW c, NEW d, ChainInv(c), ChainInv(d), NEW x, At(c, x) = At(d, x)
  PROVE  /\ x \in DOMAIN c <=> x \in DOMAIN d
         /\ x \in DOMAIN c => d[x] = c[x]
<1>1. \A e \in {c, d} : x \in DOMAIN e => e[x].type # "none"
  BY DEF ChainInv, AccountOK, AccountTypes
<1> QED
  BY <1>1 DEF At

-----------------------------------------------------------------------------
(* What one chain accepts the other does.                                   *)

\* The fields of the protocol's account that agree, where there is one.
OwnersAgree(c, d, fields) ==
  Holds(c, AdminPool, "AdminPool") =>
    /\ "admin" \in fields => Admin(d) = Admin(c)
    /\ "pending_admin" \in fields =>
         d[AdminPool].pending_admin = c[AdminPool].pending_admin
    /\ "operator" \in fields => d[AdminPool].operator = c[AdminPool].operator

AsksAdmin ==
  LimitInstructions \cup OracleInstructions
    \cup {"admin_update_operator", "admin_transfer_ownership", "create_vault", "swap",
          "withdraw_token_fund", "withdraw_money_management_fee"}

\* What an instruction asks of the chain that others may have changed.
Undisturbed(c, d, ix, a) ==
  LET n == ix.name IN
  /\ n \in AsksAdmin => Admin(d) = Admin(c)
  /\ n = "create_admin_pool" => AdminPool \notin DOMAIN d
  /\ n = "admin_accept_ownership" => d[AdminPool].pending_admin = c[AdminPool].pending_admin
  /\ n = "withdraw_money_management_fee" => d[AdminPool].operator = c[AdminPool].operator
  /\ n \in OracleInstructions \cup {"create_oracle_pool", "create_vault", "deposit_token_fund"} =>
       At(c, a.oracle_pool) = At(d, a.oracle_pool)
  /\ n \in {"create_money_manager_pool", "create_vault"} =>
       At(c, a.money_manager_pool) = At(d, a.money_manager_pool)
  /\ n = "create_investor_pool" => At(c, a.investor_pool) = At(d, a.investor_pool)
  /\ n = "swap" =>
       /\ At(c, a.oracle_pool_from) = At(d, a.oracle_pool_from)
       /\ At(c, a.oracle_pool_to) = At(d, a.oracle_pool_to)
       /\ \/ a.trader = c[a.vault_pool].money_manager
          \/ d[a.vault_pool].trading_delegate = c[a.vault_pool].trading_delegate
  /\ n = "withdraw_token_fund" =>
       LET groups == Groups(ix, Structs[n], 7)
       IN \A g \in DOMAIN groups :
            At(c, groups[g][1].address) = At(d, groups[g][1].address)

\* The constraints that look at what lasts.
LEMMA KeptConstraints ==
  ASSUME NEW c, NEW d, Kept(c, d)
  PROVE  /\ \A x, type : type # "OraclePool" /\ Holds(c, x, type) => Holds(d, x, type)
         /\ \A a : /\ IsAdminPool(c, a) => IsAdminPool(d, a)
                   /\ IsVault(c, a) => /\ IsVault(d, a)
                                       /\ d[a.vault_pool].token_mint = c[a.vault_pool].token_mint
                                       /\ d[a.vault_pool].money_manager
                                            = c[a.vault_pool].money_manager
                   /\ VaultOfMint(c, a) => VaultOfMint(d, a)
                   /\ VaultOfManager(c, a) => VaultOfManager(d, a)
                   /\ IsRegistry(c, a) => IsRegistry(d, a)
         /\ \A x, mint, owner, program :
              IsAssociated(c, x, mint, owner, program) => IsAssociated(d, x, mint, owner, program)
         /\ \A meta, mint, owner :
              TokenAccountOf(c, meta, mint, owner) => TokenAccountOf(d, meta, mint, owner)
<1>1. \A x, type : type # "OraclePool" /\ Holds(c, x, type) => Holds(d, x, type)
  BY DEF Kept, Holds
<1>2. ASSUME NEW a
      PROVE  /\ IsAdminPool(c, a) => IsAdminPool(d, a)
             /\ IsVault(c, a) => /\ IsVault(d, a)
                                 /\ d[a.vault_pool].token_mint = c[a.vault_pool].token_mint
                                 /\ d[a.vault_pool].money_manager = c[a.vault_pool].money_manager
             /\ IsRegistry(c, a) => IsRegistry(d, a)
  <2>1. IsAdminPool(c, a) => IsAdminPool(d, a)
    BY <1>1 DEF IsAdminPool
  <2>2. IsVault(c, a) => /\ IsVault(d, a)
                         /\ d[a.vault_pool].token_mint = c[a.vault_pool].token_mint
                         /\ d[a.vault_pool].money_manager = c[a.vault_pool].money_manager
    BY DEF Kept, IsVault, Holds
  <2>3. IsRegistry(c, a) => IsRegistry(d, a)
    BY <1>1 DEF IsRegistry
  <2> QED
    BY <2>1, <2>2, <2>3
<1>3. \A a : /\ VaultOfMint(c, a) => VaultOfMint(d, a)
             /\ VaultOfManager(c, a) => VaultOfManager(d, a)
  BY <1>2 DEF VaultOfMint, VaultOfManager
<1>4. \A x, mint, owner, program :
        IsAssociated(c, x, mint, owner, program) => IsAssociated(d, x, mint, owner, program)
  BY <1>1 DEF IsAssociated
<1>5. \A meta, mint, owner :
        TokenAccountOf(c, meta, mint, owner) => TokenAccountOf(d, meta, mint, owner)
  BY DEF Kept, TokenAccountOf, Holds
<1> QED
  BY <1>1, <1>2, <1>3, <1>4, <1>5

\* And those that look at an oracle, which is the same.
LEMMA OracleConstraints ==
  ASSUME NEW c, NEW d, ChainInv(c), ChainInv(d), NEW x, At(c, x) = At(d, x),
         Holds(c, x, "OraclePool")
  PROVE  Holds(d, x, "OraclePool") /\ d[x] = c[x]
BY SameAt DEF Holds

\* An accepted instruction is accepted on a later chain that differs nowhere it looks.
LEMMA AcceptsStill ==
  ASSUME NEW c, NEW d, ChainInv(c), ChainInv(d), Kept(c, d),
         NEW ix, ix.name \in DOMAIN Structs, NEW a, Accepts(c, ix, a), Undisturbed(c, d, ix, a)
  PROVE  Accepts(d, ix, a)
<1> USE DEF DelegateInstructions
<1>1. CASE ix.name = "create_admin_pool"
  BY <1>1 DEF Accepts, Undisturbed
<1>2. CASE ix.name \in DelegateInstructions
  BY <1>2, KeptConstraints DEF Accepts
<1> DEFINE admins == LimitInstructions \cup OracleInstructions
                       \cup {"admin_update_operator", "admin_transfer_ownership"}
<1>3. ASSUME ix.name # "create_admin_pool", ix.name \notin DelegateInstructions
      PROVE  IsAdminPool(c, a) /\ IsAdminPool(d, a)
  BY <1>3, KeptConstraints DEF Accepts
<1>4. ASSUME ix.name \in admins
      PROVE  a.admin = Admin(d)
  BY <1>4 DEF Accepts, Undisturbed, AsksAdmin, LimitInstructions, OracleInstructions
<1>5. CASE ix.name \in LimitInstructions \cup {"admin_update_operator", "admin_transfer_ownership"}
  BY <1>3, <1>4, <1>5 DEF Accepts, LimitInstructions, OracleInstructions
<1>6. CASE ix.name = "admin_accept_ownership"
  <2>1. a.pending_admin = d[AdminPool].pending_admin
    BY <1>6 DEF Accepts, Undisturbed
  <2> QED
    BY <1>3, <1>6, <2>1 DEF Accepts, LimitInstructions, OracleInstructions
<1>7. CASE ix.name = "create_oracle_pool"
  <2>1. /\ a.token_mint \in Mints
        /\ a.oracle_pool = FindOraclePoolPda(a.admin_pool, a.token_mint)
        /\ a.oracle_pool \notin DOMAIN c
    BY <1>7 DEF Accepts
  <2>2. a.oracle_pool \notin DOMAIN d
    BY <1>7, <2>1, SameAt DEF Undisturbed
  <2> QED
    BY <1>3, <1>7, <2>1, <2>2 DEF Accepts, LimitInstructions, OracleInstructions
<1>8. CASE ix.name \in OracleInstructions
  <2>1. OracleAtSeeds(c, a)
    BY <1>8 DEF Accepts, OracleInstructions
  <2>2. At(c, a.oracle_pool) = At(d, a.oracle_pool)
    BY <1>8 DEF Undisturbed
  <2>3. OracleAtSeeds(d, a)
    BY <2>1, <2>2, OracleConstraints DEF OracleAtSeeds, IsOraclePool
  <2> QED
    BY <1>3, <1>4, <1>8, <2>3 DEF Accepts, LimitInstructions, OracleInstructions
<1>9. CASE ix.name = "get_price_info"
  BY <1>3, <1>9 DEF Accepts, LimitInstructions, OracleInstructions
<1>10. CASE ix.name = "create_money_manager_pool"
  <2>1. /\ a.money_manager_pool = FindMoneyManagerPoolPda(a.admin_pool, a.money_manager)
        /\ a.money_manager_pool \notin DOMAIN c
    BY <1>10 DEF Accepts
  <2>2. a.money_manager_pool \notin DOMAIN d
    BY <1>10, <2>1, SameAt DEF Undisturbed
  <2> QED
    BY <1>3, <1>10, <2>1, <2>2 DEF Accepts, LimitInstructions, OracleInstructions
<1>11. CASE ix.name = "create_vault"
  <2> DEFINE pool == a.money_manager_pool
  <2>1. MayCreateVault(c, a) /\ a.admin_pool = AdminPool
    BY <1>3, <1>11 DEF Accepts, IsAdminPool
  <2>2. Holds(d, pool, "MoneyManagerPool") /\ d[pool] = c[pool]
    BY <1>11, <2>1, SameAt DEF Undisturbed, MayCreateVault, Holds
  <2>3. Holds(d, a.oracle_pool, "OraclePool") /\ d[a.oracle_pool] = c[a.oracle_pool]
    BY <1>11, <2>1, OracleConstraints DEF Undisturbed, MayCreateVault, IsOraclePool
  <2>4. /\ pool = FindMoneyManagerPoolPda(AdminPool, a.money_manager)
        /\ a.vault_pool = VaultPoolAddress(AdminPool, a.money_manager, d[pool].vaults_amount)
        /\ a.asset_registry = FindAssetRegistryPda(a.vault_pool)
    BY <2>1, <2>2 DEF MayCreateVault, VaultIndex
  <2>5. a.vault_pool \notin DOMAIN d
    <3> SUFFICES ASSUME a.vault_pool \in DOMAIN d PROVE FALSE
      OBVIOUS
    <3> DEFINE vault == d[a.vault_pool]
    <3>1. /\ vault.type = "VaultPool" /\ vault.money_manager = a.money_manager
          /\ vault.index = d[pool].vaults_amount
      BY <2>4, Places
    <3>2. /\ vault \in VaultPools
          /\ vault.index
               < d[FindMoneyManagerPoolPda(AdminPool, vault.money_manager)].vaults_amount
      BY <3>1 DEF ChainInv, AccountOK, VaultOK
    <3>3. vault.index < d[pool].vaults_amount /\ vault.index \in Nat
      BY <2>4, <3>1, <3>2 DEF VaultPools
    <3> QED
      BY <3>1, <3>3
  <2>6. a.asset_registry \notin DOMAIN d
    BY <2>4, <2>5, Places DEF Vaults
  <2>7. a.admin = Admin(d)
    BY <1>11, <2>1 DEF Undisturbed, AsksAdmin, MayCreateVault
  <2>8. MayCreateVault(d, a)
    BY <2>1, <2>2, <2>3, <2>5, <2>6, <2>7
       DEF MayCreateVault, VaultIndex, IsOraclePool, ApprovedAndPriced, Priced
  <2> QED
    BY <1>3, <1>11, <2>8 DEF Accepts, LimitInstructions, OracleInstructions
<1>12. CASE ix.name = "create_investor_pool"
  <2>1. /\ VaultOfMint(c, a)
        /\ a.investor_pool =
             FindInvestorPoolPda(a.investor, a.admin_pool, a.vault_pool, a.token_mint)
        /\ a.investor_pool \notin DOMAIN c
    BY <1>12 DEF Accepts
  <2>2. a.investor_pool \notin DOMAIN d /\ VaultOfMint(d, a)
    BY <1>12, <2>1, SameAt, KeptConstraints DEF Undisturbed
  <2> QED
    BY <1>3, <1>12, <2>1, <2>2 DEF Accepts, LimitInstructions, OracleInstructions
<1>13. CASE ix.name = "deposit_token_fund"
  <2>1. MayDeposit(c, a)
    BY <1>13 DEF Accepts
  <2>2. Holds(d, a.oracle_pool, "OraclePool") /\ d[a.oracle_pool] = c[a.oracle_pool]
    BY <1>13, <2>1, OracleConstraints DEF Undisturbed, MayDeposit, IsOraclePool
  <2>3. VaultOfMint(d, a) /\ IsRegistry(d, a) /\ Holds(d, a.investor_pool, "InvestorPool")
    BY <2>1, KeptConstraints DEF MayDeposit
  <2>4. /\ IsAssociated(d, a.from_account, a.token_mint, a.investor, a.token_program)
        /\ IsAssociated(d, a.to_account, a.token_mint, a.vault_pool, a.token_program)
    BY <2>1, KeptConstraints DEF MayDeposit
  <2>5. MayDeposit(d, a)
    BY <2>1, <2>2, <2>3, <2>4 DEF MayDeposit, IsOraclePool, ApprovedAndPriced, Priced
  <2> QED
    BY <1>3, <1>13, <2>5 DEF Accepts, LimitInstructions, OracleInstructions
<1>14. CASE ix.name = "withdraw_token_fund"
  <2> DEFINE groups == Groups(ix, Structs[ix.name], 7)
  <2>1. MayWithdraw(c, a, groups)
    BY <1>14 DEF Accepts
  <2>2. \A g \in DOMAIN groups : At(c, groups[g][1].address) = At(d, groups[g][1].address)
    BY <1>14 DEF Undisturbed
  <2> HIDE DEF groups
  <2>3. Admin(d) = Admin(c)
    BY <1>14 DEF Undisturbed, AsksAdmin
  <2>4. ASSUME NEW i \in DOMAIN groups PROVE RedeemedLeg(d, a, groups[i])
    <3> DEFINE g == groups[i]
    <3>1. RedeemedLeg(c, a, g) /\ At(c, g[1].address) = At(d, g[1].address)
      BY <2>1, <2>2 DEF MayWithdraw
    <3> HIDE DEF g
    <3>2. Holds(d, g[1].address, "OraclePool") /\ d[g[1].address] = c[g[1].address]
      BY <3>1, OracleConstraints DEF RedeemedLeg
    <3>3. RedeemedLeg(d, a, g)
      BY <2>3, <3>1, <3>2, KeptConstraints DEF RedeemedLeg, ApprovedAndPriced, Priced
    <3> QED
      BY <3>3 DEF g
  <2>5. /\ VaultOfManager(d, a) /\ IsRegistry(d, a) /\ Holds(d, a.investor_pool, "InvestorPool")
        /\ d[a.vault_pool].token_mint = c[a.vault_pool].token_mint
    BY <2>1, KeptConstraints DEF MayWithdraw, VaultOfManager
  <2>6. MayWithdraw(d, a, groups)
    BY <2>1, <2>4, <2>5 DEF MayWithdraw
  <2> QED
    BY <1>3, <1>14, <2>6 DEF Accepts, LimitInstructions, OracleInstructions, groups
<1>15. CASE ix.name = "swap"
  <2>1. a.admin = Admin(c) /\ VaultOfMint(c, a) /\ IsRegistry(c, a) /\ MaySwap(c, a)
    BY <1>15 DEF Accepts
  <2>2. /\ Holds(d, a.oracle_pool_from, "OraclePool")
        /\ d[a.oracle_pool_from] = c[a.oracle_pool_from]
        /\ Holds(d, a.oracle_pool_to, "OraclePool") /\ d[a.oracle_pool_to] = c[a.oracle_pool_to]
    BY <1>15, <2>1, OracleConstraints DEF Undisturbed, MaySwap, CanonicallyPriced
  <2>3. /\ VaultOfMint(d, a) /\ IsRegistry(d, a)
        /\ d[a.vault_pool].money_manager = c[a.vault_pool].money_manager
    BY <2>1, KeptConstraints DEF VaultOfMint
  <2>4. a.trader \in {d[a.vault_pool].money_manager, d[a.vault_pool].trading_delegate} \ {Default}
    BY <1>15, <2>1, <2>3 DEF Undisturbed, MaySwap
  <2>5. /\ IsAssociated(d, a.vault_input_token_account, a.input_mint, a.vault_pool,
                        a.input_mint_program)
        /\ IsAssociated(d, a.vault_output_token_account, a.output_mint, a.vault_pool,
                        a.output_mint_program)
    BY <2>1, KeptConstraints DEF MaySwap
  <2>6. MaySwap(d, a)
    BY <2>1, <2>2, <2>4, <2>5 DEF MaySwap, CanonicallyPriced
  <2>7. a.admin = Admin(d)
    BY <1>15, <2>1 DEF Undisturbed, AsksAdmin
  <2> QED
    BY <1>3, <1>15, <2>3, <2>6, <2>7 DEF Accepts, LimitInstructions, OracleInstructions
<1>16. CASE ix.name = "close_vault"
  <2>1. VaultOfMint(d, a) /\ VaultOfManager(d, a)
    BY <1>16, KeptConstraints DEF Accepts
  <2> QED
    BY <1>3, <1>16, <2>1 DEF Accepts, LimitInstructions, OracleInstructions
<1>17. CASE ix.name = "withdraw_money_management_fee"
  <2> DEFINE groups == Groups(ix, Structs[ix.name], 4)
  <2>1. MayTakeFee(c, a, groups)
    BY <1>17 DEF Accepts
  <2> HIDE DEF groups
  <2>2. Admin(d) = Admin(c) /\ d[AdminPool].operator = c[AdminPool].operator
    BY <1>17 DEF Undisturbed, AsksAdmin
  <2>3. /\ IsVault(d, a) /\ IsRegistry(d, a)
        /\ d[a.vault_pool].money_manager = c[a.vault_pool].money_manager
    BY <2>1, KeptConstraints DEF MayTakeFee
  <2>4. ASSUME NEW i \in DOMAIN groups PROVE FeeLeg(d, a, groups[i])
    BY <2>1, <2>2, <2>3, KeptConstraints DEF MayTakeFee, FeeLeg
  <2>5. MayTakeFee(d, a, groups)
    BY <2>1, <2>2, <2>3, <2>4 DEF MayTakeFee
  <2> QED
    BY <1>3, <1>17, <2>5 DEF Accepts, LimitInstructions, OracleInstructions, groups
<1>18. ix.name \in
         {"create_admin_pool", "admin_update_operator", "admin_transfer_ownership",
          "admin_accept_ownership", "create_oracle_pool", "get_price_info",
          "create_money_manager_pool", "create_vault", "create_investor_pool",
          "deposit_token_fund", "withdraw_token_fund", "swap", "close_vault",
          "withdraw_money_management_fee"}
         \cup LimitInstructions \cup OracleInstructions \cup DelegateInstructions
  BY DEF Structs, LimitInstructions, OracleInstructions
<1> QED
  BY <1>1, <1>2, <1>5, <1>6, <1>7, <1>8, <1>9, <1>10, <1>11, <1>12, <1>13, <1>14, <1>15,
     <1>16, <1>17, <1>18

-----------------------------------------------------------------------------
(* What an instruction needs left as it is.                                 *)

\* The later chain has what the earlier one had, and agrees with it where it matters.
Alike(c, d, watched, fields) ==
  /\ ChainInv(c) /\ ChainInv(d) /\ Kept(c, d)
  /\ \A x \in watched : At(c, x) = At(d, x)
  /\ OwnersAgree(c, d, fields)

\* What is kept twice is kept.
LEMMA KeptOn ==
  ASSUME NEW c, NEW d, NEW e, Kept(c, d), Kept(d, e)
  PROVE  Kept(c, e)
BY DEF Kept

\* And leaves something, as it did.
LEMMA TakenStill ==
  ASSUME NEW c, NEW d, ChainInv(c), ChainInv(d), Kept(c, d),
         NEW ix, ix.name \in DOMAIN Structs, NEW wallet, Executed(c, ix, wallet) # {},
         NEW a, a = Accounts(ix, Structs[ix.name]),
         FlagsMet(ix, Structs[ix.name], wallet) /\ Accepts(c, ix, a) => Undisturbed(c, d, ix, a)
  PROVE  Executed(d, ix, wallet) # {}
<1>1. FlagsMet(ix, Structs[ix.name], wallet) /\ Accepts(c, ix, a)
  BY DEF Executed
<1>2. Accepts(d, ix, a)
  BY <1>1, AcceptsStill
<1> QED
  BY <1>1, <1>2 DEF Executed

\* Those that are given a mint, and the oracle of that mint or a position in it.
MintInstructions ==
  OracleInstructions
    \cup {"create_oracle_pool", "create_vault", "create_investor_pool", "deposit_token_fund"}

\* The accounts and the fields of the protocol's account that its acceptance hangs on.
Needs(ix, wallet, watched, fields) ==
  LET n == ix.name
      a == Accounts(ix, Structs[n])
  IN /\ n \in DOMAIN Structs /\ n # "create_admin_pool"
     /\ n \in AsksAdmin => "admin" \in fields
     /\ n = "admin_accept_ownership" => "pending_admin" \in fields
     /\ n = "withdraw_money_management_fee" => "operator" \in fields
     /\ n \in MintInstructions =>
          (IF n = "create_investor_pool" THEN Position(wallet, a.vault_pool, a.token_mint)
           ELSE Oracle(a.token_mint)) \in watched
     /\ n \in {"create_money_manager_pool", "create_vault"} =>
          FindMoneyManagerPoolPda(AdminPool, wallet) \in watched
     /\ n = "swap" => a.oracle_pool_from \in watched /\ a.oracle_pool_to \in watched
     /\ n = "withdraw_token_fund" =>
          LET groups == Groups(ix, Structs[n], 7)
          IN \A g \in DOMAIN groups : groups[g][1].address \in watched

\* The oracle, the manager's pool and the position are those of the mint and the wallet.
LEMMA AccountsMeant ==
  ASSUME NEW c, ChainInv(c), NEW ix, ix.name \in DOMAIN Structs, NEW wallet, NEW a,
         a = Accounts(ix, Structs[ix.name]),
         FlagsMet(ix, Structs[ix.name], wallet), Accepts(c, ix, a)
  PROVE  /\ ix.name \in MintInstructions \ {"create_investor_pool"} =>
              a.oracle_pool = Oracle(a.token_mint)
         /\ ix.name = "create_investor_pool" =>
              a.investor_pool = Position(wallet, a.vault_pool, a.token_mint)
         /\ ix.name \in {"create_money_manager_pool", "create_vault"} =>
              a.money_manager_pool = FindMoneyManagerPoolPda(AdminPool, wallet)
         /\ ix.name = "swap" => a.trader = wallet
<1>1. ix.name \notin DelegateInstructions \cup {"create_admin_pool"} => a.admin_pool = AdminPool
  BY DEF Accepts, IsAdminPool
<1>2. /\ ix.name \in {"create_money_manager_pool", "create_vault"} => a.money_manager = wallet
      /\ ix.name = "create_investor_pool" => a.investor = wallet
  BY StoredAccounts
<1>3. CASE ix.name \in OracleInstructions \cup {"create_oracle_pool"}
  BY <1>1, <1>3 DEF Accepts, OracleAtSeeds, OracleInstructions, DelegateInstructions, Oracle
<1>4. CASE ix.name = "create_vault"
  <2>1. MayCreateVault(c, a) /\ a.admin_pool = AdminPool
    BY <1>1, <1>4 DEF Accepts, DelegateInstructions
  <2>2. a.oracle_pool = Oracle(a.token_mint)
    BY <2>1, OraclePlace DEF MayCreateVault, IsOraclePool
  <2> QED
    BY <1>2, <1>4, <2>1, <2>2 DEF MayCreateVault
<1>5. CASE ix.name = "create_money_manager_pool"
  <2>1. a.money_manager_pool = FindMoneyManagerPoolPda(a.admin_pool, a.money_manager)
    BY <1>5 DEF Accepts, DelegateInstructions
  <2> QED
    BY <1>1, <1>2, <1>5, <2>1 DEF MintInstructions, OracleInstructions, DelegateInstructions
<1>6. CASE ix.name = "create_investor_pool"
  <2>1. a.investor_pool =
          FindInvestorPoolPda(a.investor, a.admin_pool, a.vault_pool, a.token_mint)
    BY <1>6 DEF Accepts, DelegateInstructions
  <2> QED
    BY <1>1, <1>2, <1>6, <2>1 DEF Position, DelegateInstructions
<1>7. CASE ix.name = "deposit_token_fund"
  <2>1. MayDeposit(c, a)
    BY <1>7 DEF Accepts, DelegateInstructions
  <2> QED
    BY <1>7, <2>1, OraclePlace DEF MayDeposit, IsOraclePool
<1>8. CASE ix.name = "swap"
  <2>1. /\ 3 \in DOMAIN Structs["swap"] /\ Structs["swap"][3].account = "trader"
        /\ Structs["swap"][3].signer
    BY DEF Structs, SignerMut, Mut, Ro
  <2>2. a.trader = wallet
    BY <1>8, <2>1, StructAt, SignerAt
  <2> QED
    BY <1>8, <2>2 DEF MintInstructions, OracleInstructions
<1> QED
  BY <1>3, <1>4, <1>5, <1>6, <1>7, <1>8 DEF MintInstructions

\* What it needs left is left, so it is taken still.
LEMMA NeedsStill ==
  ASSUME NEW c, NEW d, NEW watched, NEW fields, Alike(c, d, watched, fields),
         NEW wallet, NEW ix, Needs(ix, wallet, watched, fields), Executed(c, ix, wallet) # {},
         NEW a, a = Accounts(ix, Structs[ix.name]),
         ix.name = "swap" => \/ wallet = c[a.vault_pool].money_manager
                             \/ d[a.vault_pool].trading_delegate = c[a.vault_pool].trading_delegate
  PROVE  Executed(d, ix, wallet) # {}
<1>1. ChainInv(c) /\ ChainInv(d) /\ Kept(c, d) /\ \A x \in watched : At(c, x) = At(d, x)
  BY DEF Alike
<1>2. ix.name \in DOMAIN Structs /\ ix.name # "create_admin_pool"
  BY DEF Needs
<1>3. FlagsMet(ix, Structs[ix.name], wallet) /\ Accepts(c, ix, a)
  BY <1>2 DEF Executed
<1>4. ix.name \notin DelegateInstructions =>
        OwnersAgree(c, d, fields) /\ Holds(c, AdminPool, "AdminPool")
  BY <1>2, <1>3 DEF Alike, Accepts, IsAdminPool
<1>5. /\ ix.name \in AsksAdmin => Admin(d) = Admin(c)
      /\ ix.name = "admin_accept_ownership" =>
           d[AdminPool].pending_admin = c[AdminPool].pending_admin
      /\ ix.name = "withdraw_money_management_fee" =>
           d[AdminPool].operator = c[AdminPool].operator
  BY <1>4 DEF Needs, OwnersAgree, AsksAdmin, DelegateInstructions, LimitInstructions,
              OracleInstructions
<1>6. /\ ix.name \in MintInstructions \ {"create_investor_pool"} =>
           At(c, a.oracle_pool) = At(d, a.oracle_pool)
      /\ ix.name = "create_investor_pool" => At(c, a.investor_pool) = At(d, a.investor_pool)
      /\ ix.name \in {"create_money_manager_pool", "create_vault"} =>
           At(c, a.money_manager_pool) = At(d, a.money_manager_pool)
      /\ ix.name = "swap" => a.trader = wallet
  BY <1>1, <1>2, <1>3, AccountsMeant DEF Needs, MintInstructions
<1>7. ix.name = "swap" => /\ At(c, a.oracle_pool_from) = At(d, a.oracle_pool_from)
                          /\ At(c, a.oracle_pool_to) = At(d, a.oracle_pool_to)
  BY <1>1 DEF Needs
<1>8. ix.name = "withdraw_token_fund" =>
        LET groups == Groups(ix, Structs[ix.name], 7)
        IN \A g \in DOMAIN groups :
             At(c, groups[g][1].address) = At(d, groups[g][1].address)
  BY <1>1 DEF Needs
<1>9. /\ ix.name \in OracleInstructions
                       \cup {"create_oracle_pool", "create_vault", "deposit_token_fund"} =>
           At(c, a.oracle_pool) = At(d, a.oracle_pool)
      /\ ix.name = "swap" =>
           /\ At(c, a.oracle_pool_from) = At(d, a.oracle_pool_from)
           /\ At(c, a.oracle_pool_to) = At(d, a.oracle_pool_to)
           /\ \/ a.trader = c[a.vault_pool].money_manager
              \/ d[a.vault_pool].trading_delegate = c[a.vault_pool].trading_delegate
  BY <1>6, <1>7 DEF MintInstructions, OracleInstructions
<1>10. Undisturbed(c, d, ix, a)
  BY <1>2, <1>5, <1>6, <1>8, <1>9, Zenon DEF Undisturbed
<1> QED
  BY <1>1, <1>2, <1>10, TakenStill

-----------------------------------------------------------------------------
(* The same instructions on both chains.                                    *)

\* An account opened on both.
LEMMA OpenedOnBoth ==
  ASSUME NEW c, NEW d, NEW watched, NEW fields, Alike(c, d, watched, fields),
         NEW x, x # AdminPool, x \notin DOMAIN c, x \notin DOMAIN d, NEW account,
         ChainInv(Put(c, x, account)), ChainInv(Put(d, x, account))
  PROVE  Alike(Put(c, x, account), Put(d, x, account), watched, fields)
<1> DEFINE e == Put(c, x, account)
           g == Put(d, x, account)
<1>1. /\ DOMAIN e = DOMAIN c \cup {x} /\ e[x] = account /\ \A y \in DOMAIN c : e[y] = c[y]
      /\ DOMAIN g = DOMAIN d \cup {x} /\ g[x] = account /\ \A y \in DOMAIN d : g[y] = d[y]
  BY DEF Put
<1>2. ChainInv(e) /\ ChainInv(g)
  OBVIOUS
<1> HIDE DEF e, g
<1>3. Kept(e, g)
  BY <1>1 DEF Alike, Kept
<1>4. \A y \in watched : At(e, y) = At(g, y)
  <2> SUFFICES ASSUME NEW y \in watched PROVE At(e, y) = At(g, y)
    OBVIOUS
  <2>1. (y \in DOMAIN c <=> y \in DOMAIN d) /\ (y \in DOMAIN c => d[y] = c[y])
    BY SameAt DEF Alike
  <2> QED
    BY <1>1, <2>1 DEF At
<1>5. OwnersAgree(e, g, fields)
  <2>1. ASSUME Holds(e, AdminPool, "AdminPool")
        PROVE  Holds(c, AdminPool, "AdminPool") /\ e[AdminPool] = c[AdminPool]
    BY <1>1, <2>1 DEF Holds
  <2>2. ASSUME Holds(e, AdminPool, "AdminPool")
        PROVE  g[AdminPool] = d[AdminPool]
    BY <1>1, <2>1, <2>2 DEF Alike, Kept, Holds
  <2> QED
    BY <2>1, <2>2 DEF Alike, OwnersAgree, Admin
<1>6. Alike(e, g, watched, fields)
  BY <1>2, <1>3, <1>4, <1>5 DEF Alike
<1> QED
  BY <1>6 DEF e, g

\* A token account opened on the earlier chain that someone else has opened on the later.
LEMMA OpenedBefore ==
  ASSUME NEW c, NEW d, NEW watched, NEW fields, Alike(c, d, watched, fields),
         NEW x, x # AdminPool, x \notin watched, x \notin DOMAIN c, x \in DOMAIN d, NEW account,
         account.type = "TokenAccount", d[x].type = "TokenAccount",
         d[x].owner = account.owner, d[x].mint = account.mint,
         ChainInv(Put(c, x, account))
  PROVE  Alike(Put(c, x, account), d, watched, fields)
<1> DEFINE e == Put(c, x, account)
<1>1. DOMAIN e = DOMAIN c \cup {x} /\ e[x] = account /\ \A y \in DOMAIN c : e[y] = c[y]
  BY DEF Put
<1>2. ChainInv(e)
  OBVIOUS
<1> HIDE DEF e
<1>3. Kept(e, d)
  BY <1>1 DEF Alike, Kept
<1>4. \A y \in watched : At(e, y) = At(d, y)
  BY <1>1 DEF Alike, At
<1>5. OwnersAgree(e, d, fields)
  BY <1>1 DEF Alike, OwnersAgree, Holds, Admin
<1>6. Alike(e, d, watched, fields)
  BY <1>2, <1>3, <1>4, <1>5 DEF Alike
<1> QED
  BY <1>6 DEF e

\* None of the watched accounts is a token account.
NoTokenAccounts(watched) == \A o, p, m : FindAssociatedTokenPda(o, p, m) \notin watched

\* What comes before the last instruction of a transaction: the accounts it opens.
Opens(ix, wallet, watched) ==
  \/ ix.name \in {"create_associated_token_idempotent", "transfer_sol", "sync_native"}
  \/ /\ ix.name \in {"create_oracle_pool", "create_money_manager_pool", "create_investor_pool"}
     /\ Needs(ix, wallet, watched, {})

\* An instruction that opens an account leaves the two chains alike.
LEMMA OpeningStill ==
  ASSUME NEW c, NEW d, NEW watched, NEW fields, Alike(c, d, watched, fields),
         NoTokenAccounts(watched), NEW ix, InstructionOK(ix), NEW wallet \in Keys,
         Opens(ix, wallet, watched), NEW e \in Executed(c, ix, wallet)
  PROVE  \E g \in Executed(d, ix, wallet) : Alike(e, g, watched, fields)
<1>1. ChainInv(c) /\ ChainInv(d) /\ ChainInv(e)
  BY ExecutedKeeps DEF Alike
<1>2. {"create_associated_token_idempotent", "transfer_sol", "sync_native"} \cap DOMAIN Structs = {}
  BY DEF Structs
<1>3. CASE ix.name = "create_associated_token_idempotent"
  <2> DEFINE x == FindAssociatedTokenPda(ix.args.owner, ix.args.tokenProgram, ix.args.mint)
             new == [type |-> "TokenAccount", owner |-> ix.args.owner, mint |-> ix.args.mint]
             After(b) == IF x \in DOMAIN b THEN b ELSE Put(b, x, new)
  <2>1. \A b : Executed(b, ix, wallet) = CreateAssociatedToken(b, ix.args)
    BY <1>2, <1>3 DEF Executed, Foreign
  <2>2. ix.args.tokenProgram = MintProgram[ix.args.mint]
    BY <2>1 DEF CreateAssociatedToken
  <2>3. \A b : Executed(b, ix, wallet) = {After(b)}
    BY <2>1, <2>2 DEF CreateAssociatedToken
  <2>4. e = After(c) /\ After(d) \in Executed(d, ix, wallet)
    BY <2>3
  <2>5. ChainInv(After(c)) /\ ChainInv(After(d))
    BY <1>1, <2>4, ExecutedKeeps
  <2>6. x # AdminPool /\ x \notin watched
    BY DEF AdminPool, FindAdminPoolPda, FindAssociatedTokenPda, NoTokenAccounts
  <2>7. x \in DOMAIN c => x \in DOMAIN d
    BY <1>1, Places DEF Alike, Kept
  <2>8. x \in DOMAIN d =>
          d[x].type = "TokenAccount" /\ d[x].owner = new.owner /\ d[x].mint = new.mint
    BY <1>1, Places
  <2>9. new.type = "TokenAccount"
    OBVIOUS
  <2> HIDE DEF x, new
  <2>10. Alike(After(c), After(d), watched, fields)
    BY <2>5, <2>6, <2>7, <2>8, <2>9, OpenedOnBoth, OpenedBefore
  <2> QED
    BY <2>4, <2>10
<1>4. CASE ix.name = "transfer_sol"
  BY <1>2, <1>4 DEF Executed, Foreign
<1>5. CASE ix.name = "sync_native"
  <2>1. Holds(c, ix.args.account, "TokenAccount") /\ e = c
    BY <1>2, <1>5 DEF Executed, Foreign
  <2>2. Holds(d, ix.args.account, "TokenAccount")
    BY <2>1 DEF Holds, Alike, Kept
  <2>3. Executed(d, ix, wallet) = {d}
    BY <1>2, <1>5, <2>2 DEF Executed, Foreign
  <2> QED
    BY <2>1, <2>3
<1>6. CASE ix.name \in {"create_oracle_pool", "create_money_manager_pool", "create_investor_pool"}
  <2> DEFINE a == Accounts(ix, Structs[ix.name])
             x == CASE ix.name = "create_oracle_pool" -> a.oracle_pool
                    [] ix.name = "create_money_manager_pool" -> a.money_manager_pool
                    [] ix.name = "create_investor_pool" -> a.investor_pool
             new == CASE ix.name = "create_oracle_pool" ->
                           [ type |-> "OraclePool", token_mint |-> a.token_mint,
                             feed_id |-> ix.args.feedId, is_approved |-> FALSE ]
                      [] ix.name = "create_money_manager_pool" ->
                           [type |-> "MoneyManagerPool", vaults_amount |-> 0]
                      [] ix.name = "create_investor_pool" ->
                           [ type |-> "InvestorPool", investor |-> a.investor,
                             vault_pool |-> a.vault_pool, token_mint |-> a.token_mint ]
  <2>0. ix.name \in DOMAIN Structs
    BY <1>6 DEF Structs
  <2>1. FlagsMet(ix, Structs[ix.name], wallet) /\ Accepts(c, ix, a) /\ e = Effect(c, ix, a)
    BY <2>0 DEF Executed
  <2>2. x \in watched
    BY <1>1, <1>2, <1>6, <2>0, <2>1, AccountsMeant DEF Opens, Needs, MintInstructions
  <2>3. \A b : Effect(b, ix, a) = Put(b, x, new)
    BY <1>6 DEF Effect
  <2> HIDE DEF a, new
  <2>4. x \notin DOMAIN c /\ x # AdminPool
    BY <1>6, <2>1 DEF Accepts, AdminPool, FindAdminPoolPda, FindOraclePoolPda,
                      FindMoneyManagerPoolPda, FindInvestorPoolPda, DelegateInstructions
  <2>5. At(c, x) = At(d, x) /\ x \notin DOMAIN d
    BY <1>1, <2>2, <2>4, SameAt DEF Alike
  <2> HIDE DEF x
  <2>6. Alike(c, d, watched, {}) /\ Needs(ix, wallet, watched, {})
    BY <1>2, <1>6 DEF Alike, OwnersAgree, Opens
  <2>7. Executed(d, ix, wallet) # {}
    BY <1>6, <2>6, NeedsStill
  <2>8. Executed(d, ix, wallet) = {Effect(d, ix, a)}
    BY <2>0, <2>1, <2>7 DEF Executed, a
  <2>9. ChainInv(Effect(d, ix, a))
    BY <1>1, <2>8, ExecutedKeeps
  <2>10. Alike(Put(c, x, new), Put(d, x, new), watched, fields)
    BY <1>1, <2>1, <2>3, <2>4, <2>5, <2>9, OpenedOnBoth
  <2> QED
    BY <2>1, <2>3, <2>8, <2>10
<1> QED
  BY <1>3, <1>4, <1>5, <1>6 DEF Opens

\* A transaction on both, its last instruction compared where the others have left it.
LEMMA LandsStill ==
  ASSUME NEW c, NEW d, NEW watched, NEW fields, Alike(c, d, watched, fields),
         NoTokenAccounts(watched), NEW wallet \in Keys,
         NEW tx, TxOK(tx), NEW n \in Nat \ {0}, n = Len(tx),
         \A i \in 1..(n - 1) : Opens(tx[i], wallet, watched),
         \A e, g : /\ Kept(c, e) /\ Alike(e, g, watched, fields)
                   /\ Executed(e, tx[n], wallet) # {}
                   => Executed(g, tx[n], wallet) # {},
         Landed(c, tx, wallet) # {}
  PROVE  Landed(d, tx, wallet) # {}
<1> DEFINE left(b) == Runs(b, tx, wallet)
<1>1. \A b : /\ left(b)[0] = {b}
             /\ \A i \in 1..n : left(b)[i] = ExecutedOn(left(b)[i - 1], tx[i], wallet)
  BY RunsStep
<1>2. \A i \in 1..n : InstructionOK(tx[i])
  <2>1. DOMAIN tx = 1..n
    BY DEF TxOK
  <2> QED
    BY <2>1 DEF TxOK, Range
<1> HIDE DEF left
<1> DEFINE S == {i \in Nat : i < n => \A e \in left(c)[i] :
                   Kept(c, e) /\ \E g \in left(d)[i] : Alike(e, g, watched, fields)}
<1>3. 0 \in S
  BY <1>1 DEF Kept
<1>4. ASSUME NEW i \in Nat, i \in S PROVE i + 1 \in S
  <2> SUFFICES ASSUME i + 1 < n, NEW e \in left(c)[i + 1]
               PROVE  Kept(c, e) /\ \E g \in left(d)[i + 1] : Alike(e, g, watched, fields)
    OBVIOUS
  <2>1. i + 1 \in 1..n /\ i + 1 \in 1..(n - 1) /\ (i + 1) - 1 = i /\ i < n
    OBVIOUS
  <2>2. PICK b \in left(c)[i] : e \in Executed(b, tx[i + 1], wallet)
    BY <1>1, <2>1 DEF ExecutedOn
  <2>3. Kept(c, b) /\ \E g \in left(d)[i] : Alike(b, g, watched, fields)
    BY <1>4, <2>1, <2>2
  <2>4. PICK g \in left(d)[i] : Alike(b, g, watched, fields)
    BY <2>3
  <2>5. PICK h \in Executed(g, tx[i + 1], wallet) : Alike(e, h, watched, fields)
    BY <1>2, <2>1, <2>2, <2>4, OpeningStill
  <2>6. h \in left(d)[i + 1]
    BY <1>1, <2>1, <2>4, <2>5 DEF ExecutedOn
  <2>7. Kept(b, e)
    BY <1>2, <2>1, <2>2, <2>4, ExecutedKeeps, LastingIsKept DEF Alike
  <2> QED
    BY <2>3, <2>5, <2>6, <2>7, KeptOn
<1>5. Nat \subseteq S
  <2> HIDE DEF S
  <2> QED
    BY <1>3, <1>4, NatSetInduction
<1>6. n - 1 \in Nat /\ n - 1 < n /\ n \in 1..n
  OBVIOUS
<1>7. PICK h : h \in left(c)[n]
  BY DEF Landed, left
<1>8. PICK e \in left(c)[n - 1] : h \in Executed(e, tx[n], wallet)
  BY <1>1, <1>6, <1>7 DEF ExecutedOn
<1>9. PICK g \in left(d)[n - 1] : Alike(e, g, watched, fields)
  BY <1>5, <1>6, <1>8
<1>10. Kept(c, e)
  BY <1>5, <1>6, <1>8
<1>11. PICK j : j \in Executed(g, tx[n], wallet)
  BY <1>8, <1>9, <1>10
<1>12. j \in left(d)[n]
  BY <1>1, <1>6, <1>9, <1>11 DEF ExecutedOn
<1> QED
  BY <1>12 DEF Landed, left

\* A transaction of one instruction.
LEMMA LandedOne ==
  ASSUME NEW c, NEW ix, NEW wallet
  PROVE  Landed(c, <<ix>>, wallet) = Executed(c, ix, wallet)
<1> DEFINE tx == <<ix>>
           left == Runs(c, tx, wallet)
<1>1. Len(tx) = 1 /\ tx[1] = ix
  OBVIOUS
<1> HIDE DEF tx
<1>2. left[0] = {c} /\ left[1] = ExecutedOn(left[0], tx[1], wallet)
  <2>1. PICK n \in Nat : n = 1
    OBVIOUS
  <2> DEFINE m == Len(tx)
  <2>0. n = m
    BY <1>1, <2>1
  <2>2. /\ Runs(c, tx, wallet)[0] = {c}
        /\ \A i \in 1..n :
             Runs(c, tx, wallet)[i] = ExecutedOn(Runs(c, tx, wallet)[i - 1], tx[i], wallet)
    BY <2>0, RunsStep
  <2> HIDE DEF left
  <2>3. left[0] = {c} /\ \A i \in 1..n : left[i] = ExecutedOn(left[i - 1], tx[i], wallet)
    BY <2>2 DEF left
  <2>4. 1 \in 1..n /\ 1 - 1 = 0
    BY <2>1
  <2> QED
    BY <2>3, <2>4
<1>3. left[1] = Executed(c, ix, wallet)
  BY <1>1, <1>2 DEF ExecutedOn
<1>4. Landed(c, tx, wallet) = left[1]
  BY <1>1 DEF Landed
<1> QED
  BY <1>3, <1>4 DEF tx

-----------------------------------------------------------------------------
(* The instructions of the pages.                                           *)

\* An account of an instruction is what the builder was given under its name.
LEMMA GivenAccount ==
  ASSUME NEW name \in DOMAIN Structs, NEW input, NEW arguments,
         NEW ix, BuiltFrom(ix, name, input, arguments)
  PROVE  /\ ix.name = name
         /\ \A i \in DOMAIN Structs[name] :
              Accounts(ix, Structs[name])[Structs[name][i].account]
                = input[ClientName[Structs[name][i].account]]
<1>1. /\ ix.name = name /\ ix.args = [a \in arguments |-> input[a]]
      /\ IsList(ix.metas) /\ Len(ix.metas) >= Len(Structs[name])
      /\ \A i \in DOMAIN RowsOf[name] : ix.metas[i].address = input[RowsOf[name][i].account]
  BY Built
<1> SUFFICES ASSUME NEW i \in DOMAIN Structs[name]
             PROVE  Accounts(ix, Structs[name])[Structs[name][i].account]
                      = input[ClientName[Structs[name][i].account]]
  BY <1>1
<1> DEFINE rows == RowsOf[name]
           struct == Structs[name]
<1>2. PICK n \in Nat : AgreeOn(rows, struct, n)
  BY RowsAgree
<1>3. Accounts(ix, struct)[struct[i].account] = ix.metas[i].address
  BY <1>1, StructAt
<1>4. i \in DOMAIN rows /\ rows[i].account = ClientName[struct[i].account]
  BY <1>2 DEF AgreeOn
<1> QED
  BY <1>1, <1>3, <1>4

\* The instructions by the builders that make them.
LEMMA BuilderNames ==
  ASSUME NEW input
  PROVE  /\ GetCreateAdminPoolInstruction(input).name = "create_admin_pool"
         /\ GetAdminUpdateOperatorInstructionAsync(input).name = "admin_update_operator"
         /\ GetAdminTransferOwnershipInstructionAsync(input).name = "admin_transfer_ownership"
         /\ GetAdminAcceptOwnershipInstructionAsync(input).name = "admin_accept_ownership"
         /\ GetGetPriceInfoInstructionAsync(input).name = "get_price_info"
         /\ GetCreateMoneyManagerPoolInstructionAsync(input).name = "create_money_manager_pool"
         /\ GetCloseVaultInstructionAsync(input).name = "close_vault"
         /\ GetSetTradingDelegateInstruction(input).name = "set_trading_delegate"
         /\ GetRevokeTradingDelegateInstruction(input).name = "revoke_trading_delegate"
         /\ \A more : WithRemaining(GetWithdrawMoneyManagementFeeInstructionAsync(input), more).name
                        = "withdraw_money_management_fee"
<1>1. \A name, full, rows, arguments : Instruction(name, full, rows, arguments).name = name
  BY DEF Instruction
<1>2. \A ix, more : ix = Instruction("withdraw_money_management_fee", WithTokenPrograms(
                           WithAssetRegistry(WithAdminPool(input))),
                           WithdrawMoneyManagementFeeRows, {})
        => WithRemaining(ix, more).name = ix.name
  BY DEF WithRemaining, Instruction
<1> QED
  BY <1>1, <1>2
     DEF GetCreateAdminPoolInstruction,
         GetAdminUpdateOperatorInstructionAsync, GetAdminUpdateOperatorInstruction,
         GetAdminTransferOwnershipInstructionAsync, GetAdminTransferOwnershipInstruction,
         GetAdminAcceptOwnershipInstructionAsync, GetAdminAcceptOwnershipInstruction,
         GetGetPriceInfoInstructionAsync, GetGetPriceInfoInstruction,
         GetCreateMoneyManagerPoolInstructionAsync, GetCreateMoneyManagerPoolInstruction,
         GetCloseVaultInstructionAsync, GetCloseVaultInstruction,
         GetSetTradingDelegateInstruction, GetRevokeTradingDelegateInstruction,
         GetWithdrawMoneyManagementFeeInstructionAsync, GetWithdrawMoneyManagementFeeInstruction

\* The limits of the admin page are limits to the program.
LEMMA LimitNames ==
  ASSUME NEW c, NEW k, NEW tx \in LimitTxs(c, k)
  PROVE  \E ix : tx = <<ix>> /\ ix.name \in LimitInstructions
<1>1. \A name, full, rows, arguments : Instruction(name, full, rows, arguments).name = name
  BY DEF Instruction
<1> DEFINE input == Me(k)
<1>2. PICK ix \in {
           GetAdminModifyFeeInstructionAsync(input),
           GetAdminUpdateMaxSlippageBpsInstructionAsync(input),
           GetAdminUpdateMaxAssetCountInstructionAsync(input),
           GetAdminUpdateOracleMaxAgeInstructionAsync(input),
           GetAdminUpdateIdlePeriodInstructionAsync(input),
           GetAdminUpdateFundrisingPeriodMaxInstructionAsync(input),
           GetAdminUpdateWithdrawCooldownMaxInstructionAsync(input),
           GetAdminUpdateRaiseAmountMinUsdInstructionAsync(input),
           GetAdminUpdateContributionAmountMinUsdInstructionAsync(input),
           GetAdminUpdateDustThresholdUsdInstructionAsync(input) } : tx = <<ix>>
  BY DEF LimitTxs
<1> HIDE DEF input
<1>3. ix.name \in LimitInstructions
  BY <1>1, <1>2 DEF LimitInstructions,
         GetAdminModifyFeeInstruction, GetAdminModifyFeeInstructionAsync,
         GetAdminUpdateMaxSlippageBpsInstruction, GetAdminUpdateMaxSlippageBpsInstructionAsync,
         GetAdminUpdateMaxAssetCountInstruction, GetAdminUpdateMaxAssetCountInstructionAsync,
         GetAdminUpdateOracleMaxAgeInstruction, GetAdminUpdateOracleMaxAgeInstructionAsync,
         GetAdminUpdateIdlePeriodInstruction, GetAdminUpdateIdlePeriodInstructionAsync,
         GetAdminUpdateFundrisingPeriodMaxInstruction,
         GetAdminUpdateFundrisingPeriodMaxInstructionAsync,
         GetAdminUpdateWithdrawCooldownMaxInstruction,
         GetAdminUpdateWithdrawCooldownMaxInstructionAsync,
         GetAdminUpdateRaiseAmountMinUsdInstruction,
         GetAdminUpdateRaiseAmountMinUsdInstructionAsync,
         GetAdminUpdateContributionAmountMinUsdInstruction,
         GetAdminUpdateContributionAmountMinUsdInstructionAsync,
         GetAdminUpdateDustThresholdUsdInstruction, GetAdminUpdateDustThresholdUsdInstructionAsync
<1> QED
  BY <1>2, <1>3

\* An instruction's mint is the one its builder was given.
LEMMA MintAccount ==
  ASSUME NEW name \in MintInstructions, NEW input, NEW arguments,
         NEW ix, BuiltFrom(ix, name, input, arguments)
  PROVE  ix.name = name /\ Accounts(ix, Structs[name]).token_mint = input["tokenMint"]
<1>1. name \in DOMAIN Structs
  BY DEF MintInstructions, OracleInstructions, Structs
<1>2. \E i \in DOMAIN Structs[name] : Structs[name][i].account = "token_mint"
  <2>1. \A n \in OracleInstructions \cup {"create_oracle_pool"} :
          3 \in DOMAIN Structs[n] /\ Structs[n][3].account = "token_mint"
    BY DEF OracleInstructions, Structs, Mut
  <2>2. /\ 9 \in DOMAIN Structs["create_vault"]
        /\ Structs["create_vault"][9].account = "token_mint"
    BY DEF Structs, Mut
  <2>3. /\ 4 \in DOMAIN Structs["create_investor_pool"]
        /\ Structs["create_investor_pool"][4].account = "token_mint"
    BY DEF Structs, Mut
  <2>4. /\ 9 \in DOMAIN Structs["deposit_token_fund"]
        /\ Structs["deposit_token_fund"][9].account = "token_mint"
    BY DEF Structs, Mut
  <2> QED
    BY <2>1, <2>2, <2>3, <2>4 DEF MintInstructions
<1>3. PICK i \in DOMAIN Structs[name] : Structs[name][i].account = "token_mint"
  BY <1>2
<1>4. ClientName["token_mint"] = "tokenMint"
  BY DEF ClientName
<1>5. /\ ix.name = name
      /\ Accounts(ix, Structs[name])[Structs[name][i].account]
           = input[ClientName[Structs[name][i].account]]
  BY <1>1, GivenAccount
<1> QED
  BY <1>3, <1>4, <1>5

-----------------------------------------------------------------------------
(* Whole transactions.                                                      *)

\* A list of instructions that come before the last.
Openings(s, wallet, watched) == IsList(s) /\ \A ix \in Range(s) : Opens(ix, wallet, watched)

\* Lists of such instructions: of one, one after the other, and of some or none.
LEMMA OpeningsOne ==
  ASSUME NEW ix, NEW wallet, NEW watched, Opens(ix, wallet, watched)
  PROVE  Openings(<<ix>>, wallet, watched)
<1>1. <<ix>> \in Seq({ix})
  OBVIOUS
<1>2. IsList(<<ix>>) /\ Range(<<ix>>) \subseteq {ix}
  BY <1>1, ListOf
<1> QED
  BY <1>2 DEF Openings

LEMMA OpeningsConcat ==
  ASSUME NEW s, NEW t, NEW wallet, NEW watched,
         Openings(s, wallet, watched), Openings(t, wallet, watched)
  PROVE  Openings(s \o t, wallet, watched)
<1>1. IsList(s \o t) /\ Range(s \o t) \subseteq Range(s) \cup Range(t)
  BY ListConcat DEF Openings
<1> QED
  BY <1>1 DEF Openings

LEMMA OpeningsWhen ==
  ASSUME NEW condition, NEW s, NEW wallet, NEW watched,
         condition => Openings(s, wallet, watched)
  PROVE  Openings(When(condition, s), wallet, watched)
<1>1. IsList(<< >>)
  BY DEF IsList
<1>2. Range(<< >>) = {}
  BY DEF Range
<1>3. Openings(<< >>, wallet, watched)
  BY <1>1, <1>2 DEF Openings
<1> QED
  BY <1>3 DEF When, NoTx

\* Whatever it opens first, if it leaves alone what its last instruction needs left.
LEMMA ManyStill ==
  ASSUME NEW c, NEW d, NEW watched, NEW fields, Alike(c, d, watched, fields),
         NoTokenAccounts(watched), NEW wallet \in Keys,
         NEW s, Openings(s, wallet, watched), NEW ix, TxOK(s \o <<ix>>),
         Needs(ix, wallet, watched, fields),
         ix.name = "swap" => LET vault == Accounts(ix, Structs[ix.name]).vault_pool
                             IN Holds(c, vault, "VaultPool") /\ wallet = c[vault].money_manager,
         Landed(c, s \o <<ix>>, wallet) # {}
  PROVE  Landed(d, s \o <<ix>>, wallet) # {}
<1> DEFINE tx == s \o <<ix>>
<1>1. PICK m \in Nat : m = Len(s)
  BY DEF Openings, IsList
<1>2. /\ Len(tx) = m + 1 /\ tx[m + 1] = ix
      /\ \A i \in 1..m : tx[i] = s[i] /\ s[i] \in Range(s)
  <2>1. s \in Seq(Range(s)) /\ Len(s) = m
    BY <1>1 DEF Openings, IsList
  <2>2. \A U : s \in Seq(U) => /\ Len(tx) = m + 1 /\ tx[m + 1] = ix
                               /\ \A i \in 1..m : tx[i] = s[i] /\ s[i] \in U
    BY <2>1
  <2> QED
    BY <2>1, <2>2
<1>3. TxOK(tx) /\ Landed(c, tx, wallet) # {}
  OBVIOUS
<1> HIDE DEF tx
<1>4. \A i \in 1..m : Opens(tx[i], wallet, watched)
  BY <1>2 DEF Openings
<1>5. ASSUME NEW e, NEW g, Kept(c, e), Alike(e, g, watched, fields),
             Executed(e, ix, wallet) # {}
      PROVE  Executed(g, ix, wallet) # {}
  <2> DEFINE vault == Accounts(ix, Structs[ix.name]).vault_pool
  <2>1. ix.name = "swap" => wallet = e[vault].money_manager
    BY <1>5 DEF Kept, Holds
  <2> QED
    BY <1>5, <2>1, NeedsStill
<1>6. PICK n \in Nat \ {0} : n = m + 1
  OBVIOUS
<1>7. n = Len(tx) /\ tx[n] = ix /\ \A i \in 1..(n - 1) : Opens(tx[i], wallet, watched)
  BY <1>2, <1>4, <1>6
<1>8. \A e, g : /\ Kept(c, e) /\ Alike(e, g, watched, fields)
                /\ Executed(e, tx[n], wallet) # {}
                => Executed(g, tx[n], wallet) # {}
  BY <1>5, <1>7
<1>9. Landed(d, tx, wallet) # {}
  <2>1. n = Len(tx)
    BY <1>7
  <2>2. \A i \in 1..(n - 1) : Opens(tx[i], wallet, watched)
    BY <1>7
  <2>3. TxOK(tx)
    BY <1>3
  <2>4. Landed(c, tx, wallet) # {}
    BY <1>3
  <2> QED
    BY <2>1, <2>2, <2>3, <2>4, <1>8, LandsStill, Zenon
<1> QED
  BY <1>9 DEF tx

\* And the one instruction of most of the pages' transactions.
LEMMA OneStill ==
  ASSUME NEW c, NEW d, NEW watched, NEW fields, Alike(c, d, watched, fields),
         NEW wallet, NEW ix, Needs(ix, wallet, watched, fields),
         ix.name = "swap" =>
           LET vault == Accounts(ix, Structs[ix.name]).vault_pool
           IN \/ wallet = c[vault].money_manager
              \/ d[vault].trading_delegate = c[vault].trading_delegate,
         Landed(c, <<ix>>, wallet) # {}
  PROVE  Landed(d, <<ix>>, wallet) # {}
<1>1. Executed(c, ix, wallet) # {}
  BY LandedOne
<1>2. Executed(d, ix, wallet) # {}
  BY <1>1, NeedsStill
<1> QED
  BY <1>2, LandedOne

-----------------------------------------------------------------------------
(* What a transaction depends on.                                           *)

\* The pages whose transactions do not name the admin, those that name the oracle of a
\* vault's mint, and the one that trades the demo asset.
AnyonesPages ==
  {"bootstrap", "accept", "deposit", "delegate", "revoke", "close vault", "check price",
   "propose", "fund"}
PricedPages == {"deposit", "redeem", "demo trade", "jupiter", "keeper"}
IsDemo(k) == k.page = "demo trade"

\* What two chains agree on that agree on what a click's transaction depends on.
AgreeFor(c, d, k) ==
  /\ k.page = "bootstrap" => (HasAdminPool(c) <=> HasAdminPool(d))
  /\ k.page \notin AnyonesPages => Admin(c) = Admin(d)
  /\ k.page = "accept" => c[AdminPool].pending_admin = d[AdminPool].pending_admin
  /\ k.page = "fee" => c[AdminPool].operator = d[AdminPool].operator
  /\ k.page \in PricedPages /\ "vault" \in DOMAIN k =>
       At(c, Oracle(c[k.vault].token_mint)) = At(d, Oracle(c[k.vault].token_mint))
  /\ "mint" \in DOMAIN k => At(c, Oracle(k.mint)) = At(d, Oracle(k.mint))
  /\ IsDemo(k) => At(c, Oracle(DemoOutMint)) = At(d, Oracle(DemoOutMint))
  /\ k.page = "create" => At(c, FindMoneyManagerPoolPda(AdminPool, k.wallet))
                            = At(d, FindMoneyManagerPoolPda(AdminPool, k.wallet))
  /\ k.page = "deposit" /\ "vault" \in DOMAIN k =>
       (HasPosition(c, k.wallet, k.vault, c[k.vault].token_mint)
          <=> HasPosition(d, k.wallet, k.vault, c[k.vault].token_mint))
  /\ k.page = "keeper" => c[k.vault].trading_delegate = d[k.vault].trading_delegate

\* Equal tuples, read entry by entry.
LEMMA SameDependence ==
  ASSUME NEW c, NEW d, NEW k, DependsOn(c, k) = DependsOn(d, k),
         "vault" \in DOMAIN k => d[k.vault].token_mint = c[k.vault].token_mint
  PROVE  AgreeFor(c, d, k)
<1>1. \A a1, a2, a3, a4, a5, a6, a7, a8, a9, b1, b2, b3, b4, b5, b6, b7, b8, b9 :
        <<a1, a2, a3, a4, a5, a6, a7, a8, a9>> = <<b1, b2, b3, b4, b5, b6, b7, b8, b9>> =>
          /\ a1 = b1 /\ a2 = b2 /\ a3 = b3 /\ a4 = b4 /\ a5 = b5
          /\ a6 = b6 /\ a7 = b7 /\ a8 = b8 /\ a9 = b9
  OBVIOUS
<1> DEFINE base(e) == IF "vault" \in DOMAIN k THEN e[k.vault].token_mint ELSE WsolMint
           first(e) == IF k.page \in AnyonesPages THEN HasAdminPool(e) ELSE Admin(e)
           second(e) == IF k.page = "accept" THEN e[AdminPool].pending_admin ELSE Default
           third(e) == IF k.page = "fee" THEN e[AdminPool].operator ELSE Default
           fourth(e) == IF k.page \in PricedPages THEN At(e, Oracle(base(e))) ELSE << >>
           fifth(e) == IF "mint" \in DOMAIN k THEN At(e, Oracle(k.mint)) ELSE << >>
           sixth(e) == IF IsDemo(k) THEN At(e, Oracle(DemoOutMint)) ELSE << >>
           seventh(e) == IF k.page = "create"
                         THEN At(e, FindMoneyManagerPoolPda(AdminPool, k.wallet)) ELSE << >>
           eighth(e) == IF k.page = "deposit"
                        THEN HasPosition(e, k.wallet, k.vault, base(e)) ELSE FALSE
           ninth(e) == IF k.page = "keeper" THEN e[k.vault].trading_delegate ELSE Default
<1>2. \A e : DependsOn(e, k) = << first(e), second(e), third(e), fourth(e), fifth(e), sixth(e),
                                  seventh(e), eighth(e), ninth(e) >>
  BY DEF DependsOn, AnyonesPages, PricedPages, IsDemo
<1>3. base(c) = base(d)
  OBVIOUS
<1> HIDE DEF first, second, third, fourth, fifth, sixth, seventh, eighth, ninth, base
<1>4. /\ first(c) = first(d) /\ second(c) = second(d) /\ third(c) = third(d)
      /\ fourth(c) = fourth(d) /\ fifth(c) = fifth(d) /\ sixth(c) = sixth(d)
      /\ seventh(c) = seventh(d) /\ eighth(c) = eighth(d) /\ ninth(c) = ninth(d)
  BY <1>1, <1>2
<1>5. /\ k.page \in AnyonesPages => (HasAdminPool(c) <=> HasAdminPool(d))
      /\ k.page \notin AnyonesPages => Admin(c) = Admin(d)
  BY <1>4 DEF first
<1>6. /\ k.page = "accept" => c[AdminPool].pending_admin = d[AdminPool].pending_admin
      /\ k.page = "fee" => c[AdminPool].operator = d[AdminPool].operator
      /\ k.page = "keeper" => c[k.vault].trading_delegate = d[k.vault].trading_delegate
  BY <1>4 DEF second, third, ninth
<1>7. /\ k.page \in PricedPages => At(c, Oracle(base(c))) = At(d, Oracle(base(c)))
      /\ k.page = "deposit" => (HasPosition(c, k.wallet, k.vault, base(c))
                                  <=> HasPosition(d, k.wallet, k.vault, base(c)))
  BY <1>3, <1>4 DEF fourth, eighth
<1>8. /\ "mint" \in DOMAIN k => At(c, Oracle(k.mint)) = At(d, Oracle(k.mint))
      /\ IsDemo(k) => At(c, Oracle(DemoOutMint)) = At(d, Oracle(DemoOutMint))
      /\ k.page = "create" => At(c, FindMoneyManagerPoolPda(AdminPool, k.wallet))
                                = At(d, FindMoneyManagerPoolPda(AdminPool, k.wallet))
  BY <1>4 DEF fifth, sixth, seventh
<1>9. "vault" \in DOMAIN k => base(c) = c[k.vault].token_mint
  BY DEF base
<1>10. k.page = "bootstrap" => k.page \in AnyonesPages
  BY DEF AnyonesPages
<1> QED
  BY <1>5, <1>6, <1>7, <1>8, <1>9, <1>10 DEF AgreeFor

\* A position is all in its address.
LEMMA SamePosition ==
  ASSUME NEW c, NEW d, ChainInv(c), ChainInv(d), NEW wallet, NEW vault, NEW mint,
         HasPosition(c, wallet, vault, mint) <=> HasPosition(d, wallet, vault, mint)
  PROVE  At(c, Position(wallet, vault, mint)) = At(d, Position(wallet, vault, mint))
<1> DEFINE x == Position(wallet, vault, mint)
<1>1. ASSUME NEW e \in {c, d}
      PROVE  x \in DOMAIN e => /\ HasPosition(e, wallet, vault, mint)
                               /\ e[x] = [ type |-> "InvestorPool", investor |-> wallet,
                                           vault_pool |-> vault, token_mint |-> mint ]
  <2> SUFFICES ASSUME x \in DOMAIN e
               PROVE  /\ HasPosition(e, wallet, vault, mint)
                      /\ e[x] = [ type |-> "InvestorPool", investor |-> wallet,
                                  vault_pool |-> vault, token_mint |-> mint ]
    OBVIOUS
  <2>1. e[x].type = "InvestorPool"
    BY Places
  <2>2. PositionOK(e, x)
    BY <2>1 DEF ChainInv, AccountOK
  <2>3. /\ e[x] \in InvestorPools(e)
        /\ x = Position(e[x].investor, e[x].vault_pool, e[x].token_mint)
    BY <2>2 DEF PositionOK
  <2>4. e[x].investor = wallet /\ e[x].vault_pool = vault /\ e[x].token_mint = mint
    BY <2>3 DEF Position, FindInvestorPoolPda
  <2> HIDE DEF x
  <2>5. e[x] = [ type |-> "InvestorPool", investor |-> wallet,
                 vault_pool |-> vault, token_mint |-> mint ]
    BY <2>3, <2>4 DEF InvestorPools
  <2> QED
    BY <2>1, <2>5 DEF HasPosition, Holds, x
<1>2. (x \in DOMAIN c <=> x \in DOMAIN d) /\ (x \in DOMAIN c => c[x] = d[x])
  BY <1>1 DEF HasPosition, Holds
<1> QED
  BY <1>2 DEF At

-----------------------------------------------------------------------------
(* What the instructions of the pages need.                                 *)

\* A builder fills in what is missing and leaves what it is given.
LEMMA Filled ==
  ASSUME NEW input, NEW a \in DOMAIN input
  PROVE  /\ a \in DOMAIN WithAdminPool(input) /\ WithAdminPool(input)[a] = input[a]
         /\ a \in DOMAIN WithOraclePool(input) /\ WithOraclePool(input)[a] = input[a]
         /\ a \in DOMAIN WithMoneyManagerPool(input) /\ WithMoneyManagerPool(input)[a] = input[a]
         /\ a \in DOMAIN WithAssetRegistry(input) /\ WithAssetRegistry(input)[a] = input[a]
         /\ a \in DOMAIN WithInvestorPool(input) /\ WithInvestorPool(input)[a] = input[a]
         /\ a \in DOMAIN WithSystemProgram(input) /\ WithSystemProgram(input)[a] = input[a]
         /\ a \in DOMAIN WithTokenProgram(input) /\ WithTokenProgram(input)[a] = input[a]
BY Given DEF WithAdminPool, WithOraclePool, WithMoneyManagerPool, WithAssetRegistry,
             WithInvestorPool, WithSystemProgram, WithTokenProgram

\* The token accounts of a deposit are filled in the same way.
LEMMA FilledForDeposit ==
  ASSUME NEW input, NEW a \in DOMAIN input
  PROVE  a \in DOMAIN WithDepositAccounts(input) /\ WithDepositAccounts(input)[a] = input[a]
<1>1. a \in DOMAIN WithTokenProgram(input) /\ WithTokenProgram(input)[a] = input[a]
  BY Filled
<1> QED
  BY <1>1, Given DEF WithDepositAccounts

\* An oracle's instructions need it, and all but its proposal the admin.
LEMMA OracleNeeds ==
  ASSUME NEW input, "tokenMint" \in DOMAIN input, NEW wallet, NEW watched, NEW fields,
         Oracle(input["tokenMint"]) \in watched
  PROVE  /\ GetCreateOraclePoolInstructionAsync(input).name = "create_oracle_pool"
         /\ Needs(GetCreateOraclePoolInstructionAsync(input), wallet, watched, fields)
         /\ "admin" \in fields =>
              /\ Needs(GetApproveOraclePoolInstructionAsync(input), wallet, watched, fields)
              /\ Needs(GetUpdateOraclePoolInstructionAsync(input), wallet, watched, fields)
              /\ Needs(GetCloseOraclePoolInstructionAsync(input), wallet, watched, fields)
         /\ GetApproveOraclePoolInstructionAsync(input).name # "swap"
         /\ GetUpdateOraclePoolInstructionAsync(input).name # "swap"
         /\ GetCloseOraclePoolInstructionAsync(input).name # "swap"
<1> DEFINE pooled == WithOraclePool(WithAdminPool(input))
           full == WithSystemProgram(pooled)
<1>1. pooled["tokenMint"] = input["tokenMint"] /\ full["tokenMint"] = input["tokenMint"]
  <2>1. /\ "tokenMint" \in DOMAIN WithAdminPool(input)
        /\ WithAdminPool(input)["tokenMint"] = input["tokenMint"]
    BY Filled
  <2>2. "tokenMint" \in DOMAIN pooled /\ pooled["tokenMint"] = input["tokenMint"]
    BY <2>1, Filled
  <2> QED
    BY <2>2, Filled
<1>2. BuiltFrom(GetCreateOraclePoolInstructionAsync(input), "create_oracle_pool", full, {"feedId"})
  BY DEF GetCreateOraclePoolInstructionAsync, GetCreateOraclePoolInstruction, BuiltFrom, RowsOf
<1>3. BuiltFrom(GetApproveOraclePoolInstructionAsync(input), "approve_oracle_pool", pooled, {})
  BY DEF GetApproveOraclePoolInstructionAsync, GetApproveOraclePoolInstruction, BuiltFrom, RowsOf
<1>4. BuiltFrom(GetUpdateOraclePoolInstructionAsync(input), "update_oracle_pool", pooled,
                {"feedId"})
  BY DEF GetUpdateOraclePoolInstructionAsync, GetUpdateOraclePoolInstruction, BuiltFrom, RowsOf
<1>5. BuiltFrom(GetCloseOraclePoolInstructionAsync(input), "close_oracle_pool", pooled, {})
  BY DEF GetCloseOraclePoolInstructionAsync, GetCloseOraclePoolInstruction, BuiltFrom, RowsOf
<1> HIDE DEF pooled, full
<1>6. ASSUME NEW name \in OracleInstructions \cup {"create_oracle_pool"}, NEW all, NEW arguments,
             NEW ix, BuiltFrom(ix, name, all, arguments), all["tokenMint"] = input["tokenMint"]
      PROVE  /\ ix.name = name
             /\ name = "create_oracle_pool" \/ "admin" \in fields =>
                  Needs(ix, wallet, watched, fields)
  <2>1. ix.name = name /\ Accounts(ix, Structs[name]).token_mint = input["tokenMint"]
    BY <1>6, MintAccount DEF MintInstructions
  <2>2. name \in DOMAIN Structs
    BY DEF OracleInstructions, Structs
  <2> QED
    BY <2>1, <2>2 DEF Needs, AsksAdmin, LimitInstructions, OracleInstructions
<1> QED
  BY <1>1, <1>2, <1>3, <1>4, <1>5, <1>6 DEF OracleInstructions

\* A new vault needs its oracle, its manager's pool and the admin.
LEMMA VaultNeeds ==
  ASSUME NEW input, "tokenMint" \in DOMAIN input, NEW other, NEW wallet, NEW watched, NEW fields,
         Oracle(input["tokenMint"]) \in watched, "admin" \in fields,
         FindMoneyManagerPoolPda(AdminPool, wallet) \in watched
  PROVE  /\ Needs(GetCreateVaultInstructionAsync(input), wallet, watched, fields)
         /\ GetCreateVaultInstructionAsync(input).name = "create_vault"
         /\ Opens(GetCreateMoneyManagerPoolInstructionAsync(other), wallet, watched)
<1> DEFINE full == WithSystemProgram(WithAssetRegistry(WithMoneyManagerPool(WithAdminPool(input))))
           ix == GetCreateVaultInstructionAsync(input)
<1>1. full["tokenMint"] = input["tokenMint"]
  <2>1. /\ "tokenMint" \in DOMAIN WithAdminPool(input)
        /\ WithAdminPool(input)["tokenMint"] = input["tokenMint"]
    BY Filled
  <2>2. /\ "tokenMint" \in DOMAIN WithMoneyManagerPool(WithAdminPool(input))
        /\ WithMoneyManagerPool(WithAdminPool(input))["tokenMint"] = input["tokenMint"]
    BY <2>1, Filled
  <2>3. /\ "tokenMint" \in DOMAIN WithAssetRegistry(WithMoneyManagerPool(WithAdminPool(input)))
        /\ WithAssetRegistry(WithMoneyManagerPool(WithAdminPool(input)))["tokenMint"]
             = input["tokenMint"]
    BY <2>2, Filled
  <2> QED
    BY <2>3, Filled
<1>2. BuiltFrom(ix, "create_vault", full, {})
  BY DEF GetCreateVaultInstructionAsync, GetCreateVaultInstruction, BuiltFrom, RowsOf
<1> HIDE DEF full, ix
<1>3. /\ ix.name = "create_vault"
      /\ Accounts(ix, Structs["create_vault"]).token_mint = input["tokenMint"]
  BY <1>1, <1>2, MintAccount DEF MintInstructions
<1>4. Needs(ix, wallet, watched, fields)
  BY <1>3 DEF Needs, AsksAdmin, LimitInstructions, OracleInstructions, Structs
<1>5. GetCreateMoneyManagerPoolInstructionAsync(other).name = "create_money_manager_pool"
  BY BuilderNames
<1>6. Opens(GetCreateMoneyManagerPoolInstructionAsync(other), wallet, watched)
  BY <1>5 DEF Opens, Needs, AsksAdmin, LimitInstructions, OracleInstructions, MintInstructions,
              Structs
<1> QED
  BY <1>3, <1>4, <1>6 DEF ix

\* A deposit needs its oracle, and the position if it is to open it.
LEMMA DepositNeeds ==
  ASSUME NEW input, "tokenMint" \in DOMAIN input, NEW position,
         "tokenMint" \in DOMAIN position, "vaultPool" \in DOMAIN position,
         NEW wallet, NEW watched, NEW fields, Oracle(input["tokenMint"]) \in watched,
         Position(wallet, position["vaultPool"], position["tokenMint"]) \in watched
  PROVE  /\ Needs(GetDepositTokenFundInstructionAsync(input), wallet, watched, fields)
         /\ GetDepositTokenFundInstructionAsync(input).name = "deposit_token_fund"
         /\ Opens(GetCreateInvestorPoolInstructionAsync(position), wallet, watched)
<1> DEFINE ix == GetDepositTokenFundInstructionAsync(input)
           given == WithDepositAccounts(WithInvestorPool(WithAssetRegistry(WithAdminPool(input))))
           full == WithSystemProgram(WithTokenProgram(given))
           open == GetCreateInvestorPoolInstructionAsync(position)
           filled == WithSystemProgram(WithInvestorPool(WithAdminPool(position)))
<1>1. full["tokenMint"] = input["tokenMint"]
  <2>1. /\ "tokenMint" \in DOMAIN WithAdminPool(input)
        /\ WithAdminPool(input)["tokenMint"] = input["tokenMint"]
    BY Filled
  <2>2. /\ "tokenMint" \in DOMAIN WithAssetRegistry(WithAdminPool(input))
        /\ WithAssetRegistry(WithAdminPool(input))["tokenMint"] = input["tokenMint"]
    BY <2>1, Filled
  <2>3. /\ "tokenMint" \in DOMAIN WithInvestorPool(WithAssetRegistry(WithAdminPool(input)))
        /\ WithInvestorPool(WithAssetRegistry(WithAdminPool(input)))["tokenMint"]
             = input["tokenMint"]
    BY <2>2, Filled
  <2>4. "tokenMint" \in DOMAIN given /\ given["tokenMint"] = input["tokenMint"]
    BY <2>3, FilledForDeposit
  <2>5. /\ "tokenMint" \in DOMAIN WithTokenProgram(given)
        /\ WithTokenProgram(given)["tokenMint"] = input["tokenMint"]
    BY <2>4, Filled
  <2> QED
    BY <2>5, Filled
<1>2. ASSUME NEW a \in {"tokenMint", "vaultPool"} PROVE filled[a] = position[a]
  <2>1. a \in DOMAIN WithAdminPool(position) /\ WithAdminPool(position)[a] = position[a]
    BY Filled
  <2>2. /\ a \in DOMAIN WithInvestorPool(WithAdminPool(position))
        /\ WithInvestorPool(WithAdminPool(position))[a] = position[a]
    BY <2>1, Filled
  <2> QED
    BY <2>2, Filled
<1>3. BuiltFrom(ix, "deposit_token_fund", full, {})
  BY DEF GetDepositTokenFundInstructionAsync, GetDepositTokenFundInstruction, BuiltFrom, RowsOf
<1>4. BuiltFrom(open, "create_investor_pool", filled, {})
  BY DEF GetCreateInvestorPoolInstructionAsync, GetCreateInvestorPoolInstruction, BuiltFrom, RowsOf
<1> HIDE DEF full, ix, open, filled
<1>5. /\ ix.name = "deposit_token_fund"
      /\ Accounts(ix, Structs["deposit_token_fund"]).token_mint = input["tokenMint"]
  BY <1>1, <1>3, MintAccount DEF MintInstructions
<1>6. Needs(ix, wallet, watched, fields)
  BY <1>5 DEF Needs, AsksAdmin, LimitInstructions, OracleInstructions, Structs
<1>7. /\ open.name = "create_investor_pool"
      /\ Accounts(open, Structs["create_investor_pool"]).token_mint = position["tokenMint"]
  BY <1>2, <1>4, MintAccount DEF MintInstructions
<1>8. Accounts(open, Structs["create_investor_pool"]).vault_pool = position["vaultPool"]
  <2>1. /\ "create_investor_pool" \in DOMAIN Structs
        /\ 3 \in DOMAIN Structs["create_investor_pool"]
        /\ Structs["create_investor_pool"][3].account = "vault_pool"
    BY DEF Structs, Mut
  <2>2. ClientName["vault_pool"] = "vaultPool"
    BY DEF ClientName
  <2> QED
    BY <1>2, <1>4, <2>1, <2>2, GivenAccount
<1>9. Opens(open, wallet, watched)
  BY <1>7, <1>8 DEF Opens, Needs, AsksAdmin, LimitInstructions, OracleInstructions, Structs
<1> QED
  BY <1>5, <1>6, <1>9 DEF ix, open

\* A redemption of one leg needs the leg's oracle and the admin.
LEMMA RedeemNeeds ==
  ASSUME NEW input, NEW oracle, NEW l2, NEW l3, NEW l4, NEW l5, NEW l6, NEW l7,
         NEW wallet, NEW watched, NEW fields, oracle \in watched, "admin" \in fields
  PROVE  LET ix == WithRemaining(GetWithdrawTokenFundInstructionAsync(input),
                                 <<R(oracle), l2, l3, l4, l5, l6, l7>>)
         IN ix.name = "withdraw_token_fund" /\ Needs(ix, wallet, watched, fields)
<1> DEFINE leg == <<R(oracle), l2, l3, l4, l5, l6, l7>>
           plain == GetWithdrawTokenFundInstructionAsync(input)
           ix == WithRemaining(plain, leg)
           full == WithSystemProgram(WithTokenPrograms(WithAssetRegistry(WithAdminPool(input))))
           metas == [i \in 1..9 |-> Meta(full[WithdrawTokenFundRows[i].account],
                                         WithdrawTokenFundRows[i])]
<1>1. plain = [name |-> "withdraw_token_fund", metas |-> metas, args |-> plain.args]
  <2>1. DOMAIN WithdrawTokenFundRows = 1..9
    BY DEF WithdrawTokenFundRows
  <2> QED
    BY <2>1 DEF GetWithdrawTokenFundInstructionAsync, GetWithdrawTokenFundInstruction, Instruction
<1>2. Len(metas) = 9 /\ IsList(metas)
  <2>1. metas = [i \in 1..9 |-> metas[i]]
    OBVIOUS
  <2> HIDE DEF metas
  <2> QED
    BY <2>1, ListIntro
<1>3. IsList(leg) /\ Len(leg) = 7 /\ leg[1].address = oracle
  <2>1. leg \in Seq({leg[1], leg[2], leg[3], leg[4], leg[5], leg[6], leg[7]}) /\ Len(leg) = 7
    OBVIOUS
  <2>2. leg[1] = R(oracle)
    OBVIOUS
  <2> HIDE DEF leg
  <2> QED
    BY <2>1, <2>2, ListOf DEF R, Meta
<1> HIDE DEF metas, leg, plain
<1>4. ix.name = "withdraw_token_fund" /\ ix.metas = metas \o leg
  BY <1>1 DEF WithRemaining
<1>5. Len(ix.metas) = 16 /\ ix.metas[10] = leg[1]
  <2> DEFINE U == Range(metas) \cup Range(leg)
  <2>1. metas \in Seq(U) /\ leg \in Seq(U)
    BY <1>2, <1>3 DEF IsList
  <2> HIDE DEF U
  <2>2. Len(metas \o leg) = Len(metas) + Len(leg)
    BY <2>1
  <2>3. (metas \o leg)[Len(metas) + 1] = leg[1]
    <3>1. \A i \in 1..(Len(metas) + Len(leg)) :
            (metas \o leg)[i] = IF i <= Len(metas) THEN metas[i] ELSE leg[i - Len(metas)]
      BY <2>1
    <3>2. /\ Len(metas) + 1 \in 1..(Len(metas) + Len(leg))
          /\ ~(Len(metas) + 1 <= Len(metas)) /\ Len(metas) + 1 - Len(metas) = 1
      BY <1>2, <1>3
    <3> QED
      BY <3>1, <3>2
  <2> QED
    BY <1>2, <1>3, <1>4, <2>2, <2>3
<1> HIDE DEF ix
<1>6. Len(Structs["withdraw_token_fund"]) = 9 /\ "withdraw_token_fund" \in DOMAIN Structs
  BY DEF Structs
<1> DEFINE groups == Groups(ix, Structs["withdraw_token_fund"], 7)
<1>7. \A g \in DOMAIN groups : groups[g][1].address = oracle
  <2>1. groups = [g \in 1..1 |-> [i \in 1..7 |-> ix.metas[9 + (g - 1) * 7 + i]]]
    <3>1. 16 - 9 = 7 /\ 7 \div 7 = 1
      OBVIOUS
    <3> QED
      BY <1>5, <1>6, <3>1 DEF Groups
  <2> HIDE DEF groups
  <2>2. DOMAIN groups = {1} /\ groups[1][1] = ix.metas[10]
    <3>1. 1 \in 1..1 /\ 1 \in 1..7 /\ 9 + (1 - 1) * 7 + 1 = 10 /\ 1..1 = {1}
      OBVIOUS
    <3>2. groups[1] = [i \in 1..7 |-> ix.metas[9 + (1 - 1) * 7 + i]]
      BY <2>1, <3>1
    <3>3. groups[1][1] = ix.metas[9 + (1 - 1) * 7 + 1]
      BY <3>1, <3>2
    <3> QED
      BY <2>1, <3>1, <3>3
  <2> QED
    BY <1>3, <1>5, <2>2
<1> HIDE DEF groups
<1>8. Needs(ix, wallet, watched, fields)
  BY <1>4, <1>6, <1>7
     DEF Needs, AsksAdmin, LimitInstructions, OracleInstructions, MintInstructions, groups
<1> QED
  BY <1>4, <1>8 DEF ix, plain, leg

\* A trade needs the oracles of both its mints and the admin.
LEMMA SwapNeeds ==
  ASSUME NEW c, NEW k, NEW out, NEW program, NEW price, NEW wallet, NEW watched, NEW fields,
         Oracle(c[k.vault].token_mint) \in watched, Oracle(out) \in watched, "admin" \in fields
  PROVE  LET ix == SwapOf(c, k, out, program, price)
         IN /\ ix.name = "swap" /\ Needs(ix, wallet, watched, fields)
            /\ Accounts(ix, Structs[ix.name]).vault_pool = k.vault
<1> DEFINE mint == c[k.vault].token_mint
           input == [ adminPool |-> AdminPool, admin |-> Admin(c), trader |-> k.wallet,
                      tokenMint |-> mint, vaultPool |-> k.vault,
                      assetRegistry |-> FindAssetRegistryPda(k.vault),
                      inputMint |-> mint, inputMintProgram |-> TokenProgram,
                      outputMint |-> out, outputMintProgram |-> program,
                      vaultInputTokenAccount |-> Ata(k.vault, mint),
                      vaultOutputTokenAccount |-> Ata(k.vault, out),
                      oraclePoolFrom |-> Oracle(mint), oraclePoolTo |-> Oracle(out),
                      inputPriceUpdate |-> PriceAccount(c, mint), outputPriceUpdate |-> price,
                      jupiterProgram |-> JupiterProgram, systemProgram |-> SystemProgram ]
           known == input ?? [jupiterProgram |-> JupiterProgram]
           full == WithSystemProgram(known)
           ix == SwapOf(c, k, out, program, price)
<1>1. /\ {"vaultPool", "oraclePoolFrom", "oraclePoolTo"} \subseteq DOMAIN input
      /\ input["vaultPool"] = k.vault
      /\ input["oraclePoolFrom"] = Oracle(mint) /\ input["oraclePoolTo"] = Oracle(out)
  OBVIOUS
<1>2. ix = GetSwapInstruction(input)
  BY DEF SwapOf
<1> HIDE DEF input, ix
<1>3. ASSUME NEW a \in DOMAIN input PROVE full[a] = input[a]
  <2>1. a \in DOMAIN known /\ known[a] = input[a]
    BY Given
  <2> QED
    BY <2>1, Filled
<1>4. BuiltFrom(ix, "swap", full, {})
  BY <1>2 DEF GetSwapInstruction, BuiltFrom, RowsOf
<1> HIDE DEF full
<1>5. "swap" \in DOMAIN Structs
  BY DEF Structs
<1>6. /\ {5, 13, 14} \subseteq DOMAIN Structs["swap"]
      /\ Structs["swap"][5].account = "vault_pool"
      /\ Structs["swap"][13].account = "oracle_pool_from"
      /\ Structs["swap"][14].account = "oracle_pool_to"
  BY DEF Structs, SignerMut, Mut, Ro
<1>7. /\ ClientName["vault_pool"] = "vaultPool"
      /\ ClientName["oracle_pool_from"] = "oraclePoolFrom"
      /\ ClientName["oracle_pool_to"] = "oraclePoolTo"
  BY DEF ClientName
<1>8. /\ ix.name = "swap"
      /\ \A i \in DOMAIN Structs["swap"] :
           Accounts(ix, Structs["swap"])[Structs["swap"][i].account]
             = full[ClientName[Structs["swap"][i].account]]
  BY <1>4, <1>5, GivenAccount
<1>9. /\ Accounts(ix, Structs["swap"]).vault_pool = k.vault
      /\ Accounts(ix, Structs["swap"]).oracle_pool_from = Oracle(mint)
      /\ Accounts(ix, Structs["swap"]).oracle_pool_to = Oracle(out)
  BY <1>1, <1>3, <1>6, <1>7, <1>8
<1>10. Needs(ix, wallet, watched, fields)
  BY <1>5, <1>8, <1>9 DEF Needs, MintInstructions, OracleInstructions
<1> QED
  BY <1>8, <1>9, <1>10 DEF ix

\* The limits, the operator, the nominee and the fee need fields of the protocol's account;
\* the price check and the vault's own switches nothing that changes.
LEMMA PlainNeeds ==
  ASSUME NEW ix, NEW wallet, NEW watched, NEW fields,
         ix.name \in LimitInstructions \cup DelegateInstructions
                       \cup {"admin_update_operator", "admin_transfer_ownership",
                             "admin_accept_ownership", "get_price_info", "close_vault",
                             "withdraw_money_management_fee"},
         ix.name \in AsksAdmin => "admin" \in fields,
         ix.name = "admin_accept_ownership" => "pending_admin" \in fields,
         ix.name = "withdraw_money_management_fee" => "operator" \in fields
  PROVE  Needs(ix, wallet, watched, fields) /\ ix.name # "swap"
<1>1. LimitInstructions \cup DelegateInstructions
        \cup {"admin_update_operator", "admin_transfer_ownership",
              "admin_accept_ownership", "get_price_info", "close_vault",
              "withdraw_money_management_fee"} \subseteq DOMAIN Structs
  BY DEF LimitInstructions, DelegateInstructions, Structs
<1> QED
  BY <1>1 DEF Needs, MintInstructions, LimitInstructions, DelegateInstructions, OracleInstructions

\* A token account and wrapped SOL come before the rest of a transaction.
LEMMA ForeignOpens ==
  ASSUME NEW wallet, NEW watched
  PROVE  /\ \A payer, owner, mint, program :
              /\ Opens(CreateAta(payer, owner, mint, program), wallet, watched)
              /\ CreateAta(payer, owner, mint, program).name = "create_associated_token_idempotent"
         /\ Openings(WrapSol(wallet), wallet, watched)
<1>1. \A name, input, rows, arguments : Instruction(name, input, rows, arguments).name = name
  BY DEF Instruction
<1>2. ASSUME NEW payer, NEW owner, NEW mint, NEW program
      PROVE  /\ Opens(CreateAta(payer, owner, mint, program), wallet, watched)
             /\ CreateAta(payer, owner, mint, program).name = "create_associated_token_idempotent"
  BY <1>1 DEF CreateAta, Opens
<1>3. Openings(WrapSol(wallet), wallet, watched)
  <2> DEFINE account == Ata(wallet, WsolMint)
             input == [from |-> wallet, account |-> account]
             x == CreateAta(wallet, wallet, WsolMint, TokenProgram)
             y == Instruction("transfer_sol", input, << SignerMut("from"), Mut("account") >>, {})
             z == Instruction("sync_native", input, << Mut("account") >>, {"account"})
  <2>1. Opens(x, wallet, watched) /\ Opens(y, wallet, watched) /\ Opens(z, wallet, watched)
    BY <1>1, <1>2 DEF Opens
  <2>2. WrapSol(wallet) = <<x, y, z>>
    BY DEF WrapSol
  <2> HIDE DEF x, y, z
  <2>3. <<x, y, z>> \in Seq({x, y, z})
    OBVIOUS
  <2>4. IsList(<<x, y, z>>) /\ Range(<<x, y, z>>) \subseteq {x, y, z}
    BY <2>3, ListOf
  <2> QED
    BY <2>1, <2>2, <2>4 DEF Openings
<1> QED
  BY <1>2, <1>3

-----------------------------------------------------------------------------
(* Page by page.                                                            *)

\* The chain the page read, the one its transaction would land on, and a later one that
\* has left alone what it depends on.
Meanwhile(c0, c, d, k) ==
  /\ ChainInv(c0) /\ ChainInv(c) /\ ChainInv(d)
  /\ Kept(c0, c) /\ Kept(c, d)
  /\ DependsOn(c, k) = DependsOn(d, k)
  /\ "vault" \in DOMAIN k => k.vault \in Vaults(c0)

\* A vault that the page saw is there with its mint and its manager.
LEMMA VaultKept ==
  ASSUME NEW c0, NEW c, NEW d, NEW k, Meanwhile(c0, c, d, k), "vault" \in DOMAIN k
  PROVE  /\ Holds(c, k.vault, "VaultPool")
         /\ c[k.vault].token_mint = c0[k.vault].token_mint
         /\ d[k.vault].token_mint = c0[k.vault].token_mint
         /\ c[k.vault].money_manager = c0[k.vault].money_manager
BY DEF Meanwhile, Kept, Vaults, Holds

\* The two chains are alike where the transaction looks, if those accounts and fields agree.
LEMMA AlikeWhen ==
  ASSUME NEW c0, NEW c, NEW d, NEW k, Meanwhile(c0, c, d, k), NEW watched, NEW fields,
         \A x \in watched : At(c, x) = At(d, x),
         "admin" \in fields => Admin(c) = Admin(d),
         "pending_admin" \in fields => c[AdminPool].pending_admin = d[AdminPool].pending_admin,
         "operator" \in fields => c[AdminPool].operator = d[AdminPool].operator
  PROVE  Alike(c, d, watched, fields)
BY DEF Meanwhile, Alike, OwnersAgree

\* The same for the base mint that the page read.
LEMMA Dependence ==
  ASSUME NEW c0, NEW c, NEW d, NEW k, Meanwhile(c0, c, d, k)
  PROVE  /\ AgreeFor(c, d, k)
         /\ "vault" \in DOMAIN k =>
              LET mint == c0[k.vault].token_mint IN
              /\ k.page \in PricedPages => At(c, Oracle(mint)) = At(d, Oracle(mint))
              /\ k.page = "deposit" => At(c, Position(k.wallet, k.vault, mint))
                                         = At(d, Position(k.wallet, k.vault, mint))
<1>1. "vault" \in DOMAIN k => /\ c[k.vault].token_mint = c0[k.vault].token_mint
                              /\ d[k.vault].token_mint = c[k.vault].token_mint
  BY VaultKept
<1>2. DependsOn(c, k) = DependsOn(d, k) /\ ChainInv(c) /\ ChainInv(d)
  BY DEF Meanwhile
<1>3. DependsOn(c, k) = DependsOn(d, k)
  BY <1>2
<1>4. "vault" \in DOMAIN k => d[k.vault].token_mint = c[k.vault].token_mint
  BY <1>1
<1>5. AgreeFor(c, d, k)
  BY <1>3, <1>4, SameDependence
<1>6. k.page = "deposit" /\ "vault" \in DOMAIN k =>
        At(c, Position(k.wallet, k.vault, c[k.vault].token_mint))
          = At(d, Position(k.wallet, k.vault, c[k.vault].token_mint))
  BY <1>2, <1>5, SamePosition DEF AgreeFor
<1> QED
  BY <1>1, <1>5, <1>6 DEF AgreeFor

\* A page sends what it has built or nothing.
LEMMA WhenSent ==
  ASSUME NEW condition, NEW tx, When(condition, tx) # NoTx
  PROVE  condition /\ When(condition, tx) = tx
BY DEF When

\* No account at all.
LEMMA NothingWatched == NoTokenAccounts({})
BY DEF NoTokenAccounts

\* The vault's switches and the price check need nothing that changes.
LEMMA ManagerPagesStill ==
  ASSUME NEW c0, NEW c, NEW d, NEW k \in Clicks, Meanwhile(c0, c, d, k),
         NEW tx \in {SetDelegateTx(c0, k), RevokeDelegateTx(c0, k), CloseVaultTx(c0, k),
                     CheckPriceTx(c0, k)}, tx # NoTx,
         Landed(c, tx, k.wallet) # {}
  PROVE  Landed(d, tx, k.wallet) # {}
<1>1. \E ix : tx = <<ix>> /\ ix.name \in DelegateInstructions \cup {"close_vault", "get_price_info"}
  BY WhenSent, BuilderNames
     DEF SetDelegateTx, RevokeDelegateTx, CloseVaultTx, CheckPriceTx, DelegateInstructions
<1>2. PICK ix : /\ tx = <<ix>>
                /\ ix.name \in DelegateInstructions \cup {"close_vault", "get_price_info"}
  BY <1>1
<1>3. Alike(c, d, {}, {})
  BY AlikeWhen
<1>4. ix.name \notin AsksAdmin \cup {"admin_accept_ownership", "withdraw_money_management_fee"}
  BY <1>2 DEF AsksAdmin, DelegateInstructions, LimitInstructions, OracleInstructions
<1>5. Needs(ix, k.wallet, {}, {}) /\ ix.name # "swap"
  BY <1>2, <1>4, PlainNeeds
<1> QED
  BY <1>2, <1>3, <1>5, OneStill

\* The limits and the operator need the admin, an acceptance the nomination.
LEMMA LimitPagesStill ==
  ASSUME NEW c0, NEW c, NEW d, NEW k \in Clicks, Meanwhile(c0, c, d, k),
         k.page \in {"limits", "operator", "transfer", "accept"},
         NEW tx \in (CASE k.page = "limits" -> LimitTxs(c0, k)
                       [] k.page = "operator" -> {SetOperatorTx(c0, k)}
                       [] k.page = "transfer" -> {TransferTx(c0, k)}
                       [] k.page = "accept" -> {AcceptTx(c0, k)}), tx # NoTx,
         Landed(c, tx, k.wallet) # {}
  PROVE  Landed(d, tx, k.wallet) # {}
<1> DEFINE fields == IF k.page = "accept" THEN {"pending_admin"} ELSE {"admin"}
<1>1. \E ix : /\ tx = <<ix>>
              /\ IF k.page = "accept" THEN ix.name = "admin_accept_ownership"
                 ELSE ix.name \in LimitInstructions
                                    \cup {"admin_update_operator", "admin_transfer_ownership"}
  <2>1. CASE k.page = "limits"
    BY <2>1, LimitNames
  <2>2. CASE k.page \in {"operator", "transfer", "accept"}
    BY <2>2, WhenSent, BuilderNames DEF SetOperatorTx, TransferTx, AcceptTx
  <2> QED
    BY <2>1, <2>2
<1>2. PICK ix : /\ tx = <<ix>>
                /\ IF k.page = "accept" THEN ix.name = "admin_accept_ownership"
                   ELSE ix.name \in LimitInstructions
                                      \cup {"admin_update_operator", "admin_transfer_ownership"}
  BY <1>1
<1>3. /\ k.page # "accept" => Admin(c) = Admin(d)
      /\ k.page = "accept" => c[AdminPool].pending_admin = d[AdminPool].pending_admin
  <2>1. k.page # "accept" => k.page \notin AnyonesPages
    BY DEF AnyonesPages
  <2> QED
    BY <2>1, Dependence DEF AgreeFor
<1>4. Alike(c, d, {}, fields)
  <2>1. /\ "admin" \in fields => Admin(c) = Admin(d)
        /\ "pending_admin" \in fields => c[AdminPool].pending_admin = d[AdminPool].pending_admin
        /\ "operator" \notin fields
    BY <1>3
  <2> QED
    BY <2>1, AlikeWhen
<1>5. /\ ix.name \in AsksAdmin => k.page # "accept"
      /\ ix.name = "admin_accept_ownership" => k.page = "accept"
      /\ ix.name # "withdraw_money_management_fee"
  BY <1>2 DEF AsksAdmin, LimitInstructions, OracleInstructions
<1>6. Needs(ix, k.wallet, {}, fields) /\ ix.name # "swap"
  BY <1>2, <1>5, PlainNeeds
<1> HIDE DEF fields
<1> QED
  BY <1>2, <1>4, <1>6, OneStill

\* No token account is watched: of a page's own mint or of another.
LEMMA Watched ==
  \A m, n, w, v : /\ NoTokenAccounts({Oracle(m)})
                  /\ NoTokenAccounts({Oracle(m), Oracle(n)})
                  /\ NoTokenAccounts({Oracle(m), FindMoneyManagerPoolPda(AdminPool, w)})
                  /\ NoTokenAccounts({Oracle(m), Position(w, v, m)})
BY DEF NoTokenAccounts, Oracle, Position, FindOraclePoolPda, FindMoneyManagerPoolPda,
       FindInvestorPoolPda, FindAssociatedTokenPda

\* The protocol is set up once.
LEMMA BootstrapStill ==
  ASSUME NEW c0, NEW c, NEW d, NEW k \in Clicks, Meanwhile(c0, c, d, k),
         k.page = "bootstrap", BootstrapTx(c0, k) # NoTx,
         Landed(c, BootstrapTx(c0, k), k.wallet) # {}
  PROVE  Landed(d, BootstrapTx(c0, k), k.wallet) # {}
<1>1. PICK ix : BootstrapTx(c0, k) = <<ix>> /\ ix.name = "create_admin_pool"
  BY WhenSent, BuilderNames DEF BootstrapTx
<1>2. Executed(c, ix, k.wallet) # {}
  BY <1>1, LandedOne
<1>3. ix.name \in DOMAIN Structs
  BY <1>1 DEF Structs
<1> DEFINE a == Accounts(ix, Structs[ix.name])
<1>4. Accepts(c, ix, a)
  BY <1>2, <1>3 DEF Executed
<1> HIDE DEF a
<1>5. AdminPool \notin DOMAIN c
  BY <1>1, <1>4 DEF Accepts
<1>6. HasAdminPool(c) <=> HasAdminPool(d)
  BY Dependence DEF AgreeFor
<1>7. AdminPool \notin DOMAIN d
  BY <1>5, <1>6, Places DEF HasAdminPool, Holds, Meanwhile
<1>8. Undisturbed(c, d, ix, a)
  BY <1>1, <1>7 DEF Undisturbed, AsksAdmin, LimitInstructions, OracleInstructions
<1>9. Executed(d, ix, k.wallet) # {}
  BY <1>2, <1>3, <1>8, TakenStill DEF Meanwhile, a
<1> QED
  BY <1>1, <1>9, LandedOne

\* A token account is opened or was there.
LEMMA FundStill ==
  ASSUME NEW c, NEW d, NEW k, Landed(c, FundTx(c, k), k.wallet) # {}
  PROVE  Landed(d, FundTx(c, k), k.wallet) # {}
<1> DEFINE ix == CreateAta(k.wallet, k.to, k.mint, MintProgram[k.mint])
<1>1. ix.name = "create_associated_token_idempotent"
  BY DEF CreateAta, Instruction
<1>2. ix.name \notin DOMAIN Structs
  BY <1>1 DEF Structs
<1>3. FundTx(c, k) = <<ix>>
  BY DEF FundTx
<1> HIDE DEF ix
<1>4. \A e : Executed(e, ix, k.wallet) = CreateAssociatedToken(e, ix.args)
  BY <1>1, <1>2 DEF Executed, Foreign
<1>5. Executed(c, ix, k.wallet) # {}
  BY <1>3, LandedOne
<1>6. ix.args.tokenProgram = MintProgram[ix.args.mint]
  BY <1>4, <1>5 DEF CreateAssociatedToken
<1>7. Executed(d, ix, k.wallet) # {}
  BY <1>4, <1>6 DEF CreateAssociatedToken
<1> QED
  BY <1>3, <1>7, LandedOne

\* An oracle proposed, renewed or closed, and one approved, proposed before or by the same.
LEMMA OraclePagesStill ==
  ASSUME NEW c0, NEW c, NEW d, NEW k \in Clicks, Meanwhile(c0, c, d, k),
         "mint" \in DOMAIN k,
         NEW tx \in {ProposeTx(c0, k), OnboardTx(c0, k), UpdateOracleTx(c0, k),
                     CloseOracleTx(c0, k)},
         tx = ProposeTx(c0, k) \/ k.page \notin AnyonesPages,
         tx # NoTx, TxOK(tx), Landed(c, tx, k.wallet) # {}
  PROVE  Landed(d, tx, k.wallet) # {}
<1> DEFINE watched == {Oracle(k.mint)}
           proposed == [requester |-> k.wallet, tokenMint |-> k.mint, feedId |-> k.feed]
           named == [admin |-> k.wallet, tokenMint |-> k.mint]
           renewed == [admin |-> k.wallet, tokenMint |-> k.mint, feedId |-> k.feed]
<1>1. k.wallet \in Keys
  BY ClicksAssumption
<1>2. At(c, Oracle(k.mint)) = At(d, Oracle(k.mint))
  BY Dependence DEF AgreeFor
<1>3. tx # ProposeTx(c0, k) => Admin(c) = Admin(d)
  BY Dependence DEF AgreeFor
<1>4. Alike(c, d, watched, {})
  BY <1>2, AlikeWhen
<1>5. tx # ProposeTx(c0, k) => Alike(c, d, watched, {"admin"})
  BY <1>2, <1>3, AlikeWhen
<1>6. NoTokenAccounts(watched)
  BY Watched
<1>7. /\ "tokenMint" \in DOMAIN proposed /\ Oracle(proposed["tokenMint"]) \in watched
      /\ "tokenMint" \in DOMAIN named /\ Oracle(named["tokenMint"]) \in watched
      /\ "tokenMint" \in DOMAIN renewed /\ Oracle(renewed["tokenMint"]) \in watched
  OBVIOUS
<1>8. /\ ProposeTx(c0, k) = << GetCreateOraclePoolInstructionAsync(proposed) >>
      /\ OnboardTx(c0, k) # NoTx =>
           OnboardTx(c0, k) = When(~HasOracle(c0, k.mint),
                                   << GetCreateOraclePoolInstructionAsync(proposed) >>)
                                \o << GetApproveOraclePoolInstructionAsync(named) >>
      /\ UpdateOracleTx(c0, k) # NoTx =>
           UpdateOracleTx(c0, k) = << GetUpdateOraclePoolInstructionAsync(renewed) >>
      /\ CloseOracleTx(c0, k) # NoTx =>
           CloseOracleTx(c0, k) = << GetCloseOraclePoolInstructionAsync(named) >>
  BY WhenSent DEF ProposeTx, OnboardTx, UpdateOracleTx, CloseOracleTx
<1> HIDE DEF watched, proposed, named, renewed
<1>9. CASE tx = ProposeTx(c0, k)
  BY <1>4, <1>7, <1>8, <1>9, OracleNeeds, OneStill
<1>10. CASE tx = UpdateOracleTx(c0, k) /\ tx # ProposeTx(c0, k)
  BY <1>5, <1>7, <1>8, <1>10, OracleNeeds, OneStill
<1>11. CASE tx = CloseOracleTx(c0, k) /\ tx # ProposeTx(c0, k)
  BY <1>5, <1>7, <1>8, <1>11, OracleNeeds, OneStill
<1>12. CASE tx = OnboardTx(c0, k) /\ tx # ProposeTx(c0, k)
  <2> DEFINE open == GetCreateOraclePoolInstructionAsync(proposed)
             s == When(~HasOracle(c0, k.mint), <<open>>)
             ix == GetApproveOraclePoolInstructionAsync(named)
  <2>1. Opens(open, k.wallet, watched)
    BY <1>7, OracleNeeds DEF Opens
  <2>2. Openings(s, k.wallet, watched)
    BY <2>1, OpeningsOne, OpeningsWhen
  <2>3. Needs(ix, k.wallet, watched, {"admin"}) /\ ix.name # "swap"
    BY <1>7, OracleNeeds
  <2>4. tx = s \o <<ix>>
    BY <1>8, <1>12
  <2> HIDE DEF s, ix
  <2> QED
    BY <1>1, <1>5, <1>6, <1>12, <2>2, <2>3, <2>4, ManyStill
<1> QED
  BY <1>9, <1>10, <1>11, <1>12

\* A new vault, and its manager's pool if there is none yet.
LEMMA CreateStill ==
  ASSUME NEW c0, NEW c, NEW d, NEW k \in Clicks, Meanwhile(c0, c, d, k),
         k.page = "create", "mint" \in DOMAIN k, k.page \notin AnyonesPages,
         NEW tx, tx = CreateVaultTx(c0, k), tx # NoTx, TxOK(tx), Landed(c, tx, k.wallet) # {}
  PROVE  Landed(d, tx, k.wallet) # {}
<1> DEFINE pool == FindMoneyManagerPoolPda(AdminPool, k.wallet)
           watched == {Oracle(k.mint), pool}
           other == [moneyManager |-> k.wallet]
           input == [ admin |-> Admin(c0), moneyManager |-> k.wallet,
                      vaultPool |-> NewVaultAddress(c0, k.wallet),
                      assetRegistry |-> FindAssetRegistryPda(NewVaultAddress(c0, k.wallet)),
                      oraclePool |-> Oracle(k.mint), priceUpdate |-> PriceAccount(c0, k.mint),
                      tokenMint |-> k.mint ]
           open == GetCreateMoneyManagerPoolInstructionAsync(other)
           s == When(~HasManagerPool(c0, k.wallet), <<open>>)
           ix == GetCreateVaultInstructionAsync(input)
<1>1. k.wallet \in Keys
  BY ClicksAssumption
<1>2. /\ At(c, Oracle(k.mint)) = At(d, Oracle(k.mint))
      /\ At(c, pool) = At(d, pool)
      /\ Admin(c) = Admin(d)
  BY Dependence DEF AgreeFor
<1>3. Alike(c, d, watched, {"admin"})
  <2>1. \A x \in watched : At(c, x) = At(d, x)
    BY <1>2
  <2> HIDE DEF watched
  <2> QED
    BY <1>2, <2>1, AlikeWhen
<1>4. NoTokenAccounts(watched)
  BY Watched
<1>5. /\ "tokenMint" \in DOMAIN input /\ Oracle(input["tokenMint"]) \in watched
      /\ pool \in watched
  OBVIOUS
<1>6. tx = s \o <<ix>>
  BY WhenSent DEF CreateVaultTx
<1> HIDE DEF input, other, watched
<1>7. /\ Needs(ix, k.wallet, watched, {"admin"}) /\ ix.name # "swap"
      /\ Opens(open, k.wallet, watched)
  BY <1>5, VaultNeeds
<1> HIDE DEF open, ix
<1>8. Openings(s, k.wallet, watched)
  BY <1>7, OpeningsOne, OpeningsWhen
<1> HIDE DEF s
<1> QED
  BY <1>1, <1>3, <1>4, <1>6, <1>7, <1>8, ManyStill

\* A deposit, and the position if there is none yet.
LEMMA DepositStill ==
  ASSUME NEW c0, NEW c, NEW d, NEW k \in Clicks, Meanwhile(c0, c, d, k),
         k.page = "deposit", "vault" \in DOMAIN k, k.page \in PricedPages,
         NEW tx, tx = DepositTx(c0, k), tx # NoTx, TxOK(tx), Landed(c, tx, k.wallet) # {}
  PROVE  Landed(d, tx, k.wallet) # {}
<1> DEFINE mint == c0[k.vault].token_mint
           watched == {Oracle(mint), Position(k.wallet, k.vault, mint)}
           position == [investor |-> k.wallet, vaultPool |-> k.vault, tokenMint |-> mint]
           input == [ investor |-> k.wallet, vaultPool |-> k.vault, oraclePool |-> Oracle(mint),
                      fromAccount |-> Ata(k.wallet, mint), tokenMint |-> mint,
                      priceUpdate |-> PriceAccount(c0, mint), tokenProgram |-> TokenProgram ]
           wrap == When(mint = WsolMint, WrapSol(k.wallet))
           account == CreateAta(k.wallet, k.vault, mint, TokenProgram)
           open == GetCreateInvestorPoolInstructionAsync(position)
           opening == When(OpensPosition(c0, k, mint), <<open>>)
           ix == GetDepositTokenFundInstructionAsync(input)
<1>1. k.wallet \in Keys
  BY ClicksAssumption
<1>2. \A x \in watched : At(c, x) = At(d, x)
  BY Dependence
<1>3. NoTokenAccounts(watched)
  BY Watched
<1>4. /\ "tokenMint" \in DOMAIN input /\ Oracle(input["tokenMint"]) \in watched
      /\ "tokenMint" \in DOMAIN position /\ "vaultPool" \in DOMAIN position
      /\ Position(k.wallet, position["vaultPool"], position["tokenMint"]) \in watched
  OBVIOUS
<1>5. tx = wrap \o <<account>> \o opening \o <<ix>>
  <2>1. DepositTx(c0, k) = When(HasOracle(c0, mint), wrap \o <<account>> \o opening \o <<ix>>)
    BY DEF DepositTx
  <2> HIDE DEF wrap, account, opening, ix
  <2> QED
    BY <2>1, WhenSent
<1> HIDE DEF input, position, watched
<1>6. Alike(c, d, watched, {})
  BY <1>2, AlikeWhen
<1>7. /\ Needs(ix, k.wallet, watched, {}) /\ ix.name # "swap"
      /\ Opens(open, k.wallet, watched)
  BY <1>4, DepositNeeds
<1>8. Opens(account, k.wallet, watched) /\ Openings(WrapSol(k.wallet), k.wallet, watched)
  BY ForeignOpens
<1> HIDE DEF open, ix, account, mint
<1>9. /\ Openings(wrap, k.wallet, watched) /\ Openings(opening, k.wallet, watched)
      /\ Openings(<<account>>, k.wallet, watched)
  BY <1>7, <1>8, OpeningsOne, OpeningsWhen
<1> HIDE DEF wrap, opening
<1>10. Openings(wrap \o <<account>> \o opening, k.wallet, watched)
  BY <1>9, OpeningsConcat
<1> DEFINE s == wrap \o <<account>> \o opening
<1>11. tx = s \o <<ix>> /\ Openings(s, k.wallet, watched)
  BY <1>5, <1>10
<1> HIDE DEF s
<1> QED
  BY <1>1, <1>3, <1>6, <1>7, <1>11, ManyStill

\* Three instructions, the first two before the last.
LEMMA LastOfThree ==
  ASSUME NEW x, NEW y, NEW z, NEW wallet, NEW watched,
         Opens(x, wallet, watched), Opens(y, wallet, watched)
  PROVE  /\ <<x, y, z>> = <<x, y>> \o <<z>>
         /\ Openings(<<x, y>>, wallet, watched)
<1>1. <<x, y>> \in Seq({x, y})
  OBVIOUS
<1>2. IsList(<<x, y>>) /\ Range(<<x, y>>) \subseteq {x, y}
  BY <1>1, ListOf
<1> QED
  BY <1>2 DEF Openings

\* A redemption, and the token accounts it pays the fees to.
LEMMA RedeemStill ==
  ASSUME NEW c0, NEW c, NEW d, NEW k \in Clicks, Meanwhile(c0, c, d, k),
         "vault" \in DOMAIN k, k.page \in PricedPages \ AnyonesPages,
         NEW tx, tx = RedeemTx(c0, k), tx # NoTx, TxOK(tx), Landed(c, tx, k.wallet) # {}
  PROVE  Landed(d, tx, k.wallet) # {}
<1> DEFINE mint == c0[k.vault].token_mint
           manager == c0[k.vault].money_manager
           watched == {Oracle(mint)}
           input == [ investor |-> k.wallet, moneyManager |-> manager, vaultPool |-> k.vault,
                      investorPool |-> Position(k.wallet, k.vault, mint),
                      tokenProgram |-> TokenProgram, tokenProgram2022 |-> Token2022Program ]
           ix == WithRemaining(GetWithdrawTokenFundInstructionAsync(input),
                   << R(Oracle(mint)), R(PriceAccount(c0, mint)), R(mint), W(Ata(k.vault, mint)),
                      W(Ata(k.wallet, mint)), W(Ata(manager, mint)), W(Ata(Admin(c0), mint)) >>)
           x == CreateAta(k.wallet, manager, mint, TokenProgram)
           y == CreateAta(k.wallet, Admin(c0), mint, TokenProgram)
<1>1. k.wallet \in Keys
  BY ClicksAssumption
<1>2. At(c, Oracle(mint)) = At(d, Oracle(mint)) /\ Admin(c) = Admin(d)
  BY Dependence DEF AgreeFor
<1>3. Alike(c, d, watched, {"admin"})
  BY <1>2, AlikeWhen
<1>4. NoTokenAccounts(watched)
  BY Watched
<1>5. tx = <<x, y, ix>>
  BY WhenSent DEF RedeemTx
<1> HIDE DEF input
<1>6. Needs(ix, k.wallet, watched, {"admin"}) /\ ix.name # "swap"
  BY RedeemNeeds
<1>7. Opens(x, k.wallet, watched) /\ Opens(y, k.wallet, watched)
  BY ForeignOpens
<1> HIDE DEF watched, ix, x, y
<1>8. tx = <<x, y>> \o <<ix>> /\ Openings(<<x, y>>, k.wallet, watched)
  BY <1>5, <1>7, LastOfThree
<1> QED
  BY <1>1, <1>3, <1>4, <1>6, <1>8, ManyStill

\* The trades: of the manager on a local network and through Jupiter, of the keeper.
LEMMA TradesStill ==
  ASSUME NEW c0, NEW c, NEW d, NEW k \in Clicks, Meanwhile(c0, c, d, k),
         "vault" \in DOMAIN k, k.page \in PricedPages \ AnyonesPages,
         NEW tx, tx # NoTx, TxOK(tx), Landed(c, tx, k.wallet) # {},
         \/ IsDemo(k) /\ tx = DemoTradeTx(c0, k)
         \/ "mint" \in DOMAIN k /\ tx = JupiterTradeTx(c0, k)
         \/ k.page = "keeper" /\ "mint" \in DOMAIN k /\ tx = KeeperTradeTx(c0, k)
  PROVE  Landed(d, tx, k.wallet) # {}
<1> DEFINE mint == c0[k.vault].token_mint
           out == IF IsDemo(k) /\ tx = DemoTradeTx(c0, k) THEN DemoOutMint ELSE k.mint
           watched == {Oracle(mint), Oracle(out)}
           swap(program, price) == SwapOf(c0, k, out, program, price)
<1>1. k.wallet \in Keys
  BY ClicksAssumption
<1>2. /\ At(c, Oracle(mint)) = At(d, Oracle(mint)) /\ At(c, Oracle(out)) = At(d, Oracle(out))
      /\ Admin(c) = Admin(d)
      /\ k.page = "keeper" => c[k.vault].trading_delegate = d[k.vault].trading_delegate
  BY Dependence DEF AgreeFor
<1>3. Alike(c, d, watched, {"admin"})
  BY <1>2, AlikeWhen
<1>4. NoTokenAccounts(watched)
  BY Watched
<1>5. /\ Holds(c, k.vault, "VaultPool")
      /\ c[k.vault].money_manager = c0[k.vault].money_manager
  BY VaultKept
<1>6. \A program, price :
        /\ swap(program, price).name = "swap"
        /\ Needs(swap(program, price), k.wallet, watched, {"admin"})
        /\ Accounts(swap(program, price), Structs[swap(program, price).name]).vault_pool = k.vault
  BY SwapNeeds
<1>7. CASE IsDemo(k) /\ tx = DemoTradeTx(c0, k)
  <2> DEFINE ix == swap(TokenProgram, CanonicalPriceAccount(k.feed))
  <2>1. tx = <<ix>> /\ k.wallet = c0[k.vault].money_manager
    BY <1>7, WhenSent DEF DemoTradeTx, IsManager
  <2>2. /\ Needs(ix, k.wallet, watched, {"admin"})
        /\ Accounts(ix, Structs[ix.name]).vault_pool = k.vault
    BY <1>6
  <2> HIDE DEF ix, swap, watched
  <2> QED
    BY <1>3, <1>5, <2>1, <2>2, OneStill
<1>8. CASE ~(IsDemo(k) /\ tx = DemoTradeTx(c0, k)) /\ tx = JupiterTradeTx(c0, k)
  <2> DEFINE ix == swap(MintProgram[k.mint], PriceAccount(c0, k.mint))
             x == CreateAta(k.wallet, k.vault, k.mint, MintProgram[k.mint])
  <2>1. tx = <<x, ix>> /\ k.wallet = c0[k.vault].money_manager
    BY <1>8, WhenSent DEF JupiterTradeTx, IsManager
  <2>2. /\ Needs(ix, k.wallet, watched, {"admin"})
        /\ Accounts(ix, Structs[ix.name]).vault_pool = k.vault
    BY <1>6
  <2>3. Opens(x, k.wallet, watched)
    BY ForeignOpens
  <2> HIDE DEF ix, swap, watched, x
  <2>4. tx = <<x>> \o <<ix>> /\ Openings(<<x>>, k.wallet, watched)
    BY <2>1, <2>3, OpeningsOne
  <2>5. LET vault == Accounts(ix, Structs[ix.name]).vault_pool
        IN Holds(c, vault, "VaultPool") /\ k.wallet = c[vault].money_manager
    BY <1>5, <2>1, <2>2
  <2> QED
    BY <1>1, <1>3, <1>4, <2>2, <2>4, <2>5, ManyStill
<1>9. CASE /\ ~(IsDemo(k) /\ tx = DemoTradeTx(c0, k)) /\ tx # JupiterTradeTx(c0, k)
           /\ k.page = "keeper" /\ tx = KeeperTradeTx(c0, k)
  <2> DEFINE ix == swap(TokenProgram, PriceAccount(c0, k.mint))
  <2>1. tx = <<ix>>
    BY <1>9, WhenSent DEF KeeperTradeTx
  <2>2. /\ Needs(ix, k.wallet, watched, {"admin"})
        /\ Accounts(ix, Structs[ix.name]).vault_pool = k.vault
    BY <1>6
  <2> HIDE DEF ix, swap, watched
  <2> QED
    BY <1>2, <1>3, <1>9, <2>1, <2>2, OneStill
<1> QED
  BY <1>7, <1>8, <1>9

\* The management fee, and the token accounts it is paid to.
LEMMA FeeStill ==
  ASSUME NEW c0, NEW c, NEW d, NEW k \in Clicks, Meanwhile(c0, c, d, k),
         k.page = "fee", "vault" \in DOMAIN k, k.page \notin AnyonesPages,
         NEW tx, tx = FeeTx(c0, k), tx # NoTx, TxOK(tx), Landed(c, tx, k.wallet) # {}
  PROVE  Landed(d, tx, k.wallet) # {}
<1> DEFINE mints == FeeMints(c0, k.vault)
           n == Len(mints)
           manager == c0[k.vault].money_manager
           ata(owner, m) == CreateAta(k.wallet, owner, m, TokenProgram)
           leg(m) == << R(m), W(Ata(k.vault, m)), W(Ata(manager, m)), W(Ata(Admin(c0), m)) >>
           atas == [i \in DOMAIN mints |-> << ata(manager, mints[i]), ata(Admin(c0), mints[i]) >>]
           legs == [i \in DOMAIN mints |-> leg(mints[i])]
           input == [ operator |-> k.wallet, vaultPool |-> k.vault,
                      tokenProgram |-> TokenProgram, tokenProgram2022 |-> Token2022Program ]
           s == Flat(atas, 2)
           ix == WithRemaining(GetWithdrawMoneyManagementFeeInstructionAsync(input),
                               Flat(legs, 4))
           fields == {"admin", "operator"}
<1>1. tx = s \o <<ix>>
  <2>1. FeeTx(c0, k) = When(HasAdminPool(c0) /\ c0[AdminPool].operator = k.wallet, s \o <<ix>>)
    BY DEF FeeTx
  <2> HIDE DEF s, ix
  <2> QED
    BY <2>1, WhenSent
<1>2. mints \in Seq(Mints) /\ n \in Nat /\ DOMAIN mints = 1..n
  <2>1. k.vault \in Vaults(c0) /\ ChainInv(c0)
    BY DEF Meanwhile
  <2> QED
    BY <2>1, FeeMintsAreMints
<1>3. ASSUME NEW i \in 1..n
      PROVE  \A owner : Opens(ata(owner, mints[i]), k.wallet, {})
  BY ForeignOpens
<1> HIDE DEF legs, input
<1>4. Needs(ix, k.wallet, {}, fields) /\ ix.name # "swap"
  <2>1. ix.name = "withdraw_money_management_fee"
    BY BuilderNames
  <2> HIDE DEF ix
  <2>2. "admin" \in fields /\ "operator" \in fields
    OBVIOUS
  <2> HIDE DEF fields
  <2> QED
    BY <2>1, <2>2, PlainNeeds
<1> HIDE DEF mints, n, ata, leg, ix
<1>5. Len(atas) = n
  BY <1>2
<1>6. ASSUME NEW i \in 1..n, NEW j \in 1..2 PROVE Opens(atas[i][j], k.wallet, {})
  <2>1. atas[i][1] = ata(manager, mints[i]) /\ atas[i][2] = ata(Admin(c0), mints[i])
    BY <1>2
  <2> HIDE DEF atas
  <2>2. j = 1 \/ j = 2
    OBVIOUS
  <2> QED
    BY <1>3, <2>1, <2>2
<1> HIDE DEF atas
<1>7. Openings(s, k.wallet, {})
  <2>1. /\ IsList(Flat(atas, 2))
        /\ \A x \in Range(Flat(atas, 2)) : \E i \in 1..n, j \in 1..2 : x = atas[i][j]
    BY <1>2, <1>5, FlatList
  <2> QED
    BY <1>6, <2>1 DEF Openings
<1> HIDE DEF s
<1>8. Admin(c) = Admin(d) /\ c[AdminPool].operator = d[AdminPool].operator
  BY Dependence DEF AgreeFor
<1>9. Alike(c, d, {}, fields)
  BY <1>8, AlikeWhen
<1>10. k.wallet \in Keys
  BY ClicksAssumption
<1> HIDE DEF fields
<1> QED
  BY <1>1, <1>4, <1>7, <1>9, <1>10, NothingWatched, ManyStill

\* What a page sent and the chain it meets would have taken, it takes later as well.
LEMMA PageStill ==
  ASSUME NEW c0, NEW c, NEW d, NEW k \in Clicks, Meanwhile(c0, c, d, k),
         NEW tx \in Txs(c0, k), Landed(c, tx, k.wallet) # {}
  PROVE  Landed(d, tx, k.wallet) # {}
<1>1. ~("vault" \in DOMAIN k /\ k.vault \notin Vaults(c0))
  BY DEF Txs
<1>2. \A t : tx \in Single(t) => tx = t /\ tx # NoTx
  BY DEF Single
<1>3. TxOK(tx)
  BY PagesBuild DEF Meanwhile
<1>4. CASE k.page = "bootstrap"
  <2>1. tx = BootstrapTx(c0, k) /\ tx # NoTx
    BY <1>1, <1>2, <1>4 DEF Txs
  <2> QED
    BY <1>4, <2>1, BootstrapStill
<1>5. CASE k.page = "fund"
  <2>1. tx = FundTx(c0, k)
    BY <1>1, <1>2, <1>5 DEF Txs
  <2> QED
    BY <2>1, FundStill DEF FundTx
<1>6. CASE k.page = "create"
  <2>1. tx = CreateVaultTx(c0, k) /\ tx # NoTx
    BY <1>1, <1>2, <1>6 DEF Txs
  <2>2. "mint" \in DOMAIN k /\ k.page \notin AnyonesPages
    BY <1>6, ClicksAssumption DEF AnyonesPages
  <2> QED
    BY <1>3, <1>6, <2>1, <2>2, CreateStill
<1>7. CASE k.page \in {"propose", "onboard", "update", "close oracle"}
  <2>1. /\ tx \in {ProposeTx(c0, k), OnboardTx(c0, k), UpdateOracleTx(c0, k), CloseOracleTx(c0, k)}
        /\ tx # NoTx
        /\ k.page = "propose" => tx = ProposeTx(c0, k)
    BY <1>1, <1>2, <1>7 DEF Txs
  <2>2. "mint" \in DOMAIN k /\ (k.page # "propose" => k.page \notin AnyonesPages)
    BY <1>7, ClicksAssumption DEF AnyonesPages
  <2> HIDE <1>7
  <2> QED
    BY <1>3, <2>1, <2>2, OraclePagesStill
<1>8. CASE k.page \in {"limits", "operator", "transfer", "accept"}
  <2>1. tx \in (CASE k.page = "limits" -> LimitTxs(c0, k)
                  [] k.page = "operator" -> {SetOperatorTx(c0, k)}
                  [] k.page = "transfer" -> {TransferTx(c0, k)}
                  [] k.page = "accept" -> {AcceptTx(c0, k)})
    BY <1>1, <1>2, <1>8 DEF Txs
  <2>2. tx # NoTx
    <3>1. k.page = "limits" => tx # NoTx
      BY <2>1, LimitNames DEF NoTx
    <3> QED
      BY <1>1, <1>2, <1>8, <3>1 DEF Txs
  <2> QED
    BY <1>8, <2>1, <2>2, LimitPagesStill
<1>9. CASE k.page \in {"delegate", "revoke", "close vault", "check price"}
  <2>1. /\ tx \in {SetDelegateTx(c0, k), RevokeDelegateTx(c0, k), CloseVaultTx(c0, k),
                   CheckPriceTx(c0, k)}
        /\ tx # NoTx
    BY <1>1, <1>2, <1>9 DEF Txs
  <2> QED
    BY <2>1, ManagerPagesStill
<1>10. CASE k.page = "deposit"
  <2>1. tx = DepositTx(c0, k) /\ tx # NoTx
    BY <1>1, <1>2, <1>10 DEF Txs
  <2>2. "vault" \in DOMAIN k /\ k.page \in PricedPages
    BY <1>10, ClicksAssumption DEF PricedPages
  <2> QED
    BY <1>3, <1>10, <2>1, <2>2, DepositStill
<1>11. CASE k.page = "redeem"
  <2>1. tx = RedeemTx(c0, k) /\ tx # NoTx
    BY <1>1, <1>2, <1>11 DEF Txs
  <2>2. "vault" \in DOMAIN k /\ k.page \in PricedPages \ AnyonesPages
    BY <1>11, ClicksAssumption DEF PricedPages, AnyonesPages
  <2> QED
    BY <1>3, <2>1, <2>2, RedeemStill
<1>12. CASE k.page \in {"demo trade", "jupiter", "keeper"}
  <2>1. /\ tx # NoTx
        /\ \/ IsDemo(k) /\ tx = DemoTradeTx(c0, k)
           \/ "mint" \in DOMAIN k /\ tx = JupiterTradeTx(c0, k)
           \/ k.page = "keeper" /\ "mint" \in DOMAIN k /\ tx = KeeperTradeTx(c0, k)
    <3>1. CASE k.page = "demo trade"
      BY <1>1, <1>2, <3>1 DEF Txs, IsDemo
    <3>2. CASE k.page = "jupiter"
      BY <1>1, <1>2, <3>2, ClicksAssumption DEF Txs
    <3>3. CASE k.page = "keeper"
      BY <1>1, <1>2, <3>3, ClicksAssumption DEF Txs
    <3> QED
      BY <1>12, <3>1, <3>2, <3>3
  <2>2. "vault" \in DOMAIN k /\ k.page \in PricedPages \ AnyonesPages
    BY <1>12, ClicksAssumption DEF PricedPages, AnyonesPages
  <2> QED
    BY <1>3, <2>1, <2>2, TradesStill
<1>13. CASE k.page = "fee"
  <2>1. tx = FeeTx(c0, k) /\ tx # NoTx
    BY <1>1, <1>2, <1>13 DEF Txs
  <2>2. "vault" \in DOMAIN k /\ k.page \notin AnyonesPages
    BY <1>13, ClicksAssumption DEF AnyonesPages
  <2> QED
    BY <1>3, <1>13, <2>1, <2>2, FeeStill
<1> QED
  BY <1>4, <1>5, <1>6, <1>7, <1>8, <1>9, <1>10, <1>11, <1>12, <1>13, ClicksAssumption

-----------------------------------------------------------------------------
(* The chain since the click.                                               *)

\* What is under way was built by a page from a chain of which all but the oracles is left.
SentFrom(c0, c, r) ==
  ChainInv(c0) /\ Lasts(c0, c) /\ r.click \in Clicks /\ r.tx \in Txs(c0, r.click)
LandingInv == PagesInv /\ (Pending => \E c0 : SentFrom(c0, chain, request))

\* A click builds from the chain it sees; whatever lands afterwards lasts.
LEMMA LandingStep == LandingInv /\ [Next]_vars => LandingInv'
<1> SUFFICES ASSUME LandingInv, [Next]_vars PROVE LandingInv'
  OBVIOUS
<1>1. PagesInv /\ PagesInv'
  BY PagesStep DEF LandingInv
<1>2. ChainInv(chain) /\ ChainInv(chain')
  BY <1>1 DEF PagesInv
<1>3. ASSUME NEW k \in Clicks, Click(k) PROVE \E c0 : SentFrom(c0, chain', request')
  <2>1. PICK tx \in Txs(chain, k) : request' = [click |-> k, tx |-> tx]
    BY <1>3 DEF Click
  <2>2. chain' = chain /\ Lasts(chain, chain)
    BY <1>2, <1>3, LastsItself DEF Click
  <2>3. request'.click = k /\ request'.tx = tx
    BY <2>1
  <2>4. SentFrom(chain, chain', request')
    BY <1>2, <2>2, <2>3 DEF SentFrom
  <2> QED
    BY <2>4
<1>4. ASSUME NEW k \in Clicks, Other(k) PROVE \E c0 : SentFrom(c0, chain', request')
  <2>1. PICK c0 : SentFrom(c0, chain, request)
    BY <1>4 DEF Other, LandingInv
  <2>2. PICK tx \in Txs(chain, k) : chain' \in Landed(chain, tx, k.wallet)
    BY <1>4 DEF Other
  <2>3. TxOK(tx) /\ k.wallet \in Keys
    BY <1>2, PagesBuild, ClicksAssumption
  <2>4. Lasts(chain, chain')
    BY <1>2, <2>2, <2>3, LandedKeeps
  <2>5. Lasts(c0, chain')
    BY <1>2, <2>1, <2>4, LastsOn DEF SentFrom
  <2>6. request' = request
    BY <1>4 DEF Other
  <2>7. SentFrom(c0, chain', request')
    BY <2>1, <2>5, <2>6 DEF SentFrom
  <2> QED
    BY <2>7
<1>5. ASSUME Land \/ Drop PROVE ~Pending'
  BY <1>5 DEF Land, Drop, Pending, NoRequest, NoTx
<1>6. ASSUME UNCHANGED vars PROVE Pending' => \E c0 : SentFrom(c0, chain', request')
  BY <1>6 DEF vars, LandingInv, Pending
<1>7. Pending' => \E c0 : SentFrom(c0, chain', request')
  BY <1>3, <1>4, <1>5, <1>6 DEF Next
<1> QED
  BY <1>1, <1>7 DEF LandingInv

\* A transaction under way is refused only for what it depends on: with that as it was, no
\* deposit, trade, new vault or oracle of others has the program turn it down (the pages of
\* src/app/src and the account constraints of src/programs).
THEOREM SpoiltOnlyByItsOwnTheorem == PagesSpec => SpoiltOnlyByItsOwn
<1>1. PagesInit => LandingInv
  BY PagesInitOK DEF PagesInit, LandingInv, Pending
<1>2. LandingInv /\ LandingInv' /\ [Next]_vars =>
        [ /\ Pending /\ request' = request
          /\ LandedRequest(chain) # {}
          /\ DependsOn(chain, request.click) = DependsOn(chain', request.click)
          => LandedRequest(chain') # {} ]_vars
  <2> SUFFICES ASSUME LandingInv, LandingInv', [Next]_vars,
                      Pending, request' = request, LandedRequest(chain) # {},
                      DependsOn(chain, request.click) = DependsOn(chain', request.click)
               PROVE  LandedRequest(chain') # {} \/ UNCHANGED vars
    OBVIOUS
  <2> DEFINE k == request.click
             tx == request.tx
  <2>1. PICK c0 : SentFrom(c0, chain, request)
    BY DEF LandingInv
  <2>2. ChainInv(chain) /\ ChainInv(chain')
    BY DEF LandingInv, PagesInv
  <2>3. ASSUME NEW other \in Clicks, Other(other) PROVE Lasts(chain, chain')
    <3>1. PICK sent \in Txs(chain, other) : chain' \in Landed(chain, sent, other.wallet)
      BY <2>3 DEF Other
    <3>2. TxOK(sent) /\ other.wallet \in Keys
      BY <2>2, PagesBuild, ClicksAssumption
    <3> QED
      BY <2>2, <3>1, <3>2, LandedKeeps
  <2>4. Lasts(chain, chain') \/ UNCHANGED vars
    BY <2>3 DEF Next, Click, Land, Drop, Pending
  <2>5. ASSUME Lasts(chain, chain') PROVE LandedRequest(chain') # {}
    <3>1. Kept(c0, chain) /\ Kept(chain, chain')
      BY <2>1, <2>2, <2>5, LastingIsKept DEF SentFrom
    <3>2. k \in Clicks /\ tx \in Txs(c0, k) /\ ChainInv(c0)
      BY <2>1 DEF SentFrom
    <3>3. "vault" \in DOMAIN k => k.vault \in Vaults(c0)
      BY <3>2 DEF Txs
    <3>4. Meanwhile(c0, chain, chain', k)
      BY <2>2, <3>1, <3>2, <3>3 DEF Meanwhile
    <3>5. Landed(chain, tx, k.wallet) # {}
      BY DEF LandedRequest
    <3>6. Landed(chain', tx, k.wallet) # {}
      <4> HIDE DEF k, tx
      <4> QED
        BY <3>2, <3>4, <3>5, PageStill
    <3> QED
      BY <3>6 DEF LandedRequest
  <2> QED
    BY <2>4, <2>5
<1> QED
  BY <1>1, <1>2, LandingStep, PTL DEF PagesSpec, SpoiltOnlyByItsOwn

=============================================================================
