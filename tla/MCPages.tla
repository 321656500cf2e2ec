------------------------------ MODULE MCPages ------------------------------
(***************************************************************************)
(* Instances of Pages for TLC: a protocol set up from nothing, and the     *)
(* life of two vaults of one manager in three scenes, by the base token    *)
(* and the assets traded.                                                  *)
(***************************************************************************)
EXTENDS Pages, TLC

CONSTANTS boss, mm, ann, bot, usdc, demo, wsol, xstock, f1, f2

MCKeys == {boss, mm, ann, bot}
MCMints == {usdc, demo, wsol, xstock}
MCMintProgram ==
  [m \in MCMints |-> IF m = xstock THEN Token2022Program ELSE TokenProgram]

Page(p, wallet) == [page |-> p, wallet |-> wallet]
On(p, wallet, vault) == Page(p, wallet) @@ [vault |-> vault]
Feed(p, wallet, mint, feed) == Page(p, wallet) @@ [mint |-> mint, feed |-> feed]
To(p, wallet, to) == Page(p, wallet) @@ [to |-> to]
Asset(p, wallet, vault, mint) == On(p, wallet, vault) @@ [mint |-> mint]

V(i) == VaultPoolAddress(AdminPool, mm, i)

SetupClicks ==
  {Page(p, k) : p \in {"bootstrap", "accept"}, k \in {boss, mm}}
  \cup {Page("create", k) @@ [mint |-> usdc] : k \in {boss, mm}}
  \cup {Feed("onboard", k, usdc, f1) : k \in {boss, mm}}
  \cup {Feed("update", boss, usdc, f2), Feed("propose", mm, usdc, f2),
        Page("close oracle", boss) @@ [mint |-> usdc],
        Page("check price", boss) @@ [feed |-> f2],
        Page("limits", boss), Page("limits", mm), To("operator", boss, mm)}
  \cup {To("transfer", boss, mm), To("transfer", mm, boss), To("transfer", boss, Default)}

OwnerClicks == {To("transfer", boss, mm), Page("accept", mm), To("operator", boss, mm)}
OracleClicks(m) ==
  { Page("close oracle", boss) @@ [mint |-> m], Feed("onboard", boss, m, f2) }
InvestorClicks == {On(p, ann, V(i)) : p \in {"deposit", "redeem"}, i \in 0..1}

\* A classic base token and the demo asset: trades by hand and by the keeper.
ClassicClicks ==
  OwnerClicks \cup OracleClicks(demo)
  \cup {On("deposit", ann, V(0)), On("redeem", ann, V(0))}
  \cup {Page("close oracle", boss) @@ [mint |-> usdc], Feed("onboard", boss, usdc, f1)}
  \cup {To("delegate", mm, bot) @@ [vault |-> V(0)], On("revoke", mm, V(0)),
        On("close vault", mm, V(0)), Feed("update", boss, demo, f1),
        On("demo trade", mm, V(0)) @@ [feed |-> f2], Asset("keeper", bot, V(0), demo),
        Asset("jupiter", mm, V(0), demo),
        On("fee", boss, V(0)), On("fee", mm, V(0)), To("fund", ann, V(0)) @@ [mint |-> demo]}

\* Wrapped SOL as base token and an asset of the newer token program; two vaults.
WrappedClicks ==
  InvestorClicks \cup OracleClicks(wsol)
  \cup {On("deposit", mm, V(0)), Asset("jupiter", mm, V(0), xstock), On("fee", boss, V(0))}

\* A base token of the newer token program.
NewerClicks ==
  OracleClicks(xstock)
  \cup {On("deposit", ann, V(0)), On("redeem", ann, V(0)), Asset("jupiter", mm, V(0), usdc),
        On("fee", boss, V(0)), To("fund", ann, V(0)) @@ [mint |-> xstock]}

VARIABLE scene

SceneClicks ==
  CASE scene = "setup" -> SetupClicks
    [] scene = "classic" -> ClassicClicks
    [] scene = "wrapped" -> WrappedClicks
    [] scene = "newer" -> NewerClicks
MCClicks == SetupClicks \cup ClassicClicks \cup WrappedClicks \cup NewerClicks

Account(owner, mint) ==
  FindAssociatedTokenPda(owner, MintProgram[mint], mint) :>
    [type |-> "TokenAccount", owner |-> owner, mint |-> mint]
ApprovedOracle(mint, feed) ==
  Oracle(mint) :> [ type |-> "OraclePool", token_mint |-> mint, feed_id |-> feed,
                    is_approved |-> TRUE ]

\* Two vaults of one manager on one base token, an approved asset to trade.
Vaulted(base, out) ==
  (AdminPool :> [ type |-> "AdminPool", admin |-> boss, pending_admin |-> Default,
                  operator |-> boss, vault_pool_count |-> 2 ])
  @@ ApprovedOracle(base, f1) @@ ApprovedOracle(out, f2)
  @@ (FindMoneyManagerPoolPda(AdminPool, mm) :> [type |-> "MoneyManagerPool", vaults_amount |-> 2])
  @@ [a \in {V(0), V(1)} |->
        [ type |-> "VaultPool", money_manager |-> mm, token_mint |-> base,
          index |-> a[4], trading_delegate |-> Default ]]
  @@ [a \in {FindAssetRegistryPda(V(0)), FindAssetRegistryPda(V(1))} |->
        [type |-> "AssetRegistry", asset_mints |-> << >>]]

\* Ann has accounts for what she was paid in; wrapped SOL she has yet to wrap.
SceneInit ==
  /\ \/ scene = "setup" /\ chain = << >>
     \/ scene = "classic" /\ chain = Vaulted(usdc, demo) @@ Account(ann, usdc)
     \/ scene = "wrapped" /\ chain = Vaulted(wsol, xstock) @@ Account(ann, xstock)
     \/ scene = "newer" /\ chain = Vaulted(xstock, usdc) @@ Account(ann, xstock)
  /\ request = NoRequest

SceneNext ==
  /\ \/ \E k \in SceneClicks : Click(k)
     \/ \E k \in SceneClicks : Other(k)
     \/ Land
     \/ Drop
  /\ UNCHANGED scene

SceneSpec == SceneInit /\ [][SceneNext]_<<vars, scene>>

=============================================================================
