------------------------------ MODULE AdminPool ------------------------------
(***************************************************************************)
(* The protocol side of the fbyt_vault program: the one AdminPool account  *)
(* with its admin, its operator, its fees and limits, the hand-over of     *)
(* ownership in two steps, the pools of the money managers, the creation   *)
(* of vaults under the limits of the moment, and the oracle registry as    *)
(* the admin keeps it.  A vault once created is module Vault.              *)
(*                                                                         *)
(* An instruction is signed by one key and runs to its end or reverts.     *)
(* SOL fees, rent and events are left out, and so are prices: quote stays  *)
(* as it is.                                                               *)
(***************************************************************************)
EXTENDS OraclePool, FiniteSets

CONSTANTS
  Keys,               \* the keys that sign
  Default,            \* Pubkey::default(), which nobody can sign for
  UpgradeAuthority,   \* the key that may create the AdminPool
  Managers,           \* the keys that act as money managers
  OfferedLimits,      \* the fees and limits considered
  OfferedTerms,       \* the create_vault arguments considered
  MinMMWithdrawPeriod,\* constants.rs MIN_MM_WITHDRAW_PERIOD, scaled down
  MaxVaults           \* bound on the vaults of one money manager

\* The AdminPool fields that admin_modify_fee sets together, and those that have a
\* handler each.
FeeFields == {"protocol_performance_fee", "protocol_money_management_fee",
              "money_management_yearly_fee_max", "performance_fee_max"}
LimitFields == {"withdraw_cooldown_max", "fundrising_period_max", "raise_amount_min_usd",
                "contribution_amount_min_usd", "oracle_max_age", "idle_period",
                "dust_threshold_usd", "max_asset_count", "max_slippage_bps"}
Fields == FeeFields \cup LimitFields
BpsFields == FeeFields \cup {"max_slippage_bps"}
WholeBps == 10000

VaultTerms == [money_management_fee : Nat, performance_fee : Nat, withdraw_cooldown : Nat,
               mm_withdraw_period : Nat, raise_period : Nat, min_raise_amount : Nat,
               min_contribute_amount : Nat]

ASSUME AdminPoolAssumption ==
  /\ Default \notin Keys
  /\ UpgradeAuthority \in Keys
  /\ Managers \subseteq Keys
  /\ OfferedLimits \subseteq [Fields -> Nat]
  /\ MinMMWithdrawPeriod \in Nat
  /\ OfferedTerms \subseteq VaultTerms
  /\ MaxVaults \in Nat

VARIABLES
  created,           \* the AdminPool account exists
  admin,
  pending_admin,
  operator,
  limits,            \* its fees and limits
  vault_pool_count,
  manager_pools,     \* the money managers that have a MoneyManagerPool
  vaults_amount,     \* MoneyManagerPool.vaults_amount
  vaults,            \* the VaultPool accounts: manager, index and terms
  nominator          \* history: the admin that made the pending nomination

ownerVars == <<admin, pending_admin, nominator>>
poolVars == <<created, operator, limits>>
vaultVars == <<vault_pool_count, manager_pools, vaults_amount, vaults>>
adminVars == <<ownerVars, poolVars, vaultVars, oracleVars>>

Base == 1
VaultPoolType == [manager : Managers, index : Nat, terms : OfferedTerms]

AdminTypeOK ==
  /\ OracleTypeOK
  /\ created \in BOOLEAN
  /\ admin \in Keys \cup {Default}
  /\ pending_admin \in Keys \cup {Default}
  /\ nominator \in Keys \cup {Default}
  /\ operator \in Keys \cup {Default}
  /\ limits \in [Fields -> Nat]
  /\ vault_pool_count \in Nat
  /\ manager_pools \subseteq Managers
  /\ vaults_amount \in [Managers -> Nat]
  /\ vaults \subseteq VaultPoolType

AdminInit ==
  /\ created = FALSE
  /\ admin = Default /\ pending_admin = Default /\ operator = Default
  /\ nominator = Default
  /\ limits = [f \in Fields |-> 0]
  /\ vault_pool_count = 0
  /\ manager_pools = {}
  /\ vaults_amount = [k \in Managers |-> 0]
  /\ vaults = {}
  /\ oracle_pool = [m \in Mints |-> NoOracle]
  /\ quote \in [Feeds -> Prices \cup {Unusable}]

-----------------------------------------------------------------------------
(* The account, its owner and its limits.                                   *)

\* Mutant: the performance fee is forgotten.
FeesInRange_Unchecked(l) == \A f \in FeeFields \ {"performance_fee_max"} : l[f] <= WholeBps
FeesInRange(l) == \A f \in FeeFields : l[f] <= WholeBps

CreateAdminPool(signer, op, l) ==
  /\ ~created
  /\ signer = UpgradeAuthority
  /\ FeesInRange(l) /\ l["max_slippage_bps"] <= WholeBps
  /\ created' = TRUE
  /\ admin' = signer
  /\ operator' = op
  /\ limits' = l
  /\ UNCHANGED <<pending_admin, nominator, vaultVars, oracleVars>>

IsAdmin(signer) == created /\ signer = admin

\* Mutant: ownership moves in one step.
AdminTransferOwnership_OneStep(signer, nominee) ==
  /\ IsAdmin(signer)
  /\ admin' = nominee
  /\ UNCHANGED <<pending_admin, nominator, poolVars, vaultVars, oracleVars>>

\* Any address may be nominated, the default one included: that withdraws a nomination.
AdminTransferOwnership(signer, nominee) ==
  /\ IsAdmin(signer)
  /\ pending_admin' = nominee
  /\ nominator' = signer
  /\ UNCHANGED <<admin, poolVars, vaultVars, oracleVars>>

\* Mutant: the nomination is left standing.
AfterHandOver_Kept == pending_admin

\* What is pending after an acceptance.
AfterHandOver == Default

AdminAcceptOwnership(signer) ==
  /\ created
  /\ signer = pending_admin
  /\ admin' = signer
  /\ pending_admin' = AfterHandOver
  /\ UNCHANGED <<nominator, poolVars, vaultVars, oracleVars>>

\* Mutant: the other limits are not carried over.
FeesReplaced_Alone(l) == [f \in FeeFields |-> l[f]]
FeesReplaced(l) == [f \in Fields |-> IF f \in FeeFields THEN l[f] ELSE limits[f]]

AdminModifyFee(signer, l) ==
  /\ IsAdmin(signer)
  /\ FeesInRange(l)
  /\ limits' = FeesReplaced(l)
  /\ UNCHANGED <<created, operator, ownerVars, vaultVars, oracleVars>>

SetLimit(signer, f, v) ==
  /\ IsAdmin(signer)
  /\ limits' = [limits EXCEPT ![f] = v]
  /\ UNCHANGED <<created, operator, ownerVars, vaultVars, oracleVars>>

\* One handler per limit; only the slippage has a range.
AdminUpdateWithdrawCooldownMax(signer, v) == SetLimit(signer, "withdraw_cooldown_max", v)
AdminUpdateFundrisingPeriodMax(signer, v) == SetLimit(signer, "fundrising_period_max", v)
AdminUpdateRaiseAmountMinUsd(signer, v) == SetLimit(signer, "raise_amount_min_usd", v)
AdminUpdateContributionAmountMinUsd(signer, v) == SetLimit(signer, "contribution_amount_min_usd", v)
AdminUpdateOracleMaxAge(signer, v) == SetLimit(signer, "oracle_max_age", v)
AdminUpdateIdlePeriod(signer, v) == SetLimit(signer, "idle_period", v)
AdminUpdateDustThresholdUsd(signer, v) == SetLimit(signer, "dust_threshold_usd", v)
AdminUpdateMaxAssetCount(signer, v) == SetLimit(signer, "max_asset_count", v)
AdminUpdateMaxSlippageBps(signer, v) == v <= WholeBps /\ SetLimit(signer, "max_slippage_bps", v)

AdminUpdateOperator(signer, op) ==
  /\ IsAdmin(signer)
  /\ operator' = op
  /\ UNCHANGED <<created, limits, ownerVars, vaultVars, oracleVars>>

-----------------------------------------------------------------------------
(* The oracle registry: anyone proposes a feed, the admin does the rest.    *)

ProposeOracle(m, f) ==
  /\ created
  /\ CreateOraclePool(m, f)
  /\ UNCHANGED <<ownerVars, poolVars, vaultVars>>

KeepOracle(signer, m) ==
  /\ IsAdmin(signer)
  /\ \/ ApproveOraclePool(m)
     \/ CloseOraclePool(m)
     \/ \E f \in Feeds : UpdateOraclePool(m, f)
  /\ UNCHANGED <<ownerVars, poolVars, vaultVars>>

-----------------------------------------------------------------------------
(* Money managers and their vaults.                                         *)

CreateMoneyManagerPool(signer) ==
  /\ created
  /\ signer \notin manager_pools
  /\ manager_pools' = manager_pools \cup {signer}
  /\ UNCHANGED <<vault_pool_count, vaults_amount, vaults, ownerVars, poolVars, oracleVars>>

\* The checks of create_vault on its arguments, against the limits of the moment.
WithinLimits(t) ==
  /\ t.money_management_fee <= limits["money_management_yearly_fee_max"]
  /\ t.performance_fee <= limits["performance_fee_max"]
  /\ t.withdraw_cooldown <= limits["withdraw_cooldown_max"]
  /\ t.mm_withdraw_period >= MinMMWithdrawPeriod
  /\ t.raise_period <= limits["fundrising_period_max"]
  /\ t.min_raise_amount >= limits["raise_amount_min_usd"]
  /\ t.min_contribute_amount >= limits["contribution_amount_min_usd"]

\* Mutant: numbered by the count of all vaults.
NextIndex_OfProtocol(signer) == vault_pool_count

\* The index that goes into the vault's address.
NextIndex(signer) == vaults_amount[signer]

\* The base mint needs an approved oracle; the price it reads is only recorded, and a
\* feed that shows none too old may always turn up.
CreateVault(signer, t) ==
  /\ signer \in manager_pools
  /\ WithinLimits(t)
  /\ IsApproved(Base)
  /\ \A v \in vaults : v.manager = signer => v.index # NextIndex(signer)
  /\ vaults_amount[signer] < MaxVaults
  /\ vaults' = vaults \cup {[manager |-> signer, index |-> NextIndex(signer), terms |-> t]}
  /\ vaults_amount' = [vaults_amount EXCEPT ![signer] = NextIndex(signer) + 1]
  /\ vault_pool_count' = vault_pool_count + 1
  /\ UNCHANGED <<manager_pools, ownerVars, poolVars, oracleVars>>

-----------------------------------------------------------------------------

SetLimitNext(signer, l) ==
  \/ AdminUpdateWithdrawCooldownMax(signer, l["withdraw_cooldown_max"])
  \/ AdminUpdateFundrisingPeriodMax(signer, l["fundrising_period_max"])
  \/ AdminUpdateRaiseAmountMinUsd(signer, l["raise_amount_min_usd"])
  \/ AdminUpdateContributionAmountMinUsd(signer, l["contribution_amount_min_usd"])
  \/ AdminUpdateOracleMaxAge(signer, l["oracle_max_age"])
  \/ AdminUpdateIdlePeriod(signer, l["idle_period"])
  \/ AdminUpdateDustThresholdUsd(signer, l["dust_threshold_usd"])
  \/ AdminUpdateMaxAssetCount(signer, l["max_asset_count"])
  \/ AdminUpdateMaxSlippageBps(signer, l["max_slippage_bps"])

OwnershipNext(signer) ==
  \/ \E op \in Keys, l \in OfferedLimits : CreateAdminPool(signer, op, l)
  \/ \E nominee \in Keys \cup {Default} : AdminTransferOwnership(signer, nominee)
  \/ AdminAcceptOwnership(signer)
  \/ \E op \in Keys : AdminUpdateOperator(signer, op)
  \/ \E l \in OfferedLimits : AdminModifyFee(signer, l) \/ SetLimitNext(signer, l)

OracleRegistryNext(signer) ==
  \E m \in Mints : KeepOracle(signer, m) \/ \E f \in Feeds : ProposeOracle(m, f)

ManagerNext(signer) ==
  \/ CreateMoneyManagerPool(signer)
  \/ \E t \in OfferedTerms : CreateVault(signer, t)

AdminNext ==
  \/ \E k \in Keys : OwnershipNext(k) \/ OracleRegistryNext(k)
  \/ \E k \in Managers : ManagerNext(k)

AdminSpec == AdminInit /\ [][AdminNext]_adminVars

-----------------------------------------------------------------------------
(* Properties.                                                              *)

\* A pending nomination was made by the admin of now: one left by an earlier admin can
\* not be accepted against a later one, in whatever order nominations, acceptances and
\* withdrawals come (admin_transfer_ownership, admin_accept_ownership).
NominationIsTheAdmins == pending_admin # Default => nominator = admin

\* Once there is a protocol its admin is a key that can sign: a nomination of an address
\* without a key, the default one say, never takes effect by itself.
AdminCanSign == created => admin \in Keys

\* The vaults of a manager are numbered without gaps or repetitions, and both counters
\* count them: create_vault derives the vault's address from one of the two.
VaultsNumbered ==
  /\ \A k \in Managers :
       {v.index : v \in {w \in vaults : w.manager = k}} = 0..(vaults_amount[k] - 1)
  /\ vault_pool_count = Cardinality(vaults)

\* No fee of the protocol and none of a vault, whenever it was created, is more than the
\* whole, however often the limits were changed by one handler or the other; the
\* arithmetic of every payout rests on it (module Vault, AdminPoolType).
FeesNeverExceedWhole ==
  /\ \A f \in BpsFields : limits[f] <= WholeBps
  /\ \A v \in vaults : v.terms.performance_fee <= WholeBps
                       /\ v.terms.money_management_fee <= WholeBps

=============================================================================
