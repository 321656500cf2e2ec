-------------------------- MODULE AdminPool_proofs --------------------------
(***************************************************************************)
(* The protocol side of the program, for any number of keys, managers and  *)
(* vaults, any limits and any terms.                                       *)
(***************************************************************************)
EXTENDS AdminPool, FiniteSetTheorems, TLAPS

\* Before the account is created there is nothing to nominate for.
NoPoolNoNomination == ~created => pending_admin = Default

OwnerInv == NominationIsTheAdmins /\ AdminCanSign /\ NoPoolNoNomination

AInv ==
  /\ AdminTypeOK
  /\ OwnerInv
  /\ FeesNeverExceedWhole
  /\ IsFiniteSet(vaults)
  /\ VaultsNumbered

-----------------------------------------------------------------------------
(* The initial states.                                                      *)

\* Nothing is nominated, limited or numbered before the first instruction.
LEMMA AInit == AdminInit => AInv
<1> SUFFICES ASSUME AdminInit PROVE AInv
  OBVIOUS
<1>1. AdminTypeOK
  BY DEF AdminInit, AdminTypeOK, OracleTypeOK
<1>2. OwnerInv
  BY DEF AdminInit, OwnerInv, NominationIsTheAdmins, AdminCanSign, NoPoolNoNomination
<1>3. FeesNeverExceedWhole
  BY DEF AdminInit, FeesNeverExceedWhole, BpsFields, Fields, LimitFields, WholeBps
<1>4. IsFiniteSet(vaults) /\ Cardinality(vaults) = 0
  BY FS_EmptySet DEF AdminInit
<1>5. VaultsNumbered
  <2>1. ASSUME NEW k \in Managers
        PROVE  {v.index : v \in {w \in vaults : w.manager = k}} = 0..(vaults_amount[k] - 1)
    <3>1. vaults = {} /\ vaults_amount[k] = 0
      BY DEF AdminInit
    <3>2. {w \in vaults : w.manager = k} = {}
      BY <3>1
    <3>3. {v.index : v \in {w \in vaults : w.manager = k}} = {}
      BY <3>2
    <3>4. 0..(vaults_amount[k] - 1) = {}
      BY <3>1
    <3> QED
      BY <3>3, <3>4
  <2> QED
    BY <2>1, <1>4 DEF VaultsNumbered, AdminInit
<1> QED
  BY <1>1, <1>2, <1>3, <1>4, <1>5 DEF AInv

-----------------------------------------------------------------------------
(* The instructions, one lemma for each.                                    *)

\* A step that leaves the vaults, the limits or the owner alone keeps what is said of them.
LEMMA VaultFrame ==
  ASSUME VaultsNumbered, IsFiniteSet(vaults), UNCHANGED vaultVars
  PROVE  VaultsNumbered' /\ IsFiniteSet(vaults)'
BY DEF VaultsNumbered, vaultVars

LEMMA FeeFrame ==
  ASSUME FeesNeverExceedWhole, UNCHANGED <<limits, vaults>>
  PROVE  FeesNeverExceedWhole'
BY DEF FeesNeverExceedWhole

LEMMA OwnerFrame ==
  ASSUME OwnerInv, UNCHANGED ownerVars, created' = created
  PROVE  OwnerInv'
BY DEF OwnerInv, NominationIsTheAdmins, AdminCanSign, NoPoolNoNomination, ownerVars

LEMMA OfferedTypes ==
  /\ \A l \in OfferedLimits : l \in [Fields -> Nat]
  /\ FeeFields \subseteq BpsFields /\ BpsFields \subseteq Fields /\ LimitFields \subseteq Fields
  /\ \A t \in OfferedTerms : t \in VaultTerms
BY AdminPoolAssumption DEF AdminPoolAssumption, FeeFields, BpsFields, Fields, LimitFields

LEMMA CreateAdminPoolStep ==
  ASSUME AInv, NEW k \in Keys, NEW op \in Keys, NEW l \in OfferedLimits,
         CreateAdminPool(k, op, l)
  PROVE  AInv'
<1>1. AdminTypeOK'
  BY OfferedTypes DEF AInv, AdminTypeOK, OracleTypeOK, CreateAdminPool, vaultVars, oracleVars
<1>2. OwnerInv'
  BY DEF AInv, OwnerInv, NominationIsTheAdmins, AdminCanSign, NoPoolNoNomination, CreateAdminPool
<1>3. FeesNeverExceedWhole'
  BY DEF AInv, FeesNeverExceedWhole, CreateAdminPool, FeesInRange, BpsFields, vaultVars
<1>4. VaultsNumbered' /\ IsFiniteSet(vaults)'
  BY VaultFrame DEF AInv, CreateAdminPool
<1> QED
  BY <1>1, <1>2, <1>3, <1>4 DEF AInv

\* The hand-over: whatever is pending was put there by the admin of now.
LEMMA OwnershipStep ==
  ASSUME AInv, NEW k \in Keys,
         \/ \E n \in Keys \cup {Default} : AdminTransferOwnership(k, n)
         \/ AdminAcceptOwnership(k)
  PROVE  AInv'
<1>1. /\ UNCHANGED <<poolVars, vaultVars, oracleVars>>
      /\ admin' \in Keys \cup {Default}
      /\ pending_admin' \in Keys \cup {Default}
      /\ nominator' \in Keys \cup {Default}
  BY DEF AInv, AdminTypeOK, AdminTransferOwnership, AdminAcceptOwnership, AfterHandOver
<1>2. AdminTypeOK'
  BY <1>1 DEF AInv, AdminTypeOK, OracleTypeOK, poolVars, vaultVars, oracleVars
<1>3. OwnerInv'
  BY DEF AInv, OwnerInv, NominationIsTheAdmins, AdminCanSign, NoPoolNoNomination,
         AdminTransferOwnership, AdminAcceptOwnership, AfterHandOver, IsAdmin, poolVars
<1>4. FeesNeverExceedWhole'
  BY <1>1, FeeFrame DEF AInv, poolVars, vaultVars
<1>5. VaultsNumbered' /\ IsFiniteSet(vaults)'
  BY <1>1, VaultFrame DEF AInv
<1> QED
  BY <1>2, <1>3, <1>4, <1>5 DEF AInv

\* Each of the nine handlers sets one limit.
LEMMA LimitNextStep ==
  ASSUME NEW k \in Keys, NEW l \in OfferedLimits, SetLimitNext(k, l)
  PROVE  \E f \in LimitFields :
           /\ f = "max_slippage_bps" => l[f] <= WholeBps
           /\ SetLimit(k, f, l[f])
BY DEF SetLimitNext, LimitFields, AdminUpdateWithdrawCooldownMax, AdminUpdateFundrisingPeriodMax,
       AdminUpdateRaiseAmountMinUsd, AdminUpdateContributionAmountMinUsd,
       AdminUpdateOracleMaxAge, AdminUpdateIdlePeriod, AdminUpdateDustThresholdUsd,
       AdminUpdateMaxAssetCount, AdminUpdateMaxSlippageBps

\* The limits keep their shape and their range.
LEMMA LimitStep ==
  ASSUME AInv, NEW k \in Keys,
         \/ \E l \in OfferedLimits : AdminModifyFee(k, l)
         \/ \E l \in OfferedLimits : SetLimitNext(k, l)
         \/ \E op \in Keys : AdminUpdateOperator(k, op)
  PROVE  AInv'
<1>1. /\ UNCHANGED <<created, ownerVars, vaultVars, oracleVars>>
      /\ operator' \in Keys \cup {Default}
  BY LimitNextStep DEF AInv, AdminTypeOK, AdminModifyFee, SetLimit, AdminUpdateOperator
<1>2. /\ limits' \in [Fields -> Nat]
      /\ \A f \in BpsFields : limits'[f] <= WholeBps
  <2>0. /\ limits \in [Fields -> Nat]
        /\ \A f \in BpsFields : limits[f] <= WholeBps
    BY DEF AInv, AdminTypeOK, FeesNeverExceedWhole
  <2>1. ASSUME NEW l \in OfferedLimits, AdminModifyFee(k, l) PROVE <1>2!1 /\ <1>2!2
    BY <2>0, <2>1, OfferedTypes DEF AdminModifyFee, FeesReplaced, FeesInRange
  <2>2. ASSUME NEW l \in OfferedLimits, SetLimitNext(k, l)
        PROVE  <1>2!1 /\ <1>2!2
    <3>0. PICK g \in LimitFields : /\ g = "max_slippage_bps" => l[g] <= WholeBps
                                  /\ SetLimit(k, g, l[g])
      BY <2>2, LimitNextStep
    <3>1. l[g] \in Nat
      BY OfferedTypes
    <3>2. g \in BpsFields => g = "max_slippage_bps"
      BY DEF BpsFields, FeeFields, LimitFields
    <3> QED
      BY <2>0, <3>0, <3>1, <3>2, OfferedTypes DEF SetLimit
  <2>3. ASSUME NEW op \in Keys, AdminUpdateOperator(k, op) PROVE <1>2!1 /\ <1>2!2
    BY <2>0, <2>3 DEF AdminUpdateOperator
  <2> QED
    BY <2>1, <2>2, <2>3
<1>3. AdminTypeOK'
  BY <1>1, <1>2 DEF AInv, AdminTypeOK, OracleTypeOK, ownerVars, vaultVars, oracleVars
<1>4. OwnerInv'
  BY <1>1, OwnerFrame DEF AInv
<1>5. FeesNeverExceedWhole'
  BY <1>1, <1>2 DEF AInv, FeesNeverExceedWhole, vaultVars
<1>6. VaultsNumbered' /\ IsFiniteSet(vaults)'
  BY <1>1, VaultFrame DEF AInv
<1> QED
  BY <1>3, <1>4, <1>5, <1>6 DEF AInv

LEMMA OracleStep ==
  ASSUME AInv, NEW k \in Keys, OracleRegistryNext(k)
  PROVE  AInv'
<1>1. /\ UNCHANGED <<ownerVars, poolVars, vaultVars, quote>>
      /\ oracle_pool' \in [Mints -> OraclePools \cup {NoOracle}]
  <2>0. oracle_pool \in [Mints -> OraclePools \cup {NoOracle}]
    BY DEF AInv, AdminTypeOK, OracleTypeOK
  <2>1. PICK m \in Mints : KeepOracle(k, m) \/ \E f \in Feeds : ProposeOracle(m, f)
    BY DEF OracleRegistryNext
  <2>2. ASSUME NEW f \in Feeds, ProposeOracle(m, f) PROVE <1>1
    <3>1. [exists |-> TRUE, is_approved |-> FALSE, feed_id |-> f] \in OraclePools
      BY DEF OraclePools
    <3> QED
      BY <2>0, <2>2, <3>1 DEF ProposeOracle, CreateOraclePool
  <2>3. ASSUME KeepOracle(k, m) PROVE <1>1
    <3>1. Exists(m) => oracle_pool[m] \in OraclePools
      BY <2>0 DEF Exists, NoOracle
    <3>2. CASE ApproveOraclePool(m)
      <4>1. [oracle_pool[m] EXCEPT !.is_approved = TRUE] \in OraclePools
        BY <3>1, <3>2 DEF ApproveOraclePool, OraclePools
      <4> QED
        BY <2>0, <2>3, <3>2, <4>1 DEF KeepOracle, ApproveOraclePool
    <3>3. CASE CloseOraclePool(m)
      BY <2>0, <2>3, <3>3 DEF KeepOracle, CloseOraclePool
    <3>4. ASSUME NEW f \in Feeds, UpdateOraclePool(m, f) PROVE <1>1
      <4>1. [oracle_pool[m] EXCEPT !.feed_id = f] \in OraclePools
        BY <3>1, <3>4 DEF UpdateOraclePool, OraclePools
      <4> QED
        BY <2>0, <2>3, <3>4, <4>1 DEF KeepOracle, UpdateOraclePool
    <3> QED
      BY <2>3, <3>2, <3>3, <3>4 DEF KeepOracle
  <2> QED
    BY <2>1, <2>2, <2>3
<1>2. AdminTypeOK'
  BY <1>1 DEF AInv, AdminTypeOK, OracleTypeOK, ownerVars, poolVars, vaultVars
<1>3. OwnerInv'
  BY <1>1, OwnerFrame DEF AInv, poolVars
<1>4. FeesNeverExceedWhole'
  BY <1>1, FeeFrame DEF AInv, poolVars, vaultVars
<1>5. VaultsNumbered' /\ IsFiniteSet(vaults)'
  BY <1>1, VaultFrame DEF AInv
<1> QED
  BY <1>2, <1>3, <1>4, <1>5 DEF AInv

LEMMA CreateMoneyManagerPoolStep ==
  ASSUME AInv, NEW k \in Managers, CreateMoneyManagerPool(k)
  PROVE  AInv'
<1>1. UNCHANGED <<vault_pool_count, vaults_amount, vaults, ownerVars, poolVars, oracleVars>>
      /\ manager_pools' \subseteq Managers
  BY DEF AInv, AdminTypeOK, CreateMoneyManagerPool
<1>2. AdminTypeOK'
  BY <1>1 DEF AInv, AdminTypeOK, OracleTypeOK, ownerVars, poolVars, oracleVars
<1>3. OwnerInv'
  BY <1>1, OwnerFrame DEF AInv, poolVars
<1>4. FeesNeverExceedWhole'
  BY <1>1, FeeFrame DEF AInv, poolVars
<1>5. VaultsNumbered' /\ IsFiniteSet(vaults)'
  BY <1>1 DEF AInv, VaultsNumbered
<1> QED
  BY <1>2, <1>3, <1>4, <1>5 DEF AInv

\* The new vault gets the first number its manager has not used, so it is a new account.
LEMMA CreateVaultStep ==
  ASSUME AInv, NEW k \in Managers, NEW t \in OfferedTerms, CreateVault(k, t)
  PROVE  AInv'
<1> DEFINE new == [manager |-> k, index |-> vaults_amount[k], terms |-> t]
<1>1. /\ vaults' = vaults \cup {new}
      /\ vaults_amount' = [vaults_amount EXCEPT ![k] = vaults_amount[k] + 1]
      /\ vault_pool_count' = vault_pool_count + 1
      /\ UNCHANGED <<manager_pools, ownerVars, poolVars, oracleVars>>
      /\ new \notin vaults
  BY DEF CreateVault, NextIndex
<1>2. /\ vaults_amount \in [Managers -> Nat]
      /\ vaults \subseteq VaultPoolType
      /\ vault_pool_count \in Nat
      /\ manager_pools \subseteq Managers
  BY DEF AInv, AdminTypeOK
<1>3. new \in VaultPoolType
  BY <1>2 DEF VaultPoolType
<1>4. AdminTypeOK'
  BY <1>1, <1>2, <1>3 DEF AInv, AdminTypeOK, OracleTypeOK, ownerVars, poolVars, oracleVars
<1>5. OwnerInv'
  BY <1>1, OwnerFrame DEF AInv, poolVars
<1>6. FeesNeverExceedWhole'
  <2>1. /\ t.performance_fee \in Nat /\ t.money_management_fee \in Nat
        /\ limits["performance_fee_max"] \in Nat
        /\ limits["money_management_yearly_fee_max"] \in Nat
    BY OfferedTypes DEF AInv, AdminTypeOK, VaultTerms, Fields, FeeFields
  <2>2. /\ t.performance_fee <= limits["performance_fee_max"]
        /\ t.money_management_fee <= limits["money_management_yearly_fee_max"]
    BY DEF CreateVault, WithinLimits
  <2>3. /\ limits["performance_fee_max"] <= WholeBps
        /\ limits["money_management_yearly_fee_max"] <= WholeBps
    BY DEF AInv, FeesNeverExceedWhole, BpsFields, FeeFields
  <2>4. t.performance_fee <= WholeBps /\ t.money_management_fee <= WholeBps
    BY <2>1, <2>2, <2>3 DEF WholeBps
  <2>5. limits' = limits
    BY <1>1 DEF poolVars
  <2> QED
    BY <1>1, <2>4, <2>5 DEF AInv, FeesNeverExceedWhole
<1>7. IsFiniteSet(vaults') /\ vault_pool_count' = Cardinality(vaults')
  BY <1>1, FS_AddElement DEF AInv, VaultsNumbered
<1>8. ASSUME NEW j \in Managers
      PROVE  {v.index : v \in {w \in vaults' : w.manager = j}} = 0..(vaults_amount'[j] - 1)
  <2>1. {v.index : v \in {w \in vaults : w.manager = j}} = 0..(vaults_amount[j] - 1)
    BY DEF AInv, VaultsNumbered
  <2>2. CASE j = k
    <3> DEFINE own == {w \in vaults : w.manager = j}
    <3>1. {w \in vaults' : w.manager = j} = own \cup {new} /\ new.index = vaults_amount[k]
      BY <1>1, <2>2
    <3>2. {v.index : v \in {w \in vaults' : w.manager = j}}
            = {v.index : v \in own} \cup {vaults_amount[k]}
      <4> HIDE DEF own, new
      <4>1. {v.index : v \in own \cup {new}} = {v.index : v \in own} \cup {new.index}
        OBVIOUS
      <4> QED
        BY <3>1, <4>1
    <3>3. vaults_amount'[j] = vaults_amount[k] + 1 /\ vaults_amount[k] \in Nat
      BY <1>1, <1>2, <2>2
    <3>4. \A n \in Nat : 0..((n + 1) - 1) = (0..(n - 1)) \cup {n}
      OBVIOUS
    <3>5. 0..(vaults_amount'[j] - 1) = (0..(vaults_amount[j] - 1)) \cup {vaults_amount[k]}
      BY <2>2, <3>3, <3>4
    <3> QED
      BY <2>1, <3>2, <3>5, Zenon
  <2>3. CASE j # k
    <3>1. {w \in vaults' : w.manager = j} = {w \in vaults : w.manager = j}
      BY <1>1, <2>3
    <3> QED
      BY <1>1, <1>2, <2>1, <2>3, <3>1
  <2> QED
    BY <2>2, <2>3
<1>9. VaultsNumbered'
  BY <1>7, <1>8 DEF VaultsNumbered
<1> QED
  BY <1>4, <1>5, <1>6, <1>7, <1>9 DEF AInv

-----------------------------------------------------------------------------

LEMMA ANext == AInv /\ [AdminNext]_adminVars => AInv'
<1> SUFFICES ASSUME AInv, [AdminNext]_adminVars PROVE AInv'
  OBVIOUS
<1>1. ASSUME NEW k \in Keys, OwnershipNext(k) PROVE AInv'
  BY <1>1, CreateAdminPoolStep, OwnershipStep, LimitStep DEF OwnershipNext
<1>2. ASSUME NEW k \in Keys, OracleRegistryNext(k) PROVE AInv'
  BY <1>2, OracleStep
<1>3. ASSUME NEW k \in Managers, ManagerNext(k) PROVE AInv'
  BY <1>3, CreateMoneyManagerPoolStep, CreateVaultStep DEF ManagerNext
<1>4. CASE UNCHANGED adminVars
  <2>1. UNCHANGED <<ownerVars, poolVars, vaultVars, oracleVars>>
    BY <1>4 DEF adminVars
  <2>2. AdminTypeOK'
    BY <2>1 DEF AInv, AdminTypeOK, OracleTypeOK, ownerVars, poolVars, vaultVars, oracleVars
  <2> QED
    BY <2>1, <2>2, OwnerFrame, FeeFrame, VaultFrame DEF AInv, poolVars, vaultVars
<1> QED
  BY <1>1, <1>2, <1>3, <1>4 DEF AdminNext

\* The inductive invariant of the protocol's accounts (admin_*.rs, create_vault.rs).
THEOREM AdminInvariance == AdminSpec => []AInv
<1>1. AdminInit => AInv
  BY AInit
<1>2. AInv /\ [AdminNext]_adminVars => AInv'
  BY ANext
<1> QED
  BY <1>1, <1>2, PTL DEF AdminSpec

\* The accounts keep their types: no handler loses a limit or a field.
THEOREM AdminTypeCorrect == AdminSpec => []AdminTypeOK
<1>1. AInv => AdminTypeOK
  BY DEF AInv
<1> QED
  BY <1>1, AdminInvariance, PTL

\* A pending nomination is always the admin's own (admin_accept_ownership.rs).
THEOREM NominationTheorem == AdminSpec => []NominationIsTheAdmins
<1>1. AInv => NominationIsTheAdmins
  BY DEF AInv, OwnerInv
<1> QED
  BY <1>1, AdminInvariance, PTL

\* Ownership never goes to an address that cannot sign (admin_transfer_ownership.rs).
THEOREM AdminCanSignTheorem == AdminSpec => []AdminCanSign
<1>1. AInv => AdminCanSign
  BY DEF AInv, OwnerInv
<1> QED
  BY <1>1, AdminInvariance, PTL

\* No fee of the protocol or of a vault exceeds the whole (create_vault.rs).
THEOREM FeeTheorem == AdminSpec => []FeesNeverExceedWhole
<1>1. AInv => FeesNeverExceedWhole
  BY DEF AInv
<1> QED
  BY <1>1, AdminInvariance, PTL

\* The vaults of a manager are numbered from 0 without gaps (create_vault.rs).
THEOREM NumberingTheorem == AdminSpec => []VaultsNumbered
<1>1. AInv => VaultsNumbered
  BY DEF AInv
<1> QED
  BY <1>1, AdminInvariance, PTL

=============================================================================
