------------------------------ MODULE AppClient ------------------------------
(***************************************************************************)
(* The vault as the web app drives it: the instructions each button of the *)
(* vault and manage pages builds, with the accounts it passes.  A button   *)
(* reads the chain, then sends one transaction; the guards of module Vault *)
(* are checked when the transaction runs.                                  *)
(***************************************************************************)
EXTENDS Vault

\* "Deposit": one transaction that opens the position first if there is none.
AppDeposit(i, amount) ==
  /\ AcceptDeposit(i, amount)
  /\ opened' = opened \cup {i}
  /\ investor_count' = IF i \in opened THEN investor_count ELSE investor_count + 1

\* "Redeem": burns the whole position and passes one asset group, the base token's.
AppRedeem(i) == WithdrawTokenFund(i, shares[i], Once({Base}))

\* "Trade": the manager buys another mint with the base token.
AppTrade(to, input, output) == Swap(MoneyManager, Base, to, Base, to, input, output)

\* "Withdraw management fee": the base token and everything in the registry.
AppManagementFee == WithdrawMoneyManagementFee(Once(Registered))

AppNext ==
  \/ \E i \in Investors :
       \/ \E amount \in 1..wallet[i][Base] : AppDeposit(i, amount)
       \/ AppRedeem(i)
  \/ \E to \in Mints, input \in 1..vault_ata[Base] :
       \E output \in 1..market_ata[to] : AppTrade(to, input, output)
  \/ AppManagementFee
  \/ CloseVault
  \/ Tick
  \/ OracleNext

AppSpec == Init /\ [][AppNext]_vars

\* Redeeming a whole position pays its slice of every asset the vault holds, each leg
\* leaving the vault in full (RPC_FINDINGS.md: "The investor receives
\* balance * shares / total_shares of every vault asset").
FullRedemptionPaysBasket ==
  [][\A i \in Investors :
       shares[i] > 0 /\ shares'[i] = 0 =>
         \A m \in Mints : vault_ata[m] - vault_ata'[m] = Slice(m, shares[i])]_vars

=============================================================================
