-------------------------------- MODULE Vault --------------------------------
(***************************************************************************)
(* One vault of the fbyt_vault program, from just after create_vault: the  *)
(* VaultPool, its AssetRegistry, the InvestorPools, the token accounts     *)
(* they move, the clock, and the AdminPool and OraclePool values the vault *)
(* handlers read.  One action per instruction; an instruction either runs  *)
(* to its end or reverts, so each is one step.                             *)
(*                                                                         *)
(* Times count from created_at.  A caller chooses the account groups it    *)
(* passes as the handlers allow: a redemption or a fee withdrawal may name *)
(* an asset several times, and a trade may be priced by any two approved   *)
(* oracles.  Each mint has one token account per owner.                    *)
(***************************************************************************)
EXTENDS FbytMath, OraclePool, Sums, FiniteSets

CONSTANTS
  N,                    \* investors are 1..N
  MoneyManager,         \* the key that created the vault
  Delegates,            \* other keys that may be set as trading delegate
  NoDelegate,           \* Pubkey::default()
  Active, Closed,       \* VaultStatus
  OfferedTerms,         \* the create_vault arguments considered
  AdminPools,           \* the AdminPool values considered
  ScaleUp, ScaleDown,   \* per feed and mint, 10^(6 + exponent - decimals) as a fraction
  InvestorFunds,        \* per investor, the base tokens they start with
  MarketFunds,          \* per mint, the tokens Jupiter's pools and strangers start with
  MaxGroups,            \* bound on the account groups of one call
  MinMMWithdrawPeriod,  \* constants.rs MIN_MM_WITHDRAW_PERIOD, scaled down
  MaxU64,               \* 2^64 - 1, scaled down
  MaxTime               \* bound on the clock

Investors == 1..N
Base == 1
Recipients == {"manager", "protocol"}

AdminPoolType ==
  [ protocol_performance_fee : 0..BasisPoints,
    protocol_money_management_fee : 0..BasisPoints,
    performance_fee_max : 0..BasisPoints,
    money_management_yearly_fee_max : 0..BasisPoints,
    max_slippage_bps : 0..BasisPoints,
    fundrising_period_max : Nat,
    withdraw_cooldown_max : Nat,
    raise_amount_min_usd : Nat,
    contribution_amount_min_usd : Nat,
    idle_period : Nat,
    max_asset_count : Nat ]

TermsType ==
  [ min_contribute_amount_usd : Nat,
    raise_period : Nat,
    min_raise_amount_usd : Nat,
    mm_withdraw_period : Nat,
    withdraw_cooldown : Nat,
    money_management_yearly_fee : Nat,
    performance_fee : Nat ]

ASSUME VaultAssumption ==
  /\ N \in Nat \ {0}
  /\ MoneyManager \notin Delegates
  /\ NoDelegate \notin Delegates \cup {MoneyManager}
  /\ Active # Closed
  /\ OfferedTerms \subseteq TermsType
  /\ AdminPools \subseteq AdminPoolType
  /\ ScaleUp \in [Feeds -> [Mints -> Nat \ {0}]]
  /\ ScaleDown \in [Feeds -> [Mints -> Nat \ {0}]]
  /\ InvestorFunds \in [Investors -> Nat]
  /\ MarketFunds \in [Mints -> Nat]
  /\ MaxGroups \in Nat
  /\ MinMMWithdrawPeriod \in Nat
  /\ MaxU64 \in Nat
  /\ MaxTime \in Nat

VARIABLES
  now,                      \* Clock::get().unix_timestamp - created_at
  admin_pool,               \* AdminPool
  terms,                    \* the VaultPool fields fixed by create_vault
  vault_pool_status,        \* the VaultPool fields that change
  investor_count,
  raised_amount_usd,
  total_shares,
  last_trade_at,
  last_mm_fee_withdraw_at,
  trading_delegate,
  asset_mints,              \* AssetRegistry.asset_mints
  opened,                   \* the investors whose InvestorPool exists
  shares,                   \* InvestorPool.shares
  hight_watermark,          \* InvestorPool.hight_watermark
  wallet,                   \* investor -> mint -> amount in the investor's ATA
  vault_ata,                \* mint -> amount in the vault's ATA
  fee_ata,                  \* recipient -> mint -> amount
  market_ata,               \* mint -> amount outside: Jupiter's pools, strangers' wallets
  donated                   \* history: mint -> what strangers have sent to the vault's ATA

shareVars == <<raised_amount_usd, total_shares, opened, shares, hight_watermark, investor_count>>
tokenVars == <<wallet, vault_ata, fee_ata, market_ata, donated>>
tradeVars == <<last_trade_at, asset_mints>>
vars == <<now, admin_pool, terms, vault_pool_status, last_mm_fee_withdraw_at,
          trading_delegate, shareVars, tokenVars, tradeVars, oracleVars>>

-----------------------------------------------------------------------------
(* What the handlers compute from the state.                               *)

RaiseEnd == terms.raise_period
RedeemFrom == RaiseEnd + terms.withdraw_cooldown

\* An amount of mint m priced by the oracle of mint o.
ValueBy(o, m, amount) ==
  OracleValueUsd(amount, PriceOf(o), ScaleUp[oracle_pool[o].feed_id][m],
                                     ScaleDown[oracle_pool[o].feed_id][m])
ValueUsd(m, amount) == ValueBy(m, m, amount)

\* The account groups a caller passes: how many for each mint (their order changes
\* nothing).  Any mint will do: anybody may open a token account for the vault.
Legs == {legs \in [Mints -> 0..MaxGroups] : SumTo(legs, MintCount) <= MaxGroups}
Once(mints) == [m \in Mints |-> IF m \in mints THEN 1 ELSE 0]

\* The mints the clients know a vault by: base and registry.
Registered == {Base} \cup asset_mints

\* The vault's slice of mint m for s shares.
Slice(m, s) == ProRata(vault_ata[m], s, total_shares)

\* Pass 1 of withdraw_token_fund: every group's slice, valued before any is paid.
SliceValueUsd(legs, s) ==
  SumTo([m \in Mints |-> IF legs[m] = 0 THEN 0 ELSE legs[m] * ValueUsd(m, Slice(m, s))],
        MintCount)

\* Mutant: the slice of the vault instead of the slice of the position.
CostSlice_OfVault(i, s) == ProRata(hight_watermark[i], s, total_shares)
CostSlice(i, s) == ProRata(hight_watermark[i], s, shares[i])

PerfFeeUsd(i, s, value_usd) ==
  PerformanceFeeUsd(value_usd, CostSlice(i, s), terms.performance_fee)

\* How a slice is split once a fee is taken from it.
ProtocolCut(taken) == BpsOf(taken, admin_pool.protocol_performance_fee)
ManagerCut(taken) == Monus(taken, ProtocolCut(taken))
\* Mutant: the fee is charged on top of the slice.
Payout_Gross(slice, taken) == slice
Payout(slice, taken) == Monus(slice, taken)

\* What the groups of one mint have done so far, group after group.
Tally == [balance : Int, paid : Int, manager : Int, protocol : Int]
Opening(m) == [balance |-> vault_ata[m], paid |-> 0, manager |-> 0, protocol |-> 0]

\* Pass 2: a group pays the slice of the balance it finds, which the groups of the
\* same mint before it have lowered.
PayGroup(s, fee_usd, value_usd) ==
  [t \in Tally |->
     LET slice == ProRata(t.balance, s, total_shares)
         taken == AssetFee(slice, fee_usd, value_usd)
     IN [ balance |-> t.balance - (Payout(slice, taken) + ManagerCut(taken) + ProtocolCut(taken)),
          paid |-> t.paid + Payout(slice, taken),
          manager |-> t.manager + ManagerCut(taken),
          protocol |-> t.protocol + ProtocolCut(taken) ]]

\* Mutant: the time before the last withdrawal is charged again.
MMFee_SinceRaise(balance) ==
  AccruedFee(balance, terms.money_management_yearly_fee, Monus(now, RaiseEnd))

\* The management fee on a balance since the last withdrawal, and its split; the
\* manager's part is computed after a truncating cast to u64.
MMFee(balance) ==
  AccruedFee(balance, terms.money_management_yearly_fee, Monus(now, last_mm_fee_withdraw_at))
MMAdminFee(balance) == BpsOf(MMFee(balance), admin_pool.protocol_money_management_fee)
MMManagerFee(balance) == Monus(MMFee(balance) % (MaxU64 + 1), MMAdminFee(balance))

\* A group of withdraw_money_management_fee charges the balance it finds.
ChargeGroup ==
  [t \in Tally |->
     LET manager == MMManagerFee(t.balance)
         protocol == MMAdminFee(t.balance)
     IN [ balance |-> t.balance - (manager + protocol), paid |-> t.paid,
          manager |-> t.manager + manager, protocol |-> t.protocol + protocol ]]

-----------------------------------------------------------------------------
(* create_vault: its checks, and the state it leaves.                      *)

AcceptedTerms(t, a) ==
  /\ t.money_management_yearly_fee <= a.money_management_yearly_fee_max
  /\ t.performance_fee <= a.performance_fee_max
  /\ t.withdraw_cooldown <= a.withdraw_cooldown_max
  /\ t.mm_withdraw_period >= MinMMWithdrawPeriod
  /\ t.raise_period <= a.fundrising_period_max
  /\ t.min_raise_amount_usd >= a.raise_amount_min_usd
  /\ t.min_contribute_amount_usd >= a.contribution_amount_min_usd

Init ==
  /\ now = 0
  /\ admin_pool \in AdminPools
  /\ terms \in {t \in OfferedTerms : AcceptedTerms(t, admin_pool)}
  /\ oracle_pool \in [Mints -> OraclePools \cup {NoOracle}]
  /\ quote \in [Feeds -> Prices \cup {Unusable}]
  /\ IsApproved(Base)
  /\ vault_pool_status = Active
  /\ investor_count = 0
  /\ raised_amount_usd = 0
  /\ total_shares = 0
  /\ last_trade_at = 0
  /\ last_mm_fee_withdraw_at = RaiseEnd
  /\ trading_delegate = NoDelegate
  /\ asset_mints = {}
  /\ opened = {}
  /\ shares = [i \in Investors |-> 0]
  /\ hight_watermark = [i \in Investors |-> 0]
  /\ wallet = [i \in Investors |-> [m \in Mints |-> IF m = Base THEN InvestorFunds[i] ELSE 0]]
  /\ vault_ata = [m \in Mints |-> 0]
  /\ fee_ata = [r \in Recipients |-> [m \in Mints |-> 0]]
  /\ market_ata = MarketFunds
  /\ donated = [m \in Mints |-> 0]

-----------------------------------------------------------------------------
(* The investors' instructions.                                            *)

CreateInvestorPool(i) ==
  /\ i \notin opened
  /\ investor_count < MaxU64
  /\ opened' = opened \cup {i}
  /\ investor_count' = investor_count + 1
  /\ UNCHANGED <<now, admin_pool, terms, vault_pool_status, last_mm_fee_withdraw_at,
                 trading_delegate, raised_amount_usd, total_shares, shares,
                 hight_watermark, tokenVars, tradeVars, oracleVars>>

\* The accounting of a deposit; every sum is checked.
MintShares(i, minted, amount_usd) ==
  /\ raised_amount_usd + amount_usd <= MaxU64
  /\ total_shares + minted <= MaxU64
  /\ hight_watermark[i] + amount_usd <= MaxU64
  /\ raised_amount_usd' = raised_amount_usd + amount_usd
  /\ total_shares' = total_shares + minted
  /\ shares' = [shares EXCEPT ![i] = @ + minted]
  /\ hight_watermark' = [hight_watermark EXCEPT ![i] = @ + amount_usd]

\* Everything deposit_token_fund does, given that i's InvestorPool exists.
AcceptDeposit(i, amount) ==
  LET amount_usd == ValueUsd(Base, amount)
      minted == SharesFor(amount, amount_usd, total_shares, raised_amount_usd)
  IN
  /\ amount >= terms.min_contribute_amount_usd
  /\ vault_pool_status = Active
  /\ HasPrice(Base)
  /\ now <= RaiseEnd
  /\ amount_usd <= MaxU64
  /\ amount_usd >= terms.min_contribute_amount_usd
  /\ minted > 0
  /\ wallet[i][Base] >= amount
  /\ wallet' = [wallet EXCEPT ![i][Base] = @ - amount]
  /\ vault_ata' = [vault_ata EXCEPT ![Base] = @ + amount]
  /\ MintShares(i, minted, amount_usd)
  /\ UNCHANGED <<now, admin_pool, terms, vault_pool_status, last_mm_fee_withdraw_at,
                 trading_delegate, fee_ata, market_ata, donated, tradeVars, oracleVars>>

DepositTokenFund(i, amount) ==
  /\ i \in opened
  /\ AcceptDeposit(i, amount)
  /\ UNCHANGED <<opened, investor_count>>

\* Mutant: a closed vault keeps what it holds.
MayRedeem_WhileActive(i, s) ==
  /\ vault_pool_status = Active
  /\ s \in 1..shares[i]
  /\ total_shares > 0
  /\ now >= RedeemFrom

\* A closed vault pays out like an active one; nobody's approval is asked.
MayRedeem(i, s) ==
  /\ s \in 1..shares[i]
  /\ total_shares > 0
  /\ now >= RedeemFrom

\* Pass 2: every group is paid in kind, to the investor and the fee recipients.
PayLegs(i, s, legs, fee_usd, value_usd) ==
  LET end == [m \in Mints |->
                Iterates(PayGroup(s, fee_usd, value_usd), Opening(m), legs[m])[legs[m]]]
  IN
  /\ wallet' = [wallet EXCEPT ![i] = [m \in Mints |-> @[m] + end[m].paid]]
  /\ fee_ata' = [r \in Recipients |-> [m \in Mints |-> fee_ata[r][m] +
                   IF r = "manager" THEN end[m].manager ELSE end[m].protocol]]
  /\ vault_ata' = [m \in Mints |-> end[m].balance]

\* Mutant: the position is emptied whatever part of it was redeemed.
BurnShares_Whole(i, s) ==
  /\ shares' = [shares EXCEPT ![i] = 0]
  /\ hight_watermark' = [hight_watermark EXCEPT ![i] = 0]
  /\ total_shares' = Monus(total_shares, s)
  /\ raised_amount_usd' =
       Monus(raised_amount_usd, ProRata(raised_amount_usd, s, total_shares))
  /\ investor_count' = Monus(investor_count, 1)

\* Mutant: the vault's cost basis is left as it was.
BurnShares_KeepBasis(i, s) ==
  /\ shares' = [shares EXCEPT ![i] = Monus(@, s)]
  /\ hight_watermark' = [hight_watermark EXCEPT ![i] = Monus(@, CostSlice(i, s))]
  /\ total_shares' = Monus(total_shares, s)
  /\ UNCHANGED raised_amount_usd
  /\ investor_count' = IF shares[i] = s THEN Monus(investor_count, 1) ELSE investor_count

\* The accounting, whatever the legs were.
BurnShares(i, s) ==
  /\ shares' = [shares EXCEPT ![i] = Monus(@, s)]
  /\ hight_watermark' = [hight_watermark EXCEPT ![i] = Monus(@, CostSlice(i, s))]
  /\ total_shares' = Monus(total_shares, s)
  /\ raised_amount_usd' =
       Monus(raised_amount_usd, ProRata(raised_amount_usd, s, total_shares))
  /\ investor_count' = IF shares[i] = s THEN Monus(investor_count, 1) ELSE investor_count

WithdrawTokenFund(i, s, legs) ==
  LET value_usd == SliceValueUsd(legs, s)
      fee_usd == PerfFeeUsd(i, s, value_usd)
  IN
  /\ MayRedeem(i, s)
  /\ \E m \in Mints : legs[m] > 0
  /\ \A m \in Mints : legs[m] > 0 => HasPrice(m)
  /\ fee_usd <= MaxU64
  /\ PayLegs(i, s, legs, fee_usd, value_usd)
  /\ BurnShares(i, s)
  /\ UNCHANGED <<now, admin_pool, terms, vault_pool_status, last_mm_fee_withdraw_at,
                 trading_delegate, opened, market_ata, donated, tradeVars, oracleVars>>

-----------------------------------------------------------------------------
(* The money manager's instructions, and the trade its delegate may make.  *)

\* Mutant: trading does not wait for the raise to end.
MayTrade_DuringRaise(trader) ==
  /\ trader = MoneyManager \/ (trading_delegate # NoDelegate /\ trader = trading_delegate)
  /\ vault_pool_status = Active
  /\ raised_amount_usd >= terms.min_raise_amount_usd

\* Mutant: the status of the vault is not looked at.
MayTrade_AnyStatus(trader) ==
  /\ trader = MoneyManager \/ (trading_delegate # NoDelegate /\ trader = trading_delegate)
  /\ now >= RaiseEnd
  /\ raised_amount_usd >= terms.min_raise_amount_usd

MayTrade(trader) ==
  /\ trader = MoneyManager \/ (trading_delegate # NoDelegate /\ trader = trading_delegate)
  /\ vault_pool_status = Active
  /\ now >= RaiseEnd
  /\ raised_amount_usd >= terms.min_raise_amount_usd

\* Mutant: only the input leg is tracked.
Unregistered_InputOnly(from, to) == {from} \ asset_mints

\* The legs of a trade the registry does not list yet.
Unregistered(from, to) == {from, to} \ asset_mints

\* Jupiter moves "input" out of the vault's input account and "output" into the
\* output one; the program measures both and checks them afterwards, each leg priced by
\* the oracle the trader passes for it (o_from, o_to): approved, of any mint.
Swap(trader, from, to, o_from, o_to, input, output) ==
  /\ MayTrade(trader)
  /\ HasPrice(o_from) /\ HasPrice(o_to)
  /\ from # to
  /\ input \in 1..vault_ata[from]
  /\ output \in 1..market_ata[to]
  /\ WithinSlippage(ValueBy(o_from, from, input), ValueBy(o_to, to, output),
                    admin_pool.max_slippage_bps)
  /\ Unregistered(from, to) # {} =>
       Cardinality(asset_mints \cup Unregistered(from, to)) <= admin_pool.max_asset_count
  /\ vault_ata' = [vault_ata EXCEPT ![from] = @ - input, ![to] = @ + output]
  /\ market_ata' = [market_ata EXCEPT ![from] = @ + input, ![to] = @ - output]
  /\ asset_mints' = asset_mints \cup Unregistered(from, to)
  /\ last_trade_at' = now
  /\ UNCHANGED <<now, admin_pool, terms, vault_pool_status, last_mm_fee_withdraw_at,
                 trading_delegate, shareVars, wallet, fee_ata, donated, oracleVars>>

CloseVault ==
  /\ vault_pool_status # Closed
  /\ now >= RaiseEnd
  /\ vault_pool_status' = Closed
  /\ UNCHANGED <<now, admin_pool, terms, last_mm_fee_withdraw_at, trading_delegate,
                 shareVars, tokenVars, tradeVars, oracleVars>>

SetTradingDelegate(k) ==
  /\ trading_delegate' = k
  /\ UNCHANGED <<now, admin_pool, terms, vault_pool_status, last_mm_fee_withdraw_at,
                 shareVars, tokenVars, tradeVars, oracleVars>>

RevokeTradingDelegate ==
  /\ trading_delegate # NoDelegate
  /\ trading_delegate' = NoDelegate
  /\ UNCHANGED <<now, admin_pool, terms, vault_pool_status, last_mm_fee_withdraw_at,
                 shareVars, tokenVars, tradeVars, oracleVars>>

-----------------------------------------------------------------------------
(* The operator's instruction: each group streams the fee on the balance it *)
(* finds, then the accrual clock restarts.  A balance that cannot cover its *)
(* fee reverts.                                                             *)

\* Mutant: a vault that never traded pays too.
FeeDue_Untraded ==
  /\ now <= last_trade_at + admin_pool.idle_period
  /\ now >= last_mm_fee_withdraw_at + terms.mm_withdraw_period

\* The vault has traded, not too long ago, and a period has passed.
FeeDue ==
  /\ last_trade_at # 0
  /\ now <= last_trade_at + admin_pool.idle_period
  /\ now >= last_mm_fee_withdraw_at + terms.mm_withdraw_period

WithdrawMoneyManagementFee(legs) ==
  LET passes == [m \in Mints |-> Iterates(ChargeGroup, Opening(m), legs[m])]
      end == [m \in Mints |-> passes[m][legs[m]]]
  IN
  /\ FeeDue
  /\ last_mm_fee_withdraw_at' = now
  /\ \A m \in Mints : \A k \in 1..legs[m] : /\ MMAdminFee(passes[m][k - 1].balance) <= MaxU64
                                            /\ passes[m][k].balance >= 0
  /\ vault_ata' = [m \in Mints |-> end[m].balance]
  /\ fee_ata' = [r \in Recipients |-> [m \in Mints |-> fee_ata[r][m] +
                   IF r = "manager" THEN end[m].manager ELSE end[m].protocol]]
  /\ UNCHANGED <<now, admin_pool, terms, vault_pool_status, trading_delegate, shareVars,
                 wallet, market_ata, donated, tradeVars, oracleVars>>

-----------------------------------------------------------------------------
(* The environment.                                                        *)

Tick ==
  /\ now < MaxTime
  /\ now' = now + 1
  /\ UNCHANGED <<admin_pool, terms, vault_pool_status, last_mm_fee_withdraw_at,
                 trading_delegate, shareVars, tokenVars, tradeVars, oracleVars>>

\* Any admin instruction, seen from the vault: the limits it reads change.
AdminPoolChange(a) ==
  /\ admin_pool' = a
  /\ UNCHANGED <<now, terms, vault_pool_status, last_mm_fee_withdraw_at,
                 trading_delegate, shareVars, tokenVars, tradeVars, oracleVars>>

\* A stranger sends tokens to the vault's token account: no instruction of the program.
Donate(m, amount) ==
  /\ amount \in 1..market_ata[m]
  /\ vault_ata' = [vault_ata EXCEPT ![m] = @ + amount]
  /\ market_ata' = [market_ata EXCEPT ![m] = @ - amount]
  /\ donated' = [donated EXCEPT ![m] = @ + amount]
  /\ UNCHANGED <<now, admin_pool, terms, vault_pool_status, last_mm_fee_withdraw_at,
                 trading_delegate, shareVars, wallet, fee_ata, tradeVars, oracleVars>>

OracleNext ==
  /\ OracleAdminNext \/ PythNext
  /\ UNCHANGED <<now, admin_pool, terms, vault_pool_status, last_mm_fee_withdraw_at,
                 trading_delegate, shareVars, tokenVars, tradeVars>>

InvestorNext ==
  \E i \in Investors :
    \/ CreateInvestorPool(i)
    \/ \E amount \in 1..wallet[i][Base] : DepositTokenFund(i, amount)
    \/ \E s \in 1..shares[i], legs \in Legs : WithdrawTokenFund(i, s, legs)

ManagerNext ==
  \/ \E trader \in Delegates \cup {MoneyManager}, from, to, o_from, o_to \in Mints :
       \E input \in 1..vault_ata[from], output \in 1..market_ata[to] :
         Swap(trader, from, to, o_from, o_to, input, output)
  \/ CloseVault
  \/ \E k \in Delegates \cup {MoneyManager, NoDelegate} : SetTradingDelegate(k)
  \/ RevokeTradingDelegate

OperatorNext == \E legs \in Legs : WithdrawMoneyManagementFee(legs)

Next ==
  \/ InvestorNext
  \/ ManagerNext
  \/ OperatorNext
  \/ Tick
  \/ \E a \in AdminPools : AdminPoolChange(a)
  \/ \E m \in Mints : \E amount \in 1..market_ata[m] : Donate(m, amount)
  \/ OracleNext

Spec == Init /\ [][Next]_vars

\* Time passes, and an investor who wants out keeps sending the redemption of the
\* whole position; nobody else has to do anything.
RedeemAll(i) == WithdrawTokenFund(i, shares[i], Once(Registered))
ExitFairness == WF_vars(Tick) /\ \A i \in Investors : SF_vars(RedeemAll(i))

-----------------------------------------------------------------------------
(* Invariants.                                                             *)

\* Every variable has the type its Rust field or token account has.
TypeOK ==
  /\ OracleTypeOK
  /\ now \in 0..MaxTime
  /\ admin_pool \in AdminPools
  /\ terms \in OfferedTerms
  /\ vault_pool_status \in {Active, Closed}
  /\ investor_count \in Nat
  /\ raised_amount_usd \in Nat
  /\ total_shares \in Nat
  /\ last_trade_at \in Nat
  /\ last_mm_fee_withdraw_at \in Nat
  /\ trading_delegate \in Delegates \cup {MoneyManager, NoDelegate}
  /\ asset_mints \subseteq Mints
  /\ opened \subseteq Investors
  /\ shares \in [Investors -> Nat]
  /\ hight_watermark \in [Investors -> Nat]
  /\ wallet \in [Investors -> [Mints -> Nat]]
  /\ vault_ata \in [Mints -> Nat]
  /\ fee_ata \in [Recipients -> [Mints -> Nat]]
  /\ market_ata \in [Mints -> Nat]
  /\ donated \in [Mints -> Nat]

\* The shares in the InvestorPools add up to VaultPool.total_shares: deposit_token_fund
\* and withdraw_token_fund keep two running totals that no instruction ever compares.
SharesConserved == SumTo(shares, N) = total_shares

\* A burnt-out position carries no cost basis and a burnt-out vault no raised amount:
\* the floor divisions of withdraw_token_fund leave no residue when the last share goes.
NoBasisWithoutShares ==
  /\ total_shares = 0 => raised_amount_usd = 0
  /\ \A i \in Investors : shares[i] = 0 => hight_watermark[i] = 0

\* Until the raise is over what was contributed stays where it was put: every micro-USD
\* raised is some investor's cost basis, every base token an investor started with is in
\* the vault (beside what strangers sent it) or an investor's wallet, nothing has been
\* traded, charged or closed (the clocks of swap, withdraw_token_fund,
\* withdraw_money_management_fee and close_vault agree).
RaiseIsUntouched ==
  now < RaiseEnd =>
    /\ SumTo(hight_watermark, N) = raised_amount_usd
    /\ vault_ata[Base] + SumTo([i \in Investors |-> wallet[i][Base]], N)
         = SumTo(InvestorFunds, N) + donated[Base]
    /\ asset_mints = {}
    /\ vault_pool_status = Active
    /\ fee_ata = [r \in Recipients |-> [m \in Mints |-> 0]]

\* Whatever the vault's trades left it besides its base token is in the registry: clients
\* build the groups of a redemption or a fee withdrawal, and the NAV, from base and
\* registry, and miss nothing but what strangers sent.
HoldingsRegistered == \A m \in Mints : vault_ata[m] > 0 => m \in Registered \/ donated[m] > 0

\* A management fee is only ever taken from a vault that has traded, and no earlier than
\* a whole period after the raise ended, whatever the operator sends and however often.
FeeClock ==
  last_mm_fee_withdraw_at # RaiseEnd =>
    /\ asset_mints # {}
    /\ last_mm_fee_withdraw_at >= RaiseEnd + terms.mm_withdraw_period
    /\ last_mm_fee_withdraw_at <= now

-----------------------------------------------------------------------------
(* Refinement.                                                             *)

Ledger == INSTANCE ShareLedger WITH
            Holders <- Investors,
            supply <- total_shares,
            holding <- shares,
            basis <- raised_amount_usd

\* The vault is a share ledger: whatever trades, prices, fees, admin changes and the
\* clock do, its shares are issued and burnt as module ShareLedger says.
ImplementsShareLedger == Ledger!Spec

-----------------------------------------------------------------------------
(* Action properties.                                                      *)

\* The cost basis per share never falls, so neither a deposit nor a redemption
\* dilutes the other investors' basis: deposit_token_fund rounds the shares it mints
\* down, withdraw_token_fund rounds the basis it removes down.
CostBasisNeverDiluted ==
  [][raised_amount_usd' * total_shares >= raised_amount_usd * total_shares']_vars

\* A redemption costs the remaining shares nothing: payout and both fee cuts of a group
\* together never exceed the burnt shares' part of the balance it finds.  An asset passed
\* once keeps at least the remaining shares' part, one passed n times that part n times
\* over (withdraw_token_fund does not refuse a repeated group), one left out keeps all.
HoldingsPerShareNeverFall ==
  [][\A i \in Investors :
       shares'[i] < shares[i] =>
         LET s == shares[i] - shares'[i] IN
         \A legs \in Legs : WithdrawTokenFund(i, s, legs) =>
           \A m \in Mints : vault_ata'[m] * Power(total_shares, legs[m])
                              >= vault_ata[m] * Power(total_shares - s, legs[m])]_vars

\* What a step adds to the fee accounts of mint m.
FeesAdded(m) == (fee_ata'["manager"][m] - fee_ata["manager"][m])
                  + (fee_ata'["protocol"][m] - fee_ata["protocol"][m])

\* Performance fees are taken only out of the gain: priced at the redemption, what the
\* recipients get is at most performance_fee of the value of the slices passed above the
\* investor's cost slice (one micro-USD more per group, by rounding), nothing without gain.
PerformanceFeeWithinGain ==
  [][\A i \in Investors :
       shares'[i] < shares[i] =>
         LET s == shares[i] - shares'[i] IN
         \A legs \in Legs : WithdrawTokenFund(i, s, legs) =>
           LET gain == Monus(SliceValueUsd(legs, s), CostSlice(i, s))
               taken == [m \in Mints |-> IF legs[m] = 0 THEN 0 ELSE ValueUsd(m, FeesAdded(m))]
           IN /\ SumTo(taken, MintCount)
                   <= BpsOf(gain, terms.performance_fee) + SumTo(legs, MintCount)
              /\ gain = 0 => fee_ata' = fee_ata]_vars

\* No time is charged twice: a management fee comes a whole period after the one before,
\* moves the accrual clock to now, and each of its groups leaves what it finds less the
\* yearly rate for the time in between, so an asset passed once is charged once for it.
FeeAccruesOnce ==
  [][\A legs \in Legs : WithdrawMoneyManagementFee(legs) =>
       LET elapsed == now - last_mm_fee_withdraw_at
           whole == BasisPoints * SecondsPerYear
           kept == Monus(whole, terms.money_management_yearly_fee * elapsed)
       IN /\ elapsed >= terms.mm_withdraw_period
          /\ last_mm_fee_withdraw_at' = now
          /\ \A m \in Mints : vault_ata'[m] * Power(whole, legs[m])
                                >= vault_ata[m] * Power(kept, legs[m])]_vars

\* The vault's holdings at the oracle prices, over the mints that have one.
Nav(ata) ==
  SumTo([m \in Mints |-> IF HasPrice(m) THEN ValueUsd(m, ata[m]) ELSE 0], MintCount)

\* A trade that passes the oracles of the mints it moves, as the app and the keepers do,
\* costs the vault at most max_slippage_bps of what it traded in, at the oracle prices of
\* the trade (and one micro-USD of rounding).
TradeLossBounded ==
  [][\A trader \in Delegates \cup {MoneyManager}, from, to \in Mints :
       LET input == vault_ata[from] - vault_ata'[from]
           output == vault_ata'[to] - vault_ata[to]
       IN Swap(trader, from, to, from, to, input, output) =>
            (Nav(vault_ata) - Nav(vault_ata') - 1) * BasisPoints
              <= ValueUsd(from, input) * admin_pool.max_slippage_bps]_vars

\* Once closed a vault only pays out: it stays closed, takes no deposit, makes no
\* trade, and its shares and its holdings, but for what strangers send, only shrink.
ClosedOnlyPaysOut ==
  [][vault_pool_status = Closed =>
       /\ vault_pool_status' = Closed
       /\ total_shares' <= total_shares /\ raised_amount_usd' <= raised_amount_usd
       /\ \A m \in Mints : vault_ata'[m] - donated'[m] <= vault_ata[m] - donated[m]
       /\ UNCHANGED <<asset_mints, last_trade_at>>]_vars

\* A deposit and a trade never overlap: once a vault has traded it takes no deposit
\* (app/README.md: "the two phases are gated on the same clock").
NoDepositAfterTrade == [][asset_mints # {} => total_shares' <= total_shares]_vars

-----------------------------------------------------------------------------
(* The NoTradesYet sentinel.                                               *)

\* A vault that has traded is not taken for one that has not: the management fee is
\* refused with NoTradesYet only if the vault never traded.
TradedIsRecognised == asset_mints # {} => last_trade_at # 0

-----------------------------------------------------------------------------
(* Liveness.                                                               *)

\* Shares can always be redeemed in the end, whether the vault trades, idles or is
\* closed under its investors: withdraw_token_fund needs no one's approval.
EveryShareRedeemable == \A i \in Investors : shares[i] > 0 ~> shares[i] = 0

=============================================================================
