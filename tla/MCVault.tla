------------------------------- MODULE MCVault -------------------------------
(***************************************************************************)
(* Instances of Vault for TLC: the values of its constants that are        *)
(* records or functions, and the parts of the environment a run leaves     *)
(* out.                                                                    *)
(***************************************************************************)
EXTENDS Vault

\* Amounts and periods are a few units; the performance fee is the whole gain, the
\* yearly fee the whole balance, the largest that the admin pool may allow.
Term(raise, cooldown) ==
  [ min_contribute_amount_usd |-> 1,
    raise_period |-> raise,
    min_raise_amount_usd |-> 2,
    mm_withdraw_period |-> 1,
    withdraw_cooldown |-> cooldown,
    money_management_yearly_fee |-> 10000,
    performance_fee |-> 10000 ]

\* A first investor alone, from a raise that ends at once: time for two management fees.
EarlyTerm == [Term(0, 0) EXCEPT !.min_contribute_amount_usd = 2,
                                !.money_management_yearly_fee = 5000]
MCTerms == {Term(1, 0), EarlyTerm}
MCExitTerms == {Term(1, 0), Term(1, 1), EarlyTerm}
MCAdmin(slippage, assets) ==
  [ protocol_performance_fee |-> 5000,
    protocol_money_management_fee |-> 5000,
    performance_fee_max |-> 10000,
    money_management_yearly_fee_max |-> 10000,
    max_slippage_bps |-> slippage,
    fundrising_period_max |-> 1,
    withdraw_cooldown_max |-> 1,
    raise_amount_min_usd |-> 1,
    contribution_amount_min_usd |-> 1,
    idle_period |-> 1,
    max_asset_count |-> assets ]
MCAdminPools == {MCAdmin(5000, 2)}

MCScaleUp == [f \in Feeds |-> <<1, 1>>]
MCScaleDown == [f \in Feeds |-> <<1, 1>>]
MCMarket == <<0, 2>>
MCFunds == <<2, 1>>

\* Both mints approved on feeds of their own.
OraclesApproved ==
  oracle_pool = [m \in Mints |-> [exists |-> TRUE, is_approved |-> TRUE,
                                  feed_id |-> IF m = Base THEN "base_feed" ELSE "alt_feed"]]

\* Two investors, the money manager and the operator; the base price moves, the other
\* stays; trades are priced as the app and the keepers ask, by the oracles of their mints,
\* and a redemption passes the app's group, that group twice, or one for every mint.
TradingInit == Init /\ OraclesApproved /\ \A f \in Feeds : quote[f] = 1
BaseGroups(n) == [m \in Mints |-> IF m = Base THEN n ELSE 0]
TradingLegs == {BaseGroups(1), BaseGroups(2), Once(Mints)}
TradingInvestorNext ==
  \E i \in Investors :
    \/ CreateInvestorPool(i)
    \/ \E amount \in 1..wallet[i][Base] : DepositTokenFund(i, amount)
    \/ \E s \in 1..shares[i], legs \in TradingLegs : WithdrawTokenFund(i, s, legs)
OwnOracleSwap ==
  \E from, to \in Mints : \E input \in 1..vault_ata[from], output \in 1..market_ata[to] :
    Swap(MoneyManager, from, to, from, to, input, output)
BasePriceMoves ==
  /\ \E p \in Prices : PythUpdate("base_feed", p)
  /\ UNCHANGED <<now, admin_pool, terms, vault_pool_status, last_mm_fee_withdraw_at,
                 trading_delegate, shareVars, tokenVars, tradeVars>>
TradingNext ==
  \/ TradingInvestorNext
  \/ OwnOracleSwap
  \/ CloseVault
  \/ OperatorNext
  \/ Tick
  \/ BasePriceMoves
TradingSpec == TradingInit /\ [][TradingNext]_vars

\* One investor, everything else moving: oracles and their feeds, the delegate, the
\* admin pool, a feed that becomes unusable; the raise ends as the vault is created,
\* or one time unit later.
MCBoundaryTerms == {Term(0, 0), Term(1, 0)}
MCTwoAdminPools == {MCAdmin(5000, 2), MCAdmin(0, 1)}
MCOneMarket == <<0, 1>>
MCOneFund == <<2>>
OpenInit ==
  /\ Init /\ OraclesApproved
  /\ admin_pool = MCAdmin(5000, 2)
  /\ \A f \in Feeds : quote[f] = 1
OpenNext ==
  /\ Next
  /\ quote'["alt_feed"] # 2
  /\ oracle_pool'[Base] = oracle_pool[Base]
  /\ SumTo(donated', MintCount) <= 1
OpenSpec == OpenInit /\ [][OpenNext]_vars

\* Two investors with one token each, for the liveness of redemption.
MCSmallFunds == <<1, 1>>
ExitSpec == TradingSpec /\ ExitFairness

=============================================================================
