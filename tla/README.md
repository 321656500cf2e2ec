# A TLA+ model of FBYT

FBYT is a share-based vault platform on Solana. A money manager creates a vault, investors
deposit a base token for shares during a raise, the manager (or a delegate key) trades the
pool through Jupiter, fees are streamed in kind, and investors redeem their part of every
asset. Around the program (`fbyt_vault`, Rust/Anchor) stand a Next.js application with API
routes over a SQLite document store, an indexer, and two keepers that trade for the bots
registered with a vault.

This directory holds TLA+ modules translated from that source, TLC configurations that check
them on small instances, and TLAPS proofs about them for every value of their constants.
`PROJECT.json` is the index: components, runs, mutants, the source lines of every definition,
findings, hazards and theorems.

## Running it

    tlc -workers 2 -config MCVault.cfg MCVault        # any run of the table below
    tlapm Vault_proofs.tla                            # or any other *_proofs module

A definition preceded by a comment that starts with "Mutant:" is not part of any
specification. It is a wrong version of the definition that follows it; substituted for it, it
breaks the property that `PROJECT.json` names beside it.

## Inventory

| Component | State | Operations | Interacts with | Hard behaviour | What makes it correct |
|---|---|---|---|---|---|
| Vault life cycle and shares | `VaultPool`, `InvestorPool`s, token accounts | create_vault, create_investor_pool, deposit, withdraw, close | oracles, admin pool, the clock | phases gated on clocks derived in five files; two running totals of shares; floor divisions at every split | shares add up, no dilution, raise untouched, every share redeemable |
| Trading and the asset registry | `AssetRegistry`, delegate, last_trade_at | swap, set/revoke delegate | Jupiter (CPI), oracles, keepers | a trade is judged after the fact by balance differences; a registry at its limit | bounded loss, nothing traded for held unregistered, closed vaults do not trade |
| Management fee | last_mm_fee_withdraw_at | withdraw_money_management_fee | clock, admin pool | a sentinel value shared with real times; a fee larger than a balance | never before a trade, no time charged twice |
| On-chain arithmetic | none | pricing, issuance, slices, fees | all of the above | rounding, overflow, truncating casts | each leg takes no more than its slice |
| Oracle registry | `OraclePool` per mint | create, approve, update, close | Pyth, pricing | an approval that survives a change of feed; prices that go stale | a mint is priced only by an approved, fresh feed |
| Admin pool and managers | `AdminPool`, money-manager pools | limits, fees, roles, two-step ownership | every vault | limits lowered under existing vaults; a late acceptance of ownership | caps hold, exactly one admin |
| Vault, manage, create, admin and portfolio pages | what they fetched | the transactions each button builds | generated client, program | accounts fetched a moment before; a partial set of legs; derived addresses | what is sent is accepted, and an investor gets every leg of the basket |
| Generated client | none | builders, parsers, addresses, account fetchers | pages, scripts, keepers | three lists of accounts matched by position | builders, parsers and program agree |
| Rust keeper | the `keeperLocks` and `bots` documents | a pass every 30 s | program, store, bots API | a lock with a ttl, stale documents, errors and crashes mid-pass | passes do not overlap, a grid trades a step from its last trade, a dead holder does not wedge the rest |
| TypeScript keeper | `bots` documents | a pass on demand | the same | takes no lock | as above |
| Bots API | `bots` documents | create, halt, delete | keepers | DELETE is three statements | a deleted bot stays deleted |
| Document store | `docs(collection, id, data)` | put, update, append, query | app, indexer, keepers | several processes on one file | each call is atomic |
| Users, points, referrals | documents | award, refer | sessions | read-modify-write over two calls, a referral in two halves | no points or referral from nowhere; they add up |
| Launches and votes | documents | create, vote | sessions | the list of voters is written back whole | a launch shows who voted for it |
| Sign-in and sessions | nonces | nonce, verify | all routes | lookup and deletion in two statements, the signature after both | a spent or late nonce is refused; two verifications that overlap may both sign in |
| Request limiter | buckets in memory | guard | all routes | window boundaries, the purge | at most two windows' worth, and refusals end |
| Indexer and trade history | snapshot and trade documents | scan, append, put | app, RPC | a page of transactions, passes that break off | a trade is recorded, history stays |
| NAV, RPC transport, metadata, uploads, faucet, health, Jupiter proxy | none | stateless calls | outside services | none of its own | not modelled |
| Scripts, tests, declarations, bots panel | none | deployment, tests, forms | | none | not modelled, but for the transactions of `bootstrap.ts` |

## Modules

    Sums, FbytMath      sums over 1..n; the program's arithmetic as operators
    OraclePool          the oracle registry and the Pyth feeds
    ShareLedger         abstract: what a vault promises about shares
    Vault               one vault: EXTENDS FbytMath, OraclePool, Sums; implements ShareLedger
    AppClient           the vault as the web app's buttons drive it: EXTENDS Vault
    AdminPool           the protocol's accounts: ownership, limits, managers, vault creation
    Keeper              keepers, bots API and the documents they share
    Addresses           derived addresses
    GeneratedClient     the instruction builders: EXTENDS Addresses
    Parsers             the instruction parsers: EXTENDS GeneratedClient
    Program             what the program checks of an instruction's accounts, and what it leaves
    Pages               what each page sends: EXTENDS Program, Parsers
    Users, Launches, SignIn          accounts and points, votes, nonces
    RateLimit, Indexer               the limiter, the indexer
    MCVault, MCAppClient, MCAdminPool, MCPages, MCApp, MCStore      instances for TLC
    Sums_proofs, Vault_proofs, AdminPool_proofs, Keeper_proofs, Users_proofs,
    Server_proofs (launches, sign-in, limiter, indexer), Pages_proofs, Landing_proofs     theorems

### Vault

The state is the fields of `VaultPool` under their own names (the misspelt `hight_watermark`
included), the investors' pools and token accounts, the registry, the clock, and the
`AdminPool` and `OraclePool` values that the handlers read. The initial state is what
`create_vault` leaves: any terms that its checks accept under any admin pool considered.
Times count from `created_at`.

There is one action per instruction, with the whole handler in it: the guards in its account
constraints and `require!`s, the transfers, the accounting. A Solana instruction runs to its
end or reverts, so an action is one step and a failing `checked_add` or `require!` is a guard.
`saturating_sub` is `Monus`, the `as u64` cast is a remainder.

| Action | Source |
|---|---|
| `CreateInvestorPool` | `create_investor_pool.rs` |
| `DepositTokenFund` (`AcceptDeposit`, `MintShares`) | `deposit_token_fund.rs` |
| `WithdrawTokenFund` (`MayRedeem`, `PayLegs`, `BurnShares`) | `withdraw_token_fund.rs` |
| `Swap` (`MayTrade`, `WithinSlippage`, `Unregistered`) | `swap.rs` |
| `CloseVault`, `SetTradingDelegate`, `RevokeTradingDelegate` | the files of those names |
| `WithdrawMoneyManagementFee` (`FeeDue`) | `withdraw_money_management_fee.rs` |
| `AdminPoolChange` | the `admin_*` handlers, as a vault sees them |
| `CreateOraclePool` ... `CloseOraclePool` | the oracle handlers |
| `Tick`, `PythUpdate` | external: the clock, the feeds |

The caller chooses the accounts, and the program leaves more choice than its clients use.

* `withdraw_token_fund.rs:118,188` and `withdraw_money_management_fee.rs:100` loop over groups of
  accounts and do not ask that each be of another asset. `legs` is therefore the number of
  groups for each mint. A group pays or charges what it finds, so `PayLegs` and the fee fold
  `PayGroup` and `ChargeGroup` over the groups of a mint, while `SliceValueUsd`, like pass 1,
  values every group at the balance before any of them. A redemption that passes an asset twice
  takes that slice twice, the second one of a smaller balance, and the fee counts it twice.
  `HoldingsPerShareNeverFall` and `FeeAccruesOnce` therefore speak of what each *group* leaves
  of the balance it finds: the whole promise for an asset passed once, a weaker one, with its
  power, for an asset passed n times. `PerformanceFeeWithinGain` measures the gain by the groups
  passed.
* `swap.rs:73-83` asks of the two oracles that they are approved and of this admin pool, not
  that they are of the mints traded. `Swap` takes both as arguments. `TradeLossBounded` is about
  trades that pass the oracles of the mints they move, as the app and the keepers do; of others
  the program bounds nothing.
* Anybody may send the vault tokens (`Donate`; `donated` is the history of it), of a mint that
  trades have not registered too. `HoldingsRegistered`, `RaiseIsUntouched` and
  `ClosedOnlyPaysOut` say what is true besides.

Abstractions. Jupiter is what the program observes of it: some amount leaves the measured
input account, some amount enters the measured output account; a route that also touches
another token account of the vault is not represented. `MaxGroups` bounds the groups of one
call, as a transaction's size does. Rent, SOL fees, account reallocation and events are left
out. A Pyth price that would be rejected, because it is too old or not positive, is one value,
`Unusable`.

### ShareLedger

The abstract specification: one holder's shares change at a time and the supply by as much,
neither issuing nor burning lowers the basis per share, the last share takes the whole basis
with it. `Vault` implements it with `supply <- total_shares`, `holding <- shares`,
`basis <- raised_amount_usd`. Every other step of a vault, a trade or a fee for instance, is a
stutter.

### AppClient

The transactions that `VaultDetail.tsx` and `ManageVault.tsx` build, each as an action of
`Vault` with the arguments the page passes. The deposit button opens the position in the same
transaction; the redeem button burns the whole position and passes the base token's accounts
only.

### Addresses, GeneratedClient, Parsers, Program, Pages

The composition of the web application, the client generated from the program's IDL and the
program, as far as accounts go. `Vault` and `AdminPool` say what an instruction does to amounts
and limits; these modules say whether the instruction that a page sends is one the program
takes at all.

An address is the tuple of its seeds (`Addresses`), so two addresses are equal when their seeds
are. A builder of `GeneratedClient` fills in its defaults (derived addresses, programs) and
lays out the accounts as the client's types list them, with their roles; `Parsers` reads them
back. No page calls a parser: they are for whoever reads the chain. `Program` lists the accounts
of all 29 instructions a second time, from the Rust structs, and reads them by position
(`Structs`, `Accounts`): the flags, the seeds, every `has_one` and `associated_token`
constraint, the checks on remaining accounts and the ownership of the oracle, price and token
accounts among them. `Effect` is what an accepted instruction leaves of accounts: those that
exist, who owns them, which mint, index and feed they name. Balances, clocks and limits are in
`Vault`; what they refuse is not refused here.

In `Pages` a `Click` fetches accounts and builds the transaction as the page does, throwing
where the page throws. Then anybody else's click may land (`Other`), before the pending
transaction lands as a whole or fails as a whole (`Land`), or is dropped. `ProposeTx` and
`FundTx` are callers beside the app: a stranger who proposes an oracle and one who sends the
vault a token. `KeeperTradeTx` is the keeper's trade. The nine limits of the admin page are one
click, and two vaults per manager are enough for a wrong index.

What a click carries, its page, its wallet and the mint, feed or address picked on the page, is
`ClicksAssumption`. `Runs` is a transaction's instructions one after the other on the chain that
the last one left, and fails where one of them fails. `PagesSpec` begins before the protocol is
set up, with no account at all; the scenes of `MCApp` begin further on, so that TLC reaches the
interesting transactions within its bounds.

`Ready` says when a page's transaction should be accepted (`AcceptedWhenReady`): the accounts a
user can be expected to have exist, and the oracles are approved. It names two things the pages
do not do. The demo trade does not create the vault's account for the token it buys
(`ManageVault.tsx:122`; the Jupiter trade does), and `ata()` (`lib/program.ts:67`) derives the
account of the classic token program whatever the mint's program is, so deposits and
redemptions of a vault with a Token-2022 base, and fee withdrawals from one, are refused; no
document promises those. Trades into a Token-2022 mint are promised, by `ManageVault.tsx:220`
and `app/README.md:119-120`, so `Ready` does not ask for a classic output. The code refuses
them: that is the run `catalog_trade`, and `AcceptedWhenReady` leaves these trades to it.

`PortfolioOf` is what the portfolio page lists: the positions whose `shares` are positive
(`portfolio/page.tsx:29`). Amounts are not part of these modules, so `PortfolioExact` holds for
whichever positions are funded.

`DependsOn` is what a click's transaction depends on;
`SpoiltOnlyByItsOwn` says nothing else can have it refused. Two clicks on the first deposit are
such a case: both open the position and the second is refused.

### AdminPool

The `AdminPool` account, the `MoneyManagerPool`s, the addresses and terms of the vaults, and
the oracle registry (EXTENDS `OraclePool`) with the keys that may change it. Each instruction
is an action that takes its signer: `CreateAdminPool`, the two halves of the hand-over,
`AdminModifyFee`, the nine that set a limit each (over `SetLimit`), `AdminUpdateOperator`,
`CreateMoneyManagerPool`, `CreateVault`, and `ProposeOracle` and `KeepOracle` around the
registry's own actions. `Vault` starts where `CreateVault` ends and sees the limits change at
any time (`AdminPoolChange`); that its fees stay fractions, which the payouts of `Vault` rest
on, is `FeesNeverExceedWhole` here. `nominator` is a history variable: who made the pending
nomination. A signature is a key of `Keys`; `Default` stands for every address that has none.

### Keeper

The documents are `lock` (`keeperLocks`) and `bots`. Each SQL statement or transaction is a
step, and so is each call to the chain. A Rust pass is `AcquireLock`, `LoadBots` (which takes
the snapshot), then per bot `RunBot`, `Evaluate`, `SendSwap` or `SendNothing`, `WriteBack`,
and at the end `FinishPass`. `AbortPass` is both a process that dies and an error that leaves
`run_once` by `?`: in either case the lock stays, under a holder string (`pid-time`) that no
later pass has. The TypeScript keeper runs the same steps without the lock, merges its fields
into the current document where the Rust keeper stores its clone, ignores the tombstone, and
survives a bot's error. The bots API creates, patches and deletes, DELETE in its three
statements.

Abstractions. What a strategy computes is reduced to whether it trades: a grid by the two
comparisons of `main.rs:528-543` with the step of its own document, floored and inclusive
(`AStepAway`), dca and rebalance at will. The API takes any `stepBps` when it creates a bot; with
zero the comparisons hold at an unchanged price and the bot trades in every pass, which is what
the code does. `SendNothing` is a trade of amount zero, after which a grid records the price all
the same; a pass within a step keeps the recorded price. Orders, run counts and timestamps are
written and never read back by a keeper. `acquire_lock` reads the clock just before its
transaction; the two are one step. Time is the time left, so the lock needs no absolute clock.

`lease`, `fill`, `alone` and `astray` are history variables: the time left of a pass's own lock;
the price of a bot's last trade; the process in whose pass no other has been in a pass; the bots
that a lost trade, an overlap or a tombstone made of an old document has put out of step with
their trades. Nothing is excused for good: a pass that is alone and trades takes its bot off
`astray`, and `GridMovesAStep` holds again from there.

### Users, Launches, SignIn

Each call of the document store is a step (`dbGet`, `dbPut`, `dbUpdate`, `dbDelete` run to
their end inside one SQLite transaction), and between two steps of a request any other request
may run: every call is awaited, and several server processes may share the file. A request may
end after any step, its writes done so far staying. What is written is computed from what was
read, as in the code, and merged into the document as it is at the write.

`earned`, `stale`, `marked`, `spoilt`, `sessions` and `issued` are history variables. A document
is stale, a launch spoilt, once it has been written from an outdated reading; from then on an
award or a vote may be lost, which is what the code does, and the sums are no longer claimed.
What is claimed all the same, always, is `PointsWereEarned`.

A nonce is called one-time (`nonce/route.ts:10`, `verify/route.ts:13`, `app/README.md:165`). The
code gives less: `verify/route.ts:27-29` looks it up and deletes it in two statements, and two
verifications that both look it up before either deletes it both hand out a session. The model
does as the code does. `SpentNonceIsRefused` says what is left: a verification that begins after
the nonce has signed someone in, or after its time, signs nobody in. The names and texts of a profile, the
leaderboard and the lists are left out, and so is the session cookie, a stateless signature.

### RateLimit, Indexer

`rateLimit` awaits nothing, so a request is one step. A bucket keeps what is left of its window
instead of `resetAt`. The history that the property is about is, for every client and age, how
many requests were admitted no longer ago than that. Counts of refused requests stop one above
the limit.

`Indexer` follows one vault: its transactions land at any time, successful trades, failed ones
and others. A pass reads the time, asks for the value and appends a snapshot under the bucket's
id, asks for the trades among the latest transactions (25 in the code, `PageLimit` here) and
puts them one by one. A pass may break off anywhere, a transaction may not be found. `seen` and
`gap` are history variables: how far the scans that ended well have come, and whether more than
a page ever lay between two of them. A transaction with two trades is recorded as one, since the
signature is the id (`indexer.ts:36`); the model has one trade per transaction.

## What the runs check

Passing runs:

| Run | Instance | Shows |
|---|---|---|
| `vault_trading` | 2 investors with 2 and 1 tokens, 2 mints, up to 2 groups a call, base price 1 or 2, a raise of 1 or of 0 (with a minimum that only the first investor meets, and half the yearly fee), clock 0..2; 55k states | the type invariant; `SharesConserved`, `NoBasisWithoutShares`, `RaiseIsUntouched`, `FeeClock`; `CostBasisNeverDiluted`, `HoldingsPerShareNeverFall`, `PerformanceFeeWithinGain`, `FeeAccruesOnce` |
| `vault_open` | 1 investor; oracles, feeds, admin limits, delegate and status all change at any time, trades are priced by any oracles, a stranger donates; raise of 0 or 1; 636k states | `HoldingsRegistered`, `TradeLossBounded`, `ClosedOnlyPaysOut`, and `Vault` implements `ShareLedger` |
| `vault_exit` | 2 investors with one token each, cooldown 0 or 1; 9k states | `EveryShareRedeemable` under fairness |
| `app` | five pages and three scripts in four scenes (a protocol set up from nothing; a classic, a wrapped and a Token-2022 base token, with 2 vaults, 4 keys, 4 mints, 2 feeds); 2 wallets and 2 requests for accounts; 2 launches and 2 votes; 2 nonces and 2 verifications; 1.5M states | `AcceptedWhenReady`, `SpoiltOnlyByItsOwn`, `ChainOK`, `PortfolioExact`, `ParsedBack`; `PointsWereEarned`, `PointsAddUp`, `ReferralsAreRecorded`; `VotesExact`; `SpentNonceIsRefused` |
| `store` | six scenes: 3 keys, of which 2 manage vaults, 2 vaults in all, three sets of limits, one of them refused; 3 Rust keepers over a bot with a step of zero; a Rust and a TypeScript keeper over a grid bot and three prices; the same with the owner's requests and two prices; 3 clients, 2 requests a window of 2 ticks; 3 transactions on pages of 2, 2 buckets, one fault; 348k states | `NominationIsTheAdmins`, `AdminCanSign`, `FeesNeverExceedWhole`, `VaultsNumbered` and the type invariant of the protocol's accounts; `LeaseExclusive`, `GridMovesAStep`, `LockRecovers` under fairness and the keepers' type invariant; `AtMostTwoWindows`, `RefusalsEnd`; `NothingMissed`, `HistoryIsKept`, `TradesArrive` |

Runs that end in a counterexample, each a disagreement between the code and what the
repository says of it:

| Run | What happens |
|---|---|
| `raise_trade_overlap` | `swap` accepts `now >= raise_end`, `deposit_token_fund` accepts `now <= raise_end`: in that second a vault trades and then takes a deposit. `app/README.md` says trading requires `now >` |
| `no_trades_sentinel` | with a raise period of 0, a trade in the second of creation stores the value that means "never traded"; the fee is then refused with NoTradesYet although the vault has traded |
| `app_redemption` | the redeem button burns the whole position and passes the base token's leg only; the investor's part of every traded asset stays behind |
| `create_page` | the create page numbers the vault by the protocol's counter (`create/page.tsx:64`), the program by the manager's (`create_vault.rs:43`): once another manager has a vault, a manager's vaults are all refused. `scripts/bootstrap.ts:235` does the same |
| `catalog_trade` | a catalog trade into a Token-2022 mint (the xStocks of `app/README.md:119-120`) is refused: the page passes as the vault's output account the one derived under the classic token program (`lib/program.ts:67`) and creates the one derived under the mint's own. `ManageVault.tsx:220` calls the trade Token-2022 aware |
| `keeper_overlap` | a pass longer than 120 s goes on trading the bot that the next keeper has begun to trade; the lock is not renewed and not looked at before a swap |
| `keeper_stale` | a bot deleted during a pass comes back, enabled, when the Rust keeper writes back the document it read at the start |

### Bounds, and why they are enough

Amounts of one to three tokens are enough for a floor division to lose something, for two
positions of different size, for a partial redemption and for a position to be emptied and
opened again. Two groups in a call are the least that repeat an asset; `vault_trading` passes the
app's group, that group twice, or one for every mint. Base prices 1 and 2 make a gain, a loss
and a second deposit at another price. The performance fee is the whole gain and the yearly fee
the whole balance, the most that the admin pool may allow, and the (scaled) year is one tick: on
such amounts both recipients' parts of both fees are then non-zero in some behaviour. The terms
with a raise of 0 take half the balance a year and leave the clock room for two fees, a period
apart; their minimum keeps the second investor out, without whom that is small enough. Basis
points are the program's 10,000. Two mints make a registered and an
unregistered leg and partial sets of legs. A clock of 0..2 passes the end of the raise, the
cooldown and a fee period. `MaxU64` is 1000, above anything the instances reach: the overflow
guards are in the actions, and the proofs treat them for every value. In `vault_open` the
limits switch between a generous pool and one of zero slippage and one asset, a trade is priced
by any two approved oracles, and a stranger donates one token, registered or not, at any time.

In `app` and `store` components that share no state each have a scene, chosen at the start,
in which the others stand still: interleaving them would multiply the states and show nothing.

In the admin scene three keys are an admin, a nominee and the key that is nominated in between;
two managers with two vaults between them tell a manager's counter from the protocol's. Of the
terms offered one set is allowed under the first limits, one under the second, one never.
Prices play no part there and the feeds show none. That one manager is never the operator, who
only keeps the registry, halves the states.

The scenes of the pages begin with two vaults of one manager so that an index can be wrong, and
with four mints so that a base token, an asset to trade, wrapped SOL and a Token-2022 mint meet
every page. Two feeds let an oracle change under a transaction. One transaction is pending at a
time while everybody else's land at once. Two wallets refer each other and two requests are
every pairwise overlap; 150 points are the welcome bonus with a referral or three referrals.
A nonce lives one tick of three.

The limiter's windows are two ticks so that requests of one window differ in age, three clients
meet a purge threshold of one bucket. The indexer's page is shorter than the history, and one
fault falls on any step.

For the keepers, two processes show every pairwise interleaving of passes, three a lock that
changes hands twice while an old pass still runs. A ttl of one tick separates holding and
expiring; `keeper_overlap` and `keeper_stale` have two. Steps are none or a half. Of the prices
2, 3 and 4, with a step of a half, 3 is within a step of a recorded 4, 2 is exactly a step below
4 and 3 exactly one above 2 (floored, inclusive), and 4 is beyond a step from 2: a grid moves,
stays and comes back. The price moves when a pass is about to read it and, in the scenes with a
grid, only a lock that a broken pass has left behind expires, since the overlap there is the
TypeScript keeper's.

### Fairness

`vault_exit` assumes weak fairness of the clock and strong fairness of each investor's
redemption of all their shares with all legs: an investor who wants out keeps sending it, and
a transaction that can succeed again and again is included in the end. Nothing is assumed of
the manager, the operator or the admin. The oracles stay approved and fresh in this run;
without that a redemption is blocked (`util.rs:43`), which `vault_open` includes among its
behaviours. The strong form is needed because another investor's step changes the slice
amounts, not because redeeming is ever forbidden once the cooldown is over.

`store` assumes weak fairness of the clock and of a keeper's `AcquireLock`: `main` calls
`run_once` again after its interval and after an error, and `docker-compose.yml` restarts a
keeper that died. Nothing is assumed of a pass, which may hang for ever. For `RefusalsEnd` only
time has to pass. For `TradesArrive` the indexer's loop goes on (`indexer.ts:48-55` catches
every error and sleeps), and requests fail finitely often (`MaxFaults`). No fairness is assumed
in `app`.

## What is proved

TLAPS proves the following for any number of investors, mints, groups, keepers, bots, wallets,
requests and transactions, any funds, prices, terms and limits that satisfy the assumptions
declared with the constants (`SecondsPerYearAssumption`, `OracleAssumption`,
`VaultAssumption`, `AdminPoolAssumption`, `KeeperAssumption`, `UsersAssumption`,
`LaunchesAssumption`, `SignInAssumption`, `RateLimitAssumption`, `IndexerAssumption`,
`ProgramAssumption`, `ClicksAssumption`). Those say what a configuration has to be: fees are
fractions, scales are positive, keys and statuses are distinct, wallets and the requests under
way are finitely many, a page is given mints, feeds and wallets where it asks for them.

* `Invariance`: `Spec => []IInv`. The properties of the vault are not inductive one by one.
  That no subtraction in a payout goes below zero needs `shares[i] <= total_shares`, which is
  `SharesConserved`; that `SharesConserved` survives the saturating subtractions of a burn
  needs the types; the basis of an emptied vault is zero because the last slice is exact,
  which needs `shares[i] = total_shares` there; the management fee needs the order of the
  clocks. `IInv` is their conjunction, with `FeesAreFractions` and `ClockOrder` added, and the
  proof has a lemma per instruction.
* From it `TypeCorrect`, `SharesAreConserved`, `NoResidualBasis`, `NothingUnregistered`,
  `FeesAreDue` (the last fee is not before a whole period after the raise, and of a vault that
  has traded) and, with an induction of its own on top, `RaiseTheorem`.
* The action properties `CostBasisTheorem`, `HoldingsTheorem` and `ClosedTheorem`, which rest
  on lemmas about the program's roundings (`ProRataBound`, `SharesForBound`, `LegSplit`).
* For repeated groups a fold over n groups is a chain of n + 1 balances, and one group's bound,
  carried along the chain, gives the power in `HoldingsTheorem` and in `FeeAccrualTheorem`,
  which says for every fee that it comes a whole period after the one before.
* `TradeLossTheorem` and `PerformanceFeeTheorem`, over `IInv` too. A trade changes the value of
  two mints at most, and each rounds down (`ValueAdd`), which is where the one micro-USD comes
  from; the guard of `swap` bounds the rest (`SlippageLoss`). A performance fee is one division
  per group: what it takes of a slice is worth less than its share of the slice's value and one
  unit (`LegFeeValue`), and added up over the groups and mints (`Sums_proofs`, `SumWithinFee`)
  that is at most the whole fee and one unit for every group.
* `LedgerRefinement`: `Vault` implements `ShareLedger`.
* `AdminInvariance`, and from it every property of the admin scene, for any number of keys,
  managers and vaults. Two facts have to be added: nothing is nominated before the account
  exists (or its creation could meet a nomination that is not the creator's), and the set of
  vaults is finite (or counting it would mean nothing).
* `KeeperInvariance`, and from it `KeeperTypeCorrect` and `LeaseTheorem`. The strengthening is
  `LeaseIsLock`: a pass whose lock has time left is the one the document names, and both have
  the same time left. An expired pass that releases late leaves a stranger's lock alone, which
  is what keeps it inductive.
* `GridTheorem`, from an invariant of its own, `GridInv`, over that one: while the pass of a
  process in `alone` goes on no other is in one; a pass runs a bot once; documents do not
  disappear; and for a bot that is not astray the document, the copy the lone pass works on and
  the bot's last trade are in step. It needs nothing to have gone well before: a bot comes off `astray` by the trade of one lone
  pass.
* `UsersInvariance`, and from it `EarnedTheorem` and `SumTheorem`. The strengthening,
  `Supported`, is about requests under way: the account a request has read grants the award it is
  about to make, and shows no more points than its wallet has earned by now. Earned points never
  fall, so an outdated reading is still covered; a reading that is not outdated keeps the sum.
  It needs no bound on the requests that overlap or fail.
* `ReferralsInvariance` and `ReferralsTheorem`, over that: a referrer's counted referrals and
  those of which only the referee's half is written are together no more than the accounts
  that name the referrer. A failure in between only lowers the second number.
* `VotesTheorem`: the invariant adds that a vote about to be written has read a launch that is
  there.
* `SignInInvariance` and `NonceTheorem`. A nonce that is there was never used; one whose
  signature is being checked is gone; whoever holds one found it unused and in time.
* `IndexInvariance`, and from it `NothingMissedTheorem`. The strengthening, `PageCovers`, is
  about the pass under way: what it has put and what it has yet to put cover the page that it
  scanned, unless the scan passed something over. `HistoryTheorem` follows from the steps alone.
* `LimitInvariance`, and from it `LimitTheorem`. The strengthening: of what was admitted since a
  bucket's window opened the bucket has counted every request, and no more than one window's
  worth lies before the opening. A bucket that was purged, or is replaced, had run out, so what
  it counted is all older than the window that begins.
* `PagesInvariance`, and from it `ChainOKTheorem`, `PortfolioExactTheorem` and
  `ParsedBackTheorem`, for any number of wallets, vaults, mints and feeds and whatever is clicked.
  The argument has three parts. What an accepted instruction leaves of a good chain is good,
  provided that the keys and feeds in its data are keys and feeds (`InstructionKeeps`); the rest
  is what `Program` checks. A transaction is a sequence of such instructions (`LandedKeeps`). And
  every page builds, from a good chain, only instructions of that kind, whose lists of accounts
  read back as the fields that went in (`PagesBuild`). A transaction under way was built from an
  earlier chain, so the invariant keeps what was true of it then. `ChainOK` is not inductive: it
  needs that a position is of its vault's mint (or two positions of one wallet in one vault
  would be counted once), that a token account's address is derived with its mint's program, that
  what a registry lists are mints, and that a registry is at the address of a vault and a manager's
  pool at that of a key. For `ParsedBack` the builders' and the parsers' lists are
  compared row by row (`RowsAgree`).
* `SpoiltOnlyByItsOwnTheorem`, in `Landing_proofs`, over that invariant and one fact more: what is
  under way was built by its page from an earlier chain, of which everything but the oracles is
  left (`SentFrom`). No instruction deletes an account but `close_oracle_pool`, and a vault's
  manager and a token account's owner are in their addresses, so whatever a constraint asks of
  them it still finds (`Kept`, `KeptConstraints`). What else an instruction asks is an oracle, a
  manager's pool, a position, the admin, the nominee or the operator: `Needs` says which, and an
  accepted instruction is accepted on any later chain that agrees there (`AcceptsStill`,
  `NeedsStill`). A transaction is run on both chains side by side: a token account that it opens
  may be there already on the later one, and the two are alike again (`OpeningStill`,
  `LandsStill`). The index of a new vault is the manager's own counter, so nobody else's vault
  takes its address. Last, page by page, what its instructions need is what `DependsOn` lists
  (`PageStill`).

`Sums` is a recursive function over a prefix of 1..n; its lemmas are proved by way of the least
counterexample (`LeastNat`). `Runs` and the fee page's list of mints are recursive functions as
well: that such a function has the value its definition gives is proved from a function that
satisfies the equation at every index.

## What is model-checked only

Liveness (`EveryShareRedeemable`, `LockRecovers`, `RefusalsEnd`, `TradesArrive`) is out of the
prover's reach, as is anything about `ENABLED`.

Of the properties of `Pages` one is left to TLC: `AcceptedWhenReady`. It says exactly when a
transaction is accepted, so a proof has to establish every check of every instruction of every
page, on a chain that the instructions before it have changed.

What no property of a kind can say, because the code does not give it: that a grid never repeats
a trade after a pass has died between its swap and its write, or beside another pass (the keeper
keeps no record that would prevent it); that a nonce signs in once; that a trade priced by
oracles of other mints is worth its input; that a redemption which repeats an asset leaves the
others all of theirs. The properties named above say what holds instead.

## What is not modelled

* `investor_count` is in `Vault` as the program keeps it and the pages show it, and no property is
  about it: no instruction reads it and no document says what it counts.
* Errors, events, account sizes, rent and SOL fees of the program; the encoding of instruction
  data and events in the generated client.
* The display: forms, charts, number formatting, the bots panel (its requests are in `Keeper`),
  and the valuation in `lib/nav.ts`, which formats what it reads.
* Session cookies, the same-origin check, uploads, metadata, faucet, health, the Jupiter proxy
  and RPC transport: stateless calls and outside services.
* The strategies' arithmetic beyond whether they trade, and the TypeScript keeper's file mode.
* The test suites and the end-to-end script, which served as a reference for which accounts an
  instruction is really given. `bootstrap.ts` is modelled for the two transactions it sends.

Of the two models of an oracle registry, `OraclePool` has the prices and `Program` the
addresses; of the two of a new vault, `AdminPool` has the limits and the counters and `Program`
the seeds. Nothing connects them by proof. What would come next: a `Vault` whose
`AdminPoolChange` is shown to cover the steps of `AdminPool`; and `AcceptedWhenReady`, page by
page, from the lemmas that say what a builder fills in.
