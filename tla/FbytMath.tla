------------------------------ MODULE FbytMath ------------------------------
(***************************************************************************)
(* The integer arithmetic of the fbyt_vault program: pricing, share        *)
(* issuance, pro-rata slices and fees.  Every division is the program's    *)
(* u128 floor division.  Amounts are token base units, values micro-USD.   *)
(***************************************************************************)
EXTENDS Integers

CONSTANT SecondsPerYear   \* constants.rs SECONDS_PER_YEAR, scaled down by the runs

ASSUME SecondsPerYearAssumption == SecondsPerYear \in Nat \ {0}

BasisPoints == 10000

\* u64::saturating_sub and u128::saturating_sub.
Monus(a, b) == IF a >= b THEN a - b ELSE 0

\* amount * price * 10^(6 + exponent - decimals): "up" and "down" stand for the
\* power of ten, one of them being 1.
OracleValueUsd(amount, price, up, down) == (amount * price * up) \div down

\* Mutant: every deposit mints at par.
SharesFor_AtPar(amount, amount_usd, total_shares, raised_amount_usd) == amount

\* The first deposit mints the raw amount; later ones are priced against the
\* tracked cost basis.
SharesFor(amount, amount_usd, total_shares, raised_amount_usd) ==
    IF total_shares = 0 \/ raised_amount_usd = 0
    THEN amount
    ELSE (amount_usd * total_shares) \div raised_amount_usd

\* Mutant: a slice is rounded up.
ProRata_RoundedUp(x, shares, of) == (x * shares + of - 1) \div of

\* The part of x that belongs to "shares" out of "of".
ProRata(x, shares, of) == (x * shares) \div of

BpsOf(x, bps) == (x * bps) \div BasisPoints

\* Mutant: charged on the whole value.
PerformanceFeeUsd_NoWatermark(value_usd, high_watermark_slice, performance_fee_bps) ==
    BpsOf(value_usd, performance_fee_bps)

\* Charged on the value above the cost-basis slice only.
PerformanceFeeUsd(value_usd, high_watermark_slice, performance_fee_bps) ==
    BpsOf(Monus(value_usd, high_watermark_slice), performance_fee_bps)

\* The fee in USD, taken in kind from one leg.
AssetFee(pro_rata_amount, performance_fee_usd, value_usd) ==
    IF value_usd > 0 THEN (pro_rata_amount * performance_fee_usd) \div value_usd ELSE 0

\* The management fee accrued on one balance.
AccruedFee(balance, yearly_fee_bps, elapsed_seconds) ==
    (balance * yearly_fee_bps * elapsed_seconds) \div (BasisPoints * SecondsPerYear)

\* Mutant: bounds what the vault gains instead of what it loses.
WithinSlippage_Swapped(input_value_usd, output_value_usd, max_slippage_bps) ==
    input_value_usd * BasisPoints >= output_value_usd * (BasisPoints - max_slippage_bps)

WithinSlippage(input_value_usd, output_value_usd, max_slippage_bps) ==
    output_value_usd * BasisPoints >= input_value_usd * (BasisPoints - max_slippage_bps)

=============================================================================
