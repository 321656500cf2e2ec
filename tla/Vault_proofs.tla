---------------------------- MODULE Vault_proofs ----------------------------
(***************************************************************************)
(* Theorems about module Vault, for every number of investors and mints,   *)
(* every price, term and admin limit.                                      *)
(*                                                                         *)
(* The inductive invariant IInv is needed because TypeOK alone is not      *)
(* inductive: that no balance becomes negative in withdraw_token_fund      *)
(* rests on s <= total_shares, hence on SharesConserved, and on the        *)
(* performance fee being at most 100%, which only create_vault checks.     *)
(***************************************************************************)
EXTENDS Vault, Sums_proofs

-----------------------------------------------------------------------------
(* What the program's floor divisions bound, for every amount: a slice is  *)
(* never more than its share, a fee never more than what it is taken from, *)
(* and payout and fee cuts of a leg add up to the slice they split.        *)

LEMMA DivFloor ==
  ASSUME NEW a \in Nat, NEW b \in Nat \ {0}
  PROVE  /\ a \div b \in Nat
         /\ (a \div b) * b <= a
         /\ a < (a \div b) * b + b
OBVIOUS

LEMMA MulNat ==
  ASSUME NEW a \in Nat, NEW b \in Nat
  PROVE  a * b \in Nat
OBVIOUS

LEMMA MulMono ==
  ASSUME NEW a \in Nat, NEW b \in Nat, NEW c \in Nat, a <= b
  PROVE  a * c \in Nat /\ b * c \in Nat /\ a * c <= b * c
OBVIOUS

\* Cancelling a factor, in the form the floor bounds need it.
LEMMA MulCancel ==
  ASSUME NEW a \in Nat, NEW b \in Nat, NEW c \in Nat \ {0}, a * c < b * c + c
  PROVE  a <= b
<1>1. SUFFICES ASSUME b + 1 <= a PROVE FALSE
  OBVIOUS
<1>2. (b + 1) * c <= a * c
  BY <1>1, MulMono
<1>3. (b + 1) * c = b * c + c
  OBVIOUS
<1>4. a * c \in Nat /\ b * c \in Nat
  OBVIOUS
<1>5. QED
  BY <1>2, <1>3, <1>4

\* A floor division by b of at most k times b is at most k, and exact on multiples.
LEMMA DivBound ==
  ASSUME NEW a \in Nat, NEW b \in Nat \ {0}, NEW k \in Nat, a <= k * b
  PROVE  a \div b <= k
<1> DEFINE q == a \div b
<1>1. q \in Nat /\ q * b <= a
  BY DivFloor
<1> HIDE DEF q
<1>2. q * b \in Nat /\ k * b \in Nat
  BY <1>1
<1>3. q * b < k * b + b
  BY <1>1, <1>2
<1>4. q <= k
  BY <1>1, <1>3, MulCancel
<1>5. QED
  BY <1>4 DEF q

LEMMA DivExact ==
  ASSUME NEW b \in Nat \ {0}, NEW k \in Nat
  PROVE  (k * b) \div b = k
<1> DEFINE q == (k * b) \div b
<1>1. k * b \in Nat
  OBVIOUS
<1>2. q \in Nat /\ k * b < q * b + b
  BY <1>1, DivFloor
<1>3. q <= k
  BY <1>1, DivBound
<1> HIDE DEF q
<1>4. k <= q
  BY <1>2, MulCancel
<1>5. q = k
  BY <1>2, <1>3, <1>4
<1>6. QED
  BY <1>5 DEF q

LEMMA DivMono ==
  ASSUME NEW x \in Nat, NEW y \in Nat, x <= y, NEW d \in Nat \ {0}
  PROVE  x \div d <= y \div d
<1> DEFINE p == x \div d
           q == y \div d
<1>1. p \in Nat /\ q \in Nat /\ p * d <= x /\ y < q * d + d
  BY DivFloor
<1> HIDE DEF p, q
<1>2. p * d < q * d + d
  BY <1>1
<1>3. p <= q
  BY <1>1, <1>2, MulCancel
<1>4. QED
  BY <1>3 DEF p, q

LEMMA MonusBound ==
  ASSUME NEW a \in Nat, NEW b \in Nat
  PROVE  /\ Monus(a, b) \in Nat
         /\ Monus(a, b) <= a
         /\ b <= a => Monus(a, b) = a - b
BY DEF Monus

-----------------------------------------------------------------------------
(* Prices, shares and slices.                                              *)

LEMMA OracleValueType ==
  ASSUME NEW amount \in Nat, NEW price \in Nat, NEW up \in Nat, NEW down \in Nat \ {0}
  PROVE  OracleValueUsd(amount, price, up, down) \in Nat
<1>1. amount * price \in Nat
  OBVIOUS
<1>2. amount * price * up \in Nat
  BY <1>1
<1>3. QED
  BY <1>2, DivFloor DEF OracleValueUsd

\* A deposit mints no more shares than its value buys at the current basis.
LEMMA SharesForBound ==
  ASSUME NEW amount \in Nat, NEW usd \in Nat, NEW total \in Nat, NEW raised \in Nat
  PROVE  /\ SharesFor(amount, usd, total, raised) \in Nat
         /\ total # 0 /\ raised # 0 =>
              SharesFor(amount, usd, total, raised) * raised <= usd * total
<1>1. CASE total = 0 \/ raised = 0
  BY <1>1 DEF SharesFor
<1>2. CASE total # 0 /\ raised # 0
  <2>1. usd * total \in Nat /\ raised \in Nat \ {0}
    BY <1>2
  <2>2. SharesFor(amount, usd, total, raised) = (usd * total) \div raised
    BY <1>2 DEF SharesFor
  <2>3. QED
    BY <2>1, <2>2, DivFloor
<1>3. QED
  BY <1>1, <1>2

\* A slice is at most its part of the whole, and the whole when everything is taken.
LEMMA ProRataBound ==
  ASSUME NEW x \in Nat, NEW of \in Nat \ {0}, NEW part \in 0..of
  PROVE  /\ ProRata(x, part, of) \in Nat
         /\ ProRata(x, part, of) * of <= x * part
         /\ ProRata(x, part, of) <= x
         /\ part = of => ProRata(x, part, of) = x
<1>1. part \in Nat /\ x * part \in Nat /\ x * of \in Nat
  OBVIOUS
<1>2. x * part <= x * of
  <2>1. part * x <= of * x
    BY <1>1, MulMono
  <2>2. part * x = x * part /\ of * x = x * of
    BY <1>1
  <2>3. QED
    BY <2>1, <2>2
<1>3. /\ ProRata(x, part, of) \in Nat
      /\ ProRata(x, part, of) * of <= x * part
  BY <1>1, DivFloor DEF ProRata
<1>4. ProRata(x, part, of) <= x
  BY <1>1, <1>2, DivBound DEF ProRata
<1>5. part = of => ProRata(x, part, of) = x
  BY DivExact DEF ProRata
<1>6. QED
  BY <1>3, <1>4, <1>5

-----------------------------------------------------------------------------
(* Fees.                                                                   *)

LEMMA BpsBound ==
  ASSUME NEW x \in Nat, NEW bps \in 0..BasisPoints
  PROVE  BpsOf(x, bps) \in Nat /\ BpsOf(x, bps) <= x
<1>1. BasisPoints \in Nat \ {0}
  BY DEF BasisPoints
<1> HIDE DEF BasisPoints
<1>2. BpsOf(x, bps) = ProRata(x, bps, BasisPoints)
  BY DEF BpsOf, ProRata
<1>3. QED
  BY <1>1, <1>2, ProRataBound

\* The performance fee is never more than the value it is charged on.
LEMMA PerformanceFeeBound ==
  ASSUME NEW value \in Nat, NEW mark \in Nat, NEW bps \in 0..BasisPoints
  PROVE  /\ PerformanceFeeUsd(value, mark, bps) \in Nat
         /\ PerformanceFeeUsd(value, mark, bps) <= value
<1> DEFINE gain == Monus(value, mark)
<1>1. gain \in Nat /\ gain <= value
  BY MonusBound
<1> HIDE DEF gain
<1>2. BpsOf(gain, bps) \in Nat /\ BpsOf(gain, bps) <= gain
  BY <1>1, BpsBound
<1>3. PerformanceFeeUsd(value, mark, bps) = BpsOf(gain, bps)
  BY DEF PerformanceFeeUsd, gain
<1>4. QED
  BY <1>1, <1>2, <1>3

\* Taken in kind from a slice, it is never more than the slice or its part of the fee.
LEMMA AssetFeeBound ==
  ASSUME NEW slice \in Nat, NEW value \in Nat, NEW fee \in Nat, fee <= value
  PROVE  /\ AssetFee(slice, fee, value) \in Nat
         /\ AssetFee(slice, fee, value) <= slice
         /\ AssetFee(slice, fee, value) * value <= slice * fee
<1>1. CASE value = 0
  <2>1. AssetFee(slice, fee, value) = 0 /\ slice * fee \in Nat
    BY <1>1 DEF AssetFee
  <2> QED
    BY <2>1
<1>2. CASE value # 0
  <2>1. value \in Nat \ {0} /\ fee \in 0..value
    BY <1>2
  <2>2. AssetFee(slice, fee, value) = ProRata(slice, fee, value)
    BY <1>2 DEF AssetFee, ProRata
  <2>3. QED
    BY <2>1, <2>2, ProRataBound
<1>3. QED
  BY <1>1, <1>2

\* However a fee is split between protocol and manager, payout and the two cuts are
\* together exactly the slice, the cuts exactly the fee.
LEMMA LegSplit ==
  ASSUME NEW slice \in Nat, NEW fee \in Nat, fee <= slice, NEW bps \in 0..BasisPoints
  PROVE  /\ BpsOf(fee, bps) \in Nat
         /\ Monus(fee, BpsOf(fee, bps)) \in Nat
         /\ Monus(slice, fee) \in Nat
         /\ Monus(slice, fee) + Monus(fee, BpsOf(fee, bps)) + BpsOf(fee, bps) = slice
         /\ Monus(fee, BpsOf(fee, bps)) + BpsOf(fee, bps) = fee
<1>1. BpsOf(fee, bps) \in Nat /\ BpsOf(fee, bps) <= fee
  BY BpsBound
<1>2. Monus(fee, BpsOf(fee, bps)) = fee - BpsOf(fee, bps) /\ Monus(slice, fee) = slice - fee
  BY <1>1, MonusBound
<1>3. QED
  BY <1>1, <1>2

-----------------------------------------------------------------------------
(* Values of parts.                                                        *)

LEMMA DivAdd ==
  ASSUME NEW x \in Nat, NEW y \in Nat, NEW d \in Nat \ {0}
  PROVE  /\ (x \div d) + (y \div d) <= (x + y) \div d
         /\ (x + y) \div d <= (x \div d) + (y \div d) + 1
<1> DEFINE p == x \div d
           q == y \div d
           r == (x + y) \div d
<1>1. /\ p \in Nat /\ p * d <= x /\ x < p * d + d
      /\ q \in Nat /\ q * d <= y /\ y < q * d + d
      /\ r \in Nat /\ r * d <= x + y /\ x + y < r * d + d
  BY DivFloor
<1> HIDE DEF p, q, r
<1>2. p * d \in Nat /\ q * d \in Nat /\ r * d \in Nat
  BY <1>1
<1>3. (p + q) * d = p * d + q * d /\ (p + q + 1) * d = p * d + q * d + d
  BY <1>1
<1>4. p + q <= r
  <2>1. (p + q) * d < r * d + d
    BY <1>1, <1>2, <1>3
  <2> QED
    BY <1>1, <2>1, MulCancel
<1>5. r <= p + q + 1
  <2>1. r * d < (p + q + 1) * d + d
    BY <1>1, <1>2, <1>3
  <2> QED
    BY <1>1, <2>1, MulCancel
<1> QED
  BY <1>4, <1>5 DEF p, q, r

\* Two amounts are worth as much apart as together, up to one micro-USD.
LEMMA ValueAdd ==
  ASSUME NEW a \in Nat, NEW b \in Nat, NEW price \in Nat, NEW up \in Nat, NEW down \in Nat \ {0}
  PROVE  LET V(x) == OracleValueUsd(x, price, up, down) IN
         V(a) + V(b) <= V(a + b) /\ V(a + b) <= V(a) + V(b) + 1
<1> DEFINE x == a * price * up
           y == b * price * up
<1>1. x \in Nat /\ y \in Nat
  <2>1. a * price \in Nat /\ b * price \in Nat
    OBVIOUS
  <2> QED
    BY <2>1
<1>2. (a + b) * price * up = x + y
  <2>1. (a + b) * price = a * price + b * price /\ a * price \in Nat /\ b * price \in Nat
    OBVIOUS
  <2>2. (a * price + b * price) * up = a * price * up + b * price * up
    BY <2>1
  <2> QED
    BY <2>1, <2>2
<1> HIDE DEF x, y
<1>3. (x \div down) + (y \div down) <= (x + y) \div down
      /\ (x + y) \div down <= (x \div down) + (y \div down) + 1
  BY <1>1, DivAdd
<1> QED
  BY <1>2, <1>3 DEF OracleValueUsd, x, y

\* What the slippage check leaves a trade to lose.
LEMMA SlippageLoss ==
  ASSUME NEW vin \in Nat, NEW vout \in Nat, NEW slip \in 0..BasisPoints,
         WithinSlippage(vin, vout, slip)
  PROVE  (vin - vout) * BasisPoints <= vin * slip
<1>1. slip \in Nat /\ BasisPoints = 10000
  BY DEF BasisPoints
<1>2. vin * (10000 - slip) = vin * 10000 - vin * slip /\ vin * slip \in Nat
  BY <1>1
<1>3. vout * 10000 >= vin * (10000 - slip)
  BY <1>1 DEF WithinSlippage
<1> QED
  BY <1>1, <1>2, <1>3

\* Fees of at most n times a slice's part of the fee are worth n times the slice's part at
\* most, with the slice priced one micro-USD higher for the rounding of its value.
LEMMA LegFeeValue ==
  ASSUME NEW slice \in Nat, NEW price \in Nat, NEW up \in Nat, NEW down \in Nat \ {0},
         NEW value \in Nat, NEW fee \in Nat, NEW n \in Nat,
         NEW x \in Nat, x * value <= n * (slice * fee)
  PROVE  OracleValueUsd(x, price, up, down) * value
           <= fee * (n * OracleValueUsd(slice, price, up, down)) + fee * n
<1> DEFINE c == price * up
           u == OracleValueUsd(x, price, up, down)
           v == OracleValueUsd(slice, price, up, down)
           k == fee * n
<1>1. c \in Nat /\ k \in Nat /\ slice * k \in Nat
  OBVIOUS
<1>2. x * value <= slice * k /\ x * value \in Nat
  <2>1. n * (slice * fee) = slice * k
    OBVIOUS
  <2> QED
    BY <2>1
<1>3. u \in Nat /\ u * down <= x * c
  <2>1. x * price * up = x * c /\ x * c \in Nat
    OBVIOUS
  <2> QED
    BY <1>1, <2>1, DivFloor DEF OracleValueUsd
<1>4. v \in Nat /\ slice * c <= (v + 1) * down
  <2>1. slice * price * up = slice * c /\ slice * c \in Nat
    OBVIOUS
  <2>2. v \in Nat /\ slice * c < v * down + down
    BY <1>1, <2>1, DivFloor DEF OracleValueUsd
  <2>3. (v + 1) * down = v * down + down
    BY <2>2
  <2> QED
    BY <2>2, <2>3
<1> HIDE DEF c, u, v, k
<1>5. u * down * value <= x * c * value
  BY <1>1, <1>3, MulMono
<1>6. x * value * c <= slice * k * c
  BY <1>1, <1>2, MulMono
<1>7. slice * c * k <= (v + 1) * down * k
  BY <1>1, <1>4, MulMono
<1>8. /\ u * down * value = u * value * down
      /\ x * c * value = x * value * c
      /\ slice * k * c = slice * c * k
      /\ (v + 1) * down * k = (k * (v + 1)) * down
  BY <1>1, <1>3, <1>4
<1>9. (u * value) * down <= (k * (v + 1)) * down
  BY <1>1, <1>3, <1>4, <1>5, <1>6, <1>7, <1>8
<1>10. u * value <= k * (v + 1)
  <2> DEFINE y == u * value
             z == k * (v + 1)
  <2>1. y \in Nat /\ z \in Nat /\ y * down < z * down + down
    BY <1>1, <1>3, <1>4, <1>9
  <2> HIDE DEF y, z
  <2>2. y <= z
    BY <2>1, MulCancel
  <2> QED
    BY <2>2 DEF y, z
<1>11. k * (v + 1) = fee * (n * v) + fee * n
  BY <1>4 DEF k
<1> QED
  BY <1>10, <1>11 DEF u, v

LEMMA AssetFeeIsZero ==
  ASSUME NEW slice \in Nat, NEW value \in Nat
  PROVE  AssetFee(slice, 0, value) = 0
BY DEF AssetFee

LEMMA ValueOfNothing ==
  ASSUME NEW price \in Nat, NEW up \in Nat, NEW down \in Nat \ {0}
  PROVE  OracleValueUsd(0, price, up, down) = 0
<1>1. 0 * price * up = 0
  OBVIOUS
<1> QED
  BY <1>1 DEF OracleValueUsd

\* From a bound scaled by the value of n groups to the fee itself, a micro-USD per group.
LEMMA SumWithinFee ==
  ASSUME NEW value \in Nat \ {0}, NEW fee \in 0..value, NEW n \in Nat, NEW sum \in Int,
         value * sum <= fee * value + fee * n
  PROVE  sum <= fee + n
<1>1. SUFFICES ASSUME fee + n + 1 <= sum PROVE FALSE
  OBVIOUS
<1>2. fee \in Nat /\ fee <= value
  OBVIOUS
<1>3. (fee + n + 1) * value <= sum * value
  BY <1>1, <1>2, MulMono
<1>4. (fee + n + 1) * value = fee * value + n * value + value /\ sum * value = value * sum
  BY <1>2
<1>5. fee * n <= n * value
  <2>1. fee * n <= value * n
    BY <1>2, MulMono
  <2> QED
    BY <2>1
<1>6. fee * value \in Nat /\ n * value \in Nat /\ fee * n \in Nat /\ value * sum \in Int
  BY <1>2
<1> QED
  BY <1>3, <1>4, <1>5, <1>6

-----------------------------------------------------------------------------
(* The invariant.                                                           *)

\* create_vault caps the performance fee by the admin's maximum, itself at most 100%.
FeesAreFractions == terms.performance_fee <= BasisPoints

\* The clock, the last fee and the last trade are ordered, and a trade leaves a trace.
ClockOrder ==
  /\ last_mm_fee_withdraw_at >= RaiseEnd
  /\ last_trade_at # 0 => asset_mints # {}

IInv ==
  /\ TypeOK
  /\ FeesAreFractions
  /\ SharesConserved
  /\ NoBasisWithoutShares
  /\ HoldingsRegistered
  /\ ClockOrder
  /\ FeeClock

-----------------------------------------------------------------------------
(* What TypeOK says of the values the handlers compute with.               *)

LEMMA ConstantTypes ==
  /\ N \in Nat \ {0} /\ MintCount \in Nat \ {0} /\ MaxTime \in Nat /\ MaxU64 \in Nat
  /\ Base \in Mints
  /\ \A f \in Feeds, m \in Mints : ScaleUp[f][m] \in Nat /\ ScaleDown[f][m] \in Nat \ {0}
  /\ MaxGroups \in Nat
  /\ \A i \in Investors : InvestorFunds[i] \in Nat
  /\ Active # Closed
BY VaultAssumption, OracleAssumption DEF Base, Mints, Investors

LEMMA TermTypes ==
  ASSUME TypeOK
  PROVE  /\ terms.raise_period \in Nat
         /\ terms.mm_withdraw_period \in Nat
         /\ terms.performance_fee \in Nat
         /\ terms.money_management_yearly_fee \in Nat
         /\ admin_pool.protocol_performance_fee \in 0..BasisPoints
         /\ admin_pool.protocol_money_management_fee \in 0..BasisPoints
         /\ RaiseEnd \in Nat
<1>1. terms \in TermsType /\ admin_pool \in AdminPoolType
  BY VaultAssumption DEF TypeOK
<1>2. QED
  BY <1>1 DEF TermsType, AdminPoolType, RaiseEnd

\* A handler that passes the oracle checks of a mint reads a natural price, and scales it
\* by a fraction.
LEMMA PriceType ==
  ASSUME TypeOK, NEW o \in Mints, HasPrice(o), NEW m \in Mints
  PROVE  /\ PriceOf(o) \in Nat
         /\ ScaleUp[oracle_pool[o].feed_id][m] \in Nat
         /\ ScaleDown[oracle_pool[o].feed_id][m] \in Nat \ {0}
<1>1. oracle_pool \in [Mints -> OraclePools \cup {NoOracle}] /\ quote \in [Feeds -> Prices \cup {Unusable}]
  BY DEF TypeOK, OracleTypeOK
<1>2. oracle_pool[o].exists
  BY DEF HasPrice, IsApproved, Exists
<1>3. oracle_pool[o] \in OraclePools
  BY <1>1, <1>2 DEF NoOracle
<1>4. oracle_pool[o].feed_id \in Feeds
  BY <1>3 DEF OraclePools
<1>5. Prices \cup {Unusable} \subseteq Nat
  BY OracleAssumption DEF Unusable
<1>6. PriceOf(o) \in Nat
  BY <1>1, <1>4, <1>5 DEF PriceOf
<1>7. QED
  BY <1>4, <1>6, ConstantTypes

LEMMA ValueByType ==
  ASSUME TypeOK, NEW o \in Mints, HasPrice(o), NEW m \in Mints, NEW amount \in Nat
  PROVE  ValueBy(o, m, amount) \in Nat
BY PriceType, OracleValueType DEF ValueBy

LEMMA ValueType ==
  ASSUME TypeOK, NEW m \in Mints, HasPrice(m), NEW amount \in Nat
  PROVE  ValueUsd(m, amount) \in Nat
BY ValueByType DEF ValueUsd

\* No investor has more shares than there are.
LEMMA SharesWithinTotal ==
  ASSUME TypeOK, SharesConserved, NEW i \in Investors
  PROVE  shares[i] \in Nat /\ shares[i] <= total_shares
BY ConstantTypes, SumToNat DEF TypeOK, SharesConserved, Investors

-----------------------------------------------------------------------------
(* withdraw_token_fund, group by group.                                    *)

\* The situation after the handler's checks.
Redeeming(i, s, legs) ==
  /\ i \in Investors
  /\ s \in 1..shares[i]
  /\ total_shares > 0
  /\ legs \in [Mints -> Nat]
  /\ \A m \in Mints : legs[m] > 0 => HasPrice(m)

LEMMA LegsType ==
  ASSUME NEW legs \in Legs
  PROVE  legs \in [Mints -> Nat]
BY ConstantTypes DEF Legs

LEMMA RedeemingArgs ==
  ASSUME TypeOK, NEW i \in Investors, NEW s, NEW legs \in Legs, WithdrawTokenFund(i, s, legs)
  PROVE  Redeeming(i, s, legs)
BY LegsType DEF WithdrawTokenFund, MayRedeem, Redeeming

LEMMA SliceBound ==
  ASSUME TypeOK, SharesConserved, NEW i, NEW s, NEW legs, Redeeming(i, s, legs), NEW m \in Mints
  PROVE  Slice(m, s) \in Nat
<1>1. vault_ata[m] \in Nat /\ total_shares \in Nat \ {0}
  BY DEF TypeOK, Redeeming
<1>2. s \in 0..total_shares
  BY SharesWithinTotal, <1>1 DEF Redeeming
<1>3. QED
  BY <1>1, <1>2, ProRataBound DEF Slice

\* The groups' values, one entry per mint.
SliceValues(legs, s) ==
  [m \in Mints |-> IF legs[m] = 0 THEN 0 ELSE legs[m] * ValueUsd(m, Slice(m, s))]

\* The values a redemption computes with; the fee is no more than the groups are worth.
LEMMA RedeemValues ==
  ASSUME TypeOK, SharesConserved, FeesAreFractions,
         NEW i, NEW s, NEW legs, Redeeming(i, s, legs)
  PROVE  LET value == SliceValueUsd(legs, s)
             fee == PerfFeeUsd(i, s, value)
         IN /\ SliceValues(legs, s) \in [Mints -> Nat]
            /\ value = SumTo(SliceValues(legs, s), MintCount)
            /\ value \in Nat
            /\ CostSlice(i, s) \in Nat
            /\ terms.performance_fee \in 0..BasisPoints
            /\ fee \in Nat /\ fee <= value
<1> DEFINE value == SliceValueUsd(legs, s)
           mark == CostSlice(i, s)
<1>1. legs \in [Mints -> Nat] /\ \A m \in Mints : legs[m] > 0 => HasPrice(m)
  BY DEF Redeeming
<1>2. SliceValues(legs, s) \in [Mints -> Nat] /\ value = SumTo(SliceValues(legs, s), MintCount)
  <2>1. ASSUME NEW m \in Mints, legs[m] # 0
        PROVE  legs[m] * ValueUsd(m, Slice(m, s)) \in Nat
    <3>1. legs[m] \in Nat /\ HasPrice(m)
      BY <1>1, <2>1
    <3>2. ValueUsd(m, Slice(m, s)) \in Nat
      BY <3>1, SliceBound, ValueType
    <3> QED
      BY <3>1, <3>2
  <2> HIDE DEF Mints
  <2>2. SliceValues(legs, s) \in [Mints -> Nat]
    BY <2>1 DEF SliceValues
  <2> QED
    BY <2>2 DEF SliceValueUsd, SliceValues
<1>3. value \in Nat
  BY <1>2, ConstantTypes, SumToNat DEF Mints
<1>4. mark \in Nat
  <2>1. hight_watermark[i] \in Nat /\ shares[i] \in Nat \ {0} /\ s \in 0..shares[i]
    BY DEF TypeOK, Redeeming
  <2>2. QED
    BY <2>1, ProRataBound DEF CostSlice
<1>5. terms.performance_fee \in 0..BasisPoints
  <2>1. terms.performance_fee \in Nat
    BY TermTypes
  <2>2. BasisPoints \in Nat
    BY DEF BasisPoints
  <2>3. QED
    BY <2>1, <2>2 DEF FeesAreFractions
<1> HIDE DEF value, mark
<1>6. PerfFeeUsd(i, s, value) \in Nat /\ PerfFeeUsd(i, s, value) <= value
  BY <1>3, <1>4, <1>5, PerformanceFeeBound DEF PerfFeeUsd, mark
<1>7. QED
  BY <1>2, <1>3, <1>4, <1>5, <1>6 DEF value, mark

\* What one group does to the balance it finds: payout and cuts come to a slice of it, the
\* cuts to the slice's part of the fee.
LEMMA PayGroupEffect ==
  ASSUME TypeOK, total_shares # 0, NEW s \in 0..total_shares,
         NEW fee \in Nat, NEW value \in Nat, fee <= value, NEW b \in Nat,
         NEW t \in Tally, t.balance \in Nat, t.balance <= b,
         t.paid \in Nat, t.manager \in Nat, t.protocol \in Nat
  PROVE  LET u == PayGroup(s, fee, value)[t]
             cut == (u.manager + u.protocol) - (t.manager + t.protocol)
         IN /\ u \in Tally /\ u.balance \in Nat /\ u.balance <= t.balance
            /\ u.balance * total_shares >= t.balance * (total_shares - s)
            /\ u.paid \in Nat /\ u.manager \in Nat /\ u.protocol \in Nat
            /\ cut \in Nat /\ cut * value <= ProRata(b, s, total_shares) * fee
            /\ fee = 0 => u.manager = t.manager /\ u.protocol = t.protocol
<1> DEFINE x == t.balance
           slice == ProRata(x, s, total_shares)
           whole == ProRata(b, s, total_shares)
           taken == AssetFee(slice, fee, value)
           protocol == ProtocolCut(taken)
           manager == ManagerCut(taken)
           paid == Payout(slice, taken)
<1>1. total_shares \in Nat \ {0} /\ x \in Nat /\ s \in Nat
  BY DEF TypeOK
<1>2. slice \in Nat /\ slice * total_shares <= x * s /\ slice <= x
  BY <1>1, ProRataBound
<1>3. whole \in Nat /\ slice <= whole
  <2>1. whole \in Nat
    BY <1>1, ProRataBound
  <2>2. x * s \in Nat /\ b * s \in Nat /\ x * s <= b * s
    BY <1>1, MulMono
  <2>3. slice <= whole
    BY <1>1, <2>2, DivMono DEF ProRata
  <2> QED
    BY <2>1, <2>3
<1> HIDE DEF slice, whole
<1>4. taken \in Nat /\ taken <= slice /\ taken * value <= slice * fee /\ (fee = 0 => taken = 0)
  BY <1>2, AssetFeeBound, AssetFeeIsZero
<1> HIDE DEF taken
<1>5. /\ protocol \in Nat /\ manager \in Nat /\ paid \in Nat
      /\ paid + manager + protocol = slice
      /\ manager + protocol = taken
  <2> DEFINE bps == admin_pool.protocol_performance_fee
  <2>1. bps \in 0..BasisPoints
    BY TermTypes
  <2>2. protocol = BpsOf(taken, bps) /\ manager = Monus(taken, protocol) /\ paid = Monus(slice, taken)
    BY DEF ProtocolCut, ManagerCut, Payout
  <2> HIDE DEF bps, protocol, manager, paid
  <2> QED
    BY <1>2, <1>4, <2>1, <2>2, LegSplit
<1>6. PayGroup(s, fee, value)[t] =
        [ balance |-> x - (paid + manager + protocol), paid |-> t.paid + paid,
          manager |-> t.manager + manager, protocol |-> t.protocol + protocol ]
  BY DEF PayGroup, slice, taken
<1> HIDE DEF protocol, manager, paid
<1> DEFINE u == PayGroup(s, fee, value)[t]
<1>7. /\ u.balance = x - slice /\ u.paid = t.paid + paid
      /\ u.manager = t.manager + manager /\ u.protocol = t.protocol + protocol
      /\ u \in Tally
  <2>1. t.paid + paid \in Int /\ t.manager + manager \in Int /\ t.protocol + protocol \in Int
        /\ x - (paid + manager + protocol) = x - slice /\ x - slice \in Int
    BY <1>1, <1>2, <1>5
  <2> HIDE DEF x
  <2> QED
    BY <1>6, <2>1 DEF Tally
<1> HIDE DEF u, x
<1>8. /\ u.balance \in Nat /\ u.balance <= x
      /\ u.paid \in Nat /\ u.manager \in Nat /\ u.protocol \in Nat
      /\ (u.manager + u.protocol) - (t.manager + t.protocol) = taken
  <2>1. x \in Nat /\ slice \in Nat /\ slice <= x /\ taken \in Nat /\ manager + protocol = taken
        /\ paid \in Nat /\ manager \in Nat /\ protocol \in Nat
    BY <1>1, <1>2, <1>4, <1>5
  <2>2. u.balance \in Nat /\ u.balance <= x
    BY <1>7, <2>1
  <2>3. u.paid \in Nat /\ u.manager \in Nat /\ u.protocol \in Nat
    BY <1>7, <2>1
  <2>4. (u.manager + u.protocol) - (t.manager + t.protocol) = manager + protocol
    BY <1>7, <2>1
  <2> QED
    BY <2>1, <2>2, <2>3, <2>4
<1>9. u.balance * total_shares >= x * (total_shares - s)
  <2>1. (x - slice) * total_shares = x * total_shares - slice * total_shares
        /\ x * (total_shares - s) = x * total_shares - x * s
        /\ x * total_shares \in Nat /\ slice * total_shares \in Nat /\ x * s \in Nat
    BY <1>1, <1>2
  <2> QED
    BY <1>2, <1>7, <2>1
<1>10. taken * value <= whole * fee
  <2>1. slice * fee <= whole * fee /\ slice * fee \in Nat /\ whole * fee \in Nat
    BY <1>2, <1>3, MulMono
  <2>2. taken * value \in Nat
    BY <1>4
  <2> QED
    BY <1>4, <2>1, <2>2
<1>11. fee = 0 => u.manager = t.manager /\ u.protocol = t.protocol
  BY <1>4, <1>5, <1>7
<1>12. QED
  BY <1>4, <1>7, <1>8, <1>9, <1>10, <1>11 DEF u, x, whole

\* Where n groups of a mint leave it.
PaidOut(m, s, n, fee, value) == Iterates(PayGroup(s, fee, value), Opening(m), n)[n]

\* n groups of a mint: each pays out of what is left, so the vault keeps the n-th power of
\* the remaining shares' part, and the cuts are n times the slice's part of the fee at most.
LEMMA PayLoop ==
  ASSUME TypeOK, total_shares # 0, NEW s \in 0..total_shares,
         NEW fee \in Nat, NEW value \in Nat, fee <= value, NEW m \in Mints, NEW n \in Nat
  PROVE  LET e == PaidOut(m, s, n, fee, value) IN
         /\ e.balance \in Nat /\ e.balance <= vault_ata[m]
         /\ e.balance * Power(total_shares, n) >= vault_ata[m] * Power(total_shares - s, n)
         /\ e.paid \in Nat /\ e.manager \in Nat /\ e.protocol \in Nat
         /\ (e.manager + e.protocol) * value <= n * (Slice(m, s) * fee)
         /\ fee = 0 => e.manager = 0 /\ e.protocol = 0
<1> DEFINE b == vault_ata[m]
           tt == total_shares
           step == PayGroup(s, fee, value)
           Good(k, t) ==
             /\ t \in Tally /\ t.balance \in Nat /\ t.balance <= b
             /\ t.balance * Power(tt, k) >= b * Power(tt - s, k)
             /\ t.paid \in Nat /\ t.manager \in Nat /\ t.protocol \in Nat
             /\ (t.manager + t.protocol) * value <= k * (Slice(m, s) * fee)
             /\ fee = 0 => t.manager = 0 /\ t.protocol = 0
           S == {p \in Nat \X Tally : Good(p[1], p[2])}
<1>1. b \in Nat /\ tt \in Nat \ {0} /\ tt - s \in Nat
  BY DEF TypeOK
<1>2. Slice(m, s) = ProRata(b, s, tt) /\ Slice(m, s) \in Nat /\ Slice(m, s) * fee \in Nat
  <2>1. Slice(m, s) = ProRata(b, s, tt)
    BY DEF Slice
  <2>2. Slice(m, s) \in Nat
    BY <1>1, <2>1, ProRataBound
  <2> QED
    BY <2>1, <2>2, MulNat
<1>3. <<0, Opening(m)>> \in S
  <2> DEFINE o == Opening(m)
  <2>1. o \in Tally /\ o.balance = b /\ o.paid = 0 /\ o.manager = 0 /\ o.protocol = 0
    BY <1>1 DEF Opening, Tally
  <2> HIDE DEF o
  <2>2. Power(tt, 0) = 1 /\ Power(tt - s, 0) = 1
    BY <1>1, PowerStep
  <2>3. o.balance * Power(tt, 0) >= b * Power(tt - s, 0)
    BY <1>1, <2>1, <2>2
  <2>4. (o.manager + o.protocol) * value <= 0 * (Slice(m, s) * fee)
    BY <1>2, <2>1
  <2> QED
    BY <1>1, <2>1, <2>3, <2>4 DEF o
<1>4. ASSUME NEW k \in Nat, NEW t, Good(k, t)
      PROVE  Good(k + 1, step[t])
  <2> DEFINE u == step[t]
             cut == (u.manager + u.protocol) - (t.manager + t.protocol)
             unit == Slice(m, s) * fee
  <2>1. /\ t \in Tally /\ t.balance \in Nat /\ t.balance <= b
        /\ t.balance * Power(tt, k) >= b * Power(tt - s, k)
        /\ t.paid \in Nat /\ t.manager \in Nat /\ t.protocol \in Nat
        /\ (t.manager + t.protocol) * value <= k * unit
        /\ fee = 0 => t.manager = 0 /\ t.protocol = 0
    BY <1>4
  <2>2. /\ u \in Tally /\ u.balance \in Nat /\ u.balance <= t.balance
        /\ u.balance * tt >= t.balance * (tt - s)
        /\ u.paid \in Nat /\ u.manager \in Nat /\ u.protocol \in Nat
        /\ cut \in Nat /\ cut * value <= unit
        /\ fee = 0 => u.manager = t.manager /\ u.protocol = t.protocol
    <3>1. LET v == PayGroup(s, fee, value)[t]
              d == (v.manager + v.protocol) - (t.manager + t.protocol)
          IN /\ v \in Tally /\ v.balance \in Nat /\ v.balance <= t.balance
             /\ v.balance * tt >= t.balance * (tt - s)
             /\ v.paid \in Nat /\ v.manager \in Nat /\ v.protocol \in Nat
             /\ d \in Nat /\ d * value <= ProRata(b, s, tt) * fee
             /\ fee = 0 => v.manager = t.manager /\ v.protocol = t.protocol
      <4>1. s \in 0..tt /\ tt # 0
        BY <1>1
      <4> HIDE DEF Good, S, step, unit
      <4> QED
        BY <1>1, <2>1, <4>1, PayGroupEffect
    <3> QED
      BY <1>2, <3>1
  <2> HIDE DEF u
  <2>3. u.balance * Power(tt, k + 1) >= b * Power(tt - s, k + 1)
    <3> DEFINE y == t.balance
               z == u.balance
               r == tt - s
    <3>1. y \in Nat /\ z \in Nat /\ r \in Nat /\ y * Power(tt, k) >= b * Power(r, k) /\ z * tt >= y * r
      BY <1>1, <2>1, <2>2
    <3> HIDE DEF y, z, r
    <3>2. z * Power(tt, k + 1) >= b * Power(r, k + 1)
      BY <1>1, <3>1, PowerKept
    <3> QED
      BY <3>2 DEF z, r
  <2>4. (u.manager + u.protocol) * value <= (k + 1) * unit
    <3> DEFINE a == t.manager + t.protocol
               c == u.manager + u.protocol
    <3>1. a \in Nat /\ c \in Nat /\ c - a \in Nat /\ a * value <= k * unit /\ (c - a) * value <= unit
      BY <2>1, <2>2
    <3>2. unit \in Nat
      BY <1>2
    <3> HIDE DEF a, c, unit
    <3>3. c * value = a * value + (c - a) * value /\ (k + 1) * unit = k * unit + unit
          /\ a * value \in Nat /\ (c - a) * value \in Nat /\ k * unit \in Nat
      BY <3>1, <3>2
    <3>4. c * value <= (k + 1) * unit
      BY <3>1, <3>2, <3>3
    <3> QED
      BY <3>4 DEF c, unit
  <2>5. u.balance <= b
    BY <1>1, <2>1, <2>2
  <2>6. fee = 0 => u.manager = 0 /\ u.protocol = 0
    BY <2>1, <2>2
  <2> QED
    BY <2>2, <2>3, <2>4, <2>5, <2>6 DEF u
<1> HIDE DEF step, b, tt
<1>5. \A k \in 0..(n - 1) : \A y : <<k, y>> \in S => <<k + 1, step[y]>> \in S
  <2> SUFFICES ASSUME NEW k \in 0..(n - 1), NEW y, <<k, y>> \in S
               PROVE  <<k + 1, step[y]>> \in S
    OBVIOUS
  <2>1. k \in Nat /\ y \in Tally /\ Good(k, y)
    OBVIOUS
  <2> HIDE DEF Good
  <2>2. Good(k + 1, step[y])
    BY <1>4, <2>1
  <2>3. step[y] \in Tally
    BY <2>2 DEF Good
  <2> QED
    BY <2>1, <2>2, <2>3
<1> HIDE DEF S
<1>6. <<n, Iterates(step, Opening(m), n)[n]>> \in S
  <2>1. \A k \in 0..n : <<k, Iterates(step, Opening(m), n)[k]>> \in S
    BY <1>3, <1>5, IteratesInvariant
  <2> QED
    BY <2>1
<1> DEFINE e == Iterates(step, Opening(m), n)[n]
<1> HIDE DEF e
<1>7. Good(n, e)
  BY <1>6 DEF S, e
<1>8. QED
  BY <1>7 DEF e, step, b, tt, PaidOut

\* What a redemption does, once the fee arithmetic is out of the way.
LEMMA RedeemEffect ==
  ASSUME TypeOK, SharesConserved, FeesAreFractions,
         NEW i \in Investors, NEW s, NEW legs \in Legs, WithdrawTokenFund(i, s, legs)
  PROVE  /\ s \in Nat \ {0} /\ s <= shares[i] /\ s <= total_shares
         /\ shares' = [shares EXCEPT ![i] = shares[i] - s]
         /\ total_shares' = total_shares - s
         /\ raised_amount_usd' \in Nat /\ raised_amount_usd' <= raised_amount_usd
         /\ (raised_amount_usd - raised_amount_usd') * total_shares <= raised_amount_usd * s
         /\ s = total_shares => raised_amount_usd' = 0
         /\ hight_watermark' \in [Investors -> Nat]
         /\ \A j \in Investors \ {i} : hight_watermark'[j] = hight_watermark[j]
         /\ s = shares[i] => hight_watermark'[i] = 0
<1>1. Redeeming(i, s, legs)
  BY RedeemingArgs
<1>2. /\ s \in Nat \ {0} /\ s <= shares[i]
      /\ shares[i] \in Nat /\ shares[i] <= total_shares /\ total_shares \in Nat \ {0}
      /\ raised_amount_usd \in Nat /\ hight_watermark[i] \in Nat
  BY <1>1, SharesWithinTotal DEF Redeeming, TypeOK
<1>3. s <= total_shares
  BY <1>2
<1>4. shares' = [shares EXCEPT ![i] = shares[i] - s] /\ total_shares' = total_shares - s
  <2>1. Monus(shares[i], s) = shares[i] - s /\ Monus(total_shares, s) = total_shares - s
    BY <1>2, <1>3, MonusBound
  <2>2. /\ shares' = [shares EXCEPT ![i] = Monus(shares[i], s)]
        /\ total_shares' = Monus(total_shares, s)
    BY DEF WithdrawTokenFund, BurnShares
  <2>3. QED
    BY <2>1, <2>2
<1>5. /\ raised_amount_usd' \in Nat /\ raised_amount_usd' <= raised_amount_usd
      /\ (raised_amount_usd - raised_amount_usd') * total_shares <= raised_amount_usd * s
      /\ s = total_shares => raised_amount_usd' = 0
  <2> DEFINE p == ProRata(raised_amount_usd, s, total_shares)
  <2>1. s \in 0..total_shares
    BY <1>2, <1>3
  <2>2. /\ p \in Nat /\ p * total_shares <= raised_amount_usd * s /\ p <= raised_amount_usd
        /\ s = total_shares => p = raised_amount_usd
    BY <1>2, <2>1, ProRataBound
  <2>3. raised_amount_usd' = Monus(raised_amount_usd, p)
    BY DEF WithdrawTokenFund, BurnShares
  <2> HIDE DEF p
  <2>4. raised_amount_usd' = raised_amount_usd - p
    BY <1>2, <2>2, <2>3, MonusBound
  <2>5. raised_amount_usd - raised_amount_usd' = p
    BY <1>2, <2>2, <2>4
  <2>6. QED
    BY <1>2, <2>2, <2>4, <2>5
<1>6. /\ hight_watermark' \in [Investors -> Nat]
      /\ \A j \in Investors \ {i} : hight_watermark'[j] = hight_watermark[j]
      /\ s = shares[i] => hight_watermark'[i] = 0
  <2> DEFINE c == CostSlice(i, s)
  <2>1. s \in 0..shares[i] /\ shares[i] \in Nat \ {0}
    BY <1>2
  <2>2. c \in Nat /\ c <= hight_watermark[i] /\ (s = shares[i] => c = hight_watermark[i])
    BY <1>2, <2>1, ProRataBound DEF CostSlice
  <2>3. hight_watermark' = [hight_watermark EXCEPT ![i] = Monus(hight_watermark[i], c)]
    BY DEF WithdrawTokenFund, BurnShares
  <2> HIDE DEF c
  <2>4. Monus(hight_watermark[i], c) = hight_watermark[i] - c
    BY <1>2, <2>2, MonusBound
  <2>5. hight_watermark \in [Investors -> Nat]
    BY DEF TypeOK
  <2>6. QED
    BY <1>2, <2>2, <2>3, <2>4, <2>5
<1>7. QED
  BY <1>2, <1>3, <1>4, <1>5, <1>6

\* ... and to the token accounts: the loop's bounds, for every mint.
LEMMA RedeemLegs ==
  ASSUME TypeOK, SharesConserved, FeesAreFractions,
         NEW i \in Investors, NEW s, NEW legs \in Legs, WithdrawTokenFund(i, s, legs)
  PROVE  LET value == SliceValueUsd(legs, s)
             fee == PerfFeeUsd(i, s, value)
             e(m) == PaidOut(m, s, legs[m], fee, value)
         IN /\ \A m \in Mints :
                 /\ e(m).balance \in Nat /\ e(m).balance <= vault_ata[m]
                 /\ e(m).balance * Power(total_shares, legs[m])
                      >= vault_ata[m] * Power(total_shares - s, legs[m])
                 /\ e(m).paid \in Nat /\ e(m).manager \in Nat /\ e(m).protocol \in Nat
                 /\ (e(m).manager + e(m).protocol) * value <= legs[m] * (Slice(m, s) * fee)
                 /\ fee = 0 => e(m).manager = 0 /\ e(m).protocol = 0
            /\ wallet' = [wallet EXCEPT ![i] = [m \in Mints |-> wallet[i][m] + e(m).paid]]
            /\ fee_ata' = [r \in Recipients |-> [m \in Mints |-> fee_ata[r][m] +
                             IF r = "manager" THEN e(m).manager ELSE e(m).protocol]]
            /\ vault_ata' = [m \in Mints |-> e(m).balance]
<1> DEFINE value == SliceValueUsd(legs, s)
           fee == PerfFeeUsd(i, s, value)
<1>1. Redeeming(i, s, legs)
  BY RedeemingArgs
<1>2. value \in Nat /\ fee \in Nat /\ fee <= value
  BY <1>1, RedeemValues
<1>3. legs \in [Mints -> Nat] /\ total_shares # 0 /\ s \in 0..total_shares
  BY <1>1, RedeemEffect DEF Redeeming, TypeOK
<1>4. PayLegs(i, s, legs, fee, value)
  BY DEF WithdrawTokenFund
<1> HIDE DEF value, fee
<1>5. \A m \in Mints :
        LET e == PaidOut(m, s, legs[m], fee, value) IN
        /\ e.balance \in Nat /\ e.balance <= vault_ata[m]
        /\ e.balance * Power(total_shares, legs[m]) >= vault_ata[m] * Power(total_shares - s, legs[m])
        /\ e.paid \in Nat /\ e.manager \in Nat /\ e.protocol \in Nat
        /\ (e.manager + e.protocol) * value <= legs[m] * (Slice(m, s) * fee)
        /\ fee = 0 => e.manager = 0 /\ e.protocol = 0
  <2> TAKE m \in Mints
  <2>1. legs[m] \in Nat
    BY <1>3
  <2> QED
    BY <1>2, <1>3, <2>1, PayLoop
<1>6. /\ wallet' = [wallet EXCEPT ![i] =
                      [m \in Mints |-> wallet[i][m] + PaidOut(m, s, legs[m], fee, value).paid]]
      /\ fee_ata' = [r \in Recipients |-> [m \in Mints |-> fee_ata[r][m] +
                       IF r = "manager" THEN PaidOut(m, s, legs[m], fee, value).manager
                                        ELSE PaidOut(m, s, legs[m], fee, value).protocol]]
      /\ vault_ata' = [m \in Mints |-> PaidOut(m, s, legs[m], fee, value).balance]
  BY <1>4 DEF PayLegs, PaidOut
<1>7. QED
  BY <1>5, <1>6 DEF value, fee

LEMMA RedeemTokens ==
  ASSUME TypeOK, SharesConserved, FeesAreFractions,
         NEW i \in Investors, NEW s, NEW legs \in Legs, WithdrawTokenFund(i, s, legs)
  PROVE  /\ wallet' \in [Investors -> [Mints -> Nat]]
         /\ fee_ata' \in [Recipients -> [Mints -> Nat]]
         /\ vault_ata' \in [Mints -> Nat]
         /\ \A m \in Mints :
              /\ vault_ata'[m] <= vault_ata[m]
              /\ vault_ata'[m] * Power(total_shares, legs[m])
                   >= vault_ata[m] * Power(total_shares - s, legs[m])
<1> DEFINE value == SliceValueUsd(legs, s)
           fee == PerfFeeUsd(i, s, value)
           e(m) == PaidOut(m, s, legs[m], fee, value)
<1>1. /\ \A m \in Mints :
            /\ e(m).balance \in Nat /\ e(m).balance <= vault_ata[m]
            /\ e(m).balance * Power(total_shares, legs[m])
                 >= vault_ata[m] * Power(total_shares - s, legs[m])
            /\ e(m).paid \in Nat /\ e(m).manager \in Nat /\ e(m).protocol \in Nat
      /\ wallet' = [wallet EXCEPT ![i] = [m \in Mints |-> wallet[i][m] + e(m).paid]]
      /\ fee_ata' = [r \in Recipients |-> [m \in Mints |-> fee_ata[r][m] +
                       IF r = "manager" THEN e(m).manager ELSE e(m).protocol]]
      /\ vault_ata' = [m \in Mints |-> e(m).balance]
  BY RedeemLegs
<1> HIDE DEF e
<1>2. wallet \in [Investors -> [Mints -> Nat]] /\ fee_ata \in [Recipients -> [Mints -> Nat]]
  BY DEF TypeOK
<1>3. wallet' \in [Investors -> [Mints -> Nat]]
  <2>1. [m \in Mints |-> wallet[i][m] + e(m).paid] \in [Mints -> Nat]
    BY <1>1, <1>2
  <2> QED
    BY <1>1, <1>2, <2>1
<1>4. fee_ata' \in [Recipients -> [Mints -> Nat]]
  <2>1. \A r \in Recipients, m \in Mints : fee_ata[r][m] \in Nat
    BY <1>2
  <2> QED
    BY <1>1, <2>1
<1>5. vault_ata' \in [Mints -> Nat] /\ \A m \in Mints : vault_ata'[m] = e(m).balance
  BY <1>1
<1>6. QED
  BY <1>1, <1>3, <1>4, <1>5

-----------------------------------------------------------------------------
(* The invariant, action by action.                                        *)

LEMMA InitInv == Init => IInv
<1> SUFFICES ASSUME Init PROVE IInv
  OBVIOUS
<1>2. /\ terms \in TermsType /\ admin_pool \in AdminPoolType
      /\ terms.performance_fee <= admin_pool.performance_fee_max
  BY VaultAssumption DEF Init, AcceptedTerms
<1>3. /\ terms.raise_period \in Nat /\ terms.performance_fee \in Nat
      /\ admin_pool.performance_fee_max \in 0..BasisPoints
  BY <1>2 DEF TermsType, AdminPoolType
<1>4. TypeOK
  <2>1. market_ata \in [Mints -> Nat]
    BY VaultAssumption DEF Init
  <2>2. wallet \in [Investors -> [Mints -> Nat]]
    <3>1. \A i \in Investors : InvestorFunds[i] \in Nat
      BY ConstantTypes
    <3>2. QED
      BY <3>1 DEF Init
  <2>3. fee_ata \in [Recipients -> [Mints -> Nat]] /\ vault_ata \in [Mints -> Nat]
    BY DEF Init
  <2>7. donated \in [Mints -> Nat]
    BY DEF Init
  <2>4. now \in 0..MaxTime /\ last_mm_fee_withdraw_at \in Nat
    BY <1>3, ConstantTypes DEF Init, RaiseEnd
  <2>5. OracleTypeOK
    BY DEF Init, OracleTypeOK
  <2>6. QED
    BY <2>1, <2>2, <2>3, <2>4, <2>5, <2>7 DEF Init, TypeOK
<1>5. FeesAreFractions
  <2>1. BasisPoints \in Nat
    BY DEF BasisPoints
  <2>2. QED
    BY <1>2, <1>3, <2>1 DEF FeesAreFractions
<1>6. SharesConserved
  <2>1. shares = [i \in 1..N |-> 0] /\ total_shares = 0
    BY DEF Init, Investors
  <2>2. shares \in [1..N -> Int] /\ \A i \in 1..N : shares[i] = 0
    BY <2>1
  <2>3. SumTo(shares, N) = 0
    BY <2>2, ConstantTypes, SumToZero
  <2>4. QED
    BY <2>1, <2>3 DEF SharesConserved
<1>7. NoBasisWithoutShares /\ HoldingsRegistered
  BY DEF Init, NoBasisWithoutShares, HoldingsRegistered
<1>8. ClockOrder /\ FeeClock
  BY <1>3 DEF Init, ClockOrder, FeeClock, RaiseEnd
<1>9. QED
  BY <1>4, <1>5, <1>6, <1>7, <1>8 DEF IInv

\* SharesConserved moves with one investor's shares.
LEMMA SharesMove ==
  ASSUME TypeOK, SharesConserved, NEW i \in Investors, NEW v \in Int,
         shares' = [shares EXCEPT ![i] = v],
         total_shares' = total_shares + (v - shares[i])
  PROVE  SharesConserved'
<1>1. N \in Nat /\ shares \in [1..N -> Int] /\ i \in 1..N
  BY ConstantTypes DEF TypeOK, Investors
<1>2. SumTo([shares EXCEPT ![i] = v], N) = SumTo(shares, N) + (v - shares[i])
  BY <1>1, SumToUpdate
<1>3. QED
  BY <1>2 DEF SharesConserved

LEMMA DepositEffect ==
  ASSUME IInv, NEW i \in Investors, NEW amount \in Nat, DepositTokenFund(i, amount)
  PROVE  \E minted \in Nat \ {0}, amount_usd \in Nat :
           /\ shares' = [shares EXCEPT ![i] = shares[i] + minted]
           /\ total_shares' = total_shares + minted
           /\ raised_amount_usd' = raised_amount_usd + amount_usd
           /\ hight_watermark' = [hight_watermark EXCEPT ![i] = hight_watermark[i] + amount_usd]
           /\ minted * raised_amount_usd <= amount_usd * total_shares
<1> DEFINE amount_usd == ValueUsd(Base, amount)
           minted == SharesFor(amount, amount_usd, total_shares, raised_amount_usd)
<1>1. TypeOK /\ NoBasisWithoutShares
  BY DEF IInv
<1>2. total_shares \in Nat /\ raised_amount_usd \in Nat /\ HasPrice(Base) /\ Base \in Mints
  BY <1>1, ConstantTypes DEF TypeOK, DepositTokenFund, AcceptDeposit, MintShares
<1>3. amount_usd \in Nat
  BY <1>1, <1>2, ValueType
<1>4. /\ minted > 0
      /\ shares' = [shares EXCEPT ![i] = shares[i] + minted]
      /\ total_shares' = total_shares + minted
      /\ raised_amount_usd' = raised_amount_usd + amount_usd
      /\ hight_watermark' = [hight_watermark EXCEPT ![i] = hight_watermark[i] + amount_usd]
  BY DEF DepositTokenFund, AcceptDeposit, MintShares
<1> HIDE DEF amount_usd
<1>5. /\ minted \in Nat
      /\ total_shares # 0 /\ raised_amount_usd # 0 =>
           minted * raised_amount_usd <= amount_usd * total_shares
  BY <1>2, <1>3, SharesForBound
<1> HIDE DEF minted
<1>6. minted * raised_amount_usd <= amount_usd * total_shares
  <2>1. CASE raised_amount_usd = 0
    <3>1. minted * raised_amount_usd = 0 /\ amount_usd * total_shares \in Nat
      BY <1>2, <1>3, <1>5, <2>1
    <3>2. QED
      BY <3>1
  <2>2. CASE raised_amount_usd # 0
    <3>1. total_shares # 0
      BY <1>1, <2>2 DEF NoBasisWithoutShares
    <3>2. QED
      BY <1>5, <2>2, <3>1
  <2>3. QED
    BY <2>1, <2>2
<1>7. minted \in Nat \ {0}
  BY <1>4, <1>5
<1>8. QED
  BY <1>3, <1>4, <1>6, <1>7

LEMMA DepositInv ==
  ASSUME IInv, NEW i \in Investors, NEW amount \in Nat, DepositTokenFund(i, amount)
  PROVE  IInv'
<1>1. PICK minted \in Nat \ {0}, amount_usd \in Nat :
        /\ shares' = [shares EXCEPT ![i] = shares[i] + minted]
        /\ total_shares' = total_shares + minted
        /\ raised_amount_usd' = raised_amount_usd + amount_usd
        /\ hight_watermark' = [hight_watermark EXCEPT ![i] = hight_watermark[i] + amount_usd]
  BY DepositEffect
<1>2. /\ UNCHANGED <<now, admin_pool, terms, vault_pool_status, last_mm_fee_withdraw_at>>
      /\ UNCHANGED <<trading_delegate, investor_count, opened, fee_ata, market_ata, donated>>
      /\ UNCHANGED <<last_trade_at, asset_mints, oracle_pool, quote>>
  BY DEF DepositTokenFund, AcceptDeposit, MintShares, tradeVars, oracleVars
<1>3. Base \in Mints
  BY ConstantTypes
<1>4. TypeOK'
  <2>1. /\ shares' \in [Investors -> Nat] /\ hight_watermark' \in [Investors -> Nat]
        /\ total_shares' \in Nat /\ raised_amount_usd' \in Nat
    BY <1>1 DEF IInv, TypeOK
  <2>2. wallet' \in [Investors -> [Mints -> Nat]]
    <3>1. wallet \in [Investors -> [Mints -> Nat]] /\ wallet[i][Base] >= amount
      BY DEF IInv, TypeOK, DepositTokenFund, AcceptDeposit, MintShares
    <3>2. wallet' = [wallet EXCEPT ![i] = [wallet[i] EXCEPT ![Base] = wallet[i][Base] - amount]]
      BY <3>1 DEF DepositTokenFund, AcceptDeposit, MintShares
    <3>3. wallet[i][Base] - amount \in Nat /\ wallet[i] \in [Mints -> Nat]
      BY <1>3, <3>1
    <3>4. [wallet[i] EXCEPT ![Base] = wallet[i][Base] - amount] \in [Mints -> Nat]
      BY <3>3
    <3>5. QED
      BY <3>1, <3>2, <3>4
  <2>3. vault_ata' \in [Mints -> Nat]
    BY <1>3 DEF IInv, TypeOK, DepositTokenFund, AcceptDeposit, MintShares
  <2>4. QED
    BY <1>2, <2>1, <2>2, <2>3 DEF IInv, TypeOK, OracleTypeOK
<1>5. FeesAreFractions' /\ ClockOrder' /\ FeeClock'
  BY <1>2 DEF IInv, FeesAreFractions, ClockOrder, FeeClock, RaiseEnd
<1>6. SharesConserved'
  <2>1. shares[i] \in Nat /\ total_shares \in Nat /\ TypeOK /\ SharesConserved
    BY DEF IInv, TypeOK
  <2>2. total_shares' = total_shares + ((shares[i] + minted) - shares[i])
    BY <1>1, <2>1
  <2>3. shares[i] + minted \in Int
    BY <1>1, <2>1
  <2>4. QED
    BY <1>1, <2>1, <2>2, <2>3, SharesMove
<1>7. NoBasisWithoutShares'
  <2>1. /\ total_shares' # 0 /\ shares'[i] # 0
        /\ \A j \in Investors \ {i} : /\ shares'[j] = shares[j]
                                      /\ hight_watermark'[j] = hight_watermark[j]
    BY <1>1 DEF IInv, TypeOK
  <2>2. QED
    BY <2>1 DEF IInv, NoBasisWithoutShares
<1>8. HoldingsRegistered'
  <2>1. \A m \in Mints \ {Base} : vault_ata'[m] = vault_ata[m]
    BY DEF IInv, TypeOK, DepositTokenFund, AcceptDeposit, MintShares
  <2>2. QED
    BY <1>2, <2>1 DEF IInv, HoldingsRegistered, Registered
<1>9. QED
  BY <1>4, <1>5, <1>6, <1>7, <1>8 DEF IInv

LEMMA WithdrawInv ==
  ASSUME IInv, NEW i \in Investors, NEW s, NEW legs \in Legs, WithdrawTokenFund(i, s, legs)
  PROVE  IInv'
<1>1. TypeOK /\ SharesConserved /\ FeesAreFractions
  BY DEF IInv
<1>2. /\ s \in Nat \ {0} /\ s <= shares[i] /\ s <= total_shares
      /\ shares' = [shares EXCEPT ![i] = shares[i] - s]
      /\ total_shares' = total_shares - s
      /\ raised_amount_usd' \in Nat
      /\ s = total_shares => raised_amount_usd' = 0
      /\ hight_watermark' \in [Investors -> Nat]
      /\ \A j \in Investors \ {i} : hight_watermark'[j] = hight_watermark[j]
      /\ s = shares[i] => hight_watermark'[i] = 0
  BY <1>1, RedeemEffect
<1>3. /\ wallet' \in [Investors -> [Mints -> Nat]]
      /\ fee_ata' \in [Recipients -> [Mints -> Nat]]
      /\ vault_ata' \in [Mints -> Nat]
      /\ \A m \in Mints : vault_ata'[m] <= vault_ata[m]
  BY <1>1, RedeemTokens
<1>4. /\ UNCHANGED <<now, admin_pool, terms, vault_pool_status, last_mm_fee_withdraw_at>>
      /\ UNCHANGED <<trading_delegate, opened, market_ata, donated>>
      /\ UNCHANGED <<last_trade_at, asset_mints, oracle_pool, quote>>
  BY DEF WithdrawTokenFund, BurnShares, tradeVars, oracleVars
<1>5. /\ shares \in [Investors -> Nat] /\ total_shares \in Nat
      /\ shares[i] \in Nat /\ investor_count \in Nat /\ vault_ata \in [Mints -> Nat]
  BY <1>1 DEF TypeOK
<1>6. TypeOK'
  <2>1. total_shares' \in Nat /\ shares[i] - s \in Nat
    BY <1>2, <1>5
  <2>2. shares' \in [Investors -> Nat]
    BY <1>2, <1>5, <2>1
  <2>3. investor_count' \in Nat
    <3>1. Monus(investor_count, 1) \in Nat
      BY <1>5, MonusBound
    <3>2. QED
      BY <1>5, <3>1 DEF WithdrawTokenFund, BurnShares
  <2>4. QED
    BY <1>1, <1>2, <1>3, <1>4, <2>1, <2>2, <2>3 DEF TypeOK, OracleTypeOK
<1>7. FeesAreFractions' /\ ClockOrder' /\ FeeClock'
  BY <1>4 DEF IInv, FeesAreFractions, ClockOrder, FeeClock, RaiseEnd
<1>8. SharesConserved'
  <2>1. shares[i] - s \in Int
    BY <1>2, <1>5
  <2>2. total_shares' = total_shares + ((shares[i] - s) - shares[i])
    BY <1>2, <1>5
  <2>3. QED
    BY <1>1, <1>2, <2>1, <2>2, SharesMove
<1>9. NoBasisWithoutShares'
  <2>1. total_shares' = 0 => raised_amount_usd' = 0
    BY <1>2, <1>5
  <2>2. shares'[i] = 0 => hight_watermark'[i] = 0
    <3>1. shares'[i] = shares[i] - s
      BY <1>2, <1>5
    <3>2. QED
      BY <1>2, <1>5, <3>1
  <2>3. \A j \in Investors \ {i} : shares'[j] = 0 => hight_watermark'[j] = 0
    <3>1. \A j \in Investors \ {i} : shares'[j] = shares[j]
      BY <1>2, <1>5
    <3>2. QED
      BY <1>2, <3>1 DEF IInv, NoBasisWithoutShares
  <2>4. QED
    BY <2>1, <2>2, <2>3 DEF NoBasisWithoutShares
<1>10. HoldingsRegistered'
  <2>1. \A m \in Mints : vault_ata'[m] > 0 => vault_ata[m] > 0
    BY <1>3, <1>5
  <2>2. QED
    BY <1>4, <2>1 DEF IInv, HoldingsRegistered, Registered
<1>11. QED
  BY <1>6, <1>7, <1>8, <1>9, <1>10 DEF IInv

LEMMA SwapInv ==
  ASSUME IInv, NEW trader, NEW from \in Mints, NEW to \in Mints,
         NEW o_from, NEW o_to, NEW input \in Nat, NEW output \in Nat,
         Swap(trader, from, to, o_from, o_to, input, output)
  PROVE  IInv'
<1>1. /\ UNCHANGED <<now, admin_pool, terms, vault_pool_status, last_mm_fee_withdraw_at>>
      /\ UNCHANGED <<trading_delegate, wallet, fee_ata, donated, oracle_pool, quote>>
      /\ UNCHANGED <<raised_amount_usd, total_shares, opened, shares, hight_watermark, investor_count>>
  BY DEF Swap, MayTrade, Unregistered, shareVars, oracleVars
<1>2. /\ asset_mints' = asset_mints \cup {from, to}
      /\ last_trade_at' = now
  BY DEF Swap, MayTrade, Unregistered
<1>3. vault_ata \in [Mints -> Nat] /\ market_ata \in [Mints -> Nat] /\ now \in Nat
  BY ConstantTypes DEF IInv, TypeOK
<1>4. TypeOK'
  <2>1. vault_ata' \in [Mints -> Nat] /\ market_ata' \in [Mints -> Nat]
    <3>1. /\ vault_ata[from] - input \in Nat /\ market_ata[to] - output \in Nat
          /\ vault_ata[to] + output \in Nat /\ market_ata[from] + input \in Nat
          /\ from # to
      BY <1>3 DEF Swap, MayTrade, Unregistered
    <3>2. /\ vault_ata' = [vault_ata EXCEPT ![from] = vault_ata[from] - input,
                                            ![to] = vault_ata[to] + output]
          /\ market_ata' = [market_ata EXCEPT ![from] = market_ata[from] + input,
                                              ![to] = market_ata[to] - output]
      BY <1>3, <3>1 DEF Swap, MayTrade, Unregistered
    <3>3. QED
      BY <1>3, <3>1, <3>2
  <2>2. asset_mints' \subseteq Mints
    BY <1>2 DEF IInv, TypeOK
  <2>3. QED
    BY <1>1, <1>2, <1>3, <2>1, <2>2 DEF IInv, TypeOK, OracleTypeOK
<1>5. FeesAreFractions' /\ SharesConserved' /\ NoBasisWithoutShares'
  BY <1>1 DEF IInv, FeesAreFractions, SharesConserved, NoBasisWithoutShares
<1>6. HoldingsRegistered'
  <2>1. \A m \in Mints \ {from, to} : vault_ata'[m] = vault_ata[m]
    BY <1>3 DEF Swap, MayTrade, Unregistered
  <2>2. QED
    BY <1>1, <1>2, <2>1 DEF IInv, HoldingsRegistered, Registered
<1>7. ClockOrder' /\ FeeClock'
  BY <1>1, <1>2 DEF IInv, ClockOrder, FeeClock, RaiseEnd
<1>8. QED
  BY <1>4, <1>5, <1>6, <1>7 DEF IInv

\* What one group of a fee withdrawal does to the balance it finds.
LEMMA ChargeGroupEffect ==
  ASSUME TypeOK, last_mm_fee_withdraw_at <= now,
         NEW t \in Tally, t.balance \in Nat, t.manager \in Nat, t.protocol \in Nat,
         ChargeGroup[t].balance >= 0
  PROVE  LET u == ChargeGroup[t]
             elapsed == now - last_mm_fee_withdraw_at
             whole == BasisPoints * SecondsPerYear
             kept == Monus(whole, terms.money_management_yearly_fee * elapsed)
         IN /\ u \in Tally /\ u.balance \in Nat /\ u.balance <= t.balance
            /\ u.manager \in Nat /\ u.protocol \in Nat
            /\ u.balance * whole >= t.balance * kept
<1> DEFINE x == t.balance
           elapsed == now - last_mm_fee_withdraw_at
           rate == terms.money_management_yearly_fee
           bps == admin_pool.protocol_money_management_fee
           whole == BasisPoints * SecondsPerYear
           spent == rate * elapsed
           kept == Monus(whole, spent)
           fee == MMFee(x)
           protocol == MMAdminFee(x)
           manager == MMManagerFee(x)
           u == ChargeGroup[t]
<1>1. /\ x \in Nat /\ elapsed \in Nat /\ rate \in Nat /\ bps \in 0..BasisPoints
      /\ Monus(now, last_mm_fee_withdraw_at) = elapsed
  BY TermTypes, ConstantTypes DEF TypeOK, Monus
<1>2. whole \in Nat \ {0}
  BY SecondsPerYearAssumption DEF BasisPoints
<1>3. fee = (x * rate * elapsed) \div whole
  BY <1>1 DEF MMFee, AccruedFee
<1> HIDE DEF elapsed, whole, rate, bps, fee
<1>4. spent \in Nat /\ x * rate * elapsed = x * spent /\ x * spent \in Nat
  BY <1>1
<1> HIDE DEF spent
<1>5. fee \in Nat /\ fee * whole <= x * spent
  BY <1>2, <1>3, <1>4, DivFloor
<1>6. protocol \in Nat /\ protocol <= fee
  <2>1. protocol = BpsOf(fee, bps)
    BY DEF MMAdminFee, fee, bps
  <2> QED
    BY <1>1, <1>5, <2>1, BpsBound
<1>7. manager \in Nat /\ manager + protocol <= fee
  <2> DEFINE cast == fee % (MaxU64 + 1)
  <2>1. manager = Monus(cast, protocol)
    BY DEF MMManagerFee, fee
  <2>2. cast \in Nat /\ cast <= fee
    BY <1>5, ConstantTypes
  <2> HIDE DEF cast, manager, protocol
  <2> QED
    BY <1>5, <1>6, <2>1, <2>2 DEF Monus
<1>8. u = [ balance |-> x - (manager + protocol), paid |-> t.paid,
            manager |-> t.manager + manager, protocol |-> t.protocol + protocol ]
  BY DEF ChargeGroup
<1> HIDE DEF manager, protocol
<1>9. /\ u.balance = x - (manager + protocol)
      /\ u.manager = t.manager + manager /\ u.protocol = t.protocol + protocol
      /\ u \in Tally
  <2>1. /\ x - (manager + protocol) \in Int /\ t.paid \in Int
        /\ t.manager + manager \in Int /\ t.protocol + protocol \in Int
    BY <1>1, <1>6, <1>7 DEF Tally
  <2> HIDE DEF u
  <2> QED
    BY <1>8, <2>1 DEF Tally
<1>10. u.balance >= 0
  OBVIOUS
<1> HIDE DEF u, x
<1>11. u.balance \in Nat /\ u.balance <= x /\ u.manager \in Nat /\ u.protocol \in Nat
  BY <1>1, <1>6, <1>7, <1>9, <1>10
<1>12. u.balance * whole >= x * kept
  <2> DEFINE z == u.balance
  <2>1. z \in Nat /\ x - fee <= z
    BY <1>1, <1>5, <1>6, <1>7, <1>9, <1>11
  <2> HIDE DEF z
  <2>2. CASE whole <= spent
    <3>1. kept = 0
      BY <1>2, <1>4, <2>2 DEF Monus
    <3>2. z * whole \in Nat /\ x * kept = 0
      BY <1>1, <1>2, <2>1, <3>1
    <3> QED
      BY <3>2 DEF z
  <2>3. CASE spent < whole
    <3>1. kept = whole - spent
      BY <1>2, <1>4, <2>3 DEF Monus
    <3>2. x * kept = x * whole - x * spent
      BY <1>1, <1>2, <1>4, <3>1
    <3>3. (z + fee) * whole >= x * whole /\ (z + fee) * whole = z * whole + fee * whole
      <4>1. z + fee \in Nat /\ x <= z + fee
        BY <1>1, <1>5, <2>1
      <4> QED
        BY <1>1, <1>2, <1>5, <2>1, <4>1, MulMono
    <3>4. z * whole \in Nat /\ fee * whole \in Nat /\ x * whole \in Nat
      BY <1>1, <1>2, <1>5, <2>1
    <3> QED
      BY <1>4, <1>5, <3>2, <3>3, <3>4 DEF z
  <2> QED
    BY <1>2, <1>4, <2>2, <2>3
<1>13. QED
  BY <1>9, <1>11, <1>12 DEF u, x, kept, whole, spent, rate, elapsed

\* n groups of a mint: none overdraws, and each leaves at least what the rate leaves.
LEMMA ChargeLoop ==
  ASSUME TypeOK, last_mm_fee_withdraw_at <= now, NEW m \in Mints, NEW n \in Nat,
         \A k \in 1..n : Iterates(ChargeGroup, Opening(m), n)[k].balance >= 0
  PROVE  LET e == Iterates(ChargeGroup, Opening(m), n)[n]
             elapsed == now - last_mm_fee_withdraw_at
             whole == BasisPoints * SecondsPerYear
             kept == Monus(whole, terms.money_management_yearly_fee * elapsed)
         IN /\ e.balance \in Nat /\ e.balance <= vault_ata[m]
            /\ e.manager \in Nat /\ e.protocol \in Nat
            /\ e.balance * Power(whole, n) >= vault_ata[m] * Power(kept, n)
<1> DEFINE b == vault_ata[m]
           it == Iterates(ChargeGroup, Opening(m), n)
           elapsed == now - last_mm_fee_withdraw_at
           whole == BasisPoints * SecondsPerYear
           spent == terms.money_management_yearly_fee * elapsed
           kept == Monus(whole, spent)
           Good(k, t) ==
             /\ t \in Tally /\ t.balance \in Nat /\ t.balance <= b
             /\ t.manager \in Nat /\ t.protocol \in Nat
             /\ t.balance * Power(whole, k) >= b * Power(kept, k)
           S == {p \in (0..n) \X Tally : p[2] = it[p[1]] /\ Good(p[1], p[2])}
<1>1. b \in Nat /\ whole \in Nat /\ kept \in Nat
  <2>1. whole \in Nat
    BY SecondsPerYearAssumption DEF BasisPoints
  <2>2. terms.money_management_yearly_fee \in Nat /\ elapsed \in Nat
    BY TermTypes, ConstantTypes DEF TypeOK
  <2>3. spent \in Nat
    BY <2>2, MulNat
  <2> HIDE DEF whole, spent
  <2>4. kept \in Nat
    BY <2>1, <2>3, MonusBound
  <2> QED
    BY <2>1, <2>4 DEF TypeOK
<1>2. it[0] = Opening(m) /\ \A k \in 1..n : it[k] = ChargeGroup[it[k - 1]] /\ it[k].balance >= 0
  BY IteratesStep
<1> HIDE DEF it
<1>3. Good(0, Opening(m))
  <2> DEFINE o == Opening(m)
  <2>1. o \in Tally /\ o.balance = b /\ o.manager = 0 /\ o.protocol = 0
    BY <1>1 DEF Opening, Tally
  <2> HIDE DEF o, b, kept, whole
  <2>2. Power(whole, 0) = 1 /\ Power(kept, 0) = 1
    BY <1>1, PowerStep
  <2> QED
    BY <1>1, <2>1, <2>2 DEF o
<1>4. ASSUME NEW k \in Nat, NEW t, Good(k, t), ChargeGroup[t].balance >= 0
      PROVE  Good(k + 1, ChargeGroup[t])
  <2> DEFINE u == ChargeGroup[t]
  <2>1. /\ t \in Tally /\ t.balance \in Nat /\ t.balance <= b
        /\ t.manager \in Nat /\ t.protocol \in Nat
        /\ t.balance * Power(whole, k) >= b * Power(kept, k)
    BY <1>4
  <2>2. /\ u \in Tally /\ u.balance \in Nat /\ u.balance <= t.balance
        /\ u.manager \in Nat /\ u.protocol \in Nat
        /\ u.balance * whole >= t.balance * kept
    <3> HIDE DEF Good, S
    <3> QED
      BY <1>4, <2>1, ChargeGroupEffect
  <2> HIDE DEF u
  <2>3. u.balance * Power(whole, k + 1) >= b * Power(kept, k + 1)
    <3> DEFINE y == t.balance
               z == u.balance
    <3>1. y \in Nat /\ z \in Nat /\ y * Power(whole, k) >= b * Power(kept, k) /\ z * whole >= y * kept
      BY <2>1, <2>2
    <3> HIDE DEF y, z, b, whole, kept
    <3>2. z * Power(whole, k + 1) >= b * Power(kept, k + 1)
      BY <1>1, <3>1, PowerKept
    <3> QED
      BY <3>2 DEF z
  <2>4. u.balance <= b
    BY <1>1, <2>1, <2>2
  <2> QED
    BY <2>2, <2>3, <2>4 DEF u
<1>5. <<0, Opening(m)>> \in S
  <2>1. Opening(m) \in Tally
    BY <1>3
  <2> HIDE DEF Good
  <2> QED
    BY <1>2, <1>3, <2>1
<1> HIDE DEF b, whole, kept
<1>6. \A k \in 0..(n - 1) : \A y : <<k, y>> \in S => <<k + 1, ChargeGroup[y]>> \in S
  <2> SUFFICES ASSUME NEW k \in 0..(n - 1), NEW y, <<k, y>> \in S
               PROVE  <<k + 1, ChargeGroup[y]>> \in S
    OBVIOUS
  <2> HIDE DEF Good
  <2>1. y = it[k] /\ Good(k, y)
    OBVIOUS
  <2>2. k + 1 \in 1..n /\ k + 1 \in 0..n /\ (k + 1) - 1 = k /\ k \in Nat
    OBVIOUS
  <2>3. it[k + 1] = ChargeGroup[y] /\ ChargeGroup[y].balance >= 0
    BY <1>2, <2>1, <2>2
  <2>4. Good(k + 1, ChargeGroup[y])
    BY <1>4, <2>1, <2>2, <2>3
  <2>5. ChargeGroup[y] \in Tally
    BY <2>4 DEF Good
  <2> QED
    BY <2>2, <2>3, <2>4, <2>5
<1> HIDE DEF S
<1>7. <<n, Iterates(ChargeGroup, Opening(m), n)[n]>> \in S
  <2>1. \A k \in 0..n : <<k, Iterates(ChargeGroup, Opening(m), n)[k]>> \in S
    BY <1>5, <1>6, IteratesInvariant
  <2> QED
    BY <2>1
<1> DEFINE e == Iterates(ChargeGroup, Opening(m), n)[n]
<1> HIDE DEF e
<1>8. Good(n, e)
  BY <1>7 DEF S, e
<1>9. QED
  BY <1>8 DEF e, b, whole, kept, elapsed

\* A fee withdrawal moves fees out of the vault, never more than it holds or than the rate
\* gives for the time since the last one.
LEMMA ManagementFeeEffect ==
  ASSUME TypeOK, NEW legs \in Legs, WithdrawMoneyManagementFee(legs)
  PROVE  LET elapsed == now - last_mm_fee_withdraw_at
             whole == BasisPoints * SecondsPerYear
             kept == Monus(whole, terms.money_management_yearly_fee * elapsed)
         IN /\ elapsed \in Nat /\ elapsed >= terms.mm_withdraw_period
            /\ last_mm_fee_withdraw_at' = now
            /\ vault_ata' \in [Mints -> Nat]
            /\ \A m \in Mints :
                 /\ vault_ata'[m] <= vault_ata[m]
                 /\ vault_ata'[m] * Power(whole, legs[m]) >= vault_ata[m] * Power(kept, legs[m])
            /\ fee_ata' \in [Recipients -> [Mints -> Nat]]
<1> DEFINE e(m) == Iterates(ChargeGroup, Opening(m), legs[m])[legs[m]]
           elapsed == now - last_mm_fee_withdraw_at
           whole == BasisPoints * SecondsPerYear
           kept == Monus(whole, terms.money_management_yearly_fee * elapsed)
<1>1. /\ now \in Nat /\ last_mm_fee_withdraw_at \in Nat /\ terms.mm_withdraw_period \in Nat
      /\ fee_ata \in [Recipients -> [Mints -> Nat]] /\ legs \in [Mints -> Nat]
  BY ConstantTypes, TermTypes, LegsType DEF TypeOK
<1>2. now >= last_mm_fee_withdraw_at + terms.mm_withdraw_period /\ last_mm_fee_withdraw_at' = now
  BY DEF WithdrawMoneyManagementFee, FeeDue
<1>3. last_mm_fee_withdraw_at <= now /\ elapsed \in Nat /\ elapsed >= terms.mm_withdraw_period
  BY <1>1, <1>2
<1>4. \A m \in Mints : \A k \in 1..legs[m] :
        Iterates(ChargeGroup, Opening(m), legs[m])[k].balance >= 0
  BY DEF WithdrawMoneyManagementFee
<1>5. /\ vault_ata' = [m \in Mints |-> e(m).balance]
      /\ fee_ata' = [r \in Recipients |-> [m \in Mints |-> fee_ata[r][m] +
                       IF r = "manager" THEN e(m).manager ELSE e(m).protocol]]
  BY DEF WithdrawMoneyManagementFee
<1>6. \A m \in Mints :
        /\ e(m).balance \in Nat /\ e(m).balance <= vault_ata[m]
        /\ e(m).manager \in Nat /\ e(m).protocol \in Nat
        /\ e(m).balance * Power(whole, legs[m]) >= vault_ata[m] * Power(kept, legs[m])
  <2> TAKE m \in Mints
  <2>1. legs[m] \in Nat
    BY <1>1
  <2> QED
    BY <1>3, <1>4, <2>1, ChargeLoop
<1> HIDE DEF e, whole, kept
<1>7. vault_ata' \in [Mints -> Nat] /\ \A m \in Mints : vault_ata'[m] = e(m).balance
  BY <1>5, <1>6
<1>8. fee_ata' \in [Recipients -> [Mints -> Nat]]
  <2>1. \A r \in Recipients, m \in Mints : fee_ata[r][m] \in Nat
    BY <1>1
  <2> QED
    BY <1>5, <1>6, <2>1
<1>9. \A m \in Mints :
        /\ vault_ata'[m] <= vault_ata[m]
        /\ vault_ata'[m] * Power(whole, legs[m]) >= vault_ata[m] * Power(kept, legs[m])
  BY <1>6, <1>7
<1>10. QED
  BY <1>2, <1>3, <1>7, <1>8, <1>9 DEF whole, kept

LEMMA ManagementFeeInv ==
  ASSUME IInv, NEW legs \in Legs, WithdrawMoneyManagementFee(legs)
  PROVE  IInv'
<1>1. /\ UNCHANGED <<now, admin_pool, terms, vault_pool_status, trading_delegate, wallet>>
      /\ UNCHANGED <<market_ata, donated, last_trade_at, asset_mints, oracle_pool, quote>>
      /\ UNCHANGED <<raised_amount_usd, total_shares, opened, shares, hight_watermark, investor_count>>
  BY DEF WithdrawMoneyManagementFee, FeeDue, shareVars, tradeVars, oracleVars
<1>2. /\ vault_ata \in [Mints -> Nat] /\ fee_ata \in [Recipients -> [Mints -> Nat]]
      /\ now \in Nat /\ last_mm_fee_withdraw_at \in Nat /\ TypeOK
      /\ terms.mm_withdraw_period \in Nat /\ terms.raise_period \in Nat
  BY ConstantTypes, TermTypes DEF IInv, TypeOK
<1>3. /\ vault_ata' \in [Mints -> Nat] /\ fee_ata' \in [Recipients -> [Mints -> Nat]]
      /\ \A m \in Mints : vault_ata'[m] <= vault_ata[m]
  BY <1>2, ManagementFeeEffect
<1>4. TypeOK'
  <2>1. vault_ata' \in [Mints -> Nat]
    BY <1>3
  <2>2. last_mm_fee_withdraw_at' \in Nat
    BY <1>2 DEF WithdrawMoneyManagementFee, FeeDue
  <2>3. QED
    BY <1>1, <1>3, <2>1, <2>2 DEF IInv, TypeOK, OracleTypeOK
<1>5. FeesAreFractions' /\ SharesConserved' /\ NoBasisWithoutShares'
  BY <1>1 DEF IInv, FeesAreFractions, SharesConserved, NoBasisWithoutShares
<1>6. HoldingsRegistered'
  <2>1. \A m \in Mints : vault_ata'[m] > 0 => vault_ata[m] > 0
    BY <1>2, <1>3
  <2>2. QED
    BY <1>1, <2>1 DEF IInv, HoldingsRegistered, Registered
<1>7. ClockOrder' /\ FeeClock'
  <2>1. /\ last_mm_fee_withdraw_at' = now /\ now >= last_mm_fee_withdraw_at + terms.mm_withdraw_period
        /\ last_trade_at # 0
    BY DEF WithdrawMoneyManagementFee, FeeDue
  <2>2. last_mm_fee_withdraw_at >= terms.raise_period /\ asset_mints # {}
    BY <2>1 DEF IInv, ClockOrder, RaiseEnd
  <2>3. now >= terms.raise_period + terms.mm_withdraw_period /\ now >= terms.raise_period
    BY <1>2, <2>1, <2>2
  <2>4. QED
    BY <1>1, <1>2, <2>1, <2>2, <2>3 DEF ClockOrder, FeeClock, RaiseEnd
<1>8. QED
  BY <1>4, <1>5, <1>6, <1>7 DEF IInv

\* A donation only adds to the vault and to what strangers sent.
LEMMA DonateInv ==
  ASSUME IInv, NEW m \in Mints, NEW amount, Donate(m, amount)
  PROVE  IInv'
<1>1. /\ UNCHANGED <<now, admin_pool, terms, vault_pool_status, last_mm_fee_withdraw_at>>
      /\ UNCHANGED <<trading_delegate, wallet, fee_ata, last_trade_at, asset_mints>>
      /\ UNCHANGED <<raised_amount_usd, total_shares, opened, shares, hight_watermark, investor_count>>
      /\ UNCHANGED <<oracle_pool, quote>>
  BY DEF Donate, shareVars, tradeVars, oracleVars
<1>2. /\ vault_ata \in [Mints -> Nat] /\ market_ata \in [Mints -> Nat] /\ donated \in [Mints -> Nat]
      /\ amount \in Nat \ {0} /\ amount <= market_ata[m]
  BY DEF IInv, TypeOK, Donate
<1>3. /\ vault_ata' = [vault_ata EXCEPT ![m] = vault_ata[m] + amount]
      /\ market_ata' = [market_ata EXCEPT ![m] = market_ata[m] - amount]
      /\ donated' = [donated EXCEPT ![m] = donated[m] + amount]
  BY <1>2 DEF Donate
<1>4. TypeOK'
  <2>1. /\ vault_ata' \in [Mints -> Nat] /\ market_ata' \in [Mints -> Nat]
        /\ donated' \in [Mints -> Nat]
    BY <1>2, <1>3
  <2> QED
    BY <1>1, <2>1 DEF IInv, TypeOK, OracleTypeOK
<1>5. FeesAreFractions' /\ SharesConserved' /\ NoBasisWithoutShares'
  BY <1>1 DEF IInv, FeesAreFractions, SharesConserved, NoBasisWithoutShares
<1>6. HoldingsRegistered'
  <2>1. donated'[m] > 0
    BY <1>2, <1>3
  <2>2. \A k \in Mints \ {m} : vault_ata'[k] = vault_ata[k] /\ donated'[k] = donated[k]
    BY <1>2, <1>3
  <2> QED
    BY <1>1, <2>1, <2>2 DEF IInv, HoldingsRegistered, Registered
<1>7. ClockOrder' /\ FeeClock'
  BY <1>1 DEF IInv, ClockOrder, FeeClock, RaiseEnd
<1>8. QED
  BY <1>4, <1>5, <1>6, <1>7 DEF IInv

\* The oracle instructions and the feeds keep the registry's type.
LEMMA OracleStepType ==
  ASSUME OracleTypeOK, OracleAdminNext \/ PythNext
  PROVE  OracleTypeOK'
<1>1. /\ oracle_pool \in [Mints -> OraclePools \cup {NoOracle}]
      /\ quote \in [Feeds -> Prices \cup {Unusable}]
  BY DEF OracleTypeOK
<1>2. ASSUME NEW m \in Mints, NEW f \in Feeds, CreateOraclePool(m, f)
      PROVE  OracleTypeOK'
  <2>1. [exists |-> TRUE, is_approved |-> FALSE, feed_id |-> f] \in OraclePools
    BY DEF OraclePools
  <2>2. QED
    BY <1>1, <1>2, <2>1 DEF CreateOraclePool, OracleTypeOK
<1>3. ASSUME NEW m \in Mints, Exists(m)
      PROVE  oracle_pool[m] \in OraclePools
  BY <1>1, <1>3 DEF Exists, NoOracle
<1>4. ASSUME NEW m \in Mints, NEW f \in Feeds, UpdateOraclePool(m, f)
      PROVE  OracleTypeOK'
  <2>1. oracle_pool[m] \in OraclePools
    BY <1>3, <1>4 DEF UpdateOraclePool
  <2>2. [oracle_pool[m] EXCEPT !.feed_id = f] \in OraclePools
    BY <2>1 DEF OraclePools
  <2>3. oracle_pool' = [oracle_pool EXCEPT ![m] = [oracle_pool[m] EXCEPT !.feed_id = f]]
    BY <1>4 DEF UpdateOraclePool
  <2>4. QED
    BY <1>1, <1>4, <2>2, <2>3 DEF UpdateOraclePool, OracleTypeOK
<1>5. ASSUME NEW m \in Mints, ApproveOraclePool(m)
      PROVE  OracleTypeOK'
  <2>1. oracle_pool[m] \in OraclePools
    BY <1>3, <1>5 DEF ApproveOraclePool
  <2>2. [oracle_pool[m] EXCEPT !.is_approved = TRUE] \in OraclePools
    BY <2>1 DEF OraclePools
  <2>3. oracle_pool' = [oracle_pool EXCEPT ![m] = [oracle_pool[m] EXCEPT !.is_approved = TRUE]]
    BY <1>5 DEF ApproveOraclePool
  <2>4. QED
    BY <1>1, <1>5, <2>2, <2>3 DEF ApproveOraclePool, OracleTypeOK
<1>6. ASSUME NEW m \in Mints, CloseOraclePool(m)
      PROVE  OracleTypeOK'
  BY <1>1, <1>6 DEF CloseOraclePool, OracleTypeOK
<1>7. ASSUME PythNext
      PROVE  OracleTypeOK'
  BY <1>1, <1>7 DEF PythNext, PythUpdate, OracleTypeOK
<1>8. QED
  BY <1>2, <1>4, <1>5, <1>6, <1>7 DEF OracleAdminNext

\* A step that leaves shares, tokens, trades and fees alone keeps all but the types.
LEMMA QuietInv ==
  ASSUME IInv, TypeOK', UNCHANGED <<terms, last_mm_fee_withdraw_at, tradeVars, tokenVars>>,
         UNCHANGED <<raised_amount_usd, total_shares, shares, hight_watermark>>,
         now' >= now
  PROVE  IInv'
<1>1. /\ UNCHANGED <<terms, last_mm_fee_withdraw_at, last_trade_at, asset_mints, vault_ata, donated>>
      /\ UNCHANGED <<raised_amount_usd, total_shares, shares, hight_watermark>>
  BY DEF tradeVars, tokenVars
<1>2. FeesAreFractions' /\ SharesConserved' /\ NoBasisWithoutShares'
  BY <1>1 DEF IInv, FeesAreFractions, SharesConserved, NoBasisWithoutShares
<1>3. HoldingsRegistered' /\ ClockOrder'
  BY <1>1 DEF IInv, HoldingsRegistered, Registered, ClockOrder, RaiseEnd
<1>4. FeeClock'
  <2>1. now \in Nat /\ now' \in Nat /\ last_mm_fee_withdraw_at \in Nat
    BY ConstantTypes DEF IInv, TypeOK
  <2>2. last_mm_fee_withdraw_at <= now => last_mm_fee_withdraw_at <= now'
    BY <2>1
  <2>3. QED
    BY <1>1, <2>2 DEF IInv, FeeClock, RaiseEnd
<1>5. QED
  BY <1>2, <1>3, <1>4 DEF IInv

LEMMA NextInv == IInv /\ [Next]_vars => IInv'
<1> SUFFICES ASSUME IInv, [Next]_vars PROVE IInv'
  OBVIOUS
<1> USE DEF shareVars, tokenVars, tradeVars, oracleVars
<1>1. TypeOK /\ now \in Nat /\ now <= MaxTime
  BY ConstantTypes DEF IInv, TypeOK
<1>2. ASSUME NEW i \in Investors, CreateInvestorPool(i)
      PROVE  IInv'
  <2>1. TypeOK'
    BY <1>1, <1>2 DEF CreateInvestorPool, TypeOK, OracleTypeOK
  <2>2. QED
    BY <1>1, <1>2, <2>1, QuietInv DEF CreateInvestorPool
<1>3. ASSUME NEW i \in Investors, NEW amount \in 1..wallet[i][Base], DepositTokenFund(i, amount)
      PROVE  IInv'
  <2>1. wallet[i][Base] \in Nat
    BY <1>1, ConstantTypes DEF TypeOK
  <2>2. amount \in Nat
    BY <1>3, <2>1
  <2>3. QED
    BY <1>3, <2>2, DepositInv
<1>4. ASSUME NEW i \in Investors, NEW s \in 1..shares[i], NEW legs \in Legs,
             WithdrawTokenFund(i, s, legs)
      PROVE  IInv'
  BY <1>4, WithdrawInv
<1>5. ASSUME NEW trader, NEW from \in Mints, NEW to \in Mints, NEW o_from, NEW o_to,
             NEW input \in 1..vault_ata[from], NEW output \in 1..market_ata[to],
             Swap(trader, from, to, o_from, o_to, input, output)
      PROVE  IInv'
  <2>1. vault_ata[from] \in Nat /\ market_ata[to] \in Nat
    BY <1>1 DEF TypeOK
  <2>2. input \in Nat /\ output \in Nat
    BY <2>1
  <2>3. QED
    BY <1>5, <2>2, SwapInv
<1>6. ASSUME CloseVault
      PROVE  IInv'
  <2>1. TypeOK'
    BY <1>1, <1>6 DEF CloseVault, TypeOK, OracleTypeOK
  <2>2. QED
    BY <1>1, <1>6, <2>1, QuietInv DEF CloseVault
<1>7. ASSUME NEW k \in Delegates \cup {MoneyManager, NoDelegate}, SetTradingDelegate(k)
      PROVE  IInv'
  <2>1. TypeOK'
    BY <1>1, <1>7 DEF SetTradingDelegate, TypeOK, OracleTypeOK
  <2>2. QED
    BY <1>1, <1>7, <2>1, QuietInv DEF SetTradingDelegate
<1>8. ASSUME RevokeTradingDelegate
      PROVE  IInv'
  <2>1. TypeOK'
    BY <1>1, <1>8 DEF RevokeTradingDelegate, TypeOK, OracleTypeOK
  <2>2. QED
    BY <1>1, <1>8, <2>1, QuietInv DEF RevokeTradingDelegate
<1>9. ASSUME NEW legs \in Legs, WithdrawMoneyManagementFee(legs)
      PROVE  IInv'
  BY <1>9, ManagementFeeInv
<1>10. ASSUME Tick
       PROVE  IInv'
  <2>1. now' \in 0..MaxTime /\ now' >= now
    BY <1>1, <1>10, ConstantTypes DEF Tick
  <2>2. TypeOK'
    BY <1>1, <1>10, <2>1 DEF Tick, TypeOK, OracleTypeOK
  <2>3. QED
    BY <1>10, <2>1, <2>2, QuietInv DEF Tick
<1>11. ASSUME NEW a \in AdminPools, AdminPoolChange(a)
       PROVE  IInv'
  <2>1. TypeOK'
    BY <1>1, <1>11 DEF AdminPoolChange, TypeOK, OracleTypeOK
  <2>2. QED
    BY <1>1, <1>11, <2>1, QuietInv DEF AdminPoolChange
<1>12. ASSUME OracleNext
       PROVE  IInv'
  <2>1. OracleTypeOK'
    BY <1>1, <1>12, OracleStepType DEF OracleNext, TypeOK
  <2>2. TypeOK'
    BY <1>1, <1>12, <2>1 DEF OracleNext, TypeOK
  <2>3. QED
    BY <1>1, <1>12, <2>2, QuietInv DEF OracleNext
<1>13. ASSUME UNCHANGED vars
       PROVE  IInv'
  <2>1. TypeOK'
    BY <1>1, <1>13 DEF vars, TypeOK, OracleTypeOK
  <2>2. QED
    BY <1>1, <1>13, <2>1, QuietInv DEF vars
<1>14. ASSUME NEW m \in Mints, NEW amount \in 1..market_ata[m], Donate(m, amount)
       PROVE  IInv'
  BY <1>14, DonateInv
<1>15. QED
  BY <1>2, <1>3, <1>4, <1>5, <1>6, <1>7, <1>8, <1>9, <1>10, <1>11, <1>12, <1>13, <1>14
  DEF Next, InvestorNext, ManagerNext, OperatorNext

THEOREM Invariance == Spec => []IInv
BY InitInv, NextInv, PTL DEF Spec

\* Every account keeps its type: in particular no token account is ever overdrawn,
\* whatever legs a redemption names and however its fees are split.
THEOREM TypeCorrect == Spec => []TypeOK
BY Invariance, PTL DEF IInv

\* The running total of shares is the sum of the investors' shares.
THEOREM SharesAreConserved == Spec => []SharesConserved
BY Invariance, PTL DEF IInv

\* No residue of cost basis outlives the last share, the investor's or the vault's.
THEOREM NoResidualBasis == Spec => []NoBasisWithoutShares
BY Invariance, PTL DEF IInv

\* Whatever its trades left the vault, its clients find it.
THEOREM NothingUnregistered == Spec => []HoldingsRegistered
BY Invariance, PTL DEF IInv

\* A management fee follows a trade, and a whole period after the raise.
THEOREM FeesAreDue == Spec => []FeeClock
BY Invariance, PTL DEF IInv

-----------------------------------------------------------------------------
(* The raise.                                                              *)

\* The base tokens the investors still hold.
Unspent == [i \in Investors |-> wallet[i][Base]]

LEMMA RaiseInit == Init => RaiseIsUntouched
<1> SUFFICES ASSUME Init PROVE RaiseIsUntouched
  OBVIOUS
<1>1. N \in Nat /\ hight_watermark = [i \in 1..N |-> 0] /\ raised_amount_usd = 0
  BY ConstantTypes DEF Init, Investors
<1>2. SumTo(hight_watermark, N) = 0
  <2>1. hight_watermark \in [1..N -> Int] /\ \A i \in 1..N : hight_watermark[i] = 0
    BY <1>1
  <2>2. QED
    BY <1>1, <2>1, SumToZero
<1>3. vault_ata[Base] + SumTo([i \in Investors |-> wallet[i][Base]], N)
        = SumTo(InvestorFunds, N) + donated[Base]
  <2>1. InvestorFunds \in [Investors -> Nat] /\ Base \in Mints
    BY VaultAssumption, ConstantTypes
  <2>2. [i \in Investors |-> wallet[i][Base]] = InvestorFunds /\ vault_ata[Base] = 0
        /\ donated[Base] = 0
    BY <2>1 DEF Init
  <2>3. SumTo(InvestorFunds, N) \in Nat
    BY <1>1, <2>1, SumToNat DEF Investors
  <2>4. QED
    BY <2>2, <2>3
<1>4. /\ asset_mints = {} /\ vault_pool_status = Active
      /\ fee_ata = [r \in Recipients |-> [m \in Mints |-> 0]]
  BY DEF Init
<1>5. QED
  BY <1>1, <1>2, <1>3, <1>4 DEF RaiseIsUntouched

LEMMA RaiseDeposit ==
  ASSUME IInv, RaiseIsUntouched, now < RaiseEnd,
         NEW i \in Investors, NEW amount \in Nat, DepositTokenFund(i, amount)
  PROVE  RaiseIsUntouched'
<1>1. PICK usd \in Nat :
        /\ raised_amount_usd' = raised_amount_usd + usd
        /\ hight_watermark' = [hight_watermark EXCEPT ![i] = hight_watermark[i] + usd]
  BY DepositEffect
<1>2. /\ N \in Nat /\ i \in 1..N /\ Base \in Mints
      /\ hight_watermark \in [1..N -> Int] /\ hight_watermark[i] \in Nat /\ raised_amount_usd \in Nat
      /\ wallet \in [Investors -> [Mints -> Nat]] /\ vault_ata \in [Mints -> Nat]
  <2>1. /\ hight_watermark \in [Investors -> Nat] /\ raised_amount_usd \in Nat
        /\ wallet \in [Investors -> [Mints -> Nat]] /\ vault_ata \in [Mints -> Nat]
    BY DEF IInv, TypeOK
  <2>2. N \in Nat /\ Base \in Mints /\ Investors = 1..N
    BY ConstantTypes DEF Investors
  <2>3. hight_watermark \in [1..N -> Int] /\ hight_watermark[i] \in Nat /\ i \in 1..N
    BY <2>1, <2>2
  <2> QED
    BY <2>1, <2>2, <2>3
<1>3. SumTo(hight_watermark, N)' = raised_amount_usd'
  <2>1. hight_watermark[i] + usd \in Int
    BY <1>2
  <2>2. SumTo(hight_watermark', N) =
          SumTo(hight_watermark, N) + ((hight_watermark[i] + usd) - hight_watermark[i])
    BY <1>1, <1>2, <2>1, SumToUpdate
  <2>3. SumTo(hight_watermark, N) = raised_amount_usd
    BY DEF RaiseIsUntouched
  <2>4. QED
    BY <1>1, <1>2, <2>2, <2>3
<1>4. (vault_ata[Base] + SumTo(Unspent, N))' = SumTo(InvestorFunds, N) + donated[Base]
  <2>1. Unspent \in [1..N -> Int] /\ Unspent[i] \in Nat /\ Unspent[i] - amount \in Int
    BY <1>2 DEF Unspent, Investors
  <2>2. Unspent' = [Unspent EXCEPT ![i] = Unspent[i] - amount]
    <3>1. wallet' = [wallet EXCEPT ![i] = [wallet[i] EXCEPT ![Base] = wallet[i][Base] - amount]]
      BY <1>2 DEF DepositTokenFund, AcceptDeposit, MintShares
    <3>2. wallet'[i][Base] = wallet[i][Base] - amount
      BY <1>2, <3>1 DEF Investors
    <3>3. \A j \in Investors \ {i} : wallet'[j][Base] = wallet[j][Base]
      BY <1>2, <3>1
    <3>4. QED
      BY <3>2, <3>3 DEF Unspent
  <2>3. SumTo(Unspent', N) = SumTo(Unspent, N) + ((Unspent[i] - amount) - Unspent[i])
    BY <1>2, <2>1, <2>2, SumToUpdate
  <2>4. vault_ata'[Base] = vault_ata[Base] + amount
    BY <1>2 DEF DepositTokenFund, AcceptDeposit, MintShares
  <2>5. vault_ata[Base] + SumTo(Unspent, N) = SumTo(InvestorFunds, N) + donated[Base]
    BY DEF RaiseIsUntouched, Unspent
  <2>6. SumTo(Unspent, N) \in Nat
    <3>1. Unspent \in [1..N -> Nat]
      BY <1>2 DEF Unspent, Investors
    <3>2. QED
      BY <1>2, <3>1, SumToNat
  <2>7. vault_ata'[Base] + SumTo(Unspent', N) = SumTo(InvestorFunds, N) + donated[Base]
    BY <1>2, <2>1, <2>3, <2>4, <2>5, <2>6
  <2>8. QED
    BY <2>7
<1>5. UNCHANGED <<asset_mints, vault_pool_status, fee_ata, donated>>
  BY DEF DepositTokenFund, AcceptDeposit, MintShares, tradeVars
<1>6. QED
  BY <1>3, <1>4, <1>5 DEF RaiseIsUntouched, Unspent

LEMMA RaiseDonate ==
  ASSUME IInv, RaiseIsUntouched, now < RaiseEnd, NEW m \in Mints, NEW amount, Donate(m, amount)
  PROVE  RaiseIsUntouched'
<1>1. /\ vault_ata \in [Mints -> Nat] /\ donated \in [Mints -> Nat] /\ amount \in Nat
      /\ Base \in Mints /\ SumTo(Unspent, N) \in Int /\ SumTo(InvestorFunds, N) \in Int
  <2>1. wallet \in [Investors -> [Mints -> Nat]] /\ Base \in Mints /\ N \in Nat
        /\ InvestorFunds \in [Investors -> Nat]
    BY ConstantTypes, VaultAssumption DEF IInv, TypeOK
  <2>2. Unspent \in [1..N -> Int] /\ InvestorFunds \in [1..N -> Int]
    BY <2>1 DEF Unspent, Investors
  <2> QED
    BY <2>1, <2>2, SumToInt DEF IInv, TypeOK, Donate
<1>2. vault_ata'[Base] - donated'[Base] = vault_ata[Base] - donated[Base]
  BY <1>1 DEF Donate
<1>3. vault_ata'[Base] \in Int /\ donated'[Base] \in Int
  BY <1>1 DEF Donate
<1>4. vault_ata[Base] + SumTo(Unspent, N) = SumTo(InvestorFunds, N) + donated[Base]
  BY DEF RaiseIsUntouched, Unspent
<1>5. vault_ata'[Base] + SumTo(Unspent, N) = SumTo(InvestorFunds, N) + donated'[Base]
  BY <1>1, <1>2, <1>3, <1>4
<1>6. UNCHANGED <<hight_watermark, raised_amount_usd, wallet, asset_mints, vault_pool_status, fee_ata>>
  BY DEF Donate, shareVars, tradeVars
<1>7. QED
  BY <1>5, <1>6 DEF RaiseIsUntouched, Unspent

LEMMA RaiseStep == IInv /\ RaiseIsUntouched /\ [Next]_vars => RaiseIsUntouched'
<1> SUFFICES ASSUME IInv, RaiseIsUntouched, [Next]_vars, (now < RaiseEnd)'
             PROVE  RaiseIsUntouched'
  BY DEF RaiseIsUntouched
<1> USE DEF shareVars, tokenVars, tradeVars
<1>1. /\ TypeOK /\ now \in Nat /\ RaiseEnd \in Nat /\ last_mm_fee_withdraw_at \in Nat
      /\ terms.mm_withdraw_period \in Nat /\ terms.withdraw_cooldown \in Nat
      /\ last_mm_fee_withdraw_at >= RaiseEnd
  <2>1. terms.withdraw_cooldown \in Nat
    BY VaultAssumption DEF IInv, TypeOK, TermsType
  <2>2. QED
    BY <2>1, TermTypes, ConstantTypes DEF IInv, TypeOK, ClockOrder
<1>2. UNCHANGED terms /\ now' \in Nat /\ now' >= now
  <2>1. InvestorNext => UNCHANGED <<terms, now>>
    BY DEF InvestorNext, CreateInvestorPool, DepositTokenFund, AcceptDeposit, MintShares, WithdrawTokenFund
  <2>2. ManagerNext => UNCHANGED <<terms, now>>
    <3>1. \A trader, from, to, o_from, o_to, input, output :
            Swap(trader, from, to, o_from, o_to, input, output) => UNCHANGED <<terms, now>>
      BY DEF Swap, MayTrade, Unregistered
    <3>2. QED
      BY <3>1 DEF ManagerNext, CloseVault, SetTradingDelegate, RevokeTradingDelegate
  <2>3. OperatorNext \/ OracleNext \/ UNCHANGED vars => UNCHANGED <<terms, now>>
    BY DEF OperatorNext, WithdrawMoneyManagementFee, FeeDue, OracleNext, vars
  <2>4. (\E a \in AdminPools : AdminPoolChange(a)) => UNCHANGED <<terms, now>>
    BY DEF AdminPoolChange
  <2>5. Tick => UNCHANGED terms /\ now' = now + 1
    BY DEF Tick
  <2>6. \A m, amount : Donate(m, amount) => UNCHANGED <<terms, now>>
    BY DEF Donate
  <2>7. QED
    BY <1>1, <2>1, <2>2, <2>3, <2>4, <2>5, <2>6 DEF Next
<1>3. now < RaiseEnd
  BY <1>1, <1>2 DEF RaiseEnd
<1>4. /\ \A i, s, legs : ~ WithdrawTokenFund(i, s, legs)
      /\ \A trader, from, to, o_from, o_to, input, output :
           ~ Swap(trader, from, to, o_from, o_to, input, output)
      /\ \A legs : ~ WithdrawMoneyManagementFee(legs)
      /\ ~ CloseVault
  <2>1. ~ (now >= RaiseEnd) /\ ~ (now >= RedeemFrom)
        /\ ~ (now >= last_mm_fee_withdraw_at + terms.mm_withdraw_period)
    BY <1>1, <1>3 DEF RedeemFrom
  <2>2. \A i, s, legs : ~ WithdrawTokenFund(i, s, legs)
    BY <2>1 DEF WithdrawTokenFund, MayRedeem
  <2>3. \A trader, from, to, o_from, o_to, input, output :
           ~ Swap(trader, from, to, o_from, o_to, input, output)
    BY <2>1 DEF Swap, MayTrade, Unregistered
  <2>4. QED
    BY <2>1, <2>2, <2>3 DEF WithdrawMoneyManagementFee, FeeDue, CloseVault
<1>5. ASSUME UNCHANGED <<hight_watermark, raised_amount_usd, vault_pool_status, tokenVars, asset_mints>>
      PROVE  RaiseIsUntouched'
  BY <1>3, <1>5 DEF RaiseIsUntouched
<1>6. CASE InvestorNext
  <2>1. PICK i \in Investors :
          \/ CreateInvestorPool(i)
          \/ \E amount \in 1..wallet[i][Base] : DepositTokenFund(i, amount)
    BY <1>4, <1>6 DEF InvestorNext
  <2>2. CASE CreateInvestorPool(i)
    BY <1>5, <2>2 DEF CreateInvestorPool
  <2>3. CASE \E amount \in 1..wallet[i][Base] : DepositTokenFund(i, amount)
    <3>1. PICK amount \in 1..wallet[i][Base] : DepositTokenFund(i, amount)
      BY <2>3
    <3>2. amount \in Nat
      BY <1>1, ConstantTypes DEF TypeOK
    <3>3. QED
      BY <1>3, <3>1, <3>2, RaiseDeposit
  <2>4. QED
    BY <2>1, <2>2, <2>3
<1>7. CASE ManagerNext
  <2>1. RevokeTradingDelegate \/ \E k : SetTradingDelegate(k)
    BY <1>4, <1>7 DEF ManagerNext
  <2>2. QED
    BY <1>5, <2>1 DEF RevokeTradingDelegate, SetTradingDelegate
<1>8. CASE Tick \/ (\E a \in AdminPools : AdminPoolChange(a)) \/ OracleNext \/ UNCHANGED vars
  BY <1>5, <1>8 DEF Tick, AdminPoolChange, OracleNext, vars
<1>9. ASSUME NEW m \in Mints, NEW amount, Donate(m, amount)
      PROVE  RaiseIsUntouched'
  BY <1>3, <1>9, RaiseDonate
<1>10. QED
  BY <1>4, <1>6, <1>7, <1>8, <1>9 DEF Next, OperatorNext

\* During the raise nothing but deposits happens, and no token or micro-USD is lost.
THEOREM RaiseTheorem == Spec => []RaiseIsUntouched
BY RaiseInit, RaiseStep, Invariance, PTL DEF Spec

-----------------------------------------------------------------------------
(* What a step may never do.                                               *)

\* Only deposits and redemptions touch shares and cost basis.
LEMMA ShareSteps ==
  ASSUME IInv, [Next]_vars
  PROVE  \/ UNCHANGED <<total_shares, shares, raised_amount_usd>>
         \/ \E i \in Investors, amount \in Nat : DepositTokenFund(i, amount)
         \/ \E i \in Investors : \E s : \E legs \in Legs : WithdrawTokenFund(i, s, legs)
<1> USE DEF shareVars
<1>1. \A i \in Investors : wallet[i][Base] \in Nat
  BY ConstantTypes DEF IInv, TypeOK
<1>2. ASSUME InvestorNext
      PROVE  \/ UNCHANGED <<total_shares, shares, raised_amount_usd>>
             \/ \E i \in Investors, amount \in Nat : DepositTokenFund(i, amount)
             \/ \E i \in Investors : \E s : \E legs \in Legs : WithdrawTokenFund(i, s, legs)
  <2>1. PICK i \in Investors :
          \/ CreateInvestorPool(i)
          \/ \E amount \in 1..wallet[i][Base] : DepositTokenFund(i, amount)
          \/ \E s \in 1..shares[i], legs \in Legs : WithdrawTokenFund(i, s, legs)
    BY <1>2 DEF InvestorNext
  <2>2. CASE CreateInvestorPool(i)
    BY <2>2 DEF CreateInvestorPool
  <2>3. CASE \E amount \in 1..wallet[i][Base] : DepositTokenFund(i, amount)
    <3>1. PICK amount \in 1..wallet[i][Base] : DepositTokenFund(i, amount)
      BY <2>3
    <3>2. amount \in Nat
      BY <1>1
    <3>3. QED
      BY <3>1, <3>2
  <2>4. CASE \E s \in 1..shares[i], legs \in Legs : WithdrawTokenFund(i, s, legs)
    BY <2>4
  <2>5. QED
    BY <2>1, <2>2, <2>3, <2>4
<1>3. ManagerNext => UNCHANGED <<total_shares, shares, raised_amount_usd>>
  <2>1. \A trader, from, to, o_from, o_to, input, output :
          Swap(trader, from, to, o_from, o_to, input, output) =>
            UNCHANGED <<total_shares, shares, raised_amount_usd>>
    BY DEF Swap, MayTrade, Unregistered
  <2>2. CloseVault \/ RevokeTradingDelegate \/ (\E k : SetTradingDelegate(k)) =>
          UNCHANGED <<total_shares, shares, raised_amount_usd>>
    BY DEF CloseVault, SetTradingDelegate, RevokeTradingDelegate
  <2>3. QED
    BY <2>1, <2>2 DEF ManagerNext
<1>4. OperatorNext => UNCHANGED <<total_shares, shares, raised_amount_usd>>
  BY DEF OperatorNext, WithdrawMoneyManagementFee, FeeDue
<1>5. Tick \/ OracleNext \/ UNCHANGED vars =>
        UNCHANGED <<total_shares, shares, raised_amount_usd>>
  BY DEF Tick, OracleNext, vars
<1>6. (\E a \in AdminPools : AdminPoolChange(a)) =>
        UNCHANGED <<total_shares, shares, raised_amount_usd>>
  BY DEF AdminPoolChange
<1>7. (\E m \in Mints : \E amount \in 1..market_ata[m] : Donate(m, amount)) =>
        UNCHANGED <<total_shares, shares, raised_amount_usd>>
  BY DEF Donate
<1>8. QED
  BY <1>2, <1>3, <1>4, <1>5, <1>6, <1>7 DEF Next

LEMMA BasisStep ==
  ASSUME IInv, [Next]_vars
  PROVE  raised_amount_usd' * total_shares >= raised_amount_usd * total_shares'
<1> DEFINE r == raised_amount_usd
           t == total_shares
<1>1. r \in Nat /\ t \in Nat /\ TypeOK /\ SharesConserved /\ FeesAreFractions
  BY DEF IInv, TypeOK
<1>2. CASE UNCHANGED <<total_shares, shares, raised_amount_usd>>
  <2>1. r * t \in Nat
    BY <1>1
  <2>2. QED
    BY <1>2, <2>1
<1>3. ASSUME NEW i \in Investors, NEW amount \in Nat, DepositTokenFund(i, amount)
      PROVE  r' * t >= r * t'
  <2>1. PICK minted \in Nat \ {0}, usd \in Nat :
          t' = t + minted /\ r' = r + usd /\ minted * r <= usd * t
    BY <1>3, DepositEffect
  <2> HIDE DEF r, t
  <2>2. (r + usd) * t = r * t + usd * t /\ r * (t + minted) = r * t + minted * r
    BY <1>1
  <2>3. r * t \in Nat /\ usd * t \in Nat /\ minted * r \in Nat
    BY <1>1
  <2>4. (r + usd) * t >= r * (t + minted)
    BY <2>1, <2>2, <2>3
  <2>5. QED
    BY <2>1, <2>4
<1>4. ASSUME NEW i \in Investors, NEW s, NEW legs \in Legs, WithdrawTokenFund(i, s, legs)
      PROVE  r' * t >= r * t'
  <2>1. s \in Nat /\ t' = t - s /\ r' \in Nat
    BY <1>1, <1>4, RedeemEffect
  <2>2. (r - r') * t <= r * s
    BY <1>1, <1>4, RedeemEffect
  <2> HIDE DEF r, t
  <2>3. (r - r') * t = r * t - r' * t /\ r * (t - s) = r * t - r * s
    BY <1>1, <2>1
  <2>4. r * t \in Nat /\ r' * t \in Nat /\ r * s \in Nat
    BY <1>1, <2>1, MulNat
  <2>5. r' * t >= r * (t - s)
    BY <2>2, <2>3, <2>4
  <2>6. QED
    BY <2>1, <2>5
<1>5. QED
  BY <1>2, <1>3, <1>4, ShareSteps

\* Neither a deposit nor a redemption dilutes the cost basis of the other shares.
THEOREM CostBasisTheorem == Spec => CostBasisNeverDiluted
<1>1. IInv /\ [Next]_vars => [raised_amount_usd' * total_shares >= raised_amount_usd * total_shares']_vars
  BY BasisStep
<1>2. QED
  BY <1>1, Invariance, PTL DEF Spec, CostBasisNeverDiluted

\* A step that takes shares from an investor leaves the rest of the vault its part.
LEMMA HoldingsStep ==
  ASSUME IInv, NEW i \in Investors, NEW legs \in Legs,
         WithdrawTokenFund(i, shares[i] - shares'[i], legs), NEW m \in Mints
  PROVE  LET s == shares[i] - shares'[i] IN
         vault_ata'[m] * Power(total_shares, legs[m])
           >= vault_ata[m] * Power(total_shares - s, legs[m])
<1>1. TypeOK /\ SharesConserved /\ FeesAreFractions
  BY DEF IInv
<1> QED
  BY <1>1, RedeemTokens

\* A redemption, its performance fees included, never costs the remaining shares anything.
THEOREM HoldingsTheorem == Spec => HoldingsPerShareNeverFall
<1>1. IInv /\ [Next]_vars =>
        [\A i \in Investors :
           shares'[i] < shares[i] =>
             LET s == shares[i] - shares'[i] IN
             \A legs \in Legs : WithdrawTokenFund(i, s, legs) =>
               \A m \in Mints : vault_ata'[m] * Power(total_shares, legs[m])
                                  >= vault_ata[m] * Power(total_shares - s, legs[m])]_vars
  BY HoldingsStep
<1>2. QED
  BY <1>1, Invariance, PTL DEF Spec, HoldingsPerShareNeverFall

\* What FeeAccruesOnce says of a fee withdrawal.
ChargedOnce(legs) ==
  LET elapsed == now - last_mm_fee_withdraw_at
      whole == BasisPoints * SecondsPerYear
      kept == Monus(whole, terms.money_management_yearly_fee * elapsed)
  IN /\ elapsed >= terms.mm_withdraw_period
     /\ last_mm_fee_withdraw_at' = now
     /\ \A m \in Mints : vault_ata'[m] * Power(whole, legs[m]) >= vault_ata[m] * Power(kept, legs[m])

\* For every rate, period and basket: no second is charged by two fee withdrawals.
THEOREM FeeAccrualTheorem == Spec => FeeAccruesOnce
<1>1. ASSUME IInv, NEW legs \in Legs, WithdrawMoneyManagementFee(legs)
      PROVE  ChargedOnce(legs)
  BY <1>1, ManagementFeeEffect DEF IInv, ChargedOnce
<1>2. IInv /\ [Next]_vars =>
        [\A legs \in Legs : WithdrawMoneyManagementFee(legs) => ChargedOnce(legs)]_vars
  BY <1>1
<1>3. QED
  BY <1>2, Invariance, PTL DEF Spec, FeeAccruesOnce, ChargedOnce

\* After close: what the step of a closed vault may do.
PaysOutOnly ==
  /\ vault_pool_status' = Closed
  /\ total_shares' <= total_shares /\ raised_amount_usd' <= raised_amount_usd
  /\ \A m \in Mints : vault_ata'[m] - donated'[m] <= vault_ata[m] - donated[m]
  /\ UNCHANGED <<asset_mints, last_trade_at>>

LEMMA ClosedStep ==
  ASSUME IInv, [Next]_vars, vault_pool_status = Closed
  PROVE  PaysOutOnly
<1> USE DEF tokenVars, tradeVars
<1>1. /\ TypeOK /\ SharesConserved /\ FeesAreFractions /\ Active # Closed
      /\ total_shares \in Nat /\ raised_amount_usd \in Nat /\ vault_ata \in [Mints -> Nat]
      /\ donated \in [Mints -> Nat]
  BY ConstantTypes DEF IInv, TypeOK
<1>2. ASSUME UNCHANGED <<vault_pool_status, total_shares, raised_amount_usd, tokenVars, tradeVars>>
      PROVE  PaysOutOnly
  BY <1>1, <1>2 DEF PaysOutOnly
<1>3. /\ \A i, amount : ~ DepositTokenFund(i, amount)
      /\ \A trader, from, to, o_from, o_to, input, output :
           ~ Swap(trader, from, to, o_from, o_to, input, output)
      /\ ~ CloseVault
  BY <1>1 DEF DepositTokenFund, AcceptDeposit, MintShares, Swap, MayTrade, Unregistered, CloseVault
<1>4. ASSUME NEW i \in Investors, NEW s, NEW legs \in Legs, WithdrawTokenFund(i, s, legs)
      PROVE  PaysOutOnly
  <2>1. /\ s \in Nat \ {0} /\ total_shares' = total_shares - s
        /\ raised_amount_usd' <= raised_amount_usd
    BY <1>1, <1>4, RedeemEffect
  <2>2. vault_ata' \in [Mints -> Nat] /\ \A m \in Mints : vault_ata'[m] <= vault_ata[m]
    BY <1>1, <1>4, RedeemTokens
  <2>3. UNCHANGED <<vault_pool_status, donated, tradeVars>>
    BY <1>4 DEF WithdrawTokenFund
  <2>4. total_shares' <= total_shares
    BY <1>1, <2>1
  <2>5. QED
    BY <1>1, <2>1, <2>2, <2>3, <2>4 DEF PaysOutOnly
<1>5. ASSUME NEW legs \in Legs, WithdrawMoneyManagementFee(legs)
      PROVE  PaysOutOnly
  <2>1. vault_ata' \in [Mints -> Nat] /\ \A m \in Mints : vault_ata'[m] <= vault_ata[m]
    BY <1>5, ManagementFeeEffect DEF IInv
  <2>2. UNCHANGED <<vault_pool_status, donated, tradeVars, total_shares, raised_amount_usd>>
    BY <1>5 DEF WithdrawMoneyManagementFee, FeeDue, shareVars
  <2>3. QED
    BY <1>1, <2>1, <2>2 DEF PaysOutOnly
<1>6. CASE InvestorNext
  <2>1. (\E i \in Investors : CreateInvestorPool(i)) => PaysOutOnly
    BY <1>2 DEF CreateInvestorPool
  <2>2. QED
    BY <1>3, <1>4, <1>6, <2>1 DEF InvestorNext
<1>7. CASE ManagerNext
  <2>1. RevokeTradingDelegate \/ (\E k : SetTradingDelegate(k)) => PaysOutOnly
    BY <1>2 DEF RevokeTradingDelegate, SetTradingDelegate, shareVars
  <2>2. QED
    BY <1>3, <1>7, <2>1 DEF ManagerNext
<1>8. CASE Tick \/ (\E a \in AdminPools : AdminPoolChange(a)) \/ OracleNext \/ UNCHANGED vars
  BY <1>2, <1>8 DEF Tick, AdminPoolChange, OracleNext, vars, shareVars
<1>9. ASSUME NEW m \in Mints, NEW amount, Donate(m, amount)
      PROVE  PaysOutOnly
  <2>1. \A k \in Mints : vault_ata'[k] - donated'[k] = vault_ata[k] - donated[k]
    BY <1>1, <1>9 DEF Donate
  <2>2. UNCHANGED <<vault_pool_status, tradeVars, total_shares, raised_amount_usd>>
    BY <1>9 DEF Donate, shareVars
  <2>3. \A k \in Mints : vault_ata[k] - donated[k] \in Int
    BY <1>1
  <2> QED
    BY <1>1, <2>1, <2>2, <2>3 DEF PaysOutOnly
<1>10. QED
  BY <1>5, <1>6, <1>7, <1>8, <1>9 DEF Next, OperatorNext

\* A closed vault stays closed and only ever pays out.
THEOREM ClosedTheorem == Spec => ClosedOnlyPaysOut
<1>1. IInv /\ [Next]_vars => [vault_pool_status = Closed => PaysOutOnly]_vars
  BY ClosedStep
<1>2. QED
  BY <1>1, Invariance, PTL DEF Spec, ClosedOnlyPaysOut, PaysOutOnly

-----------------------------------------------------------------------------
(* What a trade may lose.                                                  *)

\* The situation after a trade's checks, when each leg is priced by its own oracle.
LEMMA TradeArgs ==
  ASSUME TypeOK, NEW trader, NEW from \in Mints, NEW to \in Mints,
         NEW input, NEW output, Swap(trader, from, to, from, to, input, output)
  PROVE  /\ from # to /\ HasPrice(from) /\ HasPrice(to)
         /\ input \in Nat /\ output \in Nat
         /\ vault_ata[from] \in Nat /\ vault_ata[to] \in Nat /\ vault_ata[from] - input \in Nat
         /\ vault_ata' = [vault_ata EXCEPT ![from] = vault_ata[from] - input,
                                           ![to] = vault_ata[to] + output]
         /\ WithinSlippage(ValueUsd(from, input), ValueUsd(to, output), admin_pool.max_slippage_bps)
<1>1. vault_ata \in [Mints -> Nat] /\ market_ata \in [Mints -> Nat]
  BY DEF TypeOK
<1>2. from # to /\ input \in 1..vault_ata[from] /\ output \in 1..market_ata[to]
  BY DEF Swap
<1>3. vault_ata' = [vault_ata EXCEPT ![from] = vault_ata[from] - input,
                                     ![to] = vault_ata[to] + output]
  BY <1>1, <1>2 DEF Swap
<1>4. input \in Nat /\ output \in Nat /\ vault_ata[from] - input \in Nat
  BY <1>1, <1>2
<1> QED
  BY <1>1, <1>2, <1>3, <1>4 DEF Swap, ValueUsd

\* At the prices of the trade, the holdings fall by what went in less what came out.
LEMMA NavAfterTrade ==
  ASSUME TypeOK, NEW from \in Mints, NEW to \in Mints, from # to, HasPrice(from), HasPrice(to),
         NEW input \in Nat, NEW output \in Nat, NEW before \in [Mints -> Nat],
         before[from] - input \in Nat
  PROVE  LET after == [before EXCEPT ![from] = before[from] - input, ![to] = before[to] + output]
         IN /\ Nav(before) \in Int /\ Nav(after) \in Int
            /\ Nav(before) - Nav(after) - 1 <= ValueUsd(from, input) - ValueUsd(to, output)
<1> DEFINE after == [before EXCEPT ![from] = before[from] - input, ![to] = before[to] + output]
           f == [m \in Mints |-> IF HasPrice(m) THEN ValueUsd(m, before[m]) ELSE 0]
           g == [m \in Mints |-> IF HasPrice(m) THEN ValueUsd(m, after[m]) ELSE 0]
           x == ValueUsd(from, before[from] - input)
           y == ValueUsd(to, before[to] + output)
<1>1. before[from] \in Nat /\ before[to] \in Nat /\ before[to] + output \in Nat
  OBVIOUS
<1>2. f \in [Mints -> Int] /\ x \in Int /\ y \in Int
  <2>1. \A m \in Mints : HasPrice(m) => ValueUsd(m, before[m]) \in Nat
    BY ValueType
  <2>2. x \in Nat /\ y \in Nat
    BY <1>1, ValueType
  <2> QED
    BY <2>1, <2>2
<1>3. f[from] = ValueUsd(from, before[from]) /\ f[to] = ValueUsd(to, before[to])
  OBVIOUS
<1>4. g = [[f EXCEPT ![from] = x] EXCEPT ![to] = y]
  OBVIOUS
<1>5. ValueUsd(from, before[from]) <= x + ValueUsd(from, input) + 1
  <2>1. (before[from] - input) + input = before[from]
    BY <1>1
  <2> QED
    BY <2>1, PriceType, ValueAdd DEF ValueUsd, ValueBy
<1>6. ValueUsd(to, before[to]) + ValueUsd(to, output) <= y
  BY <1>1, PriceType, ValueAdd DEF ValueUsd, ValueBy
<1>7. /\ ValueUsd(from, before[from]) \in Nat /\ ValueUsd(to, before[to]) \in Nat
      /\ ValueUsd(from, input) \in Nat /\ ValueUsd(to, output) \in Nat
  BY <1>1, ValueType
<1> HIDE DEF x, y, f
<1>8. SumTo(f, MintCount) \in Int
  <2>1. MintCount \in Nat /\ f \in [1..MintCount -> Int]
    BY <1>2, ConstantTypes DEF Mints
  <2> QED
    BY <2>1, SumToInt
<1> DEFINE h == [f EXCEPT ![from] = x]
<1>9. h \in [Mints -> Int] /\ h[to] = f[to]
  BY <1>2
<1>10. SumTo(h, MintCount) = SumTo(f, MintCount) + (x - f[from])
  <2>1. MintCount \in Nat /\ f \in [1..MintCount -> Int] /\ from \in 1..MintCount /\ x \in Int
    BY <1>2, ConstantTypes DEF Mints
  <2> QED
    BY <2>1, SumToUpdate
<1> HIDE DEF h
<1>11. SumTo([h EXCEPT ![to] = y], MintCount) = SumTo(h, MintCount) + (y - f[to])
  <2>1. SumTo([h EXCEPT ![to] = y], MintCount) = SumTo(h, MintCount) + (y - h[to])
    <3>1. MintCount \in Nat /\ h \in [1..MintCount -> Int] /\ to \in 1..MintCount /\ y \in Int
      BY <1>2, <1>9, ConstantTypes DEF Mints
    <3> QED
      BY <3>1, SumToUpdate
  <2> QED
    BY <1>9, <2>1
<1>12. Nav(before) = SumTo(f, MintCount)
  BY DEF Nav, f
<1>13. Nav(after) = SumTo([h EXCEPT ![to] = y], MintCount)
  <2>1. Nav(after) = SumTo(g, MintCount)
    BY DEF Nav
  <2> QED
    BY <1>4, <2>1 DEF h
<1> HIDE DEF g
<1>14. f[from] \in Int /\ f[to] \in Int
  BY <1>2
<1> QED
  BY <1>2, <1>3, <1>5, <1>6, <1>7, <1>8, <1>10, <1>11, <1>12, <1>13, <1>14

\* What TradeLossBounded says of a trade.
LossBounded(from) ==
  (Nav(vault_ata) - Nav(vault_ata') - 1) * BasisPoints
    <= ValueUsd(from, vault_ata[from] - vault_ata'[from]) * admin_pool.max_slippage_bps

LEMMA TradeLoss ==
  ASSUME TypeOK, NEW trader, NEW from \in Mints, NEW to \in Mints,
         NEW input, NEW output, Swap(trader, from, to, from, to, input, output)
  PROVE  LossBounded(from)
<1> DEFINE vin == ValueUsd(from, input)
           vout == ValueUsd(to, output)
           slip == admin_pool.max_slippage_bps
<1> HIDE DEF vin, vout, slip
<1>1. /\ from # to /\ HasPrice(from) /\ HasPrice(to)
      /\ input \in Nat /\ output \in Nat
      /\ vault_ata[from] \in Nat /\ vault_ata[from] - input \in Nat
      /\ vault_ata' = [vault_ata EXCEPT ![from] = vault_ata[from] - input,
                                        ![to] = vault_ata[to] + output]
      /\ WithinSlippage(vin, vout, slip)
  <2>1. WithinSlippage(ValueUsd(from, input), ValueUsd(to, output), admin_pool.max_slippage_bps)
    BY TradeArgs
  <2>2. /\ from # to /\ HasPrice(from) /\ HasPrice(to)
        /\ input \in Nat /\ output \in Nat
        /\ vault_ata[from] \in Nat /\ vault_ata[from] - input \in Nat
        /\ vault_ata' = [vault_ata EXCEPT ![from] = vault_ata[from] - input,
                                          ![to] = vault_ata[to] + output]
    BY TradeArgs
  <2> QED
    BY <2>1, <2>2 DEF vin, vout, slip
<1>2. vin \in Nat /\ vout \in Nat
  BY <1>1, ValueType DEF vin, vout
<1>3. slip \in 0..BasisPoints
  BY VaultAssumption DEF TypeOK, AdminPoolType, slip
<1>4. vault_ata \in [Mints -> Nat]
  BY DEF TypeOK
<1>5. /\ Nav(vault_ata) \in Int /\ Nav(vault_ata') \in Int
      /\ Nav(vault_ata) - Nav(vault_ata') - 1 <= vin - vout
  BY <1>1, <1>4, NavAfterTrade DEF vin, vout
<1>6. vault_ata[from] - vault_ata'[from] = input
  <2>1. vault_ata'[from] = vault_ata[from] - input
    BY <1>1, <1>4
  <2> QED
    BY <1>1, <2>1
<1>7. (vin - vout) * BasisPoints <= vin * slip
  BY <1>1, <1>2, <1>3, SlippageLoss
<1>8. vin * slip \in Nat
  BY <1>2, <1>3 DEF BasisPoints
<1>9. (Nav(vault_ata) - Nav(vault_ata') - 1) * BasisPoints <= vin * slip
  <2> DEFINE loss == Nav(vault_ata) - Nav(vault_ata') - 1
  <2>1. loss \in Int /\ loss <= vin - vout
    BY <1>5
  <2> HIDE DEF loss
  <2>2. loss * BasisPoints <= vin * slip
    BY <1>2, <1>7, <1>8, <2>1 DEF BasisPoints
  <2> QED
    BY <2>2 DEF loss
<1> QED
  BY <1>6, <1>9 DEF LossBounded, vin, slip

\* For any holdings, prices and limits: a trade that passes its mints' own oracles loses
\* the vault at most the slippage allowed of what it traded in.
THEOREM TradeLossTheorem == Spec => TradeLossBounded
<1>1. IInv /\ [Next]_vars =>
        [\A trader \in Delegates \cup {MoneyManager}, from, to \in Mints :
           LET input == vault_ata[from] - vault_ata'[from]
               output == vault_ata'[to] - vault_ata[to]
           IN Swap(trader, from, to, from, to, input, output) => LossBounded(from)]_vars
  BY TradeLoss DEF IInv
<1> QED
  BY <1>1, Invariance, PTL DEF Spec, TradeLossBounded, LossBounded

-----------------------------------------------------------------------------
(* Performance fees.                                                       *)

\* The fees a redemption takes from mint m, priced again.
FeeValue(legs, m) == IF legs[m] = 0 THEN 0 ELSE ValueUsd(m, FeesAdded(m))

\* A redemption adds to the fee accounts of a mint its groups' parts of the fee at most.
LEMMA FeesTaken ==
  ASSUME TypeOK, SharesConserved, FeesAreFractions,
         NEW i \in Investors, NEW s, NEW legs \in Legs, WithdrawTokenFund(i, s, legs),
         NEW m \in Mints
  PROVE  LET value == SliceValueUsd(legs, s)
             fee == PerfFeeUsd(i, s, value)
         IN /\ FeesAdded(m) \in Nat
            /\ FeesAdded(m) * value <= legs[m] * (Slice(m, s) * fee)
            /\ fee = 0 => FeesAdded(m) = 0
<1> DEFINE value == SliceValueUsd(legs, s)
           fee == PerfFeeUsd(i, s, value)
           e == PaidOut(m, s, legs[m], fee, value)
<1>1. /\ e.manager \in Nat /\ e.protocol \in Nat
      /\ (e.manager + e.protocol) * value <= legs[m] * (Slice(m, s) * fee)
      /\ fee = 0 => e.manager = 0 /\ e.protocol = 0
  BY RedeemLegs
<1>2. /\ fee_ata'["manager"][m] = fee_ata["manager"][m] + e.manager
      /\ fee_ata'["protocol"][m] = fee_ata["protocol"][m] + e.protocol
  <2>1. fee_ata' = [r \in Recipients |-> [k \in Mints |-> fee_ata[r][k] +
                      IF r = "manager" THEN PaidOut(k, s, legs[k], fee, value).manager
                                       ELSE PaidOut(k, s, legs[k], fee, value).protocol]]
    BY RedeemLegs
  <2> HIDE DEF value, fee
  <2> QED
    BY <2>1 DEF Recipients
<1>3. fee_ata["manager"][m] \in Nat /\ fee_ata["protocol"][m] \in Nat
  BY DEF TypeOK, Recipients
<1> HIDE DEF value, fee, e
<1>4. FeesAdded(m) = e.manager + e.protocol
  BY <1>1, <1>2, <1>3 DEF FeesAdded
<1> QED
  BY <1>1, <1>4 DEF value, fee

\* Priced again, they come to at most the fee and a micro-USD for every group.
LEMMA FeesWorth ==
  ASSUME TypeOK, SharesConserved, FeesAreFractions,
         NEW i \in Investors, NEW s, NEW legs \in Legs, WithdrawTokenFund(i, s, legs)
  PROVE  LET fee == PerfFeeUsd(i, s, SliceValueUsd(legs, s))
             sum == SumTo([m \in Mints |-> FeeValue(legs, m)], MintCount)
         IN sum \in Int /\ sum <= fee + SumTo(legs, MintCount)
<1> DEFINE value == SliceValueUsd(legs, s)
           fee == PerfFeeUsd(i, s, value)
           u == [m \in Mints |-> FeeValue(legs, m)]
           w == SliceValues(legs, s)
           sum == SumTo(u, MintCount)
           groups == SumTo(legs, MintCount)
<1>1. Redeeming(i, s, legs)
  BY RedeemingArgs
<1>2. /\ value \in Nat /\ fee \in Nat /\ fee <= value
      /\ w \in [Mints -> Nat] /\ value = SumTo(w, MintCount)
  BY <1>1, RedeemValues
<1>3. legs \in [Mints -> Nat] /\ MintCount \in Nat
  BY <1>1, ConstantTypes DEF Redeeming
<1>4. ASSUME NEW m \in Mints
      PROVE  /\ FeeValue(legs, m) \in Nat
             /\ fee = 0 => FeeValue(legs, m) = 0
             /\ value * FeeValue(legs, m) <= fee * w[m] + fee * legs[m]
  <2>1. CASE legs[m] = 0
    <3>1. FeeValue(legs, m) = 0 /\ w[m] = 0
      BY <2>1 DEF FeeValue, SliceValues
    <3> HIDE DEF value, fee, w
    <3> QED
      BY <1>2, <2>1, <3>1
  <2>2. CASE legs[m] # 0
    <3> DEFINE x == FeesAdded(m)
               slice == Slice(m, s)
               up == ScaleUp[oracle_pool[m].feed_id][m]
               down == ScaleDown[oracle_pool[m].feed_id][m]
               n == legs[m]
               a == OracleValueUsd(x, PriceOf(m), up, down)
               b == OracleValueUsd(slice, PriceOf(m), up, down)
    <3>1. n \in Nat /\ HasPrice(m) /\ slice \in Nat
      BY <1>1, <1>3, <2>2, SliceBound DEF Redeeming
    <3>2. PriceOf(m) \in Nat /\ up \in Nat /\ down \in Nat \ {0}
      BY <3>1, PriceType
    <3>3. x \in Nat /\ x * value <= n * (slice * fee) /\ (fee = 0 => x = 0)
      BY FeesTaken
    <3>4. FeeValue(legs, m) = a /\ w[m] = n * b
      BY <2>2 DEF FeeValue, SliceValues, ValueUsd, ValueBy
    <3> HIDE DEF value, fee, w, x, slice, up, down, n
    <3>5. a \in Nat /\ b \in Nat
      BY <3>1, <3>2, <3>3, OracleValueType
    <3>6. a * value <= fee * (n * b) + fee * n
      BY <1>2, <3>1, <3>2, <3>3, LegFeeValue
    <3>7. fee = 0 => a = 0
      BY <3>2, <3>3, ValueOfNothing
    <3> HIDE DEF a, b
    <3>8. a * value = value * a
      BY <1>2, <3>5
    <3> QED
      BY <3>4, <3>5, <3>6, <3>7, <3>8 DEF n
  <2> QED
    BY <1>3, <2>1, <2>2
<1> HIDE DEF value, fee, w
<1>5. u \in [1..MintCount -> Int] /\ \A m \in 1..MintCount : u[m] = FeeValue(legs, m)
  BY <1>4 DEF Mints
<1> HIDE DEF u
<1>6. w \in [1..MintCount -> Int] /\ legs \in [1..MintCount -> Int] /\ legs \in [1..MintCount -> Nat]
  BY <1>2, <1>3 DEF Mints
<1>7. sum \in Int /\ groups \in Nat
  BY <1>3, <1>5, <1>6, SumToInt, SumToNat
<1>8. CASE fee = 0
  <2>1. \A m \in 1..MintCount : u[m] = 0
    BY <1>4, <1>5, <1>8 DEF Mints
  <2>2. sum = 0
    BY <1>3, <1>5, <2>1, SumToZero
  <2> QED
    BY <1>7, <1>8, <2>2 DEF sum, u, fee, value
<1>9. CASE fee # 0
  <2>1. value \in Nat \ {0} /\ fee \in 0..value /\ fee \in Int
    BY <1>2, <1>9
  <2>2. \A m \in 1..MintCount : value * u[m] <= fee * w[m] + fee * legs[m]
    BY <1>4, <1>5 DEF Mints
  <2>3. value * sum <= fee * value + fee * groups
    <3>1. value \in Int /\ fee \in Int /\ MintCount \in Nat
      BY <1>2, <1>3
    <3>2. u \in [1..MintCount -> Int] /\ w \in [1..MintCount -> Int] /\ legs \in [1..MintCount -> Int]
      BY <1>5, <1>6
    <3>3. value * SumTo(u, MintCount) <= fee * SumTo(w, MintCount) + fee * SumTo(legs, MintCount)
      BY ONLY <2>2, <3>1, <3>2, SumToBound
    <3> QED
      BY <1>2, <3>3
  <2> HIDE DEF sum, groups
  <2>4. sum <= fee + groups
    BY <1>7, <2>1, <2>3, SumWithinFee
  <2> QED
    BY <1>7, <2>4 DEF sum, groups, u, fee, value
<1> QED
  BY <1>8, <1>9

\* What PerformanceFeeWithinGain says of a redemption.
FeeWithinGain(i, s, legs) ==
  LET gain == Monus(SliceValueUsd(legs, s), CostSlice(i, s))
      taken == [m \in Mints |-> IF legs[m] = 0 THEN 0 ELSE ValueUsd(m, FeesAdded(m))]
  IN /\ SumTo(taken, MintCount) <= BpsOf(gain, terms.performance_fee) + SumTo(legs, MintCount)
     /\ gain = 0 => fee_ata' = fee_ata

LEMMA RedemptionFee ==
  ASSUME TypeOK, SharesConserved, FeesAreFractions,
         NEW i \in Investors, NEW s, NEW legs \in Legs, WithdrawTokenFund(i, s, legs)
  PROVE  FeeWithinGain(i, s, legs)
<1> DEFINE gain == Monus(SliceValueUsd(legs, s), CostSlice(i, s))
           value == SliceValueUsd(legs, s)
           fee == PerfFeeUsd(i, s, value)
<1>1. fee = BpsOf(gain, terms.performance_fee)
  BY DEF PerfFeeUsd, PerformanceFeeUsd
<1>2. [m \in Mints |-> FeeValue(legs, m)]
        = [m \in Mints |-> IF legs[m] = 0 THEN 0 ELSE ValueUsd(m, FeesAdded(m))]
  BY DEF FeeValue
<1>3. SumTo([m \in Mints |-> FeeValue(legs, m)], MintCount) <= fee + SumTo(legs, MintCount)
  BY FeesWorth
<1>4. ASSUME gain = 0 PROVE fee_ata' = fee_ata
  <2>1. fee = 0
    <3>1. Redeeming(i, s, legs)
      BY RedeemingArgs
    <3>2. terms.performance_fee \in 0..BasisPoints
      BY <3>1, RedeemValues
    <3> HIDE DEF gain, fee
    <3> QED
      BY <1>1, <1>4, <3>2, BpsBound
  <2>2. \A m \in Mints : /\ PaidOut(m, s, legs[m], fee, value).manager = 0
                         /\ PaidOut(m, s, legs[m], fee, value).protocol = 0
    BY <2>1, RedeemLegs
  <2>3. fee_ata' = [r \in Recipients |-> [m \in Mints |-> fee_ata[r][m] +
                      IF r = "manager" THEN PaidOut(m, s, legs[m], fee, value).manager
                                       ELSE PaidOut(m, s, legs[m], fee, value).protocol]]
    BY RedeemLegs
  <2> HIDE DEF fee, value
  <2>4. \A r \in Recipients, m \in Mints : fee_ata[r][m] + 0 = fee_ata[r][m]
    BY DEF TypeOK
  <2>5. fee_ata' = [r \in Recipients |-> [m \in Mints |-> fee_ata[r][m]]]
    BY <2>2, <2>3, <2>4
  <2>6. fee_ata \in [Recipients -> [Mints -> Nat]]
    BY DEF TypeOK
  <2> QED
    BY <2>5, <2>6
<1> HIDE DEF value, fee, gain
<1> QED
  BY <1>1, <1>2, <1>3, <1>4 DEF FeeWithinGain, gain

\* For any prices, basket and rounding: performance fees come out of the gain.
THEOREM PerformanceFeeTheorem == Spec => PerformanceFeeWithinGain
<1>1. ASSUME IInv, NEW i \in Investors, NEW legs \in Legs,
             WithdrawTokenFund(i, shares[i] - shares'[i], legs)
      PROVE  FeeWithinGain(i, shares[i] - shares'[i], legs)
  BY <1>1, RedemptionFee DEF IInv
<1>2. IInv /\ [Next]_vars =>
        [\A i \in Investors :
           shares'[i] < shares[i] =>
             \A legs \in Legs : WithdrawTokenFund(i, shares[i] - shares'[i], legs) =>
               FeeWithinGain(i, shares[i] - shares'[i], legs)]_vars
  BY <1>1
<1> QED
  BY <1>2, Invariance, PTL DEF Spec, PerformanceFeeWithinGain, FeeWithinGain

-----------------------------------------------------------------------------
(* Refinement.                                                             *)

LEMMA LedgerInit == Init => Ledger!Init
BY DEF Init, Ledger!Init

LEMMA LedgerStep ==
  ASSUME IInv, [Next]_vars
  PROVE  [Ledger!Next]_Ledger!ledgerVars
<1>1. /\ TypeOK /\ SharesConserved /\ FeesAreFractions
      /\ total_shares \in Nat /\ raised_amount_usd \in Nat /\ shares \in [Investors -> Nat]
  BY DEF IInv, TypeOK
<1>2. raised_amount_usd' * total_shares >= raised_amount_usd * total_shares'
  BY BasisStep
<1>3. CASE UNCHANGED <<total_shares, shares, raised_amount_usd>>
  BY <1>3 DEF Ledger!ledgerVars
<1>4. ASSUME NEW i \in Investors, NEW amount \in Nat, DepositTokenFund(i, amount)
      PROVE  Ledger!Next
  <2>1. PICK minted \in Nat \ {0}, usd \in Nat :
          /\ shares' = [shares EXCEPT ![i] = shares[i] + minted]
          /\ total_shares' = total_shares + minted
          /\ raised_amount_usd' = raised_amount_usd + usd
    BY <1>4, DepositEffect
  <2>2. Ledger!OnlyMoves(i) /\ shares'[i] > shares[i]
    BY <1>1, <2>1 DEF Ledger!OnlyMoves
  <2>3. raised_amount_usd' >= raised_amount_usd
    BY <1>1, <2>1
  <2>4. QED
    BY <1>2, <2>2, <2>3 DEF Ledger!Next, Ledger!Issue, Ledger!NotDiluted
<1>5. ASSUME NEW i \in Investors, NEW s, NEW legs \in Legs, WithdrawTokenFund(i, s, legs)
      PROVE  Ledger!Next
  <2>1. /\ s \in Nat \ {0} /\ s <= shares[i] /\ s <= total_shares
        /\ shares' = [shares EXCEPT ![i] = shares[i] - s]
        /\ total_shares' = total_shares - s
        /\ raised_amount_usd' <= raised_amount_usd
        /\ s = total_shares => raised_amount_usd' = 0
    BY <1>1, <1>5, RedeemEffect
  <2>2. Ledger!OnlyMoves(i) /\ shares'[i] < shares[i]
    BY <1>1, <2>1 DEF Ledger!OnlyMoves
  <2>3. total_shares' = 0 => raised_amount_usd' = 0
    BY <1>1, <2>1
  <2>4. QED
    BY <1>2, <2>1, <2>2, <2>3 DEF Ledger!Next, Ledger!Burn, Ledger!NotDiluted
<1>6. QED
  BY <1>3, <1>4, <1>5, ShareSteps

\* The vault implements the abstract ledger.
THEOREM LedgerRefinement == Spec => ImplementsShareLedger
<1>1. IInv /\ [Next]_vars => [Ledger!Next]_Ledger!ledgerVars
  BY LedgerStep
<1>2. QED
  BY LedgerInit, <1>1, Invariance, PTL DEF Spec, ImplementsShareLedger, Ledger!Spec

=============================================================================
