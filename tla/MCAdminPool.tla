----------------------------- MODULE MCAdminPool -----------------------------
(***************************************************************************)
(* What AdminPool is offered under TLC: see MCStore for the runs.          *)
(***************************************************************************)
EXTENDS AdminPool

\* One set of limits that is refused and two that are accepted, under which the terms
\* offered are allowed by one, by the other or by none.
Limits(fee, raise, slippage) ==
  [f \in Fields |-> CASE f = "performance_fee_max" -> fee
                     [] f = "raise_amount_min_usd" -> raise
                     [] f = "max_slippage_bps" -> slippage
                     [] OTHER -> 1]
MCLimits == {Limits(WholeBps, 1, WholeBps), Limits(0, 2, 1),
             Limits(WholeBps + 1, 2, WholeBps + 1)}

Terms(fee, raise) ==
  [ money_management_fee |-> 1, performance_fee |-> fee, withdraw_cooldown |-> 1,
    mm_withdraw_period |-> 1, raise_period |-> 1, min_raise_amount |-> raise,
    min_contribute_amount |-> 1 ]
MCTerms == {Terms(WholeBps, 1), Terms(0, 2), Terms(WholeBps + 1, 2)}

=============================================================================
