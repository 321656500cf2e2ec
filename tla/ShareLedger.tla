----------------------------- MODULE ShareLedger -----------------------------
(***************************************************************************)
(* What a vault promises its investors, whatever its tokens, prices, fees  *)
(* and clocks do: a ledger of shares over a common cost basis, in which    *)
(*   - one holder's shares change at a time and the supply follows,        *)
(*   - neither issuing nor burning lowers the basis per share of others,   *)
(*   - the last share takes the whole basis with it.                       *)
(* Module Vault is shown to implement it.                                  *)
(***************************************************************************)
EXTENDS Integers

CONSTANT Holders

VARIABLES
  supply,    \* all shares
  holding,   \* holder -> shares
  basis      \* the cost basis behind the supply

ledgerVars == <<supply, holding, basis>>

Init ==
  /\ supply = 0
  /\ holding = [h \in Holders |-> 0]
  /\ basis = 0

\* h's shares change, nobody else's do, and the supply changes by as much.
OnlyMoves(h) ==
  /\ \A g \in Holders \ {h} : holding'[g] = holding[g]
  /\ supply' - supply = holding'[h] - holding[h]

NotDiluted == basis' * supply >= basis * supply'

Issue(h) ==
  /\ OnlyMoves(h)
  /\ holding'[h] > holding[h]
  /\ basis' >= basis
  /\ NotDiluted

Burn(h) ==
  /\ OnlyMoves(h)
  /\ holding'[h] < holding[h]
  /\ basis' <= basis
  /\ NotDiluted
  /\ supply' = 0 => basis' = 0

Next == \E h \in Holders : Issue(h) \/ Burn(h)

Spec == Init /\ [][Next]_ledgerVars

=============================================================================
