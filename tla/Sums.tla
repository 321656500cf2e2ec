-------------------------------- MODULE Sums --------------------------------
(***************************************************************************)
(* Sums over 1..n, repetition and powers, written as recursive functions   *)
(* (not RECURSIVE operators) so that module Sums_proofs can reason about   *)
(* them.  The on-chain program never computes a sum over its investors: it *)
(* keeps running totals (total_shares, raised_amount_usd) beside the       *)
(* per-investor accounts, and the properties of module Vault compare them. *)
(***************************************************************************)
EXTENDS Integers

\* s[k] = f[1] + ... + f[k] for every k in 0..n.
PrefixSums(f, n) ==
    LET s[k \in 0..n] == IF k = 0 THEN 0 ELSE s[k - 1] + f[k] IN s

SumTo(f, n) == PrefixSums(f, n)[n]

\* it[k] = step applied k times to x, for every k in 0..n: a loop's passes.
Iterates(step, x, n) ==
    LET it[k \in 0..n] == IF k = 0 THEN x ELSE step[it[k - 1]] IN it

Power(b, n) == Iterates([v \in Nat |-> v * b], 1, n)[n]

=============================================================================
