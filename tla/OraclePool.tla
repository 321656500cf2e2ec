----------------------------- MODULE OraclePool -----------------------------
(***************************************************************************)
(* The oracle registry of the fbyt_vault program: one OraclePool account   *)
(* per mint, naming the Pyth feed that prices it and whether the protocol  *)
(* admin has approved it; and the feeds themselves, which are outside the  *)
(* program.                                                                *)
(*                                                                         *)
(* quote[f] is what a handler reads from feed f now: a positive price, or  *)
(* Unusable when the handler would reject it (older than oracle_max_age,   *)
(* not positive, or no such feed).                                         *)
(***************************************************************************)
EXTENDS Integers

CONSTANTS
  MintCount,   \* mints are 1..MintCount
  Feeds,       \* Pyth feed ids
  Prices       \* positive prices a feed may show

ASSUME OracleAssumption ==
  /\ MintCount \in Nat \ {0}
  /\ Feeds # {}
  /\ Prices \subseteq Nat \ {0}

VARIABLES
  oracle_pool, \* mint -> the OraclePool account, or NoOracle
  quote        \* feed -> the price a handler reads, or Unusable

oracleVars == <<oracle_pool, quote>>

Mints == 1..MintCount
Unusable == 0

OraclePools == [exists: {TRUE}, is_approved: BOOLEAN, feed_id: Feeds]
NoOracle == [exists |-> FALSE]

OracleTypeOK ==
  /\ oracle_pool \in [Mints -> OraclePools \cup {NoOracle}]
  /\ quote \in [Feeds -> Prices \cup {Unusable}]

Exists(m) == oracle_pool[m].exists
IsApproved(m) == Exists(m) /\ oracle_pool[m].is_approved

\* What pricing mint m yields: approval, then get_price_no_older_than, then > 0.
PriceOf(m) == quote[oracle_pool[m].feed_id]
HasPrice(m) == IsApproved(m) /\ PriceOf(m) # Unusable

\* Anyone may propose a feed for a mint that has none; it starts unapproved.
CreateOraclePool(m, f) ==
  /\ ~Exists(m)
  /\ oracle_pool' = [oracle_pool EXCEPT ![m] =
                       [exists |-> TRUE, is_approved |-> FALSE, feed_id |-> f]]
  /\ UNCHANGED quote

ApproveOraclePool(m) ==
  /\ Exists(m)
  /\ oracle_pool' = [oracle_pool EXCEPT ![m].is_approved = TRUE]
  /\ UNCHANGED quote

\* Replaces the feed and keeps the approval.
UpdateOraclePool(m, f) ==
  /\ Exists(m)
  /\ oracle_pool' = [oracle_pool EXCEPT ![m].feed_id = f]
  /\ UNCHANGED quote

CloseOraclePool(m) ==
  /\ Exists(m)
  /\ oracle_pool' = [oracle_pool EXCEPT ![m] = NoOracle]
  /\ UNCHANGED quote

\* The feed publishes a price, or the last one grows older than oracle_max_age.
PythUpdate(f, p) ==
  /\ quote' = [quote EXCEPT ![f] = p]
  /\ UNCHANGED oracle_pool

OracleAdminNext ==
  \E m \in Mints :
    \/ \E f \in Feeds : CreateOraclePool(m, f) \/ UpdateOraclePool(m, f)
    \/ ApproveOraclePool(m)
    \/ CloseOraclePool(m)

PythNext == \E f \in Feeds, p \in Prices \cup {Unusable} : PythUpdate(f, p)

=============================================================================
