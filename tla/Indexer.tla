------------------------------- MODULE Indexer -------------------------------
(***************************************************************************)
(* The indexer (scripts/indexer.ts) and what it reads: the trades route's  *)
(* scan of a vault's latest transactions (lib/trades.ts) and its value.    *)
(* Vaults do not disturb each other, so one is followed; a pass that ends  *)
(* on another vault's trouble ends before it reaches this one.             *)
(*                                                                         *)
(* A step is one request to the app, one call of the document store, or a  *)
(* transaction of the vault landing.  Of a trade its signature is kept, of *)
(* a snapshot the value.                                                   *)
(***************************************************************************)
EXTENDS Integers, Sequences

CONSTANTS
  PageLimit,      \* how many transactions the scan looks back, failed ones included
  MaxTxs,         \* bound on the vault's transactions
  MaxSpans,       \* bound on the snapshot buckets gone through
  MaxFaults       \* bound on the requests and calls that fail

ASSUME IndexerAssumption == PageLimit \in Nat /\ MaxTxs \in Nat /\ MaxSpans \in Nat /\ MaxFaults \in Nat

VARIABLES
  txs,        \* the vault's transactions, oldest first; a signature is a place in it
  span,       \* the bucket the present time is in
  snapshots,  \* collection navSnapshots: bucket -> value
  trades,     \* collection trades: the signatures recorded
  pass,       \* how far the indexer's pass is, and what it holds
  seen,       \* history: the transactions there were at the last scan that was put in full
  gap,        \* history: more than a page came between two such scans
  faults      \* how much has failed

indexVars == <<txs, span, snapshots, trades, pass, seen, gap, faults>>

Kinds == {"swap", "failed", "other"}
Asleep == [step |-> "sleep", span |-> 0, value |-> 0, page |-> {}, upto |-> 0]

IndexInit ==
  /\ txs = << >>
  /\ span = 0
  /\ snapshots = << >>
  /\ trades = {}
  /\ pass = Asleep
  /\ seen = 0
  /\ gap = FALSE
  /\ faults = 0

\* The vault's value, which moves with whatever happens to it.
Nav == Len(txs)

\* The vault trades, or something else happens to it.
LandTx(kind) ==
  /\ Len(txs) < MaxTxs
  /\ txs' = Append(txs, kind)
  /\ UNCHANGED <<span, snapshots, trades, pass, seen, gap, faults>>
NextSpan ==
  /\ span < MaxSpans
  /\ span' = span + 1
  /\ UNCHANGED <<txs, snapshots, trades, pass, seen, gap, faults>>

Fails == faults < MaxFaults /\ faults' = faults + 1

-----------------------------------------------------------------------------
(* A pass.                                                                  *)

\* The time is read once, when the list of vaults is there.
StartPass ==
  /\ pass.step = "sleep"
  /\ pass' = [pass EXCEPT !.step = "nav", !.span = span]
  /\ UNCHANGED <<txs, span, snapshots, trades, seen, gap, faults>>

\* The value, or none when the route fails.
FetchNav ==
  /\ pass.step = "nav"
  /\ pass' \in { [pass EXCEPT !.step = "append", !.value = Nav], [pass EXCEPT !.step = "scan"] }
  /\ UNCHANGED <<txs, span, snapshots, trades, seen, gap, faults>>

\* Mutant: a later snapshot of the bucket takes the place of the first.
Appended_Replace(docs, key, value) ==
  [k \in DOMAIN docs \cup {key} |-> IF k = key THEN value ELSE docs[k]]
Appended(docs, key, value) ==
  [k \in DOMAIN docs \cup {key} |-> IF k \in DOMAIN docs THEN docs[k] ELSE value]

AppendSnapshot ==
  /\ pass.step = "append"
  /\ snapshots' = Appended(snapshots, pass.span, pass.value)
  /\ pass' = [pass EXCEPT !.step = "scan"]
  /\ UNCHANGED <<txs, span, trades, seen, gap, faults>>

\* The latest transactions of the vault.
Latest == {s \in 1..Len(txs) : s > Len(txs) - PageLimit}
\* Mutant: the scan stops at a transaction that failed.
Scan_StopsAtFailed(missed) ==
  {s \in Latest \ missed : txs[s] = "swap" /\ \A t \in Latest : txs[t] = "failed" => t < s}
\* The trades among them; a transaction that cannot be fetched is passed over.
Scan(missed) == {s \in Latest \ missed : txs[s] = "swap"}

FetchTrades(missed) ==
  /\ pass.step = "scan"
  /\ pass' = [pass EXCEPT !.step = "put", !.page = Scan(missed),
                          !.upto = IF missed = {} THEN Len(txs) ELSE seen]
  /\ IF missed = {} THEN UNCHANGED faults ELSE Fails
  /\ UNCHANGED <<txs, span, snapshots, trades, seen, gap>>

\* The trades are put latest first.
PutTrade ==
  /\ pass.step = "put"
  /\ \E s \in pass.page :
       /\ \A t \in pass.page : t <= s
       /\ trades' = trades \cup {s}
       /\ pass' = [pass EXCEPT !.page = @ \ {s}]
  /\ UNCHANGED <<txs, span, snapshots, seen, gap, faults>>

EndPass ==
  /\ pass.step = "put" /\ pass.page = {}
  /\ pass' = Asleep
  /\ seen' = pass.upto
  /\ gap' = (gap \/ pass.upto - seen > PageLimit)
  /\ UNCHANGED <<txs, span, snapshots, trades, faults>>

\* A request or a call of the store fails and the rest of the pass is given up, or the
\* indexer is restarted.
BreakOff ==
  /\ pass.step # "sleep"
  /\ Fails
  /\ pass' = Asleep
  /\ UNCHANGED <<txs, span, snapshots, trades, seen, gap>>

FetchAnyTrades == \E missed \in SUBSET (1..Len(txs)) : FetchTrades(missed)
Works == StartPass \/ FetchNav \/ AppendSnapshot \/ FetchAnyTrades \/ PutTrade \/ EndPass

IndexNext == (\E kind \in Kinds : LandTx(kind)) \/ NextSpan \/ Works \/ BreakOff

\* The indexer's loop runs on; within the bound it gets what it asks for in the end.
IndexFairness == WF_indexVars(Works)

IndexSpec == IndexInit /\ [][IndexNext]_indexVars /\ IndexFairness

-----------------------------------------------------------------------------

\* While no more than a page of transactions, failed ones counted, come between the scans
\* that end well, every trade up to the last of them is recorded, whatever passes broke off
\* or passed transactions over; and nothing else is recorded ("each tick is idempotent").
NothingMissed ==
  /\ \A s \in trades : txs[s] = "swap"
  /\ ~gap => \A s \in 1..seen : txs[s] = "swap" => s \in trades

\* A vault's history does not change after the fact: a bucket keeps its first snapshot, and
\* a trade stays.
HistoryIsKept ==
  [][ /\ \A b \in DOMAIN snapshots : b \in DOMAIN snapshots' /\ snapshots'[b] = snapshots[b]
      /\ trades \subseteq trades' ]_indexVars

\* Every trade is recorded in the end, unless a page of newer transactions comes before.
TradesArrive ==
  \A s \in 1..MaxTxs :
    (s <= Len(txs) /\ txs[s] = "swap") ~> (s \in trades \/ Len(txs) - s >= PageLimit)

=============================================================================
