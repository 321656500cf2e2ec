------------------------------- MODULE Keeper -------------------------------
(***************************************************************************)
(* The trading keepers and the bots they run: the Rust keeper with its     *)
(* leader lock, the TypeScript keeper in --db mode, which takes no lock,   *)
(* the bots API through which the owner creates, halts and deletes bots,   *)
(* and the SQLite documents they all share.                                *)
(*                                                                         *)
(* Each SQL statement or transaction is one step, and so is each call to   *)
(* the chain.  A process may die, and a swap may fail or land without the  *)
(* keeper learning it, between any two steps.  Durations count what is     *)
(* left: lock.left is exp - now, 0 once the lock has expired.  Orders are  *)
(* appended and never read back by a keeper; they are left out.            *)
(***************************************************************************)
EXTENDS Integers

CONSTANTS
  Keepers,      \* Rust keeper processes
  TsKeepers,    \* TypeScript keeper processes
  Bots,
  GridBots,     \* the bots with a grid strategy; the others are dca or rebalance
  Nobody,       \* no lock document
  Gone,         \* the holder string of a pass that ended without releasing
  LockTtl,      \* main.rs 335, 120 s, in ticks
  GridPrices,   \* prices of the grids' base mint
  StepBps       \* the stepBps a strategy is posted with: the API takes any

Processes == Keepers \cup TsKeepers

ASSUME KeeperAssumption ==
  /\ Keepers \cap TsKeepers = {}
  /\ {Nobody, Gone} \cap Keepers = {} /\ Nobody # Gone
  /\ Bots # {} /\ GridBots \subseteq Bots
  /\ LockTtl \in Nat \ {0}
  /\ GridPrices \subseteq Nat \ {0}
  /\ StepBps \subseteq Nat

VARIABLES
  lock,      \* the keeperLocks document: holder, and what is left of its ttl
  bots,      \* the bots documents
  price,     \* of the grid's base mint, as the chain shows it
  pc,        \* process -> where it is in its pass
  snap,      \* process -> bots_obj, the documents read when the pass began
  todo,      \* process -> the bots of the pass still to be run
  bot,       \* process -> the bot it is running
  cur,       \* process -> the price it read for that bot, None when it has no bot
  deleting,  \* bot -> its DELETE request: how far it is, the document it has read
  lease,     \* history: process -> what is left of the ttl of its own lock
  fill,      \* history: bot -> the price of its last trade, None once it had nothing to send
  alone,     \* history: the process, if any, in whose pass no other has been in a pass
  astray     \* history: bots with a trade that no pass recorded, or two passes made, or
             \* whose document was put back, since a pass that was alone ran them

dbVars == <<lock, bots>>
passVars == <<snap, todo, bot, cur>>
historyVars == <<lease, fill, alone, astray>>
vars == <<dbVars, price, pc, passVars, deleting, historyVars>>

None == 0
Docs == [ exists : {TRUE}, enabled : BOOLEAN, deleted : BOOLEAN,
          stepBps : StepBps, last : GridPrices \cup {None} ]
NoDoc == [exists |-> FALSE]
NoLock == [holder |-> Nobody, left |-> 0]
NoBots == [b \in Bots |-> NoDoc]
Steps == {"idle", "locked", "pass", "running", "evaluated", "within", "nothing", "traded"}
NoRequest == [step |-> "none", doc |-> NoDoc]

Idle(k) == pc[k] = "idle"
InPass(k) == pc[k] \notin {"idle", "locked"}
Trading(k) == InPass(k) /\ pc[k] # "pass"
\* Mutant: what is left of an expired lock keeps falling.
Elapse_Signed(n) == n - 1
Elapse(n) == IF n > 0 THEN n - 1 ELSE 0

KeeperTypeOK ==
  /\ lock \in [holder : Keepers \cup {Nobody, Gone}, left : 0..LockTtl]
  /\ bots \in [Bots -> Docs \cup {NoDoc}]
  /\ price \in GridPrices
  /\ pc \in [Processes -> Steps]
  /\ snap \in [Processes -> [Bots -> Docs \cup {NoDoc}]]
  /\ todo \in [Processes -> SUBSET Bots]
  /\ bot \in [Processes -> Bots]
  /\ cur \in [Processes -> GridPrices \cup {None}]
  /\ deleting \in [Bots -> [step : {"none", "read", "disabled"}, doc : Docs \cup {NoDoc}]]
  /\ lease \in [Keepers -> 0..LockTtl]
  /\ fill \in [Bots -> GridPrices \cup {None}]
  /\ alone \subseteq Processes
  /\ astray \subseteq Bots

Init ==
  /\ lock = NoLock
  /\ bots = NoBots
  /\ price \in GridPrices
  /\ pc = [k \in Processes |-> "idle"]
  /\ snap = [k \in Processes |-> NoBots]
  /\ todo = [k \in Processes |-> {}]
  /\ bot = [k \in Processes |-> CHOOSE b \in Bots : TRUE]
  /\ cur = [k \in Processes |-> None]
  /\ deleting = [b \in Bots |-> NoRequest]
  /\ lease = [k \in Keepers |-> 0]
  /\ fill = [b \in Bots |-> None]
  /\ alone = {}
  /\ astray = {}

-----------------------------------------------------------------------------
(* The leader lock.  Every pass has a holder string of its own, so a lock   *)
(* left behind by an earlier pass of the same process binds it like any     *)
(* other until it expires.                                                  *)

\* Mutant: a lock is held until it is released.
MayLock_NoExpiry == lock.holder = Nobody
MayLock == lock.left = 0

AcquireLock(k) ==
  /\ Idle(k)
  /\ MayLock
  /\ lock' = [holder |-> k, left |-> LockTtl]
  /\ lease' = [lease EXCEPT ![k] = LockTtl]
  /\ pc' = [pc EXCEPT ![k] = "locked"]
  /\ UNCHANGED <<bots, price, passVars, deleting, fill, alone, astray>>

\* Mutant: whoever holds the lock, it is deleted.
LockWithout_AnyHolder(k) == NoLock

\* The lock once k's pass has released it: deleted only if it is still k's.
LockWithout(k) == IF lock.holder = k THEN NoLock ELSE lock

-----------------------------------------------------------------------------
(* A pass.                                                                  *)

\* The enabled bots; only the Rust keeper looks at the tombstone.
Runnable(k) ==
  {b \in Bots : bots[b].exists /\ bots[b].enabled /\ (k \in TsKeepers \/ ~bots[b].deleted)}

LoadBots(k) ==
  /\ pc[k] = IF k \in Keepers THEN "locked" ELSE "idle"
  /\ snap' = [snap EXCEPT ![k] = bots]
  /\ todo' = [todo EXCEPT ![k] = Runnable(k)]
  /\ pc' = [pc EXCEPT ![k] = "pass"]
  /\ alone' = IF \E j \in Processes \ {k} : InPass(j) THEN {} ELSE {k}
  /\ UNCHANGED <<dbVars, price, bot, cur, deleting, lease, fill, astray>>

RunBot(k) ==
  /\ pc[k] = "pass"
  /\ \E b \in todo[k] :
       /\ todo' = [todo EXCEPT ![k] = @ \ {b}]
       /\ bot' = [bot EXCEPT ![k] = b]
  /\ pc' = [pc EXCEPT ![k] = "running"]
  /\ UNCHANGED <<dbVars, price, snap, cur, deleting, historyVars>>

\* A vault whose delegate is another key is skipped with all its bots.
SkipVault(k) ==
  /\ pc[k] = "pass"
  /\ todo[k] # {}
  /\ \E rest \in SUBSET todo[k] : rest # todo[k] /\ todo' = [todo EXCEPT ![k] = rest]
  /\ UNCHANGED <<dbVars, price, pc, snap, bot, cur, deleting, historyVars>>

\* What the grid strategy compares the price with.
LastGridPrice(k) ==
  IF snap[k][bot[k]].last = None THEN price ELSE snap[k][bot[k]].last

StepOf(k, last) == (last * snap[k][bot[k]].stepBps) \div 10000
\* A step of zero is no distance at all: such a bot trades in every pass.
AStepAway(k, now, last) ==
  now <= last - StepOf(k, last) \/ now >= last + StepOf(k, last)

\* The strategy reads the price and decides: a grid trades when the price is a step away
\* from the recorded one, dca and rebalance by balances and prices not shown here.
Evaluate(k) ==
  /\ pc[k] = "running"
  /\ cur' = [cur EXCEPT ![k] = price]
  /\ \E wants \in BOOLEAN :
       /\ bot[k] \in GridBots => wants = AStepAway(k, price, LastGridPrice(k))
       /\ pc' = [pc EXCEPT ![k] = IF wants THEN "evaluated" ELSE "within"]
  /\ UNCHANGED <<dbVars, price, snap, todo, bot, deleting, historyVars>>

\* The bots k's pass leads astray by touching its bot: none while it is alone.
LedAstray(k) == IF k \in alone THEN {} ELSE {bot[k]}

\* The swap lands; vault, program and Jupiter are in module Vault.
SendSwap(k) ==
  /\ pc[k] = "evaluated"
  /\ pc' = [pc EXCEPT ![k] = "traded"]
  /\ fill' = [fill EXCEPT ![bot[k]] = cur[k]]
  /\ astray' = astray \cup LedAstray(k)
  /\ UNCHANGED <<dbVars, price, passVars, deleting, lease, alone>>

\* Nothing to send: the amount to trade, or the output to expect, is zero.
SendNothing(k) ==
  /\ pc[k] = "evaluated"
  /\ pc' = [pc EXCEPT ![k] = "nothing"]
  /\ fill' = [fill EXCEPT ![bot[k]] = None]
  /\ UNCHANGED <<dbVars, price, passVars, deleting, lease, alone, astray>>

\* Mutant: the price of the first run is kept for good.
NewGridPrice_First(k) ==
  IF snap[k][bot[k]].last # None THEN snap[k][bot[k]].last ELSE cur[k]

\* The lastGridPrice to store: within a step the old one stays.
NewGridPrice(k) ==
  IF pc[k] = "within" /\ snap[k][bot[k]].last # None THEN snap[k][bot[k]].last ELSE cur[k]

\* A document with the state the strategy leaves; dca and rebalance leave none.
Recorded(k, doc) ==
  IF bot[k] \in GridBots THEN [doc EXCEPT !.last = NewGridPrice(k)] ELSE doc

\* The Rust keeper stores the document it read at the start, the TypeScript one merges the
\* new fields into the document as it is now.  A pass that was alone and traded, or had
\* nothing to send, puts its bot right.
WriteBack(k) ==
  /\ pc[k] \in {"traded", "nothing", "within"}
  /\ bots' = [bots EXCEPT ![bot[k]] = Recorded(k, IF k \in Keepers THEN snap[k][bot[k]] ELSE @)]
  /\ astray' = (IF pc[k] = "within" THEN astray ELSE astray \ {bot[k]}) \cup LedAstray(k)
  /\ pc' = [pc EXCEPT ![k] = "pass"]
  /\ cur' = [cur EXCEPT ![k] = None]
  /\ UNCHANGED <<lock, price, snap, todo, bot, deleting, lease, fill, alone>>

FinishPass(k) ==
  /\ pc[k] = "pass"
  /\ todo[k] = {}
  /\ pc' = [pc EXCEPT ![k] = "idle"]
  /\ snap' = [snap EXCEPT ![k] = NoBots]
  /\ lock' = LockWithout(k)
  /\ lease' = [j \in Keepers |-> IF j = k THEN 0 ELSE lease[j]]
  /\ UNCHANGED <<bots, price, todo, bot, cur, deleting, fill, alone, astray>>

\* A trade that k has sent and will not record.
Lost(k) == IF pc[k] = "traded" THEN {bot[k]} ELSE {}

\* The process dies, or the Rust keeper meets an error anywhere in its pass and leaves
\* it by `?`: the lock stays, with a holder string that no pass will have again.
AbortPass(k) ==
  /\ ~Idle(k)
  /\ pc' = [pc EXCEPT ![k] = "idle"]
  /\ snap' = [snap EXCEPT ![k] = NoBots]
  /\ todo' = [todo EXCEPT ![k] = {}]
  /\ cur' = [cur EXCEPT ![k] = None]
  /\ lock' = IF lock.holder = k THEN [lock EXCEPT !.holder = Gone] ELSE lock
  /\ lease' = [j \in Keepers |-> IF j = k THEN 0 ELSE lease[j]]
  /\ astray' = astray \cup Lost(k)
  /\ UNCHANGED <<bots, price, bot, deleting, fill, alone>>

\* The TypeScript keeper catches a bot's error and goes on with the next.
TsBotError(k) ==
  /\ k \in TsKeepers
  /\ Trading(k)
  /\ pc' = [pc EXCEPT ![k] = "pass"]
  /\ cur' = [cur EXCEPT ![k] = None]
  /\ astray' = astray \cup Lost(k)
  /\ UNCHANGED <<dbVars, price, snap, todo, bot, deleting, lease, fill, alone>>

-----------------------------------------------------------------------------
(* The bots API.                                                            *)

CreateBot(b) ==
  /\ ~bots[b].exists
  /\ \E bps \in StepBps :
       bots' = [bots EXCEPT ![b] = [ exists |-> TRUE, enabled |-> TRUE, deleted |-> FALSE,
                                     stepBps |-> bps, last |-> None ]]
  /\ UNCHANGED <<lock, price, pc, passVars, deleting, historyVars>>

\* PATCH: the owner halts or enables the bot, whatever else the document says.
PatchBot(b, enabled) ==
  /\ bots[b].exists
  /\ bots' = [bots EXCEPT ![b].enabled = enabled]
  /\ UNCHANGED <<lock, price, pc, passVars, deleting, historyVars>>

\* DELETE, in three statements: read the document, disable it, store a tombstone made
\* of what was read.
DeleteRead(b) ==
  /\ bots[b].exists
  /\ deleting[b].step = "none"
  /\ deleting' = [deleting EXCEPT ![b] = [step |-> "read", doc |-> bots[b]]]
  /\ UNCHANGED <<dbVars, price, pc, passVars, historyVars>>

DeleteDisable(b) ==
  /\ deleting[b].step = "read"
  /\ deleting' = [deleting EXCEPT ![b].step = "disabled"]
  /\ bots' = [bots EXCEPT ![b].enabled = FALSE]
  /\ UNCHANGED <<lock, price, pc, passVars, historyVars>>

DeleteTombstone(b) ==
  /\ deleting[b].step = "disabled"
  /\ bots' = [bots EXCEPT ![b] = [deleting[b].doc EXCEPT !.enabled = FALSE, !.deleted = TRUE]]
  /\ deleting' = [deleting EXCEPT ![b] = NoRequest]
  /\ astray' = astray \cup {b}
  /\ UNCHANGED <<lock, price, pc, passVars, lease, fill, alone>>

-----------------------------------------------------------------------------
(* The environment.                                                         *)

\* Time passes while a lock, or the lock of a pass, has time left.
Tick ==
  /\ lock.left > 0 \/ \E k \in Keepers : lease[k] > 0
  /\ lock' = [lock EXCEPT !.left = Elapse(@)]
  /\ lease' = [k \in Keepers |-> Elapse(lease[k])]
  /\ UNCHANGED <<bots, price, pc, passVars, deleting, fill, alone, astray>>

PriceMove ==
  /\ price' \in GridPrices \ {price}
  /\ UNCHANGED <<dbVars, pc, passVars, deleting, historyVars>>

PassNext(k) ==
  \/ LoadBots(k) \/ RunBot(k) \/ SkipVault(k)
  \/ Evaluate(k) \/ SendSwap(k) \/ SendNothing(k) \/ WriteBack(k)
  \/ FinishPass(k) \/ AbortPass(k) \/ TsBotError(k)

ApiNext(b) ==
  \/ CreateBot(b)
  \/ \E enabled \in BOOLEAN : PatchBot(b, enabled)
  \/ DeleteRead(b) \/ DeleteDisable(b) \/ DeleteTombstone(b)

Next ==
  \/ \E k \in Keepers : AcquireLock(k)
  \/ \E k \in Processes : PassNext(k)
  \/ \E b \in Bots : ApiNext(b)
  \/ Tick
  \/ PriceMove

Spec == Init /\ [][Next]_vars

\* The clock runs, and a Rust keeper between passes tries again after its interval.
\* Nothing is assumed of a pass: it may hang or die.
KeeperFairness == WF_vars(Tick) /\ \A k \in Keepers : WF_vars(AcquireLock(k))
FairSpec == Spec /\ KeeperFairness

-----------------------------------------------------------------------------
(* Properties.                                                              *)

\* At most one keeper is in a pass whose own lock has not run out: neither expiry, a
\* release by a pass that has outlived its lock, nor a crash lets a second one in early.
LeaseExclusive ==
  \A j, k \in Keepers : lease[j] > 0 /\ lease[k] > 0 => j = k

\* What leads a grid bot astray - a pass that dies or fails between a trade and its write,
\* a pass that overlaps another, a tombstone made of an old document - leads it astray only
\* until a pass that is alone trades for it: from then on such passes trade only a step
\* away from its last trade, whatever its owner does to the document meanwhile, whichever
\* keeper runs it and however stale the document is that a pass writes back.
GridMovesAStep ==
  [][\A k \in alone :
       pc[k] = "evaluated" /\ pc'[k] = "traded" /\ bot[k] \in GridBots \ astray =>
         fill[bot[k]] = None \/ AStepAway(k, cur[k], fill[bot[k]])]_vars

\* The lock of a keeper that died does not wedge the others: it is taken over or gone.
LockRecovers == lock.holder = Gone ~> lock.holder # Gone

\* Two Rust keepers never trade the same bot at the same time (main.rs: "so two keeper
\* instances never trade the same bots concurrently").
NoConcurrentTrading ==
  \A j, k \in Keepers : j # k /\ Trading(j) /\ Trading(k) => bot[j] # bot[k]

\* A deleted bot stays deleted (bots/[id]/route.ts: "tombstoned so the keeper skips it
\* and it drops from listings").
DeletedStaysDeleted ==
  [][\A b \in Bots : bots[b].exists /\ bots[b].deleted => bots'[b].deleted]_vars

=============================================================================
