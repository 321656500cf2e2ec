------------------------------ MODULE MCStore ------------------------------
(***************************************************************************)
(* What stands beside the vaults and the pages, for TLC: the protocol's    *)
(* own account, the keepers and their bots, the indexer, and the limiter   *)
(* that the routes stand behind.  They share no state, so each gets a      *)
(* scene in which the others stand still.                                  *)
(***************************************************************************)
EXTENDS MCAdminPool, Keeper, RateLimit, Indexer

VARIABLE scene

keeperVars == vars
allVars == <<scene, adminVars, keeperVars, limitVars, indexVars>>

StoreInit ==
  /\ scene \in {"admin", "lock", "grid", "owner", "limit", "index"}
  /\ Init /\ (scene # "grid" => price = 2)
  /\ AdminInit /\ LimitInit /\ IndexInit

\* Three keys of which two manage vaults, two vaults between them, and one of the two is
\* never the operator.
AdminSceneNext ==
  /\ AdminNext
  /\ Cardinality(vaults') <= 2
  /\ operator' # CHOOSE k \in Managers : TRUE

ABot == CHOOSE b \in Bots : TRUE

Ticks == Tick /\ (scene = "lock" \/ lock.holder = Gone)

\* Rust keepers over a bot with a step of zero, which trades in every pass and which its
\* owner leaves alone: what the lock does when passes hang, die and outlive it.
LockNext ==
  \/ \E k \in Keepers : AcquireLock(k) \/ PassNext(k)
  \/ CreateBot(ABot) /\ bots'[ABot].stepBps = 0
  \/ Ticks

\* One keeper of each kind over a grid bot, its owner and the market.  The price moves when
\* a pass is about to read it, and a lock expires once its pass is over.
OneKeeper == CHOOSE k \in Keepers : TRUE
GridNext ==
  \/ AcquireLock(OneKeeper)
  \/ Ticks
  \/ \E k \in {OneKeeper} \cup TsKeepers : PassNext(k)
  \/ CreateBot(ABot) /\ bots'[ABot].stepBps # 0
  \/ PriceMove /\ \E k \in Processes : pc[k] = "running"

\* The same with the owner's requests: a bot is halted and enabled, or it is deleted, once,
\* and enabled again; two prices.
Deleted(b) == deleting[b].step # "none" \/ (bots[b].exists /\ bots[b].deleted)
OwnerNext ==
  \/ GridNext /\ price' # 3
  \/ PatchBot(ABot, TRUE)
  \/ PatchBot(ABot, FALSE) /\ ~Deleted(ABot)
  \/ DeleteRead(ABot) /\ ~Deleted(ABot) /\ bots[ABot].enabled
  \/ DeleteDisable(ABot)
  \/ DeleteTombstone(ABot)

StoreNext ==
  /\ UNCHANGED scene
  /\ \/ scene = "admin" /\ AdminSceneNext /\ UNCHANGED <<keeperVars, limitVars, indexVars>>
     \/ scene = "lock" /\ LockNext /\ UNCHANGED <<adminVars, limitVars, indexVars>>
     \/ scene = "grid" /\ GridNext /\ UNCHANGED <<adminVars, limitVars, indexVars>>
     \/ scene = "owner" /\ OwnerNext /\ UNCHANGED <<adminVars, limitVars, indexVars>>
     \/ scene = "limit" /\ LimitNext /\ UNCHANGED <<adminVars, keeperVars, indexVars>>
     \/ scene = "index" /\ IndexNext /\ UNCHANGED <<adminVars, keeperVars, limitVars>>

\* What each module assumes of its own steps, in its own scene.
Acquires(k) ==
  /\ scene = "lock" \/ (scene \in {"grid", "owner"} /\ k = OneKeeper)
  /\ AcquireLock(k)
StoreFairness ==
  /\ WF_vars(Ticks)
  /\ \A k \in Keepers : WF_vars(Acquires(k))
  /\ WF_limitVars(scene = "limit" /\ Age)
  /\ WF_indexVars(scene = "index" /\ Works)

StoreSpec == StoreInit /\ [][StoreNext]_allVars /\ StoreFairness

=============================================================================
