---------------------------- MODULE Keeper_proofs ----------------------------
(***************************************************************************)
(* The leader lock of module Keeper, for any number of keepers and bots.   *)
(***************************************************************************)
EXTENDS Keeper, TLAPS

\* A pass whose lock has time left is the one the lock document names, and the
\* document has as much time left as the pass.
LeaseIsLock ==
  \A k \in Keepers : lease[k] > 0 => lock.holder = k /\ lock.left = lease[k]

\* A pass holds a document of the bot it runs and of those it has yet to run.
Copies ==
  \A k \in Processes :
    /\ Trading(k) => snap[k][bot[k]] \in Docs
    /\ \A b \in todo[k] : snap[k][b] \in Docs

KInv == KeeperTypeOK /\ LeaseIsLock /\ Copies

\* Time left stays a number of ticks up to the ttl.
LEMMA ElapseType ==
  ASSUME NEW n \in 0..LockTtl
  PROVE  /\ Elapse(n) \in 0..LockTtl
         /\ Elapse(n) > 0 => n > 0 /\ Elapse(n) = n - 1
<1>1. LockTtl \in Nat /\ n \in Nat /\ n <= LockTtl
  BY KeeperAssumption DEF KeeperAssumption
<1> QED
  BY <1>1 DEF Elapse

\* An update of a field leaves a document a document, and no document no document.
LEMMA DocUpdate ==
  ASSUME NEW d \in Docs \cup {NoDoc}, NEW flag \in BOOLEAN, NEW p \in GridPrices \cup {None}
  PROVE  /\ [d EXCEPT !.enabled = flag] \in Docs \cup {NoDoc}
         /\ [d EXCEPT !.enabled = FALSE, !.deleted = TRUE] \in Docs \cup {NoDoc}
         /\ [d EXCEPT !.last = p] \in Docs \cup {NoDoc}
<1>1. CASE d \in Docs
  <2>1. [d EXCEPT !.enabled = flag] \in Docs
    BY <1>1 DEF Docs
  <2>2. [d EXCEPT !.enabled = FALSE, !.deleted = TRUE] \in Docs
    BY <1>1 DEF Docs
  <2>3. [d EXCEPT !.last = p] \in Docs
    BY <1>1 DEF Docs
  <2> QED
    BY <2>1, <2>2, <2>3
<1>2. CASE d = NoDoc
  <2>1. [NoDoc EXCEPT !.enabled = flag] = NoDoc
    BY DEF NoDoc
  <2>2. [NoDoc EXCEPT !.enabled = FALSE, !.deleted = TRUE] = NoDoc
    BY DEF NoDoc
  <2>3. [NoDoc EXCEPT !.last = p] = NoDoc
    BY DEF NoDoc
  <2> QED
    BY <1>2, <2>1, <2>2, <2>3
<1> QED
  BY <1>1, <1>2

\* What a pass is to record is a price, or none.
LEMMA NewGridPriceType ==
  ASSUME KInv, NEW k \in Processes, Trading(k)
  PROVE  NewGridPrice(k) \in GridPrices \cup {None}
<1>1. snap[k][bot[k]] \in Docs /\ cur[k] \in GridPrices \cup {None}
  BY DEF KInv, KeeperTypeOK, Copies
<1> QED
  BY <1>1 DEF NewGridPrice, Docs

LEMMA DocExists ==
  ASSUME NEW d \in Docs \cup {NoDoc}
  PROVE  d.exists <=> d \in Docs
<1>1. \A e \in Docs : e.exists
  BY DEF Docs
<1>2. ~NoDoc.exists
  BY DEF NoDoc
<1> QED
  BY <1>1, <1>2

\* No step of a process, nor of anything else, leaves it without the documents it needs.
LEMMA CopiesStep ==
  ASSUME KInv, NEW k \in Processes, PassNext(k)
  PROVE  Copies'
<1> USE DEF KInv, KeeperTypeOK, Steps, Trading, InPass
<1>1. \A j \in Processes \ {k} :
        pc'[j] = pc[j] /\ snap'[j] = snap[j] /\ bot'[j] = bot[j] /\ todo'[j] = todo[j]
  BY DEF PassNext, LoadBots, RunBot, SkipVault, Evaluate, SendSwap, SendNothing, WriteBack,
         FinishPass, AbortPass, TsBotError, dbVars, passVars, historyVars
<1>2. /\ Trading(k) => snap[k][bot[k]] \in Docs
      /\ \A b \in todo[k] : snap[k][b] \in Docs
  BY DEF Copies
<1>3. /\ Trading(k)' => snap'[k][bot'[k]] \in Docs
      /\ \A b \in todo'[k] : snap'[k][b] \in Docs
  <2>1. CASE LoadBots(k)
    <3>1. \A b \in Runnable(k) : bots[b] \in Docs
      BY DocExists DEF Runnable
    <3>2. snap'[k] = bots /\ todo'[k] = Runnable(k) /\ pc'[k] = "pass"
      BY <2>1 DEF LoadBots
    <3> QED
      BY <3>1, <3>2
  <2>2. CASE RunBot(k) \/ SkipVault(k)
    BY <1>2, <2>2 DEF RunBot, SkipVault, dbVars, historyVars
  <2>3. CASE Evaluate(k) \/ SendSwap(k) \/ SendNothing(k) \/ WriteBack(k)
    BY <1>2, <2>3 DEF Evaluate, SendSwap, SendNothing, WriteBack, passVars, dbVars, historyVars
  <2>4. CASE FinishPass(k) \/ AbortPass(k)
    BY <1>2, <2>4 DEF FinishPass, AbortPass
  <2>5. CASE TsBotError(k)
    BY <1>2, <2>5 DEF TsBotError, dbVars
  <2> QED
    BY <2>1, <2>2, <2>3, <2>4, <2>5 DEF PassNext
<1> QED
  BY <1>1, <1>3 DEF Copies

LEMMA KInit == Init => KInv
<1> SUFFICES ASSUME Init PROVE KInv
  OBVIOUS
<1>1. (CHOOSE b \in Bots : TRUE) \in Bots
  BY KeeperAssumption DEF KeeperAssumption
<1>2. LockTtl \in Nat
  BY KeeperAssumption DEF KeeperAssumption
<1>3. NoBots \in [Bots -> Docs \cup {NoDoc}]
  BY DEF NoBots
<1>4. /\ lock \in [holder : Keepers \cup {Nobody, Gone}, left : 0..LockTtl]
      /\ lease \in [Keepers -> 0..LockTtl]
  BY <1>2 DEF Init, NoLock
<1>5. /\ bots \in [Bots -> Docs \cup {NoDoc}]
      /\ snap \in [Processes -> [Bots -> Docs \cup {NoDoc}]]
  BY <1>3 DEF Init
<1>6. NoRequest \in [step : {"none", "read", "disabled"}, doc : Docs \cup {NoDoc}]
  BY DEF NoRequest
<1>7. /\ price \in GridPrices
      /\ pc \in [Processes -> Steps]
      /\ todo \in [Processes -> SUBSET Bots]
      /\ bot \in [Processes -> Bots]
      /\ cur \in [Processes -> GridPrices \cup {None}]
      /\ deleting \in [Bots -> [step : {"none", "read", "disabled"}, doc : Docs \cup {NoDoc}]]
      /\ fill \in [Bots -> GridPrices \cup {None}]
      /\ alone \subseteq Processes
      /\ astray \subseteq Bots
  BY <1>1, <1>6 DEF Init, Steps
<1>8. LeaseIsLock
  BY DEF Init, LeaseIsLock
<1>9. Copies
  BY DEF Init, Copies, Trading, InPass
<1> QED
  BY <1>4, <1>5, <1>7, <1>8, <1>9 DEF KInv, KeeperTypeOK

LEMMA KNext == KInv /\ [Next]_vars => KInv'
<1> SUFFICES ASSUME KInv, [Next]_vars PROVE KInv'
  OBVIOUS
<1> USE DEF KInv, KeeperTypeOK, LeaseIsLock, Steps
<1>1. ASSUME NEW k \in Keepers, AcquireLock(k) PROVE KInv'
  <2>1. KeeperTypeOK'
    <3>1. LockTtl \in 0..LockTtl /\ k \in Processes
      BY KeeperAssumption DEF KeeperAssumption, Processes
    <3> QED
      BY <1>1, <3>1 DEF AcquireLock, passVars
  <2>2. \A j \in Keepers : lease[j] = 0
    BY <1>1 DEF AcquireLock, MayLock
  <2>3. LeaseIsLock'
    BY <1>1, <2>2, KeeperAssumption DEF AcquireLock, KeeperAssumption
  <2>4. Copies'
    BY <1>1 DEF AcquireLock, passVars, Copies, Trading, InPass, Processes
  <2> QED
    BY <2>1, <2>3, <2>4
<1>2. ASSUME NEW k \in Processes, PassNext(k) PROVE KInv'
  <2> SUFFICES KeeperTypeOK' /\ LeaseIsLock'
    BY <1>2, CopiesStep
  <2>0. NoBots \in [Bots -> Docs \cup {NoDoc}]
    BY DEF NoBots
  <2>1. CASE LoadBots(k)
    <3>1. Runnable(k) \in SUBSET Bots
      BY DEF Runnable
    <3>2. /\ snap' \in [Processes -> [Bots -> Docs \cup {NoDoc}]]
          /\ todo' \in [Processes -> SUBSET Bots]
      BY <2>1, <3>1 DEF LoadBots
    <3>3. alone' \subseteq Processes
      BY <2>1 DEF LoadBots
    <3>4. pc' \in [Processes -> Steps]
      BY <2>1 DEF LoadBots
    <3> QED
      BY <2>1, <3>2, <3>3, <3>4 DEF LoadBots, dbVars
  <2>2. CASE RunBot(k)
    BY <2>2 DEF RunBot, dbVars, historyVars
  <2>3. CASE SkipVault(k)
    BY <2>3 DEF SkipVault, dbVars, historyVars
  <2>4. CASE Evaluate(k)
    <3>1. pc' \in [Processes -> Steps]
      BY <2>4 DEF Evaluate
    <3>2. cur' \in [Processes -> GridPrices \cup {None}]
      BY <2>4 DEF Evaluate
    <3> QED
      BY <2>4, <3>1, <3>2 DEF Evaluate, dbVars, historyVars
  <2>5. CASE SendSwap(k)
    <3>1. fill' \in [Bots -> GridPrices \cup {None}] /\ astray' \subseteq Bots
      BY <2>5 DEF SendSwap, LedAstray
    <3> QED
      BY <2>5, <3>1 DEF SendSwap, dbVars, passVars
  <2>6. CASE SendNothing(k)
    BY <2>6 DEF SendNothing, dbVars, passVars
  <2>7. CASE WriteBack(k)
    <3> DEFINE doc == Recorded(k, IF k \in Keepers THEN snap[k][bot[k]] ELSE bots[bot[k]])
    <3>0. NewGridPrice(k) \in GridPrices \cup {None}
      BY <2>7, NewGridPriceType DEF WriteBack, Trading, InPass
    <3>1. doc \in Docs \cup {NoDoc}
      <4>1. bot[k] \in Bots
        OBVIOUS
      <4>2. (IF k \in Keepers THEN snap[k][bot[k]] ELSE bots[bot[k]]) \in Docs \cup {NoDoc}
        BY <4>1
      <4> QED
        BY <3>0, <4>2, DocUpdate DEF Recorded
    <3>2. bots' \in [Bots -> Docs \cup {NoDoc}]
      BY <2>7, <3>1 DEF WriteBack
    <3>3. pc' \in [Processes -> Steps]
      BY <2>7 DEF WriteBack
    <3>4. cur' \in [Processes -> GridPrices \cup {None}]
      BY <2>7 DEF WriteBack
    <3>5. astray' \subseteq Bots
      BY <2>7 DEF WriteBack, LedAstray
    <3> QED
      BY <2>7, <3>2, <3>3, <3>4, <3>5 DEF WriteBack
  <2>8. CASE FinishPass(k)
    <3>1. pc' \in [Processes -> Steps]
      BY <2>8 DEF FinishPass
    <3>2. /\ snap' \in [Processes -> [Bots -> Docs \cup {NoDoc}]]
          /\ UNCHANGED <<bots, price, todo, bot, cur, deleting, fill, alone, astray>>
      BY <2>8, <2>0 DEF FinishPass
    <3>3. lock' = LockWithout(k) /\ lease' = [j \in Keepers |-> IF j = k THEN 0 ELSE lease[j]]
      BY <2>8 DEF FinishPass
    <3>4. /\ lock' \in [holder : Keepers \cup {Nobody, Gone}, left : 0..LockTtl]
          /\ lease' \in [Keepers -> 0..LockTtl]
      BY <3>3, KeeperAssumption DEF LockWithout, NoLock, KeeperAssumption
    <3>5. LeaseIsLock'
      BY <3>3 DEF LockWithout
    <3> QED
      BY <3>1, <3>2, <3>4, <3>5
  <2>9. CASE AbortPass(k)
    <3>1. pc' \in [Processes -> Steps]
      BY <2>9 DEF AbortPass
    <3>2. /\ snap' \in [Processes -> [Bots -> Docs \cup {NoDoc}]]
          /\ todo' \in [Processes -> SUBSET Bots]
          /\ UNCHANGED <<bots, price, bot, deleting, fill, alone>>
      BY <2>9, <2>0 DEF AbortPass
    <3>3. cur' \in [Processes -> GridPrices \cup {None}] /\ astray' \subseteq Bots
      BY <2>9 DEF AbortPass, Lost
    <3>4. /\ lock' = IF lock.holder = k THEN [lock EXCEPT !.holder = Gone] ELSE lock
          /\ lease' = [j \in Keepers |-> IF j = k THEN 0 ELSE lease[j]]
      BY <2>9 DEF AbortPass
    <3>5. /\ lock' \in [holder : Keepers \cup {Nobody, Gone}, left : 0..LockTtl]
          /\ lease' \in [Keepers -> 0..LockTtl]
      <4>1. lock.holder \in Keepers \cup {Nobody, Gone} /\ lock.left \in 0..LockTtl /\ 0 \in 0..LockTtl
        BY KeeperAssumption DEF KeeperAssumption
      <4>2. [lock EXCEPT !.holder = Gone] \in [holder : Keepers \cup {Nobody, Gone}, left : 0..LockTtl]
        OBVIOUS
      <4> QED
        BY <3>4, <4>1, <4>2
    <3>6. LeaseIsLock'
      BY <3>4
    <3> QED
      BY <3>1, <3>2, <3>3, <3>5, <3>6
  <2>10. CASE TsBotError(k)
    <3>1. pc' \in [Processes -> Steps]
      BY <2>10 DEF TsBotError
    <3>2. cur' \in [Processes -> GridPrices \cup {None}] /\ astray' \subseteq Bots
      BY <2>10 DEF TsBotError, Lost
    <3> QED
      BY <2>10, <3>1, <3>2 DEF TsBotError, dbVars
  <2> QED
    BY <1>2, <2>1, <2>2, <2>3, <2>4, <2>5, <2>6, <2>7, <2>8, <2>9, <2>10 DEF PassNext
<1>3. ASSUME NEW b \in Bots, ApiNext(b) PROVE KInv'
  <2>0. Copies'
    <3>1. UNCHANGED <<pc, snap, bot, todo>>
      BY <1>3 DEF ApiNext, CreateBot, PatchBot, DeleteRead, DeleteDisable, DeleteTombstone,
         passVars
    <3> QED
      BY <3>1 DEF Copies, Trading, InPass
  <2> SUFFICES KeeperTypeOK' /\ LeaseIsLock'
    BY <2>0
  <2>1. CASE CreateBot(b)
    <3>1. ASSUME NEW bps \in StepBps
          PROVE  [ exists |-> TRUE, enabled |-> TRUE, deleted |-> FALSE,
                   stepBps |-> bps, last |-> None ] \in Docs
      BY DEF Docs
    <3> QED
      BY <2>1, <3>1 DEF CreateBot, passVars, historyVars
  <2>2. ASSUME NEW enabled \in BOOLEAN, PatchBot(b, enabled) PROVE KeeperTypeOK' /\ LeaseIsLock'
    <3>1. bots[b] \in Docs \cup {NoDoc}
      OBVIOUS
    <3>2. bots' \in [Bots -> Docs \cup {NoDoc}]
      BY <2>2, <3>1, DocUpdate DEF PatchBot
    <3> QED
      BY <2>2, <3>2 DEF PatchBot, passVars, historyVars
  <2>3. CASE DeleteRead(b)
    BY <2>3 DEF DeleteRead, dbVars, passVars, historyVars
  <2>4. CASE DeleteDisable(b)
    <3>1. bots[b] \in Docs \cup {NoDoc}
      OBVIOUS
    <3>2. bots' \in [Bots -> Docs \cup {NoDoc}]
      BY <2>4, <3>1, DocUpdate DEF DeleteDisable
    <3>3. deleting' \in [Bots -> [step : {"none", "read", "disabled"}, doc : Docs \cup {NoDoc}]]
      <4> DEFINE Request == [step : {"none", "read", "disabled"}, doc : Docs \cup {NoDoc}]
      <4>1. deleting[b] \in Request
        OBVIOUS
      <4>2. ASSUME NEW r \in Request PROVE [r EXCEPT !.step = "disabled"] \in Request
        <5>1. r = [step |-> r.step, doc |-> r.doc] /\ r.doc \in Docs \cup {NoDoc}
          OBVIOUS
        <5>2. [r EXCEPT !.step = "disabled"] = [step |-> "disabled", doc |-> r.doc]
          BY <5>1
        <5> QED
          BY <5>1, <5>2
      <4> HIDE DEF Request
      <4>3. deleting' = [deleting EXCEPT ![b] = [deleting[b] EXCEPT !.step = "disabled"]]
        BY <2>4 DEF DeleteDisable
      <4>4. deleting \in [Bots -> Request]
        BY DEF Request
      <4>5. deleting' \in [Bots -> Request]
        BY <4>1, <4>2, <4>3, <4>4
      <4> QED
        BY <4>5 DEF Request
    <3> QED
      BY <2>4, <3>2, <3>3 DEF DeleteDisable, passVars, historyVars
  <2>5. CASE DeleteTombstone(b)
    <3>1. deleting[b].doc \in Docs \cup {NoDoc}
      OBVIOUS
    <3>2. [deleting[b].doc EXCEPT !.enabled = FALSE, !.deleted = TRUE] \in Docs \cup {NoDoc}
      BY <3>1, DocUpdate
    <3>3. bots' \in [Bots -> Docs \cup {NoDoc}]
      BY <2>5, <3>2 DEF DeleteTombstone
    <3>4. deleting' \in [Bots -> [step : {"none", "read", "disabled"}, doc : Docs \cup {NoDoc}]]
      BY <2>5 DEF DeleteTombstone, NoRequest
    <3> QED
      BY <2>5, <3>3, <3>4 DEF DeleteTombstone, passVars
  <2> QED
    BY <1>3, <2>1, <2>2, <2>3, <2>4, <2>5 DEF ApiNext
<1>4. CASE Tick
  BY <1>4, ElapseType DEF Tick, passVars, Copies, Trading, InPass
<1>5. CASE PriceMove
  BY <1>5 DEF PriceMove, dbVars, passVars, historyVars, Copies, Trading, InPass
<1>6. CASE UNCHANGED vars
  BY <1>6 DEF vars, dbVars, passVars, historyVars, Copies, Trading, InPass
<1> QED
  BY <1>1, <1>2, <1>3, <1>4, <1>5, <1>6 DEF Next

\* The invariant of the lock holds in every reachable state.
THEOREM KeeperInvariance == Spec => []KInv
<1> QED
  BY KInit, KNext, PTL DEF Spec

\* Whatever a pass writes back and however a request is interleaved with it, documents
\* keep their shape and the time left of a lock stays between 0 and its ttl.
THEOREM KeeperTypeCorrect == Spec => []KeeperTypeOK
<1>1. KInv => KeeperTypeOK
  BY DEF KInv
<1> QED
  BY <1>1, KeeperInvariance, PTL

\* For any number of keepers, at most one is in a pass whose lock has not run out.
THEOREM LeaseTheorem == Spec => []LeaseExclusive
<1>1. KInv => LeaseExclusive
  BY DEF KInv, LeaseIsLock, LeaseExclusive
<1> QED
  BY <1>1, KeeperInvariance, PTL

-----------------------------------------------------------------------------
(* The grid.  A pass that is alone when it loads is alone as long as it     *)
(* lasts or another begins.  Until a bot is led astray its document shows   *)
(* its last trade, except between the trade and the write.                  *)

OneAlone == \A k \in alone : InPass(k) => \A j \in Processes \ {k} : ~InPass(j)
OneBotAtATime == \A k \in Processes : Trading(k) => bot[k] \notin todo[k]

\* Who holds a document of a bot may store it: the bot has one.
Existing ==
  \A b \in Bots :
    /\ \A k \in Processes : snap[k][b] \in Docs => bots[b] \in Docs
    /\ deleting[b].step # "none" => deleting[b].doc \in Docs /\ bots[b] \in Docs

\* The last trade of the bot that a lone pass has run.
Filled ==
  \A k \in alone :
    /\ pc[k] = "traded" => fill[bot[k]] = cur[k]
    /\ pc[k] = "nothing" => fill[bot[k]] = None

Unfilled == \A b \in GridBots : bots[b] \notin Docs => fill[b] = None

InStep(doc, b) == fill[b] \in {None, doc.last}
Sent(b) == \E k \in Processes : pc[k] = "traded" /\ bot[k] = b
DocInStep(b) == bots[b] \in Docs => Sent(b) \/ InStep(bots[b], b)

\* So does the copy of a lone pass, up to the evaluation; from there its price takes over.
PassInStep(k, b) ==
  InPass(k) =>
    /\ b \in todo[k] => InStep(snap[k][b], b)
    /\ bot[k] = b =>
         /\ pc[k] = "running" => InStep(snap[k][b], b)
         /\ pc[k] = "evaluated" => fill[b] = None \/ AStepAway(k, cur[k], fill[b])
         /\ pc[k] = "within" => fill[b] \in {None, NewGridPrice(k)}

InStepUnlessAstray ==
  \A b \in GridBots \ astray : DocInStep(b) /\ \A k \in alone : PassInStep(k, b)

GridInv ==
  /\ OneAlone /\ OneBotAtATime /\ Existing
  /\ Filled /\ Unfilled /\ InStepUnlessAstray

LEMMA GridInit == Init => GridInv
<1> SUFFICES ASSUME Init PROVE GridInv
  OBVIOUS
<1>1. NoDoc \notin Docs
  <2>1. ~NoDoc.exists
    BY DEF NoDoc
  <2> QED
    BY <2>1, DocExists
<1>2. \A b \in Bots : bots[b] = NoDoc /\ fill[b] = None
  BY DEF Init, NoBots
<1>3. Existing
  BY <1>1 DEF Init, NoBots, NoRequest, Existing
<1> QED
  BY <1>1, <1>2, <1>3, KeeperAssumption
     DEF Init, GridInv, OneAlone, OneBotAtATime, Trading, InPass, Filled, Unfilled,
         InStepUnlessAstray, DocInStep, KeeperAssumption

\* What a step of one process leaves alone.
LEMMA PassFrame ==
  ASSUME KInv, GridInv, NEW k \in Processes, PassNext(k)
  PROVE  /\ UNCHANGED deleting
         /\ \A j \in Processes \ {k} :
              /\ pc'[j] = pc[j] /\ snap'[j] = snap[j] /\ todo'[j] = todo[j]
              /\ bot'[j] = bot[j] /\ cur'[j] = cur[j]
         /\ InPass(k) => \A j \in alone \ {k} : ~InPass(j)
         /\ alone \subseteq Processes /\ GridBots \subseteq Bots
<1>1. UNCHANGED deleting
  BY DEF PassNext, LoadBots, RunBot, SkipVault, Evaluate, SendSwap, SendNothing, WriteBack,
         FinishPass, AbortPass, TsBotError
<1>2. \A j \in Processes \ {k} :
        /\ pc'[j] = pc[j] /\ snap'[j] = snap[j] /\ todo'[j] = todo[j]
        /\ bot'[j] = bot[j] /\ cur'[j] = cur[j]
  BY DEF KInv, KeeperTypeOK, PassNext, LoadBots, RunBot, SkipVault, Evaluate, SendSwap,
         SendNothing, WriteBack, FinishPass, AbortPass, TsBotError, dbVars, passVars, historyVars
<1>3. alone \subseteq Processes
  BY DEF KInv, KeeperTypeOK
<1> QED
  BY <1>1, <1>2, <1>3, KeeperAssumption DEF GridInv, OneAlone, KeeperAssumption

\* A pass runs a bot once, and documents do not disappear.
LEMMA StructureStep ==
  ASSUME KInv, GridInv, NEW k \in Processes, PassNext(k)
  PROVE  OneBotAtATime' /\ Existing' /\ \A b \in Bots : bots[b] \in Docs => bots'[b] \in Docs
<1> USE DEF KInv, KeeperTypeOK, Trading, InPass, Steps
<1>1. OneBotAtATime /\ Existing
  BY DEF GridInv
<1>2. Trading(k)' => bot'[k] \notin todo'[k]
  <2>1. CASE LoadBots(k) \/ RunBot(k) \/ SkipVault(k)
    BY <2>1 DEF LoadBots, RunBot, SkipVault, dbVars, historyVars
  <2>2. CASE Evaluate(k) \/ SendSwap(k) \/ SendNothing(k) \/ WriteBack(k)
    BY <1>1, <2>2
       DEF OneBotAtATime, Evaluate, SendSwap, SendNothing, WriteBack, dbVars, passVars, historyVars
  <2>3. CASE FinishPass(k) \/ AbortPass(k) \/ TsBotError(k)
    BY <2>3 DEF FinishPass, AbortPass, TsBotError, dbVars
  <2> QED
    BY <2>1, <2>2, <2>3 DEF PassNext
<1>3. OneBotAtATime'
  BY <1>1, <1>2, PassFrame DEF OneBotAtATime
<1>4. \A b \in Bots : bots[b] \in Docs => bots'[b] \in Docs
  <2>1. CASE WriteBack(k)
    <3>1. Trading(k) /\ snap[k][bot[k]] \in Docs /\ bots[bot[k]] \in Docs /\ bot[k] \in Bots
      BY <1>1, <2>1 DEF WriteBack, Copies, Existing
    <3>2. NewGridPrice(k) \in GridPrices \cup {None}
      BY <3>1, NewGridPriceType
    <3>3. \A d \in Docs : Recorded(k, d) \in Docs
      BY <3>2 DEF Recorded, Docs
    <3>4. bots'[bot[k]] = Recorded(k, IF k \in Keepers THEN snap[k][bot[k]] ELSE bots[bot[k]])
      BY <2>1, <3>1 DEF WriteBack
    <3>5. bots'[bot[k]] \in Docs
      BY <3>1, <3>3, <3>4
    <3> QED
      BY <2>1, <3>5 DEF WriteBack
  <2>2. CASE ~WriteBack(k)
    BY <2>2 DEF PassNext, LoadBots, RunBot, SkipVault, Evaluate, SendSwap, SendNothing,
       FinishPass, AbortPass, TsBotError, dbVars
  <2> QED
    BY <2>1, <2>2
<1>5. NoBots \in [Bots -> {NoDoc}] /\ NoDoc \notin Docs
  <2>1. ~NoDoc.exists
    BY DEF NoDoc
  <2> QED
    BY <2>1, DocExists DEF NoBots
<1>6. \A b \in Bots : snap'[k][b] \in Docs => bots'[b] \in Docs
  <2>1. CASE LoadBots(k)
    BY <2>1 DEF LoadBots, dbVars
  <2>2. CASE FinishPass(k) \/ AbortPass(k)
    BY <1>5, <2>2 DEF FinishPass, AbortPass
  <2>3. CASE ~LoadBots(k) /\ ~FinishPass(k) /\ ~AbortPass(k)
    <3>1. snap' = snap
      BY <2>3 DEF PassNext, RunBot, SkipVault, Evaluate, SendSwap, SendNothing, WriteBack,
         TsBotError, passVars
    <3> QED
      BY <1>1, <1>4, <3>1 DEF Existing
  <2> QED
    BY <2>1, <2>2, <2>3
<1>7. Existing'
  <2>1. \A b \in Bots, j \in Processes : snap'[j][b] \in Docs => bots'[b] \in Docs
    <3> SUFFICES ASSUME NEW b \in Bots, NEW j \in Processes, snap'[j][b] \in Docs
                 PROVE  bots'[b] \in Docs
      OBVIOUS
    <3>1. CASE j = k
      BY <1>6, <3>1
    <3>2. CASE j # k
      <4>1. snap'[j] = snap[j]
        BY <3>2, PassFrame
      <4> QED
        BY <1>1, <1>4, <4>1 DEF Existing
    <3> QED
      BY <3>1, <3>2
  <2>2. UNCHANGED deleting
    BY PassFrame
  <2> QED
    BY <1>1, <1>4, <2>1, <2>2 DEF Existing
<1> QED
  BY <1>3, <1>4, <1>7

\* Who is alone stays so until another pass begins.
LEMMA AloneStep ==
  ASSUME KInv, GridInv, NEW k \in Processes, PassNext(k)
  PROVE  OneAlone' /\ (LoadBots(k) \/ alone' = alone)
<1> USE DEF KInv, KeeperTypeOK, InPass, Steps
<1>1. OneAlone
  BY DEF GridInv
<1>2. CASE LoadBots(k)
  <2>1. CASE \E j \in Processes \ {k} : InPass(j)
    BY <1>2, <2>1 DEF LoadBots, OneAlone
  <2>2. CASE ~\E j \in Processes \ {k} : InPass(j)
    <3>1. alone' = {k}
      BY <1>2, <2>2 DEF LoadBots
    <3> QED
      BY <1>2, <2>2, <3>1, PassFrame DEF OneAlone
  <2> QED
    BY <2>1, <2>2
<1>3. CASE ~LoadBots(k)
  <2>1. alone' = alone
    BY <1>3 DEF PassNext, RunBot, SkipVault, Evaluate, SendSwap, SendNothing, WriteBack,
       FinishPass, AbortPass, TsBotError, historyVars
  <2>2. InPass(k)' => InPass(k)
    BY <1>3 DEF PassNext, RunBot, SkipVault, Evaluate, SendSwap, SendNothing, WriteBack,
       FinishPass, AbortPass, TsBotError, Trading
  <2>3. \A j \in Processes : InPass(j)' => InPass(j)
    BY <2>2, PassFrame
  <2> QED
    BY <1>1, <2>1, <2>3 DEF OneAlone
<1> QED
  BY <1>2, <1>3

\* A trade is filled at the price its pass has read, and only for a bot that exists.
LEMMA FillStep ==
  ASSUME KInv, GridInv, NEW k \in Processes, PassNext(k)
  PROVE  /\ Filled' /\ Unfilled'
         /\ \A b \in Bots : b # bot[k] => fill'[b] = fill[b]
         /\ SendSwap(k) \/ SendNothing(k) \/ fill' = fill
<1> USE DEF KInv, KeeperTypeOK, Steps
<1>1. /\ \A b \in Bots : b # bot[k] => fill'[b] = fill[b]
      /\ SendSwap(k) \/ SendNothing(k) \/ fill' = fill
  BY DEF PassNext, LoadBots, RunBot, SkipVault, Evaluate, SendSwap, SendNothing, WriteBack,
     FinishPass, AbortPass, TsBotError, historyVars
<1>2. Unfilled'
  <2>1. Unfilled /\ \A b \in Bots : bots[b] \in Docs => bots'[b] \in Docs
    BY StructureStep DEF GridInv
  <2>2. SendSwap(k) \/ SendNothing(k) => bots[bot[k]] \in Docs
    BY DEF SendSwap, SendNothing, Copies, GridInv, Existing, Trading, InPass
  <2> QED
    BY <1>1, <2>1, <2>2, PassFrame DEF Unfilled
<1>3. Filled'
  <2> SUFFICES ASSUME NEW j \in alone'
               PROVE  /\ pc'[j] = "traded" => fill'[bot'[j]] = cur'[j]
                      /\ pc'[j] = "nothing" => fill'[bot'[j]] = None
    BY DEF Filled
  <2>1. CASE LoadBots(k)
    <3>1. j = k /\ pc'[k] = "pass"
      BY <2>1 DEF LoadBots
    <3> QED
      BY <3>1
  <2>2. CASE ~LoadBots(k) /\ j # k
    <3>1. j \in alone /\ j \in Processes /\ pc'[j] = pc[j] /\ bot'[j] = bot[j] /\ cur'[j] = cur[j]
      BY <2>2, AloneStep, PassFrame
    <3>2. fill' = fill \/ InPass(k)
      BY <1>1 DEF SendSwap, SendNothing, InPass
    <3>3. InPass(k) => ~InPass(j)
      BY <2>2, <3>1, PassFrame
    <3> QED
      BY <3>1, <3>2, <3>3 DEF GridInv, Filled, InPass
  <2>3. CASE ~LoadBots(k) /\ j = k
    <3>1. CASE SendSwap(k) \/ SendNothing(k)
      BY <2>3, <3>1 DEF SendSwap, SendNothing, passVars
    <3>2. CASE ~SendSwap(k) /\ ~SendNothing(k)
      BY <2>3, <3>2 DEF PassNext, RunBot, SkipVault, Evaluate, WriteBack, FinishPass, AbortPass,
         TsBotError
    <3> QED
      BY <3>1, <3>2
  <2> QED
    BY <2>1, <2>2, <2>3
<1> QED
  BY <1>1, <1>2, <1>3

\* The write brings the document in step, whichever document it is made of; what would
\* leave it out of step leads the bot astray.
LEMMA DocStep ==
  ASSUME KInv, GridInv, NEW k \in Processes, PassNext(k), NEW b \in GridBots \ astray'
  PROVE  DocInStep(b)'
<1> USE DEF KInv, KeeperTypeOK, Steps
<1>1. b \in Bots /\ bot[k] \in Bots
  BY PassFrame
<1>2. b \notin astray => DocInStep(b)
  BY DEF GridInv, InStepUnlessAstray
<1>3. \A j \in Processes \ {k} : pc'[j] = pc[j] /\ bot'[j] = bot[j]
  BY PassFrame
<1>4. pc[k] # "traded" \/ bot[k] # b => (Sent(b) => Sent(b)')
  BY <1>3 DEF Sent
<1>5. CASE WriteBack(k) /\ b = bot[k]
  <2>1. k \in alone
    BY <1>5 DEF WriteBack, LedAstray
  <2>2. /\ Trading(k) /\ InPass(k) /\ snap[k][b] \in Docs /\ bots[b] \in Docs
        /\ pc[k] \in {"traded", "nothing", "within"} /\ fill' = fill
    BY <1>1, <1>5 DEF WriteBack, Trading, InPass, Copies, GridInv, Existing
  <2>3. fill[b] \in {None, NewGridPrice(k)}
    <3>1. CASE pc[k] = "within"
      <4>1. b \notin astray
        BY <1>5, <3>1 DEF WriteBack
      <4> QED
        BY <1>5, <2>1, <2>2, <3>1, <4>1 DEF GridInv, InStepUnlessAstray, PassInStep
    <3>2. CASE pc[k] # "within"
      BY <1>5, <2>1, <2>2, <3>2 DEF GridInv, Filled, NewGridPrice
    <3> QED
      BY <3>1, <3>2
  <2> DEFINE old == IF k \in Keepers THEN snap[k][b] ELSE bots[b]
  <2>4. bots'[b] = [old EXCEPT !.last = NewGridPrice(k)] /\ old \in Docs
    BY <1>1, <1>5, <2>2 DEF WriteBack, Recorded
  <2>5. bots'[b].last = NewGridPrice(k)
    <3> HIDE DEF old
    <3> QED
      BY <2>4 DEF Docs
  <2> QED
    BY <2>2, <2>3, <2>5 DEF DocInStep, InStep
<1>6. CASE WriteBack(k) /\ b # bot[k]
  <2>1. b \notin astray /\ bots'[b] = bots[b] /\ fill' = fill
    BY <1>1, <1>6 DEF WriteBack, LedAstray
  <2> QED
    BY <1>2, <1>4, <1>6, <2>1 DEF DocInStep, InStep
<1>7. CASE SendSwap(k) \/ SendNothing(k)
  <2>1. b \notin astray /\ bots' = bots /\ bot' = bot /\ pc[k] = "evaluated"
    BY <1>7 DEF SendSwap, SendNothing, dbVars, passVars
  <2>2. CASE b # bot[k]
    BY <1>1, <1>2, <1>4, <2>1, <2>2, FillStep DEF DocInStep, InStep
  <2>3. CASE b = bot[k] /\ SendSwap(k)
    <3>1. Sent(b)'
      BY <2>1, <2>3 DEF SendSwap, Sent
    <3> QED
      BY <3>1 DEF DocInStep
  <2>4. CASE b = bot[k] /\ SendNothing(k)
    <3>1. fill'[b] = None
      BY <1>1, <2>4 DEF SendNothing
    <3> QED
      BY <3>1 DEF DocInStep, InStep
  <2> QED
    BY <1>7, <2>2, <2>3, <2>4
<1>8. CASE ~WriteBack(k) /\ ~SendSwap(k) /\ ~SendNothing(k)
  <2>1. bots' = bots /\ fill' = fill
    BY <1>8 DEF PassNext, LoadBots, RunBot, SkipVault, Evaluate, FinishPass, AbortPass,
       TsBotError, dbVars, historyVars
  <2>2. b \notin astray /\ (pc[k] # "traded" \/ bot[k] # b)
    <3>1. CASE AbortPass(k) \/ TsBotError(k)
      BY <3>1 DEF AbortPass, TsBotError, Lost
    <3>2. CASE ~AbortPass(k) /\ ~TsBotError(k)
      BY <1>8, <3>2 DEF PassNext, LoadBots, RunBot, SkipVault, Evaluate, FinishPass, historyVars
    <3> QED
      BY <3>1, <3>2
  <2> QED
    BY <1>2, <1>4, <2>1, <2>2 DEF DocInStep, InStep
<1> QED
  BY <1>5, <1>6, <1>7, <1>8

\* A lone pass compares the price with that of the last trade.
LEMMA LonePassStep ==
  ASSUME KInv, GridInv, NEW k \in Processes, PassNext(k), NEW b \in GridBots \ astray',
         NEW j \in alone'
  PROVE  PassInStep(j, b)'
<1> USE DEF KInv, KeeperTypeOK, Steps
<1>1. b \in Bots /\ bot[k] \in Bots
  BY PassFrame
<1>2. CASE LoadBots(k)
  <2>1. /\ j = k /\ \A i \in Processes \ {k} : ~InPass(i)
        /\ pc[k] \in {"idle", "locked"} /\ pc'[k] = "pass" /\ b \notin astray
        /\ snap'[k] = bots /\ todo'[k] = Runnable(k) /\ fill' = fill
    BY <1>2 DEF LoadBots
  <2>2. ~Sent(b)
    BY <2>1 DEF Sent, InPass
  <2>3. b \in Runnable(k) => bots[b] \in Docs
    BY <1>1, DocExists DEF Runnable
  <2>4. b \in Runnable(k) => InStep(bots[b], b)
    BY <2>1, <2>2, <2>3 DEF GridInv, InStepUnlessAstray, DocInStep
  <2> QED
    BY <2>1, <2>4 DEF PassInStep, InStep
<1>3. CASE ~LoadBots(k) /\ j # k
  <2>1. /\ j \in alone /\ j \in Processes
        /\ pc'[j] = pc[j] /\ snap'[j] = snap[j] /\ todo'[j] = todo[j]
        /\ bot'[j] = bot[j] /\ cur'[j] = cur[j]
    BY <1>3, AloneStep, PassFrame
  <2>2. CASE InPass(k)
    <3>1. ~InPass(j)'
      BY <1>3, <2>1, <2>2, PassFrame DEF InPass
    <3> QED
      BY <3>1 DEF PassInStep
  <2>3. CASE ~InPass(k)
    <3>1. pc[k] \in {"idle", "locked"}
      BY <2>3 DEF InPass
    <3>2. AbortPass(k) /\ pc[k] = "locked"
      BY <1>3, <3>1 DEF PassNext, RunBot, SkipVault, Evaluate, SendSwap, SendNothing, WriteBack,
         FinishPass, AbortPass, TsBotError, Trading, InPass, Idle
    <3>3. fill' = fill /\ b \notin astray
      BY <3>2 DEF AbortPass
    <3>4. PassInStep(j, b)
      BY <2>1, <3>3 DEF GridInv, InStepUnlessAstray
    <3> QED
      BY <2>1, <3>3, <3>4
         DEF PassInStep, InStep, InPass, AStepAway, StepOf, NewGridPrice
  <2> QED
    BY <2>2, <2>3
<1>4. CASE ~LoadBots(k) /\ j = k
  <2>1. k \in alone
    BY <1>4, AloneStep
  <2>2. b \notin astray => PassInStep(k, b)
    BY <2>1 DEF GridInv, InStepUnlessAstray
  <2>3. CASE RunBot(k) \/ SkipVault(k)
    <3>1. /\ pc[k] = "pass" /\ InPass(k) /\ b \notin astray /\ snap' = snap /\ fill' = fill
          /\ todo'[k] \subseteq todo[k]
      BY <2>3 DEF RunBot, SkipVault, dbVars, historyVars, InPass
    <3>2. /\ pc'[k] \in {"pass", "running"}
          /\ pc'[k] = "running" => bot'[k] \in todo[k]
      BY <2>3 DEF RunBot, SkipVault
    <3> QED
      BY <1>4, <2>2, <3>1, <3>2 DEF PassInStep, InStep
  <2>4. CASE Evaluate(k)
    <3>1. /\ pc[k] = "running" /\ InPass(k) /\ b \notin astray /\ snap' = snap /\ fill' = fill
          /\ todo' = todo /\ bot' = bot /\ cur'[k] = price
          /\ pc'[k] \in {"evaluated", "within"}
          /\ pc'[k] = "evaluated" /\ bot[k] \in GridBots => AStepAway(k, price, LastGridPrice(k))
      BY <2>4 DEF Evaluate, dbVars, historyVars, InPass
    <3>2. bot[k] = b => fill[b] \in {None, snap[k][b].last}
      BY <2>2, <3>1 DEF PassInStep, InStep
    <3>3. bot[k] = b /\ pc'[k] = "evaluated" => fill[b] = None \/ AStepAway(k, price, fill[b])
      BY <3>1, <3>2 DEF LastGridPrice
    <3>4. bot[k] = b /\ pc'[k] = "within" => fill[b] \in {None, NewGridPrice(k)'}
      BY <3>1, <3>2 DEF NewGridPrice
    <3>5. AStepAway(k, price, fill[b]) => AStepAway(k, cur[k], fill[b])'
      BY <3>1 DEF AStepAway, StepOf
    <3>6. b \in todo[k] => InStep(snap[k][b], b)
      BY <2>2, <3>1 DEF PassInStep
    <3> QED
      BY <1>4, <3>1, <3>3, <3>4, <3>5, <3>6 DEF PassInStep, InStep
  <2>5. CASE SendSwap(k) \/ SendNothing(k)
    <3>1. /\ pc[k] = "evaluated" /\ InPass(k) /\ b \notin astray /\ snap' = snap
          /\ todo' = todo /\ bot' = bot /\ pc'[k] \in {"traded", "nothing"}
      BY <2>1, <2>5 DEF SendSwap, SendNothing, passVars, InPass, LedAstray
    <3>2. bot[k] \notin todo[k]
      BY <3>1 DEF GridInv, OneBotAtATime, Trading
    <3>3. b \in todo[k] => InStep(snap[k][b], b) /\ fill'[b] = fill[b]
      BY <1>1, <2>2, <3>1, <3>2, FillStep DEF PassInStep
    <3> QED
      BY <1>4, <3>1, <3>3 DEF PassInStep, InStep
  <2>6. CASE WriteBack(k)
    <3>1. /\ InPass(k) /\ bot[k] \notin todo[k] /\ snap' = snap /\ todo' = todo /\ bot' = bot
          /\ fill' = fill /\ pc'[k] = "pass" /\ (b # bot[k] => b \notin astray)
      BY <2>6 DEF WriteBack, GridInv, OneBotAtATime, Trading, InPass, LedAstray
    <3> QED
      BY <1>4, <2>2, <3>1 DEF PassInStep, InStep
  <2>7. CASE FinishPass(k) \/ AbortPass(k)
    <3>1. ~InPass(k)'
      BY <2>7 DEF FinishPass, AbortPass, InPass
    <3> QED
      BY <1>4, <3>1 DEF PassInStep
  <2>8. CASE TsBotError(k)
    <3>1. /\ InPass(k) /\ snap' = snap /\ todo' = todo /\ fill' = fill /\ pc'[k] = "pass"
          /\ b \notin astray
      BY <2>8 DEF TsBotError, Trading
    <3> QED
      BY <1>4, <2>2, <3>1 DEF PassInStep, InStep
  <2> QED
    BY <1>4, <2>3, <2>4, <2>5, <2>6, <2>7, <2>8 DEF PassNext
<1> QED
  BY <1>2, <1>3, <1>4

LEMMA GridPassStep ==
  ASSUME KInv, GridInv, NEW k \in Processes, PassNext(k)
  PROVE  GridInv'
BY AloneStep, StructureStep, FillStep, DocStep, LonePassStep DEF GridInv, InStepUnlessAstray

\* What a patch and the second statement of a deletion leave alone.
LEMMA EnabledUpdate ==
  ASSUME NEW d \in Docs \cup {NoDoc}, NEW flag \in BOOLEAN
  PROVE  LET e == [d EXCEPT !.enabled = flag] IN
         /\ e \in Docs \cup {NoDoc}
         /\ d \in Docs => e \in Docs /\ e.last = d.last
         /\ e \in Docs => d \in Docs
<1>1. NoDoc \notin Docs
  <2>1. ~NoDoc.exists
    BY DEF NoDoc
  <2> QED
    BY <2>1, DocExists
<1>2. CASE d \in Docs
  BY <1>2 DEF Docs
<1>3. CASE d = NoDoc
  <2>1. [NoDoc EXCEPT !.enabled = flag] = NoDoc
    BY DEF NoDoc
  <2> QED
    BY <1>1, <1>3, <2>1
<1> QED
  BY <1>2, <1>3

\* A request leaves passes and trades alone: it is enough that documents stay documents, and
\* that one it does not lead astray keeps its price.
LEMMA RequestStep ==
  ASSUME KInv, GridInv, NEW b \in Bots, NEW d \in Docs \cup {NoDoc},
         bots' = [bots EXCEPT ![b] = d],
         UNCHANGED <<pc, passVars, fill, alone>>, astray \subseteq astray',
         bots[b] \in Docs => d \in Docs,
         b \notin astray' /\ d \in Docs /\ bots[b] \in Docs => d.last = bots[b].last,
         \A g \in Bots :
           deleting'[g].step # "none" => deleting'[g].doc \in Docs /\ bots'[g] \in Docs
  PROVE  GridInv'
<1> USE DEF passVars
<1>1. OneAlone' /\ OneBotAtATime' /\ Filled'
  BY DEF GridInv, OneAlone, OneBotAtATime, Filled, InPass, Trading
<1>2. \A g \in Bots : bots'[g] = IF g = b THEN d ELSE bots[g]
  BY DEF KInv, KeeperTypeOK
<1>3. \A g \in Bots : bots[g] \in Docs => bots'[g] \in Docs
  BY <1>2
<1>4. Existing' /\ Unfilled'
  BY <1>3, KeeperAssumption DEF GridInv, Existing, Unfilled, KeeperAssumption
<1>5. ASSUME NEW g \in GridBots \ astray' PROVE DocInStep(g)'
  <2>1. g \in Bots /\ g \notin astray /\ DocInStep(g) /\ (Sent(g)' <=> Sent(g))
    BY <1>5, KeeperAssumption DEF GridInv, InStepUnlessAstray, Sent, KeeperAssumption
  <2>2. bots[g] \notin Docs => fill[g] = None
    BY DEF GridInv, Unfilled
  <2>3. bots[g] \in Docs /\ bots'[g] \in Docs => bots'[g].last = bots[g].last
    BY <1>2, <2>1
  <2> QED
    BY <2>1, <2>2, <2>3 DEF DocInStep, InStep
<1>6. ASSUME NEW g \in GridBots \ astray', NEW k \in alone' PROVE PassInStep(k, g)'
  <2>1. PassInStep(k, g)
    BY DEF GridInv, InStepUnlessAstray
  <2> QED
    BY <2>1 DEF PassInStep, InPass, InStep, AStepAway, StepOf, NewGridPrice
<1> QED
  BY <1>1, <1>4, <1>5, <1>6 DEF GridInv, InStepUnlessAstray

LEMMA GridApiStep ==
  ASSUME KInv, GridInv, NEW b \in Bots, ApiNext(b)
  PROVE  GridInv'
<1> USE DEF historyVars
<1>1. UNCHANGED <<pc, passVars, fill, alone>> /\ astray \subseteq astray'
  BY DEF ApiNext, CreateBot, PatchBot, DeleteRead, DeleteDisable, DeleteTombstone, dbVars
<1>2. bots[b] \in Docs \cup {NoDoc} /\ (bots[b].exists <=> bots[b] \in Docs)
  BY DocExists DEF KInv, KeeperTypeOK
<1>3. /\ \A g \in Bots :
           deleting[g].step # "none" => deleting[g].doc \in Docs /\ bots[g] \in Docs
      /\ bots \in [Bots -> Docs \cup {NoDoc}]
      /\ deleting \in [Bots -> [step : {"none", "read", "disabled"}, doc : Docs \cup {NoDoc}]]
  BY DEF GridInv, Existing, KInv, KeeperTypeOK
<1>4. CASE CreateBot(b)
  <2>1. PICK bps \in StepBps :
          bots' = [bots EXCEPT ![b] = [ exists |-> TRUE, enabled |-> TRUE, deleted |-> FALSE,
                                        stepBps |-> bps, last |-> None ]]
    BY <1>4 DEF CreateBot
  <2> DEFINE d == [ exists |-> TRUE, enabled |-> TRUE, deleted |-> FALSE,
                    stepBps |-> bps, last |-> None ]
  <2>2. d \in Docs
    BY DEF Docs
  <2>3. bots' = [bots EXCEPT ![b] = d] /\ UNCHANGED deleting /\ bots[b] \notin Docs
    BY <1>2, <1>4, <2>1 DEF CreateBot
  <2> HIDE DEF d
  <2>4. \A g \in Bots : bots[g] \in Docs => bots'[g] \in Docs
    BY <1>3, <2>2, <2>3
  <2> QED
    BY <1>1, <1>3, <2>2, <2>3, <2>4, RequestStep
<1>5. ASSUME NEW flag \in BOOLEAN, bots' = [bots EXCEPT ![b].enabled = flag],
             \A g \in Bots :
               deleting'[g].step # "none" => deleting[g].step # "none" /\ deleting'[g].doc = deleting[g].doc
      PROVE  GridInv'
  <2> DEFINE d == [bots[b] EXCEPT !.enabled = flag]
  <2>1. bots' = [bots EXCEPT ![b] = d]
    BY <1>3, <1>5
  <2>2. /\ d \in Docs \cup {NoDoc}
        /\ bots[b] \in Docs => d \in Docs /\ d.last = bots[b].last
        /\ d \in Docs => bots[b] \in Docs
    BY <1>2, EnabledUpdate
  <2> HIDE DEF d
  <2>3. \A g \in Bots : bots[g] \in Docs => bots'[g] \in Docs
    BY <1>3, <2>1, <2>2
  <2> QED
    BY <1>1, <1>3, <1>5, <2>1, <2>2, <2>3, RequestStep
<1>6. ASSUME NEW enabled \in BOOLEAN, PatchBot(b, enabled) PROVE GridInv'
  BY <1>5, <1>6 DEF PatchBot
<1>7. CASE DeleteRead(b)
  <2>1. /\ UNCHANGED bots /\ bots[b] \in Docs
        /\ deleting' = [deleting EXCEPT ![b] = [step |-> "read", doc |-> bots[b]]]
    BY <1>2, <1>7 DEF DeleteRead, dbVars
  <2>2. bots' = [bots EXCEPT ![b] = bots[b]]
    BY <1>3, <2>1
  <2>3. \A g \in Bots :
          deleting'[g].step # "none" => deleting'[g].doc \in Docs /\ bots'[g] \in Docs
    BY <1>3, <2>1
  <2> QED
    BY <1>1, <1>2, <2>1, <2>2, <2>3, RequestStep
<1>8. CASE DeleteDisable(b)
  <2>1. /\ deleting[b].step = "read" /\ deleting' = [deleting EXCEPT ![b].step = "disabled"]
        /\ bots' = [bots EXCEPT ![b].enabled = FALSE]
    BY <1>8 DEF DeleteDisable
  <2>2. \A g \in Bots :
          deleting'[g].step # "none" => deleting[g].step # "none" /\ deleting'[g].doc = deleting[g].doc
    BY <1>3, <2>1
  <2> QED
    BY <1>5, <2>1, <2>2
<1>9. CASE DeleteTombstone(b)
  <2> DEFINE d == [deleting[b].doc EXCEPT !.enabled = FALSE, !.deleted = TRUE]
  <2>1. deleting[b].doc \in Docs
    BY <1>3, <1>9 DEF DeleteTombstone
  <2>2. d \in Docs
    BY <2>1 DEF Docs
  <2>3. /\ bots' = [bots EXCEPT ![b] = d] /\ deleting' = [deleting EXCEPT ![b] = NoRequest]
        /\ b \in astray'
    BY <1>9 DEF DeleteTombstone
  <2> HIDE DEF d
  <2>4. \A g \in Bots :
          deleting'[g].step # "none" => deleting'[g].doc \in Docs /\ bots'[g] \in Docs
    BY <1>3, <2>2, <2>3 DEF NoRequest
  <2> QED
    BY <1>1, <2>2, <2>3, <2>4, RequestStep
<1> QED
  BY <1>4, <1>6, <1>7, <1>8, <1>9 DEF ApiNext

LEMMA GridNext == KInv /\ GridInv /\ [Next]_vars => GridInv'
<1> SUFFICES ASSUME KInv, GridInv, [Next]_vars PROVE GridInv'
  OBVIOUS
<1> USE DEF dbVars, passVars, historyVars
<1>1. ASSUME UNCHANGED <<bots, snap, todo, bot, cur, deleting, fill, alone, astray>>,
             pc' = pc \/ \E k \in Processes : pc[k] = "idle" /\ pc' = [pc EXCEPT ![k] = "locked"]
      PROVE  GridInv'
  <2>1. \A j \in Processes : /\ InPass(j)' <=> InPass(j)
                             /\ InPass(j) => pc'[j] = pc[j]
                             /\ Trading(j)' <=> Trading(j)
                             /\ pc'[j] \in {"traded", "nothing"} => InPass(j)
                             /\ pc[j] = "traded" => InPass(j)
    BY <1>1 DEF InPass, Trading, KInv, KeeperTypeOK
  <2>2. alone \subseteq Processes
    BY DEF KInv, KeeperTypeOK
  <2>3. OneAlone' /\ OneBotAtATime' /\ Existing' /\ Filled' /\ Unfilled'
    BY <1>1, <2>1, <2>2
       DEF GridInv, OneAlone, OneBotAtATime, Existing, Filled, Unfilled
  <2>4. ASSUME NEW b \in GridBots \ astray' PROVE DocInStep(b)'
    <3>1. DocInStep(b)
      BY <1>1 DEF GridInv, InStepUnlessAstray
    <3>2. Sent(b) => Sent(b)'
      BY <1>1, <2>1 DEF Sent
    <3> QED
      BY <1>1, <3>1, <3>2 DEF DocInStep, InStep
  <2>5. ASSUME NEW b \in GridBots \ astray', NEW k \in alone' PROVE PassInStep(k, b)'
    <3>1. PassInStep(k, b) /\ k \in Processes
      BY <1>1, <2>2 DEF GridInv, InStepUnlessAstray
    <3> QED
      BY <1>1, <2>1, <3>1 DEF PassInStep, InStep, AStepAway, StepOf, NewGridPrice
  <2> QED
    BY <2>3, <2>4, <2>5 DEF GridInv, InStepUnlessAstray
<1>2. ASSUME NEW k \in Keepers, AcquireLock(k) PROVE GridInv'
  BY <1>1, <1>2 DEF AcquireLock, Idle, Processes
<1>3. ASSUME NEW k \in Processes, PassNext(k) PROVE GridInv'
  BY <1>3, GridPassStep
<1>4. ASSUME NEW b \in Bots, ApiNext(b) PROVE GridInv'
  BY <1>4, GridApiStep
<1>5. CASE Tick \/ PriceMove \/ UNCHANGED vars
  BY <1>1, <1>5 DEF Tick, PriceMove, vars
<1> QED
  BY <1>2, <1>3, <1>4, <1>5 DEF Next

\* What GridMovesAStep says of a step.
TradesAStepAway ==
  \A k \in alone :
    pc[k] = "evaluated" /\ pc'[k] = "traded" /\ bot[k] \in GridBots \ astray =>
      fill[bot[k]] = None \/ AStepAway(k, cur[k], fill[bot[k]])

\* For any number of keepers, bots, prices and steps: whatever led a grid bot astray, once a
\* lone pass has traded for it lone passes trade only a step away from its last trade.
THEOREM GridTheorem == Spec => GridMovesAStep
<1>1. GridInv => TradesAStepAway
  BY DEF GridInv, InStepUnlessAstray, PassInStep, InPass, TradesAStepAway
<1>2. KInv /\ GridInv /\ [Next]_vars => [TradesAStepAway]_vars
  BY <1>1
<1> QED
  BY KInit, KNext, GridInit, GridNext, <1>2, PTL DEF Spec, GridMovesAStep, TradesAStepAway

=============================================================================
