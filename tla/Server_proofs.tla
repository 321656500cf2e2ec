---------------------------- MODULE Server_proofs ----------------------------
(***************************************************************************)
(* The web application's server beside its users' accounts: votes for      *)
(* launches and sign-in, whose calls of the document store interleave, the *)
(* limiter in front of the routes, and the indexer.  For any number of     *)
(* wallets, launches, nonces, clients and requests under way, any limit    *)
(* and window, a page of any length and any number of transactions, broken *)
(* passes and failed requests.                                             *)
(***************************************************************************)
EXTENDS Launches, SignIn, RateLimit, Indexer, TLAPS

-----------------------------------------------------------------------------
(* Votes.  A vote that is to be written was read from a launch that is     *)
(* there, and one that is not there has no voters.                         *)

Ballots == [step : {"write"}, l : LaunchIds, me : Voters, read : SUBSET Voters]

VotesInv ==
  /\ launches \in [LaunchIds -> [exists : BOOLEAN, voters : SUBSET Voters]]
  /\ voting \in [VoteRequests -> Ballots \cup {NoVote}]
  /\ marked \in [LaunchIds -> SUBSET Voters]
  /\ \A l \in LaunchIds : ~launches[l].exists => launches[l].voters = {} /\ marked[l] = {}
  /\ \A r \in VoteRequests : voting[r].step = "write" => launches[voting[r].l].exists
  /\ VotesExact

LEMMA VotesStart == LaunchesInit => VotesInv
<1> QED
  BY DEF LaunchesInit, VotesInv, NoLaunch, NoVote, VotesExact

LEMMA VotesStep == VotesInv /\ [LaunchesNext]_launchVars => VotesInv'
<1> SUFFICES ASSUME VotesInv, [LaunchesNext]_launchVars PROVE VotesInv'
  OBVIOUS
<1>1. ASSUME NEW l \in LaunchIds, CreateLaunch(l) PROVE VotesInv'
  BY <1>1 DEF CreateLaunch, VotesInv, VotesExact
<1>2. ASSUME NEW r \in VoteRequests, NEW l \in LaunchIds, NEW me \in Voters, ReadLaunch(r, l, me)
      PROVE  VotesInv'
  BY <1>2 DEF ReadLaunch, VotesInv, VotesExact, Ballots
<1>3. ASSUME NEW r \in VoteRequests, WriteVote(r) PROVE VotesInv'
  <2> DEFINE v == voting[r]
  <2>1. v \in Ballots /\ launches[v.l].exists
    BY <1>3 DEF WriteVote, VotesInv, NoVote
  <2>2. /\ launches' = [launches EXCEPT ![v.l].voters = Toggled(v.read, v.me)]
        /\ marked' = [marked EXCEPT ![v.l] = IF v.me \in @ THEN @ \ {v.me} ELSE @ \cup {v.me}]
        /\ spoilt' = IF launches[v.l].voters = v.read THEN spoilt ELSE spoilt \cup {v.l}
        /\ voting' = [voting EXCEPT ![r] = NoVote]
    BY <1>3 DEF WriteVote
  <2>3. Toggled(v.read, v.me) \in SUBSET Voters
    BY <2>1 DEF Toggled, Ballots
  <2>4. v.l \in LaunchIds /\ v.me \in Voters
    BY <2>1 DEF Ballots
  <2>5. \A l \in LaunchIds : launches'[l].exists = launches[l].exists
    BY <2>2 DEF VotesInv
  <2>6. VotesExact'
    <3>1. SUFFICES ASSUME NEW l \in LaunchIds, l \notin spoilt' PROVE launches'[l].voters = marked'[l]
      BY DEF VotesExact
    <3>2. l \notin spoilt /\ launches[l].voters = marked[l]
      BY <2>2, <3>1 DEF VotesInv, VotesExact
    <3>3. CASE l = v.l
      BY <2>2, <2>4, <3>1, <3>2, <3>3 DEF VotesInv, Toggled
    <3>4. CASE l # v.l
      BY <2>2, <2>4, <3>2, <3>4 DEF VotesInv
    <3> QED
      BY <3>3, <3>4
  <2>7. \A l \in LaunchIds : ~launches'[l].exists => launches'[l].voters = {} /\ marked'[l] = {}
    BY <2>1, <2>2, <2>4, <2>5 DEF VotesInv
  <2>8. \A q \in VoteRequests : voting'[q].step = "write" => launches'[voting'[q].l].exists
    <3>1. SUFFICES ASSUME NEW q \in VoteRequests, voting'[q].step = "write"
                   PROVE  launches'[voting'[q].l].exists
      OBVIOUS
    <3>2. q # r /\ voting'[q] = voting[q]
      BY <2>2, <3>1 DEF VotesInv, NoVote
    <3>3. voting[q].l \in LaunchIds
      BY <3>1, <3>2 DEF VotesInv, Ballots, NoVote
    <3> QED
      BY <2>5, <3>1, <3>2, <3>3 DEF VotesInv
  <2> QED
    BY <2>2, <2>3, <2>4, <2>6, <2>7, <2>8 DEF VotesInv
<1>4. ASSUME NEW r \in VoteRequests, FailVote(r) PROVE VotesInv'
  BY <1>4 DEF FailVote, VotesInv, VotesExact, NoVote
<1>5. CASE UNCHANGED launchVars
  BY <1>5 DEF launchVars, VotesInv, VotesExact
<1> QED
  BY <1>1, <1>2, <1>3, <1>4, <1>5 DEF LaunchesNext

\* Votes for one launch, in any order and of any number of wallets, leave the others alone.
THEOREM VotesTheorem == LaunchesSpec => []VotesExact
<1>1. VotesInv => VotesExact
  BY DEF VotesInv
<1> QED
  BY <1>1, VotesStart, VotesStep, PTL DEF LaunchesSpec

-----------------------------------------------------------------------------
(* Sign-in.  A nonce that is there was never used and ends a set time      *)
(* after it was issued; a verification that found it did so in time, and   *)
(* when it comes to the signature the nonce is gone.                        *)

Attempts == [step : {"delete", "check"}, n : Nonces, genuine : BOOLEAN, began : Nat, late : BOOLEAN]

SignInTypeOK ==
  /\ clock \in 0..MaxClock
  /\ nonces \in [Nonces -> [exists : BOOLEAN, exp : Nat]]
  /\ verifying \in [Verifications -> Attempts \cup {NotVerifying}]
  /\ sessions \in [Nonces -> Nat]
  /\ issued \in [Nonces -> Nat]

NonceInv ==
  \A n \in Nonces :
    /\ nonces[n].exists =>
         issued[n] <= MaxClock /\ nonces[n].exp = issued[n] + NonceTtl /\ sessions[n] = 0
    /\ issued[n] > MaxClock => sessions[n] = 0

AttemptInv ==
  \A r \in Verifications : verifying[r] \in Attempts =>
    LET v == verifying[r] IN
      /\ ~v.late
      /\ issued[v.n] <= MaxClock
      /\ v.began <= issued[v.n] + NonceTtl
      /\ v.step = "check" => ~nonces[v.n].exists

SignInInv == SignInTypeOK /\ NonceInv /\ AttemptInv

LEMMA IdleIsNoAttempt == NotVerifying \notin Attempts /\ NotVerifying.step = "idle"
BY DEF NotVerifying, Attempts

LEMMA SignInStart == SignInInit => SignInInv
<1> SUFFICES ASSUME SignInInit PROVE SignInInv
  OBVIOUS
<1>1. SignInTypeOK
  BY SignInAssumption DEF SignInInit, SignInTypeOK, NoNonce
<1>2. \A r \in Verifications : verifying[r] \notin Attempts
  BY IdleIsNoAttempt DEF SignInInit
<1>3. NonceInv /\ AttemptInv
  BY <1>2, SignInAssumption DEF SignInInit, NonceInv, AttemptInv, NoNonce
<1> QED
  BY <1>1, <1>3 DEF SignInInv

\* A verification that ends holds nothing any more.
LEMMA EndAttempt ==
  ASSUME SignInInv, NEW r \in Verifications, verifying[r].step # "idle",
         verifying' = [verifying EXCEPT ![r] = NotVerifying]
  PROVE  /\ verifying[r] \in Attempts
         /\ verifying' \in [Verifications -> Attempts \cup {NotVerifying}]
         /\ \A q \in Verifications : verifying'[q] \in Attempts => q # r /\ verifying'[q] = verifying[q]
<1>1. verifying \in [Verifications -> Attempts \cup {NotVerifying}]
  BY DEF SignInInv, SignInTypeOK
<1>2. verifying[r] \in Attempts
  BY <1>1, IdleIsNoAttempt
<1>3. \A q \in Verifications : verifying'[q] \in Attempts => q # r /\ verifying'[q] = verifying[q]
  BY <1>1, IdleIsNoAttempt
<1> QED
  BY <1>1, <1>2, <1>3

LEMMA SignInStep == SignInInv /\ [SignInNext]_signInVars => SignInInv'
<1> SUFFICES ASSUME SignInInv, [SignInNext]_signInVars PROVE SignInInv'
  OBVIOUS
<1>0. SignInTypeOK /\ NonceInv /\ AttemptInv /\ NonceTtl \in Nat /\ MaxClock \in Nat
  BY SignInAssumption DEF SignInInv
<1>1. ASSUME NEW n \in Nonces, IssueNonce(n) PROVE SignInInv'
  <2>1. /\ issued[n] > MaxClock
        /\ nonces' = [nonces EXCEPT ![n] = [exists |-> TRUE, exp |-> clock + NonceTtl]]
        /\ issued' = [issued EXCEPT ![n] = clock]
        /\ UNCHANGED <<clock, verifying, sessions>>
    BY <1>1 DEF IssueNonce
  <2>2. SignInTypeOK'
    BY <1>0, <2>1 DEF SignInTypeOK
  <2>3. NonceInv'
    BY <1>0, <2>1 DEF SignInTypeOK, NonceInv
  <2>4. AttemptInv'
    <3>1. SUFFICES ASSUME NEW r \in Verifications, verifying[r] \in Attempts
                   PROVE  LET v == verifying[r] IN
                            /\ ~v.late
                            /\ issued'[v.n] <= MaxClock
                            /\ v.began <= issued'[v.n] + NonceTtl
                            /\ v.step = "check" => ~nonces'[v.n].exists
      BY <2>1 DEF AttemptInv, Attempts
    <3>2. verifying[r].n \in Nonces /\ issued[verifying[r].n] <= MaxClock
      BY <1>0, <3>1 DEF AttemptInv, Attempts
    <3>3. verifying[r].n # n
      BY <1>0, <2>1, <3>2 DEF SignInTypeOK
    <3> QED
      BY <1>0, <2>1, <3>1, <3>2, <3>3 DEF AttemptInv, SignInTypeOK
  <2> QED
    BY <2>2, <2>3, <2>4 DEF SignInInv
<1>2. ASSUME NEW r \in Verifications, NEW n \in Nonces, NEW genuine \in BOOLEAN,
             LookUpNonce(r, n, genuine)
      PROVE  SignInInv'
  <2> DEFINE v == [ step |-> "delete", n |-> n, genuine |-> genuine, began |-> clock,
                    late |-> sessions[n] > 0 ]
  <2>1. /\ verifying[r].step = "idle"
        /\ issued[n] <= MaxClock
        /\ nonces[n].exists /\ ~(nonces[n].exp < clock)
        /\ verifying' = [verifying EXCEPT ![r] = v]
        /\ UNCHANGED <<clock, nonces, sessions, issued>>
    BY <1>2 DEF LookUpNonce, Fresh
  <2>2. sessions[n] = 0 /\ nonces[n].exp = issued[n] + NonceTtl
    BY <1>0, <2>1 DEF NonceInv
  <2>3. v \in Attempts /\ ~v.late /\ v.began <= issued[n] + NonceTtl /\ v.n = n /\ v.step = "delete"
    <3> DEFINE late == sessions[n] > 0
    <3>1. late = FALSE
      BY <2>2
    <3>2. clock \in Nat /\ clock <= issued[n] + NonceTtl
      BY <1>0, <2>1, <2>2 DEF SignInTypeOK
    <3> HIDE DEF late
    <3>3. v = [step |-> "delete", n |-> n, genuine |-> genuine, began |-> clock, late |-> FALSE]
      BY <3>1 DEF late
    <3> QED
      BY <3>2, <3>3 DEF Attempts
  <2> HIDE DEF v
  <2>4. SignInTypeOK'
    BY <1>0, <2>1, <2>3 DEF SignInTypeOK
  <2>5. verifying'[r] = v /\ \A q \in Verifications : q # r => verifying'[q] = verifying[q]
    BY <1>0, <2>1 DEF SignInTypeOK
  <2>6. NonceInv'
    BY <1>0, <2>1 DEF NonceInv
  <2>7. AttemptInv'
    <3>1. SUFFICES ASSUME NEW q \in Verifications, verifying'[q] \in Attempts
                   PROVE  LET w == verifying'[q] IN
                            /\ ~w.late
                            /\ issued[w.n] <= MaxClock
                            /\ w.began <= issued[w.n] + NonceTtl
                            /\ w.step = "check" => ~nonces[w.n].exists
      BY <2>1 DEF AttemptInv, Attempts
    <3>2. CASE q = r
      BY <2>1, <2>3, <2>5, <3>2
    <3>3. CASE q # r
      BY <1>0, <2>5, <3>1, <3>3 DEF AttemptInv
    <3> QED
      BY <3>2, <3>3
  <2> QED
    BY <2>4, <2>6, <2>7 DEF SignInInv
<1>3. ASSUME NEW r \in Verifications, DeleteNonce(r) PROVE SignInInv'
  <2> DEFINE n == verifying[r].n
  <2>1. /\ verifying[r].step = "delete"
        /\ nonces' = [nonces EXCEPT ![n] = NoNonce]
        /\ verifying' = [verifying EXCEPT ![r].step = "check"]
        /\ UNCHANGED <<clock, sessions, issued>>
    BY <1>3 DEF DeleteNonce, Consumed
  <2>2. verifying[r] \in Attempts /\ n \in Nonces
    BY <1>0, <2>1, IdleIsNoAttempt DEF SignInTypeOK, Attempts
  <2>3. /\ \A q \in Verifications : q # r => verifying'[q] = verifying[q]
        /\ verifying'[r] \in Attempts /\ verifying'[r].n = n /\ verifying'[r].late = verifying[r].late
        /\ verifying'[r].began = verifying[r].began
    BY <1>0, <2>1, <2>2 DEF SignInTypeOK, Attempts
  <2> HIDE DEF n
  <2>4. ~nonces'[n].exists /\ \A m \in Nonces : nonces'[m].exists => nonces'[m] = nonces[m] /\ nonces[m].exists
    BY <1>0, <2>1, <2>2 DEF SignInTypeOK, NoNonce
  <2>5. SignInTypeOK'
    BY <1>0, <2>1, <2>2, <2>3 DEF SignInTypeOK, NoNonce
  <2>6. NonceInv'
    BY <1>0, <2>1, <2>4 DEF NonceInv
  <2>7. AttemptInv'
    <3>1. SUFFICES ASSUME NEW q \in Verifications, verifying'[q] \in Attempts
                   PROVE  LET w == verifying'[q] IN
                            /\ ~w.late
                            /\ issued[w.n] <= MaxClock
                            /\ w.began <= issued[w.n] + NonceTtl
                            /\ w.step = "check" => ~nonces'[w.n].exists
      BY <2>1 DEF AttemptInv, Attempts
    <3>2. CASE q = r
      BY <1>0, <2>2, <2>3, <2>4, <3>2 DEF AttemptInv, n
    <3>3. CASE q # r
      <4>1. verifying[q] \in Attempts /\ verifying[q].n \in Nonces
        BY <2>3, <3>1, <3>3 DEF Attempts
      <4> QED
        BY <1>0, <2>3, <2>4, <3>3, <4>1 DEF AttemptInv
    <3> QED
      BY <3>2, <3>3
  <2> QED
    BY <2>5, <2>6, <2>7 DEF SignInInv
<1>4. ASSUME NEW r \in Verifications, CheckSignature(r) PROVE SignInInv'
  <2> DEFINE n == verifying[r].n
  <2>1. /\ verifying[r].step = "check" /\ verifying' = [verifying EXCEPT ![r] = NotVerifying]
        /\ sessions' = [sessions EXCEPT ![n] = @ + 1] \/ UNCHANGED sessions
        /\ UNCHANGED <<clock, nonces, issued>>
    BY <1>4 DEF CheckSignature
  <2>2. /\ verifying[r] \in Attempts
        /\ verifying' \in [Verifications -> Attempts \cup {NotVerifying}]
        /\ \A q \in Verifications : verifying'[q] \in Attempts => q # r /\ verifying'[q] = verifying[q]
    BY <2>1, EndAttempt
  <2>3. n \in Nonces /\ ~nonces[n].exists /\ issued[n] <= MaxClock
    BY <1>0, <2>1, <2>2 DEF AttemptInv, Attempts
  <2> HIDE DEF n
  <2>4. sessions' \in [Nonces -> Nat] /\ \A m \in Nonces : m # n => sessions'[m] = sessions[m]
    BY <1>0, <2>1, <2>3 DEF SignInTypeOK
  <2>6. SignInTypeOK'
    BY <1>0, <2>1, <2>2, <2>4 DEF SignInTypeOK
  <2>7. NonceInv'
    BY <1>0, <2>1, <2>3, <2>4 DEF NonceInv, SignInTypeOK
  <2>8. AttemptInv'
    BY <1>0, <2>1, <2>2 DEF AttemptInv
  <2> QED
    BY <2>6, <2>7, <2>8 DEF SignInInv
<1>5. ASSUME NEW r \in Verifications, FailVerification(r) PROVE SignInInv'
  <2>1. /\ verifying[r].step # "idle" /\ verifying' = [verifying EXCEPT ![r] = NotVerifying]
        /\ UNCHANGED <<clock, nonces, sessions, issued>>
    BY <1>5 DEF FailVerification
  <2>2. /\ verifying' \in [Verifications -> Attempts \cup {NotVerifying}]
        /\ \A q \in Verifications : verifying'[q] \in Attempts => q # r /\ verifying'[q] = verifying[q]
    BY <2>1, EndAttempt
  <2>3. SignInTypeOK' /\ NonceInv'
    BY <1>0, <2>1, <2>2 DEF SignInTypeOK, NonceInv
  <2>4. AttemptInv'
    BY <1>0, <2>1, <2>2 DEF AttemptInv
  <2> QED
    BY <2>3, <2>4 DEF SignInInv
<1>6. CASE PassTime \/ UNCHANGED signInVars
  <2>1. UNCHANGED <<nonces, verifying, sessions, issued>> /\ clock' \in 0..MaxClock
    BY <1>0, <1>6 DEF PassTime, signInVars, SignInTypeOK
  <2>2. SignInTypeOK' /\ NonceInv'
    BY <1>0, <2>1 DEF SignInTypeOK, NonceInv
  <2>3. AttemptInv'
    BY <1>0, <2>1 DEF AttemptInv
  <2> QED
    BY <2>2, <2>3 DEF SignInInv
<1> QED
  BY <1>1, <1>2, <1>3, <1>4, <1>5, <1>6 DEF SignInNext

THEOREM SignInInvariance == SignInSpec => []SignInInv
<1> QED
  BY SignInStart, SignInStep, PTL DEF SignInSpec

\* However verifications of a nonce overlap and whatever fails, one begun after the nonce
\* was spent or out of its time comes to nothing (verify/route.ts).
THEOREM NonceTheorem == SignInSpec => []SpentNonceIsRefused
<1>1. SignInInv => SpentNonceIsRefused
  <2> SUFFICES ASSUME SignInInv, NEW r \in Verifications, verifying[r].step = "check"
               PROVE  ~verifying[r].late /\ verifying[r].began <= issued[verifying[r].n] + NonceTtl
    BY DEF SpentNonceIsRefused
  <2>1. verifying[r] \in Attempts
    BY IdleIsNoAttempt DEF SignInInv, SignInTypeOK
  <2> QED
    BY <2>1 DEF SignInInv, AttemptInv
<1> QED
  BY <1>1, SignInInvariance, PTL

-----------------------------------------------------------------------------
(* The indexer: what it records, and that it never takes anything back.     *)
(* What has to be added to NothingMissed is what a pass under way still     *)
(* holds: a scan that missed nothing has put, or has yet to put, every      *)
(* trade of its page.  A trade older than the page was recorded by an       *)
(* earlier scan, or there is a gap.                                         *)

Swaps == {s \in 1..Len(txs) : txs[s] = "swap"}

Passes ==
  [ step : {"sleep", "nav", "append", "scan", "put"}, span : Nat, value : Nat,
    page : SUBSET Nat, upto : Nat ]

IndexTypeOK ==
  /\ txs \in Seq(Kinds)
  /\ span \in Nat
  /\ trades \subseteq Swaps
  /\ pass \in Passes
  /\ pass.page \subseteq Swaps
  /\ seen \in Nat /\ gap \in BOOLEAN

\* A pass that puts either will leave `seen' as it is, or its page covers the latest
\* transactions up to where `seen' will be.
PageCovers ==
  pass.step = "put" =>
    /\ pass.upto <= Len(txs)
    /\ \/ pass.upto = seen
       \/ \A s \in Swaps : s <= pass.upto /\ s > pass.upto - PageLimit => s \in trades \cup pass.page

IndexInv ==
  /\ IndexTypeOK
  /\ seen <= Len(txs)
  /\ ~gap => \A s \in Swaps : s <= seen => s \in trades
  /\ PageCovers

\* A transaction that lands leaves the others in their places.
LEMMA Landed ==
  ASSUME IndexTypeOK, NEW kind \in Kinds, txs' = Append(txs, kind)
  PROVE  /\ txs' \in Seq(Kinds) /\ Len(txs') = Len(txs) + 1 /\ Len(txs) \in Nat
         /\ Swaps \subseteq Swaps'
         /\ \A s \in Swaps' : s <= Len(txs) => s \in Swaps
<1>1. txs \in Seq(Kinds) /\ Len(txs) \in Nat
  BY DEF IndexTypeOK
<1>2. txs' \in Seq(Kinds) /\ Len(txs') = Len(txs) + 1
  BY <1>1
<1>3. \A s \in 1..Len(txs) : txs'[s] = txs[s]
  BY <1>1
<1> QED
  BY <1>1, <1>2, <1>3 DEF Swaps

LEMMA IndexStart == IndexInit => IndexInv
<1> SUFFICES ASSUME IndexInit PROVE IndexInv
  OBVIOUS
<1>1. txs = << >> /\ txs \in Seq(Kinds) /\ Len(txs) = 0 /\ Swaps = {}
  BY DEF IndexInit, Swaps
<1>2. pass \in Passes /\ pass.page = {} /\ pass.step # "put"
  BY DEF IndexInit, Asleep, Passes
<1>3. trades = {} /\ span \in Nat /\ seen = 0 /\ seen \in Nat /\ gap \in BOOLEAN
  BY DEF IndexInit
<1>4. IndexTypeOK
  BY <1>1, <1>2, <1>3 DEF IndexTypeOK
<1>5. PageCovers
  BY <1>2 DEF PageCovers
<1>6. seen <= Len(txs) /\ \A s \in Swaps : s <= seen => s \in trades
  BY <1>1, <1>3
<1> QED
  BY <1>4, <1>5, <1>6 DEF IndexInv

LEMMA IndexStep == IndexInv /\ [IndexNext]_indexVars => IndexInv'
<1> SUFFICES ASSUME IndexInv, [IndexNext]_indexVars PROVE IndexInv'
  OBVIOUS
<1>0. /\ IndexTypeOK /\ PageCovers /\ Len(txs) \in Nat /\ PageLimit \in Nat
      /\ seen \in Nat /\ seen <= Len(txs) /\ trades \subseteq Swaps /\ pass.page \subseteq Swaps
      /\ ~gap => \A s \in Swaps : s <= seen => s \in trades
  BY IndexerAssumption DEF IndexInv, IndexTypeOK
<1>1. ASSUME NEW kind \in Kinds, LandTx(kind) PROVE IndexInv'
  <2>1. txs' = Append(txs, kind) /\ UNCHANGED <<span, snapshots, trades, pass, seen, gap, faults>>
    BY <1>1 DEF LandTx
  <2>2. /\ txs' \in Seq(Kinds) /\ Len(txs') = Len(txs) + 1
        /\ Swaps \subseteq Swaps'
        /\ \A s \in Swaps' : s <= Len(txs) => s \in Swaps
    BY <1>0, <2>1, Landed
  <2>3. IndexTypeOK'
    BY <1>0, <2>1, <2>2 DEF IndexTypeOK
  <2>4. \A s \in Swaps' : s \in Nat
    BY DEF Swaps
  <2>5. ~gap' => \A s \in Swaps' : s <= seen' => s \in trades'
    BY <1>0, <2>1, <2>2, <2>4
  <2>6. PageCovers'
    <3>1. SUFFICES ASSUME pass.step = "put"
                   PROVE  /\ pass.upto <= Len(txs')
                          /\ \/ pass.upto = seen
                             \/ \A s \in Swaps' : s <= pass.upto /\ s > pass.upto - PageLimit =>
                                  s \in trades \cup pass.page
      BY <2>1 DEF PageCovers
    <3>2. pass.upto \in Nat /\ pass.upto <= Len(txs)
      BY <1>0, <3>1 DEF PageCovers, IndexTypeOK, Passes
    <3> QED
      BY <1>0, <2>2, <2>4, <3>1, <3>2 DEF PageCovers
  <2> QED
    BY <1>0, <2>1, <2>2, <2>3, <2>5, <2>6 DEF IndexInv
<1>2. ASSUME UNCHANGED <<txs, trades, seen, gap>>, span' \in Nat, pass' \in Passes,
             pass'.page \subseteq Swaps, PageCovers'
      PROVE  IndexInv'
  <2>1. Swaps' = Swaps
    BY <1>2 DEF Swaps
  <2> QED
    BY <1>0, <1>2, <2>1 DEF IndexInv, IndexTypeOK
<1>3. CASE NextSpan \/ UNCHANGED indexVars
  <2>1. UNCHANGED <<txs, trades, seen, gap, pass>> /\ span' \in Nat
    BY <1>0, <1>3 DEF NextSpan, indexVars, IndexTypeOK
  <2>2. PageCovers'
    BY <1>0, <2>1 DEF PageCovers, Swaps
  <2> QED
    BY <1>0, <1>2, <2>1, <2>2 DEF IndexTypeOK
<1>4. CASE StartPass \/ FetchNav \/ AppendSnapshot \/ BreakOff
  <2>1. UNCHANGED <<txs, trades, seen, gap, span>> /\ span' \in Nat
    BY <1>0, <1>4 DEF StartPass, FetchNav, AppendSnapshot, BreakOff, IndexTypeOK
  <2>2. pass' \in Passes /\ pass'.step # "put" /\ pass'.page \subseteq Swaps
    <3>1. Nav \in Nat
      BY <1>0 DEF Nav
    <3>2. CASE StartPass
      BY <1>0, <3>2 DEF StartPass, IndexTypeOK, Passes
    <3>3. CASE FetchNav
      BY <1>0, <3>1, <3>3 DEF FetchNav, IndexTypeOK, Passes
    <3>4. CASE AppendSnapshot
      BY <1>0, <3>4 DEF AppendSnapshot, IndexTypeOK, Passes
    <3>5. CASE BreakOff
      BY <3>5 DEF BreakOff, Asleep, Passes
    <3> QED
      BY <1>4, <3>2, <3>3, <3>4, <3>5
  <2>3. PageCovers'
    BY <2>2 DEF PageCovers
  <2> QED
    BY <1>2, <2>1, <2>2, <2>3
<1>5. ASSUME NEW missed \in SUBSET (1..Len(txs)), FetchTrades(missed) PROVE IndexInv'
  <2> DEFINE upto == IF missed = {} THEN Len(txs) ELSE seen
  <2>1. /\ pass' = [pass EXCEPT !.step = "put", !.page = Scan(missed), !.upto = upto]
        /\ UNCHANGED <<txs, trades, seen, gap, span>>
    BY <1>5 DEF FetchTrades
  <2>2. Scan(missed) \subseteq Swaps /\ Scan(missed) \subseteq Nat
    BY DEF Scan, Latest, Swaps
  <2>3. upto \in Nat /\ upto <= Len(txs)
    BY <1>0
  <2>4. upto = seen \/ \A s \in Swaps : s <= upto /\ s > upto - PageLimit => s \in Scan(missed)
    BY DEF Scan, Latest, Swaps
  <2> HIDE DEF upto
  <2>5. pass' \in Passes /\ pass'.page = Scan(missed) /\ pass'.upto = upto /\ pass'.step = "put"
    BY <1>0, <2>1, <2>2, <2>3 DEF IndexTypeOK, Passes
  <2>6. Swaps' = Swaps
    BY <2>1 DEF Swaps
  <2>7. PageCovers'
    BY <2>1, <2>3, <2>4, <2>5, <2>6 DEF PageCovers
  <2> QED
    BY <1>0, <1>2, <2>1, <2>2, <2>5, <2>7 DEF IndexTypeOK
<1>6. CASE PutTrade
  <2>1. PICK s \in pass.page : /\ trades' = trades \cup {s}
                               /\ pass' = [pass EXCEPT !.page = @ \ {s}]
    BY <1>6 DEF PutTrade
  <2>2. pass.step = "put" /\ UNCHANGED <<txs, span, seen, gap>> /\ Swaps' = Swaps
    BY <1>6 DEF PutTrade, Swaps
  <2>3. /\ pass' \in Passes /\ pass'.page = pass.page \ {s}
        /\ pass'.upto = pass.upto /\ pass'.step = pass.step
    BY <1>0, <2>1 DEF IndexTypeOK, Passes
  <2>4. trades' \cup pass'.page = trades \cup pass.page /\ trades' \subseteq Swaps
    BY <1>0, <2>1, <2>3
  <2>5. PageCovers'
    BY <1>0, <2>2, <2>3, <2>4 DEF PageCovers
  <2>6. ~gap' => \A t \in Swaps' : t <= seen' => t \in trades'
    BY <1>0, <2>1, <2>2
  <2>7. IndexTypeOK'
    BY <1>0, <2>2, <2>3, <2>4 DEF IndexTypeOK
  <2> QED
    BY <1>0, <2>2, <2>5, <2>6, <2>7 DEF IndexInv
<1>7. CASE EndPass
  <2>1. /\ pass.step = "put" /\ pass.page = {} /\ pass' = Asleep
        /\ seen' = pass.upto /\ gap' = (gap \/ pass.upto - seen > PageLimit)
        /\ UNCHANGED <<txs, span, trades>> /\ Swaps' = Swaps
    BY <1>7 DEF EndPass, Swaps
  <2>2. pass.upto \in Nat /\ pass.upto <= Len(txs)
    BY <1>0, <2>1 DEF PageCovers, IndexTypeOK, Passes
  <2>3. pass' \in Passes /\ pass'.page = {} /\ pass'.step # "put"
    BY <2>1 DEF Asleep, Passes
  <2>4. ~gap' => \A s \in Swaps' : s <= seen' => s \in trades'
    <3>1. SUFFICES ASSUME ~gap', NEW s \in Swaps, s <= pass.upto PROVE s \in trades
      BY <2>1
    <3> DEFINE far == pass.upto - seen > PageLimit
    <3>2. gap' = (gap \/ far)
      BY <2>1
    <3> HIDE DEF far
    <3>3. ~gap /\ ~far
      BY <3>2, <3>1, Zenon
    <3>4. s \in Nat /\ ~(pass.upto - seen > PageLimit)
      BY <3>3 DEF Swaps, far
    <3>5. CASE s <= seen
      BY <1>0, <3>3, <3>5
    <3>6. CASE s > seen
      <4>1. s > pass.upto - PageLimit /\ pass.upto # seen
        BY <1>0, <2>2, <3>1, <3>4, <3>6
      <4> QED
        BY <1>0, <2>1, <3>1, <4>1 DEF PageCovers
    <3> QED
      BY <1>0, <3>4, <3>5, <3>6
  <2>5. IndexTypeOK'
    BY <1>0, <2>1, <2>2, <2>3 DEF IndexTypeOK
  <2>6. PageCovers'
    BY <2>3 DEF PageCovers
  <2> QED
    BY <2>1, <2>2, <2>4, <2>5, <2>6 DEF IndexInv
<1> QED
  BY <1>1, <1>3, <1>4, <1>5, <1>6, <1>7 DEF IndexNext, Works, FetchAnyTrades

THEOREM IndexInvariance == IndexSpec => []IndexInv
<1> QED
  BY IndexStart, IndexStep, PTL DEF IndexSpec

\* Whatever breaks off or is passed over, for any page and any number of transactions.
THEOREM NothingMissedTheorem == IndexSpec => []NothingMissed
<1>1. IndexInv => NothingMissed
  <2> SUFFICES ASSUME IndexInv PROVE NothingMissed
    OBVIOUS
  <2>1. Len(txs) \in Nat /\ seen \in Nat /\ seen <= Len(txs) /\ trades \subseteq Swaps
    BY DEF IndexInv, IndexTypeOK
  <2>2. \A s \in 1..seen : s \in 1..Len(txs) /\ s <= seen
    BY <2>1
  <2> QED
    BY <2>1, <2>2 DEF IndexInv, NothingMissed, Swaps
<1> QED
  BY <1>1, IndexInvariance, PTL

\* What HistoryIsKept says of a step.
KeepsHistory ==
  /\ \A b \in DOMAIN snapshots : b \in DOMAIN snapshots' /\ snapshots'[b] = snapshots[b]
  /\ trades \subseteq trades'

LEMMA StepKeepsHistory == [IndexNext]_indexVars => KeepsHistory
<1> SUFFICES ASSUME [IndexNext]_indexVars PROVE KeepsHistory
  OBVIOUS
<1>1. CASE AppendSnapshot
  <2>1. snapshots' = [k \in DOMAIN snapshots \cup {pass.span} |->
                        IF k \in DOMAIN snapshots THEN snapshots[k] ELSE pass.value]
    BY <1>1 DEF AppendSnapshot, Appended
  <2>2. UNCHANGED trades
    BY <1>1 DEF AppendSnapshot
  <2> QED
    BY <2>1, <2>2 DEF KeepsHistory
<1>2. CASE PutTrade
  BY <1>2 DEF PutTrade, KeepsHistory
<1>3. CASE (\E kind \in Kinds : LandTx(kind)) \/ NextSpan \/ StartPass \/ FetchNav
           \/ FetchAnyTrades \/ EndPass \/ BreakOff \/ UNCHANGED indexVars
  <2>1. UNCHANGED <<snapshots, trades>>
    BY <1>3 DEF LandTx, NextSpan, StartPass, FetchNav, FetchAnyTrades, FetchTrades, EndPass,
       BreakOff, indexVars
  <2> QED
    BY <2>1 DEF KeepsHistory
<1> QED
  BY <1>1, <1>2, <1>3 DEF IndexNext, Works

\* A bucket keeps its first snapshot and a trade stays, whatever is repeated or restarted.
THEOREM HistoryTheorem == IndexSpec => HistoryIsKept
<1> QED
  BY StepKeepsHistory, PTL DEF IndexSpec, HistoryIsKept, KeepsHistory

-----------------------------------------------------------------------------
(* The limiter.  A client whose window is over has no more than one         *)
(* window's worth of requests behind it; one in a window `e' ticks old has  *)
(* as many since the window opened as its bucket counts, and no more than   *)
(* one window's worth from before.                                          *)

Windows == [exists : BOOLEAN, count : 1..(Limit + 1), left : 0..WindowTicks]
Buckets == {NoBucket} \cup Windows

LimitTypeOK ==
  /\ buckets \in [Clients -> Buckets]
  /\ recent \in [Clients -> [Ages -> Nat]]

\* `recent' counts, so it grows with the age.
Grows(k) == \A a, b \in Ages : a <= b => recent[k][a] <= recent[k][b]

WindowInv(k) ==
  LET oldest == recent[k][WindowTicks - 1]
      opened == WindowTicks - buckets[k].left
  IN IF Past(buckets[k])
     THEN recent[k][0] = 0 /\ oldest <= Limit
     ELSE /\ recent[k][opened] <= buckets[k].count
          /\ recent[k][opened] <= Limit
          /\ oldest - recent[k][opened] <= Limit

LimitInv ==
  /\ LimitTypeOK
  /\ \A k \in Clients : Grows(k) /\ WindowInv(k)

LEMMA LimitStart == LimitInit => LimitInv
<1> SUFFICES ASSUME LimitInit PROVE LimitInv
  OBVIOUS
<1>1. LimitTypeOK
  BY DEF LimitInit, LimitTypeOK, Buckets
<1>2. \A k \in Clients : Past(buckets[k])
  BY DEF LimitInit, Past, NoBucket
<1>3. 0 \in Ages /\ WindowTicks - 1 \in Ages /\ Limit >= 0
  BY RateLimitAssumption DEF Ages
<1>4. \A k \in Clients : WindowInv(k)
  BY <1>2, <1>3 DEF LimitInit, WindowInv
<1>5. \A k \in Clients : Grows(k)
  BY DEF LimitInit, Grows
<1> QED
  BY <1>1, <1>4, <1>5 DEF LimitInv

\* What a bucket that is not past holds.
LEMMA OpenBuckets ==
  ASSUME LimitTypeOK, NEW k \in Clients, ~Past(buckets[k])
  PROVE  /\ buckets[k] \in Windows
         /\ buckets[k].exists /\ buckets[k].count \in 1..(Limit + 1)
         /\ buckets[k].left \in 1..WindowTicks
         /\ WindowTicks - buckets[k].left \in Ages
<1>0. buckets[k].exists /\ buckets[k].left # 0 /\ buckets[k] \in Buckets
  BY DEF LimitTypeOK, Past
<1>1. buckets[k] \in Windows
  <2>1. buckets[k] # NoBucket
    BY <1>0 DEF NoBucket
  <2> QED
    BY <1>0, <2>1 DEF Windows, Buckets
<1>2. buckets[k].left \in 1..WindowTicks
  <2>1. buckets[k].left \in 0..WindowTicks /\ WindowTicks \in Nat
    BY <1>1, RateLimitAssumption DEF Windows
  <2> QED
    BY <1>0, <2>1
<1>3. buckets[k].count \in 1..(Limit + 1)
  BY <1>1 DEF Windows
<1> QED
  BY <1>0, <1>1, <1>2, <1>3, RateLimitAssumption DEF Ages

\* A purge takes only what is past.
LEMMA PurgeKeeps ==
  ASSUME NEW bs \in [Clients -> Buckets]
  PROVE  /\ Purged(bs) \in [Clients -> Buckets]
         /\ \A k \in Clients : Purged(bs)[k] = bs[k] \/ (Past(bs[k]) /\ Past(Purged(bs)[k]))
BY DEF Purged, Buckets, Past, NoBucket

LEMMA LimitStep == LimitInv /\ [LimitNext]_limitVars => LimitInv'
<1> SUFFICES ASSUME LimitInv, [LimitNext]_limitVars PROVE LimitInv'
  OBVIOUS
<1>0. /\ LimitTypeOK /\ Limit \in Nat \ {0} /\ WindowTicks \in Nat \ {0}
      /\ 0 \in Ages /\ WindowTicks - 1 \in Ages
  BY RateLimitAssumption DEF LimitInv, Ages
<1>1. ASSUME NEW k \in Clients, RateLimit(k) PROVE LimitInv'
  <2> DEFINE new == [exists |-> TRUE, count |-> 1, left |-> WindowTicks]
             opened == [buckets EXCEPT ![k] = new]
  <2>1. new \in Buckets /\ ~Past(new) /\ new.count = 1 /\ new.left = WindowTicks
    BY <1>0 DEF Windows, Buckets, Past
  <2>2. opened \in [Clients -> Buckets] /\ opened[k] = new
        /\ \A c \in Clients : c # k => opened[c] = buckets[c]
    BY <1>0, <2>1 DEF LimitTypeOK
  \* Another client's bucket stays, or is past and goes.
  <2>3. ASSUME buckets' \in [Clients -> Buckets],
               \A c \in Clients : c # k =>
                  buckets'[c] = buckets[c] \/ (Past(buckets[c]) /\ Past(buckets'[c])),
               recent' \in [Clients -> [Ages -> Nat]],
               \A c \in Clients : c # k => recent'[c] = recent[c],
               Grows(k)', WindowInv(k)'
        PROVE  LimitInv'
    <3>1. ASSUME NEW c \in Clients, c # k PROVE Grows(c)' /\ WindowInv(c)'
      BY <2>3, <3>1 DEF LimitInv, Grows, WindowInv
    <3> QED
      BY <2>3, <3>1 DEF LimitInv, LimitTypeOK
  <2>4. ASSUME Admit(k)
        PROVE  /\ recent' \in [Clients -> [Ages -> Nat]]
               /\ \A c \in Clients : c # k => recent'[c] = recent[c]
               /\ \A a \in Ages : recent'[k][a] = recent[k][a] + 1
               /\ Grows(k)'
    <3>1. /\ recent' \in [Clients -> [Ages -> Nat]]
          /\ \A c \in Clients : c # k => recent'[c] = recent[c]
          /\ \A a \in Ages : recent'[k][a] = recent[k][a] + 1
      BY <1>0, <2>4 DEF Admit, LimitTypeOK
    <3>2. Grows(k)'
      BY <1>0, <3>1 DEF LimitInv, LimitTypeOK, Grows
    <3> QED
      BY <3>1, <3>2
  <2>5. CASE Past(buckets[k])
    <3>1. Admit(k) /\ (buckets' = opened \/ buckets' = Purged(opened))
      BY <1>1, <2>5 DEF RateLimit
    <3> HIDE DEF opened, new
    <3>2. /\ buckets' \in [Clients -> Buckets] /\ buckets'[k] = new
          /\ \A c \in Clients : c # k =>
                buckets'[c] = buckets[c] \/ (Past(buckets[c]) /\ Past(buckets'[c]))
      BY <2>1, <2>2, <3>1, PurgeKeeps
    <3>3. /\ recent[k][0] = 0 /\ recent[k][WindowTicks - 1] \in Nat
          /\ recent[k][WindowTicks - 1] <= Limit
      BY <1>0, <2>5 DEF LimitInv, LimitTypeOK, WindowInv
    <3>4. recent'[k][0] = 1 /\ recent'[k][WindowTicks - 1] = recent[k][WindowTicks - 1] + 1
      BY <1>0, <2>4, <3>1, <3>3
    <3>5. WindowTicks - new.left = 0
      BY <1>0, <2>1
    <3>6. WindowInv(k)'
      BY <1>0, <2>1, <3>2, <3>3, <3>4, <3>5 DEF WindowInv
    <3> QED
      BY <2>3, <2>4, <3>1, <3>2, <3>6
  <2>6. CASE ~Past(buckets[k])
    <3> DEFINE e == WindowTicks - buckets[k].left
    <3>1. /\ buckets[k] \in Windows /\ buckets[k].exists
          /\ buckets[k].count \in 1..(Limit + 1)
          /\ buckets[k].left \in 1..WindowTicks /\ e \in Ages
      BY <1>0, <2>6, OpenBuckets
    <3>2. /\ recent[k][e] <= buckets[k].count /\ recent[k][e] <= Limit
          /\ recent[k][WindowTicks - 1] - recent[k][e] <= Limit
          /\ recent[k][e] \in Nat /\ recent[k][WindowTicks - 1] \in Nat
      BY <1>0, <2>6, <3>1 DEF LimitInv, LimitTypeOK, WindowInv
    <3>3. CASE buckets[k].count < Limit
      <4>1. Admit(k) /\ buckets' = [buckets EXCEPT ![k].count = @ + 1]
        BY <1>1, <2>6, <3>3 DEF RateLimit
      <4>2. /\ buckets'[k] = [buckets[k] EXCEPT !.count = @ + 1]
            /\ \A c \in Clients : c # k => buckets'[c] = buckets[c]
        BY <1>0, <4>1 DEF LimitTypeOK
      <4>3. /\ buckets'[k] \in Buckets /\ buckets'[k].count = buckets[k].count + 1
            /\ buckets'[k].left = buckets[k].left /\ ~Past(buckets'[k])
        <5>1. /\ buckets'[k].count = buckets[k].count + 1 /\ buckets'[k].left = buckets[k].left
              /\ buckets'[k].exists = buckets[k].exists
          BY <3>1, <4>2 DEF Windows
        <5>2. buckets[k].count + 1 \in 1..(Limit + 1)
          BY <1>0, <3>1, <3>3
        <5>3. buckets'[k] \in Windows
          BY <3>1, <4>2, <5>2 DEF Windows
        <5>4. ~Past(buckets'[k])
          BY <1>0, <3>1, <5>1 DEF Past
        <5> QED
          BY <5>1, <5>3, <5>4 DEF Buckets
      <4>4. buckets' \in [Clients -> Buckets]
        BY <1>0, <4>1, <4>2, <4>3 DEF LimitTypeOK
      <4>5. /\ recent'[k][e] = recent[k][e] + 1
            /\ recent'[k][WindowTicks - 1] = recent[k][WindowTicks - 1] + 1
        BY <1>0, <2>4, <3>1, <4>1
      <4>6. WindowInv(k)'
        <5>1. recent'[k][e] <= buckets'[k].count /\ recent'[k][e] <= Limit
              /\ recent'[k][WindowTicks - 1] - recent'[k][e] <= Limit
          BY <1>0, <3>1, <3>2, <3>3, <4>3, <4>5
        <5> QED
          BY <4>3, <5>1 DEF WindowInv
      <4> QED
        BY <2>3, <2>4, <4>1, <4>2, <4>4, <4>6
    <3>4. CASE ~(buckets[k].count < Limit)
      <4>1. UNCHANGED recent /\ buckets' = [buckets EXCEPT ![k] = Refused(buckets[k])]
        BY <1>1, <2>6, <3>4 DEF RateLimit
      <4>2. /\ buckets'[k] = Refused(buckets[k])
            /\ \A c \in Clients : c # k => buckets'[c] = buckets[c]
        BY <1>0, <4>1 DEF LimitTypeOK
      <4>3. /\ buckets'[k] \in Buckets /\ buckets'[k].count = Limit + 1
            /\ buckets'[k].left = buckets[k].left /\ ~Past(buckets'[k])
        BY <1>0, <3>1, <4>2, <2>6 DEF Windows, Buckets, Past, Refused
      <4>4. buckets' \in [Clients -> Buckets]
        BY <1>0, <4>1, <4>2, <4>3 DEF LimitTypeOK
      <4>5. WindowInv(k)'
        BY <1>0, <3>2, <4>1, <4>3 DEF WindowInv
      <4>6. Grows(k)'
        BY <4>1 DEF LimitInv, Grows
      <4> QED
        BY <1>0, <2>3, <4>1, <4>2, <4>4, <4>5, <4>6 DEF LimitTypeOK
    <3> QED
      BY <3>3, <3>4
  <2> QED
    BY <2>5, <2>6
<1>2. CASE Age
  <2>1. /\ recent' \in [Clients -> [Ages -> Nat]]
        /\ \A k \in Clients : \A a \in Ages :
              recent'[k][a] = IF a = 0 THEN 0 ELSE recent[k][a - 1]
        /\ \A k \in Clients : recent[k] \in [Ages -> Nat]
    <3>1. recent' = [k \in Clients |-> [a \in Ages |-> IF a = 0 THEN 0 ELSE recent[k][a - 1]]]
      BY <1>2 DEF Age
    <3>2. \A k \in Clients : recent[k] \in [Ages -> Nat]
      BY <1>0 DEF LimitTypeOK
    <3>3. \A a \in Ages : a # 0 => a - 1 \in Ages
      BY <1>0 DEF Ages
    <3>4. \A k \in Clients : \A a \in Ages : (IF a = 0 THEN 0 ELSE recent[k][a - 1]) \in Nat
      BY <3>2, <3>3
    <3>5. \A k \in Clients : recent'[k] = [a \in Ages |-> IF a = 0 THEN 0 ELSE recent[k][a - 1]]
      BY <3>1
    <3>6. \A k \in Clients : recent'[k] \in [Ages -> Nat]
      BY <3>4, <3>5
    <3> QED
      BY <3>1, <3>2, <3>5, <3>6
  <2>2. /\ DOMAIN buckets' = Clients /\ buckets' = [k \in Clients |-> buckets'[k]]
        /\ \A k \in Clients : buckets'[k] = IF Past(buckets[k]) THEN buckets[k]
                                             ELSE [buckets[k] EXCEPT !.left = @ - 1]
    BY <1>2 DEF Age
  <2>3. ASSUME NEW k \in Clients PROVE Grows(k)'
    <3> SUFFICES ASSUME NEW a \in Ages, NEW b \in Ages, a <= b
                 PROVE  recent'[k][a] <= recent'[k][b]
      BY DEF Grows
    <3>1. CASE a = 0
      BY <2>1, <3>1
    <3>2. CASE a # 0
      <4>1. /\ a - 1 \in Ages /\ b - 1 \in Ages /\ a - 1 <= b - 1 /\ b # 0
        BY <1>0, <3>2 DEF Ages
      <4>2. recent[k][a - 1] <= recent[k][b - 1]
        BY <4>1 DEF LimitInv, Grows
      <4> QED
        BY <2>1, <3>2, <4>1, <4>2
    <3> QED
      BY <3>1, <3>2
  \* A window's worth of requests as old as can be counted only gets smaller.
  <2>4. ASSUME NEW k \in Clients
        PROVE  /\ recent'[k][WindowTicks - 1] <= recent[k][WindowTicks - 1]
               /\ recent'[k][WindowTicks - 1] \in Nat /\ recent[k][WindowTicks - 1] \in Nat
               /\ recent'[k][0] = 0
    <3>1. recent'[k][0] = 0
      BY <1>0, <2>1
    <3>2. CASE WindowTicks = 1
      BY <1>0, <2>1, <3>1, <3>2
    <3>3. CASE WindowTicks # 1
      <4>1. WindowTicks - 2 \in Ages /\ WindowTicks - 1 # 0 /\ (WindowTicks - 1) - 1 = WindowTicks - 2
        BY <1>0, <3>3 DEF Ages
      <4>2. recent[k][WindowTicks - 2] <= recent[k][WindowTicks - 1]
        BY <1>0, <4>1 DEF LimitInv, Grows
      <4> QED
        BY <1>0, <2>1, <3>1, <4>1, <4>2
    <3> QED
      BY <3>2, <3>3
  <2>5. ASSUME NEW k \in Clients PROVE buckets'[k] \in Buckets /\ WindowInv(k)'
    <3>1. CASE Past(buckets[k])
      <4>1. buckets'[k] = buckets[k]
        BY <2>2, <3>1
      <4> QED
        BY <1>0, <2>4, <3>1, <4>1 DEF LimitInv, LimitTypeOK, WindowInv
    <3>2. CASE ~Past(buckets[k])
      <4> DEFINE e == WindowTicks - buckets[k].left
                 l == buckets[k].left
      <4>1. /\ buckets[k] \in Windows /\ buckets[k].exists
            /\ buckets[k].count \in 1..(Limit + 1)
            /\ l \in 1..WindowTicks /\ e \in Ages
        BY <1>0, <3>2, OpenBuckets
      <4>2. /\ recent[k][e] <= buckets[k].count /\ recent[k][e] <= Limit
            /\ recent[k][WindowTicks - 1] - recent[k][e] <= Limit
            /\ recent[k][e] \in Nat
        BY <1>0, <2>1, <3>2, <4>1 DEF LimitInv, WindowInv
      <4>3. /\ buckets'[k] \in Buckets /\ buckets'[k].left = l - 1
            /\ buckets'[k].count = buckets[k].count /\ buckets'[k].exists
        <5>1. buckets'[k] = [buckets[k] EXCEPT !.left = l - 1]
          BY <2>2, <3>2
        <5>2. l - 1 \in 0..WindowTicks
          BY <1>0, <4>1
        <5>3. /\ buckets'[k] \in Windows /\ buckets'[k].left = l - 1
              /\ buckets'[k].count = buckets[k].count /\ buckets'[k].exists = buckets[k].exists
          BY <4>1, <5>1, <5>2 DEF Windows
        <5> QED
          BY <4>1, <5>3 DEF Buckets
      <4>4. CASE l = 1
        <5>1. Past(buckets'[k]) /\ e = WindowTicks - 1
          BY <4>3, <4>4, <1>0 DEF Past
        <5> QED
          BY <1>0, <2>4, <4>2, <4>3, <5>1 DEF WindowInv
      <4>5. CASE l # 1
        <5>1. /\ ~Past(buckets'[k]) /\ WindowTicks - buckets'[k].left = e + 1
              /\ e + 1 \in Ages /\ e + 1 # 0 /\ (e + 1) - 1 = e
          BY <1>0, <4>1, <4>3, <4>5 DEF Past, Ages
        <5>2. recent'[k][e + 1] = recent[k][e]
          BY <2>1, <5>1
        <5>3. recent'[k][WindowTicks - 1] - recent'[k][e + 1] <= Limit
          BY <1>0, <2>4, <4>2, <5>2
        <5> QED
          BY <4>2, <4>3, <5>1, <5>2, <5>3 DEF WindowInv
      <4> QED
        BY <4>3, <4>4, <4>5
    <3> QED
      BY <3>1, <3>2
  <2> QED
    BY <2>1, <2>2, <2>3, <2>5 DEF LimitInv, LimitTypeOK
<1>3. CASE UNCHANGED limitVars
  BY <1>3 DEF limitVars, LimitInv, LimitTypeOK, Grows, WindowInv
<1> QED
  BY <1>1, <1>2, <1>3 DEF LimitNext

THEOREM LimitInvariance == LimitSpec => []LimitInv
<1> QED
  BY LimitStart, LimitStep, PTL DEF LimitSpec

\* However the requests of a client gather at the end of one window and the start of the
\* next, and whatever buckets are purged meanwhile (rateLimit).
THEOREM LimitTheorem == LimitSpec => []AtMostTwoWindows
<1>1. LimitInv => AtMostTwoWindows
  <2> SUFFICES ASSUME LimitInv, NEW k \in Clients
               PROVE  recent[k][WindowTicks - 1] <= 2 * Limit
    BY DEF AtMostTwoWindows
  <2>0. LimitTypeOK /\ Limit \in Nat /\ WindowTicks \in Nat \ {0} /\ WindowTicks - 1 \in Ages
    BY RateLimitAssumption DEF LimitInv, Ages
  <2>1. recent[k][WindowTicks - 1] \in Nat
    BY <2>0 DEF LimitTypeOK
  <2>2. CASE Past(buckets[k])
    BY <2>0, <2>1, <2>2 DEF LimitInv, WindowInv
  <2>3. CASE ~Past(buckets[k])
    <3>1. recent[k][WindowTicks - buckets[k].left] \in Nat
      BY <2>0, <2>3, OpenBuckets DEF LimitTypeOK
    <3> QED
      BY <2>0, <2>1, <2>3, <3>1 DEF LimitInv, WindowInv
  <2> QED
    BY <2>2, <2>3
<1> QED
  BY <1>1, LimitInvariance, PTL

=============================================================================
