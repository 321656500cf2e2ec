------------------------------ MODULE Launches ------------------------------
(***************************************************************************)
(* Upcoming launches and the votes for them: POST /api/launches and        *)
(* POST /api/launches/[id]/vote.  A vote reads the launch, turns the       *)
(* voter's own mark over in the list it read and writes the list back.     *)
(*                                                                         *)
(* A step is one call of the document store; between two calls a request   *)
(* waits, other requests run, and the store may fail, which ends it there. *)
(***************************************************************************)
EXTENDS Naturals

CONSTANTS
  LaunchIds,
  Voters,         \* the wallets
  VoteRequests,   \* the votes that can be under way at a time
  NoVoter         \* no wallet

ASSUME LaunchesAssumption == NoVoter \notin Voters

VARIABLES
  launches,   \* launch -> its document
  voting,     \* request -> the launch and the voter, and the document it has read
  marked,     \* history: launch -> the wallets whose finished votes are odd in number
  spoilt      \* history: the launches written from an outdated reading

launchVars == <<launches, voting, marked, spoilt>>

NoLaunch == [exists |-> FALSE, voters |-> {}]
NoVote == [step |-> "idle", l |-> NoVoter, me |-> NoVoter, read |-> {}]

LaunchesInit ==
  /\ launches = [l \in LaunchIds |-> NoLaunch]
  /\ voting = [r \in VoteRequests |-> NoVote]
  /\ marked = [l \in LaunchIds |-> {}]
  /\ spoilt = {}

\* A launch is appended under an id of its own.
CreateLaunch(l) ==
  /\ ~launches[l].exists
  /\ launches' = [launches EXCEPT ![l] = [exists |-> TRUE, voters |-> {}]]
  /\ UNCHANGED <<voting, marked, spoilt>>

\* The vote reads the launch; one that is not there is refused.
ReadLaunch(r, l, me) ==
  /\ voting[r].step = "idle"
  /\ launches[l].exists
  /\ voting' = [voting EXCEPT ![r] =
                  [step |-> "write", l |-> l, me |-> me, read |-> launches[l].voters]]
  /\ UNCHANGED <<launches, marked, spoilt>>

\* Mutant: a vote is never taken back.
Toggled_OneWay(voters, me) == voters \cup {me}
Toggled(voters, me) == IF me \in voters THEN voters \ {me} ELSE voters \cup {me}

\* The whole list is written back, merged into whatever the document is by now.
WriteVote(r) ==
  LET v == voting[r] IN
  /\ v.step = "write"
  /\ launches' = [launches EXCEPT ![v.l].voters = Toggled(v.read, v.me)]
  /\ marked' = [marked EXCEPT ![v.l] = IF v.me \in @ THEN @ \ {v.me} ELSE @ \cup {v.me}]
  /\ spoilt' = IF launches[v.l].voters = v.read THEN spoilt ELSE spoilt \cup {v.l}
  /\ voting' = [voting EXCEPT ![r] = NoVote]

\* A call of the store fails, or the server dies: the vote is not counted.
FailVote(r) ==
  /\ voting[r].step = "write"
  /\ voting' = [voting EXCEPT ![r] = NoVote]
  /\ UNCHANGED <<launches, marked, spoilt>>

LaunchesNext ==
  \/ \E l \in LaunchIds : CreateLaunch(l)
  \/ \E r \in VoteRequests :
       \/ \E l \in LaunchIds, me \in Voters : ReadLaunch(r, l, me)
       \/ WriteVote(r)
       \/ FailVote(r)

LaunchesSpec == LaunchesInit /\ [][LaunchesNext]_launchVars

-----------------------------------------------------------------------------

\* A launch shows the votes of exactly the wallets that voted for it and did not take their
\* vote back, as long as no vote was written from an outdated list: votes for other launches,
\* failed votes and repeated ones do not disturb it (vote/route.ts).
VotesExact ==
  \A l \in LaunchIds \ spoilt : launches[l].voters = marked[l]

=============================================================================
