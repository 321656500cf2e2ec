-------------------------------- MODULE Users --------------------------------
(***************************************************************************)
(* The platform's user accounts: points for accepting the terms and for    *)
(* referrals, kept as one document per wallet and changed by the requests  *)
(* GET and PUT /api/users/me.                                              *)
(*                                                                         *)
(* A step is one call of the document store; between two calls a request   *)
(* waits, other requests run, and the store may fail, which ends it there. *)
(* Names and texts of a profile are left out.                              *)
(***************************************************************************)
EXTENDS Integers, FiniteSets

CONSTANTS
  Wallets,
  UserRequests,   \* the requests that can be under way at a time
  NoOne,          \* no wallet
  MaxEarned       \* bound on the points awarded to one wallet

ASSUME UsersAssumption ==
  /\ NoOne \notin Wallets
  /\ IsFiniteSet(Wallets) /\ IsFiniteSet(UserRequests)
  /\ MaxEarned \in Nat

VARIABLES
  users,      \* wallet -> its document
  asked,      \* request -> how far it is, what it asks, and the documents it has read
  earned,     \* history: wallet -> the points awarded to it
  stale       \* history: the wallets whose document was written from an outdated reading

usersVars == <<users, asked, earned, stale>>

WELCOME_POINTS == 100
REFERRER_POINTS == 50
REFEREE_POINTS == 25

NoUser == [exists |-> FALSE]
UserDocs ==
  [ exists : {TRUE}, points : Nat, referredBy : Wallets \cup {NoOne}, referralCount : Nat,
    terms : BOOLEAN ]
Blank ==
  [exists |-> TRUE, points |-> 0, referredBy |-> NoOne, referralCount |-> 0, terms |-> FALSE]

RequestSteps ==
  { "idle", "referee", "new referee", "referrer", "credit referee", "credit referrer",
    "profile", "new profile", "update" }
NoAsk ==
  [ step |-> "idle", me |-> NoOne, code |-> NoOne, accept |-> FALSE, u |-> NoUser,
    ref |-> NoUser ]

UsersTypeOK ==
  /\ users \in [Wallets -> UserDocs \cup {NoUser}]
  /\ asked \in [UserRequests ->
                  [ step : RequestSteps, me : Wallets \cup {NoOne}, code : Wallets \cup {NoOne},
                    accept : BOOLEAN, u : UserDocs \cup {NoUser},
                    ref : UserDocs \cup {NoUser} ]]
  /\ earned \in [Wallets -> Nat]
  /\ stale \in SUBSET Wallets

UsersInit ==
  /\ users = [w \in Wallets |-> NoUser]
  /\ asked = [r \in UserRequests |-> NoAsk]
  /\ earned = [w \in Wallets |-> 0]
  /\ stale = {}

-----------------------------------------------------------------------------
(* History: what a write adds to what was earned, within the bound, and     *)
(* whether the document had changed since the request read it.              *)

Noted(w, award, read) ==
  /\ earned[w] + award <= MaxEarned
  /\ earned' = [earned EXCEPT ![w] = @ + award]
  /\ stale' = IF users[w] = read THEN stale ELSE stale \cup {w}
Unnoted == UNCHANGED <<earned, stale>>

Moves(r, step) == asked' = [asked EXCEPT ![r].step = step]
Ends(r) == asked' = [asked EXCEPT ![r] = NoAsk]

-----------------------------------------------------------------------------
(* The requests.                                                            *)

\* GET: the account, made on first sight.
StartGet(r, me) ==
  /\ asked[r].step = "idle"
  /\ asked' = [asked EXCEPT ![r] = [NoAsk EXCEPT !.step = "profile", !.me = me]]
  /\ UNCHANGED users /\ Unnoted

\* PUT: a referral code first, if there is one; nobody refers himself.
StartPut(r, me, code, accept) ==
  /\ asked[r].step = "idle"
  /\ code # me
  /\ asked' = [asked EXCEPT ![r] =
                 [NoAsk EXCEPT !.step = IF code = NoOne THEN "profile" ELSE "referee",
                               !.me = me, !.code = code, !.accept = accept]]
  /\ UNCHANGED users /\ Unnoted

AwardsWelcome(accept, u) == accept /\ ~u.terms

\* Mutant: an account may be referred again and again.
MayBeReferred_Again(u) == TRUE
MayBeReferred(u) == u.referredBy = NoOne

\* Where a request goes with its account at hand: on to the referrer, unless it has one; or
\* to the profile's update, of which only the welcome bonus is followed.
WithAccount(r, u) ==
  IF asked[r].step \in {"referee", "new referee"}
  THEN IF MayBeReferred(u)
       THEN asked' = [asked EXCEPT ![r].step = "referrer", ![r].u = u]
       ELSE Ends(r)
  ELSE IF AwardsWelcome(asked[r].accept, u)
       THEN asked' = [asked EXCEPT ![r].step = "update", ![r].u = u]
       ELSE Ends(r)

\* getOrCreateUser looks the account up, ...
FindUser(r) ==
  LET me == asked[r].me IN
  /\ asked[r].step \in {"referee", "profile"}
  /\ IF users[me].exists THEN WithAccount(r, users[me])
     ELSE Moves(r, IF asked[r].step = "referee" THEN "new referee" ELSE "new profile")
  /\ UNCHANGED users /\ Unnoted

\* ... and stores a blank one if there was none.
CreateUser(r) ==
  LET me == asked[r].me IN
  /\ asked[r].step \in {"new referee", "new profile"}
  /\ users' = [users EXCEPT ![me] = Blank]
  /\ Noted(me, 0, NoUser)
  /\ WithAccount(r, Blank)

FindReferrer(r) ==
  LET ref == users[asked[r].code] IN
  /\ asked[r].step = "referrer"
  /\ IF ref.exists THEN asked' = [asked EXCEPT ![r].step = "credit referee", ![r].ref = ref]
     ELSE Ends(r)
  /\ UNCHANGED users /\ Unnoted

\* The referee's half: who referred him, and his points.
CreditReferee(r) ==
  LET me == asked[r].me IN
  /\ asked[r].step = "credit referee"
  /\ users' = [users EXCEPT ![me].referredBy = asked[r].code,
                            ![me].points = asked[r].u.points + REFEREE_POINTS]
  /\ Noted(me, REFEREE_POINTS, asked[r].u)
  /\ Moves(r, "credit referrer")

\* Mutant: the points grow with every earlier referral.
ReferrerPoints_Progressive(ref) == ref.points + REFERRER_POINTS * (ref.referralCount + 1)
ReferrerPoints(ref) == ref.points + REFERRER_POINTS

\* The referrer's half, from the document read before.
CreditReferrer(r) ==
  LET w == asked[r].code ref == asked[r].ref IN
  /\ asked[r].step = "credit referrer"
  /\ users' = [users EXCEPT ![w].points = ReferrerPoints(ref),
                            ![w].referralCount = ref.referralCount + 1]
  /\ Noted(w, REFERRER_POINTS, ref)
  /\ asked' = [asked EXCEPT ![r] = [NoAsk EXCEPT !.step = "profile", !.me = asked[r].me,
                                                 !.accept = asked[r].accept]]

\* The update: the terms, and the welcome bonus with them.
UpdateProfile(r) ==
  LET me == asked[r].me u == asked[r].u IN
  /\ asked[r].step = "update"
  /\ users' = [users EXCEPT ![me].terms = TRUE, ![me].points = u.points + WELCOME_POINTS]
  /\ Noted(me, WELCOME_POINTS, u)
  /\ Ends(r)

\* A call of the store fails, or the server dies: what was written stays.
FailRequest(r) ==
  /\ asked[r].step # "idle"
  /\ Ends(r)
  /\ UNCHANGED users /\ Unnoted

UsersNext ==
  \E r \in UserRequests :
    \/ \E me \in Wallets : StartGet(r, me)
    \/ \E me \in Wallets, code \in Wallets \cup {NoOne}, accept \in BOOLEAN :
         StartPut(r, me, code, accept)
    \/ FindUser(r) \/ CreateUser(r) \/ FindReferrer(r)
    \/ CreditReferee(r) \/ CreditReferrer(r) \/ UpdateProfile(r)
    \/ FailRequest(r)

UsersSpec == UsersInit /\ [][UsersNext]_usersVars

-----------------------------------------------------------------------------
(* Properties.                                                              *)

Award(condition, points) == IF condition THEN points ELSE 0

\* However requests interleave and fail, no wallet shows points it was not awarded
\* (lib/users.ts writes points as an earlier reading plus an award).
PointsWereEarned ==
  \A w \in Wallets : users[w].exists => users[w].points <= earned[w]

\* The points of an account are those of its terms, its referrer and its referrals, as long
\* as nobody wrote its document from an outdated reading: other wallets' requests, failed
\* requests and half-done referrals do not disturb them.
PointsAddUp ==
  \A w \in Wallets \ stale :
    users[w].exists =>
      users[w].points = Award(users[w].terms, WELCOME_POINTS)
                        + Award(users[w].referredBy # NoOne, REFEREE_POINTS)
                        + REFERRER_POINTS * users[w].referralCount

\* No referral is counted for a referrer without an account that names him: the referee's
\* half comes first, and a referral applied twice names nobody twice.
ReferralsAreRecorded ==
  stale = {} =>
    \A w \in Wallets :
      users[w].exists =>
        users[w].referralCount <= Cardinality({v \in Wallets :
                                     users[v].exists /\ users[v].referredBy = w})

=============================================================================
