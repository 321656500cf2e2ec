---------------------------- MODULE Users_proofs ----------------------------
(***************************************************************************)
(* Points and referrals, for every number of wallets and of requests under *)
(* way: points were awarded, and they add up; referrals have an account.   *)
(*                                                                         *)
(* The invariant says of each request what it has read and may still       *)
(* write: a document that grants it the award it is about to make, and no  *)
(* more points than its wallet has earned by now.  A reading may be out of *)
(* date, but points earned never fall, so what is written from it was      *)
(* earned; and where it is not out of date the sum is kept.                *)
(***************************************************************************)
EXTENDS Users, FiniteSetTheorems, TLAPS

HasRead == {"referrer", "credit referee", "update"}
HasReferrer == {"credit referee", "credit referrer"}
NamesReferrer == {"referee", "new referee", "referrer"} \cup HasReferrer

\* What a request has read supports what it is going to write.
Supported(r) ==
  LET a == asked[r] IN
  /\ a.step # "idle" => a.me \in Wallets
  /\ a.step \in NamesReferrer => a.code \in Wallets
  /\ a.step \in HasRead =>
       a.u \in UserDocs /\ users[a.me].exists /\ a.u.points <= earned[a.me]
  /\ a.step \in {"referrer", "credit referee"} => a.u.referredBy = NoOne
  /\ a.step = "update" => ~a.u.terms
  /\ a.step \in HasReferrer =>
       a.ref \in UserDocs /\ users[a.code].exists /\ a.ref.points <= earned[a.code]

AddsUp(doc) ==
  doc.points = Award(doc.terms, WELCOME_POINTS)
               + Award(doc.referredBy # NoOne, REFEREE_POINTS)
               + REFERRER_POINTS * doc.referralCount

UsersInv ==
  /\ UsersTypeOK
  /\ \A r \in UserRequests : Supported(r)
  /\ \A w \in Wallets : users[w].exists => users[w].points <= earned[w]
  /\ \A w \in Wallets \ stale : users[w].exists => AddsUp(users[w])

Asks ==
  [ step : RequestSteps, me : Wallets \cup {NoOne}, code : Wallets \cup {NoOne},
    accept : BOOLEAN, u : UserDocs \cup {NoUser}, ref : UserDocs \cup {NoUser} ]
Proceeds(r) == \E ask \in Asks : asked' = [asked EXCEPT ![r] = ask]

\* Accounts are never removed and what was earned never falls.
Grows ==
  \A w \in Wallets :
    /\ users[w].exists => users'[w].exists
    /\ earned'[w] \in Nat /\ earned[w] <= earned'[w]

-----------------------------------------------------------------------------

LEMMA DocExists ==
  ASSUME UsersTypeOK, NEW w \in Wallets
  PROVE  users[w].exists <=> users[w] \in UserDocs
<1>1. users[w] \in UserDocs \/ users[w] = NoUser
  BY DEF UsersTypeOK
<1>2. ~NoUser.exists
  BY DEF NoUser
<1>3. \A d \in UserDocs : d.exists
  BY DEF UserDocs
<1> QED
  BY <1>1, <1>2, <1>3

\* Requests other than the one that takes the step stay supported.
LEMMA OthersSupported ==
  ASSUME UsersInv, Grows, NEW r \in UserRequests, NEW ask,
         asked' = [asked EXCEPT ![r] = ask]
  PROVE  \A q \in UserRequests \ {r} : Supported(q)'
<1> SUFFICES ASSUME NEW q \in UserRequests \ {r} PROVE Supported(q)'
  OBVIOUS
<1>1. asked'[q] = asked[q]
  BY DEF UsersInv, UsersTypeOK
<1>2. asked[q].me \in Wallets \cup {NoOne} /\ asked[q].code \in Wallets \cup {NoOne}
  BY DEF UsersInv, UsersTypeOK
<1>3. Supported(q)
  BY DEF UsersInv
<1>4. \A w \in Wallets : earned[w] \in Nat
  BY DEF UsersInv, UsersTypeOK
<1>5. \A d \in UserDocs : d.points \in Nat
  BY DEF UserDocs
<1> DEFINE a == asked[q]
<1>6. a.step \in HasRead => a.me \in Wallets
  BY <1>3 DEF Supported, HasRead
<1>7. a.step \in HasReferrer => a.code \in Wallets
  BY <1>3 DEF Supported, HasReferrer, NamesReferrer
<1>8. \A w \in Wallets, n \in Nat : n <= earned[w] => n <= earned'[w]
  BY <1>4 DEF Grows
<1>9. a.step \in HasRead => a.u.points <= earned'[a.me]
  BY <1>3, <1>5, <1>6, <1>8 DEF Supported
<1>10. a.step \in HasReferrer => a.ref.points <= earned'[a.code]
  BY <1>3, <1>5, <1>7, <1>8 DEF Supported
<1>11. a.step \in HasRead => users'[a.me].exists
  BY <1>3, <1>6, Zenon DEF Supported, Grows
<1>12. a.step \in HasReferrer => users'[a.code].exists
  BY <1>3, <1>7, Zenon DEF Supported, Grows
<1> HIDE DEF a
<1> QED
  BY <1>1, <1>3, <1>9, <1>10, <1>11, <1>12 DEF Supported, a

\* A step that writes nothing keeps the invariant if its request stays supported.
LEMMA ReadingStep ==
  ASSUME UsersInv, UNCHANGED <<users, earned, stale>>,
         NEW r \in UserRequests, Proceeds(r),
         Supported(r)'
  PROVE  UsersInv'
<1> PICK ask \in Asks : asked' = [asked EXCEPT ![r] = ask]
  BY DEF Proceeds
<1>1. Grows
  BY DEF Grows, UsersInv, UsersTypeOK
<1>2. \A q \in UserRequests : Supported(q)'
  BY <1>1, OthersSupported
<1>3. UsersTypeOK'
  BY DEF UsersInv, UsersTypeOK, Asks
<1> QED
  BY <1>2, <1>3 DEF UsersInv, AddsUp

\* A step that writes the document of w.
LEMMA WritingStep ==
  ASSUME UsersInv,
         NEW r \in UserRequests, Proceeds(r),
         NEW w \in Wallets, NEW doc \in UserDocs, NEW award \in Nat, NEW read,
         users' = [users EXCEPT ![w] = doc],
         Noted(w, award, read),
         doc.points <= earned[w] + award,
         users[w] = read => AddsUp(doc) \/ w \in stale,
         Supported(r)'
  PROVE  UsersInv'
<1> PICK ask \in Asks : asked' = [asked EXCEPT ![r] = ask]
  BY DEF Proceeds
<1>1. /\ users \in [Wallets -> UserDocs \cup {NoUser}]
      /\ earned \in [Wallets -> Nat] /\ stale \in SUBSET Wallets
      /\ earned' = [earned EXCEPT ![w] = @ + award]
      /\ stale' = IF users[w] = read THEN stale ELSE stale \cup {w}
  BY DEF UsersInv, UsersTypeOK, Noted
<1>2. UsersTypeOK'
  BY <1>1 DEF UsersInv, UsersTypeOK, Asks
<1>3. doc.exists
  BY DEF UserDocs
<1>4. Grows
  BY <1>1, <1>3 DEF Grows
<1>5. \A q \in UserRequests : Supported(q)'
  BY <1>4, OthersSupported
<1>6. \A v \in Wallets : users'[v].exists => users'[v].points <= earned'[v]
  BY <1>1 DEF UsersInv
<1>7. \A v \in Wallets \ stale' : users'[v].exists => AddsUp(users'[v])
  <2> SUFFICES ASSUME NEW v \in Wallets \ stale', users'[v].exists
               PROVE  AddsUp(users'[v])
    OBVIOUS
  <2>1. v \notin stale
    BY <1>1
  <2>2. CASE v = w
    BY <2>1, <2>2, <1>1
  <2>3. CASE v # w
    BY <2>1, <2>3, <1>1 DEF UsersInv
  <2> QED
    BY <2>2, <2>3
<1>8. (\A v \in Wallets : users[v].exists => users[v].points <= earned[v])'
  BY <1>6
<1>9. (\A v \in Wallets \ stale : users[v].exists => AddsUp(users[v]))'
  BY <1>7 DEF AddsUp
<1> QED
  BY <1>2, <1>5, <1>8, <1>9 DEF UsersInv

-----------------------------------------------------------------------------
(* Where a request goes.                                                    *)

LEMMA AskType ==
  ASSUME UsersInv, NEW r \in UserRequests
  PROVE  /\ asked[r] \in Asks
         /\ Supported(r)
         /\ \A w \in Wallets : users[w].exists => users[w] \in UserDocs
BY DocExists DEF UsersInv, UsersTypeOK, Asks

LEMMA EndSupported ==
  ASSUME UsersInv, NEW r \in UserRequests, Ends(r)
  PROVE  Proceeds(r) /\ Supported(r)'
<1>1. NoAsk \in Asks
  BY DEF NoAsk, Asks, RequestSteps
<1>2. asked'[r] = NoAsk
  BY DEF Ends, UsersInv, UsersTypeOK
<1>3. Proceeds(r)
  BY <1>1 DEF Ends, Proceeds
<1>4. NoAsk.step = "idle"
  BY DEF NoAsk
<1> QED
  BY <1>2, <1>3, <1>4 DEF Supported, HasRead, HasReferrer, NamesReferrer

LEMMA MoveProceeds ==
  ASSUME UsersInv, NEW r \in UserRequests, NEW step \in RequestSteps, Moves(r, step)
  PROVE  /\ Proceeds(r)
         /\ asked'[r] = [asked[r] EXCEPT !.step = step]
<1>1. asked[r] \in Asks /\ r \in DOMAIN asked
  BY AskType DEF UsersInv, UsersTypeOK
<1>2. asked' = [asked EXCEPT ![r] = [asked[r] EXCEPT !.step = step]]
  BY DEF Moves
<1>3. [asked[r] EXCEPT !.step = step] \in Asks
  BY <1>1 DEF Asks
<1> QED
  BY <1>1, <1>2, <1>3 DEF Proceeds

\* With the account at hand, as it is or as it has just been made.
LEMMA AccountSupported ==
  ASSUME UsersInv, NEW r \in UserRequests, NEW doc \in UserDocs, WithAccount(r, doc),
         asked[r].step \in {"referee", "new referee", "profile", "new profile"},
         users'[asked[r].me].exists, doc.points <= earned'[asked[r].me]
  PROVE  Proceeds(r) /\ Supported(r)'
<1> DEFINE a == asked[r]
<1>1. /\ a \in Asks /\ Supported(r) /\ r \in DOMAIN asked
      /\ {"referrer", "update"} \subseteq RequestSteps
  BY AskType DEF UsersInv, UsersTypeOK, RequestSteps
<1>2. CASE Ends(r)
  BY <1>2, EndSupported
<1>3. CASE /\ asked' = [asked EXCEPT ![r].step = "referrer", ![r].u = doc]
           /\ a.step \in {"referee", "new referee"}
           /\ MayBeReferred(doc)
  <2> DEFINE ask == [a EXCEPT !.step = "referrer", !.u = doc]
  <2>1. asked' = [asked EXCEPT ![r] = ask] /\ asked'[r] = ask
    BY <1>1, <1>3
  <2>2. ask \in Asks
    BY <1>1 DEF Asks
  <2>3. ask.step = "referrer" /\ ask.u = doc /\ ask.me = a.me /\ ask.code = a.code
    BY <1>1 DEF Asks
  <2>4. a.me \in Wallets /\ a.code \in Wallets
    BY <1>1, <1>3 DEF Supported, NamesReferrer
  <2> HIDE DEF ask, a
  <2>5. Supported(r)'
    BY <2>1, <2>3, <2>4, <1>3 DEF Supported, HasRead, HasReferrer, MayBeReferred, a
  <2> QED
    BY <2>1, <2>2, <2>5 DEF Proceeds
<1>4. CASE /\ asked' = [asked EXCEPT ![r].step = "update", ![r].u = doc]
           /\ AwardsWelcome(a.accept, doc)
  <2> DEFINE ask == [a EXCEPT !.step = "update", !.u = doc]
  <2>1. asked' = [asked EXCEPT ![r] = ask] /\ asked'[r] = ask
    BY <1>1, <1>4
  <2>2. ask \in Asks
    BY <1>1 DEF Asks
  <2>3. ask.step = "update" /\ ask.u = doc /\ ask.me = a.me
    BY <1>1 DEF Asks
  <2>4. a.me \in Wallets
    BY <1>1 DEF Supported
  <2> HIDE DEF ask, a
  <2>5. Supported(r)'
    BY <2>1, <2>3, <2>4, <1>4 DEF Supported, HasRead, HasReferrer, NamesReferrer, AwardsWelcome, a
  <2> QED
    BY <2>1, <2>2, <2>5 DEF Proceeds
<1> QED
  BY <1>2, <1>3, <1>4 DEF WithAccount

-----------------------------------------------------------------------------
(* The actions.                                                             *)

LEMMA StartsKeep ==
  ASSUME UsersInv, NEW r \in UserRequests, NEW me \in Wallets,
         StartGet(r, me) \/ \E code \in Wallets \cup {NoOne}, accept \in BOOLEAN :
                              StartPut(r, me, code, accept)
  PROVE  UsersInv'
<1>1. asked \in [UserRequests -> Asks] /\ UNCHANGED <<users, earned, stale>>
  BY DEF UsersInv, UsersTypeOK, Asks, StartGet, StartPut, Unnoted
<1>2. PICK ask \in Asks :
        /\ asked' = [asked EXCEPT ![r] = ask]
        /\ ask.me = me
        /\ ask.step = "profile" \/ (ask.step = "referee" /\ ask.code \in Wallets)
  <2>1. CASE StartGet(r, me)
    <3>1. [NoAsk EXCEPT !.step = "profile", !.me = me] \in Asks
      BY DEF NoAsk, Asks, RequestSteps
    <3> QED
      BY <2>1, <3>1 DEF StartGet, NoAsk
  <2>2. ASSUME NEW code \in Wallets \cup {NoOne}, NEW accept \in BOOLEAN,
               StartPut(r, me, code, accept)
        PROVE  \E ask \in Asks :
                 /\ asked' = [asked EXCEPT ![r] = ask]
                 /\ ask.me = me
                 /\ ask.step = "profile" \/ (ask.step = "referee" /\ ask.code \in Wallets)
    <3> DEFINE ask == [NoAsk EXCEPT !.step = IF code = NoOne THEN "profile" ELSE "referee",
                                    !.me = me, !.code = code, !.accept = accept]
    <3>1. ask \in Asks /\ ask.me = me /\ ask.code = code
          /\ ask.step = IF code = NoOne THEN "profile" ELSE "referee"
      BY DEF NoAsk, Asks, RequestSteps
    <3>2. asked' = [asked EXCEPT ![r] = ask]
      BY <2>2 DEF StartPut
    <3> QED
      BY <3>1, <3>2
  <2> QED
    BY <2>1, <2>2
<1>3. asked'[r] = ask
  BY <1>1, <1>2
<1>4. Supported(r)'
  BY <1>2, <1>3 DEF Supported, HasRead, HasReferrer, NamesReferrer
<1> QED
  BY <1>1, <1>2, <1>4, ReadingStep DEF Proceeds

LEMMA FindUserKeeps ==
  ASSUME UsersInv, NEW r \in UserRequests, FindUser(r)
  PROVE  UsersInv'
<1> DEFINE me == asked[r].me
<1>1. UNCHANGED <<users, earned, stale>> /\ asked[r].step \in {"referee", "profile"}
  BY DEF FindUser, Unnoted
<1>2. asked[r] \in Asks /\ me \in Wallets
  BY <1>1, AskType DEF Supported
<1>3. CASE users[me].exists /\ WithAccount(r, users[me])
  <2>1. users[me] \in UserDocs /\ users[me].points <= earned[me]
    BY <1>2, <1>3, AskType DEF UsersInv
  <2>2. Proceeds(r) /\ Supported(r)'
    BY <1>1, <1>3, <2>1, AccountSupported
  <2> QED
    BY <1>1, <2>2, ReadingStep
<1>4. ASSUME NEW step \in {"new referee", "new profile"}, Moves(r, step),
             step = IF asked[r].step = "referee" THEN "new referee" ELSE "new profile"
      PROVE  UsersInv'
  <2>1. step \in RequestSteps
    BY DEF RequestSteps
  <2>2. Proceeds(r) /\ asked'[r] = [asked[r] EXCEPT !.step = step]
    BY <1>4, <2>1, MoveProceeds
  <2>3. asked'[r].me = me /\ asked'[r].code = asked[r].code /\ asked'[r].step = step
    BY <1>2, <2>2 DEF Asks
  <2>4. step = "new referee" => asked[r].code \in Wallets
    BY <1>1, <1>4, AskType DEF Supported, NamesReferrer
  <2>5. Supported(r)'
    BY <1>2, <2>3, <2>4 DEF Supported, HasRead, HasReferrer, NamesReferrer
  <2> QED
    BY <1>1, <2>2, <2>5, ReadingStep
<1> QED
  BY <1>3, <1>4 DEF FindUser

LEMMA CreateUserKeeps ==
  ASSUME UsersInv, NEW r \in UserRequests, CreateUser(r)
  PROVE  UsersInv'
<1> DEFINE me == asked[r].me
<1>1. asked[r].step \in {"new referee", "new profile"}
  BY DEF CreateUser
<1>2. me \in Wallets
  BY <1>1, AskType DEF Supported
<1>3. /\ Blank \in UserDocs /\ Blank.points = 0 /\ Blank.exists
      /\ ~Blank.terms /\ Blank.referredBy = NoOne /\ Blank.referralCount = 0
  BY DEF Blank, UserDocs
<1>4. AddsUp(Blank)
  <2>1. Award(Blank.terms, WELCOME_POINTS) = 0
        /\ Award(Blank.referredBy # NoOne, REFEREE_POINTS) = 0
    BY <1>3 DEF Award
  <2> QED
    BY <1>3, <2>1 DEF AddsUp, REFERRER_POINTS
<1>5. users' = [users EXCEPT ![me] = Blank] /\ Noted(me, 0, NoUser) /\ WithAccount(r, Blank)
  BY DEF CreateUser
<1>6. users'[me].exists
  BY <1>2, <1>3, <1>5 DEF UsersInv, UsersTypeOK
<1>7. earned[me] \in Nat /\ earned'[me] = earned[me]
  BY <1>2, <1>5 DEF UsersInv, UsersTypeOK, Noted
<1>8. Blank.points <= earned'[me] /\ Blank.points <= earned[me] + 0 /\ 0 \in Nat
  BY <1>3, <1>7
<1>9. Proceeds(r) /\ Supported(r)'
  BY <1>1, <1>3, <1>5, <1>6, <1>8, AccountSupported
<1>10. users[me] = NoUser => AddsUp(Blank) \/ me \in stale
  BY <1>4
<1> HIDE DEF me
<1> QED
  BY <1>2, <1>3, <1>5, <1>8, <1>9, <1>10, WritingStep

LEMMA FindReferrerKeeps ==
  ASSUME UsersInv, NEW r \in UserRequests, FindReferrer(r)
  PROVE  UsersInv'
<1> DEFINE a == asked[r]
           ref == users[a.code]
<1>1. UNCHANGED <<users, earned, stale>> /\ a.step = "referrer"
  BY DEF FindReferrer, Unnoted
<1>2. a \in Asks /\ Supported(r) /\ a.code \in Wallets
  BY <1>1, AskType DEF Supported, NamesReferrer
<1>3. CASE ref.exists /\ asked' = [asked EXCEPT ![r].step = "credit referee", ![r].ref = ref]
  <2> DEFINE ask == [a EXCEPT !.step = "credit referee", !.ref = ref]
  <2>1. ref \in UserDocs /\ ref.points <= earned[a.code]
    BY <1>2, <1>3, AskType DEF UsersInv
  <2>2. ask \in Asks
    BY <1>2, <2>1 DEF Asks, RequestSteps
  <2>3. asked' = [asked EXCEPT ![r] = ask] /\ asked'[r] = ask
    BY <1>3 DEF UsersInv, UsersTypeOK
  <2>4. ask.step = "credit referee" /\ ask.ref = ref /\ ask.me = a.me /\ ask.u = a.u
        /\ ask.code = a.code
    BY <1>2 DEF Asks
  <2> HIDE DEF ask, a
  <2>5. Supported(r)'
    BY <1>1, <1>2, <1>3, <2>1, <2>3, <2>4
    DEF Supported, HasRead, HasReferrer, NamesReferrer, a
  <2> QED
    BY <1>1, <2>2, <2>3, <2>5, ReadingStep DEF Proceeds
<1>4. CASE Ends(r)
  BY <1>1, <1>4, EndSupported, ReadingStep
<1> QED
  BY <1>3, <1>4 DEF FindReferrer

LEMMA CreditRefereeKeeps ==
  ASSUME UsersInv, NEW r \in UserRequests, CreditReferee(r)
  PROVE  UsersInv'
<1> DEFINE a == asked[r]
           me == a.me
           doc == [users[me] EXCEPT !.referredBy = a.code, !.points = a.u.points + REFEREE_POINTS]
<1>1. /\ a.step = "credit referee"
      /\ users' = [users EXCEPT ![me] = doc]
      /\ Noted(me, REFEREE_POINTS, a.u)
      /\ Moves(r, "credit referrer")
  BY DEF CreditReferee
<1>2. /\ a \in Asks /\ Supported(r) /\ me \in Wallets /\ a.code \in Wallets
      /\ a.u \in UserDocs /\ users[me].exists /\ a.u.points <= earned[me]
      /\ a.u.referredBy = NoOne
      /\ a.ref \in UserDocs /\ users[a.code].exists /\ a.ref.points <= earned[a.code]
  <2>1. a \in Asks /\ Supported(r)
    BY AskType
  <2>2. a.step # "idle" /\ a.step \in HasRead /\ a.step \in HasReferrer
        /\ a.step \in NamesReferrer /\ a.step \in {"referrer", "credit referee"}
    BY <1>1 DEF HasRead, HasReferrer, NamesReferrer
  <2> QED
    BY <2>1, <2>2, Zenon DEF Supported
<1>3. users[me] \in UserDocs /\ REFEREE_POINTS \in Nat /\ a.u.points \in Nat
  BY <1>2, AskType DEF REFEREE_POINTS, UserDocs
<1>4. doc \in UserDocs
  <2>1. \A d \in UserDocs, w \in Wallets, n \in Nat :
          [d EXCEPT !.referredBy = w, !.points = n] \in UserDocs
    BY DEF UserDocs
  <2>2. a.u.points + REFEREE_POINTS \in Nat
    BY <1>3
  <2> QED
    BY <1>2, <1>3, <2>1, <2>2
<1>5. doc.points <= earned[me] + REFEREE_POINTS
  <2>1. doc.points = a.u.points + REFEREE_POINTS
    BY <1>3 DEF UserDocs
  <2>2. earned[me] \in Nat
    BY <1>2 DEF UsersInv, UsersTypeOK
  <2> QED
    BY <1>2, <1>3, <2>1, <2>2
<1>6. users[me] = a.u => AddsUp(doc) \/ me \in stale
  <2> SUFFICES ASSUME users[me] = a.u, me \notin stale PROVE AddsUp(doc)
    OBVIOUS
  <2>1. AddsUp(users[me])
    BY <1>2 DEF UsersInv
  <2>2. /\ doc.points = users[me].points + REFEREE_POINTS /\ doc.referredBy = a.code
        /\ doc.terms = users[me].terms /\ doc.referralCount = users[me].referralCount
    BY <1>3 DEF UserDocs
  <2>3. /\ Award(doc.referredBy # NoOne, REFEREE_POINTS) = REFEREE_POINTS
        /\ Award(users[me].referredBy # NoOne, REFEREE_POINTS) = 0
    BY <1>2, <2>2, UsersAssumption DEF Award
  <2>4. Award(doc.terms, WELCOME_POINTS) = Award(users[me].terms, WELCOME_POINTS)
    BY <2>2
  <2>5. Award(users[me].terms, WELCOME_POINTS) \in Nat /\ users[me].referralCount \in Nat
    BY <1>3 DEF Award, WELCOME_POINTS, UserDocs
  <2> QED
    BY <2>1, <2>2, <2>3, <2>4, <2>5 DEF AddsUp, REFEREE_POINTS, REFERRER_POINTS
<1>7. Proceeds(r) /\ asked'[r] = [a EXCEPT !.step = "credit referrer"]
  BY <1>1, MoveProceeds DEF RequestSteps
<1>8. /\ asked'[r].step = "credit referrer" /\ asked'[r].me = me /\ asked'[r].code = a.code
      /\ asked'[r].ref = a.ref
  BY <1>2, <1>7 DEF Asks
<1>9. users'[a.code].exists
  <2>1. doc.exists
    BY <1>4 DEF UserDocs
  <2> HIDE DEF doc
  <2> QED
    BY <1>1, <1>2, <2>1, Zenon DEF UsersInv, UsersTypeOK
<1>10. a.ref.points <= earned'[a.code]
  <2>1. a.ref.points \in Nat
    BY <1>2 DEF UserDocs
  <2>2. earned'[a.code] \in Nat /\ earned[a.code] <= earned'[a.code]
    <3>1. earned \in [Wallets -> Nat] /\ earned' = [earned EXCEPT ![me] = @ + REFEREE_POINTS]
      BY <1>1 DEF UsersInv, UsersTypeOK, Noted
    <3> HIDE DEF a, me
    <3>2. a.code \in Wallets
      BY <1>2
    <3> QED
      BY <1>2, <1>3, <3>1, <3>2
  <2>3. earned[a.code] \in Nat
    BY <1>2 DEF UsersInv, UsersTypeOK
  <2> QED
    BY <1>2, <2>1, <2>2, <2>3
<1>11. Supported(r)'
  BY <1>2, <1>8, <1>9, <1>10 DEF Supported, HasRead, HasReferrer, NamesReferrer
<1> HIDE DEF doc, me, a
<1> QED
  BY <1>1, <1>2, <1>3, <1>4, <1>5, <1>6, <1>7, <1>11, WritingStep

LEMMA CreditReferrerKeeps ==
  ASSUME UsersInv, NEW r \in UserRequests, CreditReferrer(r)
  PROVE  UsersInv'
<1> DEFINE a == asked[r]
           w == a.code
           ref == a.ref
           doc == [users[w] EXCEPT !.points = ReferrerPoints(ref),
                                   !.referralCount = ref.referralCount + 1]
           ask == [NoAsk EXCEPT !.step = "profile", !.me = a.me, !.accept = a.accept]
<1>1. /\ a.step = "credit referrer"
      /\ users' = [users EXCEPT ![w] = doc]
      /\ Noted(w, REFERRER_POINTS, ref)
      /\ asked' = [asked EXCEPT ![r] = ask]
  BY DEF CreditReferrer
<1>2. /\ a \in Asks /\ a.me \in Wallets /\ w \in Wallets
      /\ ref \in UserDocs /\ users[w].exists /\ ref.points <= earned[w]
  <2>1. a \in Asks /\ Supported(r)
    BY AskType
  <2>2. a.step # "idle" /\ a.step \in HasReferrer /\ a.step \in NamesReferrer
    BY <1>1 DEF HasReferrer, NamesReferrer
  <2> QED
    BY <2>1, <2>2, Zenon DEF Supported
<1>3. /\ users[w] \in UserDocs /\ REFERRER_POINTS \in Nat
      /\ ref.points \in Nat /\ ref.referralCount \in Nat
      /\ ReferrerPoints(ref) = ref.points + REFERRER_POINTS
  BY <1>2, AskType DEF REFERRER_POINTS, ReferrerPoints, UserDocs
<1>4. doc \in UserDocs
  <2>1. \A d \in UserDocs, n \in Nat, m \in Nat :
          [d EXCEPT !.points = n, !.referralCount = m] \in UserDocs
    BY DEF UserDocs
  <2>2. ReferrerPoints(ref) \in Nat /\ ref.referralCount + 1 \in Nat
    BY <1>3
  <2> QED
    BY <1>3, <2>1, <2>2
<1>5. doc.points <= earned[w] + REFERRER_POINTS
  <2>1. doc.points = ref.points + REFERRER_POINTS
    BY <1>3 DEF UserDocs
  <2>2. earned[w] \in Nat
    BY <1>2 DEF UsersInv, UsersTypeOK
  <2> QED
    BY <1>2, <1>3, <2>1, <2>2
<1>6. users[w] = ref => AddsUp(doc) \/ w \in stale
  <2> SUFFICES ASSUME users[w] = ref, w \notin stale PROVE AddsUp(doc)
    OBVIOUS
  <2>1. AddsUp(users[w])
    BY <1>2 DEF UsersInv
  <2>2. /\ doc.points = users[w].points + REFERRER_POINTS
        /\ doc.referredBy = users[w].referredBy /\ doc.terms = users[w].terms
        /\ doc.referralCount = users[w].referralCount + 1
    BY <1>3 DEF UserDocs
  <2>3. /\ Award(users[w].terms, WELCOME_POINTS) \in Nat
        /\ Award(users[w].referredBy # NoOne, REFEREE_POINTS) \in Nat
    BY DEF Award, WELCOME_POINTS, REFEREE_POINTS
  <2> QED
    BY <1>3, <2>1, <2>2, <2>3 DEF AddsUp, REFERRER_POINTS
<1>7. ask \in Asks /\ ask.step = "profile" /\ ask.me = a.me
  BY <1>2 DEF NoAsk, Asks, RequestSteps
<1>8. asked'[r] = ask
  BY <1>1 DEF UsersInv, UsersTypeOK
<1>9. Supported(r)'
  BY <1>2, <1>7, <1>8 DEF Supported, HasRead, HasReferrer, NamesReferrer
<1> HIDE DEF doc, ask, ref, w
<1> QED
  BY <1>1, <1>2, <1>3, <1>4, <1>5, <1>6, <1>7, <1>9, WritingStep DEF Proceeds

LEMMA UpdateProfileKeeps ==
  ASSUME UsersInv, NEW r \in UserRequests, UpdateProfile(r)
  PROVE  UsersInv'
<1> DEFINE a == asked[r]
           me == a.me
           doc == [users[me] EXCEPT !.terms = TRUE, !.points = a.u.points + WELCOME_POINTS]
<1>1. /\ a.step = "update"
      /\ users' = [users EXCEPT ![me] = doc]
      /\ Noted(me, WELCOME_POINTS, a.u)
      /\ Ends(r)
  BY DEF UpdateProfile
<1>2. /\ me \in Wallets /\ a.u \in UserDocs /\ users[me].exists
      /\ a.u.points <= earned[me] /\ ~a.u.terms
  <2>1. a.step # "idle" /\ a.step \in HasRead
    BY <1>1 DEF HasRead
  <2> QED
    BY <1>1, <2>1, AskType, Zenon DEF Supported
<1>3. users[me] \in UserDocs /\ WELCOME_POINTS \in Nat /\ a.u.points \in Nat
  BY <1>2, AskType DEF WELCOME_POINTS, UserDocs
<1>4. doc \in UserDocs
  <2>1. \A d \in UserDocs, n \in Nat : [d EXCEPT !.terms = TRUE, !.points = n] \in UserDocs
    BY DEF UserDocs
  <2>2. a.u.points + WELCOME_POINTS \in Nat
    BY <1>3
  <2> QED
    BY <1>3, <2>1, <2>2
<1>5. doc.points <= earned[me] + WELCOME_POINTS
  <2>1. doc.points = a.u.points + WELCOME_POINTS
    BY <1>3 DEF UserDocs
  <2>2. earned[me] \in Nat
    BY <1>2 DEF UsersInv, UsersTypeOK
  <2> QED
    BY <1>2, <1>3, <2>1, <2>2
<1>6. users[me] = a.u => AddsUp(doc) \/ me \in stale
  <2> SUFFICES ASSUME users[me] = a.u, me \notin stale PROVE AddsUp(doc)
    OBVIOUS
  <2>1. AddsUp(users[me])
    BY <1>2 DEF UsersInv
  <2>2. /\ doc.points = users[me].points + WELCOME_POINTS
        /\ doc.referredBy = users[me].referredBy
        /\ doc.referralCount = users[me].referralCount
    BY <1>3 DEF UserDocs
  <2>3. /\ Award(doc.terms, WELCOME_POINTS) = WELCOME_POINTS
        /\ Award(users[me].terms, WELCOME_POINTS) = 0
    <3>1. doc.terms
      BY <1>3 DEF UserDocs
    <3> QED
      BY <1>2, <3>1, Zenon DEF Award
  <2>4. Award(users[me].referredBy # NoOne, REFEREE_POINTS) \in Nat
        /\ users[me].referralCount \in Nat
    BY <1>3 DEF Award, REFEREE_POINTS, UserDocs
  <2>5. Award(doc.referredBy # NoOne, REFEREE_POINTS)
        = Award(users[me].referredBy # NoOne, REFEREE_POINTS)
    BY <2>2
  <2> HIDE DEF doc, me, a
  <2> QED
    BY <1>3, <2>1, <2>2, <2>3, <2>4, <2>5 DEF AddsUp, REFERRER_POINTS, WELCOME_POINTS
<1>7. Proceeds(r)
  <2>1. NoAsk \in Asks
    BY DEF NoAsk, Asks, RequestSteps
  <2> QED
    BY <1>1, <2>1 DEF Ends, Proceeds
<1>8. Supported(r)'
  BY <1>1, EndSupported
<1> HIDE DEF doc, me
<1> QED
  BY <1>1, <1>2, <1>3, <1>4, <1>5, <1>6, <1>7, <1>8, WritingStep

-----------------------------------------------------------------------------

\* The readings of the requests under way support what they write, for good: the inductive
\* invariant of lib/users.ts and its routes.
THEOREM UsersInvariance == UsersSpec => []UsersInv
<1>1. UsersInit => UsersInv
  <2> SUFFICES ASSUME UsersInit PROVE UsersInv
    OBVIOUS
  <2>1. NoAsk \in Asks /\ NoAsk.step = "idle"
    BY DEF NoAsk, Asks, RequestSteps
  <2>2. UsersTypeOK
    BY <2>1 DEF UsersInit, UsersTypeOK, Asks
  <2>3. \A r \in UserRequests : Supported(r)
    BY <2>1 DEF UsersInit, Supported, HasRead, HasReferrer, NamesReferrer
  <2>4. \A w \in Wallets : ~users[w].exists
    BY DEF UsersInit, NoUser
  <2> QED
    BY <2>2, <2>3, <2>4 DEF UsersInv
<1>2. UsersInv /\ [UsersNext]_usersVars => UsersInv'
  <2> SUFFICES ASSUME UsersInv, [UsersNext]_usersVars PROVE UsersInv'
    OBVIOUS
  <2>1. CASE UNCHANGED usersVars
    BY <2>1 DEF usersVars, UsersInv, UsersTypeOK, Supported, AddsUp
  <2>2. ASSUME NEW r \in UserRequests, NEW me \in Wallets,
               StartGet(r, me) \/ \E code \in Wallets \cup {NoOne}, accept \in BOOLEAN :
                                    StartPut(r, me, code, accept)
        PROVE  UsersInv'
    BY <2>2, StartsKeep
  <2>3. ASSUME NEW r \in UserRequests, FailRequest(r) PROVE UsersInv'
    BY <2>3, EndSupported, ReadingStep DEF FailRequest, Unnoted
  <2>4. ASSUME NEW r \in UserRequests,
               \/ FindUser(r) \/ CreateUser(r) \/ FindReferrer(r)
               \/ CreditReferee(r) \/ CreditReferrer(r) \/ UpdateProfile(r)
        PROVE  UsersInv'
    BY <2>4, FindUserKeeps, CreateUserKeeps, FindReferrerKeeps, CreditRefereeKeeps,
       CreditReferrerKeeps, UpdateProfileKeeps
  <2> QED
    BY <2>1, <2>2, <2>3, <2>4 DEF UsersNext
<1> QED
  BY <1>1, <1>2, PTL DEF UsersSpec

\* Whatever requests overlap, fail or write from outdated readings, no wallet shows points
\* it was not awarded.
THEOREM EarnedTheorem == UsersSpec => []PointsWereEarned
<1>1. UsersInv => PointsWereEarned
  BY DEF UsersInv, PointsWereEarned
<1> QED
  BY <1>1, UsersInvariance, PTL

\* The points of an account whose document was never written from an outdated reading are
\* those of its terms, its referrer and its referrals.
THEOREM SumTheorem == UsersSpec => []PointsAddUp
<1>1. UsersInv => PointsAddUp
  BY DEF UsersInv, PointsAddUp, AddsUp
<1> QED
  BY <1>1, UsersInvariance, PTL

-----------------------------------------------------------------------------
(* Referrals.  A referral is half done when the referee's half is written  *)
(* and the referrer's is not: counted ones and half-done ones together are *)
(* no more than the accounts that name the referrer.                       *)

Referred(w) == {v \in Wallets : users[v].exists /\ users[v].referredBy = w}
HalfDone(w) == {r \in UserRequests : asked[r].step = "credit referrer" /\ asked[r].code = w}

Counted(w) ==
  users[w].exists => users[w].referralCount + Cardinality(HalfDone(w)) <= Cardinality(Referred(w))

ReferralsInv == UsersInv /\ (stale = {} => \A w \in Wallets : Counted(w))

LEMMA CountsAreNaturals ==
  \A w : /\ IsFiniteSet(Referred(w)) /\ Cardinality(Referred(w)) \in Nat
         /\ IsFiniteSet(HalfDone(w)) /\ Cardinality(HalfDone(w)) \in Nat
         /\ IsFiniteSet(Referred(w)') /\ Cardinality(Referred(w)') \in Nat
         /\ IsFiniteSet(HalfDone(w)') /\ Cardinality(HalfDone(w)') \in Nat
<1> SUFFICES ASSUME NEW w
             PROVE  /\ IsFiniteSet(Referred(w)) /\ Cardinality(Referred(w)) \in Nat
                    /\ IsFiniteSet(HalfDone(w)) /\ Cardinality(HalfDone(w)) \in Nat
                    /\ IsFiniteSet(Referred(w)') /\ Cardinality(Referred(w)') \in Nat
                    /\ IsFiniteSet(HalfDone(w)') /\ Cardinality(HalfDone(w)') \in Nat
  OBVIOUS
<1>1. IsFiniteSet(Wallets) /\ IsFiniteSet(UserRequests)
  BY UsersAssumption
<1>2. \A S : S \in SUBSET Wallets => IsFiniteSet(S) /\ Cardinality(S) \in Nat
  BY <1>1, FS_Subset, FS_CardinalityType
<1>3. \A S : S \in SUBSET UserRequests => IsFiniteSet(S) /\ Cardinality(S) \in Nat
  BY <1>1, FS_Subset, FS_CardinalityType
<1>4. Referred(w) \in SUBSET Wallets /\ Referred(w)' \in SUBSET Wallets
  BY DEF Referred
<1>5. HalfDone(w) \in SUBSET UserRequests /\ HalfDone(w)' \in SUBSET UserRequests
  BY DEF HalfDone
<1> QED
  BY <1>2, <1>3, <1>4, <1>5

\* Only a step from or to the referrer's half changes the half-done referrals.
LEMMA HalvesKept ==
  ASSUME UsersTypeOK, NEW r \in UserRequests, NEW ask, asked' = [asked EXCEPT ![r] = ask],
         ask.step # "credit referrer"
  PROVE  /\ \A w : HalfDone(w)' = HalfDone(w) \ {r}
         /\ asked[r].step # "credit referrer" => \A w : HalfDone(w)' = HalfDone(w)
<1>1. asked'[r] = ask /\ \A q \in UserRequests : q # r => asked'[q] = asked[q]
  BY DEF UsersTypeOK
<1> QED
  BY <1>1 DEF HalfDone

\* Where no account's referrals change, the counts may only shrink.
LEMMA CountedKept ==
  ASSUME ReferralsInv, stale' = {} => stale = {},
         \A w \in Wallets : users'[w].exists <=> users[w].exists,
         \A w \in Wallets : users[w].exists =>
           users'[w].referredBy = users[w].referredBy
           /\ users'[w].referralCount = users[w].referralCount,
         \A w : \E r : HalfDone(w)' = HalfDone(w) \/ HalfDone(w)' = HalfDone(w) \ {r}
  PROVE  stale' = {} => \A w \in Wallets : Counted(w)'
<1> SUFFICES ASSUME stale' = {}, NEW w \in Wallets, users'[w].exists PROVE Counted(w)'
  BY DEF Counted
<1>1. Referred(w)' = Referred(w)
  BY DEF Referred
<1>2. Cardinality(HalfDone(w)') <= Cardinality(HalfDone(w))
  <2>1. PICK r : HalfDone(w)' = HalfDone(w) \/ HalfDone(w)' = HalfDone(w) \ {r}
    OBVIOUS
  <2>2. IsFiniteSet(HalfDone(w)) /\ HalfDone(w)' \in SUBSET HalfDone(w)
    BY <2>1, CountsAreNaturals
  <2> QED
    BY <2>2, FS_Subset
<1>3. users[w].exists /\ Counted(w) /\ users'[w].referralCount = users[w].referralCount
  BY DEF ReferralsInv
<1>4. users[w].referralCount \in Nat
  BY <1>3, DocExists DEF ReferralsInv, UsersInv, UserDocs
<1> QED
  BY <1>1, <1>2, <1>3, <1>4, CountsAreNaturals DEF Counted

\* A request that reads, starts or ends.
LEMMA ReadingCounts ==
  ASSUME ReferralsInv, NEW r \in UserRequests, UNCHANGED <<users, stale>>, NEW ask,
         asked' = [asked EXCEPT ![r] = ask], ask.step # "credit referrer"
  PROVE  stale' = {} => \A w \in Wallets : Counted(w)'
<1>1. \A w : HalfDone(w)' = HalfDone(w) \ {r}
  BY HalvesKept DEF ReferralsInv, UsersInv
<1> QED
  BY <1>1, CountedKept

\* With the account at hand a request goes on to the referrer or to the update, or ends.
LEMMA AccountAsks ==
  ASSUME UsersInv, NEW r \in UserRequests, NEW doc, WithAccount(r, doc)
  PROVE  \E ask : asked' = [asked EXCEPT ![r] = ask] /\ ask.step # "credit referrer"
<1>1. r \in DOMAIN asked /\ asked[r] \in Asks
  BY AskType DEF UsersInv, UsersTypeOK
<1>2. CASE Ends(r)
  <2>1. NoAsk.step # "credit referrer"
    BY DEF NoAsk
  <2> QED
    BY <1>2, <2>1 DEF Ends
<1>3. ASSUME NEW step \in {"referrer", "update"},
             asked' = [asked EXCEPT ![r].step = step, ![r].u = doc]
      PROVE  \E ask : asked' = [asked EXCEPT ![r] = ask] /\ ask.step # "credit referrer"
  <2> DEFINE ask == [asked[r] EXCEPT !.step = step, !.u = doc]
  <2>1. asked' = [asked EXCEPT ![r] = ask]
    BY <1>1, <1>3
  <2>2. ask.step = step
    BY <1>1 DEF Asks
  <2> HIDE DEF ask
  <2>3. ask.step # "credit referrer"
    BY <2>2
  <2> QED
    BY <2>1, <2>3
<1> QED
  BY <1>2, <1>3 DEF WithAccount

LEMMA ReadsCount ==
  ASSUME ReferralsInv, NEW r \in UserRequests,
         \/ \E me \in Wallets : StartGet(r, me)
         \/ \E me \in Wallets, code \in Wallets \cup {NoOne}, accept \in BOOLEAN :
              StartPut(r, me, code, accept)
         \/ FindUser(r) \/ FindReferrer(r) \/ FailRequest(r)
  PROVE  stale' = {} => \A w \in Wallets : Counted(w)'
<1>0. UsersInv /\ r \in DOMAIN asked /\ asked[r] \in Asks
  BY AskType DEF ReferralsInv, UsersInv, UsersTypeOK
<1>1. ASSUME NEW me \in Wallets, StartGet(r, me) PROVE stale' = {} => \A w \in Wallets : Counted(w)'
  <2>1. [NoAsk EXCEPT !.step = "profile", !.me = me].step # "credit referrer"
    BY DEF NoAsk
  <2> QED
    BY <1>1, <2>1, ReadingCounts DEF StartGet, Unnoted
<1>2. ASSUME NEW me \in Wallets, NEW code \in Wallets \cup {NoOne}, NEW accept \in BOOLEAN,
             StartPut(r, me, code, accept)
      PROVE  stale' = {} => \A w \in Wallets : Counted(w)'
  <2> DEFINE ask == [NoAsk EXCEPT !.step = IF code = NoOne THEN "profile" ELSE "referee",
                                  !.me = me, !.code = code, !.accept = accept]
  <2>1. ask.step # "credit referrer"
    BY DEF NoAsk
  <2>2. asked' = [asked EXCEPT ![r] = ask] /\ UNCHANGED <<users, stale>>
    BY <1>2 DEF StartPut, Unnoted
  <2> HIDE DEF ask
  <2> QED
    BY <2>1, <2>2, ReadingCounts
<1>3. CASE FindUser(r)
  <2> DEFINE me == asked[r].me
             step == IF asked[r].step = "referee" THEN "new referee" ELSE "new profile"
  <2>1. UNCHANGED <<users, stale>> /\ (WithAccount(r, users[me]) \/ Moves(r, step))
    BY <1>3 DEF FindUser, Unnoted
  <2>2. CASE WithAccount(r, users[me])
    BY <1>0, <2>1, <2>2, AccountAsks, ReadingCounts
  <2>3. CASE Moves(r, step)
    <3> DEFINE ask == [asked[r] EXCEPT !.step = step]
    <3>1. asked' = [asked EXCEPT ![r] = ask]
      BY <1>0, <2>3 DEF Moves
    <3>2. ask.step # "credit referrer"
      BY <1>0 DEF Asks
    <3> HIDE DEF ask
    <3> QED
      BY <2>1, <3>1, <3>2, ReadingCounts
  <2> QED
    BY <2>1, <2>2, <2>3
<1>4. CASE FindReferrer(r)
  <2> DEFINE ref == users[asked[r].code]
  <2>1. /\ UNCHANGED <<users, stale>>
        /\ asked' = [asked EXCEPT ![r].step = "credit referee", ![r].ref = ref] \/ Ends(r)
    BY <1>4 DEF FindReferrer, Unnoted
  <2> HIDE DEF ref
  <2>2. CASE Ends(r)
    <3>1. NoAsk.step # "credit referrer"
      BY DEF NoAsk
    <3> QED
      BY <2>1, <2>2, <3>1, ReadingCounts DEF Ends
  <2>3. CASE asked' = [asked EXCEPT ![r].step = "credit referee", ![r].ref = ref]
    <3>1. asked' = [asked EXCEPT ![r] = [asked[r] EXCEPT !.step = "credit referee", !.ref = ref]]
      BY <1>0, <2>3
    <3>2. [asked[r] EXCEPT !.step = "credit referee", !.ref = ref].step # "credit referrer"
      BY <1>0 DEF Asks
    <3> QED
      BY <2>1, <3>1, <3>2, ReadingCounts
  <2> QED
    BY <2>1, <2>2, <2>3
<1>5. CASE FailRequest(r)
  <2>1. NoAsk.step # "credit referrer"
    BY DEF NoAsk
  <2> QED
    BY <1>5, <2>1, ReadingCounts DEF FailRequest, Ends, Unnoted
<1> QED
  BY <1>1, <1>2, <1>3, <1>4, <1>5

\* A write from an outdated reading shows in `stale'.
LEMMA FreshWrite ==
  ASSUME ReferralsInv, NEW w \in Wallets, NEW award, NEW read, Noted(w, award, read), stale' = {}
  PROVE  stale = {} /\ users[w] = read /\ \A v \in Wallets : Counted(v)
BY DEF Noted, ReferralsInv

\* A new account names nobody, and no referral of it is under way.
LEMMA CreateUserCounts ==
  ASSUME ReferralsInv, NEW r \in UserRequests, CreateUser(r)
  PROVE  stale' = {} => \A w \in Wallets : Counted(w)'
<1> SUFFICES ASSUME stale' = {}, NEW w \in Wallets PROVE Counted(w)'
  OBVIOUS
<1> DEFINE me == asked[r].me
<1>1. /\ UsersInv /\ users \in [Wallets -> UserDocs \cup {NoUser}]
      /\ asked[r].step \in {"new referee", "new profile"}
  BY DEF ReferralsInv, UsersInv, UsersTypeOK, CreateUser
<1>2. me \in Wallets
  BY <1>1, AskType DEF Supported
<1>3. users' = [users EXCEPT ![me] = Blank] /\ Noted(me, 0, NoUser) /\ WithAccount(r, Blank)
  BY DEF CreateUser
<1>4. users[me] = NoUser /\ Counted(w)
  BY <1>2, <1>3, FreshWrite
<1>5. ~users[me].exists /\ Blank.exists /\ Blank.referredBy = NoOne /\ Blank.referralCount = 0
  BY <1>4 DEF NoUser, Blank
<1>6. Referred(w)' = Referred(w)
  <2>1. w # NoOne
    BY UsersAssumption
  <2> QED
    BY <1>1, <1>2, <1>3, <1>5, <2>1 DEF Referred
<1>7. HalfDone(w)' = HalfDone(w)
  <2>1. PICK ask : asked' = [asked EXCEPT ![r] = ask] /\ ask.step # "credit referrer"
    BY <1>1, <1>3, AccountAsks
  <2> QED
    BY <1>1, <2>1, HalvesKept DEF UsersInv
<1>8. CASE w = me
  <2>1. HalfDone(w) = {}
    BY <1>1, <1>5, <1>8 DEF UsersInv, Supported, HasReferrer, HalfDone
  <2>2. Cardinality(HalfDone(w)') = 0
    BY <1>7, <2>1, FS_EmptySet
  <2>3. users'[w].referralCount = 0
    BY <1>1, <1>2, <1>3, <1>5, <1>8
  <2> QED
    BY <2>2, <2>3, CountsAreNaturals DEF Counted
<1>9. CASE w # me
  BY <1>1, <1>2, <1>3, <1>4, <1>6, <1>7, <1>9 DEF Counted
<1> QED
  BY <1>8, <1>9

\* The referee's half: one more account names the referrer, one more referral is half done.
LEMMA CreditRefereeCounts ==
  ASSUME ReferralsInv, NEW r \in UserRequests, CreditReferee(r)
  PROVE  stale' = {} => \A w \in Wallets : Counted(w)'
<1> SUFFICES ASSUME stale' = {}, NEW w \in Wallets PROVE Counted(w)'
  OBVIOUS
<1> DEFINE a == asked[r]
           me == a.me
           points == a.u.points + REFEREE_POINTS
           doc == [users[me] EXCEPT !.referredBy = a.code, !.points = points]
<1>1. /\ a.step = "credit referee"
      /\ users' = [users EXCEPT ![me] = doc]
      /\ Noted(me, REFEREE_POINTS, a.u)
      /\ asked' = [asked EXCEPT ![r] = [a EXCEPT !.step = "credit referrer"]]
  BY DEF CreditReferee, Moves
<1>2. /\ UsersInv /\ a \in Asks /\ r \in DOMAIN asked
      /\ users \in [Wallets -> UserDocs \cup {NoUser}]
  BY AskType DEF ReferralsInv, UsersInv, UsersTypeOK
<1>3. me \in Wallets /\ a.code \in Wallets /\ users[me].exists /\ a.u.referredBy = NoOne
  BY <1>1, <1>2, AskType DEF Supported, HasRead, HasReferrer, NamesReferrer
<1>4. users[me] = a.u /\ Counted(w)
  BY <1>1, <1>3, FreshWrite
<1>5. users[me] \in UserDocs
  BY <1>2, <1>3, AskType
<1>6. /\ doc.exists /\ doc.referredBy = a.code
      /\ doc.referralCount = users[me].referralCount
  BY <1>3, <1>5 DEF UserDocs
<1> HIDE DEF doc
<1>7. \A v \in Wallets : users'[v] = IF v = me THEN doc ELSE users[v]
  BY <1>1, <1>2
<1>8. users'[w].exists => users[w].exists /\ users'[w].referralCount = users[w].referralCount
  BY <1>3, <1>6, <1>7
<1>9. \A q \in UserRequests :
        /\ q # r => asked'[q] = asked[q]
        /\ asked'[r].step = "credit referrer" /\ asked'[r].code = a.code
  BY <1>1, <1>2 DEF UsersInv, UsersTypeOK, Asks
<1>10. r \notin HalfDone(w) /\ me \notin Referred(w)
  <2>1. NoOne # w
    BY UsersAssumption
  <2> QED
    BY <1>1, <1>3, <1>4, <2>1 DEF HalfDone, Referred
<1>11. CASE w = a.code
  <2>1. HalfDone(w)' = HalfDone(w) \cup {r}
    BY <1>9, <1>11 DEF HalfDone, a
  <2>2. Referred(w)' = Referred(w) \cup {me}
    BY <1>3, <1>6, <1>7, <1>11 DEF Referred
  <2>3. /\ Cardinality(HalfDone(w)') = Cardinality(HalfDone(w)) + 1
        /\ Cardinality(Referred(w)') = Cardinality(Referred(w)) + 1
    BY <1>10, <2>1, <2>2, CountsAreNaturals, FS_AddElement
  <2>4. users[w].exists => users[w].referralCount \in Nat
    BY <1>2, AskType DEF UserDocs
  <2> QED
    BY <1>4, <1>8, <2>3, <2>4, CountsAreNaturals DEF Counted
<1>12. CASE w # a.code
  <2>1. HalfDone(w)' = HalfDone(w)
    BY <1>1, <1>9, <1>12 DEF HalfDone
  <2>2. Referred(w)' = Referred(w)
    BY <1>3, <1>6, <1>7, <1>10, <1>12 DEF Referred
  <2> QED
    BY <1>4, <1>8, <2>1, <2>2 DEF Counted
<1> QED
  BY <1>11, <1>12

\* The referrer's half: a half-done referral becomes a counted one.
LEMMA CreditReferrerCounts ==
  ASSUME ReferralsInv, NEW r \in UserRequests, CreditReferrer(r)
  PROVE  stale' = {} => \A w \in Wallets : Counted(w)'
<1> SUFFICES ASSUME stale' = {}, NEW w \in Wallets PROVE Counted(w)'
  OBVIOUS
<1> DEFINE a == asked[r]
           c == a.code
           doc == [users[c] EXCEPT !.points = ReferrerPoints(a.ref),
                                   !.referralCount = a.ref.referralCount + 1]
           ask == [NoAsk EXCEPT !.step = "profile", !.me = a.me, !.accept = a.accept]
<1>1. /\ a.step = "credit referrer"
      /\ users' = [users EXCEPT ![c] = doc]
      /\ Noted(c, REFERRER_POINTS, a.ref)
      /\ asked' = [asked EXCEPT ![r] = ask]
  BY DEF CreditReferrer
<1>2. /\ UsersInv /\ UsersTypeOK /\ users \in [Wallets -> UserDocs \cup {NoUser}]
  BY DEF ReferralsInv, UsersInv, UsersTypeOK
<1>3. c \in Wallets /\ users[c].exists
  BY <1>1, <1>2, AskType DEF Supported, HasReferrer, NamesReferrer
<1>4. users[c] = a.ref /\ Counted(w)
  BY <1>1, <1>3, FreshWrite
<1>5. users[c] \in UserDocs
  BY <1>2, <1>3, AskType
<1>6. /\ doc.exists /\ doc.referredBy = users[c].referredBy
      /\ doc.referralCount = users[c].referralCount + 1
  BY <1>3, <1>4, <1>5 DEF UserDocs
<1>7. ask.step # "credit referrer"
  BY DEF NoAsk
<1> HIDE DEF doc, ask
<1>8. \A v \in Wallets : users'[v] = IF v = c THEN doc ELSE users[v]
  BY <1>1, <1>2
<1>9. Referred(w)' = Referred(w)
  BY <1>3, <1>6, <1>8 DEF Referred
<1>10. HalfDone(w)' = HalfDone(w) \ {r}
  BY <1>1, <1>2, <1>7, HalvesKept
<1>11. users[w].exists => users[w].referralCount \in Nat
  BY <1>2, AskType DEF UserDocs
<1>12. CASE w = c
  <2>1. r \in HalfDone(w)
    BY <1>1, <1>12 DEF HalfDone
  <2>2. Cardinality(HalfDone(w)') = Cardinality(HalfDone(w)) - 1
    BY <1>10, <2>1, CountsAreNaturals, FS_RemoveElement
  <2>3. users'[w].referralCount = users[w].referralCount + 1
    BY <1>6, <1>8, <1>12
  <2> QED
    BY <1>3, <1>4, <1>9, <1>11, <1>12, <2>2, <2>3, CountsAreNaturals DEF Counted
<1>13. CASE w # c
  <2>1. HalfDone(w)' = HalfDone(w)
    BY <1>10, <1>13 DEF HalfDone
  <2> QED
    BY <1>4, <1>8, <1>9, <1>13, <2>1 DEF Counted
<1> QED
  BY <1>12, <1>13

\* The update touches no referral.
LEMMA UpdateProfileCounts ==
  ASSUME ReferralsInv, NEW r \in UserRequests, UpdateProfile(r)
  PROVE  stale' = {} => \A w \in Wallets : Counted(w)'
<1> DEFINE a == asked[r]
           me == a.me
           points == a.u.points + WELCOME_POINTS
           doc == [users[me] EXCEPT !.terms = TRUE, !.points = points]
<1>1. /\ a.step = "update"
      /\ users' = [users EXCEPT ![me] = doc]
      /\ Noted(me, WELCOME_POINTS, a.u)
      /\ asked' = [asked EXCEPT ![r] = NoAsk]
  BY DEF UpdateProfile, Ends
<1>2. /\ UsersInv /\ UsersTypeOK /\ users \in [Wallets -> UserDocs \cup {NoUser}]
  BY DEF ReferralsInv, UsersInv, UsersTypeOK
<1>3. me \in Wallets /\ users[me].exists
  BY <1>1, <1>2, AskType DEF Supported, HasRead
<1>4. users[me] \in UserDocs
  BY <1>2, <1>3, AskType
<1>5. /\ doc.exists /\ doc.referredBy = users[me].referredBy
      /\ doc.referralCount = users[me].referralCount
  BY <1>3, <1>4 DEF UserDocs
<1>6. stale' = {} => stale = {}
  BY <1>1 DEF Noted
<1>7. NoAsk.step # "credit referrer"
  BY DEF NoAsk
<1> HIDE DEF doc
<1>8. \A v \in Wallets : users'[v] = IF v = me THEN doc ELSE users[v]
  BY <1>1, <1>2
<1>9. \A w : HalfDone(w)' = HalfDone(w) \ {r}
  BY <1>1, <1>2, <1>7, HalvesKept
<1>10. \A w \in Wallets : users'[w].exists <=> users[w].exists
  BY <1>3, <1>5, <1>8
<1>11. \A w \in Wallets : users[w].exists =>
         users'[w].referredBy = users[w].referredBy
         /\ users'[w].referralCount = users[w].referralCount
  BY <1>5, <1>8
<1> QED
  BY <1>6, <1>9, <1>10, <1>11, CountedKept

\* Counted referrals and half-done ones are accounts that name the referrer.
THEOREM ReferralsInvariance == UsersSpec => []ReferralsInv
<1>1. UsersInit /\ UsersInv => ReferralsInv
  <2> SUFFICES ASSUME UsersInit, UsersInv PROVE \A w \in Wallets : ~users[w].exists
    BY DEF ReferralsInv, Counted
  <2> QED
    BY DEF UsersInit, NoUser
<1>2. ReferralsInv /\ UsersInv' /\ [UsersNext]_usersVars => ReferralsInv'
  <2> SUFFICES ASSUME ReferralsInv, UsersInv', [UsersNext]_usersVars
               PROVE  stale' = {} => \A w \in Wallets : Counted(w)'
    BY DEF ReferralsInv
  <2>1. CASE UNCHANGED usersVars
    BY <2>1 DEF usersVars, ReferralsInv, Counted, Referred, HalfDone
  <2>2. ASSUME NEW r \in UserRequests,
               \/ \E me \in Wallets : StartGet(r, me)
               \/ \E me \in Wallets, code \in Wallets \cup {NoOne}, accept \in BOOLEAN :
                    StartPut(r, me, code, accept)
               \/ FindUser(r) \/ FindReferrer(r) \/ FailRequest(r)
        PROVE  stale' = {} => \A w \in Wallets : Counted(w)'
    BY <2>2, ReadsCount
  <2>3. ASSUME NEW r \in UserRequests,
               CreateUser(r) \/ CreditReferee(r) \/ CreditReferrer(r) \/ UpdateProfile(r)
        PROVE  stale' = {} => \A w \in Wallets : Counted(w)'
    BY <2>3, CreateUserCounts, CreditRefereeCounts, CreditReferrerCounts, UpdateProfileCounts
  <2> QED
    BY <2>1, <2>2, <2>3 DEF UsersNext
<1> QED
  BY <1>1, <1>2, UsersInvariance, PTL DEF UsersSpec

\* However referrals overlap and break off in the middle, none is counted that no account
\* names, as long as nobody wrote from an outdated reading.
THEOREM ReferralsTheorem == UsersSpec => []ReferralsAreRecorded
<1>1. ReferralsInv => ReferralsAreRecorded
  <2> SUFFICES ASSUME ReferralsInv, stale = {}, NEW w \in Wallets, users[w].exists
               PROVE  users[w].referralCount <= Cardinality(Referred(w))
    BY DEF ReferralsAreRecorded, Referred
  <2>1. Counted(w) /\ users[w].referralCount \in Nat
    BY AskType, DocExists DEF ReferralsInv, UsersInv, UserDocs
  <2> QED
    BY <2>1, CountsAreNaturals DEF Counted
<1> QED
  BY <1>1, ReferralsInvariance, PTL

=============================================================================
