------------------------------- MODULE SignIn -------------------------------
(***************************************************************************)
(* Sign-In-With-Solana: GET /api/auth/nonce and POST /api/auth/verify.  A  *)
(* nonce is a document with an expiry; a verification looks it up, deletes *)
(* it, checks the signature and then hands out a session.  A browser may   *)
(* send the same message again.                                            *)
(*                                                                         *)
(* A step is one call of the document store or what follows the last one;  *)
(* time passes between steps.                                              *)
(***************************************************************************)
EXTENDS Naturals

CONSTANTS
  Nonces,
  Verifications,  \* the verifications that can be under way at a time
  NonceTtl,       \* NONCE_TTL_MS, in ticks
  MaxClock        \* bound on the clock

ASSUME SignInAssumption == NonceTtl \in Nat /\ MaxClock \in Nat

VARIABLES
  clock,
  nonces,     \* nonce -> its document, once issued
  verifying,  \* verification -> how far it is and what it was sent
  sessions,   \* history: nonce -> how many sessions it was good for
  issued      \* history: nonce -> when it was issued

signInVars == <<clock, nonces, verifying, sessions, issued>>

NoNonce == [exists |-> FALSE, exp |-> 0]
NotVerifying == [step |-> "idle"]

SignInInit ==
  /\ clock = 0
  /\ nonces = [n \in Nonces |-> NoNonce]
  /\ verifying = [r \in Verifications |-> NotVerifying]
  /\ sessions = [n \in Nonces |-> 0]
  /\ issued = [n \in Nonces |-> MaxClock + 1]

\* Nonces are random and never come up twice.
IssueNonce(n) ==
  /\ issued[n] > MaxClock
  /\ nonces' = [nonces EXCEPT ![n] = [exists |-> TRUE, exp |-> clock + NonceTtl]]
  /\ issued' = [issued EXCEPT ![n] = clock]
  /\ UNCHANGED <<clock, verifying, sessions>>

\* Mutant: the expiry is not looked at.
Fresh_AnyAge(rec) == rec.exists
Fresh(rec) == rec.exists /\ ~(rec.exp < clock)

\* A message with a nonce, signed by the wallet it names or not.  `began' and `late' are
\* history: when the verification began, and whether the nonce was spent then.
LookUpNonce(r, n, genuine) ==
  /\ verifying[r].step = "idle"
  /\ issued[n] <= MaxClock
  /\ Fresh(nonces[n])
  /\ verifying' = [verifying EXCEPT ![r] =
                     [ step |-> "delete", n |-> n, genuine |-> genuine, began |-> clock,
                       late |-> sessions[n] > 0 ]]
  /\ UNCHANGED <<clock, nonces, sessions, issued>>

\* Mutant: the nonce is left for another try.
Consumed_Kept(n) == nonces
Consumed(n) == [nonces EXCEPT ![n] = NoNonce]

DeleteNonce(r) ==
  /\ verifying[r].step = "delete"
  /\ nonces' = Consumed(verifying[r].n)
  /\ verifying' = [verifying EXCEPT ![r].step = "check"]
  /\ UNCHANGED <<clock, sessions, issued>>

\* The signature is checked only now; a bad one has used the nonce up.
CheckSignature(r) ==
  LET v == verifying[r] IN
  /\ v.step = "check"
  /\ IF v.genuine
     THEN sessions' = [sessions EXCEPT ![v.n] = @ + 1]
     ELSE UNCHANGED sessions
  /\ verifying' = [verifying EXCEPT ![r] = NotVerifying]
  /\ UNCHANGED <<clock, nonces, issued>>

\* The store fails or the server dies; if the nonce is gone the user asks for a new one.
FailVerification(r) ==
  /\ verifying[r].step # "idle"
  /\ verifying' = [verifying EXCEPT ![r] = NotVerifying]
  /\ UNCHANGED <<clock, nonces, sessions, issued>>

PassTime ==
  /\ clock < MaxClock
  /\ clock' = clock + 1
  /\ UNCHANGED <<nonces, verifying, sessions, issued>>

SignInNext ==
  \/ \E n \in Nonces : IssueNonce(n)
  \/ \E r \in Verifications :
       \/ \E n \in Nonces, genuine \in BOOLEAN : LookUpNonce(r, n, genuine)
       \/ DeleteNonce(r) \/ CheckSignature(r) \/ FailVerification(r)
  \/ PassTime

SignInSpec == SignInInit /\ [][SignInNext]_signInVars

-----------------------------------------------------------------------------

\* What the lookup and the deletion, two calls of the store, leave of "one-time": however
\* verifications interleave and fail, one begun after the nonce signed someone in, or
\* later than its time, signs nobody in.  Two that look the nonce up before either has
\* deleted it both hand out a session, so a nonce may sign in more than once
\* (nonce/route.ts and verify/route.ts say it may not).
SpentNonceIsRefused ==
  \A r \in Verifications :
    LET v == verifying[r] IN
    v.step = "check" => ~v.late /\ v.began <= issued[v.n] + NonceTtl

=============================================================================
