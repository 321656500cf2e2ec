------------------------------ MODULE RateLimit ------------------------------
(***************************************************************************)
(* The request guard's limiter (lib/guard.ts): one bucket per route and    *)
(* client, a counter that starts over when its window is past.  A request  *)
(* finds the limiter, and is counted, in one step: rateLimit awaits        *)
(* nothing.  A bucket's reset time is kept as the ticks left to it; one    *)
(* that is past and one that is gone are told apart, as in the code.       *)
(***************************************************************************)
EXTENDS Integers, FiniteSets

CONSTANTS
  Clients,        \* the limiter's keys: a route and an address
  Limit,          \* the requests a window admits
  WindowTicks,    \* windowMs
  MaxBuckets      \* how many buckets there may be before the purge

ASSUME RateLimitAssumption ==
  /\ Limit \in Nat \ {0}
  /\ WindowTicks \in Nat \ {0}
  /\ MaxBuckets \in Nat

VARIABLES
  buckets,    \* client -> its bucket
  recent      \* history: client -> age -> how many of its requests were admitted no
              \* longer ago than that

limitVars == <<buckets, recent>>

NoBucket == [exists |-> FALSE]
Ages == 0..(WindowTicks - 1)   \* the clock ticks within a window

LimitInit ==
  /\ buckets = [k \in Clients |-> NoBucket]
  /\ recent = [k \in Clients |-> [a \in Ages |-> 0]]

Past(b) == ~b.exists \/ b.left = 0
Size(bs) == Cardinality({k \in Clients : bs[k].exists})

\* Mutant: the purge takes whatever is not new.
Purged_Old(bs) ==
  [k \in Clients |-> IF bs[k].exists /\ bs[k].left = WindowTicks THEN bs[k] ELSE NoBucket]
\* Buckets past their window go, when there are too many.
Purged(bs) == [k \in Clients |-> IF Past(bs[k]) THEN NoBucket ELSE bs[k]]

\* Mutant: a request that is refused starts the window over.
Refused_Extends(b) == [b EXCEPT !.count = Limit + 1, !.left = WindowTicks]
\* The count of refused requests, which grows without end, stops one above the limit.
Refused(b) == [b EXCEPT !.count = Limit + 1]

Admit(k) == recent' = [recent EXCEPT ![k] = [a \in Ages |-> @[a] + 1]]

RateLimit(k) ==
  LET b == buckets[k]
      opened == [buckets EXCEPT ![k] = [exists |-> TRUE, count |-> 1, left |-> WindowTicks]]
  IN IF Past(b)
     THEN /\ buckets' = IF Size(opened) > MaxBuckets THEN Purged(opened) ELSE opened
          /\ Admit(k)
     ELSE IF b.count < Limit
          THEN buckets' = [buckets EXCEPT ![k].count = @ + 1] /\ Admit(k)
          ELSE buckets' = [buckets EXCEPT ![k] = Refused(b)] /\ UNCHANGED recent

\* A tick of the clock; what is as old as a window is out of it.
Age ==
  /\ buckets' = [k \in Clients |->
       IF Past(buckets[k]) THEN buckets[k] ELSE [buckets[k] EXCEPT !.left = @ - 1]]
  /\ recent' = [k \in Clients |->
       [a \in Ages |-> IF a = 0 THEN 0 ELSE recent[k][a - 1]]]

LimitNext == Age \/ \E k \in Clients : RateLimit(k)

LimitSpec == LimitInit /\ [][LimitNext]_limitVars /\ WF_limitVars(Age)

-----------------------------------------------------------------------------

\* Requests come in bursts at a window's end and the next one's start, other clients come
\* and go and buckets are purged: still no span as long as a window admits more than two
\* windows' worth (rateLimit).
AtMostTwoWindows == \A k \in Clients : recent[k][WindowTicks - 1] <= 2 * Limit

\* A client that goes on asking while it is refused is admitted again: refusals do not
\* prolong the window.
RefusalsEnd ==
  \A k \in Clients :
    (~Past(buckets[k]) /\ buckets[k].count > Limit) ~> Past(buckets[k])

=============================================================================
