------------------------------ MODULE RateLimiter ------------------------------
(***************************************************************************)
(* The in-memory rate limiter of infra/rateLimit.ts: one bucket per key,   *)
(* refilled whole when its window has passed, dropped by a timer when it   *)
(* is stale, lost when the process restarts.  check takes a token,         *)
(* isLimited looks at a copy.  JavaScript runs each of them to its end, so *)
(* each is one step.                                                       *)
(***************************************************************************)
EXTENDS Naturals, FiniteSets

CONSTANTS
    LimiterKey,   \* keys: an operation and the caller it is counted for
    maxRequests,  \* tokens of a full bucket
    windowMs,     \* age at which a bucket is refilled
    MaxTime       \* bound of the model: the clock stops there

ASSUME LimiterAssumption ==
    /\ maxRequests \in Nat \ {0}
    /\ windowMs \in Nat \ {0}
    /\ MaxTime \in Nat

VARIABLES
    buckets,  \* buckets[k]: the TokenBucket of the map, or NoBucket
    now,      \* Date.now()
    passed    \* history: passed[k][t], the calls let through before time t

limiterVars == <<buckets, now, passed>>

Time == 0..MaxTime
Bucket == [tokens : 0..maxRequests, lastRefill : Time]
NoBucket == [tokens |-> 0, lastRefill |-> MaxTime + 1]
Until == 0..MaxTime + 1
NoPasses == [k \in LimiterKey |-> [t \in Until |-> 0]]

LimiterTypeOK ==
    /\ buckets \in [LimiterKey -> Bucket \cup {NoBucket}]
    /\ now \in Time
    /\ passed \in [LimiterKey -> [Until -> Nat]]
    /\ \A k \in LimiterKey : buckets[k] # NoBucket => buckets[k].lastRefill <= now

LimiterInit ==
    /\ buckets = [k \in LimiterKey |-> NoBucket]
    /\ now = 0
    /\ passed = NoPasses

Full == [tokens |-> maxRequests, lastRefill |-> now]
Stale(b, age) == now > b.lastRefill + age

\* Mutant: a bucket is full again one tick into its window.
RefillEarly(b) == IF Stale(b, 0) THEN Full ELSE b

Refill(b) == IF Stale(b, windowMs) THEN Full ELSE b

\* The bucket check works on: made when the key has none.
Current(k) == IF buckets[k] = NoBucket THEN Full ELSE Refill(buckets[k])

IsLimited(k) == Current(k).tokens < 1

\* check; the caller tells from IsLimited whether it was let through.
Check(k) ==
    /\ buckets' = [buckets EXCEPT ![k] =
                      IF IsLimited(k) THEN Current(k)
                      ELSE [Current(k) EXCEPT !.tokens = @ - 1]]
    /\ passed' = IF IsLimited(k) THEN passed
                 ELSE [passed EXCEPT ![k] = [t \in Until |-> IF t > now THEN @[t] + 1 ELSE @[t]]]
    /\ UNCHANGED now

\* Mutant: buckets are dropped at half the age.
CleanupEarly ==
    /\ buckets' = [k \in LimiterKey |->
                      IF buckets[k] # NoBucket /\ Stale(buckets[k], 0)
                      THEN NoBucket ELSE buckets[k]]
    /\ UNCHANGED <<now, passed>>

Cleanup ==
    /\ buckets' = [k \in LimiterKey |->
                      IF buckets[k] # NoBucket /\ Stale(buckets[k], 2 * windowMs)
                      THEN NoBucket ELSE buckets[k]]
    /\ UNCHANGED <<now, passed>>

Tick ==
    /\ now < MaxTime
    /\ now' = now + 1
    /\ UNCHANGED <<buckets, passed>>

\* A restart empties the map; the calls let through are counted anew.
Forget ==
    /\ buckets' = [k \in LimiterKey |-> NoBucket]
    /\ passed' = NoPasses
    /\ UNCHANGED now

LimiterNext ==
    \/ \E k \in LimiterKey : Check(k)
    \/ Cleanup
    \/ Tick
    \/ Forget

LimiterSpec == LimiterInit /\ [][LimiterNext]_limiterVars

-------------------------------------------------------------------------------
(* Properties                                                                *)

PassedIn(k, from, to) == passed[k][to + 1] - passed[k][from]

\* The window is fixed, not sliding: it bounds what any span as long as the
\* window lets through to twice maxRequests, wherever the span begins and
\* whatever the cleanup timer did in between.
SpanIsBounded ==
    \A k \in LimiterKey : \A t \in Time :
        t + windowMs <= now => PassedIn(k, t, t + windowMs) <= 2 * maxRequests

\* The cleanup timer may run at any moment: it changes neither the answer of
\* the next check or isLimited nor the number of checks that will pass.
CleanupIsInvisible ==
    [][Cleanup => \A k \in LimiterKey : Current(k).tokens' = Current(k).tokens]_limiterVars
===============================================================================
