------------------------------ MODULE RateLimit ------------------------------
(***************************************************************************)
(* The rate limit of the /v1 routes: fixed windows per address, and the    *)
(* sweep of old ones (src/gateway/app.ts).                                 *)
(***************************************************************************)
EXTENDS Naturals, FiniteSets, FiniteSetsExt

CONSTANTS
    Clients,        \* addresses that call /v1
    RateLimitMax,   \* requests of one address in a window (300)
    Window,         \* RATE_LIMIT_WINDOW_MS
    MaxBuckets,     \* buckets above which old ones are dropped (5000)
    MaxRateTime     \* bound on the clock

RateConstants ==
    {RateLimitMax, Window, MaxBuckets} \subseteq Nat \ {0} /\ MaxRateTime \in Nat

VARIABLES
    rateTime,  \* Date.now
    buckets,   \* rateBuckets
    passed     \* history: when requests of each address passed

rateVars == <<rateTime, buckets, passed>>

NoBucket == [count |-> 0, resetAt |-> 0]

Init ==
    /\ rateTime = 0
    /\ buckets = [c \in Clients |-> NoBucket]
    /\ passed = [c \in Clients |-> [t \in 0..MaxRateTime |-> 0]]

\* What a new window sweeps away when there are many.
ExpiredBuckets ==
    IF Cardinality({c \in Clients : buckets[c] # NoBucket}) > MaxBuckets
    THEN {c \in Clients : rateTime >= buckets[c].resetAt} ELSE {}

NewWindow(c) ==
    buckets' = [x \in Clients |-> CASE x = c -> [count |-> 1, resetAt |-> rateTime + Window]
                                    [] x # c /\ x \in ExpiredBuckets -> NoBucket
                                    [] OTHER -> buckets[x]]

\* Whether the request passes; its key is compared afterwards, so a wrong one
\* counts too.
Request(c) ==
    /\ IF buckets[c] = NoBucket \/ rateTime >= buckets[c].resetAt
       THEN /\ NewWindow(c)
            /\ passed' = [passed EXCEPT ![c][rateTime] = @ + 1]
       ELSE /\ buckets[c].count <= RateLimitMax
            /\ buckets' = [buckets EXCEPT ![c].count = @ + 1]
            /\ passed' = IF buckets[c].count + 1 > RateLimitMax THEN passed
                         ELSE [passed EXCEPT ![c][rateTime] = @ + 1]
    /\ UNCHANGED rateTime

RateTick ==
    /\ rateTime < MaxRateTime
    /\ rateTime' = rateTime + 1
    /\ UNCHANGED <<buckets, passed>>

Next == (\E c \in Clients : Request(c)) \/ RateTick

Spec == Init /\ [][Next]_rateVars

-----------------------------------------------------------------------------

\* Every variable has its type.
TypeOK ==
    /\ rateTime \in 0..MaxRateTime
    /\ buckets \in [Clients -> [count : 0..(RateLimitMax + 1), resetAt : 0..(MaxRateTime + Window)]]
    /\ passed \in [Clients -> [0..MaxRateTime -> 0..RateLimitMax]]

\* No address gets two windows' worth of requests through in the length of
\* one window, wherever it begins and whatever the sweep drops.
WindowsAreKept ==
    \A c \in Clients, from \in 0..MaxRateTime :
        MapThenSumSet(LAMBDA t : passed[c][t], {t \in 0..MaxRateTime : from <= t /\ t < from + Window})
            < 2 * RateLimitMax
=============================================================================
