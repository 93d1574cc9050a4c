---------------------------- MODULE RateLimiter ----------------------------
(***************************************************************************)
(* api-gateway/internal/ratelimit: one bucket per client key, created by   *)
(* the first request, refilled lazily when a request comes, and deleted by *)
(* a background loop after ten idle minutes.  Allow and the loop hold the  *)
(* mutex from start to end, so each is one step.                           *)
(*                                                                         *)
(* Units are those of TokenBucket.  The code computes with float64; its    *)
(* rounding is not modelled.                                               *)
(***************************************************************************)
EXTENDS Integers

CONSTANTS
    Clients,            \* the keys: one per client address
    RequestsPerMinute,  \* RATE_LIMIT_RPM
    TicksPerMinute,     \* the resolution of the clock
    IdleLimit,          \* ticks after which the loop drops a bucket (10 minutes)
    Window              \* ticks for which a client is watched

ASSUME LimiterAssumption ==
    /\ RequestsPerMinute \in Nat \ {0} /\ TicksPerMinute \in Nat \ {0}
    /\ IdleLimit \in Nat /\ IdleLimit >= TicksPerMinute
    /\ Window \in Nat

VARIABLES
    buckets,    \* the map; NoBucket where it has no entry
    answer,     \* the last call of Allow: its key and its result
    watch       \* history: one client, watched from any moment on

limiterVars == <<buckets, answer, watch>>

Token == TicksPerMinute
Burst == RequestsPerMinute * TicksPerMinute
MinOf(x, y) == IF x < y THEN x ELSE y

\* tokens  parts left at lastRefill       idle  ticks since lastRefill
\* Bound: idle is not counted beyond the point where the loop drops the bucket.
NoBucket == [exists |-> FALSE, tokens |-> 0, idle |-> 0]
Bucket   == [exists : BOOLEAN, tokens : 0 .. Burst, idle : 0 .. IdleLimit + 1]

\* What Allow finds after adding elapsed * ratePerSecond, capped at the burst.
Refilled(b) == MinOf(b.tokens + b.idle * RequestsPerMinute, Burst)

\* passed  requests let through in the last `ticks` ticks
NotWatching == [on |-> FALSE, passed |-> 0, ticks |-> 0]

TypeOK ==
    /\ buckets \in [Clients -> Bucket]
    /\ answer \in [who : Clients, ok : BOOLEAN] \cup {<<>>}
    /\ watch \in [Clients -> [on : BOOLEAN, passed : Nat, ticks : 0 .. Window]]

Init ==
    /\ buckets = [c \in Clients |-> NoBucket]
    /\ answer = <<>>
    /\ watch = [c \in Clients |-> NotWatching]

Answer(c, ok) ==
    /\ answer' = [who |-> c, ok |-> ok]
    /\ watch' = IF ok /\ watch[c].on
                THEN [watch EXCEPT ![c].passed = @ + 1] ELSE watch

\* Mutant of AllowFirst: the first request takes no token.
AllowFirstFree(c) ==
    /\ ~buckets[c].exists
    /\ buckets' = [buckets EXCEPT ![c] =
                     [exists |-> TRUE, tokens |-> Burst, idle |-> 0]]
    /\ Answer(c, TRUE)

\* A client that has no bucket gets a full one, less the token it takes.
AllowFirst(c) ==
    /\ ~buckets[c].exists
    /\ buckets' = [buckets EXCEPT ![c] =
                     [exists |-> TRUE, tokens |-> Burst - Token, idle |-> 0]]
    /\ Answer(c, TRUE)

\* Mutant of AllowNext: the refill is not capped at the burst.
AllowNextUncapped(c) ==
    LET tokens == buckets[c].tokens + buckets[c].idle * RequestsPerMinute
        ok     == tokens >= Token
    IN  /\ buckets[c].exists
        /\ buckets' = [buckets EXCEPT ![c] =
              [exists |-> TRUE, tokens |-> IF ok THEN tokens - Token ELSE tokens, idle |-> 0]]
        /\ Answer(c, ok)

AllowNext(c) ==
    LET tokens == Refilled(buckets[c])
        ok     == tokens >= Token
    IN  /\ buckets[c].exists
        /\ buckets' = [buckets EXCEPT ![c] =
              [exists |-> TRUE, tokens |-> IF ok THEN tokens - Token ELSE tokens, idle |-> 0]]
        /\ Answer(c, ok)

Allow(c) == AllowFirst(c) \/ AllowNext(c)

\* Mutant of Cleanup: a bucket is dropped as soon as it has been idle at all.
CleanupTooEarly ==
    /\ buckets' = [c \in Clients |->
                     IF buckets[c].idle > 0 THEN NoBucket ELSE buckets[c]]
    /\ UNCHANGED <<answer, watch>>

\* One round of cleanupLoop.  The ticker fires every five minutes; here at any
\* time, which includes every phase the ticker can have.
Cleanup ==
    /\ buckets' = [c \in Clients |->
                     IF buckets[c].idle > IdleLimit THEN NoBucket ELSE buckets[c]]
    /\ UNCHANGED <<answer, watch>>

\* Time passes.  A watch ends with its window.
Tick ==
    /\ buckets' = [c \in Clients |->
                     IF buckets[c].exists
                     THEN [buckets[c] EXCEPT !.idle = MinOf(@ + 1, IdleLimit + 1)]
                     ELSE NoBucket]
    /\ watch' = [c \in Clients |->
                   IF watch[c].on /\ watch[c].ticks < Window
                   THEN [watch[c] EXCEPT !.ticks = @ + 1] ELSE NotWatching]
    /\ answer' = <<>>

\* History: the count of client c starts now.
Watch(c) ==
    /\ ~watch[c].on
    /\ watch' = [watch EXCEPT ![c].on = TRUE]
    /\ UNCHANGED <<buckets, answer>>

Next == Cleanup \/ Tick \/ \E c \in Clients : Allow(c) \/ Watch(c)

Spec == Init /\ [][Next]_limiterVars
-----------------------------------------------------------------------------
\* The bucket a client has in effect: no entry means a full one.
Level(c) == IF buckets[c].exists THEN Refilled(buckets[c]) ELSE Burst

Ideal == INSTANCE TokenBucket WITH level <- [c \in Clients |-> Level(c)]

\* Lazy refill and dropping idle buckets are invisible: every answer is the one
\* an ideal bucket would give, which a bucket dropped too early would break.
ImplementsTokenBucket == Ideal!BucketSpec

\* In any stretch of time a client gets at most the burst plus what the rate
\* refills in that time.
WindowIsBounded ==
    \A c \in Clients : watch[c].on =>
        watch[c].passed * Token <= Burst + watch[c].ticks * RequestsPerMinute
=============================================================================
