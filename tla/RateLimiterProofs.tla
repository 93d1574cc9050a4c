------------------------- MODULE RateLimiterProofs -------------------------
(***************************************************************************)
(* Proofs about RateLimiter, for any clients, rate, clock resolution and   *)
(* idle limit of at least a minute: it is well typed (TypeCorrect), it     *)
(* implements TokenBucket (LimiterIsABucket), and a client never gets more *)
(* than the burst and what the rate refills (WindowBounded).               *)
(*                                                                         *)
(* The argument: the level a client has in effect, lazily computed, grows  *)
(* by the rate in each tick (LevelTicks), and does not see the loss of a   *)
(* bucket that has been idle for so long that it is full (LevelIsFull).    *)
(***************************************************************************)
EXTENDS RateLimiter, TLAPS

\* The account of a client whose watch is w and whose level is n: what it has
\* got and has left is no more than the burst and the refill since.
Balanced(w, n) ==
    IF w.on THEN w.passed * Token + n <= Burst + w.ticks * RequestsPerMinute
    ELSE w.passed = 0 /\ w.ticks = 0

IInv == TypeOK /\ \A c \in Clients : Balanced(watch[c], Level(c))
-----------------------------------------------------------------------------
(* Arithmetic. *)

LEMMA Units ==
    /\ RequestsPerMinute \in Nat /\ Token \in Nat /\ Burst \in Nat
    /\ Token > 0 /\ Token <= Burst /\ IdleLimit \in Nat /\ Window \in Nat
  BY LimiterAssumption DEF Token, Burst

LEMMA Products ==
    ASSUME NEW n \in Nat
    PROVE  /\ n * RequestsPerMinute \in Nat
           /\ (n + 1) * RequestsPerMinute = n * RequestsPerMinute + RequestsPerMinute
           /\ n * Token \in Nat
           /\ (n + 1) * Token = n * Token + Token
           /\ n >= TicksPerMinute => n * RequestsPerMinute >= Burst
  BY LimiterAssumption DEF Token, Burst

-----------------------------------------------------------------------------
(* The level of one bucket. *)

LevelOf(b) == IF b.exists THEN Refilled(b) ELSE Burst

LEMMA LevelRange ==
    ASSUME NEW b \in Bucket
    PROVE  /\ LevelOf(b) \in 0 .. Burst
           /\ Refilled(b) \in 0 .. Burst
  <1>1. b.tokens \in 0 .. Burst /\ b.idle \in Nat
    BY Units DEF Bucket
  <1>2. b.idle * RequestsPerMinute \in Nat
    BY <1>1, Products
  <1> QED
    BY <1>1, <1>2, Units DEF LevelOf, Refilled, MinOf

\* A bucket that the loop would drop is full.
LEMMA LevelIsFull ==
    ASSUME NEW b \in Bucket, b.idle > IdleLimit
    PROVE  LevelOf(b) = Burst
  <1>1. b.tokens \in 0 .. Burst /\ b.idle \in Nat /\ b.idle >= TicksPerMinute
    BY Units, LimiterAssumption DEF Bucket
  <1>2. b.idle * RequestsPerMinute \in Nat /\ b.idle * RequestsPerMinute >= Burst
    BY <1>1, Products
  <1> QED
    BY <1>1, <1>2, Units DEF LevelOf, Refilled, MinOf

\* What one tick makes of a bucket, and of its level.
Aged(b) == IF b.exists THEN [b EXCEPT !.idle = MinOf(@ + 1, IdleLimit + 1)] ELSE NoBucket

LEMMA LevelTicks ==
    ASSUME NEW b \in Bucket
    PROVE  /\ Aged(b) \in Bucket
           /\ LevelOf(Aged(b)) = MinOf(LevelOf(b) + RequestsPerMinute, Burst)
  <1>1. /\ b.exists \in BOOLEAN /\ b.tokens \in 0 .. Burst /\ b.idle \in 0 .. IdleLimit + 1
        /\ b.idle \in Nat
    BY Units DEF Bucket
  <1>2. NoBucket \in Bucket /\ ~NoBucket.exists
    BY Units DEF NoBucket, Bucket
  <1>3. CASE ~b.exists
    BY <1>2, <1>3, Units DEF Aged, LevelOf, MinOf
  <1>4. CASE b.exists
    <2> DEFINE i == MinOf(b.idle + 1, IdleLimit + 1)
               a == [b EXCEPT !.idle = i]
    <2>1. i \in 0 .. IdleLimit + 1 /\ (b.idle <= IdleLimit => i = b.idle + 1)
          /\ (b.idle > IdleLimit => i > IdleLimit)
      BY <1>1, Units DEF MinOf
    <2> HIDE DEF i
    <2>2. a \in Bucket /\ a.exists /\ a.tokens = b.tokens /\ a.idle = i
      BY <1>4, <2>1 DEF Bucket
    <2>3. Aged(b) = a
      BY <1>4 DEF Aged, i
    <2> HIDE DEF a
    <2>4. CASE b.idle > IdleLimit
      BY <2>1, <2>2, <2>3, <2>4, LevelIsFull, Units DEF MinOf
    <2>5. CASE b.idle <= IdleLimit
      <3>1. LevelOf(a) = MinOf(b.tokens + (b.idle + 1) * RequestsPerMinute, Burst)
        BY <2>1, <2>2, <2>5 DEF LevelOf, Refilled
      <3>2. LevelOf(b) = MinOf(b.tokens + b.idle * RequestsPerMinute, Burst)
        BY <1>4 DEF LevelOf, Refilled
      <3>3. /\ b.idle * RequestsPerMinute \in Nat
            /\ (b.idle + 1) * RequestsPerMinute = b.idle * RequestsPerMinute + RequestsPerMinute
        BY <1>1, Products
      <3> QED
        BY <1>1, <2>2, <2>3, <3>1, <3>2, <3>3, Units DEF MinOf
    <2> QED
      BY <1>1, <2>4, <2>5, Units
  <1> QED
    BY <1>1, <1>3, <1>4
-----------------------------------------------------------------------------
(* The steps, seen from the level. *)

LEMMA LevelIs == \A c \in Clients : Level(c) = LevelOf(buckets[c])
  BY DEF Level, LevelOf

\* A bucket written now has its tokens as its level.
LEMMA FreshBucket ==
    ASSUME NEW n \in 0 .. Burst
    PROVE  LET b == [exists |-> TRUE, tokens |-> n, idle |-> 0]
           IN  b \in Bucket /\ LevelOf(b) = n
  <1> DEFINE b == [exists |-> TRUE, tokens |-> n, idle |-> 0]
  <1>1. b \in Bucket
    BY Units DEF Bucket
  <1>2. Refilled(b) = MinOf(n + 0 * RequestsPerMinute, Burst)
    BY DEF Refilled
  <1>3. 0 * RequestsPerMinute = 0
    BY Units
  <1> QED
    BY <1>1, <1>2, <1>3, Units DEF LevelOf, MinOf

\* Allow lets a request through exactly when a token is there, and takes it.
LEMMA AllowTakes ==
    ASSUME TypeOK, NEW c \in Clients, Allow(c)
    PROVE  LET ok == Level(c) >= Token
           IN  /\ Answer(c, ok)
               /\ \E b \in Bucket : /\ buckets' = [buckets EXCEPT ![c] = b]
                                    /\ LevelOf(b) = IF ok THEN Level(c) - Token ELSE Level(c)
  <1>1. buckets[c] \in Bucket
    BY DEF TypeOK
  <1>2. CASE AllowFirst(c)
    <2>1. Level(c) = Burst /\ Burst >= Token /\ Burst - Token \in 0 .. Burst
      BY <1>2, Units DEF AllowFirst, Level
    <2> QED
      BY <1>2, <2>1, FreshBucket DEF AllowFirst
  <1>3. CASE AllowNext(c)
    <2> DEFINE n == Refilled(buckets[c])
               m == IF n >= Token THEN n - Token ELSE n
    <2>1. Level(c) = n /\ n \in 0 .. Burst
      BY <1>1, <1>3, LevelRange DEF AllowNext, Level
    <2>2. /\ Answer(c, n >= Token)
          /\ buckets' = [buckets EXCEPT ![c] = [exists |-> TRUE, tokens |-> m, idle |-> 0]]
      BY <1>3 DEF AllowNext
    <2> HIDE DEF n
    <2>3. m \in 0 .. Burst
      BY <2>1, Units
    <2> QED
      BY <2>1, <2>2, <2>3, FreshBucket
  <1> QED
    BY <1>2, <1>3 DEF Allow

\* What the loop drops was full.
LEMMA CleanupIsInvisible ==
    ASSUME TypeOK, Cleanup
    PROVE  buckets' \in [Clients -> Bucket] /\ \A c \in Clients : Level(c)' = Level(c)
  <1>1. NoBucket \in Bucket /\ LevelOf(NoBucket) = Burst
    BY Units DEF NoBucket, Bucket, LevelOf
  <1>2. \A c \in Clients : Level(c)' = LevelOf(buckets'[c])
    BY DEF Level, LevelOf
  <1>3. ASSUME NEW c \in Clients
        PROVE  buckets'[c] \in Bucket /\ LevelOf(buckets'[c]) = LevelOf(buckets[c])
    <2>1. buckets[c] \in Bucket
      BY DEF TypeOK
    <2>2. buckets'[c] = IF buckets[c].idle > IdleLimit THEN NoBucket ELSE buckets[c]
      BY DEF Cleanup
    <2> QED
      BY <1>1, <2>1, <2>2, LevelIsFull
  <1>4. buckets' = [c \in Clients |-> buckets'[c]]
    BY DEF Cleanup
  <1> QED
    BY <1>2, <1>3, <1>4, LevelIs

LEMMA TickFills ==
    ASSUME TypeOK, Tick
    PROVE  /\ buckets' \in [Clients -> Bucket]
           /\ \A c \in Clients : Level(c)' = MinOf(Level(c) + RequestsPerMinute, Burst)
  <1>1. \A c \in Clients : Level(c)' = LevelOf(buckets'[c])
    BY DEF Level, LevelOf
  <1>2. buckets' = [c \in Clients |-> Aged(buckets[c])]
    BY DEF Tick, Aged
  <1>3. \A c \in Clients : buckets[c] \in Bucket
    BY DEF TypeOK
  <1> QED
    BY <1>1, <1>2, <1>3, LevelTicks, LevelIs
-----------------------------------------------------------------------------
(* Every step keeps the invariant. *)

Watched == [on : BOOLEAN, passed : Nat, ticks : 0 .. Window]

LEMMA Facts ==
    ASSUME IInv, NEW c \in Clients
    PROVE  /\ watch[c] \in Watched /\ Balanced(watch[c], Level(c))
           /\ Level(c) \in 0 .. Burst
           /\ watch[c].passed * Token \in Nat /\ watch[c].ticks * RequestsPerMinute \in Nat
  <1>1. watch[c] \in Watched /\ buckets[c] \in Bucket /\ Balanced(watch[c], Level(c))
    BY DEF IInv, TypeOK, Watched
  <1>2. watch[c].passed \in Nat /\ watch[c].ticks \in Nat
    BY <1>1, Units DEF Watched
  <1> QED
    BY <1>1, <1>2, Products, LevelIs, LevelRange

\* The account of one client after one more request, let through or not.
LEMMA OneMore ==
    ASSUME NEW w \in Watched, w.on = TRUE, NEW n \in 0 .. Burst, Balanced(w, n), n >= Token
    PROVE  LET v == [w EXCEPT !.passed = @ + 1] IN v \in Watched /\ Balanced(v, n - Token)
  <1> DEFINE v == [w EXCEPT !.passed = @ + 1]
  <1>1. w.passed \in Nat /\ w.ticks \in Nat /\ w.on \in BOOLEAN
    BY Units DEF Watched
  <1>2. v \in Watched /\ v.on = w.on /\ v.passed = w.passed + 1 /\ v.ticks = w.ticks
    BY <1>1 DEF Watched
  <1>3. /\ v.passed * Token = w.passed * Token + Token /\ w.passed * Token \in Nat
        /\ w.ticks * RequestsPerMinute \in Nat
    BY <1>1, <1>2, Products
  <1>4. Balanced(v, n - Token)
    <2> HIDE DEF v
    <2> QED
      BY <1>1, <1>2, <1>3, Units DEF Balanced
  <1> QED
    BY <1>2, <1>4

\* The account of one client after one tick.
LEMMA OneTick ==
    ASSUME NEW w \in Watched, w.on = TRUE, NEW n \in 0 .. Burst, Balanced(w, n),
           w.ticks < Window
    PROVE  LET v == [w EXCEPT !.ticks = @ + 1]
           IN  v \in Watched /\ Balanced(v, MinOf(n + RequestsPerMinute, Burst))
  <1> DEFINE v == [w EXCEPT !.ticks = @ + 1]
  <1>1. w.passed \in Nat /\ w.ticks \in Nat /\ w.on \in BOOLEAN
    BY Units DEF Watched
  <1>2. v \in Watched /\ v.on = w.on /\ v.ticks = w.ticks + 1 /\ v.passed = w.passed
    BY <1>1, Units DEF Watched
  <1>3. /\ v.ticks * RequestsPerMinute = w.ticks * RequestsPerMinute + RequestsPerMinute
        /\ w.passed * Token \in Nat /\ w.ticks * RequestsPerMinute \in Nat
    BY <1>1, <1>2, Products
  <1>4. MinOf(n + RequestsPerMinute, Burst) <= n + RequestsPerMinute
        /\ MinOf(n + RequestsPerMinute, Burst) \in Nat
    BY Units DEF MinOf
  <1>5. Balanced(v, MinOf(n + RequestsPerMinute, Burst))
    <2> HIDE DEF v
    <2> QED
      BY <1>1, <1>2, <1>3, <1>4, Units DEF Balanced
  <1> QED
    BY <1>2, <1>5

LEMMA WatchStarts ==
    /\ NotWatching \in Watched /\ ~NotWatching.on
    /\ \A n : Balanced(NotWatching, n)
  BY Units DEF NotWatching, Watched, Balanced

LEMMA InitCorrect == Init => IInv
  <1> SUFFICES ASSUME Init PROVE IInv
    OBVIOUS
  <1>1. NoBucket \in Bucket
    BY Units DEF NoBucket, Bucket
  <1>2. TypeOK
    BY <1>1, WatchStarts DEF Init, TypeOK, Watched
  <1>3. \A c \in Clients : Balanced(watch[c], Level(c))
    BY WatchStarts DEF Init
  <1> QED
    BY <1>2, <1>3 DEF IInv

LEMMA AllowKeeps ==
    ASSUME IInv, NEW c \in Clients, Allow(c)
    PROVE  IInv'
  <1> DEFINE ok == Level(c) >= Token
             n == IF ok THEN Level(c) - Token ELSE Level(c)
  <1>1. TypeOK
    BY DEF IInv
  <1>2. PICK b \in Bucket : buckets' = [buckets EXCEPT ![c] = b] /\ LevelOf(b) = n
    BY <1>1, AllowTakes
  <1>3. Answer(c, ok)
    BY <1>1, AllowTakes
  <1>4. /\ buckets' \in [Clients -> Bucket]
        /\ \A d \in Clients : Level(d)' = IF d = c THEN n ELSE Level(d)
    <2>1. \A d \in Clients : Level(d)' = LevelOf(buckets'[d])
      BY DEF Level, LevelOf
    <2> HIDE DEF n
    <2> QED
      BY <1>1, <1>2, <2>1, LevelIs DEF TypeOK
  <1>5. answer' \in [who : Clients, ok : BOOLEAN] \cup {<<>>}
    BY <1>3 DEF Answer
  <1>6. watch' \in [Clients -> Watched] /\ \A d \in Clients : Balanced(watch'[d], Level(d)')
    <2>1. \A d \in Clients : watch[d] \in Watched /\ Balanced(watch[d], Level(d))
      BY Facts
    <2>2. CASE ok /\ watch[c].on
      <3> DEFINE v == [watch[c] EXCEPT !.passed = @ + 1]
      <3>1. v \in Watched /\ Balanced(v, n)
        BY <2>2, Facts, OneMore
      <3>2. watch' = [watch EXCEPT ![c] = v]
        BY <1>3, <2>2 DEF Answer
      <3> HIDE DEF v, n
      <3>3. watch \in [Clients -> Watched]
        BY <1>1 DEF TypeOK, Watched
      <3> QED
        BY <1>4, <2>1, <3>1, <3>2, <3>3
    <2>3. CASE ~(ok /\ watch[c].on)
      <3>1. watch' = watch
        BY <1>3, <2>3 DEF Answer
      <3>2. Balanced(watch[c], n)
        BY <2>3, Facts DEF Balanced
      <3> HIDE DEF n
      <3> QED
        BY <1>1, <1>4, <2>1, <3>1, <3>2 DEF TypeOK, Watched
    <2> QED
      BY <2>2, <2>3
  <1> QED
    BY <1>4, <1>5, <1>6 DEF IInv, TypeOK, Watched

LEMMA TickKeeps ==
    ASSUME IInv, Tick
    PROVE  IInv'
  <1>1. /\ buckets' \in [Clients -> Bucket]
        /\ \A c \in Clients : Level(c)' = MinOf(Level(c) + RequestsPerMinute, Burst)
    BY TickFills DEF IInv
  <1>2. \A c \in Clients :
           watch'[c] = IF watch[c].on /\ watch[c].ticks < Window
                       THEN [watch[c] EXCEPT !.ticks = @ + 1] ELSE NotWatching
    BY DEF Tick
  <1>3. ASSUME NEW c \in Clients
        PROVE  watch'[c] \in Watched /\ Balanced(watch'[c], Level(c)')
    <2>1. CASE watch[c].on /\ watch[c].ticks < Window
      BY <1>1, <1>2, <2>1, Facts, OneTick
    <2>2. CASE ~(watch[c].on /\ watch[c].ticks < Window)
      BY <1>2, <2>2, WatchStarts
    <2> QED
      BY <2>1, <2>2
  <1>4. watch' \in [Clients -> Watched]
    <2>1. watch' = [c \in Clients |-> watch'[c]]
      BY DEF Tick
    <2> QED
      BY <1>3, <2>1
  <1> QED
    BY <1>1, <1>3, <1>4 DEF IInv, TypeOK, Watched, Tick

LEMMA CleanupKeeps ==
    ASSUME IInv, Cleanup
    PROVE  IInv'
  <1>1. buckets' \in [Clients -> Bucket] /\ \A c \in Clients : Level(c)' = Level(c)
    BY CleanupIsInvisible DEF IInv
  <1> QED
    BY <1>1 DEF IInv, TypeOK, Cleanup

\* A watch starts with nothing passed.
LEMMA WatchKeeps ==
    ASSUME IInv, NEW c \in Clients, Watch(c)
    PROVE  IInv'
  <1> DEFINE v == [watch[c] EXCEPT !.on = TRUE]
  <1>1. v \in Watched /\ v.on /\ v.passed = watch[c].passed /\ v.ticks = watch[c].ticks
    BY Facts DEF Watched
  <1>2. watch' = [watch EXCEPT ![c] = v] /\ UNCHANGED <<buckets, answer>> /\ ~watch[c].on
    BY DEF Watch
  <1>3. Balanced(v, Level(c))
    <2> HIDE DEF v
    <2>1. v.passed = 0 /\ v.ticks = 0
      BY <1>1, <1>2, Facts DEF Balanced
    <2>2. 0 * Token = 0 /\ 0 * RequestsPerMinute = 0
      BY Units
    <2>3. v.passed * Token + Level(c) <= Burst + v.ticks * RequestsPerMinute
      BY <2>1, <2>2, Facts, Units
    <2> QED
      BY <1>1, <2>3 DEF Balanced
  <1> HIDE DEF v
  <1>4. \A d \in Clients : Level(d)' = Level(d)
    BY <1>2 DEF Level
  <1>5. watch \in [Clients -> Watched]
    BY DEF IInv, TypeOK, Watched
  <1> QED
    BY <1>1, <1>2, <1>3, <1>4, <1>5 DEF IInv, TypeOK, Watched

LEMMA StutterKeeps ==
    ASSUME IInv, UNCHANGED limiterVars
    PROVE  IInv' /\ \A c \in Clients : Level(c)' = Level(c)
  BY DEF limiterVars, IInv, TypeOK, Level

LEMMA Invariance == Spec => []IInv
  <1>1. IInv /\ [Next]_limiterVars => IInv'
    BY AllowKeeps, TickKeeps, CleanupKeeps, WatchKeeps, StutterKeeps DEF Next
  <1> QED
    BY <1>1, InitCorrect, PTL DEF Spec

\* Every reachable state of the limiter is well typed; in particular no bucket
\* holds more than the burst, or less than nothing.
THEOREM TypeCorrect == Spec => []TypeOK
  <1>1. IInv => TypeOK
    BY DEF IInv
  <1> QED
    BY <1>1, Invariance, PTL

\* In any stretch of time a client gets at most the burst and what the rate of
\* limiter.go refills in that time, even when its bucket is dropped in between.
THEOREM WindowBounded == Spec => []WindowIsBounded
  <1>1. IInv => WindowIsBounded
    <2> SUFFICES ASSUME IInv, NEW c \in Clients, watch[c].on
                 PROVE  watch[c].passed * Token <= Burst + watch[c].ticks * RequestsPerMinute
      BY DEF WindowIsBounded
    <2> QED
      BY Facts, Units DEF Balanced
  <1> QED
    BY <1>1, Invariance, PTL
-----------------------------------------------------------------------------
(* The refinement: each step is one of the ideal bucket, or a stutter. *)

LEMMA SameUnits == Ideal!Token = Token /\ Ideal!Burst = Burst
  BY DEF Ideal!Token, Ideal!Burst, Token, Burst

LEMMA InitRefines == Init => Ideal!BucketInit
  BY SameUnits DEF Init, Ideal!BucketInit, Level, NoBucket

LEMMA StepRefines ==
    ASSUME IInv, [Next]_limiterVars
    PROVE  [Ideal!BucketNext]_(Ideal!bucketVars)
  <1>1. TypeOK
    BY DEF IInv
  <1>2. ASSUME NEW c \in Clients, Allow(c)
        PROVE  Ideal!Request(c)
    <2> DEFINE ok == Level(c) >= Token
               n  == IF ok THEN Level(c) - Token ELSE Level(c)
    <2>1. answer' = [who |-> c, ok |-> ok]
      BY <1>1, <1>2, AllowTakes DEF Answer
    <2>2. \A d \in Clients : Level(d)' = IF d = c THEN n ELSE Level(d)
      <3>1. PICK b \in Bucket : buckets' = [buckets EXCEPT ![c] = b] /\ LevelOf(b) = n
        BY <1>1, <1>2, AllowTakes
      <3>2. \A d \in Clients : Level(d)' = LevelOf(buckets'[d])
        BY DEF Level, LevelOf
      <3> HIDE DEF n
      <3> QED
        BY <1>1, <3>1, <3>2, LevelIs DEF TypeOK
    <2> QED
      BY <2>1, <2>2, SameUnits DEF Ideal!Request
  <1>3. ASSUME Tick
        PROVE  Ideal!Fill
    <2>1. \A c \in Clients : Level(c)' = MinOf(Level(c) + RequestsPerMinute, Burst)
      BY <1>1, <1>3, TickFills
    <2>2. \A c \in Clients : Level(c) \in Nat
      BY Facts, Units
    <2>3. \A c \in Clients : Level(c)' = Ideal!Capped(Level(c) + RequestsPerMinute)
      BY <2>1, <2>2, Units, SameUnits DEF MinOf, Ideal!Capped
    <2> QED
      BY <1>3, <2>3 DEF Ideal!Fill, Tick
  <1>4. ASSUME Cleanup \/ (\E c \in Clients : Watch(c)) \/ UNCHANGED limiterVars
        PROVE  UNCHANGED Ideal!bucketVars
    <2>1. \A c \in Clients : Level(c)' = Level(c)
      BY <1>1, <1>4, CleanupIsInvisible, StutterKeeps DEF Watch, Level
    <2>2. answer' = answer
      BY <1>4 DEF Cleanup, Watch, limiterVars
    <2> QED
      BY <2>1, <2>2 DEF Ideal!bucketVars
  <1> QED
    BY <1>2, <1>3, <1>4 DEF Next, Ideal!BucketNext

\* The limiter gives every answer that an ideal token bucket would give: to refill
\* lazily and to drop a bucket after ten idle minutes cannot be noticed.
THEOREM LimiterIsABucket == Spec => ImplementsTokenBucket
  <1>1. IInv /\ [Next]_limiterVars => [Ideal!BucketNext]_(Ideal!bucketVars)
    BY StepRefines
  <1> QED
    BY <1>1, InitRefines, Invariance, PTL DEF Spec, ImplementsTokenBucket, Ideal!BucketSpec
=============================================================================
