---------------------------- MODULE RateLimiters ----------------------------
(* The rate limiters of backend/pkg/middleware, which do not know of each  *)
(* other. Each is specified by itself; no state is shared but the          *)
(* goroutines.                                                             *)
EXTENDS Goroutines

-----------------------------------------------------------------------------
(* backend/pkg/middleware/rate_limiter.go: RateLimiter, a count of the     *)
(* requests of a window, also behind ConfigurableRateLimiter and the       *)
(* CheckRateLimit of pkg/cache.  One key: a client and a path.             *)

CONSTANT RateLimit

VARIABLES
    current,       \* the count, 0 if there is no key
    expires,       \* whether the key has an expiry
    limiterServed  \* history variable: requests let through in this window

limiterVars == <<call, current, expires, limiterServed>>

LimiterInit ==
    /\ call = [p \in Procs |-> Idle]
    /\ current = 0 /\ limiterServed = 0
    /\ expires = FALSE

\* Faulty: one request more than the limit.
IncrLate(p) ==
    /\ call[p] = Idle
    /\ current' = current + 1
    /\ limiterServed' = IF current <= RateLimit THEN limiterServed + 1 ELSE limiterServed
    /\ IF current = 0 THEN Goto(p, [pc |-> "expire"]) ELSE UNCHANGED call
    /\ UNCHANGED expires

\* Faulty: the key is given its expiry with the second request.
IncrExpireSecond(p) ==
    /\ call[p] = Idle
    /\ current' = current + 1
    /\ limiterServed' = IF current < RateLimit THEN limiterServed + 1 ELSE limiterServed
    /\ IF current = 1 THEN Goto(p, [pc |-> "expire"]) ELSE UNCHANGED call
    /\ UNCHANGED expires

\* What INCR answers decides whether the request is let through; the first
\* sets the expiry before it is.
Incr(p) ==
    /\ call[p] = Idle
    /\ current' = current + 1
    /\ limiterServed' = IF current < RateLimit THEN limiterServed + 1 ELSE limiterServed
    /\ IF current = 0 THEN Goto(p, [pc |-> "expire"]) ELSE UNCHANGED call
    /\ UNCHANGED expires

Expire(p) ==
    /\ At(p, "expire")
    /\ expires' = (current > 0)
    /\ Return(p)
    /\ UNCHANGED <<current, limiterServed>>

WindowEnds ==
    /\ expires
    /\ current' = 0 /\ limiterServed' = 0
    /\ expires' = FALSE
    /\ UNCHANGED call

\* A request that cannot be counted is let through.
IncrError ==
    /\ limiterServed' = limiterServed + 1
    /\ UNCHANGED <<call, current, expires>>

\* The process stops, or the error of EXPIRE is ignored.
LimiterFail ==
    \/ IncrError
    \/ \E p \in Procs : Stop(p) /\ UNCHANGED <<current, expires, limiterServed>>

LimiterWork(p) == Incr(p) \/ Expire(p)

LimiterNext == (\E p \in Procs : LimiterWork(p)) \/ WindowEnds \/ LimiterFail

-----------------------------------------------------------------------------
(* Properties.                                                             *)

LimiterTypeOK == current \in Nat /\ limiterServed \in Nat /\ expires \in BOOLEAN

\* "Check if rate limit exceeded" (rate_limiter.go:51): the window lets no
\* more requests through, however they overlap, if Redis answers.
ServedWithinLimit == limiterServed <= RateLimit

\* A count expires: no client is refused for good.
WindowsEnd == current > 0 => expires

-----------------------------------------------------------------------------
(* backend/pkg/middleware/rate_limiter.go: SlidingWindowRateLimiter.  The  *)
(* members of the sorted set are seconds, so that the requests of a second *)
(* count as one, though they are all to be counted (rate_limiter.go:104,   *)
(* 107).  Each command to Redis is an action.                              *)

CONSTANTS
    Window,         \* in seconds
    SlidingMaxTime  \* bound of the clock

VARIABLES
    windowNow,     \* seconds
    seconds,       \* members of the sorted set
    windowAsked,   \* history variable: seconds in which there were requests
    windowRefused  \* history variable: seconds with a request that was refused

slidingVars == <<call, windowNow, seconds, windowAsked, windowRefused>>

SlidingInit ==
    /\ call = [p \in Procs |-> Idle]
    /\ windowNow = Window
    /\ seconds = {} /\ windowAsked = {} /\ windowRefused = {}

\* Faulty: what is as old as the window stays.
RemoveOlder(p) ==
    /\ call[p] = Idle
    /\ seconds' = {s \in seconds : s >= windowNow - Window}
    /\ windowAsked' = windowAsked \cup {windowNow}
    /\ Goto(p, [pc |-> "add", now |-> windowNow])
    /\ UNCHANGED <<windowNow, windowRefused>>

\* ZREMRANGEBYSCORE: what is as old as the window is removed.
RemoveOld(p) ==
    /\ call[p] = Idle
    /\ seconds' = {s \in seconds : s > windowNow - Window}
    /\ windowAsked' = windowAsked \cup {windowNow}
    /\ Goto(p, [pc |-> "add", now |-> windowNow])
    /\ UNCHANGED <<windowNow, windowRefused>>

Add(p) ==
    /\ At(p, "add")
    /\ seconds' = seconds \cup {call[p].now}
    /\ Goto(p, [call[p] EXCEPT !.pc = "card"])
    /\ UNCHANGED <<windowNow, windowAsked, windowRefused>>

Card(p) ==
    /\ At(p, "card")
    /\ windowRefused' = IF Cardinality(seconds) > RateLimit THEN windowRefused \cup {call[p].now}
                        ELSE windowRefused
    /\ Return(p)
    /\ UNCHANGED <<windowNow, seconds, windowAsked>>

SlidingTick ==
    /\ windowNow < SlidingMaxTime
    /\ windowNow' = windowNow + 1
    /\ UNCHANGED <<call, seconds, windowAsked, windowRefused>>

\* What cannot be removed or added is ignored; if the members cannot be
\* counted, the request is let through.
CommandError(p) ==
    /\ \/ /\ call[p] = Idle
          /\ Goto(p, [pc |-> "add", now |-> windowNow])
          /\ windowAsked' = windowAsked \cup {windowNow}
       \/ At(p, "add") /\ Goto(p, [call[p] EXCEPT !.pc = "card"]) /\ UNCHANGED windowAsked
       \/ At(p, "card") /\ Return(p) /\ UNCHANGED windowAsked
    /\ UNCHANGED <<windowNow, seconds, windowRefused>>

SlidingFail ==
    \E p \in Procs :
        CommandError(p) \/ (Stop(p) /\ UNCHANGED <<windowNow, seconds, windowAsked, windowRefused>>)

SlidingWork(p) == RemoveOld(p) \/ Add(p) \/ Card(p)

SlidingNext == (\E p \in Procs : SlidingWork(p)) \/ SlidingTick \/ SlidingFail

-----------------------------------------------------------------------------
(* Properties.                                                             *)

SlidingTypeOK ==
    /\ windowNow \in Nat
    /\ seconds \subseteq 0..SlidingMaxTime
    /\ windowAsked \subseteq 0..SlidingMaxTime /\ windowRefused \subseteq 0..SlidingMaxTime

\* "Check if rate limit exceeded" (rate_limiter.go:117): a client is refused only
\* if it came in more seconds of the window than the limit, refused requests
\* included, and so with more requests; what it did before is forgotten.  The
\* converse is not so: many requests of one second are one.
RefusedExceeded ==
    \A t \in windowRefused : Cardinality(windowAsked \cap (t - Window + 1)..t) > RateLimit

-----------------------------------------------------------------------------
(* backend/pkg/middleware/rate_limiter.go: TokenBucketRateLimiter.  The    *)
(* bucket of one key is read, and then written, by each request.  Left     *)
(* out: the hour after which Redis drops a bucket nobody has used.         *)

CONSTANTS
    Capacity, RefillRate,  \* tokens; tokens a second
    BucketMaxTime          \* bound of the clock

VARIABLES
    bucketNow,    \* seconds
    bucket,       \* tokens and time of the last refill, or NoBucket
    bucketServed  \* history variable: for each second, requests let through up to
                  \* then, since -1

bucketVars == <<call, bucketNow, bucket, bucketServed>>

NoBucket == [tokens |-> Capacity, at |-> 0]

Least(a, b) == IF a < b THEN a ELSE b

BucketInit ==
    /\ call = [p \in Procs |-> Idle]
    /\ bucketNow = 0
    /\ bucketServed = [t \in -1..BucketMaxTime |-> 0]
    /\ bucket = NoBucket

\* Faulty: the bucket overflows.
RefillBoundless(b) == b.tokens + (bucketNow - b.at) * RefillRate

Refill(b) == Least(b.tokens + (bucketNow - b.at) * RefillRate, Capacity)

\* The clock is read first, and the bucket with it.
Get(p) ==
    /\ call[p] = Idle
    /\ IF Refill(bucket) > 0
         THEN Goto(p, [pc |-> "set", bucket |-> [tokens |-> Refill(bucket) - 1, at |-> bucketNow]])
         ELSE UNCHANGED call
    /\ UNCHANGED <<bucketNow, bucket, bucketServed>>

Serve(second) ==
    bucketServed' = [t \in -1..BucketMaxTime |->
                       IF t < second THEN bucketServed[t] ELSE bucketServed[t] + 1]

Set(p) ==
    /\ At(p, "set")
    /\ bucket' = call[p].bucket
    /\ Serve(call[p].bucket.at)
    /\ Return(p)
    /\ UNCHANGED bucketNow

BucketTick ==
    /\ bucketNow < BucketMaxTime
    /\ bucketNow' = bucketNow + 1
    /\ UNCHANGED <<call, bucket, bucketServed>>

\* The error of SET is ignored: the request is served, and no token is taken.
SetError(p) ==
    /\ At(p, "set")
    /\ Serve(call[p].bucket.at)
    /\ Return(p)
    /\ UNCHANGED <<bucketNow, bucket>>

\* If the bucket cannot be read, the request is served too.
GetError(p) ==
    /\ call[p] = Idle
    /\ Serve(bucketNow)
    /\ UNCHANGED <<call, bucketNow, bucket>>

BucketWork(p) == Get(p) \/ Set(p)

BucketFail == \E p \in Procs : SetError(p) \/ GetError(p)

BucketNext == (\E p \in Procs : BucketWork(p)) \/ BucketTick \/ BucketFail

-----------------------------------------------------------------------------
(* Properties.                                                             *)

BucketTypeOK ==
    /\ bucketNow \in 0..BucketMaxTime
    /\ bucket \in [tokens : 0..Capacity, at : 0..BucketMaxTime]
    /\ bucketServed \in [-1..BucketMaxTime -> Nat]

\* "tokens per second" (rate_limiter.go:141): in any stretch of time, no more
\* requests are served than a full bucket and what refills it meanwhile allow.
ServedWithinBudget ==
    \A t \in 0..bucketNow : \A u \in t..bucketNow :
        bucketServed[u] - bucketServed[t - 1] <= Capacity + RefillRate * (u - t)

-----------------------------------------------------------------------------
(* All of it, each part taking its steps while the others stand still.     *)

vars == <<call, current, expires, limiterServed, windowNow, seconds, windowAsked, windowRefused, bucketNow,
          bucket, bucketServed>>

Init == LimiterInit /\ SlidingInit /\ BucketInit

Next ==
    \/ LimiterNext /\ UNCHANGED <<windowNow, seconds, windowAsked, windowRefused, bucketNow, bucket, bucketServed>>
    \/ SlidingNext /\ UNCHANGED <<current, expires, limiterServed, bucketNow, bucket, bucketServed>>
    \/ BucketNext /\ UNCHANGED <<current, expires, limiterServed, windowNow, seconds, windowAsked, windowRefused>>

Spec == Init /\ [][Next]_vars

TypeOK == LimiterTypeOK /\ SlidingTypeOK /\ BucketTypeOK
=============================================================================
