------------------------------ MODULE RateLimit ------------------------------
(***************************************************************************)
(* One SimpleLimiter in use: calls of Allow at arbitrary times.  `log' is  *)
(* the history of the times at which a call was admitted and `refusedAt'   *)
(* the time of the last call, if it was refused; both exist to state what  *)
(* the limiter promises, the code keeps neither.                           *)
(***************************************************************************)
EXTENDS SimpleLimiter, Sequences

CONSTANTS
    Rate,     \* the configured requests per second
    Burst,    \* the size of the bucket
    LastTick  \* bound: the last tick of a behaviour

\* Above one request per tick the interval would truncate to zero and Allow
\* would divide by it.
ASSUME RateLimitAssumption ==
    /\ Rate \in 1..Second
    /\ Burst \in Nat
    /\ LastTick \in Nat

VARIABLES tick, bucket, log, refusedAt

rateVars == <<tick, bucket, log, refusedAt>>

Interval == RefillInterval(Rate)

Never == -1

RateInit ==
    /\ tick = 0
    /\ bucket = NewSimpleLimiter(Rate, Burst, 0)
    /\ log = <<>>
    /\ refusedAt = Never

Allow ==
    /\ bucket' = AfterAllow(bucket, tick)
    /\ refusedAt' = IF Allowed(bucket, tick) THEN Never ELSE tick
    /\ log' = IF Allowed(bucket, tick) THEN Append(log, tick) ELSE log
    /\ UNCHANGED tick

TimePasses ==
    /\ tick < LastTick
    /\ tick' = tick + 1
    /\ UNCHANGED <<bucket, log, refusedAt>>

RateNext == Allow \/ TimePasses

RateSpec == RateInit /\ [][RateNext]_rateVars

------------------------------------------------------------------------------
\* The bucket never holds more tokens than it was built for, never a negative
\* number of them, and was never refilled in the future.
RateTypeOK ==
    /\ tick \in 0..LastTick
    /\ bucket \in [ tokens : 0..Burst, maxTokens : {Burst},
                     refillRate : {Interval}, lastRefill : 0..tick ]
    /\ log \in Seq(0..LastTick)
    /\ refusedAt \in {Never} \cup 0..tick

\* Over every window that starts and ends with an admission the limiter admits
\* at most the burst and one call per refill interval begun in the window,
\* however the calls are timed.
WindowBound ==
    \A i, j \in 1..Len(log) :
        i <= j => (j - i + 1) * Interval <= Burst * Interval + (log[j] - log[i]) + Interval - 1

\* A refused caller is never starved: a call is refused only if another was
\* admitted less than one refill interval before, so whoever is refused and
\* polls alone is admitted within an interval however often it polls.
RefusedOnlyAfterAdmission ==
    (refusedAt # Never /\ Burst > 0) =>
        /\ log # <<>>
        /\ refusedAt - log[Len(log)] < Interval
==============================================================================
