---------------------------- MODULE SimpleLimiter ----------------------------
(***************************************************************************)
(* pkg/protection/simple_rate_limiter.go: the token bucket behind both     *)
(* rate limits of ResourceProtector.  A limiter is a record of the fields  *)
(* of the Go struct.  Allow runs under the struct's mutex from the reading *)
(* of the clock on, so it is one function of a limiter and the time.       *)
(*                                                                         *)
(* Time is counted in ticks, Second of them to a second (a tick of the     *)
(* code is a nanosecond); divisions truncate as Go's do on durations.      *)
(***************************************************************************)
EXTENDS Integers

CONSTANT Second

ASSUME SecondAssumption == Second \in Nat \ {0}

\* The interval at which one token comes back.
RefillInterval(rps) == Second \div rps

NewSimpleLimiter(rps, burst, now) ==
    [ tokens     |-> burst,
      maxTokens  |-> burst,
      refillRate |-> RefillInterval(rps),
      lastRefill |-> now ]

Min2(a, b) == IF a <= b THEN a ELSE b

TokensToAdd(l, now) == (now - l.lastRefill) \div l.refillRate

\* l with the two fields that change replaced.
With(l, tokens, lastRefill) ==
    [ tokens     |-> tokens,
      maxTokens  |-> l.maxTokens,
      refillRate |-> l.refillRate,
      lastRefill |-> lastRefill ]

(***************************************************************************)
(* Two ways to get the refill wrong, for the mutation runs: the bucket     *)
(* overflows; or the interval restarts at every call, tokens or no tokens. *)
(***************************************************************************)
RefillUncapped(l, now) ==
    IF TokensToAdd(l, now) > 0
    THEN With(l, l.tokens + TokensToAdd(l, now), now)
    ELSE l

RefillRestarting(l, now) ==
    With(l, Min2(l.tokens + TokensToAdd(l, now), l.maxTokens), now)

\* A refill restarts the interval at now; the rest of the old one is dropped.
Refill(l, now) ==
    IF TokensToAdd(l, now) > 0
    THEN With(l, Min2(l.tokens + TokensToAdd(l, now), l.maxTokens), now)
    ELSE l

\* The verdict of Allow at time now, and the limiter it leaves behind.
Allowed(l, now) == Refill(l, now).tokens > 0

AfterAllow(l, now) ==
    LET m == Refill(l, now)
    IN  IF m.tokens > 0 THEN With(m, m.tokens - 1, m.lastRefill) ELSE m
==============================================================================
