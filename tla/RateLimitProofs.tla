--------------------------- MODULE RateLimitProofs ---------------------------
(***************************************************************************)
(* Proofs about RateLimit, for every rate, every burst and every clock     *)
(* bound.  The inductive invariant adds two facts to the properties:       *)
(*   - Slack: the tokens in the bucket, together with the calls admitted   *)
(*     since the i-th admission, are paid for by the burst and the time    *)
(*     from that admission to the last refill;                             *)
(*   - EmptiedByAdmission: an empty bucket was emptied by an admission     *)
(*     made after the last refill.                                         *)
(***************************************************************************)
EXTENDS RateLimit, SequenceTheorems, TLAPS

Slack ==
    \A i \in 1..Len(log) :
        (Len(log) - i + bucket.tokens) * Interval
            <= (Burst - 1) * Interval + (bucket.lastRefill - log[i]) + Interval - 1

EmptiedByAdmission ==
    (bucket.tokens = 0 /\ Burst > 0) =>
        /\ log # <<>>
        /\ log[Len(log)] >= bucket.lastRefill

IInv ==
    /\ RateTypeOK
    /\ Slack
    /\ EmptiedByAdmission
    /\ WindowBound
    /\ RefusedOnlyAfterAdmission

------------------------------------------------------------------------------
\* Euclidean division, as far as the refill needs it.
LEMMA DivFacts ==
    ASSUME NEW e \in Nat, NEW d \in Nat \ {0}
    PROVE  /\ e \div d \in Nat
           /\ (e \div d) * d <= e
           /\ e \div d = 0 => e < d
  OBVIOUS

\* Multiplication by the interval distributes and preserves order.
LEMMA TimesR ==
    ASSUME NEW r \in Nat, NEW a \in Int, NEW b \in Int
    PROVE  /\ a * r \in Int
           /\ (a + b) * r = a * r + b * r
           /\ (a - b) * r = a * r - b * r
           /\ a <= b => a * r <= b * r
  OBVIOUS

\* The refill interval is at least one tick: the code never divides by zero
\* as long as the rate is at most one call per tick.
LEMMA RType == Interval \in Nat \ {0}
  BY SecondAssumption, RateLimitAssumption DEF Interval, RefillInterval

Limiter(now) == [ tokens : 0..Burst, maxTokens : {Burst},
                  refillRate : {Interval}, lastRefill : 0..now ]

\* What a refill does to a bucket: it stays within its size, gains at most the
\* tokens the elapsed time pays for, ends less than an interval after its last
\* refill, and comes out empty only if it was left alone.
LEMMA RefillFacts ==
    ASSUME NEW now \in Nat, NEW l \in Limiter(now)
    PROVE  /\ Refill(l, now) \in Limiter(now)
           /\ now - Refill(l, now).lastRefill < Interval
           /\ Refill(l, now).lastRefill >= l.lastRefill
           /\ (Refill(l, now).tokens - l.tokens) * Interval
                  <= Refill(l, now).lastRefill - l.lastRefill
           /\ (Refill(l, now).tokens = 0 /\ Burst > 0) => Refill(l, now) = l
<1> DEFINE k == TokensToAdd(l, now)
<1>1. /\ Interval \in Nat \ {0}
      /\ Burst \in Nat
      /\ l.tokens \in 0..Burst /\ l.maxTokens = Burst
      /\ l.refillRate = Interval /\ l.lastRefill \in 0..now
  BY RType, RateLimitAssumption DEF Limiter
<1>2. /\ k \in Nat
      /\ k * Interval <= now - l.lastRefill
      /\ k = 0 => now - l.lastRefill < Interval
  <2> DEFINE e == now - l.lastRefill
  <2>1. e \in Nat /\ k = e \div Interval
    BY <1>1 DEF TokensToAdd
  <2> HIDE DEF e, k
  <2>2. k \in Nat /\ k * Interval <= e /\ (k = 0 => e < Interval)
    BY <2>1, <1>1, DivFacts
  <2> QED BY <2>2 DEF e
<1>3. CASE k = 0
  <2>1. Refill(l, now) = l
    BY <1>3 DEF Refill
  <2>2. (l.tokens - l.tokens) * Interval = 0
    BY <1>1
  <2> QED BY <1>1, <1>2, <1>3, <2>1, <2>2
<1>4. CASE k > 0
  <2> DEFINE t == Min2(l.tokens + k, Burst)
  <2>1. Refill(l, now) = With(l, t, now)
    BY <1>4, <1>1 DEF Refill
  <2> HIDE DEF k
  <2>2. t \in 0..Burst /\ t - l.tokens \in Int /\ t - l.tokens <= k
        /\ (Burst > 0 => t > 0)
    BY <1>1, <1>2, <1>4 DEF Min2
  <2>3. (t - l.tokens) * Interval <= k * Interval
    BY <2>2, <1>1, <1>2, TimesR
  <2> HIDE DEF t
  <2>4. /\ Refill(l, now) \in Limiter(now)
        /\ Refill(l, now).tokens = t
        /\ Refill(l, now).lastRefill = now
    BY <2>1, <2>2, <1>1 DEF Limiter, With
  <2>5. (t - l.tokens) * Interval <= now - l.lastRefill
    <3>1. (t - l.tokens) * Interval \in Int /\ k * Interval \in Int
      BY <2>2, <1>1, <1>2, TimesR
    <3> QED BY <3>1, <2>3, <1>2, <1>1
  <2> QED BY <2>2, <2>4, <2>5, <1>1
<1> QED BY <1>2, <1>3, <1>4

\* The same for a whole call of Allow: an admission takes one token off the
\* refilled bucket, a refusal leaves it.
LEMMA AllowFacts ==
    ASSUME NEW now \in Nat, NEW l \in Limiter(now)
    PROVE  /\ AfterAllow(l, now) \in Limiter(now)
           /\ AfterAllow(l, now).lastRefill = Refill(l, now).lastRefill
           /\ Allowed(l, now) =>
                  AfterAllow(l, now).tokens = Refill(l, now).tokens - 1
           /\ Allowed(l, now) => Refill(l, now).tokens > 0
           /\ ~Allowed(l, now) => /\ Refill(l, now).tokens = 0
                                  /\ AfterAllow(l, now) = Refill(l, now)
<1>1. Refill(l, now) \in Limiter(now)
  BY RefillFacts
<1> QED BY <1>1, RateLimitAssumption DEF AfterAllow, Allowed, Limiter, With

------------------------------------------------------------------------------
\* The entries of the log are times.
LEMMA LogTimes ==
    ASSUME RateTypeOK
    PROVE  /\ Len(log) \in Nat
           /\ \A i \in 1..Len(log) : log[i] \in Nat
           /\ log # <<>> => Len(log) \in 1..Len(log)
<1>1. log \in Seq(0..LastTick)
  BY DEF RateTypeOK
<1> QED BY <1>1, LenProperties, EmptySeq, RateLimitAssumption

LEMMA InitIInv == RateInit => IInv
  BY RType, SecondAssumption, RateLimitAssumption
  DEF RateInit, IInv, RateTypeOK, Slack, EmptiedByAdmission, WindowBound,
      RefusedOnlyAfterAdmission, NewSimpleLimiter, Interval, Never

\* A tick moves nothing but the clock, which every part of the invariant
\* bounds from below only.
LEMMA TickIInv == IInv /\ TimePasses => IInv'
<1> SUFFICES ASSUME IInv, TimePasses PROVE IInv'
  OBVIOUS
<1> USE RType, RateLimitAssumption
<1>1. RateTypeOK'
  BY DEF IInv, RateTypeOK, TimePasses, Never
<1>2. Slack' /\ EmptiedByAdmission' /\ WindowBound' /\ RefusedOnlyAfterAdmission'
  BY DEF IInv, TimePasses, Slack, EmptiedByAdmission, WindowBound,
         RefusedOnlyAfterAdmission
<1> QED BY <1>1, <1>2 DEF IInv

\* A refused call may still have refilled nothing: the bucket is unchanged.
LEMMA RefusedIInv == IInv /\ Allow /\ ~Allowed(bucket, tick) => IInv'
<1> SUFFICES ASSUME IInv, Allow, ~Allowed(bucket, tick) PROVE IInv'
  OBVIOUS
<1>1. /\ tick \in Nat /\ bucket \in Limiter(tick) /\ RateTypeOK
      /\ Interval \in Nat \ {0} /\ Burst \in Nat
  BY RType, RateLimitAssumption DEF IInv, RateTypeOK, Limiter
<1>2. /\ bucket' = Refill(bucket, tick)
      /\ Refill(bucket, tick).tokens = 0
      /\ Refill(bucket, tick) \in Limiter(tick)
      /\ Burst > 0 => bucket' = bucket
      /\ tick - bucket'.lastRefill < Interval
  BY <1>1, AllowFacts, RefillFacts DEF Allow
<1>3. log' = log /\ tick' = tick /\ refusedAt' = tick
  BY DEF Allow
<1>4. RateTypeOK'
  BY <1>1, <1>2, <1>3 DEF RateTypeOK, Limiter
<1>5. Slack'
  <2> SUFFICES ASSUME NEW i \in 1..Len(log)
               PROVE  (Len(log) - i + bucket'.tokens) * Interval
                        <= (Burst - 1) * Interval + (bucket'.lastRefill - log[i]) + Interval - 1
    BY <1>3 DEF Slack
  <2>1. CASE Burst > 0
    BY <2>1, <1>2 DEF IInv, Slack
  <2>2. CASE Burst = 0
    \* An empty bucket of size zero never admitted anything.
    <3>1. /\ Len(log) \in Nat /\ log[i] \in Int
          /\ bucket.tokens = 0 /\ bucket'.tokens = 0
          /\ bucket.lastRefill \in Int /\ bucket'.lastRefill \in Int
          /\ bucket'.lastRefill >= bucket.lastRefill
      BY <2>2, <1>1, <1>2, RefillFacts, LogTimes DEF Limiter
    <3>2. (Len(log) - i + 0) * Interval \in Int /\ (Burst - 1) * Interval \in Int
      BY <3>1, <1>1, TimesR
    <3>3. (Len(log) - i + 0) * Interval
                <= (Burst - 1) * Interval + (bucket.lastRefill - log[i]) + Interval - 1
      BY <3>1 DEF IInv, Slack
    <3> QED BY <3>1, <3>2, <3>3, <1>1
  <2> QED BY <2>1, <2>2, <1>1
<1>6. EmptiedByAdmission'
  BY <1>2, <1>3, <1>1 DEF IInv, EmptiedByAdmission
<1>7. WindowBound'
  BY <1>3 DEF IInv, WindowBound
<1>8. RefusedOnlyAfterAdmission'
  <2> SUFFICES ASSUME Burst > 0
               PROVE  log # <<>> /\ tick - log[Len(log)] < Interval
    BY <1>3 DEF RefusedOnlyAfterAdmission
  <2>1. bucket.tokens = 0 /\ tick - bucket.lastRefill < Interval
    BY <1>2
  <2>2. log # <<>> /\ log[Len(log)] >= bucket.lastRefill
    BY <2>1 DEF IInv, EmptiedByAdmission
  <2>3. log[Len(log)] \in Int /\ bucket.lastRefill \in Int
    BY <2>2, <1>1, LogTimes DEF RateTypeOK
  <2> QED BY <2>1, <2>2, <2>3, <1>1
<1> QED BY <1>4, <1>5, <1>6, <1>7, <1>8 DEF IInv

\* An admission appends to the log and takes a token: the windows that end at
\* it are bounded by the slack, which it leaves as it was.
LEMMA AdmittedIInv == IInv /\ Allow /\ Allowed(bucket, tick) => IInv'
<1> SUFFICES ASSUME IInv, Allow, Allowed(bucket, tick) PROVE IInv'
  OBVIOUS
<1> DEFINE n == Len(log)
           m == Refill(bucket, tick)
<1>1. /\ tick \in Nat /\ bucket \in Limiter(tick) /\ RateTypeOK
      /\ Interval \in Nat \ {0} /\ Burst \in Nat
  BY RType, RateLimitAssumption DEF IInv, RateTypeOK, Limiter
<1>2. /\ bucket' = AfterAllow(bucket, tick)
      /\ bucket' \in Limiter(tick)
      /\ bucket'.tokens = m.tokens - 1
      /\ bucket'.lastRefill = m.lastRefill
      /\ m \in Limiter(tick)
      /\ m.tokens > 0
      /\ tick - m.lastRefill < Interval
      /\ m.lastRefill >= bucket.lastRefill
      /\ (m.tokens - bucket.tokens) * Interval <= m.lastRefill - bucket.lastRefill
  BY <1>1, AllowFacts, RefillFacts DEF Allow
<1>3. log' = Append(log, tick) /\ tick' = tick /\ refusedAt' = Never
  BY DEF Allow
<1>4. /\ n \in Nat /\ Len(log') = n + 1
      /\ log'[n + 1] = tick
      /\ \A i \in 1..n : log'[i] = log[i] /\ log[i] \in Nat
  <2>1. log \in Seq(0..LastTick) /\ tick \in 0..LastTick
    BY <1>1 DEF RateTypeOK
  <2>2. n \in Nat /\ \A i \in 1..n : log[i] \in Nat
    BY <1>1, LogTimes
  <2> QED BY <2>1, <2>2, <1>3, AppendProperties
<1>5. RateTypeOK'
  BY <1>1, <1>2, <1>3, AppendProperties DEF RateTypeOK, Limiter
<1>6. /\ m.tokens \in Int /\ m.lastRefill \in Int /\ m.lastRefill <= tick
      /\ bucket.tokens \in Int /\ bucket.lastRefill \in Int
      /\ m.tokens <= Burst
  BY <1>1, <1>2 DEF Limiter
<1>6a. tick - m.lastRefill < Interval /\ tick \in Int
  BY <1>1, <1>2
<1> HIDE DEF m
\* Before the call, with the refilled bucket: the slack of an old admission.
<1>7. ASSUME NEW i \in 1..n
      PROVE  (n - i + m.tokens) * Interval
               <= (Burst - 1) * Interval + (m.lastRefill - log[i]) + Interval - 1
  <2>1. (n - i + bucket.tokens) * Interval
          <= (Burst - 1) * Interval + (bucket.lastRefill - log[i]) + Interval - 1
    BY DEF IInv, Slack
  <2>2. (n - i + m.tokens) * Interval
          = (n - i + bucket.tokens) * Interval + (m.tokens - bucket.tokens) * Interval
    <3>1. n - i + m.tokens = (n - i + bucket.tokens) + (m.tokens - bucket.tokens)
      BY <1>4, <1>6
    <3>2. n - i + bucket.tokens \in Int /\ m.tokens - bucket.tokens \in Int
      BY <1>4, <1>6
    <3> QED BY <3>1, <3>2, <1>1, TimesR
  <2>3. /\ (n - i + bucket.tokens) * Interval \in Int
        /\ (m.tokens - bucket.tokens) * Interval \in Int
        /\ (Burst - 1) * Interval \in Int
        /\ log[i] \in Int
    <3>1. /\ n - i + bucket.tokens \in Int
          /\ m.tokens - bucket.tokens \in Int
          /\ Burst - 1 \in Int /\ Interval \in Nat
      BY <1>1, <1>4, <1>6
    <3>2. log[i] \in Int
      BY <1>4
    <3> QED BY <3>1, <3>2, TimesR
  <2> DEFINE after  == (n - i + m.tokens) * Interval
             before == (n - i + bucket.tokens) * Interval
             gained == (m.tokens - bucket.tokens) * Interval
             burst  == (Burst - 1) * Interval
  <2>4. /\ before <= burst + (bucket.lastRefill - log[i]) + Interval - 1
        /\ gained <= m.lastRefill - bucket.lastRefill
        /\ after = before + gained
        /\ before \in Int /\ gained \in Int /\ burst \in Int /\ log[i] \in Int
    BY <2>1, <2>2, <2>3, <1>2
  <2> HIDE DEF after, before, gained, burst
  <2>5. after <= burst + (m.lastRefill - log[i]) + Interval - 1
    <3>1. m.lastRefill \in Int /\ bucket.lastRefill \in Int /\ Interval \in Int
      BY <1>6, RType
    <3> QED BY <2>4, <3>1
  <2> QED BY <2>5 DEF after, burst
<1>8. Slack'
  <2> SUFFICES ASSUME NEW i \in 1..(n + 1)
               PROVE  (n + 1 - i + (m.tokens - 1)) * Interval
                        <= (Burst - 1) * Interval + (m.lastRefill - log'[i]) + Interval - 1
    BY <1>2, <1>4 DEF Slack
  <2>1. CASE i \in 1..n
    <3>1. n + 1 - i + (m.tokens - 1) = n - i + m.tokens
      BY <1>4, <1>6
    <3> QED BY <2>1, <3>1, <1>4, <1>7
  <2>2. CASE i = n + 1
    <3>1. (n + 1 - i + (m.tokens - 1)) = m.tokens - 1 /\ log'[i] = tick
      BY <2>2, <1>4, <1>6
    <3>2. (m.tokens - 1) * Interval <= (Burst - 1) * Interval
      <4>1. m.tokens - 1 \in Int /\ Burst - 1 \in Int /\ m.tokens - 1 <= Burst - 1
        BY <1>1, <1>6
      <4> QED BY <4>1, <1>1, TimesR
    <3>3. (m.tokens - 1) * Interval \in Int /\ (Burst - 1) * Interval \in Int
      BY <1>1, <1>6, TimesR
    <3> DEFINE left  == (m.tokens - 1) * Interval
               burst == (Burst - 1) * Interval
    <3>4. left <= burst /\ left \in Int /\ burst \in Int
      BY <3>2, <3>3
    <3> HIDE DEF left, burst
    <3>5. left <= burst + (m.lastRefill - tick) + Interval - 1
      BY <3>4, <1>6, <1>6a, RType
    <3> QED BY <3>1, <3>5 DEF left, burst
  <2> QED BY <2>1, <2>2, <1>4
<1>9. EmptiedByAdmission'
  <2>1. log' # <<>> /\ log'[Len(log')] = tick
    BY <1>4, <1>3
  <2> QED BY <2>1, <1>2, <1>6 DEF EmptiedByAdmission
<1>10. WindowBound'
  <2> SUFFICES ASSUME NEW i \in 1..(n + 1), NEW j \in 1..(n + 1), i <= j
               PROVE  (j - i + 1) * Interval
                        <= Burst * Interval + (log'[j] - log'[i]) + Interval - 1
    BY <1>4 DEF WindowBound
  <2>1. CASE j \in 1..n
    BY <2>1, <1>4 DEF IInv, WindowBound
  <2>2. CASE j = n + 1 /\ i \in 1..n
    <3>1. (j - i + 1) * Interval <= (n - i + m.tokens) * Interval + Interval
      <4>1. /\ j - i + 1 \in Int /\ n - i + m.tokens \in Int
            /\ n - i + m.tokens + 1 \in Int
            /\ j - i + 1 <= n - i + m.tokens + 1
        BY <2>2, <1>2, <1>4, <1>6
      <4>2. (n - i + m.tokens + 1) * Interval = (n - i + m.tokens) * Interval + 1 * Interval
        BY <4>1, <1>1, TimesR
      <4>3. (j - i + 1) * Interval <= (n - i + m.tokens + 1) * Interval
        BY <4>1, <1>1, TimesR
      <4> QED BY <4>2, <4>3, <1>1
    <3>2. Burst * Interval = (Burst - 1) * Interval + Interval
      BY <1>1, TimesR
    <3>3. /\ (j - i + 1) * Interval \in Int /\ (n - i + m.tokens) * Interval \in Int
          /\ (Burst - 1) * Interval \in Int /\ Burst * Interval \in Int
          /\ log'[j] = tick /\ log'[i] = log[i] /\ log[i] \in Int
      BY <2>2, <1>1, <1>4, <1>6, TimesR
    <3> DEFINE span  == (j - i + 1) * Interval
               slack == (n - i + m.tokens) * Interval
               burst == (Burst - 1) * Interval
    <3>4. /\ span <= slack + Interval
          /\ slack <= burst + (m.lastRefill - log[i]) + Interval - 1
          /\ span \in Int /\ slack \in Int /\ burst \in Int /\ log[i] \in Int
      BY <2>2, <3>1, <3>3, <1>7
    <3> HIDE DEF span, slack, burst
    <3>5. span <= burst + Interval + (tick - log[i]) + Interval - 1
      <4>1. /\ m.lastRefill \in Int /\ Interval \in Int /\ tick \in Int
            /\ m.lastRefill <= tick
        BY <1>6, <1>6a, RType
      <4> QED BY <3>4, <4>1
    <3> QED BY <3>5, <3>2, <3>3 DEF span, burst
  <2>3. CASE j = n + 1 /\ i = n + 1
    <3>1. (j - i + 1) * Interval = Interval
      BY <2>3, <1>1, <1>4
    <3>2. Burst >= 1 /\ Interval <= Burst * Interval /\ Burst * Interval \in Int
      <4>1. 1 <= Burst
        BY <1>2, <1>6, <1>1
      <4> QED BY <4>1, <1>1, TimesR
    <3>3. log'[j] - log'[i] = 0
      BY <2>3, <1>4, <1>1
    <3> QED BY <3>1, <3>2, <3>3, <1>1
  <2> QED BY <2>1, <2>2, <2>3, <1>4
<1>11. RefusedOnlyAfterAdmission'
  BY <1>3 DEF RefusedOnlyAfterAdmission
<1> QED BY <1>5, <1>8, <1>9, <1>10, <1>11 DEF IInv

\* The limiter keeps its promises at every rate, burst and timing of calls.
LEMMA IInvInductive == IInv /\ [RateNext]_rateVars => IInv'
<1> SUFFICES ASSUME IInv, [RateNext]_rateVars PROVE IInv'
  OBVIOUS
<1>1. CASE Allow
  BY <1>1, AdmittedIInv, RefusedIInv
<1>2. CASE TimePasses
  BY <1>2, TickIInv
<1>3. CASE UNCHANGED rateVars
  BY <1>3 DEF IInv, RateTypeOK, Slack, EmptiedByAdmission, WindowBound,
              RefusedOnlyAfterAdmission, rateVars
<1> QED BY <1>1, <1>2, <1>3 DEF RateNext

THEOREM Invariance == RateSpec => []IInv
<1>1. RateInit => IInv
  BY InitIInv
<1>2. IInv /\ [RateNext]_rateVars => IInv'
  BY IInvInductive
<1> QED BY <1>1, <1>2, PTL DEF RateSpec

\* The bucket of simple_rate_limiter.go stays between empty and its size.
THEOREM BucketBounded == RateSpec => []RateTypeOK
<1>1. IInv => RateTypeOK
  BY DEF IInv
<1> QED BY <1>1, Invariance, PTL

\* No window of admissions exceeds the burst and one call per interval begun.
THEOREM RateEnforced == RateSpec => []WindowBound
<1>1. IInv => WindowBound
  BY DEF IInv
<1> QED BY <1>1, Invariance, PTL

\* A refusal is always less than one refill interval after an admission.
THEOREM NoStarvation == RateSpec => []RefusedOnlyAfterAdmission
<1>1. IInv => RefusedOnlyAfterAdmission
  BY DEF IInv
<1> QED BY <1>1, Invariance, PTL
==============================================================================
