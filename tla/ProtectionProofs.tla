--------------------------- MODULE ProtectionProofs ---------------------------
(***************************************************************************)
(* The safety of ResourceProtector: slots, gauges, maxima and counters of  *)
(* SecureBodyReader and BatchLimiter for any number of requests and        *)
(* callers, any capacity and any rate; the memory monitor for any number   *)
(* of controllers, restarts, levels and alerts.                            *)
(***************************************************************************)
EXTENDS MCProtection, FiniteSetTheorems, TLAPS

(***************************************************************************)
(* The compare-and-swap loop that both limiters use to raise a maximum.    *)
(* W are the goroutines, p their places, cur and sn their locals, max the  *)
(* maximum and high the highest value the gauge ever had.                  *)
(***************************************************************************)
Loop == {"load", "swap"}

\* The maximum is right, or a goroutine in the loop is about to put it right:
\* a compare-and-swap succeeds only on a smaller value, so it never undoes a
\* larger one.
Pending(W, p, cur, sn, max, high) ==
    /\ max <= high
    /\ \A r \in W : p[r] \in Loop => cur[r] <= high
    /\ \A r \in W : p[r] = "swap" => sn[r] < cur[r]
    /\ max = high \/ \E r \in W : p[r] \in Loop /\ cur[r] = high

\* A goroutine moves outside the loop.
LEMMA PendingMove ==
    ASSUME NEW W, NEW P, NEW p \in [W -> P], NEW cur \in [W -> Nat], NEW sn \in [W -> Nat],
           NEW max \in Nat, NEW high \in Nat, Pending(W, p, cur, sn, max, high),
           NEW r \in W, p[r] \notin Loop, NEW l, l \notin Loop
    PROVE  Pending(W, [p EXCEPT ![r] = l], cur, sn, max, high)
BY DEF Pending, Loop

\* It counts itself and enters the loop with the count n.
LEMMA PendingCount ==
    ASSUME NEW W, NEW P, NEW p \in [W -> P], NEW cur \in [W -> Nat], NEW sn \in [W -> Nat],
           NEW max \in Nat, NEW high \in Nat, Pending(W, p, cur, sn, max, high),
           NEW r \in W, p[r] \notin Loop, NEW n \in Nat
    PROVE  Pending(W, [p EXCEPT ![r] = "load"], [cur EXCEPT ![r] = n], sn, max,
                   IF n > high THEN n ELSE high)
<1>. PICK q, c, h : /\ q = [p EXCEPT ![r] = "load"]
                    /\ c = [cur EXCEPT ![r] = n]
                    /\ h = IF n > high THEN n ELSE high
  OBVIOUS
<1>1. h \in Nat /\ h >= high /\ h >= n /\ h \in {n, high}
  OBVIOUS
<1>2. q[r] = "load" /\ c[r] = n /\ \A o \in W : o # r => q[o] = p[o] /\ c[o] = cur[o]
  OBVIOUS
<1>3. /\ max <= h
      /\ \A o \in W : q[o] \in Loop => c[o] <= h
      /\ \A o \in W : q[o] = "swap" => sn[o] < c[o]
  BY <1>1, <1>2 DEF Pending
<1>4. CASE h = n
  BY <1>2, <1>3, <1>4 DEF Pending, Loop
<1>5. CASE h = high
  BY <1>2, <1>3, <1>5 DEF Pending, Loop
<1>. QED
  BY <1>1, <1>4, <1>5

\* It reads the maximum, and leaves the loop if that is high enough.
LEMMA PendingLoad ==
    ASSUME NEW W, NEW P, NEW p \in [W -> P], NEW cur \in [W -> Nat], NEW sn \in [W -> Nat],
           NEW max \in Nat, NEW high \in Nat, Pending(W, p, cur, sn, max, high),
           NEW r \in W, p[r] = "load", NEW l, l \notin Loop
    PROVE  Pending(W, [p EXCEPT ![r] = IF cur[r] <= max THEN l ELSE "swap"], cur,
                   [sn EXCEPT ![r] = max], max, high)
<1>. PICK q, s : /\ q = [p EXCEPT ![r] = IF cur[r] <= max THEN l ELSE "swap"]
                 /\ s = [sn EXCEPT ![r] = max]
  OBVIOUS
<1>1. s[r] = max /\ \A o \in W : o # r => q[o] = p[o] /\ s[o] = sn[o]
  OBVIOUS
<1>2. CASE cur[r] <= max
  <2>1. q[r] = l
    BY <1>2
  <2>2. max = high \/ \E o \in W : o # r /\ p[o] \in Loop /\ cur[o] = high
    BY <1>2 DEF Pending
  <2>. QED
    BY <1>1, <2>1, <2>2 DEF Pending, Loop
<1>3. CASE ~(cur[r] <= max)
  <2>1. q[r] = "swap" /\ max < cur[r]
    BY <1>3
  <2>. QED
    BY <1>1, <2>1 DEF Pending, Loop
<1>. QED
  BY <1>2, <1>3

\* Its compare-and-swap succeeds, or another was faster.
LEMMA PendingSwap ==
    ASSUME NEW W, NEW P, NEW p \in [W -> P], NEW cur \in [W -> Nat], NEW sn \in [W -> Nat],
           NEW max \in Nat, NEW high \in Nat, Pending(W, p, cur, sn, max, high),
           NEW r \in W, p[r] = "swap", NEW l, l \notin Loop
    PROVE  /\ max = sn[r] => Pending(W, [p EXCEPT ![r] = l], cur, sn, cur[r], high)
           /\ Pending(W, [p EXCEPT ![r] = "load"], cur, sn, max, high)
<1>1. ASSUME max = sn[r] PROVE Pending(W, [p EXCEPT ![r] = l], cur, sn, cur[r], high)
  <2>. PICK q : q = [p EXCEPT ![r] = l]
    OBVIOUS
  <2>1. q[r] = l /\ \A o \in W : o # r => q[o] = p[o]
    OBVIOUS
  <2>2. max < cur[r] /\ cur[r] <= high
    BY <1>1 DEF Pending, Loop
  <2>3. PICK w \in W : p[w] \in Loop /\ cur[w] = high
    BY <2>2 DEF Pending
  <2>. QED
    BY <2>1, <2>2, <2>3 DEF Pending, Loop
<1>2. Pending(W, [p EXCEPT ![r] = "load"], cur, sn, max, high)
  BY DEF Pending, Loop
<1>. QED
  BY <1>1, <1>2

\* One element more, one less.
LEMMA OneMore ==
    ASSUME NEW S, IsFiniteSet(S), NEW x, x \notin S, NEW T, T = S \cup {x}
    PROVE  /\ IsFiniteSet(T) /\ Cardinality(T) = Cardinality(S) + 1
           /\ Cardinality(S) \in Nat /\ Cardinality(T) \in Nat
BY FS_AddElement, FS_CardinalityType

LEMMA OneLess ==
    ASSUME NEW S, IsFiniteSet(S), NEW x \in S, NEW T, T = S \ {x}
    PROVE  /\ IsFiniteSet(T) /\ Cardinality(T) = Cardinality(S) - 1
           /\ Cardinality(S) \in Nat /\ Cardinality(T) \in Nat
BY FS_RemoveElement, FS_CardinalityType

------------------------------------------------------------------------------
(***************************************************************************)
(* Requests.                                                               *)
(***************************************************************************)
\* The gauge counts the requests between its two updates.
GaugeIsCount == concurrent = Cardinality(Counted)

MaximumPending == Pending(Requests, pc, current, seen, maxConcurrent, highest)

\* Every request past its first counter was counted once, and once more when
\* its timeout fired; what it returns is settled before it leaves.
Started  == {r \in Requests : pc[r] \notin {"limit", "acquire", "count"}}
TimedOut == {r \in Requests : outcome[r] = "timeout"}

Accounted ==
    /\ total + rejected + rateLimitHits = Cardinality(Started) + Cardinality(TimedOut)
    /\ \A r \in Requests :
        outcome[r] = "timeout" => pc[r] \in {"uncount", "release", "returned"}

RequestInv == TypeOK /\ SlotsMatchHolders /\ GaugeIsCount /\ MaximumPending /\ Accounted

\* The sets are finite.
LEMMA RequestSets ==
    /\ IsFiniteSet(Holders) /\ Cardinality(Holders) \in Nat
    /\ IsFiniteSet(Counted) /\ Cardinality(Counted) \in Nat
    /\ IsFiniteSet(Started) /\ Cardinality(Started) \in Nat
    /\ IsFiniteSet(TimedOut) /\ Cardinality(TimedOut) \in Nat
    /\ Cardinality(Counted) <= Cardinality(Holders)
<1>1. /\ Holders \subseteq Requests /\ Counted \subseteq Requests /\ Counted \subseteq Holders
      /\ Started \subseteq Requests /\ TimedOut \subseteq Requests
  BY DEF Holders, Counted, Started, TimedOut
<1>2. /\ IsFiniteSet(Holders) /\ IsFiniteSet(Counted)
      /\ IsFiniteSet(Started) /\ IsFiniteSet(TimedOut)
  BY <1>1, FS_Subset, SecureBodyReaderAssumption
<1>. QED
  BY <1>1, <1>2, FS_Subset, FS_CardinalityType

\* What the step of a request changes in the three sets follows from where it
\* goes.
LEMMA SetsKept ==
    ASSUME TypeOK, NEW r \in Requests, NEW l \in Places, Goto(r, l)
    PROVE  /\ (pc[r] \in {"limit", "acquire", "returned"})
                <=> (l \in {"limit", "acquire", "returned"}) => Holders' = Holders
           /\ (pc[r] \in {"load", "swap", "read", "select", "uncount"})
                <=> (l \in {"load", "swap", "read", "select", "uncount"}) => Counted' = Counted
           /\ (pc[r] \in {"limit", "acquire", "count"})
                <=> (l \in {"limit", "acquire", "count"}) => Started' = Started
BY DEF TypeOK, Goto, Holders, Counted, Started

\* A step outside the loop leaves the maximum pending or right.
LEMMA MaximumKept ==
    ASSUME TypeOK, MaximumPending, NEW r \in Requests, NEW l \in Places,
           pc[r] \notin Loop, l \notin Loop, Goto(r, l),
           UNCHANGED <<maxConcurrent, highest, locals>>
    PROVE  MaximumPending'
BY PendingMove DEF MaximumPending, Goto, TypeOK, locals

\* A step that touches no counter keeps the accounts.
LEMMA AccountedKept ==
    ASSUME TypeOK, Accounted, NEW r \in Requests, NEW l \in Places, Goto(r, l),
           (pc[r] \in {"limit", "acquire", "count"}) <=> (l \in {"limit", "acquire", "count"}),
           pc[r] \in {"uncount", "release"} => l \in {"release", "returned"},
           pc[r] # "returned",
           UNCHANGED <<counters, outcome>>
    PROVE  Accounted'
<1>1. Started' = Started
  BY SetsKept
<1>2. TimedOut' = TimedOut
  BY DEF TimedOut
<1>3. \A q \in Requests : q # r => pc'[q] = pc[q]
  BY DEF TypeOK, Goto
<1>4. pc'[r] = l
  BY DEF TypeOK, Goto
<1>. QED
  BY <1>1, <1>2, <1>3, <1>4 DEF Accounted, counters

\* A request that is turned away, or starts, is counted once.
LEMMA AccountedOnce ==
    ASSUME TypeOK, Accounted, NEW r \in Requests, NEW l \in {"load", "returned"},
           pc[r] \in {"limit", "acquire", "count"}, Goto(r, l),
           \/ UNCHANGED outcome
           \/ \E o \in {"rateLimited", "rejected"} : Return(r, o),
           total' + rejected' + rateLimitHits' = total + rejected + rateLimitHits + 1
    PROVE  Accounted'
<1>1. Started' = Started \cup {r} /\ r \notin Started
  BY DEF TypeOK, Goto, Started
<1>2. Cardinality(Started') = Cardinality(Started) + 1
  BY <1>1, RequestSets, OneMore
<1>3. outcome[r] # "timeout"
  BY DEF Accounted
<1>4. \A q \in Requests : q # r => pc'[q] = pc[q] /\ outcome'[q] = outcome[q]
  BY DEF TypeOK, Goto, Return
<1>5. outcome'[r] # "timeout"
  BY <1>3 DEF TypeOK, Return
<1>6. TimedOut' = TimedOut
  BY <1>3, <1>4, <1>5 DEF TimedOut
<1>7. Cardinality(Started) \in Nat /\ Cardinality(TimedOut) \in Nat
  BY RequestSets
<1>. QED
  BY <1>2, <1>4, <1>5, <1>6, <1>7 DEF Accounted, TypeOK

LEMMA InitRequests == Init => RequestInv
<1>. SUFFICES ASSUME Init PROVE RequestInv
  OBVIOUS
<1>1. Holders = {} /\ Counted = {} /\ Started = {} /\ TimedOut = {}
  BY DEF Init, Holders, Counted, Started, TimedOut
<1>2. SlotsMatchHolders /\ GaugeIsCount /\ Accounted
  BY <1>1, FS_EmptySet DEF Init, SlotsMatchHolders, GaugeIsCount, Accounted
<1>3. TypeOK
  BY SecureBodyReaderAssumption DEF Init, TypeOK, Places
<1>4. MaximumPending
  BY DEF Init, MaximumPending, Pending, Loop
<1>. QED
  BY <1>2, <1>3, <1>4 DEF RequestInv

\* The step of each action.
LEMMA StepRequests == RequestInv /\ [Next]_vars => RequestInv'
<1>. SUFFICES ASSUME RequestInv, [Next]_vars PROVE RequestInv'
  OBVIOUS
<1>. USE DEF RequestInv
<1>0. /\ requestSemaphore = Cardinality(Holders) /\ concurrent = Cardinality(Counted)
      /\ IsFiniteSet(Holders) /\ IsFiniteSet(Counted)
  BY RequestSets DEF SlotsMatchHolders, GaugeIsCount
<1>1. ASSUME NEW r \in Requests, RateLimit(r) PROVE RequestInv'
  <2>. USE <1>1 DEF RateLimit
  <2>1. PICK l \in {"acquire", "returned"} : Goto(r, l)
    OBVIOUS
  <2>2. Holders' = Holders /\ Counted' = Counted
    BY <2>1, SetsKept DEF Places
  <2>3. MaximumPending'
    BY <2>1, MaximumKept DEF Places, Loop, gauge
  <2>4. TypeOK'
    BY <2>1 DEF TypeOK, Places, Return, Goto, gauge, locals
  <2>5. Accounted'
    <3>1. CASE Allowed(globalLimiter, clock)
      BY <3>1, AccountedKept DEF Places, counters
    <3>2. CASE ~Allowed(globalLimiter, clock)
      <4>1. total' + rejected' + rateLimitHits' = total + rejected + rateLimitHits + 1
        BY <3>2 DEF TypeOK
      <4>. QED
        BY <3>2, <4>1, AccountedOnce
    <3>. QED
      BY <3>1, <3>2
  <2>. QED
    BY <2>2, <2>3, <2>4, <2>5 DEF SlotsMatchHolders, GaugeIsCount, gauge
<1>2. ASSUME NEW r \in Requests, Acquire(r) PROVE RequestInv'
  <2>. USE <1>2 DEF Acquire
  <2>1. CASE requestSemaphore < MaxConcurrentReq
    <3>. USE <2>1
    <3>1. Goto(r, "count") /\ requestSemaphore' = requestSemaphore + 1
      OBVIOUS
    <3>2. Holders' = Holders \cup {r} /\ r \notin Holders
      BY <3>1 DEF Holders, Goto, TypeOK
    <3>3. SlotsMatchHolders'
      BY <3>1, <3>2, <1>0, OneMore DEF SlotsMatchHolders
    <3>4. Counted' = Counted
      BY <3>1, SetsKept DEF Places
    <3>5. MaximumPending'
      BY <3>1, MaximumKept DEF Places, Loop, gauge
    <3>6. TypeOK'
      BY <3>1, SecureBodyReaderAssumption DEF TypeOK, Places, Goto, gauge, locals, time
    <3>7. Accounted'
      BY <3>1, AccountedKept DEF Places, counters
    <3>. QED
      BY <3>3, <3>4, <3>5, <3>6, <3>7 DEF GaugeIsCount, gauge
  <2>2. CASE ~(requestSemaphore < MaxConcurrentReq)
    <3>. USE <2>2
    <3>1. Goto(r, "returned") /\ requestSemaphore' = requestSemaphore
      OBVIOUS
    <3>2. Holders' = Holders /\ Counted' = Counted
      BY <3>1, SetsKept DEF Places
    <3>3. MaximumPending'
      BY <3>1, MaximumKept DEF Places, Loop, gauge
    <3>4. TypeOK'
      BY <3>1 DEF TypeOK, Places, Return, Goto, gauge, locals, time
    <3>5. total' + rejected' + rateLimitHits' = total + rejected + rateLimitHits + 1
      BY DEF TypeOK
    <3>6. Accounted'
      BY <3>1, <3>5, AccountedOnce
    <3>. QED
      BY <3>1, <3>2, <3>3, <3>4, <3>6 DEF SlotsMatchHolders, GaugeIsCount, gauge
  <2>. QED
    BY <2>1, <2>2
<1>3. ASSUME NEW r \in Requests, Count(r) PROVE RequestInv'
  <2>. USE <1>3 DEF Count
  <2>1. Holders' = Holders
    BY SetsKept DEF Places
  <2>2. Counted' = Counted \cup {r} /\ r \notin Counted
    BY DEF Counted, Goto, TypeOK
  <2>3. GaugeIsCount'
    BY <2>2, <1>0, OneMore DEF GaugeIsCount
  <2>4. TypeOK'
    BY DEF TypeOK, Places, Goto, time
  <2>5. MaximumPending'
    <3>1. concurrent + 1 \in Nat /\ pc[r] \notin Loop
      BY DEF TypeOK, Loop
    <3>. QED
      BY <3>1, PendingCount DEF MaximumPending, Goto, TypeOK
  <2>6. total' + rejected' + rateLimitHits' = total + rejected + rateLimitHits + 1
    BY DEF TypeOK
  <2>7. Accounted'
    BY <2>6, AccountedOnce
  <2>. QED
    BY <2>1, <2>3, <2>4, <2>5, <2>7 DEF SlotsMatchHolders
<1>4. ASSUME NEW r \in Requests, Load(r) PROVE RequestInv'
  <2>. USE <1>4 DEF Load
  <2>1. PICK l \in {"read", "swap"} : Goto(r, l)
    OBVIOUS
  <2>2. Holders' = Holders /\ Counted' = Counted
    BY <2>1, SetsKept DEF Places
  <2>3. TypeOK'
    BY <2>1 DEF TypeOK, Places, Goto, gauge, time, counters
  <2>4. MaximumPending'
    BY PendingLoad DEF MaximumPending, Goto, TypeOK, Loop, gauge
  <2>5. Accounted'
    BY <2>1, AccountedKept DEF Places, counters
  <2>. QED
    BY <2>2, <2>3, <2>4, <2>5 DEF SlotsMatchHolders, GaugeIsCount, gauge
<1>5. ASSUME NEW r \in Requests, Swap(r) PROVE RequestInv'
  <2>. USE <1>5 DEF Swap
  <2>1. PICK l \in {"read", "load"} : Goto(r, l)
    OBVIOUS
  <2>2. Holders' = Holders /\ Counted' = Counted
    BY <2>1, SetsKept DEF Places
  <2>3. TypeOK'
    BY <2>1 DEF TypeOK, Places, Goto, locals, time, counters
  <2>4. MaximumPending'
    <3>0. "read" \notin Loop
      BY DEF Loop
    <3>1. /\ maxConcurrent = seen[r]
             => Pending(Requests, [pc EXCEPT ![r] = "read"], current, seen, current[r], highest)
          /\ Pending(Requests, [pc EXCEPT ![r] = "load"], current, seen, maxConcurrent, highest)
      BY <3>0, PendingSwap DEF MaximumPending, TypeOK
    <3>. QED
      BY <3>1 DEF MaximumPending, Goto, locals
  <2>5. Accounted'
    BY <2>1, AccountedKept DEF Places, counters
  <2>. QED
    BY <2>2, <2>3, <2>4, <2>5 DEF SlotsMatchHolders, GaugeIsCount
<1>6. ASSUME NEW r \in Requests, StartReader(r) PROVE RequestInv'
  <2>. USE <1>6 DEF StartReader
  <2>1. Holders' = Holders /\ Counted' = Counted
    BY SetsKept DEF Places
  <2>2. MaximumPending'
    BY MaximumKept DEF Places, Loop, gauge
  <2>3. TypeOK'
    BY DEF TypeOK, Places, Goto, gauge, locals, time, counters
  <2>4. Accounted'
    BY AccountedKept DEF Places, counters
  <2>. QED
    BY <2>1, <2>2, <2>3, <2>4 DEF SlotsMatchHolders, GaugeIsCount, gauge
<1>7. ASSUME NEW r \in Requests, SelectDone(r) PROVE RequestInv'
  <2>. USE <1>7 DEF SelectDone
  <2>1. Holders' = Holders /\ Counted' = Counted /\ Started' = Started
    BY SetsKept DEF Places
  <2>2. MaximumPending'
    BY MaximumKept DEF Places, Loop, gauge
  <2>3. TypeOK'
    BY DEF TypeOK, Places, Goto, Return, gauge, locals, time, counters
  <2>4. outcome[r] # "timeout" /\ outcome'[r] = "body"
    BY DEF Accounted, Return, TypeOK
  <2>5. \A q \in Requests : q # r => pc'[q] = pc[q] /\ outcome'[q] = outcome[q]
    BY DEF TypeOK, Goto, Return
  <2>6. TimedOut' = TimedOut
    BY <2>4, <2>5 DEF TimedOut
  <2>7. Accounted'
    BY <2>1, <2>4, <2>5, <2>6 DEF Accounted, counters
  <2>. QED
    BY <2>1, <2>2, <2>3, <2>7 DEF SlotsMatchHolders, GaugeIsCount, gauge
<1>8. ASSUME NEW r \in Requests, SelectTimeout(r) PROVE RequestInv'
  <2>. USE <1>8 DEF SelectTimeout
  <2>1. Holders' = Holders /\ Counted' = Counted /\ Started' = Started
    BY SetsKept DEF Places
  <2>2. MaximumPending'
    BY MaximumKept DEF Places, Loop, gauge
  <2>3. TypeOK'
    BY DEF TypeOK, Places, Goto, Return, gauge, locals, time
  <2>4. outcome[r] # "timeout" /\ outcome'[r] = "timeout" /\ pc'[r] = "uncount"
    BY DEF Accounted, Return, TypeOK, Goto
  <2>5. \A q \in Requests : q # r => pc'[q] = pc[q] /\ outcome'[q] = outcome[q]
    BY DEF TypeOK, Goto, Return
  <2>6. TimedOut' = TimedOut \cup {r} /\ r \notin TimedOut
    BY <2>4, <2>5 DEF TimedOut
  <2>7. Cardinality(TimedOut') = Cardinality(TimedOut) + 1
    BY <2>6, RequestSets, OneMore
  <2>8. total' + rejected' + rateLimitHits' = total + rejected + rateLimitHits + 1
    BY DEF TypeOK
  <2>9. Cardinality(Started) \in Nat /\ Cardinality(TimedOut) \in Nat
    BY RequestSets
  <2>10. Accounted'
    BY <2>1, <2>4, <2>5, <2>7, <2>8, <2>9 DEF Accounted, TypeOK
  <2>. QED
    BY <2>1, <2>2, <2>3, <2>10 DEF SlotsMatchHolders, GaugeIsCount, gauge
<1>9. ASSUME NEW r \in Requests, Uncount(r) PROVE RequestInv'
  <2>. USE <1>9 DEF Uncount
  <2>1. Holders' = Holders
    BY SetsKept DEF Places
  <2>2. Counted' = Counted \ {r} /\ r \in Counted
    BY DEF Counted, Goto, TypeOK
  <2>3. concurrent' = Cardinality(Counted') /\ concurrent' \in Nat
    BY <2>2, <1>0, OneLess
  <2>4. MaximumPending'
    BY MaximumKept DEF Places, Loop
  <2>5. TypeOK'
    BY <2>3 DEF TypeOK, Places, Goto, locals, time, counters
  <2>6. Accounted'
    BY AccountedKept DEF Places, counters
  <2>. QED
    BY <2>1, <2>3, <2>4, <2>5, <2>6 DEF SlotsMatchHolders, GaugeIsCount
<1>10. ASSUME NEW r \in Requests, Release(r) PROVE RequestInv'
  <2>. USE <1>10 DEF Release
  <2>1. Counted' = Counted
    BY SetsKept DEF Places
  <2>2. Holders' = Holders \ {r} /\ r \in Holders
    BY DEF Holders, Goto, TypeOK
  <2>3. requestSemaphore' = Cardinality(Holders') /\ requestSemaphore' \in Nat
    BY <2>2, <1>0, OneLess
  <2>4. MaximumPending'
    BY MaximumKept DEF Places, Loop, gauge
  <2>5. requestSemaphore' \in 0..MaxConcurrentReq
    BY <2>3, SecureBodyReaderAssumption DEF TypeOK
  <2>6. TypeOK'
    BY <2>5 DEF TypeOK, Places, Goto, gauge, locals, time, counters
  <2>7. Accounted'
    BY AccountedKept DEF Places, counters
  <2>. QED
    BY <2>1, <2>3, <2>4, <2>6, <2>7 DEF SlotsMatchHolders, GaugeIsCount, gauge
<1>11. ASSUME NEW r \in Requests, ReaderDone(r) PROVE RequestInv'
  <2>. USE <1>11 DEF ReaderDone
  <2>1. Holders' = Holders /\ Counted' = Counted /\ Started' = Started /\ TimedOut' = TimedOut
    BY DEF Holders, Counted, Started, TimedOut
  <2>2. MaximumPending' /\ Accounted'
    BY <2>1 DEF MaximumPending, Accounted, gauge, locals, counters
  <2>3. TypeOK'
    BY DEF TypeOK, gauge, locals, time, counters
  <2>. QED
    BY <2>1, <2>2, <2>3 DEF SlotsMatchHolders, GaugeIsCount, gauge
<1>12. ASSUME Tick PROVE RequestInv'
  <2>. USE <1>12 DEF Tick
  <2>1. Holders' = Holders /\ Counted' = Counted /\ Started' = Started /\ TimedOut' = TimedOut
    BY DEF Holders, Counted, Started, TimedOut
  <2>2. MaximumPending' /\ Accounted'
    BY <2>1 DEF MaximumPending, Accounted, gauge, locals, counters
  <2>3. TypeOK'
    BY SecureBodyReaderAssumption DEF TypeOK, gauge, locals, counters
  <2>. QED
    BY <2>1, <2>2, <2>3 DEF SlotsMatchHolders, GaugeIsCount, gauge
<1>13. ASSUME UNCHANGED vars PROVE RequestInv'
  <2>1. Holders' = Holders /\ Counted' = Counted /\ Started' = Started /\ TimedOut' = TimedOut
    BY <1>13 DEF Holders, Counted, Started, TimedOut, vars
  <2>. QED
    BY <1>13, <2>1 DEF vars, TypeOK, SlotsMatchHolders, GaugeIsCount, MaximumPending, Accounted
<1>. QED
  BY <1>1, <1>2, <1>3, <1>4, <1>5, <1>6, <1>7, <1>8, <1>9, <1>10, <1>11, <1>12, <1>13
     DEF Next, Step, Done

\* The invariant of the requests holds in every reachable state.
THEOREM RequestInvariance == Spec => []RequestInv
BY InitRequests, StepRequests, PTL DEF Spec

\* Types; the semaphore never exceeds its capacity and no counter turns
\* negative.
THEOREM RequestTypes == Spec => []TypeOK
<1>1. RequestInv => TypeOK
  BY DEF RequestInv
<1>. QED
  BY RequestInvariance, <1>1, PTL

\* No slot is leaked and none is given back twice, on any path through
\* SecureBodyReader.
THEOREM NoSlotLeaked == Spec => []SlotsMatchHolders
<1>1. RequestInv => SlotsMatchHolders
  BY DEF RequestInv
<1>. QED
  BY RequestInvariance, <1>1, PTL

\* The published gauge stays between zero and the slots taken.
THEOREM GaugeBounded == Spec => []GaugeWithinSlots
<1>1. RequestInv => GaugeWithinSlots
  BY RequestSets DEF RequestInv, SlotsMatchHolders, GaugeIsCount, GaugeWithinSlots
<1>. QED
  BY RequestInvariance, <1>1, PTL

\* The compare-and-swap loop loses no maximum, however many requests race in
\* it.
THEOREM MaximumExact == Spec => []MaximumIsExact
<1>1. RequestInv => MaximumIsExact
  BY DEF RequestInv, MaximumPending, Pending, Loop, MaximumIsExact
<1>. QED
  BY RequestInvariance, <1>1, PTL

\* When the last request has returned every call of SecureBodyReader is in one
\* counter, and in two if it timed out.
LEMMA RequestsAccounted == RequestInv => CallsAccounted
<1>. SUFFICES ASSUME RequestInv, AllReturned
              PROVE  /\ concurrent = 0
                     /\ total + rejected + rateLimitHits
                          = Cardinality(Requests) + Cardinality(TimedOut)
  BY DEF CallsAccounted, TimedOut
<1>1. Counted = {} /\ Started = Requests
  BY DEF AllReturned, Counted, Started
<1>. QED
  BY <1>1, FS_EmptySet DEF RequestInv, GaugeIsCount, Accounted

------------------------------------------------------------------------------
(***************************************************************************)
(* Batches.                                                                *)
(***************************************************************************)
BatchPlaces == {"idle", "limit", "acquire", "count", "load", "swap", "working", "release"}

\* The gauge counts the callers between Count and Uncount.
BatchCounted == {c \in Callers : batchPc[c] \in {"load", "swap", "working"}}

BatchMaximumPending ==
    Pending(Callers, batchPc, batchCurrent, batchSeen, batchMaxConcurrent, batchHighest)

\* Every call of AcquireBatch is in one of the two counters, or in its caller
\* that has not reached one.
Undecided == {c \in Callers : batchPc[c] \in {"limit", "acquire", "count"}}

BatchAccounted ==
    batchTotal + batchRejected + Cardinality(Undecided) = Cardinality(B!CallsMade)

BatchInv ==
    /\ B!TypeOK
    /\ B!SlotsMatchHolders
    /\ batchConcurrent = Cardinality(BatchCounted)
    /\ BatchMaximumPending
    /\ BatchAccounted

\* BatchLimiter counts as everybody does.
LEMMA SameCardinality ==
    ASSUME NEW S PROVE B!Cardinality(S) = Cardinality(S)
BY DEF B!Cardinality, Cardinality

LEMMA BatchSets ==
    /\ IsFiniteSet(B!Holders) /\ Cardinality(B!Holders) \in Nat
    /\ IsFiniteSet(BatchCounted) /\ Cardinality(BatchCounted) \in Nat
    /\ IsFiniteSet(Undecided) /\ Cardinality(Undecided) \in Nat
    /\ IsFiniteSet(B!CallsMade) /\ Cardinality(B!CallsMade) \in Nat
<1>1. /\ B!Holders \subseteq Callers /\ BatchCounted \subseteq Callers
      /\ Undecided \subseteq Callers /\ B!CallsMade \subseteq Callers \X (1..MaxAcquires)
  BY DEF B!Holders, BatchCounted, Undecided, B!CallsMade
<1>2. IsFiniteSet(1..MaxAcquires)
  BY FS_Interval, BatchAssumption
<1>3. IsFiniteSet(Callers \X (1..MaxAcquires))
  BY <1>2, FS_Product, BatchAssumption
<1>4. /\ IsFiniteSet(B!Holders) /\ IsFiniteSet(BatchCounted)
      /\ IsFiniteSet(Undecided) /\ IsFiniteSet(B!CallsMade)
  BY <1>1, <1>3, FS_Subset, BatchAssumption
<1>. QED
  BY <1>4, FS_CardinalityType

\* What the step of a caller changes in the sets follows from where it goes.
LEMMA BatchSetsKept ==
    ASSUME B!TypeOK, NEW c \in Callers, NEW l \in BatchPlaces, B!Goto(c, l)
    PROVE  /\ (batchPc[c] \in {"idle", "limit", "acquire"})
                <=> (l \in {"idle", "limit", "acquire"}) => B!Holders' = B!Holders
           /\ (batchPc[c] \in {"load", "swap", "working"})
                <=> (l \in {"load", "swap", "working"}) => BatchCounted' = BatchCounted
           /\ (batchPc[c] \in {"limit", "acquire", "count"})
                <=> (l \in {"limit", "acquire", "count"}) => Undecided' = Undecided
BY DEF B!TypeOK, B!Goto, B!Holders, BatchCounted, Undecided, BatchPlaces

LEMMA BatchMaximumKept ==
    ASSUME B!TypeOK, BatchMaximumPending, NEW c \in Callers, NEW l \in BatchPlaces,
           batchPc[c] \notin Loop, l \notin Loop, B!Goto(c, l),
           UNCHANGED <<batchMaxConcurrent, batchHighest, batchCurrent, batchSeen>>
    PROVE  BatchMaximumPending'
BY PendingMove DEF BatchMaximumPending, B!Goto, B!TypeOK

\* A caller leaves the undecided when a counter takes its call.
LEMMA BatchDecided ==
    ASSUME B!TypeOK, BatchAccounted, NEW c \in Undecided, NEW l \in {"load", "idle"},
           B!Goto(c, l), UNCHANGED batchCalls,
           batchTotal' + batchRejected' = batchTotal + batchRejected + 1
    PROVE  BatchAccounted'
<1>1. Undecided' = Undecided \ {c}
  BY DEF Undecided, B!Goto, B!TypeOK
<1>2. Cardinality(Undecided') = Cardinality(Undecided) - 1
  BY <1>1, BatchSets, OneLess
<1>3. B!CallsMade' = B!CallsMade
  BY DEF B!CallsMade
<1>4. Cardinality(Undecided) \in Nat /\ Cardinality(B!CallsMade) \in Nat
  BY BatchSets
<1>. QED
  BY <1>2, <1>3, <1>4 DEF BatchAccounted, B!TypeOK

\* One more call of AcquireBatch.
LEMMA OneMoreCall ==
    ASSUME B!TypeOK, NEW c \in Callers, batchCalls[c] < MaxAcquires,
           batchCalls' = [batchCalls EXCEPT ![c] = @ + 1]
    PROVE  /\ Cardinality(B!CallsMade') = Cardinality(B!CallsMade) + 1
           /\ batchCalls' \in [Callers -> 0..MaxAcquires]
<1>. PICK n : n = batchCalls[c] + 1
  OBVIOUS
<1>1. n \in 1..MaxAcquires /\ batchCalls[c] = n - 1
  BY BatchAssumption DEF B!TypeOK
<1>2. batchCalls' \in [Callers -> 0..MaxAcquires]
  BY <1>1, BatchAssumption DEF B!TypeOK
<1>3. batchCalls'[c] = n /\ \A d \in Callers : d # c => batchCalls'[d] = batchCalls[d]
  BY DEF B!TypeOK
<1>4. <<c, n>> \notin B!CallsMade
  <2>1. <<c, n>>[1] = c /\ <<c, n>>[2] = n
    OBVIOUS
  <2>2. ~(n <= batchCalls[c])
    BY <1>1
  <2>. QED
    BY <2>1, <2>2 DEF B!CallsMade
<1>5. B!CallsMade' = B!CallsMade \cup {<<c, n>>}
  <2>1. ASSUME NEW d \in Callers, NEW i \in 1..MaxAcquires
        PROVE  i <= batchCalls'[d] <=> (i <= batchCalls[d] \/ <<d, i>> = <<c, n>>)
    <3>1. batchCalls[d] \in Int /\ n \in Int
      BY <1>1 DEF B!TypeOK
    <3>2. CASE d = c
      BY <3>1, <3>2, <1>1, <1>3
    <3>3. CASE d # c
      BY <3>3, <1>3
    <3>. QED
      BY <3>2, <3>3
  <2>2. <<c, n>> \in Callers \X (1..MaxAcquires)
    BY <1>1
  <2>. QED
    BY <2>1, <2>2 DEF B!CallsMade
<1>. QED
  BY <1>2, <1>4, <1>5, BatchSets, OneMore

LEMMA InitBatches == B!Init => BatchInv
<1>. SUFFICES ASSUME B!Init PROVE BatchInv
  OBVIOUS
<1>1. B!Holders = {} /\ BatchCounted = {} /\ Undecided = {} /\ B!CallsMade = {}
  BY DEF B!Init, B!Holders, BatchCounted, Undecided, B!CallsMade
<1>2. B!SlotsMatchHolders /\ batchConcurrent = Cardinality(BatchCounted) /\ BatchAccounted
  BY <1>1, FS_EmptySet, SameCardinality DEF B!Init, B!SlotsMatchHolders, BatchAccounted
<1>3. B!TypeOK
  BY BatchAssumption DEF B!Init, B!TypeOK
<1>4. BatchMaximumPending
  BY DEF B!Init, BatchMaximumPending, Pending, Loop
<1>. QED
  BY <1>2, <1>3, <1>4 DEF BatchInv

\* The step of each action.
LEMMA StepBatches == BatchInv /\ [B!Next]_batchVars => BatchInv'
<1>. SUFFICES ASSUME BatchInv, [B!Next]_batchVars PROVE BatchInv'
  OBVIOUS
<1>. USE DEF BatchInv
<1>0. /\ batchSemaphore = Cardinality(B!Holders)
      /\ IsFiniteSet(B!Holders) /\ IsFiniteSet(BatchCounted)
      /\ batchTotal \in Nat /\ batchRejected \in Nat
  BY BatchSets, SameCardinality DEF B!SlotsMatchHolders, B!TypeOK
<1>1. ASSUME NEW c \in Callers, B!AcquireBatch(c) PROVE BatchInv'
  <2>. USE <1>1 DEF B!AcquireBatch
  <2>1. Cardinality(B!CallsMade') = Cardinality(B!CallsMade) + 1
        /\ batchCalls' \in [Callers -> 0..MaxAcquires]
    BY OneMoreCall
  <2>2. UNCHANGED <<batchClock, batchLimiter, batchSemaphore, batchTotal, batchConcurrent,
                    batchMaxConcurrent, batchHighest, batchCurrent, batchSeen>>
    BY DEF B!Reject, B!gauge, B!locals, B!counters, B!time
  <2>3. PICK l \in {"idle", "limit"} : /\ B!Goto(c, l)
                                       /\ batchRejected' = IF l = "idle" THEN batchRejected + 1
                                                           ELSE batchRejected
    BY DEF B!Reject, B!counters
  <2>4. B!Holders' = B!Holders /\ BatchCounted' = BatchCounted
    BY <2>3, BatchSetsKept DEF BatchPlaces
  <2>5. BatchMaximumPending'
    BY <2>2, <2>3, BatchMaximumKept DEF BatchPlaces, Loop
  <2>6. B!TypeOK'
    BY <2>1, <2>2, <2>3 DEF B!TypeOK, B!Goto
  <2>7. BatchAccounted'
    <3>0. Cardinality(Undecided) \in Nat /\ Cardinality(B!CallsMade) \in Nat
      BY BatchSets
    <3>1. CASE l = "idle"
      <4>1. Undecided' = Undecided
        BY <2>3, <3>1, BatchSetsKept DEF BatchPlaces
      <4>. QED
        BY <1>0, <2>1, <2>2, <2>3, <3>0, <3>1, <4>1 DEF BatchAccounted
    <3>2. CASE l = "limit"
      <4>1. Undecided' = Undecided \cup {c} /\ c \notin Undecided
        BY <2>3, <3>2 DEF Undecided, B!Goto, B!TypeOK
      <4>2. Cardinality(Undecided') = Cardinality(Undecided) + 1
        BY <4>1, BatchSets, OneMore
      <4>. QED
        BY <1>0, <2>1, <2>2, <2>3, <3>0, <3>2, <4>2 DEF BatchAccounted
    <3>. QED
      BY <3>1, <3>2
  <2>. QED
    BY <2>2, <2>4, <2>5, <2>6, <2>7 DEF B!SlotsMatchHolders
<1>2. ASSUME NEW c \in Callers, B!RateLimit(c) PROVE BatchInv'
  <2>. USE <1>2 DEF B!RateLimit
  <2>1. UNCHANGED <<batchClock, batchSemaphore, batchTotal, batchConcurrent,
                    batchMaxConcurrent, batchHighest, batchCurrent, batchSeen, batchCalls>>
    BY DEF B!Reject, B!gauge, B!locals, B!counters
  <2>2. PICK l \in {"idle", "acquire"} : /\ B!Goto(c, l)
                                         /\ batchRejected' = IF l = "idle" THEN batchRejected + 1
                                                             ELSE batchRejected
    BY DEF B!Reject, B!counters
  <2>3. B!Holders' = B!Holders /\ BatchCounted' = BatchCounted
    BY <2>2, BatchSetsKept DEF BatchPlaces
  <2>4. BatchMaximumPending'
    BY <2>1, <2>2, BatchMaximumKept DEF BatchPlaces, Loop
  <2>5. B!TypeOK'
    BY <2>1, <2>2 DEF B!TypeOK, B!Goto
  <2>6. BatchAccounted'
    <3>1. CASE l = "idle"
      <4>1. c \in Undecided /\ batchTotal' + batchRejected' = batchTotal + batchRejected + 1
        BY <1>0, <2>1, <2>2, <3>1 DEF Undecided
      <4>. QED
        BY <2>1, <2>2, <3>1, <4>1, BatchDecided
    <3>2. CASE l = "acquire"
      <4>1. Undecided' = Undecided
        BY <2>2, <3>2, BatchSetsKept DEF BatchPlaces
      <4>. QED
        BY <2>1, <2>2, <3>2, <4>1 DEF BatchAccounted, B!CallsMade
    <3>. QED
      BY <3>1, <3>2
  <2>. QED
    BY <2>1, <2>3, <2>4, <2>5, <2>6 DEF B!SlotsMatchHolders
<1>3. ASSUME NEW c \in Callers, B!Acquire(c) PROVE BatchInv'
  <2>. USE <1>3 DEF B!Acquire
  <2>1. B!Holders' = B!Holders \cup {c} /\ c \notin B!Holders
    BY DEF B!Holders, B!Goto, B!TypeOK
  <2>2. B!SlotsMatchHolders'
    BY <2>1, <1>0, OneMore, SameCardinality DEF B!SlotsMatchHolders
  <2>3. BatchCounted' = BatchCounted /\ Undecided' = Undecided
    BY BatchSetsKept DEF BatchPlaces
  <2>4. BatchMaximumPending'
    BY BatchMaximumKept DEF BatchPlaces, Loop, B!gauge, B!locals
  <2>5. B!TypeOK'
    BY BatchAssumption DEF B!TypeOK, B!Goto, B!gauge, B!locals, B!counters, B!time
  <2>6. BatchAccounted'
    BY <2>3 DEF BatchAccounted, B!CallsMade, B!counters
  <2>. QED
    BY <2>2, <2>3, <2>4, <2>5, <2>6 DEF B!gauge
<1>4. ASSUME NEW c \in Callers, B!AcquireRejected(c) PROVE BatchInv'
  <2>. USE <1>4 DEF B!AcquireRejected, B!Reject
  <2>1. B!Holders' = B!Holders /\ BatchCounted' = BatchCounted
    BY BatchSetsKept DEF BatchPlaces
  <2>2. BatchMaximumPending'
    BY BatchMaximumKept DEF BatchPlaces, Loop, B!gauge, B!locals
  <2>3. B!TypeOK'
    BY DEF B!TypeOK, B!Goto, B!gauge, B!locals, B!time
  <2>4. c \in Undecided /\ batchTotal' + batchRejected' = batchTotal + batchRejected + 1
    BY <1>0 DEF Undecided
  <2>5. BatchAccounted'
    BY <2>4, BatchDecided
  <2>. QED
    BY <2>1, <2>2, <2>3, <2>5 DEF B!SlotsMatchHolders, B!gauge
<1>5. ASSUME NEW c \in Callers, B!Count(c) PROVE BatchInv'
  <2>. USE <1>5 DEF B!Count
  <2>1. B!Holders' = B!Holders
    BY BatchSetsKept DEF BatchPlaces
  <2>2. BatchCounted' = BatchCounted \cup {c} /\ c \notin BatchCounted
    BY DEF BatchCounted, B!Goto, B!TypeOK
  <2>3. batchConcurrent' = Cardinality(BatchCounted')
    BY <2>2, <1>0, OneMore
  <2>4. batchConcurrent + 1 \in Nat /\ batchPc[c] \notin Loop
    BY DEF B!TypeOK, Loop
  <2>5. BatchMaximumPending'
    BY <2>4, PendingCount DEF BatchMaximumPending, B!Goto, B!TypeOK
  <2>6. B!TypeOK'
    BY <2>4 DEF B!TypeOK, B!Goto, B!time
  <2>7. c \in Undecided /\ batchTotal' + batchRejected' = batchTotal + batchRejected + 1
    BY <1>0 DEF Undecided
  <2>8. BatchAccounted'
    BY <2>7, BatchDecided
  <2>. QED
    BY <2>1, <2>3, <2>5, <2>6, <2>8 DEF B!SlotsMatchHolders
<1>6. ASSUME NEW c \in Callers, B!Load(c) PROVE BatchInv'
  <2>. USE <1>6 DEF B!Load
  <2>1. PICK l \in {"working", "swap"} : B!Goto(c, l)
    OBVIOUS
  <2>2. B!Holders' = B!Holders /\ BatchCounted' = BatchCounted /\ Undecided' = Undecided
    BY <2>1, BatchSetsKept DEF BatchPlaces
  <2>3. BatchMaximumPending'
    <3>1. "working" \notin Loop
      BY DEF Loop
    <3>. QED
      BY <3>1, PendingLoad DEF BatchMaximumPending, B!Goto, B!TypeOK, B!gauge
  <2>4. B!TypeOK'
    BY <2>1 DEF B!TypeOK, B!Goto, B!gauge, B!counters, B!time
  <2>5. BatchAccounted'
    BY <2>2 DEF BatchAccounted, B!CallsMade, B!counters
  <2>. QED
    BY <2>2, <2>3, <2>4, <2>5 DEF B!SlotsMatchHolders, B!gauge
<1>7. ASSUME NEW c \in Callers, B!Swap(c) PROVE BatchInv'
  <2>. USE <1>7 DEF B!Swap
  <2>1. PICK l \in {"working", "load"} : B!Goto(c, l)
    OBVIOUS
  <2>2. B!Holders' = B!Holders /\ BatchCounted' = BatchCounted /\ Undecided' = Undecided
    BY <2>1, BatchSetsKept DEF BatchPlaces
  <2>3. BatchMaximumPending'
    <3>0. "working" \notin Loop
      BY DEF Loop
    <3>1. /\ batchMaxConcurrent = batchSeen[c]
             => Pending(Callers, [batchPc EXCEPT ![c] = "working"], batchCurrent, batchSeen,
                        batchCurrent[c], batchHighest)
          /\ Pending(Callers, [batchPc EXCEPT ![c] = "load"], batchCurrent, batchSeen,
                     batchMaxConcurrent, batchHighest)
      BY <3>0, PendingSwap DEF BatchMaximumPending, B!TypeOK
    <3>. QED
      BY <3>1 DEF BatchMaximumPending, B!Goto, B!locals
  <2>4. B!TypeOK'
    BY <2>1 DEF B!TypeOK, B!Goto, B!locals, B!counters, B!time
  <2>5. BatchAccounted'
    BY <2>2 DEF BatchAccounted, B!CallsMade, B!counters
  <2>. QED
    BY <2>2, <2>3, <2>4, <2>5 DEF B!SlotsMatchHolders
<1>8. ASSUME NEW c \in Callers, B!Uncount(c) PROVE BatchInv'
  <2>. USE <1>8 DEF B!Uncount
  <2>1. B!Holders' = B!Holders /\ Undecided' = Undecided
    BY BatchSetsKept DEF BatchPlaces
  <2>2. BatchCounted' = BatchCounted \ {c} /\ c \in BatchCounted
    BY DEF BatchCounted, B!Goto, B!TypeOK
  <2>3. batchConcurrent' = Cardinality(BatchCounted') /\ batchConcurrent' \in Nat
    BY <2>2, <1>0, OneLess
  <2>4. BatchMaximumPending'
    BY BatchMaximumKept DEF BatchPlaces, Loop, B!locals
  <2>5. B!TypeOK'
    BY <2>3 DEF B!TypeOK, B!Goto, B!locals, B!counters, B!time
  <2>6. BatchAccounted'
    BY <2>1 DEF BatchAccounted, B!CallsMade, B!counters
  <2>. QED
    BY <2>1, <2>3, <2>4, <2>5, <2>6 DEF B!SlotsMatchHolders
<1>9. ASSUME NEW c \in Callers, B!Release(c) PROVE BatchInv'
  <2>. USE <1>9 DEF B!Release
  <2>1. BatchCounted' = BatchCounted /\ Undecided' = Undecided
    BY BatchSetsKept DEF BatchPlaces
  <2>2. B!Holders' = B!Holders \ {c} /\ c \in B!Holders
    BY DEF B!Holders, B!Goto, B!TypeOK
  <2>3. batchSemaphore' = Cardinality(B!Holders')
    BY <2>2, <1>0, OneLess
  <2>4. batchSemaphore' \in 0..MaxConcurrentBatch
    BY BatchAssumption DEF B!TypeOK
  <2>5. BatchMaximumPending'
    BY BatchMaximumKept DEF BatchPlaces, Loop, B!gauge, B!locals
  <2>6. B!TypeOK'
    BY <2>4 DEF B!TypeOK, B!Goto, B!gauge, B!locals, B!counters, B!time
  <2>7. BatchAccounted'
    BY <2>1 DEF BatchAccounted, B!CallsMade, B!counters
  <2>. QED
    BY <2>1, <2>3, <2>5, <2>6, <2>7, SameCardinality DEF B!SlotsMatchHolders, B!gauge
<1>10. ASSUME \/ B!Tick
              \/ UNCHANGED batchVars
       PROVE  BatchInv'
  <2>1. UNCHANGED <<batchSemaphore, batchConcurrent, batchMaxConcurrent, batchTotal,
                    batchRejected, batchPc, batchCurrent, batchSeen, batchCalls, batchHighest>>
    BY <1>10 DEF B!Tick, batchVars, B!gauge, B!locals, B!counters
  <2>2. batchClock' \in 0..BatchMaxClock
    BY <1>10, BatchAssumption DEF B!Tick, batchVars, B!TypeOK
  <2>3. /\ B!Holders' = B!Holders /\ BatchCounted' = BatchCounted
        /\ Undecided' = Undecided /\ B!CallsMade' = B!CallsMade
    BY <2>1 DEF B!Holders, BatchCounted, Undecided, B!CallsMade
  <2>. QED
    BY <2>1, <2>2, <2>3
       DEF B!TypeOK, B!SlotsMatchHolders, BatchMaximumPending, BatchAccounted
<1>. QED
  BY <1>1, <1>2, <1>3, <1>4, <1>5, <1>6, <1>7, <1>8, <1>9, <1>10
     DEF B!Next, B!Step, B!Done, B!vars, batchVars

\* Between calls of AcquireBatch nobody is counted and every call is in one
\* counter.
LEMMA BatchesAccounted == BatchInv => B!MaximumIsExact /\ B!CallsAccounted
<1>. SUFFICES ASSUME BatchInv PROVE B!MaximumIsExact /\ B!CallsAccounted
  OBVIOUS
<1>1. B!MaximumIsExact
  BY DEF BatchInv, BatchMaximumPending, Pending, Loop, B!MaximumIsExact
<1>2. ASSUME B!AllIdle
      PROVE  batchConcurrent = 0 /\ batchTotal + batchRejected = Cardinality(B!CallsMade)
  <2>1. BatchCounted = {} /\ Undecided = {}
    BY <1>2 DEF B!AllIdle, BatchCounted, Undecided
  <2>. QED
    BY <2>1, FS_EmptySet DEF BatchInv, BatchAccounted, B!TypeOK
<1>. QED
  BY <1>1, <1>2, SameCardinality DEF B!CallsAccounted

------------------------------------------------------------------------------
(***************************************************************************)
(* The memory monitor.                                                     *)
(***************************************************************************)
\* Every spawn answers a call of StartMemoryMonitoring that has not returned
\* yet: the channels made never outnumber the calls.
Busy == {c \in Controllers : cpc[c] # "idle"}

ChannelsCounted ==
    /\ IsFiniteSet(Busy)
    /\ stopChan + Cardinality(Busy) <= calls

\* The lock is held over a step only by the controller in wg.Wait, and only
\* while the monitor does not run.
Locked ==
    /\ mu # Free => running = 0
    /\ \A c \in Controllers : cpc[c] = "wait" => mu = c

\* Only the goroutine of the current channel may be alive, and wg counts it.
Current ==
    /\ \A m \in Live : m = stopChan
    /\ wg = IF stopChan \in Live THEN 1 ELSE 0

Served ==
    running = 1 => stopChan \in Live /\ stopChan \notin closed /\ ~stopOnce

MonitorInv ==
    /\ MonitorTypeOK
    /\ ChannelsCounted
    /\ Locked
    /\ Current
    /\ Served
    /\ closed \subseteq 1..stopChan
    /\ NoDoubleClose

------------------------------------------------------------------------------
\* StartMemoryMonitoring makes one more controller busy, a return from Start
\* one less, and a step of Start in between changes nothing.
LEMMA BusyMore ==
    ASSUME MonitorTypeOK, ChannelsCounted, NEW c \in Controllers, cpc[c] = "idle",
           calls' = calls + 1, stopChan' = stopChan,
           GotoController(c, "start")
    PROVE  ChannelsCounted'
<1>1. Busy' = Busy \cup {c} /\ c \notin Busy
  BY DEF MonitorTypeOK, GotoController, Busy
<1>2. IsFiniteSet(Busy') /\ Cardinality(Busy') = Cardinality(Busy) + 1
  BY <1>1, FS_AddElement DEF ChannelsCounted
<1>3. Cardinality(Busy) \in Nat
  BY FS_CardinalityType DEF ChannelsCounted
<1>4. stopChan \in Nat /\ calls \in Nat
  BY MemoryMonitorAssumption DEF MonitorTypeOK
<1>. QED
  BY <1>2, <1>3, <1>4 DEF ChannelsCounted

LEMMA BusyLess ==
    ASSUME MonitorTypeOK, ChannelsCounted, NEW c \in Controllers, cpc[c] # "idle",
           calls' = calls, stopChan' \in {stopChan, stopChan + 1},
           GotoController(c, "idle")
    PROVE  ChannelsCounted' /\ stopChan + 1 <= calls
<1>1. Busy' = Busy \ {c} /\ c \in Busy
  BY DEF MonitorTypeOK, GotoController, Busy
<1>2. IsFiniteSet(Busy') /\ Cardinality(Busy') = Cardinality(Busy) - 1
  BY <1>1, FS_RemoveElement DEF ChannelsCounted
<1>3. Cardinality(Busy) \in Nat /\ Cardinality(Busy') \in Nat
  BY <1>2, FS_CardinalityType DEF ChannelsCounted
<1>4. stopChan \in Nat /\ calls \in Nat
  BY MemoryMonitorAssumption DEF MonitorTypeOK
<1>. QED
  BY <1>2, <1>3, <1>4 DEF ChannelsCounted

LEMMA BusySame ==
    ASSUME ChannelsCounted, Busy' = Busy, calls' = calls, stopChan' = stopChan
    PROVE  ChannelsCounted'
BY DEF ChannelsCounted

------------------------------------------------------------------------------
LEMMA InitMonitor == MonitorInit => MonitorInv
<1>. SUFFICES ASSUME MonitorInit PROVE MonitorInv
  OBVIOUS
<1>. USE MemoryMonitorAssumption
<1>a. /\ cpc \in [Controllers -> {"idle", "start", "wait"}]
      /\ mpc \in [Monitors -> {"none", "loop", "check", "alert", "callback", "stopping", "gone"}]
      /\ mu \in Controllers \cup {Free} /\ closed \subseteq 1..MaxCalls
  BY DEF MonitorInit
<1>b. stopOnce \in BOOLEAN
  BY DEF MonitorInit
<1>1. MonitorTypeOK
  BY <1>a, <1>b DEF MonitorInit, MonitorTypeOK
<1>2. Busy = {}
  BY DEF MonitorInit, Busy
<1>3. ChannelsCounted
  BY <1>2, FS_EmptySet DEF MonitorInit, ChannelsCounted
<1>4. Live = {}
  BY DEF MonitorInit, Live, Monitors
<1>5. Locked /\ Current /\ Served /\ closed \subseteq 1..stopChan /\ NoDoubleClose
  BY <1>4, MemoryMonitorAssumption DEF MonitorInit, Locked, Current, Served, NoDoubleClose
<1>. QED
  BY <1>1, <1>3, <1>5 DEF MonitorInv

------------------------------------------------------------------------------
\* Stop, whoever calls it: a running monitor has an open channel.
LEMMA StopSafe ==
    ASSUME MonitorInv, Stop, UNCHANGED cpc, Live' = Live,
           mpc' \in [Monitors -> {"none", "loop", "check", "alert", "callback", "stopping", "gone"}]
    PROVE  MonitorInv'
<1>. USE DEF MonitorInv
<1>1. stopChan \in Live /\ stopChan \notin closed /\ ~stopOnce /\ stopChan \in Monitors
  BY DEF Stop, Served, Live
<1>3. closed' = closed \cup {stopChan} /\ NoDoubleClose'
  BY <1>1 DEF Stop, NoDoubleClose
<1>4. MonitorTypeOK'
  BY <1>1, <1>3 DEF MonitorTypeOK, Stop, stats, Monitors
<1>5. ChannelsCounted'
  BY BusySame DEF Stop, Busy
<1>6. Locked' /\ Current' /\ Served'
  BY DEF Locked, Current, Served, Stop
<1>7. closed' \subseteq 1..stopChan'
  BY <1>1, <1>3 DEF Stop, Monitors, MonitorTypeOK
<1>. QED
  BY <1>3, <1>4, <1>5, <1>6, <1>7

\* A goroutine that ends is the current one, and the monitor does not run.
LEMMA ExitSafe ==
    ASSUME MonitorInv, NEW m \in Monitors, mpc[m] = "loop", running = 0, Exit(m)
    PROVE  MonitorInv'
<1>. USE DEF MonitorInv
<1>1. m \in Live /\ m = stopChan
  BY DEF Live, Current
<1>2. Live' = Live \ {m} /\ stopChan' = stopChan
  BY DEF Live, Exit, MGoto, MonitorTypeOK, chans
<1>3. wg' = 0
  BY <1>1 DEF Current, Exit
<1>4. MonitorTypeOK'
  BY <1>3, MemoryMonitorAssumption DEF MonitorTypeOK, Exit, MGoto, chans, stats
<1>5. ChannelsCounted'
  BY BusySame DEF Exit, Busy, chans
<1>6. Locked' /\ Current' /\ Served' /\ closed' \subseteq 1..stopChan' /\ NoDoubleClose'
  BY <1>1, <1>2, <1>3 DEF Locked, Current, Served, NoDoubleClose, Exit, chans
<1>. QED
  BY <1>4, <1>5, <1>6

\* A live goroutine that moves from one place to another.
LEMMA MoveSafe ==
    ASSUME MonitorInv, NEW m \in Live, NEW l \in {"loop", "check", "alert", "callback", "stopping"},
           MGoto(m, l), UNCHANGED <<mu, running, wg, chans, cpc, calls>>,
           memory' \in 0..MaxLevel, peak' \in 0..MaxLevel, alerts' \in 0..MaxAlerts
    PROVE  MonitorInv'
<1>. USE DEF MonitorInv
<1>1. Live' = Live /\ stopChan' = stopChan
  BY DEF Live, MGoto, MonitorTypeOK, chans
<1>2. MonitorTypeOK'
  BY DEF MonitorTypeOK, MGoto, chans
<1>3. ChannelsCounted'
  BY BusySame DEF Busy, chans
<1>4. Locked' /\ Current' /\ Served' /\ closed' \subseteq 1..stopChan' /\ NoDoubleClose'
  BY <1>1 DEF Locked, Current, Served, NoDoubleClose, chans
<1>. QED
  BY <1>2, <1>3, <1>4

LEMMA StepMonitor == MonitorInv /\ [MonitorNext]_monitorVars => MonitorInv'
<1>. SUFFICES ASSUME MonitorInv, [MonitorNext]_monitorVars PROVE MonitorInv'
  OBVIOUS
<1>. USE DEF MonitorInv
<1>1. ASSUME NEW c \in Controllers, StartMemoryMonitoring(c) PROVE MonitorInv'
  <2>. USE <1>1 DEF StartMemoryMonitoring
  <2>1. Live' = Live /\ stopChan' = stopChan
    BY DEF Live, chans
  <2>2. MonitorTypeOK'
    BY MemoryMonitorAssumption DEF MonitorTypeOK, GotoController, chans, stats
  <2>3. ChannelsCounted'
    BY BusyMore DEF chans
  <2>4. Locked' /\ Current' /\ Served' /\ closed' \subseteq 1..stopChan' /\ NoDoubleClose'
    BY <2>1 DEF Locked, Current, Served, NoDoubleClose, GotoController, MonitorTypeOK, chans
  <2>. QED
    BY <2>2, <2>3, <2>4
<1>2. ASSUME NEW c \in Controllers, StartRunning(c) PROVE MonitorInv'
  <2>. USE <1>2 DEF StartRunning
  <2>1. Live' = Live /\ stopChan' = stopChan
    BY DEF Live, chans
  <2>2. MonitorTypeOK'
    BY DEF MonitorTypeOK, GotoController, chans, stats
  <2>3. ChannelsCounted'
    BY BusyLess DEF chans
  <2>4. Locked' /\ Current' /\ Served' /\ closed' \subseteq 1..stopChan' /\ NoDoubleClose'
    BY <2>1 DEF Locked, Current, Served, NoDoubleClose, GotoController, MonitorTypeOK, chans
  <2>. QED
    BY <2>2, <2>3, <2>4
<1>3. ASSUME NEW c \in Controllers, StartStopped(c) PROVE MonitorInv'
  <2>. USE <1>3 DEF StartStopped
  <2>1. Live' = Live /\ stopChan' = stopChan
    BY DEF Live, chans
  <2>2. MonitorTypeOK'
    BY DEF MonitorTypeOK, GotoController, chans, stats
  <2>3. Busy' = Busy
    BY DEF Busy, GotoController, MonitorTypeOK
  <2>4. ChannelsCounted'
    BY <2>3, BusySame DEF chans
  <2>5. Locked'
    BY MemoryMonitorAssumption DEF Locked, GotoController, MonitorTypeOK
  <2>6. Current' /\ Served' /\ closed' \subseteq 1..stopChan' /\ NoDoubleClose'
    BY <2>1 DEF Current, Served, NoDoubleClose, chans
  <2>. QED
    BY <2>2, <2>4, <2>5, <2>6
<1>4. ASSUME NEW c \in Controllers, StartSpawn(c) PROVE MonitorInv'
  <2>. USE <1>4 DEF StartSpawn, Spawn
  <2>1. ChannelsCounted' /\ stopChan + 1 <= calls
    BY BusyLess
  <2>2. stopChan + 1 \in Monitors /\ stopChan \in Nat
    BY <2>1, MemoryMonitorAssumption DEF Monitors, MonitorTypeOK
  <2>3. Live = {}
    BY DEF Current
  <2>4. Live' = {stopChan + 1}
    BY <2>2, <2>3 DEF Live, MonitorTypeOK
  <2>a. stopOnce' \in BOOLEAN
    OBVIOUS
  <2>b. mpc' \in [Monitors -> {"none", "loop", "check", "alert", "callback", "stopping", "gone"}]
    BY <2>2 DEF MonitorTypeOK
  <2>c. cpc' \in [Controllers -> {"idle", "start", "wait"}]
    BY DEF MonitorTypeOK, GotoController
  <2>d. wg' \in 0..MaxCalls /\ stopChan' \in 0..MaxCalls
    BY <2>2, MemoryMonitorAssumption DEF Monitors
  <2>5. MonitorTypeOK'
    BY <2>a, <2>b, <2>c, <2>d DEF MonitorTypeOK, stats
  <2>6. Locked'
    BY DEF Locked, GotoController, MonitorTypeOK
  <2>7. stopChan + 1 \notin closed
    BY <2>2
  <2>8. Current' /\ Served' /\ closed' \subseteq 1..stopChan' /\ NoDoubleClose'
    BY <2>2, <2>4, <2>7 DEF Current, Served, NoDoubleClose
  <2>. QED
    BY <2>1, <2>5, <2>6, <2>8
<1>5. ASSUME NEW c \in Controllers, StopMemoryMonitoring(c) PROVE MonitorInv'
  <2>1. Live' = Live
    BY <1>5 DEF StopMemoryMonitoring, Live
  <2>. QED
    BY <2>1, <1>5, StopSafe DEF StopMemoryMonitoring, MonitorTypeOK
<1>6. ASSUME NEW m \in Monitors, TickStopped(m) PROVE MonitorInv'
  BY <1>6, ExitSafe DEF TickStopped
<1>7. ASSUME NEW m \in Monitors, StopSeen(m) PROVE MonitorInv'
  <2>1. running = 0
    BY <1>7 DEF StopSeen, Served, MonitorTypeOK
  <2>. QED
    BY <2>1, <1>7, ExitSafe DEF StopSeen
<1>8. ASSUME NEW m \in Monitors, TickRunning(m) PROVE MonitorInv'
  <2>1. m \in Live /\ MGoto(m, "check")
    BY <1>8 DEF TickRunning, Live
  <2>2. memory' \in 0..MaxLevel /\ peak' \in 0..MaxLevel /\ alerts' \in 0..MaxAlerts
    BY <1>8 DEF TickRunning, stats, MonitorTypeOK
  <2>. QED
    BY <2>1, <2>2, <1>8, MoveSafe DEF TickRunning
<1>9. ASSUME NEW m \in Monitors, CheckMemory(m) PROVE MonitorInv'
  <2>1. m \in Live
    BY <1>9 DEF CheckMemory, Live
  <2>2. /\ memory' \in 0..MaxLevel /\ peak' \in 0..MaxLevel /\ alerts' \in 0..MaxAlerts
        /\ \E l \in {"loop", "check", "alert", "callback", "stopping"} : MGoto(m, l)
    BY <1>9, MemoryMonitorAssumption DEF CheckMemory, MonitorTypeOK
  <2>. QED
    BY <2>1, <2>2, <1>9, MoveSafe DEF CheckMemory
<1>10. ASSUME NEW m \in Monitors, ReadCallback(m) PROVE MonitorInv'
  <2>1. m \in Live /\ MGoto(m, "callback")
    BY <1>10 DEF ReadCallback, Live
  <2>2. memory' \in 0..MaxLevel /\ peak' \in 0..MaxLevel /\ alerts' \in 0..MaxAlerts
    BY <1>10 DEF ReadCallback, stats, MonitorTypeOK
  <2>. QED
    BY <2>1, <2>2, <1>10, MoveSafe DEF ReadCallback
<1>11. ASSUME NEW m \in Monitors, CallbackReturns(m) PROVE MonitorInv'
  <2>1. m \in Live /\ MGoto(m, "loop")
    BY <1>11 DEF CallbackReturns, Live
  <2>2. memory' \in 0..MaxLevel /\ peak' \in 0..MaxLevel /\ alerts' \in 0..MaxAlerts
    BY <1>11 DEF CallbackReturns, stats, MonitorTypeOK
  <2>. QED
    BY <2>1, <2>2, <1>11, MoveSafe DEF CallbackReturns
<1>12. ASSUME NEW m \in Monitors, CallbackStops(m) PROVE MonitorInv'
  <2>1. Live' = Live
    BY <1>12 DEF CallbackStops, MGoto, Live, MonitorTypeOK
  <2>2. mpc' \in [Monitors -> {"none", "loop", "check", "alert", "callback", "stopping", "gone"}]
    BY <1>12 DEF CallbackStops, MGoto, MonitorTypeOK
  <2>. QED
    BY <2>1, <2>2, <1>12, StopSafe DEF CallbackStops
<1>14. ASSUME NEW m \in Monitors, CallbackCallsStop(m) \/ CallbackStopsNothing(m)
       PROVE  MonitorInv'
  <2>1. m \in Live /\ \E l \in {"stopping", "loop"} : MGoto(m, l)
    BY <1>14 DEF CallbackCallsStop, CallbackStopsNothing, Live
  <2>2. memory' \in 0..MaxLevel /\ peak' \in 0..MaxLevel /\ alerts' \in 0..MaxAlerts
    BY <1>14 DEF CallbackCallsStop, CallbackStopsNothing, stats, MonitorTypeOK
  <2>. QED
    BY <2>1, <2>2, <1>14, MoveSafe DEF CallbackCallsStop, CallbackStopsNothing
<1>13. ASSUME UNCHANGED monitorVars PROVE MonitorInv'
  <2>1. Busy' = Busy /\ Live' = Live
    BY <1>13 DEF monitorVars, Busy, Live
  <2>2. ChannelsCounted'
    BY <2>1, <1>13, BusySame DEF monitorVars
  <2>. QED
    BY <2>1, <2>2, <1>13
       DEF monitorVars, MonitorTypeOK, Locked, Current, Served, NoDoubleClose
<1>. QED
  BY <1>1, <1>2, <1>3, <1>4, <1>5, <1>6, <1>7, <1>8, <1>9, <1>10, <1>11, <1>12, <1>13,
     <1>14
     DEF MonitorNext, Starting, Monitor

------------------------------------------------------------------------------
\* The invariant of the monitor holds in every reachable state.
THEOREM MonitorInvariance == MonitorSpec => []MonitorInv
BY InitMonitor, StepMonitor, PTL DEF MonitorSpec

\* Types, and channels made by Start only.
THEOREM MonitorTypes == MonitorSpec => []MonitorTypeOK
<1>1. MonitorInv => MonitorTypeOK
  BY DEF MonitorInv
<1>. QED
  BY MonitorInvariance, <1>1, PTL

\* However often the monitor is started, stopped and restarted, and by
\* however many goroutines, Start never leaves two monitor goroutines behind.
THEOREM AtMostOneMonitor == MonitorSpec => []OneMonitor
<1>1. ASSUME MonitorInv PROVE OneMonitor
  <2>1. Live \subseteq {stopChan}
    BY <1>1 DEF MonitorInv, Current
  <2>2. IsFiniteSet({stopChan}) /\ Cardinality({stopChan}) = 1
    BY FS_Singleton
  <2>3. Cardinality(Live) <= Cardinality({stopChan})
    BY <2>1, <2>2, FS_Subset
  <2>. QED
    BY <2>2, <2>3 DEF OneMonitor
<1>. QED
  BY MonitorInvariance, <1>1, PTL

\* A monitor that counts as running has its goroutine, and a channel that Stop
\* can still close.
THEOREM RunningServed == MonitorSpec => []RunningIsServed
<1>1. ASSUME MonitorInv PROVE RunningIsServed
  <2>. SUFFICES ASSUME running = 1
                PROVE  Cardinality(Live) = 1 /\ stopChan \notin closed /\ ~stopOnce
    BY DEF RunningIsServed
  <2>1. Live = {stopChan}
    BY <1>1 DEF MonitorInv, Current, Served
  <2>2. Cardinality(Live) = 1
    BY <2>1, FS_Singleton
  <2>. QED
    BY <2>2, <1>1 DEF MonitorInv, Served
<1>. QED
  BY MonitorInvariance, <1>1, PTL

\* Stop never closes a closed channel.
THEOREM StopNeverPanics == MonitorSpec => []NoDoubleClose
<1>1. MonitorInv => NoDoubleClose
  BY DEF MonitorInv
<1>. QED
  BY MonitorInvariance, <1>1, PTL

------------------------------------------------------------------------------
(***************************************************************************)
(* The protector: each of its parts as if it were alone.                   *)
(***************************************************************************)
THEOREM ProtectorInvariance == ProtectorSpec => [](RequestInv /\ BatchInv /\ MonitorInv)
<1>1. ProtectorInit => RequestInv /\ BatchInv /\ MonitorInv
  BY InitRequests, InitBatches, InitMonitor DEF ProtectorInit
<1>2. [ProtectorNext]_all => [Next]_vars /\ [B!Next]_batchVars /\ [MonitorNext]_monitorVars
  BY DEF ProtectorNext, Requesting, Batching, Monitoring, Limiting, all
<1>3. /\ RequestInv /\ BatchInv /\ MonitorInv
      /\ [ProtectorNext]_all
      => (RequestInv /\ BatchInv /\ MonitorInv)'
  BY <1>2, StepRequests, StepBatches, StepMonitor
<1>. QED
  BY <1>1, <1>3, PTL DEF ProtectorSpec

\* Every request and every batch is in its counters once the races are over;
\* the batch semaphore has a slot for each holder, within its capacity, and no
\* maximum is lost: whatever the capacities, the rates and the number of
\* goroutines.
THEOREM CountersAlwaysExact == ProtectorSpec => []CountersExact
<1>1. RequestInv /\ BatchInv /\ MonitorInv => CountersExact
  BY RequestsAccounted, BatchesAccounted
     DEF CountersExact, ProtectorTypeOK, RequestInv, BatchInv, MonitorInv
<1>. QED
  BY ProtectorInvariance, <1>1, PTL
==============================================================================
