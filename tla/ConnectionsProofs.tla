-------------------------- MODULE ConnectionsProofs --------------------------
(***************************************************************************)
(* The process-wide session is made once, and a partner's connection is    *)
(* renewed in time, for any numbers of goroutines, partners, callers and   *)
(* configurations and any intervals with the margin the code's have.       *)
(***************************************************************************)
EXTENDS MCConnections, TLAPS

USE MultiAccountAssumption, InitBounds

-----------------------------------------------------------------------------
(* The session.                                                            *)

\* One goroutine at most is inside the once; until it is done there is no
\* session, and all sessions anyone holds are the first.
OnceInv ==
    /\ L!TypeOK
    /\ globalLambdaDB = sessions
    /\ lambdaOnce # "done" => sessions = 0
    /\ lambdaOnce # "running" => \A g \in Goroutines : place[g] # "create"
    /\ \A g, h \in Goroutines : place[g] = "create" /\ place[h] = "create" => g = h
    /\ \A g \in Goroutines : db[g] \in 0..1
    /\ \A g \in Goroutines : place[g] = "idle" /\ returned[g] = "session" => db[g] = 1

LEMMA OnceInit == L!Init => OnceInv
  BY DEF L!Init, OnceInv, L!TypeOK, L!nil

LEMMA OnceNext ==
    ASSUME OnceInv, L!Next
    PROVE  OnceInv'
  <1>1. ASSUME NEW g \in Goroutines, L!LambdaInit(g) PROVE OnceInv'
    BY <1>1 DEF OnceInv, L!TypeOK, L!LambdaInit, L!Goto, L!shared
  <1>2. ASSUME NEW g \in Goroutines, L!WarmStart(g) PROVE OnceInv'
    BY <1>2 DEF OnceInv, L!TypeOK, L!WarmStart, L!Goto, L!shared
  <1>3. ASSUME NEW g \in Goroutines, L!ColdStart(g) PROVE OnceInv'
    BY <1>3 DEF OnceInv, L!TypeOK, L!ColdStart, L!Goto, L!shared
  <1>4. ASSUME NEW g \in Goroutines, L!OnceEnter(g) PROVE OnceInv'
    BY <1>4 DEF OnceInv, L!TypeOK, L!OnceEnter, L!Goto
  <1>5. ASSUME NEW g \in Goroutines, L!OnceSkip(g) PROVE OnceInv'
    BY <1>5 DEF OnceInv, L!TypeOK, L!OnceSkip, L!Goto, L!shared
  <1>6. ASSUME NEW g \in Goroutines, L!Create(g) PROVE OnceInv'
    BY <1>6 DEF OnceInv, L!TypeOK, L!Create, L!Goto
  <1>7. ASSUME NEW g \in Goroutines, L!CreateFails(g) PROVE OnceInv'
    BY <1>7 DEF OnceInv, L!TypeOK, L!CreateFails, L!Goto
  <1>8. ASSUME NEW g \in Goroutines, L!Load(g) PROVE OnceInv'
    BY <1>8 DEF OnceInv, L!TypeOK, L!Load, L!Goto, L!shared
  <1>9. ASSUME NEW g \in Goroutines, L!Return(g) PROVE OnceInv'
    BY <1>9 DEF OnceInv, L!TypeOK, L!Return, L!Goto, L!shared, L!nil
  <1>10. CASE L!Done
    BY <1>10 DEF OnceInv, L!TypeOK, L!Done, L!vars
  <1> QED
    BY <1>1, <1>2, <1>3, <1>4, <1>5, <1>6, <1>7, <1>8, <1>9, <1>10 DEF L!Next, L!Step

LEMMA OnceSingleton == OnceInv => Singleton
  BY DEF OnceInv, Singleton, L!Singleton

-----------------------------------------------------------------------------
(* Types, and where configurations come from.                              *)

\* Whatever is looked up, cached or being refreshed for a partner is a
\* configuration that this partner had.
Known ==
    /\ \A p \in Partners : accounts[p] # Nobody => <<p, accounts[p]>> \in configured
    /\ \A p \in Partners : Cached(p) => <<p, cache[p].config>> \in configured
    /\ \A c \in Callers : at[c] # "idle" => partner[c] \in Partners
    /\ \A c \in Callers : at[c] = "create" => <<partner[c], config[c]>> \in configured
    /\ \A x \in Pairs : refreshing[x] > 0 => x \in configured

LEMMA Stored ==
    ASSUME AccountsTypeOK, NEW c \in Configs
    PROVE  Entry(c, clock + Session - ExpiryLead) \in Entries
  <1>1. clock + Session - ExpiryLead \in Int
    BY DEF AccountsTypeOK
  <1> QED
    BY <1>1 DEF Entry, Entries

LEMMA Empty == NoEntry \in Entries
  BY DEF Entries

\* The variables of the application.
AppOK ==
    /\ accounts \in [Partners -> Configs \cup {Nobody}]
    /\ cache \in [Partners -> Entries]
    /\ at \in [Callers -> {"idle", "lookup", "create", "evict"}]
    /\ partner \in [Callers -> Partners \cup {Nobody}]
    /\ config \in [Callers -> Configs \cup {Nobody}]
    /\ answer \in [Callers -> Configs \cup {Nobody}]
    /\ configured \subseteq Pairs /\ removed \subseteq Partners

LEMMA CallKnown ==
    ASSUME AccountsTypeOK, Known, NEW c \in Callers, Call(c)
    PROVE  AccountsTypeOK' /\ Known'
  <1>1. UNCHANGED <<clock, background>>
    BY DEF Call, PartnerCached, PartnerMissed, PartnerLookup, PartnerCreated, PartnerFailed,
           AddPartner, RemovePartner, Evict
  <1>2. UNCHANGED <<clock, ticked, refresher, now, visit, refreshing, stopped, failures>>
    BY <1>1 DEF background
  <1>3. AppOK
    BY DEF AccountsTypeOK, AppOK
  <1> SUFFICES AppOK' /\ Known'
    BY <1>2 DEF AccountsTypeOK, AppOK
  <1> USE <1>2, <1>3
  <1>4. ASSUME NEW p \in Partners, PartnerCached(c, p) PROVE AppOK' /\ Known'
    <2>1. cache[p].config \in Configs
      BY <1>4 DEF PartnerCached, Known, AppOK, Pairs, Cached
    <2> QED
      BY <1>4, <2>1 DEF PartnerCached, Return, AppOK, Known, Cached, history
  <1>5. ASSUME NEW p \in Partners, PartnerMissed(c, p) PROVE AppOK' /\ Known'
    BY <1>5 DEF PartnerMissed, AppOK, Known, Cached, history
  <1>6. CASE PartnerLookup(c)
    BY <1>6 DEF PartnerLookup, Return, AppOK, Known, Cached, history
  <1>7. CASE PartnerCreated(c)
    <2>1. config[c] \in Configs /\ partner[c] \in Partners
      BY <1>7 DEF PartnerCreated, Known, AppOK, Pairs
    <2>2. PICK e \in Entries : e = Entry(config[c], clock + Session - ExpiryLead)
      BY <2>1, Stored
    <2>3. cache' = [cache EXCEPT ![partner[c]] = e] /\ e.config = config[c]
      BY <1>7, <2>2 DEF PartnerCreated, Store, Entry
    <2>4. UNCHANGED <<accounts, configured, removed>> /\ Return(c, config[c])
      BY <1>7 DEF PartnerCreated, history
    <2>5. AppOK'
      BY <2>1, <2>3, <2>4 DEF Return, AppOK
    <2> QED
      BY <1>7, <2>1, <2>3, <2>4, <2>5 DEF PartnerCreated, Return, AppOK, Known, Cached
  <1>8. CASE PartnerFailed(c)
    BY <1>8 DEF PartnerFailed, Return, AppOK, Known, Cached, history
  <1>9. ASSUME NEW p \in Partners, NEW cfg \in Configs, AddPartner(c, p, cfg) PROVE AppOK' /\ Known'
    BY <1>9 DEF AddPartner, AppOK, Known, Cached, app, Pairs
  <1>10. ASSUME NEW p \in Partners, RemovePartner(c, p) PROVE AppOK' /\ Known'
    BY <1>10 DEF RemovePartner, AppOK, Known, Cached, history
  <1>11. CASE Evict(c)
    BY <1>11, Empty DEF Evict, Return, AppOK, Known, Cached
  <1> QED
    BY <1>4, <1>5, <1>6, <1>7, <1>8, <1>9, <1>10, <1>11 DEF Call

LEMMA RefresherKnown ==
    ASSUME AccountsTypeOK, Known, Refresher
    PROVE  AccountsTypeOK' /\ Known'
  <1>1. CASE RefreshStart
    BY <1>1 DEF RefreshStart, AccountsTypeOK, Known, Cached, app, history
  <1>2. ASSUME NEW p \in Partners, RefreshVisit(p) PROVE AccountsTypeOK' /\ Known'
    <2>1. CASE Cached(p) /\ renewalDue(cache[p])
      <3>1. PICK x : x = <<p, cache[p].config>>
        OBVIOUS
      <3>2. x \in configured /\ x \in Pairs
        BY <2>1, <3>1 DEF Known, AccountsTypeOK
      <3>3. refreshing[x] < MaxRefreshes /\ refreshing' = [refreshing EXCEPT ![x] = @ + 1]
        BY <1>2, <2>1, <3>1 DEF RefreshVisit, refreshKey
      <3>4. refreshing' \in [Pairs -> 0..MaxRefreshes]
        BY <3>2, <3>3 DEF AccountsTypeOK
      <3> QED
        BY <1>2, <3>2, <3>3, <3>4 DEF RefreshVisit, AccountsTypeOK, Known, Cached, app, history
    <2>2. CASE ~(Cached(p) /\ renewalDue(cache[p]))
      BY <1>2, <2>2 DEF RefreshVisit, AccountsTypeOK, Known, Cached, app, history
    <2> QED
      BY <2>1, <2>2
  <1>3. CASE RefreshEnd
    BY <1>3 DEF RefreshEnd, AccountsTypeOK, Known, Cached, app, history
  <1>4. CASE RefreshExit
    BY <1>4 DEF RefreshExit, AccountsTypeOK, Known, Cached, app, history
  <1> QED
    BY <1>1, <1>2, <1>3, <1>4 DEF Refresher

LEMMA RefreshKnown ==
    ASSUME AccountsTypeOK, Known, NEW x \in Pairs, Refresh(x)
    PROVE  AccountsTypeOK' /\ Known'
  <1>1. /\ refreshing[x] > 0 /\ refreshing' = [refreshing EXCEPT ![x] = @ - 1]
        /\ UNCHANGED <<clock, accounts, app, ticked, refresher, now, visit, stopped, history>>
    BY DEF Refresh, Refreshed, RefreshFailed
  <1>2. refreshing' \in [Pairs -> 0..MaxRefreshes]
    BY <1>1 DEF AccountsTypeOK
  <1>3. CASE Refreshed(x)
    <2>1. x[1] \in Partners /\ x[2] \in Configs /\ x = <<x[1], x[2]>>
      BY DEF Pairs
    <2>2. PICK e \in Entries : e = Entry(x[2], clock + Session - ExpiryLead)
      BY <2>1, Stored
    <2>3. cache' = [cache EXCEPT ![x[1]] = e] /\ e.config = x[2] /\ UNCHANGED failures
      BY <1>3, <2>2 DEF Refreshed, Store, Entry
    <2>4. cache' \in [Partners -> Entries]
      BY <2>1, <2>3 DEF AccountsTypeOK
    <2>5. x \in configured
      BY <1>1 DEF Known
    <2>6. AccountsTypeOK'
      BY <1>1, <1>2, <2>3, <2>4 DEF AccountsTypeOK, app, history
    <2>7. ASSUME NEW p \in Partners, Cached(p)' PROVE <<p, cache'[p].config>> \in configured'
      <3>1. cache'[p] = IF p = x[1] THEN e ELSE cache[p]
        BY <2>1, <2>3 DEF AccountsTypeOK
      <3>2. CASE p = x[1]
        BY <1>1, <2>1, <2>3, <2>5, <3>1, <3>2 DEF history
      <3>3. CASE p # x[1]
        BY <1>1, <2>7, <3>1, <3>3 DEF Known, Cached, history
      <3> QED
        BY <3>2, <3>3
    <2> QED
      BY <1>1, <2>6, <2>7 DEF AccountsTypeOK, Known, app, history
  <1>4. CASE RefreshFailed(x)
    <2>1. UNCHANGED cache /\ failures' \in 0..MaxFailures
      BY <1>4 DEF RefreshFailed, AccountsTypeOK
    <2> QED
      BY <1>1, <1>2, <2>1 DEF AccountsTypeOK, Known, Cached, app, history
  <1> QED
    BY <1>3, <1>4 DEF Refresh

LEMMA OtherKnown ==
    ASSUME AccountsTypeOK, Known, Close \/ Minute
    PROVE  AccountsTypeOK' /\ Known'
  <1>1. CASE Close
    BY <1>1 DEF Close, AccountsTypeOK, Known, Cached, app, history
  <1>2. CASE Minute
    <2>1. clock' \in 0..MaxClock /\ ticked' \in BOOLEAN
      BY <1>2 DEF Minute, AccountsTypeOK
    <2> QED
      BY <1>2, <2>1 DEF Minute, AccountsTypeOK, Known, Cached, app, history
  <1> QED
    BY <1>1, <1>2

-----------------------------------------------------------------------------
(* Time: ticks come at the multiples of RefreshPeriod.                     *)

LastTick(t) == t - (t % RefreshPeriod)

\* How long refreshes may still fail.
Need(f) == (MaxFailures - f) * RefreshPeriod

\* At time t, after f failures, an entry that expires at e may wait for the
\* next tick; it may not, but the last tick is still being worked on.
CanWait(e, t, f) == LastTick(t) + Need(f) + RefreshPeriod <= e
InTime(e, t, f) == LastTick(t) + Need(f) <= e

LEMMA Division ==
    ASSUME NEW t \in Nat
    PROVE  /\ t = RefreshPeriod * (t \div RefreshPeriod) + (t % RefreshPeriod)
           /\ t \div RefreshPeriod \in Int
           /\ t % RefreshPeriod \in 0..RefreshPeriod - 1
  OBVIOUS

LEMMA OneRemainder ==
    ASSUME NEW q \in Int, NEW r \in 0..RefreshPeriod - 1,
           NEW u \in Int, NEW v \in 0..RefreshPeriod - 1,
           RefreshPeriod * q + r = RefreshPeriod * u + v
    PROVE  r = v
  OBVIOUS

LEMMA NextRemainder ==
    ASSUME NEW t \in Nat
    PROVE  (t + 1) % RefreshPeriod = IF t % RefreshPeriod = RefreshPeriod - 1
                                     THEN 0 ELSE (t % RefreshPeriod) + 1
  <1>1. PICK q \in Int, r \in 0..RefreshPeriod - 1 : q = t \div RefreshPeriod /\ r = t % RefreshPeriod
    BY Division
  <1>2. t + 1 \in Nat
    OBVIOUS
  <1>3. PICK u \in Int, v \in 0..RefreshPeriod - 1 :
           u = (t + 1) \div RefreshPeriod /\ v = (t + 1) % RefreshPeriod
    BY <1>2, Division
  <1>4. t = RefreshPeriod * q + r /\ t + 1 = RefreshPeriod * u + v
    BY <1>1, <1>2, <1>3, Division
  <1>5. CASE r = RefreshPeriod - 1
    <2>1. RefreshPeriod * (q + 1) + 0 = RefreshPeriod * u + v
      BY <1>4, <1>5
    <2>2. 0 \in 0..RefreshPeriod - 1 /\ q + 1 \in Int
      OBVIOUS
    <2> QED
      BY <1>1, <1>3, <1>5, <2>1, <2>2, OneRemainder
  <1>6. CASE r # RefreshPeriod - 1
    <2>1. RefreshPeriod * q + (r + 1) = RefreshPeriod * u + v /\ r + 1 \in 0..RefreshPeriod - 1
      BY <1>4, <1>6
    <2> QED
      BY <1>1, <1>3, <1>6, <2>1, OneRemainder
  <1> QED
    BY <1>5, <1>6

LEMMA Ticks ==
    ASSUME NEW t \in Nat
    PROVE  /\ LastTick(t) \in Nat /\ LastTick(t) <= t /\ t < LastTick(t) + RefreshPeriod
           /\ t % RefreshPeriod = 0 => LastTick(t) = t
           /\ LastTick(t + 1) = IF (t + 1) % RefreshPeriod = 0 THEN LastTick(t) + RefreshPeriod
                                ELSE LastTick(t)
  <1>1. PICK r \in 0..RefreshPeriod - 1 : r = t % RefreshPeriod
    BY Division
  <1>2. PICK v : v = (t + 1) % RefreshPeriod /\ v = IF r = RefreshPeriod - 1 THEN 0 ELSE r + 1
    BY <1>1, NextRemainder
  <1>3. LastTick(t) = t - r /\ LastTick(t + 1) = (t + 1) - v
    BY <1>1, <1>2 DEF LastTick
  <1>4. t - r \in Nat
    <2>1. PICK q \in Int : t = RefreshPeriod * q + r
      BY <1>1, Division
    <2>2. q >= 0
      BY <2>1
    <2> QED
      BY <2>1, <2>2
  <1> QED
    BY <1>1, <1>2, <1>3, <1>4

LEMMA Needs ==
    ASSUME NEW f \in 0..MaxFailures
    PROVE  /\ Need(f) \in Nat
           /\ Need(f) + RefreshPeriod <= RefreshLead
           /\ Need(f) + RefreshPeriod <= Session - ExpiryLead
           /\ f < MaxFailures => Need(f) = Need(f + 1) + RefreshPeriod
  <1>1. (MaxFailures - f) * RefreshPeriod \in Nat
    OBVIOUS
  <1>2. (MaxFailures - f) * RefreshPeriod + RefreshPeriod <= (MaxFailures + 1) * RefreshPeriod
    OBVIOUS
  <1>3. (MaxFailures - f) * RefreshPeriod = (MaxFailures - (f + 1)) * RefreshPeriod + RefreshPeriod
    OBVIOUS
  <1>4. PICK n \in Nat : n = (MaxFailures - f) * RefreshPeriod
    BY <1>1
  <1>5. PICK k \in Int : k = (MaxFailures + 1) * RefreshPeriod
    OBVIOUS
  <1>6. n + RefreshPeriod <= RefreshLead /\ n + RefreshPeriod <= Session - ExpiryLead
    <2>1. k <= RefreshLead /\ k <= Session - ExpiryLead
      BY <1>5, RefreshMargin
    <2>2. n + RefreshPeriod <= k
      BY <1>2, <1>4, <1>5
    <2> QED
      BY <2>1, <2>2
  <1> QED
    BY <1>3, <1>4, <1>6 DEF Need

LEMMA Waiting ==
    ASSUME NEW e \in Int, NEW t \in Nat, NEW f \in 0..MaxFailures
    PROVE  /\ CanWait(t + Session - ExpiryLead, t, f)
           /\ CanWait(e, t, f) => InTime(e, t, f) /\ t <= e
           /\ InTime(e, t, f) /\ t % RefreshPeriod = 0 => t <= e
           /\ InTime(e, t, f) /\ f < MaxFailures => CanWait(e, t, f + 1)
           /\ t % RefreshPeriod = 0 /\ t <= e - RefreshLead => CanWait(e, t, f)
           /\ CanWait(e, t, f) => IF (t + 1) % RefreshPeriod = 0 THEN InTime(e, t + 1, f)
                                  ELSE CanWait(e, t + 1, f)
  <1>1. PICK a \in Nat : a = LastTick(t)
    BY Ticks
  <1>2. PICK n \in Nat : n = Need(f)
    BY Needs
  <1>3. /\ a <= t /\ t < a + RefreshPeriod /\ (t % RefreshPeriod = 0 => a = t)
        /\ LastTick(t + 1) = IF (t + 1) % RefreshPeriod = 0 THEN a + RefreshPeriod ELSE a
    BY <1>1, Ticks
  <1>4. /\ n + RefreshPeriod <= RefreshLead /\ n + RefreshPeriod <= Session - ExpiryLead
        /\ f < MaxFailures => Need(f + 1) = n - RefreshPeriod
    <2>1. f < MaxFailures => Need(f + 1) \in Nat
      BY Needs
    <2> QED
      BY <1>2, <2>1, Needs
  <1>5. CanWait(t + Session - ExpiryLead, t, f)
    BY <1>1, <1>2, <1>3, <1>4 DEF CanWait
  <1>6. CanWait(e, t, f) => InTime(e, t, f) /\ t <= e
    BY <1>1, <1>2, <1>3 DEF CanWait, InTime
  <1>7. InTime(e, t, f) /\ t % RefreshPeriod = 0 => t <= e
    BY <1>1, <1>2, <1>3 DEF InTime
  <1>8. InTime(e, t, f) /\ f < MaxFailures => CanWait(e, t, f + 1)
    BY <1>1, <1>2, <1>4 DEF CanWait, InTime
  <1>9. t % RefreshPeriod = 0 /\ t <= e - RefreshLead => CanWait(e, t, f)
    BY <1>1, <1>2, <1>3, <1>4 DEF CanWait
  <1>10. CanWait(e, t, f) => IF (t + 1) % RefreshPeriod = 0 THEN InTime(e, t + 1, f)
                             ELSE CanWait(e, t + 1, f)
    BY <1>1, <1>2, <1>3 DEF CanWait, InTime
  <1> QED
    BY <1>5, <1>6, <1>7, <1>8, <1>9, <1>10

-----------------------------------------------------------------------------
(* Renewal.                                                                *)

\* The last tick is still being worked on, for partner p.
Pending(p) ==
    \/ ticked
    \/ refresher = "ranging" /\ p \in visit
    \/ \E cfg \in Configs : refreshing[<<p, cfg>>] > 0

\* Until Close, what a tick starts is done when the clock goes on, and an
\* entry that cannot wait for the next tick is seen to at this one.
Timely ==
    ~stopped =>
        /\ refresher # "gone"
        /\ ticked => refresher = "waiting"
        /\ ticked \/ refresher = "ranging" \/ (\E x \in Pairs : refreshing[x] > 0) =>
              clock % RefreshPeriod = 0
        /\ refresher = "ranging" => now = clock
        /\ \A p \in Partners : Cached(p) =>
              \/ CanWait(cache[p].expiry, clock, failures)
              \/ Pending(p) /\ InTime(cache[p].expiry, clock, failures)

PartnersInv == AccountsTypeOK /\ Known /\ Timely

LEMMA ExpiryType ==
    ASSUME AccountsTypeOK, NEW p \in Partners
    PROVE  cache[p].expiry \in Int /\ clock \in Nat /\ failures \in 0..MaxFailures
  <1>1. cache[p] \in Entries
    BY DEF AccountsTypeOK
  <1> QED
    BY <1>1 DEF AccountsTypeOK, Entries, NoEntry, Entry

\* A step that leaves the clock and the background work: what it does to the
\* cache is to remove entries or to make new ones.
LEMMA CallTimely ==
    ASSUME AccountsTypeOK, Timely, NEW c \in Callers, Known, Call(c)
    PROVE  Timely'
  <1>1. UNCHANGED <<clock, background>>
    BY DEF Call, PartnerCached, PartnerMissed, PartnerLookup, PartnerCreated, PartnerFailed,
           AddPartner, RemovePartner, Evict
  <1>2. UNCHANGED <<clock, ticked, refresher, now, visit, refreshing, stopped, failures>>
    BY <1>1 DEF background
  <1>3. \/ UNCHANGED cache
        \/ \E e : /\ cache' = [cache EXCEPT ![partner[c]] = e]
                  /\ e = NoEntry \/ e.expiry = clock + Session - ExpiryLead
    <2>1. CASE PartnerCreated(c)
      <3>1. PICK e : e = Entry(config[c], clock + Session - ExpiryLead)
        OBVIOUS
      <3>2. e.expiry = clock + Session - ExpiryLead /\ cache' = [cache EXCEPT ![partner[c]] = e]
        BY <2>1, <3>1 DEF PartnerCreated, Store, Entry
      <3> QED
        BY <3>2
    <2>2. CASE Evict(c)
      BY <2>2 DEF Evict
    <2>3. CASE ~PartnerCreated(c) /\ ~Evict(c)
      BY <2>3 DEF Call, PartnerCached, PartnerMissed, PartnerLookup, PartnerFailed, AddPartner,
                  RemovePartner
    <2> QED
      BY <2>1, <2>2, <2>3
  <1>4. ASSUME NEW p \in Partners
        PROVE  \/ cache'[p] = cache[p]
               \/ cache'[p] = NoEntry
               \/ cache'[p].expiry = clock + Session - ExpiryLead
    BY <1>3 DEF AccountsTypeOK
  <1>5. ASSUME NEW p \in Partners, Cached(p)', ~stopped
        PROVE  \/ CanWait(cache'[p].expiry, clock, failures)
               \/ Pending(p) /\ InTime(cache'[p].expiry, clock, failures)
    <2>1. CASE cache'[p] = cache[p]
      BY <1>5, <2>1 DEF Timely, Cached
    <2>2. CASE cache'[p].expiry = clock + Session - ExpiryLead
      BY <2>2, ExpiryType, Waiting
    <2> QED
      BY <1>4, <1>5, <2>1, <2>2 DEF Cached
  <1>6. ASSUME NEW p \in Partners PROVE Pending(p)' <=> Pending(p)
    BY <1>2 DEF Pending
  <1> QED
    BY <1>2, <1>5, <1>6 DEF Timely

LEMMA RefresherTimely ==
    ASSUME AccountsTypeOK, Known, Timely, Refresher
    PROVE  Timely'
  <1>1. CASE RefreshStart
    <2>1. /\ ticked /\ refresher' = "ranging" /\ now' = clock /\ visit' = Partners /\ ~ticked'
          /\ UNCHANGED <<clock, cache, refreshing, stopped, failures>>
      BY <1>1 DEF RefreshStart
    <2> QED
      BY <2>1 DEF Timely, Pending, Cached
  <1>2. ASSUME NEW p \in Partners, RefreshVisit(p), ~stopped PROVE Timely'
    <2>1. /\ refresher = "ranging" /\ visit' = visit \ {p}
          /\ UNCHANGED <<clock, cache, ticked, refresher, now, stopped, failures>>
      BY <1>2 DEF RefreshVisit
    <2>2. clock % RefreshPeriod = 0 /\ now = clock /\ ~ticked
      BY <1>2, <2>1 DEF Timely
    <2>3. ASSUME NEW x \in Pairs, refreshing[x] > 0 PROVE refreshing'[x] > 0
      <3>1. CASE UNCHANGED refreshing
        BY <2>3, <3>1
      <3>2. CASE \E y : refreshing' = [refreshing EXCEPT ![y] = @ + 1]
        BY <2>3, <3>2 DEF AccountsTypeOK
      <3> QED
        BY <1>2, <3>1, <3>2 DEF RefreshVisit
    <2>4. ASSUME NEW q \in Partners, Cached(q)
          PROVE  \/ CanWait(cache[q].expiry, clock, failures)
                 \/ Pending(q)' /\ InTime(cache[q].expiry, clock, failures)
      <3>1. CASE q # p
        <4>1. Pending(q) => Pending(q)'
          BY <2>1, <2>3, <3>1 DEF Pending, Pairs
        <4> QED
          BY <1>2, <2>4, <4>1 DEF Timely
      <3>2. CASE q = p /\ renewalDue(cache[p])
        <4>1. PICK cfg : cfg = cache[p].config
          OBVIOUS
        <4>2. <<p, cfg>> \in Pairs /\ cfg \in Configs
          BY <2>4, <3>2, <4>1 DEF Known, AccountsTypeOK, Pairs
        <4>3. refreshing' = [refreshing EXCEPT ![<<p, cfg>>] = @ + 1]
          BY <1>2, <2>4, <3>2, <4>1 DEF RefreshVisit, refreshKey
        <4>4. refreshing'[<<p, cfg>>] > 0
          BY <4>2, <4>3 DEF AccountsTypeOK
        <4>5. Pending(q)'
          BY <3>2, <4>2, <4>4 DEF Pending
        <4>6. InTime(cache[q].expiry, clock, failures)
          BY <1>2, <2>4, ExpiryType, Waiting DEF Timely
        <4> QED
          BY <4>5, <4>6
      <3>3. CASE q = p /\ ~renewalDue(cache[p])
        <4>1. cache[p].expiry \in Int /\ clock \in Nat /\ failures \in 0..MaxFailures
          BY ExpiryType
        <4>2. clock <= cache[p].expiry - RefreshLead
          BY <2>2, <3>3, <4>1 DEF renewalDue
        <4> QED
          BY <2>2, <3>3, <4>1, <4>2, Waiting
      <3> QED
        BY <3>1, <3>2, <3>3
    <2> QED
      BY <1>2, <2>1, <2>2, <2>4 DEF Timely, Cached
  <1>3. CASE RefreshEnd
    <2>1. /\ refresher = "ranging" /\ visit = {} /\ refresher' = "waiting"
          /\ UNCHANGED <<clock, cache, ticked, visit, refreshing, stopped, failures>>
      BY <1>3 DEF RefreshEnd
    <2> QED
      BY <2>1 DEF Timely, Pending, Cached
  <1>4. CASE RefreshExit
    BY <1>4 DEF RefreshExit, RefreshStop, Timely
  <1>5. CASE stopped
    BY <1>5 DEF Refresher, RefreshStart, RefreshVisit, RefreshEnd, RefreshExit, Timely
  <1> QED
    BY <1>1, <1>2, <1>3, <1>4, <1>5 DEF Refresher

LEMMA RefreshTimely ==
    ASSUME AccountsTypeOK, Timely, NEW x \in Pairs, Refresh(x), ~stopped
    PROVE  Timely'
  <1>1. /\ refreshing[x] > 0 /\ refreshing' = [refreshing EXCEPT ![x] = @ - 1]
        /\ UNCHANGED <<clock, ticked, refresher, now, visit, stopped>>
    BY DEF Refresh, Refreshed, RefreshFailed
  <1>2. clock % RefreshPeriod = 0
    BY <1>1 DEF Timely
  <1>3. ASSUME NEW y \in Pairs, y # x PROVE refreshing'[y] = refreshing[y]
    BY <1>1, <1>3 DEF AccountsTypeOK
  <1>4. PICK p \in Partners, cfg \in Configs : x = <<p, cfg>>
    BY DEF Pairs
  <1>5. ASSUME NEW q \in Partners, q # p PROVE Pending(q) => Pending(q)'
    <2>1. ASSUME NEW d \in Configs PROVE refreshing'[<<q, d>>] = refreshing[<<q, d>>]
      BY <1>3, <1>4, <1>5 DEF Pairs
    <2> QED
      BY <1>1, <2>1 DEF Pending
  <1>6. ASSUME NEW q \in Partners, Cached(q)'
        PROVE  \/ CanWait(cache'[q].expiry, clock, failures')
               \/ Pending(q)' /\ InTime(cache'[q].expiry, clock, failures')
    <2>1. CASE Refreshed(x)
      <3>1. PICK e : e = Entry(cfg, clock + Session - ExpiryLead)
        OBVIOUS
      <3>2. /\ cache' = [cache EXCEPT ![p] = e] /\ UNCHANGED failures
            /\ e.expiry = clock + Session - ExpiryLead
        BY <1>4, <2>1, <3>1 DEF Refreshed, Store, Entry
      <3>3. CASE q = p
        BY <3>2, <3>3, ExpiryType, Waiting DEF AccountsTypeOK
      <3>4. CASE q # p
        <4>1. cache'[q] = cache[q]
          BY <3>2, <3>4 DEF AccountsTypeOK
        <4> QED
          BY <1>5, <1>6, <3>2, <3>4, <4>1 DEF Timely, Cached
      <3> QED
        BY <3>3, <3>4
    <2>2. CASE RefreshFailed(x)
      <3>1. failures < MaxFailures /\ failures' = failures + 1 /\ UNCHANGED cache
        BY <2>2 DEF RefreshFailed
      <3>2. cache[q].expiry \in Int /\ clock \in Nat /\ failures \in 0..MaxFailures
        BY ExpiryType
      <3>3. InTime(cache[q].expiry, clock, failures)
        BY <1>6, <3>1, <3>2, Waiting DEF Timely, Cached
      <3>4. CanWait(cache[q].expiry, clock, failures + 1)
        BY <3>1, <3>2, <3>3, Waiting
      <3> QED
        BY <3>1, <3>4
    <2> QED
      BY <2>1, <2>2 DEF Refresh
  <1> QED
    BY <1>1, <1>2, <1>6 DEF Timely

LEMMA MinuteTimely ==
    ASSUME AccountsTypeOK, Timely, Minute, ~stopped
    PROVE  Timely'
  <1>1. /\ refresher = "waiting" /\ ~ticked /\ (\A x \in Pairs : refreshing[x] = 0)
        /\ clock' = clock + 1
        /\ UNCHANGED <<cache, refresher, now, visit, refreshing, stopped, failures>>
    BY DEF Minute, AccountsTypeOK, Timely
  <1>2. ticked' <=> (clock + 1) % RefreshPeriod = 0
    BY <1>1 DEF Minute
  <1>3. ASSUME NEW p \in Partners, Cached(p)
        PROVE  \/ CanWait(cache[p].expiry, clock + 1, failures)
               \/ ticked' /\ InTime(cache[p].expiry, clock + 1, failures)
    <2>1. cache[p].expiry \in Int /\ clock \in Nat /\ failures \in 0..MaxFailures
      BY ExpiryType
    <2>2. ~Pending(p)
      <3>1. ASSUME NEW cfg \in Configs PROVE ~(refreshing[<<p, cfg>>] > 0)
        BY <1>1 DEF Pairs
      <3> QED
        BY <1>1, <3>1 DEF Pending
    <2>3. CanWait(cache[p].expiry, clock, failures)
      BY <1>3, <2>2 DEF Timely
    <2> QED
      BY <1>2, <2>1, <2>3, Waiting
  <1> QED
    BY <1>1, <1>2, <1>3 DEF Timely, Pending, Cached

LEMMA PartnersNext ==
    ASSUME PartnersInv, AccountsNext
    PROVE  PartnersInv'
  <1>1. AccountsTypeOK' /\ Known'
    BY CallKnown, RefresherKnown, RefreshKnown, OtherKnown DEF PartnersInv, AccountsNext
  <1>2. stopped => stopped'
    BY DEF AccountsNext, Call, PartnerCached, PartnerMissed, PartnerLookup, PartnerCreated, PartnerFailed,
           AddPartner, RemovePartner, Evict, background, Refresher, RefreshStart, RefreshVisit,
           RefreshEnd, RefreshExit, Refresh, Refreshed, RefreshFailed, Close, Minute
  <1>3. Timely'
    <2>1. CASE stopped'
      BY <2>1 DEF Timely
    <2>2. CASE ~stopped /\ ~stopped'
      BY <2>2, CallTimely, RefresherTimely, RefreshTimely, MinuteTimely
         DEF PartnersInv, AccountsNext, Close
    <2> QED
      BY <1>2, <2>1, <2>2
  <1> QED
    BY <1>1, <1>3 DEF PartnersInv

LEMMA PartnersInit == AccountsInit => PartnersInv
  <1> SUFFICES ASSUME AccountsInit PROVE PartnersInv
    OBVIOUS
  <1>1. ~\E p \in Partners : Cached(p)
    BY DEF AccountsInit, Cached
  <1>2. cache \in [Partners -> Entries]
    BY Empty DEF AccountsInit
  <1>3. AccountsTypeOK
    <2>1. configured \subseteq Pairs /\ refreshing \in [Pairs -> 0..MaxRefreshes]
      BY DEF AccountsInit
    <2>2. /\ accounts \in [Partners -> Configs \cup {Nobody}]
          /\ at \in [Callers -> {"idle", "lookup", "create", "evict"}]
          /\ partner \in [Callers -> Partners \cup {Nobody}]
          /\ config \in [Callers -> Configs \cup {Nobody}]
          /\ answer \in [Callers -> Configs \cup {Nobody}]
      BY DEF AccountsInit
    <2>3. /\ clock \in 0..MaxClock /\ now \in 0..MaxClock /\ failures \in 0..MaxFailures
          /\ ticked \in BOOLEAN /\ stopped \in BOOLEAN
          /\ refresher \in {"waiting", "ranging", "gone"}
          /\ visit \subseteq Partners /\ removed \subseteq Partners
      <3>1. /\ clock = 0 /\ now = 0 /\ failures = 0 /\ ticked = FALSE /\ stopped = FALSE
            /\ refresher = "waiting" /\ visit = {} /\ removed = {}
        BY DEF AccountsInit
      <3>2. clock \in 0..MaxClock /\ now \in 0..MaxClock /\ failures \in 0..MaxFailures
        BY <3>1
      <3>3. ticked \in BOOLEAN /\ stopped \in BOOLEAN
        BY <3>1
      <3>4. /\ refresher \in {"waiting", "ranging", "gone"}
            /\ visit \subseteq Partners /\ removed \subseteq Partners
        BY <3>1
      <3> QED
        BY <3>2, <3>3, <3>4
    <2> QED
      BY <1>2, <2>1, <2>2, <2>3 DEF AccountsTypeOK
  <1>4. Known
    BY <1>1 DEF AccountsInit, Known, Pairs
  <1>5. Timely
    BY <1>1 DEF AccountsInit, Timely
  <1> QED
    BY <1>3, <1>4, <1>5 DEF PartnersInv

LEMMA PartnersFresh == PartnersInv => StaysFresh
  <1> SUFFICES ASSUME PartnersInv PROVE StaysFresh
    OBVIOUS
  <1>1. ASSUME NEW p \in Partners, Cached(p), ~stopped PROVE ~isExpired(cache[p])
    <2>1. cache[p].expiry \in Int /\ clock \in Nat /\ failures \in 0..MaxFailures
      BY ExpiryType DEF PartnersInv
    <2>2. CASE CanWait(cache[p].expiry, clock, failures)
      <3>1. clock <= cache[p].expiry
        BY <2>1, <2>2, Waiting
      <3> QED
        BY <2>1, <3>1 DEF isExpired
    <2>3. CASE Pending(p) /\ InTime(cache[p].expiry, clock, failures)
      <3>1. clock % RefreshPeriod = 0
        BY <1>1, <2>3 DEF PartnersInv, Timely, Pending, Pairs
      <3>2. clock <= cache[p].expiry
        BY <2>1, <2>3, <3>1, Waiting
      <3> QED
        BY <2>1, <3>2 DEF isExpired
    <2> QED
      BY <1>1, <2>2, <2>3 DEF PartnersInv, Timely
  <1> QED
    BY <1>1 DEF PartnersInv, Known, StaysFresh

-----------------------------------------------------------------------------
(* Both together.                                                          *)

IInv == PartnersInv /\ OnceInv

LEMMA Invariance == ConnectionsSpec => []IInv
  <1>1. ConnectionsInit => IInv
    BY PartnersInit, OnceInit DEF ConnectionsInit, IInv
  <1>2. IInv /\ [ConnectionsNext]_all => IInv'
    <2> SUFFICES ASSUME IInv, [ConnectionsNext]_all PROVE IInv'
      OBVIOUS
    <2>1. ASSUME UNCHANGED accountVars PROVE PartnersInv'
      BY <2>1 DEF IInv, PartnersInv, AccountsTypeOK, Known, Timely, Pending, Cached, accountVars
    <2>2. ASSUME UNCHANGED lambdaVars PROVE OnceInv'
      BY <2>2 DEF IInv, OnceInv, L!TypeOK, lambdaVars
    <2>3. CASE Starting(L!Next)
      BY <2>1, <2>3, OnceNext DEF IInv, Starting
    <2>4. CASE Connecting(AccountsNext)
      BY <2>2, <2>4, PartnersNext DEF IInv, Connecting
    <2>5. CASE UNCHANGED all
      BY <2>1, <2>2, <2>5 DEF IInv, all
    <2> QED
      BY <2>3, <2>4, <2>5 DEF ConnectionsNext
  <1> QED
    BY <1>1, <1>2, PTL DEF ConnectionsSpec

(***************************************************************************)
(* A partner's connection is made from a configuration that this partner   *)
(* had, whoever adds and removes partners in between, and while the        *)
(* background goroutine runs it is renewed before it expires, as long as   *)
(* no more refreshes fail than the intervals of the code make good.        *)
(***************************************************************************)
THEOREM Freshness == ConnectionsSpec => []StaysFresh
  <1>1. IInv => StaysFresh
    BY PartnersFresh DEF IInv
  <1> QED
    BY <1>1, Invariance, PTL

(***************************************************************************)
(* Calls of NewLambdaOptimized and LambdaInit, cold or warm and however    *)
(* they overlap, make one session and answer with it.                      *)
(***************************************************************************)
THEOREM OneSession == ConnectionsSpec => []Singleton
  <1>1. IInv => Singleton
    BY OnceSingleton DEF IInv
  <1> QED
    BY <1>1, Invariance, PTL
==============================================================================
