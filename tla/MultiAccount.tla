---------------------------- MODULE MultiAccount ----------------------------
(***************************************************************************)
(* multiaccount.go: MultiAccountDB keeps one connection per partner        *)
(* account in a cache, made on demand by Partner and renewed in the        *)
(* background by a goroutine that wakes up at every tick of a ticker.      *)
(* Callers run Partner, AddPartner and RemovePartner concurrently; mu      *)
(* guards `accounts' alone, and is held for one access at a time.          *)
(*                                                                         *)
(* A connection is the account configuration it was made from and its      *)
(* expiry.  Time is in minutes.                                            *)
(***************************************************************************)
EXTENDS Integers

CONSTANTS
    Partners, Configs, Callers,
    Nobody,        \* no configuration, no connection, no partner
    Session,       \* SessionDuration of every account, in minutes
    RefreshPeriod, \* 5 in the code: the ticker
    ExpiryLead,    \* 5 in the code: an entry expires that long before its session
    RefreshLead,   \* 10 in the code: an entry is renewed that long before it expires
    MaxClock,      \* bound: the last minute
    MaxFailures,   \* bound: how often a refresh fails
    MaxRefreshes   \* bound: refreshes of one entry under way at a time

ASSUME MultiAccountAssumption ==
    /\ Nobody \notin Partners \cup Configs
    /\ Session \in Nat /\ RefreshPeriod \in Nat \ {0}
    /\ ExpiryLead \in Nat /\ RefreshLead \in Nat
    /\ MaxClock \in Nat /\ MaxFailures \in Nat /\ MaxRefreshes \in Nat

\* What the intervals of the code leave room for: it makes one failed refresh
\* good, with 5 + 5 <= 10 minutes and a session of at least 15.
ASSUME RefreshMargin ==
    /\ (MaxFailures + 1) * RefreshPeriod <= RefreshLead
    /\ (MaxFailures + 1) * RefreshPeriod <= Session - ExpiryLead

VARIABLES
    clock,
    accounts,   \* partner -> configuration, or None
    cache,      \* partner -> connection, or NoEntry
    at, partner, config, \* per caller: place, argument and local `account'
    answer,     \* per caller: the configuration Partner answered with, or None
    ticked,     \* a tick waits in refreshTicker.C
    refresher,  \* the background goroutine
    now, visit, \* its locals: the time, and the partners Range has left
    refreshing, \* <<partner, configuration>> -> refresh goroutines under way
    stopped,    \* Close was called
    failures,
    configured, \* history: the configurations a partner ever had
    removed     \* history: partners removed and not added again

app        == <<at, partner, config, answer>>
background == <<ticked, refresher, now, visit, refreshing, stopped, failures>>
history    == <<configured, removed>>
accountVars == <<clock, accounts, cache, at, partner, config, answer, ticked,
                refresher, now, visit, refreshing, stopped, failures,
                configured, removed>>

Entry(c, e) == [config |-> c, expiry |-> e]
NoEntry     == Entry(Nobody, 0)
Cached(p)   == cache[p] # NoEntry

Pairs == Partners \X Configs

AccountsInit ==
    /\ clock = 0
    /\ accounts \in [Partners -> Configs \cup {Nobody}]
    /\ cache = [p \in Partners |-> NoEntry]
    /\ at = [c \in Callers |-> "idle"]
    /\ partner = [c \in Callers |-> Nobody]
    /\ config = [c \in Callers |-> Nobody]
    /\ answer = [c \in Callers |-> Nobody]
    /\ ticked = FALSE /\ refresher = "waiting" /\ now = 0 /\ visit = {}
    /\ refreshing = [x \in Pairs |-> 0]
    /\ stopped = FALSE /\ failures = 0
    /\ configured = {x \in Pairs : accounts[x[1]] = x[2]}
    /\ removed = {}

------------------------------------------------------------------------------
isExpired(e) == clock > e.expiry

\* createPartnerDB stores what it made, whatever happened meanwhile.
Store(p, c) == cache' = [cache EXCEPT ![p] = Entry(c, clock + Session - ExpiryLead)]

Return(c, a) ==
    /\ at' = [at EXCEPT ![c] = "idle"]
    /\ partner' = [partner EXCEPT ![c] = Nobody]
    /\ config' = [config EXCEPT ![c] = Nobody]
    /\ answer' = [answer EXCEPT ![c] = a]

PartnerCached(c, p) ==
    /\ at[c] = "idle"
    /\ Cached(p) /\ ~isExpired(cache[p])
    /\ Return(c, cache[p].config)
    /\ UNCHANGED <<clock, accounts, cache, background, history>>

PartnerMissed(c, p) ==
    /\ at[c] = "idle"
    /\ ~Cached(p) \/ isExpired(cache[p])
    /\ at' = [at EXCEPT ![c] = "lookup"]
    /\ partner' = [partner EXCEPT ![c] = p]
    /\ UNCHANGED <<clock, accounts, cache, config, answer, background, history>>

\* Mutation: the configuration is used without asking whether there is one.
PartnerLookupUnchecked(c) ==
    /\ at[c] = "lookup"
    /\ at' = [at EXCEPT ![c] = "create"]
    /\ config' = [config EXCEPT ![c] = accounts[partner[c]]]
    /\ UNCHANGED <<clock, accounts, cache, partner, answer, background, history>>

PartnerLookup(c) ==
    /\ at[c] = "lookup"
    /\ IF accounts[partner[c]] = Nobody THEN Return(c, Nobody)
       ELSE /\ at' = [at EXCEPT ![c] = "create"]
            /\ config' = [config EXCEPT ![c] = accounts[partner[c]]]
            /\ UNCHANGED <<partner, answer>>
    /\ UNCHANGED <<clock, accounts, cache, background, history>>

PartnerCreated(c) ==
    /\ at[c] = "create"
    /\ Store(partner[c], config[c])
    /\ Return(c, config[c])
    /\ UNCHANGED <<clock, accounts, background, history>>

PartnerFailed(c) ==
    /\ at[c] = "create"
    /\ Return(c, Nobody)
    /\ UNCHANGED <<clock, accounts, cache, background, history>>

\* The cached connection of an earlier configuration stays.
AddPartner(c, p, cfg) ==
    /\ at[c] = "idle"
    /\ accounts' = [accounts EXCEPT ![p] = cfg]
    /\ configured' = configured \cup {<<p, cfg>>}
    /\ removed' = removed \ {p}
    /\ UNCHANGED <<clock, cache, app, background>>

RemovePartner(c, p) ==
    /\ at[c] = "idle"
    /\ accounts' = [accounts EXCEPT ![p] = Nobody]
    /\ at' = [at EXCEPT ![c] = "evict"]
    /\ partner' = [partner EXCEPT ![c] = p]
    /\ UNCHANGED <<clock, cache, config, answer, background, history>>

Evict(c) ==
    /\ at[c] = "evict"
    /\ cache' = [cache EXCEPT ![partner[c]] = NoEntry]
    /\ removed' = IF accounts[partner[c]] = Nobody THEN removed \cup {partner[c]} ELSE removed
    /\ Return(c, Nobody)
    /\ UNCHANGED <<clock, accounts, background, configured>>

------------------------------------------------------------------------------
(***************************************************************************)
(* The background goroutine and the refreshes it starts.                   *)
(***************************************************************************)
RefreshStart ==
    /\ refresher = "waiting" /\ ticked
    /\ ticked' = FALSE
    /\ refresher' = "ranging"
    /\ now' = clock
    /\ visit' = Partners
    /\ UNCHANGED <<clock, accounts, cache, app, refreshing, stopped, failures, history>>

\* Mutations: renewed one period before the expiry and no sooner; the
\* refresh is started under another partner's name.
renewalDueLate(e) == now > e.expiry - RefreshPeriod
refreshKeyShared(p) == CHOOSE q \in Partners : TRUE

renewalDue(e) == now > e.expiry - RefreshLead
refreshKey(p) == p

\* Range over one entry, as it is now.
RefreshVisit(p) ==
    /\ refresher = "ranging" /\ p \in visit
    /\ visit' = visit \ {p}
    /\ IF Cached(p) /\ renewalDue(cache[p])
       THEN LET x == <<refreshKey(p), cache[p].config>>
            IN  /\ refreshing[x] < MaxRefreshes
                /\ refreshing' = [refreshing EXCEPT ![x] = @ + 1]
       ELSE UNCHANGED refreshing
    /\ UNCHANGED <<clock, accounts, cache, app, ticked, refresher, now, stopped,
                   failures, history>>

RefreshEnd ==
    /\ refresher = "ranging" /\ visit = {}
    /\ refresher' = "waiting" /\ now' = 0
    /\ UNCHANGED <<clock, accounts, cache, app, ticked, visit, refreshing, stopped,
                   failures, history>>

Refreshed(x) ==
    /\ refreshing[x] > 0
    /\ refreshing' = [refreshing EXCEPT ![x] = @ - 1]
    /\ Store(x[1], x[2])
    /\ UNCHANGED <<clock, accounts, app, ticked, refresher, now, visit, stopped,
                   failures, history>>

RefreshFailed(x) ==
    /\ refreshing[x] > 0
    /\ failures < MaxFailures
    /\ refreshing' = [refreshing EXCEPT ![x] = @ - 1]
    /\ failures' = failures + 1
    /\ UNCHANGED <<clock, accounts, cache, app, ticked, refresher, now, visit,
                   stopped, history>>

\* Mutation: the ticker is stopped and the goroutine left waiting for it.
RefreshStopNever == FALSE

RefreshStop == stopped

RefreshExit ==
    /\ refresher = "waiting" /\ RefreshStop
    /\ refresher' = "gone"
    /\ UNCHANGED <<clock, accounts, cache, app, ticked, now, visit, refreshing,
                   stopped, failures, history>>

\* Called once: a second call would panic on the closed channel.
Close ==
    /\ ~stopped
    /\ stopped' = TRUE
    /\ UNCHANGED <<clock, accounts, cache, app, ticked, refresher, now, visit,
                   refreshing, failures, history>>

\* Assumed: the background goroutines are done with a tick within the minute.
\* A ticker drops ticks nobody takes.
Minute ==
    /\ clock < MaxClock
    /\ refresher # "ranging" /\ ~(ticked /\ refresher = "waiting")
    /\ \A x \in Pairs : refreshing[x] = 0
    /\ clock' = clock + 1
    /\ ticked' = (ticked \/ (~stopped /\ (clock + 1) % RefreshPeriod = 0))
    /\ UNCHANGED <<accounts, cache, app, refresher, now, visit, refreshing, stopped,
                   failures, history>>

------------------------------------------------------------------------------
Call(c) ==
    \/ \E p \in Partners : PartnerCached(c, p) \/ PartnerMissed(c, p) \/ RemovePartner(c, p)
    \/ \E p \in Partners, cfg \in Configs : AddPartner(c, p, cfg)
    \/ PartnerLookup(c) \/ PartnerCreated(c) \/ PartnerFailed(c) \/ Evict(c)

Refresher ==
    RefreshStart \/ (\E p \in Partners : RefreshVisit(p)) \/ RefreshEnd \/ RefreshExit

Refresh(x) == Refreshed(x) \/ RefreshFailed(x)

AccountsNext ==
    \/ \E c \in Callers : Call(c)
    \/ Refresher
    \/ \E x \in Pairs : Refresh(x)
    \/ Close \/ Minute

AccountsSpec == AccountsInit /\ [][AccountsNext]_accountVars

\* Goroutines keep running, whatever the application does.
AccountsFairSpec ==
    /\ AccountsSpec
    /\ WF_accountVars(Refresher) /\ SF_accountVars(RefreshExit)
    /\ \A x \in Pairs : WF_accountVars(Refresh(x))

------------------------------------------------------------------------------
Entries == [config : Configs, expiry : Int] \cup {NoEntry}

\* Connections exist for configurations only, refreshes within their bound.
AccountsTypeOK ==
    /\ clock \in 0..MaxClock
    /\ accounts \in [Partners -> Configs \cup {Nobody}]
    /\ cache \in [Partners -> Entries]
    /\ at \in [Callers -> {"idle", "lookup", "create", "evict"}]
    /\ partner \in [Callers -> Partners \cup {Nobody}]
    /\ config \in [Callers -> Configs \cup {Nobody}]
    /\ answer \in [Callers -> Configs \cup {Nobody}]
    /\ ticked \in BOOLEAN /\ stopped \in BOOLEAN
    /\ refresher \in {"waiting", "ranging", "gone"}
    /\ now \in 0..MaxClock /\ visit \subseteq Partners
    /\ refreshing \in [Pairs -> 0..MaxRefreshes]
    /\ failures \in 0..MaxFailures
    /\ configured \subseteq Pairs /\ removed \subseteq Partners

\* Whoever refreshes or adds what in whichever order, a partner's connection is
\* made from a configuration that this very partner had; while the background
\* goroutine runs it does not expire, and one failed refresh is made good before
\* it would.
StaysFresh ==
    /\ AccountsTypeOK
    /\ \A p \in Partners :
          Cached(p) => /\ <<p, cache[p].config>> \in configured
                       /\ refresher # "gone" /\ ~stopped => ~isExpired(cache[p])

\* After Close the background work comes to an end.
CloseQuiesces ==
    stopped ~> [](refresher = "gone" /\ \A x \in Pairs : refreshing[x] = 0)

\* RemovePartner clears the cached connection: once it has returned there is
\* none until the partner is added again.  The code does not keep this: a Partner
\* call or a refresh under way stores its connection afterwards (README).
RemovedStaysRemoved == \A p \in removed : ~Cached(p)
==============================================================================
