---------------------------- MODULE MemoryMonitor ----------------------------
(***************************************************************************)
(* The memory monitor of pkg/protection/resource_limiter.go: goroutines    *)
(* that start and stop it (Controllers), and the monitor goroutines they   *)
(* start, numbered by the stop channel that was current at the start.      *)
(*                                                                         *)
(* mm.mu is held across a blocking call in one place only, wg.Wait in      *)
(* Start; every other critical section is a single step.  `mu' is the      *)
(* controller inside that call, so a step that needs the lock (for reading *)
(* or for writing) requires mu = Free.                                     *)
(***************************************************************************)
EXTENDS Integers, FiniteSets

CONSTANTS
    Controllers, \* callers of StartMemoryMonitoring and StopMemoryMonitoring
    Free,        \* not a controller
    MaxCalls,    \* bound: calls of StartMemoryMonitoring
    MaxLevel,    \* bound: the memory in use is one of 0..MaxLevel
    Threshold,   \* the level of MemoryPanicThreshold
    MaxAlerts    \* bound: how often the threshold is reached

ASSUME MemoryMonitorAssumption ==
    /\ Free \notin Controllers
    /\ MaxCalls \in Nat /\ MaxLevel \in Nat /\ Threshold \in Nat
    /\ MaxAlerts \in Nat

VARIABLES
    mu, running, wg,
    stopChan,  \* the current channel: one per spawn, 0 before the first
    closed,    \* the channels that are closed
    stopOnce,  \* whether the current sync.Once has fired
    panicked,  \* a closed channel was closed again
    cpc,       \* where each controller is
    mpc,       \* where each monitor goroutine is
    memory,    \* stats.CurrentMemoryMB
    peak,      \* stats.PeakMemoryMB
    alerts,    \* stats.MemoryAlerts
    calls      \* how often StartMemoryMonitoring was called

chans == <<stopChan, closed, stopOnce, panicked>>
stats == <<memory, peak, alerts>>
monitorVars ==
    <<mu, running, wg, stopChan, closed, stopOnce, panicked, cpc, mpc,
     memory, peak, alerts, calls>>

Monitors == 1..MaxCalls

MonitorInit ==
    /\ mu = Free /\ running = 0 /\ wg = 0
    /\ stopChan = 0 /\ closed = {} /\ stopOnce = FALSE /\ panicked = FALSE
    /\ cpc = [c \in Controllers |-> "idle"]
    /\ mpc = [m \in Monitors |-> "none"]
    /\ memory = 0 /\ peak = 0 /\ alerts = 0
    /\ calls = 0

------------------------------------------------------------------------------
(***************************************************************************)
(* Controllers.  StartMemoryMonitoring stores the callback under the lock, *)
(* releases it, and calls Start, which takes it again.                     *)
(***************************************************************************)
GotoController(c, l) == cpc' = [cpc EXCEPT ![c] = l]

StartMemoryMonitoring(c) ==
    /\ cpc[c] = "idle" /\ mu = Free
    /\ calls < MaxCalls
    /\ calls' = calls + 1
    /\ GotoController(c, "start")
    /\ UNCHANGED <<mu, running, wg, chans, mpc, stats>>

StartRunning(c) ==
    /\ cpc[c] = "start" /\ mu = Free
    /\ running = 1
    /\ GotoController(c, "idle")
    /\ UNCHANGED <<mu, running, wg, chans, mpc, stats, calls>>

StartStopped(c) ==
    /\ cpc[c] = "start" /\ mu = Free
    /\ running = 0
    /\ mu' = c
    /\ GotoController(c, "wait")
    /\ UNCHANGED <<running, wg, chans, mpc, stats, calls>>

Spawn ==
    /\ running' = 1
    /\ wg' = wg + 1
    /\ mpc' = [mpc EXCEPT ![stopChan + 1] = "loop"]

\* Mutations: the previous goroutine is not waited for; the sync.Once is
\* renewed but not the channel it guards.
StartSpawnNoWait(c) ==
    /\ cpc[c] = "wait"
    /\ stopChan' = stopChan + 1 /\ stopOnce' = FALSE
    /\ Spawn
    /\ mu' = Free /\ GotoController(c, "idle")
    /\ UNCHANGED <<closed, panicked, stats, calls>>

StartSpawnSameChan(c) ==
    /\ cpc[c] = "wait" /\ wg = 0
    /\ stopOnce' = FALSE
    /\ Spawn
    /\ mu' = Free /\ GotoController(c, "idle")
    /\ UNCHANGED <<stopChan, closed, panicked, stats, calls>>

\* wg.Wait has returned: a new channel, a new sync.Once, a new goroutine.
StartSpawn(c) ==
    /\ cpc[c] = "wait" /\ wg = 0
    /\ stopChan' = stopChan + 1 /\ stopOnce' = FALSE
    /\ Spawn
    /\ mu' = Free /\ GotoController(c, "idle")
    /\ UNCHANGED <<closed, panicked, stats, calls>>

\* Stop, called by a controller or by the alert callback.
Stop ==
    /\ mu = Free
    /\ running = 1
    /\ running' = 0
    /\ IF stopOnce THEN UNCHANGED <<closed, panicked>>
       ELSE /\ panicked' = (panicked \/ stopChan \in closed)
            /\ closed' = closed \cup {stopChan}
    /\ stopOnce' = TRUE
    /\ UNCHANGED <<mu, wg, stopChan, stats, calls>>

StopMemoryMonitoring(c) ==
    /\ cpc[c] = "idle"
    /\ Stop
    /\ UNCHANGED <<cpc, mpc>>

------------------------------------------------------------------------------
(***************************************************************************)
(* The monitor goroutine: a select over the ticker and the stop channel.   *)
(***************************************************************************)
MGoto(m, l) == mpc' = [mpc EXCEPT ![m] = l]

\* Mutations: wg.Done is missing; `break' leaves the select, not the loop.
ExitNoDone(m) ==
    /\ MGoto(m, "gone")
    /\ UNCHANGED <<mu, running, wg, chans, cpc, stats, calls>>

ExitBreak(m) == UNCHANGED monitorVars

Exit(m) ==
    /\ MGoto(m, "gone")
    /\ wg' = wg - 1
    /\ UNCHANGED <<mu, running, chans, cpc, stats, calls>>

TickStopped(m) ==
    /\ mpc[m] = "loop"
    /\ running = 0
    /\ Exit(m)

StopSeen(m) ==
    /\ mpc[m] = "loop"
    /\ stopChan \in closed
    /\ Exit(m)

TickRunning(m) ==
    /\ mpc[m] = "loop"
    /\ running = 1
    /\ MGoto(m, "check")
    /\ UNCHANGED <<mu, running, wg, chans, cpc, stats, calls>>

\* checkMemory up to the callback: the level is stored, the peak raised, the
\* alert counted.
CheckMemory(m) ==
    /\ mpc[m] = "check"
    /\ \E level \in 0..MaxLevel :
        /\ memory' = level
        /\ peak' = IF level <= peak THEN peak ELSE level
        /\ IF level >= Threshold
           THEN alerts < MaxAlerts /\ alerts' = alerts + 1 /\ MGoto(m, "alert")
           ELSE UNCHANGED alerts /\ MGoto(m, "loop")
    /\ UNCHANGED <<mu, running, wg, chans, cpc, calls>>

\* The callback is read under the read lock and called without it.
ReadCallback(m) ==
    /\ mpc[m] = "alert"
    /\ mu = Free
    /\ MGoto(m, "callback")
    /\ UNCHANGED <<mu, running, wg, chans, cpc, stats, calls>>

\* A callback may call Stop, which blocks while a Start holds the lock.
CallbackCallsStop(m) ==
    /\ mpc[m] = "callback"
    /\ MGoto(m, "stopping")
    /\ UNCHANGED <<mu, running, wg, chans, cpc, stats, calls>>

CallbackStops(m) ==
    /\ mpc[m] = "stopping"
    /\ Stop
    /\ MGoto(m, "loop")
    /\ UNCHANGED cpc

CallbackStopsNothing(m) ==
    /\ mpc[m] = "stopping" /\ mu = Free
    /\ running = 0
    /\ MGoto(m, "loop")
    /\ UNCHANGED <<mu, running, wg, chans, cpc, stats, calls>>

CallbackReturns(m) ==
    /\ mpc[m] = "callback"
    /\ MGoto(m, "loop")
    /\ UNCHANGED <<mu, running, wg, chans, cpc, stats, calls>>

------------------------------------------------------------------------------
Starting(c) == StartRunning(c) \/ StartStopped(c) \/ StartSpawn(c)

Monitor(m) ==
    \/ TickStopped(m) \/ StopSeen(m) \/ TickRunning(m) \/ CheckMemory(m)
    \/ ReadCallback(m) \/ CallbackReturns(m)
    \/ CallbackStops(m) \/ CallbackStopsNothing(m)

MonitorNext ==
    \/ \E c \in Controllers :
          StartMemoryMonitoring(c) \/ Starting(c) \/ StopMemoryMonitoring(c)
    \/ \E m \in Monitors : Monitor(m) \/ CallbackCallsStop(m)

MonitorSpec == MonitorInit /\ [][MonitorNext]_monitorVars

\* Goroutines inside a call keep running, the mutex and the ticker serve whoever
\* waits; whether to start or to stop the monitor is up to the application.
MonitorFairness ==
    /\ \A c \in Controllers : SF_monitorVars(StartRunning(c) \/ StartStopped(c))
                              /\ WF_monitorVars(StartSpawn(c))
    /\ \A m \in Monitors : WF_monitorVars(Monitor(m))

MonitorFairSpec == MonitorSpec /\ MonitorFairness

------------------------------------------------------------------------------
\* Only channels made by Start are ever closed, at most one per call of Start.
MonitorTypeOK ==
    /\ mu \in Controllers \cup {Free}
    /\ running \in {0, 1}
    /\ wg \in 0..MaxCalls
    /\ stopChan \in 0..MaxCalls
    /\ closed \subseteq 1..MaxCalls
    /\ stopOnce \in BOOLEAN
    /\ cpc \in [Controllers -> {"idle", "start", "wait"}]
    /\ mpc \in [Monitors -> {"none", "loop", "check", "alert", "callback", "stopping", "gone"}]
    /\ memory \in 0..MaxLevel /\ peak \in 0..MaxLevel
    /\ alerts \in 0..MaxAlerts
    /\ calls \in 0..MaxCalls

Live == {m \in Monitors : mpc[m] \notin {"none", "gone"}}

\* However Start and Stop interleave, there is at most one monitor goroutine.
OneMonitor == Cardinality(Live) <= 1

\* While the monitor counts as running there is a goroutine for it, and a
\* channel left to stop it with.
RunningIsServed ==
    running = 1 => /\ Cardinality(Live) = 1
                   /\ stopChan \notin closed
                   /\ ~stopOnce

\* The stop channel is never closed twice: Stop does not panic.
NoDoubleClose == ~panicked

\* Start gets the lock and returns, whatever the old goroutine is doing: the
\* monitor can be restarted.
StartReturns ==
    \A c \in Controllers : cpc[c] # "idle" ~> cpc[c] = "idle"

\* No alert under way needs the lock while a Start holds it.
NoAlertMeetsStart ==
    mu # Free => \A m \in Live : mpc[m] \notin {"alert", "stopping"}

\* An alert that needs the lock while a Start waits is the only thing that can
\* block Start: without that meeting every call returns, with two Starts and a
\* Stop racing each other too, and a goroutine whose monitor was stopped ends.
OnlyAlertsBlockStart ==
    []NoAlertMeetsStart =>
        /\ StartReturns
        /\ \A m \in Monitors : (m \in Live /\ running = 0) ~> (m \notin Live \/ running = 1)
==============================================================================
