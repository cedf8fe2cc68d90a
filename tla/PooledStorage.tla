--------------------------- MODULE PooledStorage ---------------------------
(***************************************************************************)
(* PooledStorageManager (storage/connections.go): a connection pool, and   *)
(* the HealthMonitor (storage/health_monitor.go) whose goroutine borrows a *)
(* connection of that pool for every check.  Close stops the monitor,      *)
(* waits for it, and closes the pool.                                      *)
(*                                                                         *)
(* One checker is registered, the one of the pool; the goroutine CheckAll  *)
(* starts for it and then waits for is the monitor's goroutine here.  A    *)
(* caller of GetHealthReport is, for the pool, one more client.            *)
(***************************************************************************)
EXTENDS ConnectionPool

CONSTANTS
  Monitor,     \* the goroutine of monitorLoop, a client of the pool
  MaxRetries   \* repetitions of a check that did not come out healthy

ASSUME MonitorAssumption == Monitor \in Client /\ MaxRetries \in Nat

VARIABLES
  monitor,     \* where monitorLoop is
  tries,       \* attempts the current check has made
  manager      \* how far PooledStorageManager.Close has come

healthVars == <<monitor, tries, manager>>
vars == <<poolVars, healthVars>>

\* attempt: about to call pool.Health; get: inside its Get; put, fail: inside
\* its deferred Put after a ping that was answered, or was not; rate: about to
\* read the statistics; again: the attempt came out not healthy.
MonitorPC == {"attempt", "get", "put", "fail", "rate", "again", "ticker", "exited"}

TypeOK ==
  /\ PoolTypeOK
  /\ monitor \in MonitorPC
  /\ tries \in 0..(MaxRetries + 1)
  /\ manager \in {"open", "stopping", "pools", "closed"}

\* setupHealthMonitoring has registered the checker and called Start.
Init ==
  /\ PoolInit
  /\ monitor = "attempt" /\ tries = 0
  /\ manager = "open"

-----------------------------------------------------------------------------
MonitorAt(label) == monitor = label /\ ~panicked
Idle(t) == call[t].pc = "out"

\* A check ends; CheckAll stores the report, whose text is left out.
Report == tries' = 0 /\ monitor' = "ticker"

\* An attempt that is not healthy is repeated unless it was the last one, or
\* the context of the check ends during the delay before the repetition.
NotHealthy ==
  \/ tries <= MaxRetries /\ monitor' = "attempt" /\ UNCHANGED tries
  \/ Report

\* pool.Health fails at once on a closed pool, otherwise it calls Get.
Attempt ==
  /\ MonitorAt("attempt")
  /\ tries' = tries + 1
  /\ \/ closed /\ monitor' = "again" /\ UNCHANGED poolVars
     \/ Get(Monitor) /\ monitor' = "get"
  /\ UNCHANGED manager

\* The ping, which a closed connection does not answer, and the deferred Put.
Ping ==
  /\ MonitorAt("get")
  /\ Put(Monitor)
  /\ \/ call[Monitor].conn \in open /\ monitor' = "put"
     \/ monitor' = "fail"
  /\ UNCHANGED <<tries, manager>>

\* Get has returned an error, or Put has returned.
HealthReturns ==
  /\ ~panicked /\ Idle(Monitor)
  /\ \/ monitor \in {"get", "fail"} /\ monitor' = "again"
     \/ monitor = "put" /\ monitor' = "rate"
  /\ UNCHANGED <<poolVars, tries, manager>>

Again ==
  /\ MonitorAt("again")
  /\ NotHealthy
  /\ UNCHANGED <<poolVars, manager>>

\* The statistics: no connection is unhealthy, more than nine tenths in use is
\* degraded, and both are repeated.
Rate ==
  /\ MonitorAt("rate")
  /\ IF total = 0 \/ 10 * activeCount > 9 * total THEN NotHealthy ELSE Report
  /\ UNCHANGED <<poolVars, manager>>

CheckStep == Attempt \/ Ping \/ HealthReturns \/ Again \/ Rate

\* The select of monitorLoop.
MonitorTick ==
  /\ MonitorAt("ticker")
  /\ \/ monitor' = "attempt"
     \/ manager # "open" /\ monitor' = "exited"
  /\ UNCHANGED <<poolVars, tries, manager>>

\* Close of the manager: Stop ends the monitor and waits for it, then the pool
\* is closed; the lock m.mu is held throughout.
ManagerClose ==
  /\ ~panicked /\ manager = "open"
  /\ manager' = "stopping"
  /\ UNCHANGED <<poolVars, monitor, tries>>

\* Mutant of MonitorStopped: the pool is closed without waiting for the loop.
MonitorNotAwaited ==
  /\ manager = "stopping"
  /\ CloseStart
  /\ manager' = "pools"
  /\ UNCHANGED <<monitor, tries>>

MonitorStopped ==
  /\ manager = "stopping" /\ monitor = "exited"
  /\ CloseStart
  /\ manager' = "pools"
  /\ UNCHANGED <<monitor, tries>>

ManagerClosed ==
  /\ ~panicked /\ manager = "pools" /\ closer = "done"
  /\ manager' = "closed"
  /\ UNCHANGED <<poolVars, monitor, tries>>

\* What the other clients of the pool do.
Use(t) == t # Monitor /\ (Get(t) \/ Put(t))

Next ==
  \/ \E t \in Client : (Use(t) \/ Inside(t)) /\ UNCHANGED healthVars
  \/ (MaintStep \/ CloseStep) /\ UNCHANGED healthVars
  \/ CheckStep \/ MonitorTick
  \/ ManagerClose \/ MonitorStopped \/ ManagerClosed

Spec == Init /\ [][Next]_vars

\* Goroutines are scheduled and the contexts of blocking receives end (weak
\* fairness); a select that finds its stop channel closed again and again
\* takes it in the end, since Go picks at random (strong fairness).
Fairness ==
  /\ WF_vars(Inside(Monitor) /\ UNCHANGED healthVars)
  /\ WF_vars(CheckStep)
  /\ WF_vars(MaintStep /\ UNCHANGED healthVars)
  /\ SF_vars(Tick /\ maint'.pc = "exited" /\ UNCHANGED healthVars)
  /\ SF_vars(MonitorTick /\ monitor' = "exited")
  /\ WF_vars(CloseStep /\ UNCHANGED healthVars)
  /\ WF_vars(MonitorStopped) /\ WF_vars(ManagerClosed)

FairSpec == Spec /\ Fairness

-----------------------------------------------------------------------------
\* The monitor is never inside the pool while the pool is being closed.
MonitorOutOfClose == closed => call[Monitor].pc = "out" /\ monitor = "exited"

\* Close of the manager returns, whatever the clients do with what they hold,
\* unless a Put or Get that overlaps it panics.
CloseReturns == manager = "stopping" ~> manager = "closed" \/ panicked
=============================================================================
