-------------------------- MODULE HealthMonitoring --------------------------
(***************************************************************************)
(* HealthMonitor (storage/health_monitor.go): its loop, the checks with    *)
(* their repetitions, and Start and Stop called from anywhere; and what    *)
(* the PooledStorageManager of StorageSetup does with its monitor: the     *)
(* reports its callers ask for, IsHealthy, Close.                          *)
(*                                                                         *)
(* Until there is a manager the checkers are those of stores, added and    *)
(* removed by the callers; the manager's are those of its pools.           *)
(***************************************************************************)
EXTENDS StorageSetup

CONSTANTS
  Loop,         \* the goroutines of monitorLoop
  Free,         \* nobody holds the lock of the runs
  CheckRetries  \* MaxRetries

ASSUME HealthAssumption == Loop \cap Operator = {} /\ Free \notin Loop \cup Operator /\ CheckRetries \in Nat

VARIABLES
  monitor,     \* [running, chan, shut, count, panicked, caught]; history: caught,
               \* the sides whose pool was closed under a Get that waited
  checkers,    \* the sides there is a checker of
  loops,       \* Loop -> [at, on]
  runs,        \* the run of checks each goroutine is in
  runner,      \* who holds checkRunMu
  report,      \* lastReport
  began,       \* how many runs have begun
  overlap      \* history: a Start and a Stop have overlapped
monitorVars == <<monitor, checkers, loops, runs, runner, report, began, overlap>>
healthVars == <<setupVars, monitorVars>>

Runner == Loop \cup Operator
NoRun == [at |-> "none", one |-> FALSE, waited |-> FALSE, late |-> FALSE, number |-> 0,
          todo |-> {}, pinged |-> {}, tries |-> <<>>, checks |-> <<>>, seen |-> <<>>]
NoReport == [number |-> 0, checks |-> <<>>, seen |-> <<>>]
LoopAt(l, label) == loops[l].at = label /\ ~monitor.panicked
Step(p, label) == JobAt(p, label) /\ ~monitor.panicked
Loops(l, at, on) == loops' = [loops EXCEPT ![l] = [at |-> at, on |-> on]]

-----------------------------------------------------------------------------
\* Start: the flag, the new channel, the count, the goroutine.
StartWins(p) ==
  /\ Step(p, "start")
  /\ IF monitor.running THEN Ends(p, "failed") /\ UNCHANGED <<monitor, overlap>>
     ELSE /\ monitor' = [monitor EXCEPT !.running = TRUE]
          /\ IF ahead.auto THEN Turns(p, [jobs[p] EXCEPT !.at = "channel"]) ELSE Ends(p, "ok")
          /\ overlap' = (overlap \/ \E q \in Operator : jobs[q].at \in {"shut", "await"})
  /\ UNCHANGED <<checkers, loops, runs, runner, report, began>>

MakesChannel(p) ==
  /\ Step(p, "channel")
  /\ monitor' = [monitor EXCEPT !.chan = @ + 1]
  /\ Turns(p, [jobs[p] EXCEPT !.at = "launch"])
  /\ UNCHANGED <<checkers, loops, runs, runner, report, began, overlap>>

Launches(p) ==
  /\ Step(p, "launch")
  /\ monitor' = [monitor EXCEPT !.count = @ + 1]
  /\ \E l \in {k \in Loop : LoopAt(k, "none")} :
       /\ Loops(l, "check", 0)
       /\ runs' = [runs EXCEPT ![l] = [NoRun EXCEPT !.at = "lock"]]
  /\ IF jobs[p].op = "build" THEN Turns(p, [jobs[p] EXCEPT !.at = "ready"]) ELSE Ends(p, "ok")
  /\ UNCHANGED <<checkers, runner, report, began, overlap>>

\* Stop: the flag, the channel, the wait.
StopWins(p) ==
  /\ Step(p, "stop")
  /\ monitor' = [monitor EXCEPT !.running = FALSE]
  /\ IF monitor.running
     THEN /\ Turns(p, [jobs[p] EXCEPT !.at = "shut"])
          /\ overlap' = (overlap \/ \E q \in Operator : jobs[q].at \in {"channel", "launch"})
     ELSE Turns(p, [jobs[p] EXCEPT !.at = "stopped"]) /\ UNCHANGED overlap
  /\ UNCHANGED <<checkers, loops, runs, runner, report, began>>

\* Closing a channel a second time panics.
ShutsChannel(p) ==
  /\ Step(p, "shut")
  /\ monitor' = [monitor EXCEPT !.shut = @ \cup {monitor.chan}, !.panicked = monitor.chan \in monitor.shut]
  /\ Turns(p, [jobs[p] EXCEPT !.at = "await"])
  /\ UNCHANGED <<checkers, loops, runs, runner, report, began, overlap>>

Awaits(p) ==
  /\ Step(p, "await") /\ monitor.count = 0
  /\ Turns(p, [jobs[p] EXCEPT !.at = "stopped"])
  /\ UNCHANGED monitorVars

Stopped(p) ==
  /\ Step(p, "stopped")
  /\ IF jobs[p].op = "close" THEN Turns(p, [jobs[p] EXCEPT !.at = "pools"]) ELSE Ends(p, "ok")
  /\ UNCHANGED monitorVars

\* The loop reads the channel anew for every select.
Selects(l) ==
  /\ LoopAt(l, "check") /\ runs[l].at = "none"
  /\ Loops(l, "select", monitor.chan)
  /\ UNCHANGED <<monitor, checkers, runs, runner, report, began, overlap, jobs>>

TickerFires(l) ==
  /\ LoopAt(l, "select") /\ ahead.ticks > began
  /\ Loops(l, "check", 0)
  /\ runs' = [runs EXCEPT ![l] = [NoRun EXCEPT !.at = "lock"]]
  /\ UNCHANGED <<monitor, checkers, runner, report, began, overlap, jobs>>

LoopEnds(l) ==
  /\ LoopAt(l, "select") /\ loops[l].on \in monitor.shut
  /\ Loops(l, "exited", 0)
  /\ monitor' = [monitor EXCEPT !.count = @ - 1]
  /\ UNCHANGED <<checkers, runs, runner, report, began, overlap, jobs>>

-----------------------------------------------------------------------------
\* AddChecker, RemoveChecker.
AddsChecker(p) ==
  /\ Step(p, "checker")
  /\ checkers' = checkers \cup {jobs[p].name} /\ Ends(p, "ok")
  /\ UNCHANGED <<monitor, loops, runs, runner, report, began, overlap>>
RemovesChecker(p) ==
  /\ Step(p, "unchecker")
  /\ checkers' = checkers \ {jobs[p].name} /\ Ends(p, "ok")
  /\ UNCHANGED <<monitor, loops, runs, runner, report, began, overlap>>

\* What a check may find: whether Health succeeds (that of a pool borrows a
\* connection, pings it and puts it back), and whether the statistics of the pool
\* have more than nine of ten connections lent.  A closed pool has none lent.
Reachable(side) ==
  Answers(side) /\ (system.at # "none" => pools[side].at = "open" /\ ~Full(side))
LentOut(side) ==
  /\ system.at # "none" /\ pools[side].at = "open"
  /\ condition[side] \in {"crowded", "full"} \/ pools[side].idle = <<>>
Found(side) == [could |-> Reachable(side), busy |-> LentOut(side)]
\* History: a run that is under way has gone through what is now there to find.
Sees(all) ==
  [q \in Runner |-> [all[q] EXCEPT !.seen = [s \in DOMAIN all[q].seen |-> all[q].seen[s] \cup {Found(s)'}]]]

\* CheckAll waits for the lock.  CheckOne looks its checker up first, and its
\* time runs while it waits.
CallsAll(p) ==
  /\ Step(p, "report") /\ runs[p].at = "none"
  /\ runs' = [runs EXCEPT ![p] = [NoRun EXCEPT !.at = "lock"]]
  /\ Turns(p, [jobs[p] EXCEPT !.at = "checks"])
  /\ UNCHANGED <<monitor, checkers, loops, runner, report, began, overlap>>

CallsOne(p) ==
  /\ Step(p, "one") /\ runs[p].at = "none"
  /\ IF jobs[p].name \in checkers
     THEN /\ runs' = [runs EXCEPT ![p] = [NoRun EXCEPT !.at = "lock", !.one = TRUE, !.waited = runner # Free]]
          /\ Turns(p, [jobs[p] EXCEPT !.at = "checks"])
     ELSE Ends(p, "failed") /\ UNCHANGED runs
  /\ UNCHANGED <<monitor, checkers, loops, runner, report, began, overlap>>

\* Mutant of LockIsFree: without checkRunMu.
NoLock == TRUE
LockIsFree == runner = Free
RunBegins(q) ==
  /\ runs[q].at = "lock" /\ LockIsFree /\ ~monitor.panicked
  /\ runner' = q /\ began' = began + 1
  /\ \E late \in IF runs[q].waited THEN BOOLEAN ELSE {FALSE} :
       LET of == IF runs[q].one THEN {jobs[q].name} ELSE checkers
       IN  runs' = [runs EXCEPT ![q] =
                      [@ EXCEPT !.at = "checking", !.late = late, !.number = began + 1, !.todo = of, !.pinged = {},
                                !.tries = [s \in of |-> 0], !.checks = [s \in of |-> "unknown"],
                                !.seen = [s \in of |-> {Found(s)}]]]
  /\ UNCHANGED <<monitor, checkers, loops, report, overlap, jobs>>

\* performCheckWithRetry, the end of an attempt: whatever is not healthy is
\* repeated, until the attempts or the time are at an end.
Judged(q, side, rated, last) ==
  \E ended \in {last \/ rated = "healthy" \/ runs[q].tries[side] = CheckRetries, TRUE} :
    runs' = Sees([runs EXCEPT ![q] = [@ EXCEPT !.checks[side] = rated, !.tries[side] = @ + 1, !.pinged = @ \ {side},
                                               !.todo = IF ended THEN @ \ {side} ELSE @]])
InCheck(q, side) == runs[q].at = "checking" /\ side \in runs[q].todo /\ ~monitor.panicked

\* Health.  For a connection of a pool that has none to lend it waits until its
\* time is over (when one comes back in time, it goes on with that); with no time
\* left nothing is reached.  The checks of a run go side by side.
Pings(q, side) ==
  /\ InCheck(q, side) /\ side \notin runs[q].pinged
  /\ LET reached == ~runs[q].late /\ Reachable(side)
         waited == system.at # "none" /\ pools[side].at = "open" /\ Full(side)
     IN  /\ pools' = IF reached /\ system.at # "none"
                     THEN [pools EXCEPT ![side] = [Borrowed(side).pool EXCEPT !.idle = Append(@, Borrowed(side).conn)]]
                     ELSE pools
         /\ UNCHANGED <<condition, system>>
         /\ CASE ~reached -> Judged(q, side, "unhealthy", runs[q].late \/ waited)
              [] reached /\ system.at = "none" -> Judged(q, side, "healthy", TRUE)
              [] OTHER -> runs' = Sees([runs EXCEPT ![q].pinged = @ \cup {side}])
  /\ UNCHANGED <<heap, factory, kept, jobs, ahead, lent, edited>>
  /\ UNCHANGED <<monitor, checkers, loops, runner, report, began, overlap>>

\* The statistics, after the connection was put back: others may have it already.
ReadsStatistics(q, side) ==
  /\ InCheck(q, side) /\ side \in runs[q].pinged
  /\ UNCHANGED setupVars
  /\ Judged(q, side, IF LentOut(side) THEN "degraded" ELSE "healthy", FALSE)
  /\ UNCHANGED <<monitor, checkers, loops, runner, report, began, overlap>>

\* calculateOverallStatus.
Overall(checks) ==
  LET found == {checks[s] : s \in DOMAIN checks}
  IN  CASE found = {} -> "unknown"
        [] "unhealthy" \in found -> "unhealthy"
        [] "degraded" \in found -> "degraded"
        [] found = {"healthy"} -> "healthy"
        [] OTHER -> "unknown"

\* The report is what CheckAll leaves; CheckOne leaves none.
RunEnds(q) ==
  /\ runs[q].at = "checking" /\ runs[q].todo = {} /\ ~monitor.panicked
  /\ runner' = Free
  /\ report' = IF runs[q].one THEN report
               ELSE [number |-> runs[q].number, checks |-> runs[q].checks, seen |-> runs[q].seen]
  /\ runs' = [runs EXCEPT ![q] = [@ EXCEPT !.at = IF q \in Loop THEN "none" ELSE "over"]]
  /\ UNCHANGED <<monitor, checkers, loops, began, overlap, jobs>>

RunReturns(p) ==
  /\ Step(p, "checks") /\ runs[p].at = "over"
  /\ runs' = [runs EXCEPT ![p] = [@ EXCEPT !.at = "none"]]
  /\ Ends(p, "ok")
  /\ UNCHANGED <<monitor, checkers, loops, runner, report, began, overlap>>

-----------------------------------------------------------------------------
\* setupHealthMonitoring: a checker for every pool, and Start.
SetsUpMonitor(p) ==
  /\ Step(p, "pools") /\ system.at = "building" /\ system.todo = <<>>
  /\ checkers' = checkers \cup {s \in Side : pools[s].at = "open"}
  /\ Turns(p, [jobs[p] EXCEPT !.at = "start"])
  /\ UNCHANGED <<heap, factory, pools, kept, system, condition, ahead, lent, edited>>
  /\ UNCHANGED <<monitor, loops, runs, runner, report, began, overlap>>

\* NewPooledStorageManager returns the manager.
HandsOver(p) ==
  /\ Step(p, "ready")
  /\ system' = [system EXCEPT !.at = "open"] /\ Ends(p, "ok")
  /\ UNCHANGED <<heap, factory, pools, kept, condition, ahead, lent, edited, monitorVars>>

\* The manager's lock is Close's until it returns.
Closing == \E q \in Operator : jobs[q].op = "close" /\ jobs[q].at \in {"stop", "shut", "await", "stopped", "pools"}

Closes(p) ==
  /\ Step(p, "close") /\ ~Closing
  /\ IF system.at = "open"
     THEN system' = [system EXCEPT !.at = "closed"] /\ Turns(p, [jobs[p] EXCEPT !.at = "stop"])
     ELSE UNCHANGED system /\ Ends(p, "ok")
  /\ UNCHANGED <<heap, factory, pools, kept, condition, ahead, lent, edited, monitorVars>>

\* Who may be waiting for a connection when the pool is closed: Get receives nil
\* from its channel then, and to validate that panics (ConnectionPool).
Waiting(side) ==
  /\ Full(side)
  /\ \/ \E q \in Runner : InCheck(q, side) /\ side \notin runs[q].pinged
     \/ \E p \in Operator : jobs[p].at \in {"write", "read"} /\ jobs[p].name = side
ClosesPool(p) ==
  /\ Step(p, "pools") /\ system.at = "closed"
  /\ LET left == SelectSeq(Sides, LAMBDA s : pools[s].at = "open")
     IN  IF left = <<>> THEN Ends(p, "ok") /\ UNCHANGED <<pools, runs, monitor>>
         ELSE /\ pools' = [pools EXCEPT ![Head(left)].at = "closed", ![Head(left)].idle = <<>>]
              /\ \E caught \in IF Waiting(Head(left)) THEN {{}, {Head(left)}} ELSE {{}} :
                   monitor' = [monitor EXCEPT !.panicked = caught # {}, !.caught = caught]
              /\ UNCHANGED <<jobs, system, condition>> /\ runs' = Sees(runs)
  /\ UNCHANGED <<heap, factory, kept, system, condition, ahead, lent, edited>>
  /\ UNCHANGED <<checkers, loops, runner, report, began, overlap>>

\* IsHealthy of the manager waits for its lock.
AsksHealthy(p) ==
  /\ Step(p, "healthy") /\ ~Closing
  /\ Ends(p, IF system.at = "open" /\ report # NoReport /\ Overall(report.checks) = "healthy" THEN "yes" ELSE "no")
  /\ UNCHANGED monitorVars

-----------------------------------------------------------------------------
\* A backend fails or comes back, its pool fills or empties.
Changes ==
  /\ ahead.changes # <<>>
  /\ LET change == Head(ahead.changes)
     IN  /\ condition' = [condition EXCEPT ![change[1]] = change[2]] /\ UNCHANGED <<pools, system>>
         /\ runs' = Sees(runs)
  /\ ahead' = [ahead EXCEPT !.changes = Tail(@)]
  /\ UNCHANGED <<heap, factory, kept, jobs, lent, edited>>
  /\ UNCHANGED <<monitor, checkers, loops, runner, report, began, overlap>>

\* What is called of the manager, once there is one, or of a monitor alone.
OfManager == {"report", "healthy", "close", "write", "read"}

OperatorCalls(p) ==
  /\ JobAt(p, "idle") /\ ahead.calls[p] # <<>> /\ ~monitor.panicked
  /\ LET next == Head(ahead.calls[p])
     IN  /\ next.op \in OfManager => ahead.alone \/ system.at \in {"open", "closed"}
         /\ Turns(p, [jobs[p] EXCEPT !.op = next.op, !.at = next.op, !.name = next.name, !.part = next.part,
                                      !.item = next.item, !.out = "none", !.missing = {}])
  /\ ahead' = [ahead EXCEPT !.calls[p] = Tail(@)]
  /\ UNCHANGED <<heap, factory, pools, kept, system, condition, lent, edited, monitorVars>>

JobsOnly == UNCHANGED <<heap, factory, pools, kept, system, condition, ahead, lent, edited>>

HealthInit(plan) ==
  /\ SetupInit(plan)
  /\ monitor = [running |-> FALSE, chan |-> 0, shut |-> {}, count |-> 0, panicked |-> FALSE, caught |-> {}]
  /\ checkers = {} /\ loops = [l \in Loop |-> [at |-> "none", on |-> 0]]
  /\ runs = [q \in Runner |-> NoRun] /\ runner = Free /\ report = NoReport /\ began = 0 /\ overlap = FALSE

MonitorStep(p) ==
  \/ StartWins(p) \/ MakesChannel(p) \/ Launches(p) \/ StopWins(p) \/ ShutsChannel(p) \/ Awaits(p) \/ Stopped(p)
  \/ AddsChecker(p) \/ RemovesChecker(p) \/ CallsAll(p) \/ CallsOne(p) \/ RunReturns(p) \/ AsksHealthy(p)
RunStep(q) == RunBegins(q) \/ RunEnds(q)
LoopStep(l) == Selects(l) \/ TickerFires(l) \/ LoopEnds(l)

HealthNext ==
  \/ Changes
  \/ \E p \in Operator :
       OperatorCalls(p) \/ SetsUpMonitor(p) \/ HandsOver(p) \/ Closes(p) \/ ClosesPool(p)
       \/ (MonitorStep(p) /\ JobsOnly)
       \/ (SetupStep(p) /\ runs' = Sees(runs) /\ UNCHANGED <<monitor, checkers, loops, runner, report, began, overlap>>)
  \/ \E q \in Runner : (RunStep(q) /\ JobsOnly) \/ \E s \in Side : Pings(q, s) \/ ReadsStatistics(q, s)
  \/ \E l \in Loop : LoopStep(l) /\ JobsOnly

HealthSpec == (\E plan \in SetupPlans : HealthInit(plan)) /\ [][HealthNext]_healthVars

-----------------------------------------------------------------------------
\* While no Start overlaps a Stop (health_monitor.go:148,168), a Stop that is
\* over leaves no loop once no other is under way, there is never a second
\* loop, and nothing panics; but without automatic checks a second Stop does
\* (the channel is never made anew, :153), and so does who waits for a connection
\* of a pool its manager closes.
Alive == {l \in Loop : loops[l].at \notin {"none", "exited"}}
StopIsFinal ==
  ~overlap =>
    /\ monitor.panicked => ~ahead.auto \/ monitor.caught # {}
    /\ Cardinality(Alive) <= 1
    /\ ~monitor.running /\ ~(\E q \in Operator : jobs[q].at \in {"shut", "await"}) => Alive = {}

\* Why a check of a run that went through these findings says what it says.
Earned(rated, seen) ==
  /\ rated = "unhealthy" => \E found \in seen : ~found.could
  /\ rated # "unhealthy" => \E found \in seen : found.could
  /\ rated = "degraded" => \E found \in seen : found.busy
  /\ rated = "healthy" => \E found \in seen : ~found.busy
\* A backend is reported as it was at some time of the run: unhealthy only if it
\* was down, or its pool closed or without a connection to lend (a backend that
\* answers all the time is reported unhealthy when its callers have them all),
\* degraded only if it answered and its pool was lent out but for a tenth, healthy
\* only if it answered and its pool was not.  Reports do not go back in time.  Only
\* CheckOne, whose time runs while it waits (:246), may find unhealthy what is not.
ReportsAreEarned ==
  /\ \A s \in DOMAIN report.checks : Earned(report.checks[s], report.seen[s])
  /\ \A q \in Runner : runs[q].at \in {"checking", "over"} /\ ~runs[q].late =>
       \A s \in DOMAIN runs[q].checks \ runs[q].todo : Earned(runs[q].checks[s], runs[q].seen[s])
  /\ \A q \in Runner : runs[q].at = "checking" => runs[q].number > report.number

\* A closed manager (connections.go:587) answers that it is not healthy, and
\* when Close has returned, neither a loop nor a pool is left, even if checks
\* were running.
ClosedIsQuiet ==
  system.at = "closed" /\ ~Closing /\ ~monitor.panicked =>
    Alive = {} /\ runner \notin Loop /\ \A s \in Side : pools[s].at # "open"
=============================================================================
