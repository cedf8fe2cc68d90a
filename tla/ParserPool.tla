----------------------------- MODULE ParserPool -----------------------------
(***************************************************************************)
(* WorkerPool (parser/concurrency/worker_pool.go): goroutines that parse   *)
(* the files of a task queue.                                              *)
(*                                                                         *)
(* Start makes a new task queue, a new result queue and a new context; all *)
(* of one Start are a generation.  The code reads the pool's fields anew   *)
(* at every step, so a caller or a worker of an old generation may go on   *)
(* in a new one.  Start is one step here, though callers of ProcessFiles   *)
(* read the fields without the lock.  The retry delay is left out: the     *)
(* break at its end leaves only the select, a cancelled worker retries on. *)
(***************************************************************************)
EXTENDS Naturals, Sequences, FiniteSets

CONSTANTS
  NumWorkers, QueueSize, RetryAttempts,
  MaxGenerations   \* bound: calls of Start

ASSUME PoolAssumption ==
  /\ NumWorkers \in Nat \ {0} /\ QueueSize \in Nat \ {0} /\ MaxGenerations \in Nat
  /\ RetryAttempts \in Nat \ {0}   \* none: processTask would have no result

VARIABLES
  generation, \* the generation the pool's fields point to
  started,
  chan,       \* the channels and the context of every generation
  worker      \* every worker there has been room for

poolVars == <<generation, started, chan, worker>>

Generation == 1..MaxGenerations
Worker == Generation \X (1..NumWorkers)

\* tasks, results: the queues.  open: the task queue is not closed; drained:
\* the result queue is.  done: the context is cancelled.
Fresh == [tasks |-> <<>>, open |-> TRUE, done |-> FALSE, results |-> <<>>, drained |-> FALSE]
Current == chan[generation]

\* at: none (not running), loop (about to read the pool's fields), select (of
\* the generation on), parse, share (its result is ready) or reply.
NotRunning == [at |-> "none", on |-> 0, task |-> <<>>, attempt |-> 0, result |-> <<>>]
Running == {w \in Worker : worker[w].at # "none"}

-----------------------------------------------------------------------------
IsHealthy == started /\ ~Current.done

\* Start; to one of two callers it is an error.
Start ==
  /\ ~started /\ generation < MaxGenerations
  /\ started' = TRUE
  /\ generation' = generation + 1
  /\ chan' = [chan EXCEPT ![generation + 1] = Fresh]
  /\ worker' = [w \in Worker |-> IF w[1] = generation + 1
                                 THEN [NotRunning EXCEPT !.at = "loop"] ELSE worker[w]]

\* Stop: the flag goes down, then the context of g is cancelled, its task
\* queue is closed, and the result queue once no worker of the pool runs.
StopBegins ==
  /\ started /\ started' = FALSE
  /\ UNCHANGED <<generation, chan, worker>>

StopCancels(g) ==
  /\ chan' = [chan EXCEPT ![g].done = TRUE]
  /\ UNCHANGED <<generation, started, worker>>

StopCloses(g) ==
  /\ chan' = [chan EXCEPT ![g].open = FALSE]
  /\ UNCHANGED <<generation, started, worker>>

StopEnds(g) ==
  /\ Running = {}
  /\ chan' = [chan EXCEPT ![g].drained = TRUE]
  /\ UNCHANGED <<generation, started, worker>>

\* A task is put into the current queue, which must be open and have room.
HasRoom == Current.open /\ Len(Current.tasks) < QueueSize
Enqueue(task) ==
  /\ HasRoom
  /\ chan' = [chan EXCEPT ![generation].tasks = Append(@, task)]
  /\ UNCHANGED <<generation, started, worker>>

\* ProcessFilesParallel takes a result, anybody's, from the shared queue.
TakeShared ==
  /\ Current.results # <<>>
  /\ chan' = [chan EXCEPT ![generation].results = Tail(@)]
  /\ UNCHANGED <<generation, started, worker>>

-----------------------------------------------------------------------------
Becomes(w, state) == worker' = [worker EXCEPT ![w] = state]

\* A worker enters its select: the channels are those of the moment.
Loops(w) ==
  /\ worker[w].at = "loop"
  /\ Becomes(w, [worker[w] EXCEPT !.at = "select", !.on = generation])
  /\ UNCHANGED <<generation, started, chan>>

Takes(w) ==
  LET g == worker[w].on
  IN  /\ worker[w].at = "select" /\ chan[g].tasks # <<>>
      /\ Becomes(w, [worker[w] EXCEPT !.at = "parse", !.task = Head(chan[g].tasks), !.attempt = 1])
      /\ chan' = [chan EXCEPT ![g].tasks = Tail(@)]
      /\ UNCHANGED <<generation, started>>

\* The queue is closed and empty, or the context is cancelled, tasks or no.
Exits(w) ==
  LET g == worker[w].on
  IN  /\ worker[w].at = "select"
      /\ chan[g].done \/ (~chan[g].open /\ chan[g].tasks = <<>>)
      /\ Becomes(w, NotRunning)
      /\ UNCHANGED <<generation, started, chan>>

Finishes(w, ok, text) ==
  Becomes(w, [worker[w] EXCEPT !.at = "share",
                !.result = [of |-> worker[w].task.of, ok |-> ok, text |-> text]])

\* One attempt; the last one that fails is the result.
Parses(w, text) ==
  /\ worker[w].at = "parse"
  /\ \/ Finishes(w, TRUE, text)
     \/ worker[w].attempt < RetryAttempts
        /\ Becomes(w, [worker[w] EXCEPT !.attempt = @ + 1])
     \/ worker[w].attempt = RetryAttempts /\ Finishes(w, FALSE, text)
  /\ UNCHANGED <<generation, started, chan>>

\* Mutant of Shares: a worker that finds the shared queue full drops the result.
SharesOrDrops(w) ==
  /\ worker[w].at = "share"
  /\ IF Len(Current.results) < QueueSize
     THEN /\ chan' = [chan EXCEPT ![generation].results = Append(@, worker[w].result)]
          /\ Becomes(w, [worker[w] EXCEPT !.at = "reply"])
     ELSE Becomes(w, [NotRunning EXCEPT !.at = "loop"]) /\ UNCHANGED chan
  /\ UNCHANGED <<generation, started>>

\* The result goes to the shared queue, unless that is full.
Shares(w) ==
  /\ worker[w].at = "share"
  /\ chan' = IF Len(Current.results) < QueueSize
             THEN [chan EXCEPT ![generation].results = Append(@, worker[w].result)]
             ELSE chan
  /\ Becomes(w, [worker[w] EXCEPT !.at = "reply"])
  /\ UNCHANGED <<generation, started>>

\* Then to the task's own channel, if it has one.
Replies(w) ==
  /\ worker[w].at = "reply"
  /\ Becomes(w, [NotRunning EXCEPT !.at = "loop"])
  /\ UNCHANGED <<generation, started, chan>>

PoolInit ==
  /\ generation = 0 /\ started = FALSE
  /\ chan = [g \in 0..MaxGenerations |-> [Fresh EXCEPT !.done = TRUE]]
  /\ worker = [w \in Worker |-> NotRunning]

PoolTypeOK ==
  /\ generation \in 0..MaxGenerations /\ started \in BOOLEAN
  /\ \A g \in 0..MaxGenerations :
       Len(chan[g].tasks) <= QueueSize /\ Len(chan[g].results) <= QueueSize
  /\ \A w \in Running : worker[w].on \in 0..generation
  /\ \A w \in Worker : w[1] > generation => worker[w] = NotRunning
=============================================================================
