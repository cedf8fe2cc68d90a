------------------------- MODULE CognifyPipeline -------------------------
(***************************************************************************)
(* The asynchronous ingestion pipeline of the memory engine: the worker    *)
(* pool (engine/worker_pool.go), the Cognify and Memify tasks it runs      *)
(* (engine/task_cognify.go, engine/task_memify.go) and the calls that feed *)
(* it (Add, Cognify and Close in engine/engine_core.go).                   *)
(*                                                                         *)
(* An input is split into chunk datapoints.  Each chunk is cognified and   *)
(* then memified; the memify of a chunk ends by reading the row of its     *)
(* input, counting the completed chunks and writing the whole row back.    *)
(* Every call on the relational store is one atomic step, and between two  *)
(* calls of one goroutine the steps of all the others may happen.          *)
(*                                                                         *)
(* What a datapoint contains is abstracted away: the result of the LLM and *)
(* of the embedder never decides what the tasks do to the statuses (their  *)
(* errors are logged and the chunk still becomes cognified).               *)
(***************************************************************************)
EXTENDS Integers, Sequences, FiniteSets

CONSTANTS
  Parent,      \* the inputs stored by Add (rows of table input_datapoints)
  ChunkCount,  \* how many chunks ParseText cuts each input into
  Worker,      \* the goroutines started by WorkerPool.Start
  Caller,      \* goroutines that call Cognify with WithWaitCognify(true)
  QueueCap,    \* capacity of taskQueue (1000 in the code)
  MaxFaults,   \* how many store calls may fail in a behaviour
  None         \* "not at the level of a chunk"

ChunksOf(p) == {p} \X (1..ChunkCount[p])

\* The rows of table datapoints: child i of p has the ID "p-chunk-i".
Chunk == UNION {ChunksOf(p) : p \in Parent}

Runner == Worker \cup Caller

ASSUME ConstantsAssumption ==
  /\ ChunkCount \in [Parent -> Nat]
  /\ QueueCap \in Nat \ {0}
  /\ MaxFaults \in Nat
  /\ Worker \cap Caller = {}
  /\ None \notin Chunk \cup Parent

VARIABLES
  input,   \* row of each input: status and the two metadata keys that matter
  chunk,   \* processing_status of each chunk row, "none" when there is no row
  handed,  \* the inputs whose adder has called Cognify
  queue,   \* WorkerPool.taskQueue
  feeder,  \* next child the splitter goroutine of an input submits, 0 if none
  run,     \* what each goroutine that executes tasks is doing
  quit,    \* WorkerPool.quit is closed
  faults   \* how many store calls have failed

vars == <<input, chunk, handed, queue, feeder, run, quit, faults>>

-----------------------------------------------------------------------------
Status == {"none", "pending", "processing", "cognified", "completed", "failed"}

\* split is metadata "chunks_created", processed is "processed_chunks".
Row == [status : Status, split : BOOLEAN, processed : Nat]

Task == [kind : {"cognify", "memify"}, input : Parent, chunk : Chunk \cup {None}]

PC == {"idle", "exited",                        \* between tasks
       "split", "publish", "failInput",         \* Execute on an input
       "mark", "extract", "chain", "memify",    \* Execute on a chunk
       "load", "count", "save"}                 \* syncParentStatusFromChildren

\* nested: the chunk is executed inline by the Execute of its own input.
\* next:   the child to be created, or to be executed inline.
\* copy:   chunks_created in the copy of the input row held in memory.
\* tally, all: what the last count of the children found.
\* ret:    what the last finished call returned.
Frame == [pc : PC, input : Parent \cup {None}, chunk : Chunk \cup {None},
          nested : BOOLEAN, next : Nat \ {0}, copy : BOOLEAN,
          tally : Nat, all : BOOLEAN, ret : {"none", "ok", "err"}]

\* A goroutine that enters a step with nothing counted yet.
FrameAt(label, p, c, inline, i, split) ==
  [pc |-> label, input |-> p, chunk |-> c, nested |-> inline, next |-> i,
   copy |-> split, tally |-> 0, all |-> FALSE, ret |-> "none"]

IdleFrame(result) ==
  [pc |-> "idle", input |-> None, chunk |-> None, nested |-> FALSE, next |-> 1,
   copy |-> FALSE, tally |-> 0, all |-> FALSE, ret |-> result]

NewFrame == IdleFrame("none")

NewRow == [status |-> "none", split |-> FALSE, processed |-> 0]

TypeOK ==
  /\ input \in [Parent -> Row]
  /\ chunk \in [Chunk -> Status]
  /\ handed \in SUBSET Parent
  /\ queue \in Seq(Task)
  /\ Len(queue) <= QueueCap
  /\ feeder \in [Parent -> Nat]
  /\ \A p \in Parent : feeder[p] <= ChunkCount[p]
  /\ run \in [Runner -> Frame]
  /\ quit \in BOOLEAN
  /\ faults \in 0..MaxFaults

Init ==
  /\ input = [p \in Parent |-> NewRow]
  /\ chunk = [c \in Chunk |-> "none"]
  /\ handed = {}
  /\ queue = <<>>
  /\ feeder = [p \in Parent |-> 0]
  /\ run = [r \in Runner |-> NewFrame]
  /\ quit = FALSE
  /\ faults = 0

-----------------------------------------------------------------------------
(* Steps shared by the actions.                                            *)

\* UpdateDataPoint or StoreDataPoint fails; the row is left as it was.
Fault(n) == faults + n <= MaxFaults /\ faults' = faults + n

\* Mutant of Submit: a send that gives up when the queue is full.
TrySubmit(task) ==
  queue' = IF Len(queue) < QueueCap THEN Append(queue, task) ELSE queue

\* The blocking send of WorkerPool.Submit.
Submit(task) == Len(queue) < QueueCap /\ queue' = Append(queue, task)

CognifyTask(p, c) == [kind |-> "cognify", input |-> p, chunk |-> c]
MemifyTask(p, c)  == [kind |-> "memify", input |-> p, chunk |-> c]

Goto(r, label) == run' = [run EXCEPT ![r].pc = label]

\* Execute returns: a worker only logs the error and goes back to its select.
Return(r, result) ==
  run' = [run EXCEPT ![r] =
            IdleFrame(IF r \in Caller THEN result ELSE "none")]

\* The entry of CognifyTask.Execute, which branches on what the datapoint is.
Enter(r, p, c, split) ==
  run' = [run EXCEPT ![r] =
    FrameAt(IF c # None THEN "mark" ELSE IF split THEN "count" ELSE "split",
            p, c, FALSE, 1, split)]

\* The inline loop over the children (WaitUntilComplete) goes to child i, or
\* after the last one to the closing syncParentStatusFromChildren.
Inline(r, p, i) ==
  run' = [run EXCEPT ![r] =
    IF i <= ChunkCount[p]
    THEN FrameAt("mark", p, <<p, i>>, TRUE, i + 1, FALSE)
    ELSE FrameAt("count", p, None, FALSE, 1, TRUE)]

\* What follows the end of syncParentStatusFromChildren, whose error is logged.
Synced(r) ==
  IF run[r].nested THEN Inline(r, run[r].input, run[r].next)
                   ELSE Return(r, "ok")

\* Mutant of Aborted: the inline loop goes on after the error of a child.
AbortedGoesOn(r) ==
  IF run[r].nested THEN Inline(r, run[r].input, run[r].next) ELSE Return(r, "err")

\* What follows the error return of a chunk: inline, the input fails as well.
Aborted(r) ==
  IF run[r].nested THEN Goto(r, "failInput") ELSE Return(r, "err")

\* A write of the chunk fails, and fail() makes up to n attempts to write it as
\* failed; their errors are ignored.
FailChunk(r, n) ==
  /\ \/ /\ \E k \in 1..n : Fault(k)
        /\ chunk' = [chunk EXCEPT ![run[r].chunk] = "failed"]
     \/ Fault(n + 1) /\ UNCHANGED chunk
  /\ Aborted(r)

-----------------------------------------------------------------------------
(* The calls of the engine's clients.                                      *)

Add(p) ==
  /\ input[p].status = "none"
  /\ input' = [input EXCEPT ![p].status = "pending"]
  /\ UNCHANGED <<chunk, handed, queue, feeder, run, quit, faults>>

\* Cognify without WithWaitCognify: the caller blocks in Submit when it is full.
CognifyAsync(p) ==
  /\ input[p].status # "none" /\ p \notin handed
  /\ Submit(CognifyTask(p, None))
  /\ handed' = handed \cup {p}
  /\ UNCHANGED <<input, chunk, feeder, run, quit, faults>>

\* Cognify with WithWaitCognify(true): Execute runs on the caller's goroutine.
CognifyWait(r, p) ==
  /\ r \in Caller /\ run[r].pc = "idle"
  /\ input[p].status # "none" /\ p \notin handed
  /\ Enter(r, p, None, FALSE)
  /\ handed' = handed \cup {p}
  /\ UNCHANGED <<input, chunk, queue, feeder, quit, faults>>

\* Close: close(quit); the wait for the workers is the property CloseReturns.
Close ==
  /\ ~quit
  /\ quit' = TRUE
  /\ UNCHANGED <<input, chunk, handed, queue, feeder, run, faults>>

-----------------------------------------------------------------------------
(* The loop of a worker.  When a task and quit are both ready the select   *)
(* picks either.                                                           *)

Take(w) ==
  /\ w \in Worker /\ run[w].pc = "idle" /\ queue # <<>>
  /\ LET t == Head(queue) IN
       IF t.kind = "cognify"
       THEN Enter(w, t.input, t.chunk, FALSE)
       ELSE run' = [run EXCEPT ![w] =
                      FrameAt("memify", t.input, t.chunk, FALSE, 1, FALSE)]
  /\ queue' = Tail(queue)
  /\ UNCHANGED <<input, chunk, handed, feeder, quit, faults>>

Exit(w) ==
  /\ w \in Worker /\ run[w].pc = "idle" /\ quit
  /\ Goto(w, "exited")
  /\ UNCHANGED <<input, chunk, handed, queue, feeder, quit, faults>>

-----------------------------------------------------------------------------
(* CognifyTask.Execute on an input: create one child row after the other,  *)
(* then write chunks_created.  A failed write makes the input failed, with *)
(* the children created so far left behind.                                *)

FailInput(r, split) ==
  /\ \/ Fault(1) /\ input' = [input EXCEPT ![run[r].input] =
                      [status |-> "failed", split |-> split, processed |-> 0]]
     \/ Fault(2) /\ UNCHANGED input
  /\ Return(r, "err")

CreateChild(r) ==
  LET p == run[r].input
      i == run[r].next IN
  /\ run[r].pc = "split"
  /\ IF i <= ChunkCount[p]
     THEN \/ /\ chunk' = [chunk EXCEPT ![<<p, i>>] = "pending"]
             /\ run' = [run EXCEPT ![r].next = i + 1]
             /\ UNCHANGED <<input, faults>>
          \/ FailInput(r, FALSE) /\ UNCHANGED chunk
     ELSE Goto(r, "publish") /\ UNCHANGED <<input, chunk, faults>>
  /\ UNCHANGED <<handed, queue, feeder, quit>>

\* Mutant of Publish: the goroutine is started for a waiting caller as well.
PublishTwice(r) ==
  LET p == run[r].input IN
  /\ run[r].pc = "publish"
  /\ input' = [input EXCEPT ![p] =
                 [status |-> "processing", split |-> TRUE, processed |-> 0]]
  /\ IF r \in Caller THEN Inline(r, p, 1) ELSE Return(r, "ok")
  /\ feeder' = [feeder EXCEPT ![p] = IF ChunkCount[p] > 0 THEN 1 ELSE 0]
  /\ UNCHANGED <<chunk, handed, queue, quit, faults>>

\* The split is published.  A worker leaves the children to a goroutine; a
\* waiting caller goes on with the first child, or returns if there is none.
Publish(r) ==
  LET p == run[r].input IN
  /\ run[r].pc = "publish"
  /\ \/ /\ input' = [input EXCEPT ![p] =
                       [status |-> "processing", split |-> TRUE, processed |-> 0]]
        /\ IF r \in Caller /\ ChunkCount[p] > 0
           THEN Inline(r, p, 1) /\ UNCHANGED feeder
           ELSE /\ Return(r, "ok")
                /\ feeder' = [feeder EXCEPT ![p] = IF ChunkCount[p] > 0 THEN 1 ELSE 0]
        /\ UNCHANGED faults
     \/ FailInput(r, TRUE) /\ UNCHANGED feeder
  /\ UNCHANGED <<chunk, handed, queue, quit>>

\* The error of an inline child: fail() on the input, then the error return.
FailNested(r) ==
  /\ run[r].pc = "failInput"
  /\ \/ /\ input' = [input EXCEPT ![run[r].input] =
              [status |-> "failed", split |-> TRUE, processed |-> 0]]
        /\ UNCHANGED faults
     \/ Fault(1) /\ UNCHANGED input
  /\ Return(r, "err")
  /\ UNCHANGED <<chunk, handed, queue, feeder, quit>>

\* Mutants of Feed: the splitter starts over instead of ending; it does not see
\* the end.
FeedAgain(p) ==
  /\ feeder[p] # 0
  /\ Submit(CognifyTask(p, <<p, feeder[p]>>))
  /\ feeder' = [feeder EXCEPT ![p] = IF @ = ChunkCount[p] THEN 1 ELSE @ + 1]
  /\ UNCHANGED <<input, chunk, handed, run, quit, faults>>
FeedPastEnd(p) ==
  /\ feeder[p] # 0
  /\ Submit(CognifyTask(p, <<p, feeder[p]>>))
  /\ feeder' = [feeder EXCEPT ![p] = IF @ > ChunkCount[p] THEN 0 ELSE @ + 1]
  /\ UNCHANGED <<input, chunk, handed, run, quit, faults>>

\* The goroutine that submits the children of a split input in order.
Feed(p) ==
  /\ feeder[p] # 0
  /\ Submit(CognifyTask(p, <<p, feeder[p]>>))
  /\ feeder' = [feeder EXCEPT ![p] = IF @ = ChunkCount[p] THEN 0 ELSE @ + 1]
  /\ UNCHANGED <<input, chunk, handed, run, quit, faults>>

-----------------------------------------------------------------------------
(* CognifyTask.Execute on a chunk.                                         *)

\* The error of this write is only logged.
Mark(r) ==
  /\ run[r].pc = "mark"
  /\ \/ /\ chunk' = [chunk EXCEPT ![run[r].chunk] = "processing"]
        /\ UNCHANGED faults
     \/ Fault(1) /\ UNCHANGED chunk
  /\ Goto(r, "extract")
  /\ UNCHANGED <<input, handed, queue, feeder, quit>>

\* Mutant of Extract: the chunk is saved as completed before its memify.
ExtractEarly(r) ==
  /\ run[r].pc = "extract"
  /\ chunk' = [chunk EXCEPT ![run[r].chunk] = "completed"]
  /\ Goto(r, IF r \in Caller THEN "memify" ELSE "chain")
  /\ UNCHANGED <<input, handed, queue, feeder, quit, faults>>

\* Embed and extract, then save the drafts with status cognified.
Extract(r) ==
  /\ run[r].pc = "extract"
  /\ \/ /\ chunk' = [chunk EXCEPT ![run[r].chunk] = "cognified"]
        /\ Goto(r, IF r \in Caller THEN "memify" ELSE "chain")
        /\ UNCHANGED faults
     \/ FailChunk(r, 1)
  /\ UNCHANGED <<input, handed, queue, feeder, quit>>

\* A worker hands the memify to the pool it is itself a worker of.
Chain(r) ==
  /\ run[r].pc = "chain"
  /\ Submit(MemifyTask(run[r].input, run[r].chunk))
  /\ Return(r, "ok")
  /\ UNCHANGED <<input, chunk, handed, feeder, quit, faults>>

-----------------------------------------------------------------------------
(* MemifyTask.Execute, and syncParentStatusFromChildren which it ends with. *)

\* On a caller's goroutine the Cognify task around it calls its fail() as well.
Memify(r) ==
  /\ run[r].pc = "memify"
  /\ \/ /\ chunk' = [chunk EXCEPT ![run[r].chunk] = "completed"]
        /\ Goto(r, "load")
        /\ UNCHANGED faults
     \/ FailChunk(r, IF r \in Caller THEN 2 ELSE 1)
  /\ UNCHANGED <<input, handed, queue, feeder, quit>>

\* GetDataPoint of the input: a copy is taken, no lock is.
LoadInput(r) ==
  /\ run[r].pc = "load"
  /\ \/ /\ run' = [run EXCEPT ![r].copy = input[run[r].input].split, ![r].pc = "count"]
        /\ UNCHANGED faults
     \/ Fault(1) /\ Synced(r)
  /\ UNCHANGED <<input, chunk, handed, queue, feeder, quit>>

Completed(p) == {c \in ChunksOf(p) : chunk[c] = "completed"}
Present(p) == {c \in ChunksOf(p) : chunk[c] # "none"}

\* Mutant of CountChildren: a cognified chunk counts as done.
CountDrafts(r) ==
  LET p == run[r].input IN
  /\ run[r].pc = "count"
  /\ run' = [run EXCEPT
       ![r].tally = Cardinality(Completed(p)),
       ![r].all = \A c \in Present(p) : chunk[c] \in {"cognified", "completed"},
       ![r].pc = "save"]
  /\ UNCHANGED <<input, chunk, handed, queue, feeder, quit, faults>>

\* QueryDataPoints: count the rows whose parent_id is the input.
CountChildren(r) ==
  LET p == run[r].input IN
  /\ run[r].pc = "count"
  /\ \/ /\ run' = [run EXCEPT
             ![r].tally = Cardinality(Completed(p)),
             ![r].all = Present(p) # {} /\ Present(p) = Completed(p),
             ![r].pc = "save"]
        /\ UNCHANGED faults
     \/ Fault(1) /\ Synced(r)
  /\ UNCHANGED <<input, chunk, handed, queue, feeder, quit>>

\* Mutant of SaveInput: the counter is incremented instead of recomputed.
SaveIncrement(r) ==
  /\ run[r].pc = "save"
  /\ input' = [input EXCEPT ![run[r].input] =
       [status |-> IF run[r].all THEN "completed" ELSE "processing",
        split |-> run[r].copy, processed |-> @.processed + 1]]
  /\ Synced(r)
  /\ UNCHANGED <<chunk, handed, queue, feeder, quit, faults>>

\* UpdateDataPoint of the input: the whole row is written from the copy.
SaveInput(r) ==
  /\ run[r].pc = "save"
  /\ \/ /\ input' = [input EXCEPT ![run[r].input] =
             [status |-> IF run[r].all THEN "completed" ELSE "processing",
              split |-> run[r].copy, processed |-> run[r].tally]]
        /\ UNCHANGED faults
     \/ Fault(1) /\ UNCHANGED input
  /\ Synced(r)
  /\ UNCHANGED <<chunk, handed, queue, feeder, quit>>

-----------------------------------------------------------------------------
\* The steps of Execute, by whichever goroutine runs it.
Execute(r) ==
  \/ CreateChild(r) \/ Publish(r) \/ FailNested(r)
  \/ Mark(r) \/ Extract(r) \/ Chain(r) \/ Memify(r)
  \/ LoadInput(r) \/ CountChildren(r) \/ SaveInput(r)

Next ==
  \/ \E p \in Parent : Add(p) \/ CognifyAsync(p) \/ Feed(p)
  \/ \E r \in Caller, p \in Parent : CognifyWait(r, p)
  \/ \E w \in Worker : Take(w) \/ Exit(w)
  \/ \E r \in Runner : Execute(r)
  \/ Close

Spec == Init /\ [][Next]_vars

\* Goroutines are scheduled and store calls return.  Nothing makes a client
\* call Add, Cognify or Close.
Fairness ==
  /\ \A r \in Runner : WF_vars(Execute(r))
  /\ \A w \in Worker : WF_vars(Take(w) \/ Exit(w))
  /\ \A p \in Parent : WF_vars(Feed(p))

FairSpec == Spec /\ Fairness

-----------------------------------------------------------------------------
(* Correctness.                                                            *)

Finished(p) == ChunksOf(p) # {} /\ Completed(p) = ChunksOf(p)

\* A goroutine holds the chunk between Take (or Inline) and its last write.
Holds(r, c) == run[r].chunk = c /\ run[r].pc \in {"mark", "extract", "chain", "memify"}

\* The chunk is still to come in the inline loop of a waiting caller.
Ahead(r, c) ==
  /\ run[r].nested /\ run[r].input = c[1] /\ run[r].pc # "failInput"
  /\ run[r].next <= c[2]

InQueue(i, c) == queue[i].chunk = c
ToFeed(c) == feeder[c[1]] # 0 /\ feeder[c[1]] <= c[2]

\* Where the work still to be done for a chunk lies.
Holders(c) ==
  {<<"queue", i>> : i \in {j \in 1..Len(queue) : InQueue(j, c)}}
  \cup {<<"run", r>> : r \in {q \in Runner : Holds(q, c) \/ Ahead(q, c)}}
  \cup (IF ToFeed(c) THEN {<<"feeder", c[1]>>} ELSE {})

\* A chunk is never in the hands of two at once, however the splitter, the
\* queue, the workers and a waiting caller interleave: no chunk is extracted
\* twice (worker_pool.go, task_cognify.go).
SingleCustody == \A c \in Chunk : \A h, k \in Holders(c) : h = k

\* As long as no store call has failed, a chunk of a split input that is not
\* completed is still somebody's work: the chain child task, cognify, memify
\* drops nothing (task_cognify.go, steps 7 and 8).
NothingLost ==
  faults = 0 =>
    \A c \in Chunk :
      input[c[1]].split /\ chunk[c] # "completed" => Holders(c) # {}

\* An input whose row says completed has chunks, and all of them are completed
\* (syncParentStatusFromChildren never announces early, task_cognify.go).
CompletedMeansDone ==
  \A p \in Parent : input[p].status = "completed" => Finished(p)

\* processed_chunks never promises more than what is done, even when several
\* goroutines write the row from copies of different ages.
ProcessedIsEarned ==
  \A p \in Parent : input[p].processed <= Cardinality(Completed(p))

\* Cognify with WithWaitCognify(true) returns without an error only when every
\* chunk of the input has been memified (interface.go, WithWaitCognify).
WaitMeansDone ==
  [][\A r \in Caller, p \in Parent :
       run[r].input = p /\ run'[r].ret = "ok" => Finished(p)' \/ ChunksOf(p) = {}]_vars

\* The workers are never all blocked in the send of a memify on a full queue:
\* nobody would be left to receive (worker_pool.go, Submit; the comments of
\* task_cognify.go on the queue being full).
PoolNeverJams ==
  ~ /\ \A w \in Worker : run[w].pc = "chain"
    /\ Len(queue) = QueueCap

\* The status diagram has no edge out of completed: an input shown as completed
\* stays so.
CompletedIsFinal ==
  [][\A p \in Parent : input[p].status = "completed" => input'[p].status = "completed"]_vars

\* Once all its chunks are completed the row of the input says completed in the
\* end (the sync a memify ends with, task_memify.go).
InputCatchesUp ==
  \A p \in Parent : Finished(p) ~> input[p].status = "completed" \/ faults > 0

\* An input handed to Cognify is brought to an end: each chunk completed or
\* failed, or the split itself failed, unless the engine is closed first or a
\* second store failure swallows the report of the first.
HandedIsProcessed ==
  \A p \in Parent :
    p \in handed ~>
      \/ \A c \in ChunksOf(p) : chunk[c] \in {"completed", "failed"}
      \/ input[p].status = "failed"
      \/ quit \/ faults > 1

\* Close returns: after quit is closed every worker ends its task and exits
\* (engine_core.go, Close waits for them).  It does not hold: the splitters keep
\* on submitting, and a worker in Submit waits for the workers that have exited.
CloseReturns == quit ~> \A w \in Worker : run[w].pc = "exited"

\* The pipeline implements the contract, with the status column as the life of
\* a chunk and the completed inputs as the announced ones.
Contract == INSTANCE IngestContract WITH
  Input <- Parent,
  Part <- [p \in Parent |-> ChunksOf(p)],
  life <- chunk,
  announced <- {p \in Parent : input[p].status = "completed"}

ImplementsContract == Contract!ContractSpec
=============================================================================
