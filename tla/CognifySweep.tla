--------------------------- MODULE CognifySweep ---------------------------
(***************************************************************************)
(* CognifyPending (engine/engine_core.go), the sweep behind the command    *)
(* "cognify": it looks for rows that a crash, a Close or an error has left *)
(* behind and cognifies them one after the other on its own goroutine,     *)
(* until a query finds none.  The rows outlive the process; the queue, the *)
(* workers and the splitters do not.                                       *)
(***************************************************************************)
EXTENDS CognifyPipeline

CONSTANTS
  Sweeper,     \* the goroutine of the sweep, one of Caller
  Alone,       \* TRUE: the sweep has the store for itself (the command line)
  SweepLimit,  \* how many rows a query of the sweep returns (1000 in the code)
  MaxCrashes   \* how many times the process dies

ASSUME SweepAssumption ==
  /\ Sweeper \in Caller
  /\ Alone \in BOOLEAN
  /\ SweepLimit \in Nat \ {0}
  /\ MaxCrashes \in Nat

VARIABLES
  sweep,   \* where the loop of CognifyPending is, and its workload
  crashes, \* how many times the process has died
  born     \* the rows of both tables in the order of created_at

sweepVars == <<sweep, crashes>>
allVars == <<vars, sweepVars, born>>

\* A row of either table: an input (chunk None) or a chunk.
RowId == Parent \X (Chunk \cup {None})

\* A datapoint as the query returned it: chunk is None for an input, and row is
\* then the copy of its row.
Item == [input : Parent, chunk : Chunk \cup {None}, status : Status, row : Row]

SweepTypeOK ==
  /\ TypeOK
  /\ sweep.pc \in {"off", "query", "items", "call", "done"}
  /\ sweep.work \subseteq Item
  /\ sweep.progress \in BOOLEAN
  /\ crashes \in 0..MaxCrashes
  /\ born \in Seq(RowId)

NoSweep == [pc |-> "off", work |-> {}, progress |-> FALSE]

SweepInit == Init /\ sweep = NoSweep /\ crashes = 0 /\ born = <<>>

-----------------------------------------------------------------------------
\* The rows that are stored.
Stored ==
  {<<p, None>> : p \in {q \in Parent : input[q].status # "none"}}
  \cup {<<c[1], c>> : c \in {d \in Chunk : chunk[d] # "none"}}

\* A row is created with the time of its creation, which a later upsert keeps; a
\* step creates one row at most.
Births ==
  \/ Stored' = Stored /\ UNCHANGED born
  \/ \E row \in Stored' \ Stored : born' = Append(born, row)

\* What the query of the sweep returns: the rows created last, whatever their
\* status, from both tables.
Newest == {born[i] : i \in {j \in 1..Len(born) : Len(born) - SweepLimit < j}}

\* Mutant of Unfinished: only what was never started is swept.
OnlyPending == {"pending"}

\* The statuses of the workload.
Unfinished == {"pending", "processing"}

\* The rows returned are filtered afterwards.
Workload ==
  {[input |-> p, chunk |-> None, status |-> input[p].status, row |-> input[p]] :
      p \in {q \in Parent : <<q, None>> \in Newest /\ input[q].status \in Unfinished}}
  \cup {[input |-> c[1], chunk |-> c, status |-> chunk[c], row |-> NewRow] :
      c \in {d \in Chunk : <<d[1], d>> \in Newest /\ chunk[d] \in Unfinished}}

\* Nobody holds the copy that Add returned any more: from now on these inputs
\* are known by their rows only.
HandedByRow == handed' = handed \cup {p \in Parent : input[p].status # "none"}

\* A sweep that has the store for itself runs when nothing else is at work, and
\* is then what cognifies the inputs that were only added.
SweepStart ==
  /\ sweep.pc = "off" /\ run[Sweeper].pc = "idle"
  /\ Alone => /\ queue = <<>> /\ \A p \in Parent : feeder[p] = 0
              /\ \A r \in Runner : run[r].pc = "idle"
  /\ IF Alone THEN HandedByRow ELSE UNCHANGED handed
  /\ sweep' = [sweep EXCEPT !.pc = "query"]
  /\ UNCHANGED <<input, chunk, queue, feeder, run, quit, faults, crashes>>

\* QueryDataPoints, whose error ends the sweep, and the choice of the workload.
SweepQuery ==
  /\ sweep.pc = "query"
  /\ \/ /\ sweep' = [pc |-> IF Workload = {} THEN "done" ELSE "items",
                     work |-> Workload, progress |-> FALSE]
        /\ UNCHANGED faults
     \/ Fault(1) /\ sweep' = [NoSweep EXCEPT !.pc = "done"]
  /\ UNCHANGED <<input, chunk, handed, queue, feeder, run, quit, crashes>>

\* The query sorts by created_at, newest first: a chunk comes before the chunks
\* of lower index and before its input.
Before(a, b) ==
  /\ a.input = b.input /\ a.chunk # None
  /\ b.chunk = None \/ b.chunk[2] < a.chunk[2]

\* Mutant of Reset: the row is put to the status retrying of the diagram.
ResetRetrying(item) ==
  IF item.chunk = None
  THEN input' = [input EXCEPT ![item.input] = [item.row EXCEPT !.status = "retrying"]]
       /\ UNCHANGED chunk
  ELSE chunk' = [chunk EXCEPT ![item.chunk] = "retrying"] /\ UNCHANGED input

\* The row as it was read is put back to pending.
Reset(item) ==
  IF item.chunk = None
  THEN input' = [input EXCEPT ![item.input] = [item.row EXCEPT !.status = "pending"]]
       /\ UNCHANGED chunk
  ELSE chunk' = [chunk EXCEPT ![item.chunk] = "pending"] /\ UNCHANGED input

\* Mutant of SweepItem: chunks_created is not looked at.
SweepSplitAgain ==
  /\ sweep.pc = "items"
  /\ \E item \in sweep.work :
       /\ \A other \in sweep.work : ~Before(other, item)
       /\ IF item.status = "processing" THEN Reset(item)
                                        ELSE UNCHANGED <<input, chunk>>
       /\ Enter(Sweeper, item.input, item.chunk, FALSE)
       /\ sweep' = [sweep EXCEPT !.pc = "call", !.work = @ \ {item}]
  /\ UNCHANGED <<handed, queue, feeder, quit, crashes, faults>>

\* One item: reset it when it was found processing, then Cognify it and wait.
SweepItem ==
  /\ sweep.pc = "items"
  /\ \E item \in sweep.work :
       /\ \A other \in sweep.work : ~Before(other, item)
       /\ \/ /\ IF item.status = "processing" THEN Reset(item)
                                              ELSE UNCHANGED <<input, chunk>>
             /\ Enter(Sweeper, item.input, item.chunk, item.row.split)
             /\ sweep' = [sweep EXCEPT !.pc = "call", !.work = @ \ {item}]
             /\ UNCHANGED faults
          \/ /\ item.status = "processing" /\ Fault(1)
             /\ sweep' = [sweep EXCEPT !.work = @ \ {item}]
             /\ UNCHANGED <<input, chunk, run>>
  /\ UNCHANGED <<handed, queue, feeder, quit, crashes>>

SweepReturn ==
  /\ sweep.pc = "call" /\ run[Sweeper].pc = "idle"
  /\ sweep' = [sweep EXCEPT !.pc = "items",
                            !.progress = @ \/ run[Sweeper].ret = "ok"]
  /\ UNCHANGED <<vars, crashes>>

\* Another round as long as one item of this one was cognified without error.
SweepRound ==
  /\ sweep.pc = "items" /\ sweep.work = {}
  /\ sweep' = [sweep EXCEPT !.pc = IF sweep.progress THEN "query" ELSE "done"]
  /\ UNCHANGED <<vars, crashes>>

\* The process dies and is started again: only the rows are left.
Crash ==
  /\ crashes < MaxCrashes
  /\ crashes' = crashes + 1
  /\ sweep' = NoSweep
  /\ queue' = <<>>
  /\ feeder' = [p \in Parent |-> 0]
  /\ run' = [r \in Runner |-> NewFrame]
  /\ quit' = FALSE
  /\ HandedByRow
  /\ UNCHANGED <<input, chunk, faults>>

\* The clients, workers and splitters that are not the sweep.
Others ==
  \/ \E p \in Parent : Add(p) \/ CognifyAsync(p) \/ Feed(p)
  \/ \E r \in Caller \ {Sweeper}, p \in Parent : CognifyWait(r, p)
  \/ \E w \in Worker : Take(w) \/ Exit(w)
  \/ \E r \in Runner \ {Sweeper} : Execute(r)

SweepStep ==
  /\ \/ SweepQuery \/ SweepItem \/ SweepReturn \/ SweepRound
     \/ Execute(Sweeper) /\ UNCHANGED sweepVars
  /\ Births

SweepNext ==
  \/ (SweepStart \/ Crash) /\ UNCHANGED born
  \/ SweepStep
  \/ /\ Alone => sweep.pc \in {"off", "done"}
     /\ Others
     /\ UNCHANGED sweepVars
     /\ Births

SweepSpec == SweepInit /\ [][SweepNext]_allVars

\* The sweep is one goroutine that never waits for another.
SweepFairSpec == SweepSpec /\ WF_allVars(SweepStep)

-----------------------------------------------------------------------------
(* Correctness.                                                            *)

\* What a crash may leave for the sweep to pick up: no chunk between cognify and
\* memify and none failed (the workload is pending and processing only), no
\* input without chunks, and no input completed ahead of its chunks.
Recoverable ==
  /\ \A c \in Chunk : chunk[c] \notin {"cognified", "failed"}
  /\ \A p \in Parent : input[p].status # "none" =>
       input[p].status # "failed" /\ ChunksOf(p) # {}
  /\ CompletedMeansDone

\* Everything within the sweep's reach is done.  What lies behind SweepLimit newer
\* rows is never looked at, pending or not; while all rows fit, this is everything.
ReachDone ==
  /\ \A p \in Parent : <<p, None>> \in Newest =>
       input[p].status = "completed" /\ Finished(p)
  /\ \A c \in Chunk : <<c[1], c>> \in Newest => chunk[c] = "completed"

\* From a recoverable state the sweep completes every input and chunk it can see,
\* wherever the process died: before, during or after the split, and although the
\* chunks it creates push older rows out of its sight (engine_core.go,
\* CognifyPending).
SweepRecovers ==
  sweep.pc = "query" /\ Recoverable ~> ReachDone \/ sweep.pc = "off" \/ faults > 0

\* The sweep may repeat a chunk only while its input is being split again: once
\* the split is published, a completed chunk is never taken back, although the
\* workload was read before the previous items were processed.
PublishedWorkKept ==
  [][\A c \in Chunk : chunk[c] = "completed" /\ input[c[1]].split
        => chunk'[c] = "completed"]_allVars

\* "CognifyPending keeps sweeping [...] until no more work remains": it ends.
SweepTerminates == sweep.pc = "query" ~> sweep.pc \in {"done", "off"}
=============================================================================
