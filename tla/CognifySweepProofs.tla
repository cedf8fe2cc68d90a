------------------------ MODULE CognifySweepProofs ------------------------
(***************************************************************************)
(* Proofs about the sweep of CognifyPending, over any number of crashes.   *)
(*                                                                         *)
(* Beside the sweep, between two crashes, the flow of the tasks is the one *)
(* of CognifyPipelineProofs; what the rows say is not, for a crash in the  *)
(* middle of a split and a failed write leave rows that no other run does. *)
(* While a sweep has the store for itself nothing else runs, and the       *)
(* invariant says what is left of the workload it has read: the chunks in  *)
(* it are as they were, and an input is split again only when its chunks   *)
(* have left the workload.                                                 *)
(***************************************************************************)
EXTENDS CognifySweep, CognifyPipelineProofs

ItemOK(item) == item.chunk # None => item.chunk \in ChunksOf(item.input)

SweepTypes ==
  /\ TypeInv
  /\ sweep \in [pc : {"off", "query", "items", "call", "done"}, work : SUBSET Item,
                progress : BOOLEAN]
  /\ \A item \in sweep.work : ItemOK(item)
  /\ crashes \in 0..MaxCrashes

\* What the query counts by.
BornOK == born \in Seq(RowId)

-----------------------------------------------------------------------------
Sweeping == sweep.pc \in {"query", "items", "call"}

\* While it sweeps nothing else is at work, and no input is without its row.
AloneOK ==
  Sweeping =>
    /\ queue = <<>>
    /\ \A p \in Parent : feeder[p] = 0
    /\ \A r \in Runner \ {Sweeper} : run[r].pc = "idle"
    /\ \A p \in Parent : input[p].status # "none" => p \in handed

RestOK ==
  /\ sweep.pc # "call" => run[Sweeper].pc = "idle"
  /\ sweep.pc \notin {"items", "call"} => sweep.work = {}

UnbornOK == \A p \in Parent : p \notin handed => \A c \in ChunksOf(p) : chunk[c] = "none"

\* What is still to be done of the workload is as it was read.
ItemKept(item) ==
  /\ item.input \in handed
  /\ item.chunk # None => item.status \in Unfinished /\ chunk[item.chunk] = item.status
  /\ item.chunk = None => item.row.split = input[item.input].split

WorkOK ==
  /\ \A item \in sweep.work : ItemKept(item)
  /\ \A a, b \in sweep.work : a.input = b.input /\ a.chunk = b.chunk => a = b

\* The Cognify the sweep is in.
Resplits(f) ==
  Splits(f) =>
    /\ ~input[f.input].split
    /\ \A c \in ChunksOf(f.input) : c[2] < f.next => chunk[c] = "pending"
    /\ f.pc = "publish" => ChunkCount[f.input] < f.next

NotInWork(f) ==
  \A item \in sweep.work : item.input = f.input =>
    f.chunk # None /\ ~f.nested /\ item.chunk # f.chunk

CallOK(f) ==
  /\ f.pc \notin {"chain", "exited"}
  /\ f.pc # "idle" =>
       /\ f.input \in handed
       /\ Resplits(f)
       /\ \A c \in Chunk : FrameStaged(f, c, chunk[c])
       /\ f.nested => f.chunk = <<f.input, f.next - 1>> /\ input[f.input].split
       /\ f.pc = "failInput" => f.nested
       /\ f.pc \in {"count", "save"} => f.copy = input[f.input].split
       /\ NotInWork(f)

SweepInv ==
  /\ SweepTypes
  /\ AloneOK /\ RestOK /\ UnbornOK /\ WorkOK
  /\ Sweeping => CallOK(run[Sweeper])
  /\ ~Sweeping => FlowOK

-----------------------------------------------------------------------------
(* Types.                                                                  *)

LEMMA SweeperRuns == Sweeper \in Caller /\ Sweeper \in Runner /\ Sweeper \notin Worker
BY SweepAssumption, ConstantsAssumption DEF Runner

\* The workload is made of the rows there are.
LEMMA WorkloadTyped ==
  ASSUME TypeInv
  PROVE  Workload \subseteq Item /\ \A item \in Workload : ItemOK(item)
<1> SUFFICES ASSUME NEW item \in Workload PROVE item \in Item /\ ItemOK(item)
  OBVIOUS
<1>1. CASE \E p \in Parent :
             item = [input |-> p, chunk |-> None, status |-> input[p].status, row |-> input[p]]
  BY <1>1 DEF Item, ItemOK, TypeInv, RowsOK, Row
<1>2. CASE \E c \in Chunk :
             item = [input |-> c[1], chunk |-> c, status |-> chunk[c], row |-> NewRow]
  <2>1. NewRow \in Row
    BY DEF NewRow, Row, Status
  <2> QED
    BY <1>2, <2>1, ChunkOf DEF Item, ItemOK, TypeInv, RowsOK
<1> QED
  BY <1>1, <1>2 DEF Workload

LEMMA ExecuteType ==
  ASSUME TypeInv, NEW r \in Runner, Execute(r)
  PROVE  TypeInv'
BY CreateChildType, PublishType, FailNestedType, MarkType, ExtractType,
   ChainType, MemifyType, LoadInputType, CountChildrenType, SaveInputType
   DEF Execute

LEMMA OthersAreSteps ==
  ASSUME Others
  PROVE  Next
BY DEF Others, Next

LEMMA OthersType ==
  ASSUME TypeInv, Others
  PROVE  TypeInv'
<1>1. ASSUME NEW p \in Parent, Add(p) \/ CognifyAsync(p) \/ Feed(p) PROVE TypeInv'
  BY <1>1, AddType, CognifyAsyncType, FeedType
<1>2. ASSUME NEW r \in Caller, NEW p \in Parent, CognifyWait(r, p) PROVE TypeInv'
  BY <1>2, CognifyWaitType DEF Runner
<1>3. ASSUME NEW w \in Worker, Take(w) \/ Exit(w) PROVE TypeInv'
  BY <1>3, TakeType, ExitType DEF Runner
<1> QED
  BY <1>1, <1>2, <1>3, ExecuteType DEF Others

\* The goroutines and the queue of a new process.
LEMMA CrashType ==
  ASSUME SweepTypes, Crash
  PROVE  TypeInv'
<1>1. NewFrame \in Frame /\ FrameOK(NewFrame)
  BY DEF NewFrame, IdleFrame, Frame, PC, FrameOK
<1>2. RunsOK'
  BY <1>1 DEF RunsOK, Crash
<1>3. QueueOK'
  BY ConstantsAssumption DEF QueueOK, Crash
<1>4. FeedersOK'
  BY ConstantsAssumption DEF FeedersOK, Crash
<1>5. RowsOK' /\ handed' \in SUBSET Parent /\ quit' \in BOOLEAN /\ faults' \in 0..MaxFaults
  BY DEF SweepTypes, TypeInv, RowsOK, Crash, HandedByRow
<1> QED
  BY <1>2, <1>3, <1>4, <1>5 DEF TypeInv

\* The item at hand, with the row as it was read when that is written back.
LEMMA ItemRead ==
  ASSUME SweepTypes, NEW item \in sweep.work
  PROVE  /\ item.input \in Parent /\ item.chunk \in Chunk \cup {None}
         /\ item.status \in Status /\ item.row \in Row /\ ItemOK(item)
BY DEF SweepTypes, Item

LEMMA ResetType ==
  ASSUME RowsOK, NEW item \in Item, Reset(item)
  PROVE  RowsOK'
<1>1. [item.row EXCEPT !.status = "pending"] \in Row
  BY DEF Item, Row, Status
<1>2. CASE item.chunk = None
  BY <1>1, <1>2 DEF Reset, RowsOK, Item
<1>3. CASE item.chunk # None
  BY <1>3 DEF Reset, RowsOK, Item, Status
<1> QED
  BY <1>2, <1>3

LEMMA ItemType ==
  ASSUME SweepTypes, SweepItem
  PROVE  SweepTypes'
<1>1. PICK item \in sweep.work :
        \/ /\ IF item.status = "processing" THEN Reset(item) ELSE UNCHANGED <<input, chunk>>
           /\ Enter(Sweeper, item.input, item.chunk, item.row.split)
           /\ sweep' = [sweep EXCEPT !.pc = "call", !.work = @ \ {item}]
           /\ UNCHANGED faults
        \/ /\ Fault(1)
           /\ sweep' = [sweep EXCEPT !.work = @ \ {item}]
           /\ UNCHANGED <<input, chunk, run>>
  BY DEF SweepItem
<1>2. /\ item.input \in Parent /\ item.chunk \in Chunk \cup {None}
      /\ item.status \in Status /\ item.row \in Row /\ ItemOK(item) /\ item \in Item
  BY ItemRead DEF SweepTypes
<1>3. RowsOK'
  BY <1>1, <1>2, ResetType DEF SweepTypes, TypeInv, RowsOK
<1>4. RunsOK'
  <2>1. CASE Enter(Sweeper, item.input, item.chunk, item.row.split)
    BY <1>2, <2>1, EnterOK, SweeperRuns DEF SweepTypes, TypeInv, ItemOK, Row
  <2>2. CASE UNCHANGED run
    BY <2>2 DEF SweepTypes, TypeInv, RunsOK
  <2> QED
    BY <1>1, <2>1, <2>2
<1>5. faults' \in 0..MaxFaults
  BY <1>1, FaultOK DEF SweepTypes, TypeInv
<1>6. TypeInv'
  BY <1>3, <1>4, <1>5 DEF SweepTypes, TypeInv, SweepItem, QueueOK, FeedersOK
<1>7. /\ sweep' \in [pc : {"off", "query", "items", "call", "done"}, work : SUBSET Item,
                     progress : BOOLEAN]
      /\ sweep'.work \subseteq sweep.work
  BY <1>1 DEF SweepTypes
<1> QED
  BY <1>6, <1>7 DEF SweepTypes, SweepItem, ItemOK, ChunksOf

LEMMA QueryType ==
  ASSUME SweepTypes, SweepQuery
  PROVE  SweepTypes'
<1>1. TypeInv'
  BY FaultOK DEF SweepTypes, TypeInv, SweepQuery, RowsOK, QueueOK, RunsOK, FeedersOK
<1>2. /\ sweep' \in [pc : {"off", "query", "items", "call", "done"}, work : SUBSET Item,
                     progress : BOOLEAN]
      /\ \A item \in sweep'.work : ItemOK(item)
  <2>1. Workload \subseteq Item /\ \A item \in Workload : ItemOK(item)
    BY WorkloadTyped DEF SweepTypes
  <2>2. CASE sweep' = [pc |-> IF Workload = {} THEN "done" ELSE "items",
                       work |-> Workload, progress |-> FALSE]
    <3>1. sweep'.work = Workload /\ sweep'.pc \in {"done", "items"} /\ sweep'.progress = FALSE
      BY <2>2
    <3> QED
      BY <2>1, <2>2, <3>1 DEF ItemOK
  <2>3. CASE sweep' = [NoSweep EXCEPT !.pc = "done"]
    BY <2>3 DEF NoSweep
  <2> QED
    BY <2>2, <2>3 DEF SweepQuery
<1> QED
  BY <1>1, <1>2 DEF SweepTypes, SweepQuery, ItemOK, ChunksOf

LEMMA StepTypes ==
  ASSUME SweepTypes, [SweepNext]_allVars
  PROVE  SweepTypes'
<1>1. CASE SweepStart
  <2>1. TypeInv'
    BY <1>1 DEF SweepTypes, TypeInv, SweepStart, HandedByRow, RowsOK, QueueOK, RunsOK, FeedersOK
  <2> QED
    BY <1>1, <2>1 DEF SweepTypes, SweepStart, ItemOK, ChunksOf
<1>2. CASE SweepReturn \/ SweepRound \/ UNCHANGED allVars
  <2>1. TypeInv'
    BY <1>2 DEF SweepTypes, TypeInv, SweepReturn, SweepRound, allVars, vars,
       RowsOK, QueueOK, RunsOK, FeedersOK
  <2> QED
    BY <1>2, <2>1 DEF SweepTypes, SweepReturn, SweepRound, allVars, sweepVars, ItemOK, ChunksOf
<1>3. CASE (Execute(Sweeper) \/ Others) /\ UNCHANGED sweepVars
  <2>1. TypeInv'
    BY <1>3, ExecuteType, OthersType, SweeperRuns DEF SweepTypes
  <2> QED
    BY <1>3, <2>1 DEF SweepTypes, sweepVars, ItemOK, ChunksOf
<1>4. CASE Crash
  <2>1. sweep' = NoSweep /\ crashes' \in 0..MaxCrashes
    BY <1>4, SweepAssumption DEF Crash, SweepTypes
  <2> QED
    BY <1>4, <2>1, CrashType DEF SweepTypes, NoSweep
<1> QED
  BY <1>1, <1>2, <1>3, <1>4, ItemType, QueryType DEF SweepNext, SweepStep

\* Only rows there are have a time of creation.
LEMMA StepBirths ==
  ASSUME BornOK, [SweepNext]_allVars
  PROVE  BornOK'
<1>1. Stored' \subseteq RowId
  BY ChunkOf DEF Stored, RowId
<1>2. CASE Births
  BY <1>1, <1>2 DEF Births, BornOK
<1>3. CASE UNCHANGED born
  BY <1>3 DEF BornOK
<1> QED
  BY <1>2, <1>3 DEF SweepNext, SweepStep, allVars

LEMMA InitTypes == SweepInit => SweepTypes
BY InitType, SweepAssumption DEF SweepInit, SweepTypes, NoSweep

\* Whether the sweep has the store for itself or not, and however often the process
\* dies: the workload is made of rows, and the tasks keep what TypeCorrect says.
THEOREM SweepTyped == SweepSpec => []SweepTypeOK
<1>1. SweepTypes /\ BornOK => SweepTypeOK
  BY DEF SweepTypes, BornOK, SweepTypeOK, TypeInv, TypeOK, RowsOK, QueueOK, RunsOK, FeedersOK
<1>2. SweepTypes /\ BornOK /\ [SweepNext]_allVars => SweepTypes' /\ BornOK'
  BY StepTypes, StepBirths
<1>3. SweepInit => BornOK
  BY DEF SweepInit, BornOK
<1> QED
  BY <1>1, <1>2, <1>3, InitTypes, PTL DEF SweepSpec

-----------------------------------------------------------------------------
(* What a step writes to the chunks.                                       *)

\* The chunk at hand, or the next child of a split.
LEMMA ChunkWrites ==
  ASSUME TypeInv, NEW r \in Runner, Execute(r), NEW c \in Chunk, chunk'[c] # chunk[c]
  PROVE  \/ FrameHolds(run[r], c)
         \/ run[r].pc = "split" /\ c = <<run[r].input, run[r].next>>
<1>1. chunk \in [Chunk -> Status]
  BY DEF TypeInv, RowsOK
<1>2. CASE CreateChild(r)
  BY <1>1, <1>2 DEF CreateChild
<1>3. CASE Mark(r) \/ Extract(r) \/ Memify(r)
  BY <1>1, <1>3 DEF Mark, Extract, Memify, FailChunk, FrameHolds
<1>4. CASE \/ Publish(r) \/ FailNested(r) \/ Chain(r)
           \/ LoadInput(r) \/ CountChildren(r) \/ SaveInput(r)
  BY <1>4 DEF Publish, FailNested, Chain, LoadInput, CountChildren, SaveInput
<1> QED
  BY <1>2, <1>3, <1>4 DEF Execute

\* While the tasks of the pipeline flow no completed chunk is written.
LEMMA FlowCompleted ==
  ASSUME FlowInv, Others, NEW c \in Chunk, chunk[c] = "completed"
  PROVE  chunk'[c] = "completed"
<1>1. CASE chunk'[c] = chunk[c]
  BY <1>1
<1>2. ASSUME NEW r \in Runner, Execute(r), chunk'[c] # chunk[c] PROVE FALSE
  <2>1. CASE FrameHolds(run[r], c)
    BY <2>1 DEF FlowInv, FlowOK, StageOK, StageAt, FrameStaged, FrameHolds, Stage
  <2>2. CASE run[r].pc = "split" /\ c = <<run[r].input, run[r].next>>
    <3>1. c[1] \in Parent /\ c[1] = run[r].input /\ c[2] = run[r].next /\ c \in ChunksOf(c[1])
      BY <2>2, ChunkOf
    <3> QED
      BY <2>2, <3>1 DEF FlowInv, FlowOK, PhaseOK, RunningSplitAt, Splits
  <2> QED
    BY <1>2, <2>1, <2>2, ChunkWrites DEF FlowInv
<1>3. CASE UNCHANGED chunk
  BY <1>3
<1> QED
  BY <1>1, <1>2, <1>3 DEF Others, Add, CognifyAsync, Feed, CognifyWait, Take, Exit

\* The next step of the Cognify the sweep is in writes no completed chunk of an input
\* whose split is published.
LEMMA CallCompleted ==
  ASSUME TypeInv, CallOK(run[Sweeper]), Execute(Sweeper), NEW c \in Chunk,
         chunk[c] = "completed", input[c[1]].split
  PROVE  chunk'[c] = "completed"
<1>1. run[Sweeper].pc # "idle"
  BY DEF Execute, CreateChild, Publish, FailNested, Mark, Extract, Chain, Memify,
     LoadInput, CountChildren, SaveInput
<1>2. ASSUME chunk'[c] # chunk[c] PROVE FALSE
  <2>1. CASE FrameHolds(run[Sweeper], c)
    BY <1>1, <2>1 DEF CallOK, FrameStaged, FrameHolds, Stage
  <2>2. CASE run[Sweeper].pc = "split" /\ c = <<run[Sweeper].input, run[Sweeper].next>>
    BY <1>1, <2>2 DEF CallOK, Resplits, Splits
  <2> QED
    BY <1>2, <2>1, <2>2, ChunkWrites, SweeperRuns
<1> QED
  BY <1>2

-----------------------------------------------------------------------------
(* A step of the Cognify the sweep is in.                                  *)

\* What the step has to keep of the call: it ends, or goes on with the same input,
\* with a chunk of the loop or with the chunk it has.
CallGoesOn(f, g) ==
  \/ g.pc = "idle"
  \/ /\ g.pc \notin {"chain", "exited"} /\ g.input = f.input
     /\ (g.chunk = f.chunk /\ g.nested = f.nested) \/ f.chunk = None \/ f.nested
     /\ Splits(g) =>
          /\ ~input'[g.input].split
          /\ \A c \in ChunksOf(g.input) : c[2] < g.next => chunk'[c] = "pending"
          /\ g.pc = "publish" => ChunkCount[g.input] < g.next
     /\ \A c \in Chunk : FrameStaged(g, c, chunk'[c])
     /\ g.nested => g.chunk = <<g.input, g.next - 1>> /\ input'[g.input].split
     /\ g.pc = "failInput" => g.nested
     /\ g.pc \in {"count", "save"} => g.copy = input'[g.input].split

\* What it may write.
CallWrites(f) ==
  /\ \A p \in Parent : p # f.input => input'[p] = input[p]
  /\ f.chunk # None /\ ~f.nested => input'[f.input].split = input[f.input].split
  /\ \A c \in Chunk : chunk'[c] # chunk[c] => c[1] = f.input /\ (f.chunk # None => c = f.chunk)

LEMMA CallKept ==
  ASSUME NEW f, NEW g, CallOK(f), f.pc # "idle", CallGoesOn(f, g), run'[Sweeper] = g,
         sweep' = sweep, handed' = handed
  PROVE  CallOK(run[Sweeper])'
<1>1. CASE g.pc = "idle"
  BY <1>1 DEF CallOK
<1>2. CASE g.pc # "idle"
  <2>1. f.input \in handed /\ NotInWork(f)
    BY DEF CallOK
  <2>2. NotInWork(run[Sweeper])'
    BY <1>2, <2>1 DEF CallGoesOn, NotInWork
  <2>3. Resplits(run[Sweeper])'
    BY <1>2 DEF CallGoesOn, Resplits, Splits, ChunksOf
  <2>4. (\A c \in Chunk : FrameStaged(run[Sweeper], c, chunk[c]))'
    BY <1>2 DEF CallGoesOn, FrameStaged, FrameHolds, FrameAhead, Stage
  <2>5. (run[Sweeper].nested =>
           /\ run[Sweeper].chunk = <<run[Sweeper].input, run[Sweeper].next - 1>>
           /\ input[run[Sweeper].input].split)'
    BY <1>2 DEF CallGoesOn
  <2> QED
    BY <1>2, <2>1, <2>2, <2>3, <2>4, <2>5 DEF CallOK, CallGoesOn
<1> QED
  BY <1>1, <1>2

LEMMA CallStep ==
  ASSUME SweepInv, sweep.pc = "call", run[Sweeper].pc # "idle", SweepTypes',
         UNCHANGED <<sweep, handed, queue>>, \A p \in Parent : feeder'[p] = 0,
         CallWrites(run[Sweeper]),
         NEW g, run' = [run EXCEPT ![Sweeper] = g], CallGoesOn(run[Sweeper], g)
  PROVE  SweepInv'
<1> DEFINE f == run[Sweeper]
<1>1. /\ Sweeping /\ Sweeping' /\ AloneOK /\ UnbornOK /\ WorkOK /\ CallOK(f)
      /\ run'[Sweeper] = g /\ \A q \in Runner : q # Sweeper => run'[q] = run[q]
      /\ f.input \in handed /\ NotInWork(f) /\ f.input \in Parent
  BY RunAt, SweeperRuns DEF SweepInv, Sweeping, SweepTypes, TypeInv, CallOK
<1>2. CallOK(run[Sweeper])'
  BY <1>1, CallKept
<1>3. AloneOK'
  BY <1>1 DEF AloneOK, CallWrites
<1>4. RestOK'
  BY DEF RestOK
<1>5. UnbornOK'
  <2> SUFFICES ASSUME NEW p \in Parent, p \notin handed, NEW c \in ChunksOf(p)
               PROVE  chunk'[c] = "none"
    BY DEF UnbornOK, ChunksOf
  <2> QED
    BY <1>1, ChunkIn DEF UnbornOK, CallWrites
<1>6. ASSUME NEW item \in sweep.work PROVE ItemKept(item)'
  <2>1. ItemKept(item) /\ item.input \in Parent /\ ItemOK(item) /\ item.chunk \in Chunk \cup {None}
    BY <1>1, ItemRead DEF WorkOK, SweepInv
  <2>2. item.input = f.input => f.chunk # None /\ ~f.nested /\ item.chunk # f.chunk
    BY <1>1 DEF NotInWork
  <2>3. ASSUME item.chunk # None PROVE chunk'[item.chunk] = chunk[item.chunk]
    <3>1. item.chunk \in Chunk /\ item.chunk[1] = item.input
      BY <2>1, <2>3, ChunkIn DEF ItemOK
    <3> QED
      BY <2>2, <3>1 DEF CallWrites
  <2>4. input'[item.input].split = input[item.input].split
    BY <2>1, <2>2 DEF CallWrites
  <2> QED
    BY <2>1, <2>3, <2>4 DEF ItemKept
<1>7. WorkOK'
  BY <1>1, <1>6 DEF WorkOK
<1> QED
  BY <1>1, <1>2, <1>3, <1>4, <1>5, <1>7 DEF SweepInv

-----------------------------------------------------------------------------
(* The ways a step of Execute ends.                                        *)

CallRun == \E g : run' = [run EXCEPT ![Sweeper] = g] /\ CallGoesOn(run[Sweeper], g)

LEMMA ReturnCall ==
  ASSUME NEW result, Return(Sweeper, result)
  PROVE  CallRun
<1> DEFINE g == IdleFrame(IF Sweeper \in Caller THEN result ELSE "none")
<1>1. run' = [run EXCEPT ![Sweeper] = g] /\ g.pc = "idle"
  BY DEF Return, IdleFrame
<1> HIDE DEF g
<1> QED
  BY <1>1 DEF CallRun, CallGoesOn

LEMMA InlineCall ==
  ASSUME NEW p \in Parent, NEW i \in Nat \ {0}, run[Sweeper].input = p,
         run[Sweeper].chunk = None \/ run[Sweeper].nested,
         Inline(Sweeper, p, i), input'[p].split,
         \A c \in ChunksOf(p) : i <= c[2] => chunk'[c] = "pending"
  PROVE  CallRun
<1>1. CASE i <= ChunkCount[p]
  <2> DEFINE g == FrameAt("mark", p, <<p, i>>, TRUE, i + 1, FALSE)
  <2>1. run' = [run EXCEPT ![Sweeper] = g]
    BY <1>1 DEF Inline
  <2>2. /\ g.pc = "mark" /\ g.input = p /\ g.chunk = <<p, i>> /\ g.nested /\ g.next = i + 1
    BY DEF FrameAt
  <2> HIDE DEF g
  <2>3. ASSUME NEW c \in Chunk PROVE FrameStaged(g, c, chunk'[c])
    <3>1. c[2] \in Int /\ c \in ChunksOf(c[1]) /\ c = <<c[1], c[2]>>
      BY ChunkOf, ConstantsAssumption
    <3>2. FrameHolds(g, c) => chunk'[c] = "pending"
      BY <2>2, <3>1 DEF FrameHolds
    <3>3. FrameAhead(g, c) => chunk'[c] = "pending"
      BY <2>2, <3>1 DEF FrameAhead
    <3> QED
      BY <2>2, <3>2, <3>3 DEF FrameStaged, Stage
  <2>4. g.chunk = <<g.input, g.next - 1>>
    BY <2>2
  <2>5. CallGoesOn(run[Sweeper], g)
    BY <2>2, <2>3, <2>4 DEF CallGoesOn, Splits
  <2> QED
    BY <2>1, <2>5 DEF CallRun
<1>2. CASE ~(i <= ChunkCount[p])
  <2> DEFINE g == FrameAt("count", p, None, FALSE, 1, TRUE)
  <2>1. run' = [run EXCEPT ![Sweeper] = g]
    BY <1>2 DEF Inline
  <2>2. g.pc = "count" /\ g.input = p /\ ~g.nested /\ g.copy = TRUE
    BY DEF FrameAt
  <2>3. input'[p].split = TRUE
    OBVIOUS
  <2> HIDE DEF g
  <2>4. \A c \in Chunk : FrameStaged(g, c, chunk'[c])
    BY <2>2 DEF FrameStaged, FrameHolds, FrameAhead
  <2>5. CallGoesOn(run[Sweeper], g)
    BY <2>2, <2>3, <2>4 DEF CallGoesOn, Splits
  <2> QED
    BY <2>1, <2>5 DEF CallRun
<1> QED
  BY <1>1, <1>2

LEMMA SyncedCall ==
  ASSUME TypeInv, CallOK(run[Sweeper]), run[Sweeper].pc \in {"load", "count", "save"},
         Synced(Sweeper), UNCHANGED chunk,
         run[Sweeper].nested => input'[run[Sweeper].input].split
  PROVE  CallRun
<1> DEFINE f == run[Sweeper]
<1>1. f.input \in Parent /\ f.next \in Nat \ {0}
  BY SweeperRuns DEF TypeInv, RunsOK, Frame, FrameOK
<1>2. CASE f.nested
  <2>1. \A c \in Chunk : FrameAhead(f, c) => chunk'[c] = "pending"
    BY DEF CallOK, FrameStaged
  <2>2. \A c \in ChunksOf(f.input) : f.next <= c[2] => chunk'[c] = "pending"
    BY <1>1, <1>2, <2>1, ChunkIn DEF FrameAhead
  <2>3. Inline(Sweeper, f.input, f.next)
    BY <1>2 DEF Synced
  <2> QED
    BY <1>1, <1>2, <2>2, <2>3, InlineCall
<1>3. CASE ~f.nested
  BY <1>3, ReturnCall DEF Synced
<1> QED
  BY <1>2, <1>3

\* The frame stays with its chunk and its place in the inline loop.
LEMMA SameTaskCall ==
  ASSUME TypeInv, CallOK(run[Sweeper]), run[Sweeper].pc # "idle", NEW g,
         SameTask(g, run[Sweeper]), run' = [run EXCEPT ![Sweeper] = g],
         g.pc \in {"extract", "memify", "load", "failInput", "count", "save"},
         run[Sweeper].pc # "failInput", g.pc = "failInput" => run[Sweeper].nested,
         g.pc \in {"count", "save"} => g.copy = input'[run[Sweeper].input].split,
         run[Sweeper].nested => input'[run[Sweeper].input].split,
         \A c \in Chunk : c = run[Sweeper].chunk /\ g.pc \in {"extract", "memify"}
                            => chunk'[c] \in Stage(g.pc),
         \A c \in Chunk : chunk'[c] # chunk[c] => c = run[Sweeper].chunk
  PROVE  CallRun
<1> DEFINE f == run[Sweeper]
<1>1. /\ g.input = f.input /\ g.chunk = f.chunk /\ g.nested = f.nested /\ g.next = f.next
      /\ f.nested => f.chunk = <<f.input, f.next - 1>>
      /\ f.next \in Nat \ {0}
  BY SweeperRuns DEF SameTask, CallOK, TypeInv, RunsOK, Frame
<1>2. ASSUME NEW c \in Chunk PROVE FrameStaged(g, c, chunk'[c])
  <2>1. FrameHolds(g, c) => chunk'[c] \in Stage(g.pc)
    BY <1>1 DEF FrameHolds
  <2>2. ASSUME FrameAhead(g, c) PROVE chunk'[c] = "pending"
    <3>1. FrameAhead(f, c)
      BY <1>1, <2>2 DEF FrameAhead
    <3>2. chunk[c] = "pending"
      BY <3>1 DEF CallOK, FrameStaged
    <3>3. c[2] \in Int /\ f.next <= c[2] /\ f.nested
      BY <3>1, ChunkOf, ConstantsAssumption DEF FrameAhead
    <3>4. c # f.chunk
      BY <1>1, <3>3
    <3> QED
      BY <3>2, <3>4
  <2> QED
    BY <2>1, <2>2 DEF FrameStaged
<1>3. CallGoesOn(f, g)
  BY <1>1, <1>2 DEF CallGoesOn, Splits
<1> QED
  BY <1>3 DEF CallRun

LEMMA GotoCall ==
  ASSUME TypeInv, CallOK(run[Sweeper]), run[Sweeper].pc \notin {"idle", "failInput"},
         UNCHANGED input,
         NEW label \in {"extract", "memify", "load", "failInput"}, Goto(Sweeper, label),
         label = "failInput" => run[Sweeper].nested,
         \A c \in Chunk : c = run[Sweeper].chunk /\ label \in {"extract", "memify"}
                            => chunk'[c] \in Stage(label),
         \A c \in Chunk : chunk'[c] # chunk[c] => c = run[Sweeper].chunk
  PROVE  CallRun
<1> DEFINE g == [run[Sweeper] EXCEPT !.pc = label]
<1>1. run[Sweeper] \in Frame
  BY SweeperRuns DEF TypeInv, RunsOK
<1>2. g.pc = label /\ SameTask(g, run[Sweeper])
  BY <1>1 DEF Frame, SameTask
<1>3. run' = [run EXCEPT ![Sweeper] = g]
  BY DEF Goto
<1>4. run[Sweeper].nested => input'[run[Sweeper].input].split
  BY DEF CallOK
<1> HIDE DEF g
<1> QED
  BY <1>2, <1>3, <1>4, SameTaskCall

LEMMA AbortedCall ==
  ASSUME TypeInv, CallOK(run[Sweeper]), run[Sweeper].pc \in {"extract", "memify"},
         UNCHANGED input, Aborted(Sweeper),
         \A c \in Chunk : chunk'[c] # chunk[c] => c = run[Sweeper].chunk
  PROVE  CallRun
<1>1. CASE run[Sweeper].nested
  BY <1>1, GotoCall DEF Aborted
<1>2. CASE ~run[Sweeper].nested
  BY <1>2, ReturnCall DEF Aborted
<1> QED
  BY <1>1, <1>2

-----------------------------------------------------------------------------
(* The steps of Execute on the goroutine of the sweep.                     *)

\* The call at hand, with no feeder at work.
InCall ==
  /\ TypeInv /\ CallOK(run[Sweeper]) /\ run[Sweeper].pc # "idle"
  /\ \A p \in Parent : feeder[p] = 0

CallMoves ==
  /\ CallRun /\ CallWrites(run[Sweeper])
  /\ UNCHANGED <<queue, handed>> /\ \A p \in Parent : feeder'[p] = 0

LEMMA InCallTyped ==
  ASSUME InCall
  PROVE  /\ run[Sweeper] \in Frame /\ FrameOK(run[Sweeper])
         /\ run[Sweeper].pc \notin {"idle", "exited", "chain"}
         /\ run[Sweeper].input \in Parent
         /\ input[run[Sweeper].input].split \in BOOLEAN
         /\ run[Sweeper].next \in Nat \ {0}
<1>1. run[Sweeper] \in Frame /\ FrameOK(run[Sweeper])
  BY SweeperRuns DEF InCall, TypeInv, RunsOK
<1>2. run[Sweeper].pc \notin {"idle", "exited", "chain"} /\ run[Sweeper].input \in Parent
  BY <1>1 DEF InCall, CallOK, FrameOK
<1> QED
  BY <1>1, <1>2 DEF InCall, TypeInv, RowsOK, Row, Frame

\* The rows of other inputs and the feeders are left alone by a step that is not
\* Publish.
LEMMA ChunkMoves ==
  ASSUME InCall, UNCHANGED <<input, queue, handed, feeder>>, CallRun,
         ~Splits(run[Sweeper]),
         \A c \in Chunk : chunk'[c] # chunk[c] => FrameHolds(run[Sweeper], c)
  PROVE  CallMoves
<1>1. \A c \in Chunk : chunk'[c] # chunk[c] =>
        c[1] = run[Sweeper].input /\ c = run[Sweeper].chunk
  BY WorksOnInput, SweeperRuns DEF InCall, TypeInv, FrameWorks, FrameHolds
<1> QED
  BY <1>1 DEF CallMoves, CallWrites, InCall

LEMMA MarkCall ==
  ASSUME InCall, Mark(Sweeper)
  PROVE  CallMoves
<1>1. run[Sweeper].pc = "mark" /\ ~Splits(run[Sweeper])
      /\ UNCHANGED <<input, queue, handed, feeder>> /\ Goto(Sweeper, "extract")
  BY DEF Mark, Splits
<1>2. \A c \in Chunk : c = run[Sweeper].chunk => chunk[c] = "pending"
  BY <1>1 DEF InCall, CallOK, FrameStaged, FrameHolds, Stage
<1>3. \A c \in Chunk : chunk'[c] # chunk[c] => c = run[Sweeper].chunk /\ chunk'[c] = "processing"
  BY DEF Mark, InCall, TypeInv, RowsOK
<1>4. \A c \in Chunk : c = run[Sweeper].chunk => chunk'[c] \in Stage("extract")
  BY <1>2, <1>3 DEF Stage
<1>5. CallRun
  BY <1>1, <1>3, <1>4, GotoCall DEF InCall
<1>6. \A c \in Chunk : chunk'[c] # chunk[c] => FrameHolds(run[Sweeper], c)
  BY <1>1, <1>3 DEF FrameHolds
<1> QED
  BY <1>1, <1>5, <1>6, ChunkMoves

LEMMA ExtractCall ==
  ASSUME InCall, Extract(Sweeper)
  PROVE  CallMoves
<1>1. run[Sweeper].pc = "extract" /\ ~Splits(run[Sweeper])
      /\ UNCHANGED <<input, queue, handed, feeder>>
  BY DEF Extract, Splits
<1>2. \A c \in Chunk : chunk'[c] # chunk[c] => c = run[Sweeper].chunk
  BY DEF Extract, FailChunk, InCall, TypeInv, RowsOK
<1>3. CallRun
  <2>1. CASE FailChunk(Sweeper, 1)
    BY <1>1, <1>2, <2>1, AbortedCall DEF InCall, FailChunk
  <2>2. CASE chunk' = [chunk EXCEPT ![run[Sweeper].chunk] = "cognified"]
             /\ Goto(Sweeper, IF Sweeper \in Caller THEN "memify" ELSE "chain")
    <3>1. Goto(Sweeper, "memify")
      BY <2>2, SweeperRuns
    <3>2. \A c \in Chunk : c = run[Sweeper].chunk => chunk'[c] \in Stage("memify")
      BY <2>2 DEF Stage, InCall, TypeInv, RowsOK
    <3> QED
      BY <1>1, <1>2, <3>1, <3>2, GotoCall DEF InCall
  <2> QED
    BY <2>1, <2>2 DEF Extract
<1>4. \A c \in Chunk : chunk'[c] # chunk[c] => FrameHolds(run[Sweeper], c)
  BY <1>1, <1>2 DEF FrameHolds
<1> QED
  BY <1>1, <1>3, <1>4, ChunkMoves

LEMMA MemifyCall ==
  ASSUME InCall, Memify(Sweeper)
  PROVE  CallMoves
<1> DEFINE n == IF Sweeper \in Caller THEN 2 ELSE 1
<1>1. run[Sweeper].pc = "memify" /\ ~Splits(run[Sweeper])
      /\ UNCHANGED <<input, queue, handed, feeder>>
  BY DEF Memify, Splits
<1>2. \A c \in Chunk : chunk'[c] # chunk[c] => c = run[Sweeper].chunk
  BY DEF Memify, FailChunk, InCall, TypeInv, RowsOK
<1>3. CallRun
  <2>1. CASE FailChunk(Sweeper, n)
    BY <1>1, <1>2, <2>1, AbortedCall DEF InCall, FailChunk
  <2>2. CASE Goto(Sweeper, "load")
    BY <1>1, <1>2, <2>2, GotoCall DEF InCall
  <2> QED
    BY <2>1, <2>2 DEF Memify
<1>4. \A c \in Chunk : chunk'[c] # chunk[c] => FrameHolds(run[Sweeper], c)
  BY <1>1, <1>2 DEF FrameHolds
<1> QED
  BY <1>1, <1>3, <1>4, ChunkMoves

LEMMA LoadInputCall ==
  ASSUME InCall, LoadInput(Sweeper)
  PROVE  CallMoves
<1> DEFINE f == run[Sweeper]
           g == [f EXCEPT !.copy = input[f.input].split, !.pc = "count"]
<1>1. f.pc = "load" /\ ~Splits(f) /\ UNCHANGED <<input, chunk, queue, handed, feeder>>
  BY DEF LoadInput, Splits
<1>2. f \in Frame /\ (f.nested => input[f.input].split)
  BY InCallTyped DEF InCall, CallOK
<1>3. CASE Synced(Sweeper)
  <2>1. CallRun
    BY <1>1, <1>2, <1>3, SyncedCall DEF InCall
  <2> QED
    BY <1>1, <2>1, ChunkMoves
<1>4. CASE ~Synced(Sweeper)
  <2>1. run' = [run EXCEPT ![Sweeper] = g]
    BY <1>4 DEF LoadInput
  <2>2. g.pc = "count" /\ g.copy = input[f.input].split /\ SameTask(g, f)
    BY <1>2 DEF Frame, SameTask
  <2> HIDE DEF g
  <2>3. CallRun
    BY <1>1, <1>2, <2>1, <2>2, SameTaskCall DEF InCall
  <2> QED
    BY <1>1, <2>3, ChunkMoves
<1> QED
  BY <1>3, <1>4

LEMMA CountChildrenCall ==
  ASSUME InCall, CountChildren(Sweeper)
  PROVE  CallMoves
<1> DEFINE f == run[Sweeper]
           p == f.input
           g == [f EXCEPT !.tally = Cardinality(Completed(p)),
                          !.all = Present(p) # {} /\ Present(p) = Completed(p),
                          !.pc = "save"]
<1>1. f.pc = "count" /\ ~Splits(f) /\ UNCHANGED <<input, chunk, queue, handed, feeder>>
  BY DEF CountChildren, Splits
<1>2. f \in Frame /\ (f.nested => input[f.input].split) /\ f.copy = input[f.input].split
  BY <1>1, InCallTyped DEF InCall, CallOK
<1>3. CASE Synced(Sweeper)
  <2>1. CallRun
    BY <1>1, <1>2, <1>3, SyncedCall DEF InCall
  <2> QED
    BY <1>1, <2>1, ChunkMoves
<1>4. CASE ~Synced(Sweeper)
  <2>1. run' = [run EXCEPT ![Sweeper] = g]
    BY <1>4 DEF CountChildren
  <2>2. g.pc = "save" /\ g.copy = f.copy /\ SameTask(g, f)
    BY <1>2 DEF Frame, SameTask
  <2> HIDE DEF g
  <2>3. CallRun
    BY <1>1, <1>2, <2>1, <2>2, SameTaskCall DEF InCall
  <2> QED
    BY <1>1, <2>3, ChunkMoves
<1> QED
  BY <1>3, <1>4

\* The copy of the row says what the row says: the goroutine is alone.
LEMMA SaveInputCall ==
  ASSUME InCall, SaveInput(Sweeper)
  PROVE  CallMoves
<1> DEFINE f == run[Sweeper]
           row == [status |-> IF f.all THEN "completed" ELSE "processing",
                   split |-> f.copy, processed |-> f.tally]
<1>1. f.pc = "save" /\ UNCHANGED <<chunk, queue, handed, feeder>> /\ Synced(Sweeper)
      /\ (UNCHANGED input \/ input' = [input EXCEPT ![f.input] = row])
  BY DEF SaveInput
<1>2. f.input \in Parent /\ (f.nested => input[f.input].split) /\ f.copy = input[f.input].split
  BY <1>1, InCallTyped DEF InCall, CallOK
<1>3. row.split = f.copy
  OBVIOUS
<1> HIDE DEF row
<1>4. /\ \A p \in Parent : p # f.input => input'[p] = input[p]
      /\ input'[f.input].split = input[f.input].split
  BY <1>1, <1>2, <1>3 DEF InCall, TypeInv, RowsOK
<1>5. CallRun
  BY <1>1, <1>2, <1>4, SyncedCall DEF InCall
<1> QED
  BY <1>1, <1>4, <1>5 DEF CallMoves, CallWrites, InCall

\* A split that fails leaves the chunks as they are; the row may say anything.
LEMMA FailInputCall ==
  ASSUME InCall, NEW split, FailInput(Sweeper, split), run[Sweeper].chunk = None,
         UNCHANGED <<chunk, queue, handed, feeder>>
  PROVE  CallMoves
<1>1. CallRun
  BY ReturnCall DEF FailInput
<1>2. \A p \in Parent : p # run[Sweeper].input => input'[p] = input[p]
  BY DEF FailInput, InCall, TypeInv, RowsOK
<1> QED
  BY <1>1, <1>2 DEF CallMoves, CallWrites, InCall

LEMMA FailNestedCall ==
  ASSUME InCall, FailNested(Sweeper)
  PROVE  CallMoves
<1>1. CallRun /\ UNCHANGED <<chunk, queue, handed, feeder>>
  BY ReturnCall DEF FailNested
<1>2. \A p \in Parent : p # run[Sweeper].input => input'[p] = input[p]
  BY DEF FailNested, InCall, TypeInv, RowsOK
<1>3. run[Sweeper].nested
  BY DEF FailNested, InCall, CallOK
<1> QED
  BY <1>1, <1>2, <1>3 DEF CallMoves, CallWrites, InCall

LEMMA CreateChildCall ==
  ASSUME InCall, CreateChild(Sweeper)
  PROVE  CallMoves
<1> DEFINE f == run[Sweeper]
           p == f.input
           i == f.next
<1>1. /\ f.pc = "split" /\ Splits(f) /\ UNCHANGED <<queue, handed, feeder>>
      /\ f \in Frame /\ p \in Parent /\ i \in Nat \ {0}
      /\ f.chunk = None /\ ~f.nested
  <2>1. f.pc = "split" /\ UNCHANGED <<queue, handed, feeder>>
    BY DEF CreateChild
  <2> QED
    BY <2>1, InCallTyped DEF Splits, FrameOK
<1>2. ~input[p].split /\ \A c \in ChunksOf(p) : c[2] < i => chunk[c] = "pending"
  BY <1>1 DEF InCall, CallOK, Resplits
<1>3. CASE FailInput(Sweeper, FALSE) /\ UNCHANGED chunk
  BY <1>1, <1>3, FailInputCall
<1>4. CASE i <= ChunkCount[p] /\ ~(FailInput(Sweeper, FALSE) /\ UNCHANGED chunk)
  <2> DEFINE g == [f EXCEPT !.next = i + 1]
  <2>1. /\ chunk' = [chunk EXCEPT ![<<p, i>>] = "pending"]
        /\ run' = [run EXCEPT ![Sweeper] = g] /\ UNCHANGED input
    BY <1>4 DEF CreateChild
  <2>2. g.pc = "split" /\ g.input = p /\ g.chunk = None /\ ~g.nested /\ g.next = i + 1
    BY <1>1 DEF Frame
  <2> HIDE DEF g
  <2>3. <<p, i>> \in Chunk
    BY <1>1, <1>4, ChunkIs, ConstantsAssumption
  <2>4. \A c \in Chunk : chunk'[c] = IF c = <<p, i>> THEN "pending" ELSE chunk[c]
    BY <2>1 DEF InCall, TypeInv, RowsOK
  <2>5. ASSUME NEW c \in ChunksOf(p), c[2] < i + 1 PROVE chunk'[c] = "pending"
    <3>1. c \in Chunk /\ c = <<p, c[2]>> /\ c[2] \in Int
      BY <1>1, ChunkIn, ChunkOf, ConstantsAssumption
    <3>2. c[2] < i \/ c[2] = i
      BY <1>1, <2>5, <3>1
    <3> QED
      BY <1>2, <2>4, <3>1, <3>2
  <2>6. \A c \in Chunk : FrameStaged(g, c, chunk'[c])
    BY <2>2 DEF FrameStaged, FrameHolds, FrameAhead
  <2>7. CallGoesOn(f, g)
    BY <1>1, <1>2, <2>1, <2>2, <2>5, <2>6 DEF CallGoesOn
  <2>8. CallWrites(f)
    BY <1>1, <2>1, <2>4 DEF CallWrites
  <2> QED
    BY <1>1, <2>1, <2>7, <2>8 DEF CallMoves, CallRun, InCall
<1>5. CASE ~(i <= ChunkCount[p])
  <2> DEFINE g == [f EXCEPT !.pc = "publish"]
  <2>1. run' = [run EXCEPT ![Sweeper] = g] /\ UNCHANGED <<input, chunk>>
    BY <1>5 DEF CreateChild, Goto
  <2>2. g.pc = "publish" /\ g.input = p /\ g.chunk = None /\ ~g.nested /\ g.next = i
    BY <1>1 DEF Frame
  <2> HIDE DEF g
  <2>3. ChunkCount[p] < i
    BY <1>1, <1>5, ConstantsAssumption
  <2>4. \A c \in Chunk : FrameStaged(g, c, chunk'[c])
    BY <2>2 DEF FrameStaged, FrameHolds, FrameAhead
  <2>5. CallGoesOn(f, g)
    BY <1>1, <1>2, <2>1, <2>2, <2>3, <2>4 DEF CallGoesOn
  <2>6. CallWrites(f)
    BY <2>1 DEF CallWrites
  <2> QED
    BY <1>1, <2>1, <2>5, <2>6 DEF CallMoves, CallRun, InCall
<1> QED
  BY <1>3, <1>4, <1>5

LEMMA PublishCall ==
  ASSUME InCall, Publish(Sweeper)
  PROVE  CallMoves
<1> DEFINE f == run[Sweeper]
           p == f.input
           row == [status |-> "processing", split |-> TRUE, processed |-> 0]
<1>1. /\ f.pc = "publish" /\ Splits(f) /\ UNCHANGED <<chunk, queue, handed>>
      /\ p \in Parent /\ f.chunk = None /\ ~f.nested
  <2>1. f.pc = "publish" /\ UNCHANGED <<chunk, queue, handed>>
    BY DEF Publish
  <2> QED
    BY <2>1, InCallTyped DEF Splits, FrameOK
<1>2. CASE FailInput(Sweeper, TRUE) /\ UNCHANGED feeder
  BY <1>1, <1>2, FailInputCall
<1>3. CASE ~(FailInput(Sweeper, TRUE) /\ UNCHANGED feeder)
  <2>1. /\ input' = [input EXCEPT ![p] = row]
        /\ IF ChunkCount[p] > 0
           THEN Inline(Sweeper, p, 1) /\ UNCHANGED feeder
           ELSE /\ Return(Sweeper, "ok")
                /\ feeder' = [feeder EXCEPT ![p] = IF ChunkCount[p] > 0 THEN 1 ELSE 0]
    BY <1>3, SweeperRuns DEF Publish
  <2>2. row.split = TRUE
    OBVIOUS
  <2> HIDE DEF row
  <2>3. /\ input'[p].split
        /\ \A q \in Parent : q # p => input'[q] = input[q]
    BY <1>1, <2>1, <2>2 DEF InCall, TypeInv, RowsOK
  <2>4. \A q \in Parent : feeder'[q] = 0
    BY <2>1 DEF InCall, TypeInv, FeedersOK
  <2>5. \A c \in ChunksOf(p) : chunk'[c] = "pending"
    <3>1. \A c \in ChunksOf(p) : c[2] < f.next
      BY <1>1, InCallTyped, ConstantsAssumption DEF InCall, CallOK, Resplits, Frame, ChunksOf
    <3> QED
      BY <1>1, <3>1 DEF InCall, CallOK, Resplits
  <2>6. CallRun
    <3>1. CASE Inline(Sweeper, p, 1)
      BY <1>1, <2>3, <2>5, <3>1, InlineCall
    <3> QED
      BY <2>1, <3>1, ReturnCall
  <2>7. CallWrites(f)
    BY <1>1, <2>3 DEF CallWrites
  <2> QED
    BY <1>1, <2>4, <2>6, <2>7 DEF CallMoves
<1> QED
  BY <1>2, <1>3

LEMMA ExecuteCall ==
  ASSUME InCall, Execute(Sweeper)
  PROVE  CallMoves
<1>1. ~Chain(Sweeper)
  BY InCallTyped DEF Chain
<1> QED
  BY <1>1, CreateChildCall, PublishCall, FailNestedCall, MarkCall, ExtractCall, MemifyCall,
     LoadInputCall, CountChildrenCall, SaveInputCall DEF Execute

\* The sweep stays as it is while its call goes on.
LEMMA ExecuteKeeps ==
  ASSUME SweepInv, Execute(Sweeper), UNCHANGED sweepVars, SweepTypes'
  PROVE  SweepInv'
<1>1. run[Sweeper].pc # "idle"
  BY DEF Execute, CreateChild, Publish, FailNested, Mark, Extract, Chain, Memify,
     LoadInput, CountChildren, SaveInput
<1>2. sweep.pc = "call" /\ Sweeping
  BY <1>1 DEF SweepInv, RestOK, Sweeping
<1>3. InCall
  BY <1>1, <1>2 DEF SweepInv, SweepTypes, AloneOK, InCall
<1>4. CallMoves
  BY <1>3, ExecuteCall
<1>5. PICK g : run' = [run EXCEPT ![Sweeper] = g] /\ CallGoesOn(run[Sweeper], g)
  BY <1>4 DEF CallMoves, CallRun
<1> QED
  BY <1>1, <1>2, <1>4, <1>5, CallStep DEF CallMoves, sweepVars

-----------------------------------------------------------------------------
(* The other steps keep the invariant.                                     *)

\* Where nothing is at work the flow is as it should be, whatever the rows say.
LEMMA QuietFlow ==
  ASSUME TypeInv', UnbornOK', queue' = <<>>, \A p \in Parent : feeder'[p] = 0,
         \A r \in Runner : run'[r].pc = "idle"
  PROVE  FlowOK'
<1>1. Len(queue') = 0 /\ \A i : i \notin 1..Len(queue')
  OBVIOUS
<1>2. ASSUME NEW r \in Runner PROVE run'[r].input = None /\ ~run'[r].nested
  <2>1. (FrameOK(run[r]))' /\ run'[r] \in Frame
    BY DEF TypeInv, RunsOK
  <2>2. run'[r].input = None /\ (run'[r].nested => run'[r].chunk \in Chunk)
        /\ (run'[r].nested => run'[r].chunk[1] = None)
    BY <2>1 DEF FrameOK, Frame, ChunksOf
  <2> QED
    BY <2>1, <2>2, ChunkOf, ConstantsAssumption DEF Frame
<1>3. PhaseOK'
  <2> SUFFICES ASSUME NEW p \in Parent
               PROVE  FreshAt(p)' /\ QueuedSplitAt(p)' /\ RunningSplitAt(p)' /\ ActiveAt(p)'
    BY DEF PhaseOK
  <2>1. p # None
    BY ConstantsAssumption
  <2>2. FreshAt(p)'
    BY <1>1, <1>2, <2>1 DEF FreshAt, UnbornOK, ChunksOf
  <2>3. QueuedSplitAt(p)'
    BY <1>1 DEF QueuedSplitAt
  <2>4. RunningSplitAt(p)' /\ ActiveAt(p)'
    BY <1>1, <1>2, <2>1 DEF RunningSplitAt, ActiveAt, Active, Splits
  <2> QED
    BY <2>2, <2>3, <2>4
<1>4. \A r \in Runner, c \in Chunk : ~FrameHolds(run'[r], c) /\ ~FrameAhead(run'[r], c)
  BY <1>2 DEF FrameHolds, FrameAhead
<1>5. \A c \in Chunk : ~ToFeed(c)'
  BY ChunkOf DEF ToFeed
<1>6. CustodyOK'
  BY <1>1, <1>4, <1>5 DEF CustodyOK, CustodyAt, FrameWorks, FrameHolds, FrameAhead
<1>7. StageOK'
  BY <1>1, <1>4, <1>5 DEF StageOK, StageAt, FrameStaged, FrameHolds, FrameAhead
<1>8. NestedOK'
  BY <1>2 DEF NestedOK
<1> QED
  BY <1>3, <1>6, <1>7, <1>8 DEF FlowOK

\* What the query returns is as it says; it has no two items for one row.
LEMMA WorkloadKept ==
  ASSUME SweepInv, Sweeping
  PROVE  /\ \A item \in Workload : ItemKept(item)
         /\ \A a, b \in Workload : a.input = b.input /\ a.chunk = b.chunk => a = b
<1>1. /\ \A p \in Parent : input[p].status # "none" => p \in handed
      /\ \A c \in Chunk : chunk[c] # "none" => c[1] \in handed
  BY ChunkOf DEF SweepInv, AloneOK, UnbornOK
<1>2. \A item \in Workload :
        \/ \E p \in Parent : /\ input[p].status \in Unfinished
                             /\ item = [input |-> p, chunk |-> None,
                                        status |-> input[p].status, row |-> input[p]]
        \/ \E c \in Chunk : /\ chunk[c] \in Unfinished
                            /\ item = [input |-> c[1], chunk |-> c,
                                       status |-> chunk[c], row |-> NewRow]
  BY DEF Workload
<1>3. ASSUME NEW item \in Workload PROVE ItemKept(item)
  <2>1. CASE \E p \in Parent : /\ input[p].status \in Unfinished
                               /\ item = [input |-> p, chunk |-> None,
                                          status |-> input[p].status, row |-> input[p]]
    BY <1>1, <2>1 DEF ItemKept, Unfinished
  <2>2. CASE \E c \in Chunk : /\ chunk[c] \in Unfinished
                              /\ item = [input |-> c[1], chunk |-> c,
                                         status |-> chunk[c], row |-> NewRow]
    BY <1>1, <2>2, ChunkOf DEF ItemKept, Unfinished
  <2> QED
    BY <1>2, <2>1, <2>2
<1>4. \A item \in Workload : item.chunk = None =>
        item = [input |-> item.input, chunk |-> None,
                status |-> input[item.input].status, row |-> input[item.input]]
  <2> SUFFICES ASSUME NEW item \in Workload, item.chunk = None
               PROVE  item = [input |-> item.input, chunk |-> None,
                              status |-> input[item.input].status, row |-> input[item.input]]
    OBVIOUS
  <2>1. PICK p \in Parent : item = [input |-> p, chunk |-> None,
                                    status |-> input[p].status, row |-> input[p]]
    BY <1>2, ChunkOf
  <2>2. item.input = p
    BY <2>1
  <2> QED
    BY <2>1, <2>2
<1>5. \A item \in Workload : item.chunk # None =>
        item = [input |-> item.chunk[1], chunk |-> item.chunk,
                status |-> chunk[item.chunk], row |-> NewRow]
  BY <1>2
<1>6. \A a, b \in Workload : a.input = b.input /\ a.chunk = b.chunk => a = b
  <2> SUFFICES ASSUME NEW a \in Workload, NEW b \in Workload,
                      a.input = b.input, a.chunk = b.chunk
               PROVE  a = b
    OBVIOUS
  <2>1. CASE a.chunk = None
    BY <1>4, <2>1
  <2>2. CASE a.chunk # None
    BY <1>5, <2>2
  <2> QED
    BY <2>1, <2>2
<1> QED
  BY <1>3, <1>6

\* What is stored and what is running stays as it is.
Still == UNCHANGED <<input, chunk, handed, queue, feeder, run>>

\* A sweep that ends leaves nothing at work.
LEMMA SweepEnds ==
  ASSUME SweepInv, Sweeping, sweep.pc # "call", SweepTypes', Still,
         sweep'.pc = "done", sweep'.work = {}
  PROVE  SweepInv'
<1>1. \A r \in Runner : run'[r].pc = "idle"
  BY DEF SweepInv, AloneOK, RestOK, Still
<1>2. UnbornOK' /\ queue' = <<>> /\ \A p \in Parent : feeder'[p] = 0
  BY DEF SweepInv, AloneOK, UnbornOK, Still, ChunksOf
<1>3. FlowOK'
  BY <1>1, <1>2, QuietFlow DEF SweepTypes
<1>4. ~Sweeping' /\ AloneOK' /\ RestOK' /\ WorkOK'
  BY <1>1, SweeperRuns DEF Sweeping, AloneOK, RestOK, WorkOK
<1> QED
  BY <1>2, <1>3, <1>4 DEF SweepInv

\* A sweep that goes on between two calls.
LEMMA SweepGoesOn ==
  ASSUME SweepInv, Sweeping, run[Sweeper].pc = "idle", SweepTypes', Still,
         sweep'.pc \in {"query", "items"}, sweep'.pc = "query" => sweep'.work = {},
         \A item \in sweep'.work : ItemKept(item),
         \A a, b \in sweep'.work : a.input = b.input /\ a.chunk = b.chunk => a = b
  PROVE  SweepInv'
<1>1. Sweeping' /\ AloneOK' /\ RestOK' /\ UnbornOK'
  BY DEF SweepInv, Sweeping, AloneOK, RestOK, UnbornOK, Still, ChunksOf
<1>2. WorkOK'
  BY DEF WorkOK, ItemKept, Still
<1>3. CallOK(run[Sweeper])'
  BY DEF CallOK, Still
<1> QED
  BY <1>1, <1>2, <1>3 DEF SweepInv

LEMMA QueryKeeps ==
  ASSUME SweepInv, SweepQuery, SweepTypes'
  PROVE  SweepInv'
<1>1. Sweeping /\ sweep.pc # "call" /\ run[Sweeper].pc = "idle" /\ Still
  BY DEF SweepQuery, Sweeping, SweepInv, RestOK, Still
<1>2. CASE sweep'.pc = "items" /\ sweep'.work = Workload
  BY <1>1, <1>2, WorkloadKept, SweepGoesOn
<1>3. CASE sweep'.pc = "done" /\ sweep'.work = {}
  BY <1>1, <1>3, SweepEnds
<1>4. CASE sweep' = [pc |-> IF Workload = {} THEN "done" ELSE "items",
                     work |-> Workload, progress |-> FALSE]
  BY <1>2, <1>3, <1>4
<1>5. CASE sweep' = [NoSweep EXCEPT !.pc = "done"]
  BY <1>3, <1>5 DEF NoSweep
<1> QED
  BY <1>4, <1>5 DEF SweepQuery

LEMMA ReturnKeeps ==
  ASSUME SweepInv, SweepReturn, SweepTypes'
  PROVE  SweepInv'
<1>1. Sweeping /\ run[Sweeper].pc = "idle" /\ Still
  BY DEF SweepReturn, Sweeping, Still, vars
<1>2. sweep'.pc = "items" /\ sweep'.work = sweep.work
  BY DEF SweepReturn, SweepInv, SweepTypes
<1> QED
  BY <1>1, <1>2, SweepGoesOn DEF SweepInv, WorkOK

LEMMA RoundKeeps ==
  ASSUME SweepInv, SweepRound, SweepTypes'
  PROVE  SweepInv'
<1>1. Sweeping /\ sweep.pc # "call" /\ run[Sweeper].pc = "idle" /\ Still
  BY DEF SweepRound, Sweeping, SweepInv, RestOK, Still, vars
<1>2. sweep'.pc \in {"query", "done"} /\ sweep'.work = {}
  BY DEF SweepRound, SweepInv, SweepTypes
<1>3. CASE sweep'.pc = "query"
  BY <1>1, <1>2, <1>3, SweepGoesOn
<1>4. CASE sweep'.pc = "done"
  BY <1>1, <1>2, <1>4, SweepEnds
<1> QED
  BY <1>2, <1>3, <1>4

\* The item that comes first is reset and handed to Cognify.
LEMMA ItemCalls ==
  ASSUME SweepInv, sweep.pc = "items", SweepTypes', NEW item \in sweep.work,
         \A other \in sweep.work : ~Before(other, item),
         IF item.status = "processing" THEN Reset(item) ELSE UNCHANGED <<input, chunk>>,
         Enter(Sweeper, item.input, item.chunk, item.row.split),
         sweep' = [sweep EXCEPT !.pc = "call", !.work = @ \ {item}],
         UNCHANGED <<handed, queue, feeder>>
  PROVE  SweepInv'
<1> DEFINE g == FrameAt(IF item.chunk # None THEN "mark"
                        ELSE IF item.row.split THEN "count" ELSE "split",
                        item.input, item.chunk, FALSE, 1, item.row.split)
<1>1. /\ item.input \in Parent /\ item.chunk \in Chunk \cup {None}
      /\ item.row \in Row /\ ItemOK(item) /\ ItemKept(item)
  BY ItemRead DEF SweepInv, WorkOK
<1>2. /\ Sweeping /\ AloneOK /\ UnbornOK /\ WorkOK
      /\ input \in [Parent -> Row] /\ chunk \in [Chunk -> Status]
      /\ sweep'.pc = "call" /\ sweep'.work = sweep.work \ {item} /\ Sweeping'
  BY DEF SweepInv, Sweeping, SweepTypes, TypeInv, RowsOK
<1>3. run'[Sweeper] = g /\ \A q \in Runner : q # Sweeper => run'[q] = run[q]
  <2>1. run' = [run EXCEPT ![Sweeper] = g]
    BY DEF Enter
  <2> HIDE DEF g
  <2> QED
    BY <2>1, RunAt, SweeperRuns DEF SweepInv, SweepTypes, TypeInv
<1>4. /\ g.input = item.input /\ g.chunk = item.chunk /\ ~g.nested /\ g.next = 1
      /\ g.copy = item.row.split
      /\ g.pc = IF item.chunk # None THEN "mark" ELSE IF item.row.split THEN "count" ELSE "split"
  BY DEF FrameAt
<1> HIDE DEF g
<1>5. /\ \A p \in Parent : input'[p] # input[p] => p = item.input /\ item.chunk = None
      /\ item.chunk = None => input'[item.input].split = item.row.split
  BY <1>1, <1>2 DEF Reset, ItemKept, Row
<1>6. /\ \A c \in Chunk : chunk'[c] # chunk[c] => c = item.chunk
      /\ item.chunk # None => chunk'[item.chunk] = "pending"
  BY <1>1, <1>2 DEF Reset, ItemKept, Unfinished
<1>7. \A other \in sweep'.work : other.input = item.input =>
        item.chunk # None /\ other.chunk # item.chunk
  <2> SUFFICES ASSUME NEW other \in sweep.work, other # item, other.input = item.input
               PROVE  item.chunk # None /\ other.chunk # item.chunk
    BY <1>2
  <2>1. other.chunk # item.chunk
    BY <1>2 DEF WorkOK
  <2>2. item.chunk # None
    BY <2>1 DEF Before
  <2> QED
    BY <2>1, <2>2
<1>8. AloneOK'
  BY <1>1, <1>2, <1>3, <1>5 DEF AloneOK, ItemKept
<1>9. RestOK'
  BY <1>2 DEF RestOK
<1>10. UnbornOK'
  <2> SUFFICES ASSUME NEW p \in Parent, p \notin handed, NEW c \in ChunksOf(p)
               PROVE  chunk'[c] = "none"
    BY DEF UnbornOK, ChunksOf
  <2>1. c \in Chunk /\ c[1] = p
    BY ChunkIn
  <2>2. c # item.chunk
    BY <1>1, <2>1, ChunkIn, ChunkOf DEF ItemKept, ItemOK
  <2> QED
    BY <1>2, <1>6, <2>1, <2>2 DEF UnbornOK
<1>11. ASSUME NEW other \in sweep'.work PROVE ItemKept(other)'
  <2>1. /\ ItemKept(other) /\ ItemOK(other)
        /\ other.input \in Parent /\ other.chunk \in Chunk \cup {None}
    BY <1>2, ItemRead DEF WorkOK, SweepInv
  <2>2. ASSUME other.chunk # None PROVE chunk'[other.chunk] = chunk[other.chunk]
    <3>1. other.chunk \in Chunk /\ other.chunk[1] = other.input
      BY <2>1, <2>2, ChunkIn DEF ItemOK
    <3>2. other.chunk # item.chunk
      <4>1. CASE other.input = item.input
        BY <1>7, <4>1
      <4>2. CASE other.input # item.input
        BY <1>1, <2>2, <3>1, <4>2, ChunkIn DEF ItemOK
      <4> QED
        BY <4>1, <4>2
    <3> QED
      BY <1>6, <3>1, <3>2
  <2>3. input'[other.input] = input[other.input]
    BY <1>5, <1>7, <2>1
  <2> QED
    BY <2>1, <2>2, <2>3 DEF ItemKept
<1>12. WorkOK'
  BY <1>2, <1>11 DEF WorkOK
<1>13. CallOK(run[Sweeper])'
  <2>1. Resplits(run[Sweeper])'
    BY <1>1, <1>3, <1>4, <1>5, ConstantsAssumption DEF Resplits, Splits, ChunksOf
  <2>2. (\A c \in Chunk : FrameStaged(run[Sweeper], c, chunk[c]))'
    BY <1>3, <1>4, <1>6, ChunkOf DEF FrameStaged, FrameHolds, FrameAhead, Stage
  <2>3. NotInWork(run[Sweeper])'
    BY <1>3, <1>4, <1>7 DEF NotInWork
  <2>4. g.pc \notin {"chain", "exited", "failInput", "save"}
    BY <1>4
  <2>5. g.input \in handed' /\ (g.pc = "count" => g.copy = input'[g.input].split)
    BY <1>1, <1>4, <1>5 DEF ItemKept
  <2> QED
    BY <1>3, <1>4, <2>1, <2>2, <2>3, <2>4, <2>5 DEF CallOK
<1> QED
  BY <1>2, <1>8, <1>9, <1>10, <1>12, <1>13 DEF SweepInv

LEMMA ItemKeeps ==
  ASSUME SweepInv, SweepItem, SweepTypes'
  PROVE  SweepInv'
<1>1. PICK item \in sweep.work :
        /\ \A other \in sweep.work : ~Before(other, item)
        /\ \/ /\ IF item.status = "processing" THEN Reset(item) ELSE UNCHANGED <<input, chunk>>
              /\ Enter(Sweeper, item.input, item.chunk, item.row.split)
              /\ sweep' = [sweep EXCEPT !.pc = "call", !.work = @ \ {item}]
           \/ /\ sweep' = [sweep EXCEPT !.work = @ \ {item}]
              /\ UNCHANGED <<input, chunk, run>>
  BY DEF SweepItem
<1>2. sweep.pc = "items" /\ UNCHANGED <<handed, queue, feeder>>
  BY DEF SweepItem
<1>3. CASE /\ sweep' = [sweep EXCEPT !.work = @ \ {item}]
           /\ UNCHANGED <<input, chunk, run>>
  <2>1. Sweeping /\ run[Sweeper].pc = "idle" /\ Still
    BY <1>2, <1>3 DEF Sweeping, SweepInv, RestOK, Still
  <2>2. sweep'.pc = "items" /\ sweep'.work \subseteq sweep.work
    BY <1>2, <1>3 DEF SweepInv, SweepTypes
  <2> QED
    BY <2>1, <2>2, SweepGoesOn DEF SweepInv, WorkOK
<1>4. CASE /\ IF item.status = "processing" THEN Reset(item) ELSE UNCHANGED <<input, chunk>>
           /\ Enter(Sweeper, item.input, item.chunk, item.row.split)
           /\ sweep' = [sweep EXCEPT !.pc = "call", !.work = @ \ {item}]
  BY <1>1, <1>2, <1>4, ItemCalls
<1> QED
  BY <1>1, <1>3, <1>4

\* A sweep starts when nothing is at work; then every input with a row is handed over.
LEMMA StartKeeps ==
  ASSUME Alone, SweepInv, SweepStart, SweepTypes'
  PROVE  SweepInv'
<1>1. /\ UNCHANGED <<input, chunk, queue, feeder, run>> /\ HandedByRow
      /\ queue = <<>> /\ \A p \in Parent : feeder[p] = 0
      /\ \A r \in Runner : run[r].pc = "idle"
      /\ sweep'.pc = "query" /\ sweep'.work = {}
  BY DEF SweepStart, SweepInv, SweepTypes, RestOK
<1>2. Sweeping' /\ AloneOK' /\ RestOK' /\ WorkOK'
  BY <1>1, SweeperRuns DEF Sweeping, AloneOK, RestOK, WorkOK, HandedByRow
<1>3. UnbornOK'
  BY <1>1 DEF SweepInv, UnbornOK, HandedByRow, ChunksOf
<1>4. CallOK(run[Sweeper])'
  BY <1>1, SweeperRuns DEF CallOK
<1> QED
  BY <1>2, <1>3, <1>4 DEF SweepInv

LEMMA CrashKeeps ==
  ASSUME SweepInv, Crash, SweepTypes'
  PROVE  SweepInv'
<1>1. NewFrame.pc = "idle"
  BY DEF NewFrame, IdleFrame
<1>2. /\ UNCHANGED <<input, chunk>> /\ HandedByRow /\ queue' = <<>>
      /\ \A p \in Parent : feeder'[p] = 0
      /\ \A r \in Runner : run'[r].pc = "idle"
      /\ sweep'.pc = "off" /\ sweep'.work = {}
  BY <1>1 DEF Crash, NoSweep
<1>3. UnbornOK'
  BY <1>2 DEF SweepInv, UnbornOK, HandedByRow, ChunksOf
<1>4. ~Sweeping' /\ AloneOK' /\ RestOK' /\ WorkOK'
  BY <1>2, SweeperRuns DEF Sweeping, AloneOK, RestOK, WorkOK
<1>5. FlowOK'
  BY <1>2, <1>3, QuietFlow DEF SweepTypes
<1> QED
  BY <1>3, <1>4, <1>5 DEF SweepInv

\* The goroutine of the sweep is not one of the others.
LEMMA SweeperStaysOut ==
  ASSUME RunsOK, Others
  PROVE  run'[Sweeper] = run[Sweeper]
<1>1. CASE \E p \in Parent : Add(p) \/ CognifyAsync(p) \/ Feed(p)
  BY <1>1 DEF Add, CognifyAsync, Feed
<1>2. ASSUME NEW r \in Caller \ {Sweeper}, NEW p \in Parent, CognifyWait(r, p)
      PROVE  run'[Sweeper] = run[Sweeper]
  BY <1>2, SweeperRuns DEF CognifyWait, Enter, RunsOK
<1>3. ASSUME NEW w \in Worker, Take(w) \/ Exit(w) PROVE run'[Sweeper] = run[Sweeper]
  BY <1>3, SweeperRuns, OthersKeep DEF Runner
<1>4. ASSUME NEW r \in Runner \ {Sweeper}, Execute(r) PROVE run'[Sweeper] = run[Sweeper]
  BY <1>4, SweeperRuns, OthersKeep
<1> QED
  BY <1>1, <1>2, <1>3, <1>4 DEF Others

\* Between two sweeps the tasks flow as they do in a process that has none.
LEMMA OthersKeepInv ==
  ASSUME Alone, SweepInv, Alone => sweep.pc \in {"off", "done"}, Others, UNCHANGED sweepVars,
         SweepTypes'
  PROVE  SweepInv'
<1>1. /\ ~Sweeping /\ ~Sweeping' /\ sweep' = sweep /\ sweep.pc \notin {"call", "items"}
      /\ FlowInv /\ sweep.work = {} /\ run[Sweeper].pc = "idle"
  BY DEF Sweeping, SweepInv, SweepTypes, RestOK, FlowInv, sweepVars
<1>2. FlowInv'
  BY <1>1, OthersAreSteps, FlowStep
<1>3. AloneOK' /\ RestOK' /\ WorkOK'
  BY <1>1, SweeperStaysOut DEF AloneOK, RestOK, WorkOK, FlowInv, TypeInv
<1>4. UnbornOK'
  BY <1>2 DEF UnbornOK, FlowInv, FlowOK, PhaseOK, FreshAt
<1> QED
  BY <1>1, <1>2, <1>3, <1>4 DEF SweepInv, FlowInv

LEMMA SweepStays ==
  ASSUME SweepInv, UNCHANGED allVars, SweepTypes'
  PROVE  SweepInv'
<1>1. AloneOK' /\ RestOK' /\ UnbornOK' /\ Sweeping' = Sweeping
  BY DEF allVars, vars, sweepVars, SweepInv, AloneOK, RestOK, UnbornOK, Sweeping, ChunksOf
<1>2. WorkOK'
  BY DEF allVars, vars, sweepVars, SweepInv, WorkOK, ItemKept
<1>3. CallOK(run[Sweeper]) => CallOK(run[Sweeper])'
  BY DEF allVars, vars, sweepVars, CallOK, Resplits, NotInWork, Splits, ChunksOf,
     FrameStaged, FrameHolds, FrameAhead, Stage
<1>4. FlowOK => FlowOK'
  BY FlowStays DEF allVars, vars
<1> QED
  BY <1>1, <1>2, <1>3, <1>4 DEF SweepInv

LEMMA InitSweeps == SweepInit => SweepInv
<1> SUFFICES ASSUME SweepInit PROVE SweepInv
  OBVIOUS
<1>1. SweepTypes /\ FlowOK
  BY InitTypes, InitInv DEF SweepInit, PipelineInv
<1>2. sweep.pc = "off" /\ sweep.work = {}
  BY DEF SweepInit, NoSweep
<1>3. NewFrame.pc = "idle"
  BY DEF NewFrame, IdleFrame
<1>4. run[Sweeper].pc = "idle" /\ UnbornOK
  BY <1>3, SweeperRuns, ChunkIn DEF SweepInit, Init, UnbornOK
<1> QED
  BY <1>1, <1>2, <1>4 DEF SweepInv, Sweeping, AloneOK, RestOK, WorkOK

LEMMA StepSweeps ==
  ASSUME Alone, SweepInv, [SweepNext]_allVars
  PROVE  SweepInv'
<1>1. SweepTypes'
  BY StepTypes DEF SweepInv
<1> QED
  BY <1>1, StartKeeps, CrashKeeps, QueryKeeps, ItemKeeps, ReturnKeeps, RoundKeeps,
     ExecuteKeeps, OthersKeepInv, SweepStays DEF SweepNext, SweepStep

\* What a step may never do.
LEMMA CompletedKept ==
  ASSUME Alone, SweepInv, [SweepNext]_allVars, NEW c \in Chunk,
         chunk[c] = "completed", input[c[1]].split
  PROVE  chunk'[c] = "completed"
<1>1. CASE SweepStart \/ SweepQuery \/ SweepReturn \/ SweepRound \/ Crash \/ UNCHANGED allVars
  BY <1>1 DEF SweepStart, SweepQuery, SweepReturn, SweepRound, Crash, allVars, vars
<1>2. CASE SweepItem
  <2>1. ASSUME NEW item \in sweep.work, Reset(item) PROVE chunk'[c] = "completed"
    <3>1. item.chunk # None => chunk[item.chunk] # "completed"
      BY DEF SweepInv, WorkOK, ItemKept, Unfinished
    <3> QED
      BY <2>1, <3>1 DEF Reset, SweepInv, SweepTypes, TypeInv, RowsOK
  <2> QED
    BY <1>2, <2>1 DEF SweepItem
<1>3. CASE Execute(Sweeper)
  <2>1. run[Sweeper].pc # "idle"
    BY <1>3 DEF Execute, CreateChild, Publish, FailNested, Mark, Extract, Chain, Memify,
       LoadInput, CountChildren, SaveInput
  <2>2. Sweeping
    BY <2>1 DEF SweepInv, RestOK, Sweeping
  <2> QED
    BY <1>3, <2>2, CallCompleted DEF SweepInv, SweepTypes
<1>4. CASE Others /\ sweep.pc \in {"off", "done"}
  <2>1. FlowInv
    BY <1>4 DEF SweepInv, Sweeping, SweepTypes, FlowInv
  <2> QED
    BY <1>4, <2>1, FlowCompleted
<1> QED
  BY <1>1, <1>2, <1>3, <1>4 DEF SweepNext, SweepStep

\* A sweep that has the store for itself never takes back a completed chunk of an
\* input whose split is published, wherever the process died before and whatever
\* stores fail (engine_core.go, CognifyPending).
THEOREM PublishedKept ==
  ASSUME Alone
  PROVE  SweepSpec => PublishedWorkKept
<1>1. SweepInv /\ [SweepNext]_allVars => SweepInv'
  BY StepSweeps
<1>2. SweepInv /\ [SweepNext]_allVars =>
        [\A c \in Chunk : chunk[c] = "completed" /\ input[c[1]].split
            => chunk'[c] = "completed"]_allVars
  BY CompletedKept
<1> QED
  BY <1>1, <1>2, InitSweeps, PTL DEF SweepSpec, PublishedWorkKept
=============================================================================
