---------------------- MODULE CognifyPipelineProofs ----------------------
(***************************************************************************)
(* Proofs that the pipeline keeps its types, never has a chunk in two      *)
(* hands and never announces an input early; that it implements            *)
(* IngestContract, that a caller who waits for Cognify gets a finished     *)
(* input, and that without failures no chunk of a split input is dropped   *)
(* on its way.                                                             *)
(*                                                                         *)
(* The inductive invariant follows an input through its life: not handed   *)
(* over, then one splitter and nothing else, then any number of chunk tasks*)
(* of which each chunk is in at most one.  It gives the status a chunk has *)
(* while it is held, and that what a count has found stays true until the  *)
(* row is written.                                                         *)
(***************************************************************************)
EXTENDS CognifyPipeline, FiniteSetTheorems, TLAPS

FrameOK(f) ==
  /\ f.pc \notin {"idle", "exited"} => f.input \in Parent
  /\ f.pc \in {"idle", "exited"} => f.input = None
  /\ f.pc \in {"mark", "extract", "chain", "memify", "load"} => f.chunk # None
  /\ f.pc \in {"split", "publish"} => f.chunk = None
  /\ f.nested => f.chunk # None
  /\ f.chunk # None => f.chunk \in ChunksOf(f.input)

TaskOK(t) ==
  /\ t.kind = "memify" => t.chunk # None
  /\ t.chunk # None => t.chunk \in ChunksOf(t.input)

RowsOK == input \in [Parent -> Row] /\ chunk \in [Chunk -> Status]

QueueOK ==
  /\ queue \in Seq(Task)
  /\ Len(queue) <= QueueCap
  /\ \A i \in 1..Len(queue) : TaskOK(queue[i])

RunsOK ==
  /\ run \in [Runner -> Frame]
  /\ \A r \in Runner : FrameOK(run[r])

FeedersOK ==
  /\ feeder \in [Parent -> Nat]
  /\ \A p \in Parent : feeder[p] <= ChunkCount[p]

TypeInv ==
  /\ RowsOK /\ QueueOK /\ RunsOK /\ FeedersOK
  /\ handed \in SUBSET Parent
  /\ quit \in BOOLEAN
  /\ faults \in 0..MaxFaults

-----------------------------------------------------------------------------
LEMMA ChunkIs ==
  ASSUME NEW p \in Parent, NEW i \in 1..ChunkCount[p]
  PROVE  <<p, i>> \in Chunk /\ <<p, i>> \in ChunksOf(p) /\ <<p, i>> # None
BY ConstantsAssumption DEF Chunk, ChunksOf

LEMMA ChunksOfFinite ==
  ASSUME NEW p \in Parent
  PROVE  IsFiniteSet(ChunksOf(p))
<1>1. IsFiniteSet({p})
  BY FS_Singleton
<1>2. IsFiniteSet(1..ChunkCount[p])
  BY FS_Interval, ConstantsAssumption
<1> QED
  BY <1>1, <1>2, FS_Product DEF ChunksOf

LEMMA CompletedFinite ==
  ASSUME NEW p \in Parent
  PROVE  IsFiniteSet(Completed(p)) /\ Cardinality(Completed(p)) \in Nat
<1>1. Completed(p) \subseteq ChunksOf(p)
  BY DEF Completed
<1>2. IsFiniteSet(Completed(p))
  BY <1>1, ChunksOfFinite, FS_Subset
<1> QED
  BY <1>2, FS_CardinalityType

\* The frame of one goroutine is replaced by a well-formed one.
LEMMA FrameUpdate ==
  ASSUME RunsOK, NEW r \in Runner, NEW f \in Frame, FrameOK(f),
         run' = [run EXCEPT ![r] = f]
  PROVE  RunsOK'
BY DEF RunsOK

LEMMA ReturnOK ==
  ASSUME RunsOK, NEW r \in Runner, NEW result \in {"ok", "err"}, Return(r, result)
  PROVE  RunsOK'
<1> DEFINE f == IdleFrame(IF r \in Caller THEN result ELSE "none")
<1>1. f \in Frame
  BY DEF IdleFrame, FrameAt, Frame, PC
<1>2. FrameOK(f)
  BY DEF IdleFrame, FrameAt, FrameOK
<1> QED
  BY <1>1, <1>2, FrameUpdate DEF Return

LEMMA EnterOK ==
  ASSUME RunsOK, NEW r \in Runner, NEW p \in Parent, NEW c \in Chunk \cup {None},
         NEW split \in BOOLEAN, c # None => c \in ChunksOf(p), Enter(r, p, c, split)
  PROVE  RunsOK'
<1> DEFINE f == FrameAt(IF c # None THEN "mark" ELSE IF split THEN "count" ELSE "split",
                        p, c, FALSE, 1, split)
<1>1. f \in Frame
  BY DEF IdleFrame, FrameAt, Frame, PC
<1>2. FrameOK(f)
  BY DEF IdleFrame, FrameAt, FrameOK
<1> QED
  BY <1>1, <1>2, FrameUpdate DEF Enter

LEMMA InlineOK ==
  ASSUME RunsOK, NEW r \in Runner, NEW p \in Parent, NEW i \in Nat \ {0}, Inline(r, p, i)
  PROVE  RunsOK'
<1>1. CASE i <= ChunkCount[p]
  <2> DEFINE f == FrameAt("mark", p, <<p, i>>, TRUE, i + 1, FALSE)
  <2>1. <<p, i>> \in Chunk /\ <<p, i>> \in ChunksOf(p) /\ <<p, i>> # None
    BY <1>1, ChunkIs, ConstantsAssumption
  <2>2. f \in Frame
    BY <2>1 DEF IdleFrame, FrameAt, Frame, PC
  <2>3. FrameOK(f)
    BY <2>1 DEF IdleFrame, FrameAt, FrameOK
  <2> QED
    BY <1>1, <2>2, <2>3, FrameUpdate DEF Inline
<1>2. CASE ~(i <= ChunkCount[p])
  <2> DEFINE f == FrameAt("count", p, None, FALSE, 1, TRUE)
  <2>1. f \in Frame
    BY DEF IdleFrame, FrameAt, Frame, PC
  <2>2. FrameOK(f)
    BY DEF IdleFrame, FrameAt, FrameOK
  <2> QED
    BY <1>2, <2>1, <2>2, FrameUpdate DEF Inline
<1> QED
  BY <1>1, <1>2

\* The same for the steps that change some fields of a frame only.
LEMMA GotoOK ==
  ASSUME RunsOK, NEW r \in Runner, NEW label \in PC \ {"idle", "exited", "split"},
         run[r].pc \notin {"idle", "exited"},
         label \in {"mark", "extract", "chain", "memify", "load"} => run[r].chunk # None,
         label = "publish" => run[r].chunk = None,
         Goto(r, label)
  PROVE  RunsOK'
<1> DEFINE f == [run[r] EXCEPT !.pc = label]
<1>1. run[r] \in Frame /\ FrameOK(run[r])
  BY DEF RunsOK
<1>2. f \in Frame
  BY <1>1 DEF Frame
<1>3. FrameOK(f)
  BY <1>1, <1>2 DEF Frame, FrameOK, PC
<1>4. run' = [run EXCEPT ![r] = f]
  BY DEF Goto
<1> QED
  BY <1>2, <1>3, <1>4, FrameUpdate

LEMMA SyncedOK ==
  ASSUME RunsOK, NEW r \in Runner, run[r].pc \notin {"idle", "exited"}, Synced(r)
  PROVE  RunsOK'
<1>1. run[r] \in Frame /\ FrameOK(run[r])
  BY DEF RunsOK
<1>2. run[r].input \in Parent /\ run[r].next \in Nat \ {0}
  BY <1>1 DEF Frame, FrameOK
<1>3. CASE run[r].nested
  BY <1>2, <1>3, InlineOK DEF Synced
<1>4. CASE ~run[r].nested
  BY <1>4, ReturnOK DEF Synced
<1> QED
  BY <1>3, <1>4

LEMMA AbortedOK ==
  ASSUME RunsOK, NEW r \in Runner, run[r].pc \notin {"idle", "exited"}, Aborted(r)
  PROVE  RunsOK'
<1>1. CASE run[r].nested
  <2>1. "failInput" \in PC \ {"idle", "exited", "split"}
    BY DEF PC
  <2>2. Goto(r, "failInput")
    BY <1>1 DEF Aborted
  <2> QED
    BY <2>1, <2>2, GotoOK
<1>2. CASE ~run[r].nested
  BY <1>2, ReturnOK DEF Aborted
<1> QED
  BY <1>1, <1>2

LEMMA SubmitOK ==
  ASSUME QueueOK, NEW t \in Task, TaskOK(t), Submit(t)
  PROVE  QueueOK'
<1>1. queue \in Seq(Task) /\ queue' = Append(queue, t) /\ Len(queue) < QueueCap
  BY DEF QueueOK, Submit
<1>2. Len(queue') = Len(queue) + 1 /\ queue' \in Seq(Task)
  BY <1>1
<1>3. \A i \in 1..Len(queue') : queue'[i] = IF i <= Len(queue) THEN queue[i] ELSE t
  BY <1>1
<1>4. Len(queue') <= QueueCap
  BY <1>1, <1>2, ConstantsAssumption
<1>5. ASSUME NEW i \in 1..Len(queue') PROVE TaskOK(queue'[i])
  <2>1. CASE i <= Len(queue)
    BY <1>1, <1>3, <2>1 DEF QueueOK
  <2>2. CASE ~(i <= Len(queue))
    BY <1>3, <2>2
  <2> QED
    BY <2>1, <2>2
<1> QED
  BY <1>2, <1>4, <1>5 DEF QueueOK

LEMMA FaultOK ==
  ASSUME faults \in 0..MaxFaults, NEW n \in Nat, Fault(n)
  PROVE  faults' \in 0..MaxFaults
BY ConstantsAssumption DEF Fault

LEMMA FeederUpdate ==
  ASSUME FeedersOK, NEW p \in Parent, NEW n \in 0..ChunkCount[p],
         feeder' = [feeder EXCEPT ![p] = n]
  PROVE  FeedersOK'
<1>1. n \in Nat /\ n <= ChunkCount[p]
  BY ConstantsAssumption
<1>2. feeder' \in [Parent -> Nat]
  BY <1>1 DEF FeedersOK
<1>3. \A q \in Parent : feeder'[q] = IF q = p THEN n ELSE feeder[q]
  BY DEF FeedersOK
<1> QED
  BY <1>1, <1>2, <1>3 DEF FeedersOK

LEMMA FailChunkOK ==
  ASSUME RunsOK, RowsOK, faults \in 0..MaxFaults, NEW r \in Runner, NEW n \in {1, 2},
         run[r].pc \notin {"idle", "exited"}, FailChunk(r, n)
  PROVE  RunsOK' /\ chunk' \in [Chunk -> Status] /\ faults' \in 0..MaxFaults
<1>1. Aborted(r)
  BY DEF FailChunk
<1>2. RunsOK'
  BY <1>1, AbortedOK
<1>3. chunk' \in [Chunk -> Status]
  BY DEF FailChunk, RowsOK, Status
<1>4. \E k \in Nat : Fault(k)
  BY DEF FailChunk
<1> QED
  BY <1>2, <1>3, <1>4, FaultOK

LEMMA FailInputOK ==
  ASSUME RunsOK, RowsOK, faults \in 0..MaxFaults, NEW r \in Runner, NEW split \in BOOLEAN,
         FailInput(r, split)
  PROVE  RunsOK' /\ input' \in [Parent -> Row] /\ faults' \in 0..MaxFaults
<1>1. Return(r, "err")
  BY DEF FailInput
<1>2. RunsOK'
  BY <1>1, ReturnOK
<1>3. [status |-> "failed", split |-> split, processed |-> 0] \in Row
  BY DEF Row, Status
<1>4. input' \in [Parent -> Row]
  BY <1>3 DEF FailInput, RowsOK
<1>5. \E k \in Nat : Fault(k)
  BY DEF FailInput
<1> QED
  BY <1>2, <1>4, <1>5, FaultOK

-----------------------------------------------------------------------------
(* One step of each kind.                                                  *)

LEMMA InitType == Init => TypeInv
<1> SUFFICES ASSUME Init PROVE TypeInv
  OBVIOUS
<1>1. NewRow \in Row
  BY DEF NewRow, Row, Status
<1>2. NewFrame \in Frame /\ FrameOK(NewFrame)
  BY DEF NewFrame, IdleFrame, Frame, PC, FrameOK
<1>3. RowsOK
  BY <1>1 DEF Init, RowsOK, Status
<1>4. RunsOK
  BY <1>2 DEF Init, RunsOK
<1>5. QueueOK
  BY ConstantsAssumption DEF Init, QueueOK
<1>6. FeedersOK
  BY ConstantsAssumption DEF Init, FeedersOK
<1>7. handed \in SUBSET Parent /\ quit \in BOOLEAN
  BY DEF Init
<1>8. faults \in 0..MaxFaults
  BY ConstantsAssumption DEF Init
<1> QED
  BY <1>3, <1>4, <1>5, <1>6, <1>7, <1>8 DEF TypeInv

LEMMA AddType ==
  ASSUME TypeInv, NEW p \in Parent, Add(p)
  PROVE  TypeInv'
<1>1. [input[p] EXCEPT !.status = "pending"] \in Row
  BY DEF TypeInv, RowsOK, Row, Status
<1>2. RowsOK'
  BY <1>1 DEF TypeInv, RowsOK, Add
<1>3. RunsOK' /\ QueueOK' /\ FeedersOK'
  BY DEF TypeInv, Add, RunsOK, QueueOK, FeedersOK
<1> QED
  BY <1>2, <1>3 DEF TypeInv, Add

LEMMA CognifyAsyncType ==
  ASSUME TypeInv, NEW p \in Parent, CognifyAsync(p)
  PROVE  TypeInv'
<1>1. CognifyTask(p, None) \in Task /\ TaskOK(CognifyTask(p, None))
  BY DEF CognifyTask, Task, TaskOK
<1>2. QueueOK'
  BY <1>1, SubmitOK DEF TypeInv, CognifyAsync
<1>3. RowsOK' /\ RunsOK' /\ FeedersOK'
  BY DEF TypeInv, CognifyAsync, RowsOK, RunsOK, FeedersOK
<1> QED
  BY <1>2, <1>3 DEF TypeInv, CognifyAsync

LEMMA CognifyWaitType ==
  ASSUME TypeInv, NEW r \in Runner, NEW p \in Parent, CognifyWait(r, p)
  PROVE  TypeInv'
<1>1. RunsOK'
  BY EnterOK DEF TypeInv, CognifyWait
<1>2. RowsOK' /\ QueueOK' /\ FeedersOK'
  BY DEF TypeInv, CognifyWait, RowsOK, QueueOK, FeedersOK
<1> QED
  BY <1>1, <1>2 DEF TypeInv, CognifyWait

LEMMA CloseType ==
  ASSUME TypeInv, Close
  PROVE  TypeInv'
<1>1. RowsOK' /\ RunsOK' /\ QueueOK' /\ FeedersOK'
  BY DEF TypeInv, Close, RowsOK, RunsOK, QueueOK, FeedersOK
<1> QED
  BY <1>1 DEF TypeInv, Close

LEMMA TakeType ==
  ASSUME TypeInv, NEW w \in Runner, Take(w)
  PROVE  TypeInv'
<1> DEFINE t == Head(queue)
<1>1. queue \in Seq(Task) /\ queue # <<>> /\ queue' = Tail(queue)
  BY DEF TypeInv, QueueOK, Take
<1>2. t \in Task /\ TaskOK(t)
  BY <1>1 DEF TypeInv, QueueOK
<1>3. /\ t.input \in Parent /\ t.chunk \in Chunk \cup {None}
      /\ t.chunk # None => t.chunk \in ChunksOf(t.input)
      /\ t.kind = "memify" => t.chunk # None
      /\ t.kind \in {"cognify", "memify"}
  BY <1>2 DEF Task, TaskOK
<1>4. QueueOK'
  <2>1. Tail(queue) \in Seq(Task) /\ Len(Tail(queue)) = Len(queue) - 1
    BY <1>1
  <2>2. \A i \in 1..Len(Tail(queue)) : Tail(queue)[i] = queue[i + 1] /\ i + 1 \in 1..Len(queue)
    BY <1>1, <2>1
  <2>3. Len(Tail(queue)) <= QueueCap
    BY <1>1, <2>1, ConstantsAssumption DEF TypeInv, QueueOK
  <2> QED
    BY <1>1, <2>1, <2>2, <2>3 DEF TypeInv, QueueOK
<1>5. CASE t.kind = "cognify"
  <2>1. RunsOK'
    BY <1>3, <1>5, EnterOK DEF TypeInv, Take
  <2> QED
    BY <1>4, <2>1 DEF TypeInv, Take, RowsOK, FeedersOK
<1>6. CASE t.kind = "memify"
  <2> DEFINE f == FrameAt("memify", t.input, t.chunk, FALSE, 1, FALSE)
  <2>1. f \in Frame /\ FrameOK(f)
    BY <1>3, <1>6 DEF FrameAt, Frame, PC, FrameOK
  <2>2. run' = [run EXCEPT ![w] = f]
    BY <1>6 DEF Take
  <2>3. RunsOK'
    BY <2>1, <2>2, FrameUpdate DEF TypeInv
  <2> QED
    BY <1>4, <2>3 DEF TypeInv, Take, RowsOK, FeedersOK
<1> QED
  BY <1>3, <1>5, <1>6

LEMMA ExitType ==
  ASSUME TypeInv, NEW w \in Runner, Exit(w)
  PROVE  TypeInv'
<1> DEFINE f == [run[w] EXCEPT !.pc = "exited"]
<1>1. run[w] \in Frame /\ FrameOK(run[w]) /\ run[w].pc = "idle"
  BY DEF TypeInv, RunsOK, Exit
<1>2. f \in Frame
  BY <1>1 DEF Frame, PC
<1>3. FrameOK(f)
  BY <1>1, <1>2 DEF Frame, FrameOK
<1>4. run' = [run EXCEPT ![w] = f]
  BY DEF Exit, Goto
<1>5. RunsOK'
  BY <1>2, <1>3, <1>4, FrameUpdate DEF TypeInv
<1> QED
  BY <1>5 DEF TypeInv, Exit, RowsOK, QueueOK, FeedersOK

LEMMA CreateChildType ==
  ASSUME TypeInv, NEW r \in Runner, CreateChild(r)
  PROVE  TypeInv'
<1> DEFINE p == run[r].input
           i == run[r].next
           f == [run[r] EXCEPT !.next = i + 1]
<1>1. /\ run[r] \in Frame /\ FrameOK(run[r])
      /\ run[r].pc = "split"
  BY DEF TypeInv, RunsOK, CreateChild
<1>2. p \in Parent /\ i \in Nat \ {0} /\ run[r].chunk = None
  BY <1>1 DEF Frame, FrameOK
<1>3. QueueOK' /\ FeedersOK' /\ handed' \in SUBSET Parent /\ quit' \in BOOLEAN
  BY DEF TypeInv, CreateChild, QueueOK, FeedersOK
<1>4. CASE /\ chunk' = [chunk EXCEPT ![<<p, i>>] = "pending"]
           /\ run' = [run EXCEPT ![r].next = i + 1]
           /\ UNCHANGED <<input, faults>>
  <2>1. f \in Frame
    BY <1>1, <1>2 DEF Frame
  <2>2. FrameOK(f)
    BY <1>1, <2>1 DEF Frame, FrameOK
  <2>3. RunsOK'
    BY <1>4, <2>1, <2>2, FrameUpdate DEF TypeInv
  <2>4. RowsOK'
    BY <1>4 DEF TypeInv, RowsOK, Status
  <2> QED
    BY <1>3, <1>4, <2>3, <2>4 DEF TypeInv
<1>5. CASE FailInput(r, FALSE) /\ UNCHANGED chunk
  <2>1. RunsOK' /\ input' \in [Parent -> Row] /\ faults' \in 0..MaxFaults
    BY <1>5, FailInputOK DEF TypeInv
  <2> QED
    BY <1>3, <1>5, <2>1 DEF TypeInv, RowsOK
<1>6. CASE Goto(r, "publish") /\ UNCHANGED <<input, chunk, faults>>
  <2>1. "publish" \in PC \ {"idle", "exited", "split"}
    BY DEF PC
  <2>2. RunsOK'
    BY <1>1, <1>2, <1>6, <2>1, GotoOK DEF TypeInv
  <2> QED
    BY <1>3, <1>6, <2>2 DEF TypeInv, RowsOK
<1> QED
  BY <1>4, <1>5, <1>6 DEF CreateChild

LEMMA PublishType ==
  ASSUME TypeInv, NEW r \in Runner, Publish(r)
  PROVE  TypeInv'
<1> DEFINE p == run[r].input
           row == [status |-> "processing", split |-> TRUE, processed |-> 0]
<1>1. /\ run[r] \in Frame /\ FrameOK(run[r])
      /\ run[r].pc = "publish"
  BY DEF TypeInv, RunsOK, Publish
<1>2. p \in Parent
  BY <1>1 DEF Frame, FrameOK
<1>3. QueueOK' /\ handed' \in SUBSET Parent /\ quit' \in BOOLEAN /\ UNCHANGED chunk
  BY DEF TypeInv, Publish, QueueOK
<1>4. CASE FailInput(r, TRUE) /\ UNCHANGED feeder
  <2>1. RunsOK' /\ input' \in [Parent -> Row] /\ faults' \in 0..MaxFaults
    BY <1>4, FailInputOK DEF TypeInv
  <2> QED
    BY <1>3, <1>4, <2>1 DEF TypeInv, RowsOK, FeedersOK
<1>5. CASE ~(FailInput(r, TRUE) /\ UNCHANGED feeder)
  <2>1. row \in Row
    BY DEF Row, Status
  <2>2. RowsOK'
    BY <1>3, <1>5, <2>1 DEF TypeInv, RowsOK, Publish
  <2>3. faults' = faults
    BY <1>5 DEF Publish
  <2>4. CASE r \in Caller /\ ChunkCount[p] > 0
    <3>1. Inline(r, p, 1) /\ UNCHANGED feeder
      BY <1>5, <2>4 DEF Publish
    <3>2. RunsOK'
      BY <1>2, <3>1, InlineOK DEF TypeInv
    <3> QED
      BY <1>3, <2>2, <2>3, <3>1, <3>2 DEF TypeInv, FeedersOK
  <2>5. CASE ~(r \in Caller /\ ChunkCount[p] > 0)
    <3>1. /\ Return(r, "ok")
          /\ feeder' = [feeder EXCEPT ![p] = IF ChunkCount[p] > 0 THEN 1 ELSE 0]
      BY <1>5, <2>5 DEF Publish
    <3>2. RunsOK'
      BY <3>1, ReturnOK DEF TypeInv
    <3>3. (IF ChunkCount[p] > 0 THEN 1 ELSE 0) \in 0..ChunkCount[p]
      BY <1>2, ConstantsAssumption
    <3>4. FeedersOK'
      BY <1>2, <3>1, <3>3, FeederUpdate DEF TypeInv
    <3> QED
      BY <1>3, <2>2, <2>3, <3>2, <3>4 DEF TypeInv
  <2> QED
    BY <2>4, <2>5
<1> QED
  BY <1>4, <1>5

LEMMA FailNestedType ==
  ASSUME TypeInv, NEW r \in Runner, FailNested(r)
  PROVE  TypeInv'
<1>1. RunsOK'
  BY ReturnOK DEF TypeInv, FailNested
<1>2. [status |-> "failed", split |-> TRUE, processed |-> 0] \in Row
  BY DEF Row, Status
<1>3. RowsOK'
  BY <1>2 DEF TypeInv, RowsOK, FailNested
<1>4. faults' \in 0..MaxFaults
  BY FaultOK DEF TypeInv, FailNested
<1> QED
  BY <1>1, <1>3, <1>4 DEF TypeInv, FailNested, QueueOK, FeedersOK

LEMMA FeedType ==
  ASSUME TypeInv, NEW p \in Parent, Feed(p)
  PROVE  TypeInv'
<1> DEFINE c == <<p, feeder[p]>>
<1>1. feeder[p] \in 1..ChunkCount[p]
  BY ConstantsAssumption DEF TypeInv, FeedersOK, Feed
<1>2. c \in Chunk /\ c \in ChunksOf(p)
  BY <1>1, ChunkIs
<1>3. CognifyTask(p, c) \in Task /\ TaskOK(CognifyTask(p, c))
  BY <1>2 DEF CognifyTask, Task, TaskOK
<1>4. QueueOK'
  BY <1>3, SubmitOK DEF TypeInv, Feed
<1>5. (IF feeder[p] = ChunkCount[p] THEN 0 ELSE feeder[p] + 1) \in 0..ChunkCount[p]
  BY <1>1, ConstantsAssumption
<1>6. FeedersOK'
  BY <1>5, FeederUpdate DEF TypeInv, Feed
<1> QED
  BY <1>4, <1>6 DEF TypeInv, Feed, RowsOK, RunsOK

LEMMA MarkType ==
  ASSUME TypeInv, NEW r \in Runner, Mark(r)
  PROVE  TypeInv'
<1>1. run[r].chunk # None /\ run[r].pc = "mark"
  BY DEF TypeInv, RunsOK, FrameOK, Mark
<1>2. "extract" \in PC \ {"idle", "exited", "split"}
  BY DEF PC
<1>3. RunsOK'
  BY <1>1, <1>2, GotoOK DEF TypeInv, Mark
<1>4. RowsOK'
  BY DEF TypeInv, RowsOK, Mark, Status
<1>5. faults' \in 0..MaxFaults
  BY FaultOK DEF TypeInv, Mark
<1> QED
  BY <1>3, <1>4, <1>5 DEF TypeInv, Mark, QueueOK, FeedersOK

LEMMA ExtractType ==
  ASSUME TypeInv, NEW r \in Runner, Extract(r)
  PROVE  TypeInv'
<1>1. run[r].chunk # None /\ run[r].pc = "extract"
  BY DEF TypeInv, RunsOK, FrameOK, Extract
<1>2. CASE FailChunk(r, 1)
  <2>1. RunsOK' /\ chunk' \in [Chunk -> Status] /\ faults' \in 0..MaxFaults
    BY <1>1, <1>2, FailChunkOK DEF TypeInv
  <2> QED
    BY <2>1 DEF TypeInv, Extract, RowsOK, QueueOK, FeedersOK
<1>3. CASE ~FailChunk(r, 1)
  <2> DEFINE label == IF r \in Caller THEN "memify" ELSE "chain"
  <2>1. label \in PC \ {"idle", "exited", "split"} /\ label # "publish"
    BY DEF PC
  <2>2. Goto(r, label)
    BY <1>3 DEF Extract
  <2>3. RunsOK'
    BY <1>1, <2>1, <2>2, GotoOK DEF TypeInv
  <2> QED
    BY <1>3, <2>3 DEF TypeInv, Extract, RowsOK, Status, QueueOK, FeedersOK
<1> QED
  BY <1>2, <1>3

LEMMA ChainType ==
  ASSUME TypeInv, NEW r \in Runner, Chain(r)
  PROVE  TypeInv'
<1> DEFINE t == MemifyTask(run[r].input, run[r].chunk)
<1>1. run[r] \in Frame /\ FrameOK(run[r]) /\ run[r].pc = "chain"
  BY DEF TypeInv, RunsOK, Chain
<1>2. t \in Task /\ TaskOK(t)
  BY <1>1 DEF Frame, FrameOK, MemifyTask, Task, TaskOK
<1>3. QueueOK'
  BY <1>2, SubmitOK DEF TypeInv, Chain
<1>4. RunsOK'
  BY ReturnOK DEF TypeInv, Chain
<1> QED
  BY <1>3, <1>4 DEF TypeInv, Chain, RowsOK, FeedersOK

LEMMA MemifyType ==
  ASSUME TypeInv, NEW r \in Runner, Memify(r)
  PROVE  TypeInv'
<1> DEFINE n == IF r \in Caller THEN 2 ELSE 1
<1>1. run[r].chunk # None /\ run[r].pc = "memify" /\ n \in {1, 2}
  BY DEF TypeInv, RunsOK, FrameOK, Memify
<1>2. CASE FailChunk(r, n)
  <2>1. RunsOK' /\ chunk' \in [Chunk -> Status] /\ faults' \in 0..MaxFaults
    BY <1>1, <1>2, FailChunkOK DEF TypeInv
  <2> QED
    BY <2>1 DEF TypeInv, Memify, RowsOK, QueueOK, FeedersOK
<1>3. CASE ~FailChunk(r, n)
  <2>1. "load" \in PC \ {"idle", "exited", "split"}
    BY DEF PC
  <2>2. Goto(r, "load")
    BY <1>3 DEF Memify
  <2>3. RunsOK'
    BY <1>1, <2>1, <2>2, GotoOK DEF TypeInv
  <2> QED
    BY <1>3, <2>3 DEF TypeInv, Memify, RowsOK, Status, QueueOK, FeedersOK
<1> QED
  BY <1>2, <1>3

LEMMA LoadInputType ==
  ASSUME TypeInv, NEW r \in Runner, LoadInput(r)
  PROVE  TypeInv'
<1>1. run[r] \in Frame /\ FrameOK(run[r]) /\ run[r].pc = "load"
  BY DEF TypeInv, RunsOK, LoadInput
<1>2. CASE Fault(1) /\ Synced(r)
  <2>1. RunsOK' /\ faults' \in 0..MaxFaults
    BY <1>1, <1>2, SyncedOK, FaultOK DEF TypeInv
  <2> QED
    BY <2>1 DEF TypeInv, LoadInput, RowsOK, QueueOK, FeedersOK
<1>3. CASE ~(Fault(1) /\ Synced(r))
  <2> DEFINE f == [run[r] EXCEPT !.copy = input[run[r].input].split, !.pc = "count"]
  <2>1. input[run[r].input].split \in BOOLEAN
    BY <1>1 DEF TypeInv, RowsOK, Row, FrameOK
  <2>2. f \in Frame
    BY <1>1, <2>1 DEF Frame, PC
  <2>3. FrameOK(f)
    BY <1>1, <2>2 DEF Frame, FrameOK
  <2>4. run' = [run EXCEPT ![r] = f]
    BY <1>3 DEF LoadInput
  <2>5. RunsOK'
    BY <2>2, <2>3, <2>4, FrameUpdate DEF TypeInv
  <2> QED
    BY <1>3, <2>5 DEF TypeInv, LoadInput, RowsOK, QueueOK, FeedersOK
<1> QED
  BY <1>2, <1>3

LEMMA CountChildrenType ==
  ASSUME TypeInv, NEW r \in Runner, CountChildren(r)
  PROVE  TypeInv'
<1> DEFINE p == run[r].input
<1>1. run[r] \in Frame /\ FrameOK(run[r]) /\ run[r].pc = "count" /\ p \in Parent
  BY DEF TypeInv, RunsOK, FrameOK, CountChildren
<1>2. CASE Fault(1) /\ Synced(r)
  <2>1. RunsOK' /\ faults' \in 0..MaxFaults
    BY <1>1, <1>2, SyncedOK, FaultOK DEF TypeInv
  <2> QED
    BY <2>1 DEF TypeInv, CountChildren, RowsOK, QueueOK, FeedersOK
<1>3. CASE ~(Fault(1) /\ Synced(r))
  <2> DEFINE n == Cardinality(Completed(p))
             b == Present(p) # {} /\ Present(p) = Completed(p)
             f == [run[r] EXCEPT !.tally = n, !.all = b, !.pc = "save"]
  <2>1. n \in Nat /\ b \in BOOLEAN
    BY <1>1, CompletedFinite
  <2> HIDE DEF n, b
  <2>2. f \in Frame
    BY <1>1, <2>1 DEF Frame, PC
  <2>3. FrameOK(f)
    BY <1>1, <2>2 DEF Frame, FrameOK
  <2>4. run' = [run EXCEPT ![r] = f]
    BY <1>3 DEF CountChildren, n, b
  <2>5. RunsOK'
    BY <2>2, <2>3, <2>4, FrameUpdate DEF TypeInv
  <2> QED
    BY <1>3, <2>5 DEF TypeInv, CountChildren, RowsOK, QueueOK, FeedersOK
<1> QED
  BY <1>2, <1>3

LEMMA SaveInputType ==
  ASSUME TypeInv, NEW r \in Runner, SaveInput(r)
  PROVE  TypeInv'
<1> DEFINE row == [status |-> IF run[r].all THEN "completed" ELSE "processing",
                   split |-> run[r].copy, processed |-> run[r].tally]
<1>1. run[r] \in Frame /\ run[r].pc = "save"
  BY DEF TypeInv, RunsOK, SaveInput
<1>2. row \in Row
  BY <1>1 DEF Frame, Row, Status
<1>3. RowsOK'
  BY <1>2 DEF TypeInv, RowsOK, SaveInput
<1>4. RunsOK'
  BY <1>1, SyncedOK DEF TypeInv, SaveInput
<1>5. faults' \in 0..MaxFaults
  BY FaultOK DEF TypeInv, SaveInput
<1> QED
  BY <1>3, <1>4, <1>5 DEF TypeInv, SaveInput, QueueOK, FeedersOK

-----------------------------------------------------------------------------
\* Whatever the inputs, their chunks, the number of workers and the capacity of
\* the queue: every variable keeps its type, the queue its bound, and a running
\* task always has the input and the chunk its step needs.
THEOREM TypeCorrect == Spec => []TypeOK
<1>1. Init => TypeInv
  BY InitType
<1>2. TypeInv /\ [Next]_vars => TypeInv'
  <2> SUFFICES ASSUME TypeInv, [Next]_vars PROVE TypeInv'
    OBVIOUS
  <2>1. CASE UNCHANGED vars
    BY <2>1 DEF vars, TypeInv, RowsOK, QueueOK, RunsOK, FeedersOK
  <2>2. ASSUME NEW p \in Parent, Add(p) \/ CognifyAsync(p) \/ Feed(p) PROVE TypeInv'
    BY <2>2, AddType, CognifyAsyncType, FeedType
  <2>3. ASSUME NEW r \in Caller, NEW p \in Parent, CognifyWait(r, p) PROVE TypeInv'
    BY <2>3, CognifyWaitType DEF Runner
  <2>4. ASSUME NEW w \in Worker, Take(w) \/ Exit(w) PROVE TypeInv'
    BY <2>4, TakeType, ExitType DEF Runner
  <2>5. ASSUME NEW r \in Runner, Execute(r) PROVE TypeInv'
    BY <2>5, CreateChildType, PublishType, FailNestedType, MarkType, ExtractType,
       ChainType, MemifyType, LoadInputType, CountChildrenType, SaveInputType
       DEF Execute
  <2>6. CASE Close
    BY <2>6, CloseType
  <2> QED
    BY <2>1, <2>2, <2>3, <2>4, <2>5, <2>6 DEF Next
<1>3. TypeInv => TypeOK
  BY DEF TypeInv, TypeOK, RowsOK, QueueOK, RunsOK, FeedersOK
<1> QED
  BY <1>1, <1>2, <1>3, PTL DEF Spec

-----------------------------------------------------------------------------
\* Custody and announcements.
Splits(f) == f.pc \in {"split", "publish"}

FrameHolds(f, c) == f.chunk = c /\ f.pc \in {"mark", "extract", "chain", "memify"}

FrameAhead(f, c) ==
  /\ f.nested /\ f.input = c[1] /\ f.pc # "failInput"
  /\ f.next <= c[2]

FrameWorks(f, c) == FrameHolds(f, c) \/ FrameAhead(f, c)

\* Nothing happens to an input that has not been handed over.
FreshAt(p) ==
  p \notin handed =>
    /\ feeder[p] = 0
    /\ \A i \in 1..Len(queue) : queue[i].input # p
    /\ \A r \in Runner : run[r].input # p
    /\ \A c \in ChunksOf(p) : chunk[c] = "none"

\* A queued split is the only work there is for its input.
QueuedSplitAt(p) ==
  \A i \in 1..Len(queue) : queue[i].input = p /\ queue[i].chunk = None =>
    /\ feeder[p] = 0
    /\ \A j \in 1..Len(queue) : queue[j].input = p => j = i
    /\ \A r \in Runner : run[r].input # p
    /\ \A c \in ChunksOf(p) : chunk[c] = "none"

\* So is a running split; it has created the children before next.
RunningSplitAt(p) ==
  \A r \in Runner : run[r].input = p /\ Splits(run[r]) =>
    /\ feeder[p] = 0
    /\ \A j \in 1..Len(queue) : queue[j].input # p
    /\ \A q \in Runner : run[q].input = p => q = r
    /\ \A c \in ChunksOf(p) :
         chunk[c] = IF c[2] < run[r].next THEN "pending" ELSE "none"
    /\ run[r].pc = "publish" => ChunkCount[p] < run[r].next

\* There is chunk work for an input only when all its children have been created.
Active(p) ==
  \/ feeder[p] # 0
  \/ \E i \in 1..Len(queue) : queue[i].input = p /\ queue[i].chunk # None
  \/ \E r \in Runner : run[r].input = p /\ ~Splits(run[r])

ActiveAt(p) == Active(p) => \A c \in ChunksOf(p) : chunk[c] # "none"

PhaseOK ==
  \A p \in Parent : FreshAt(p) /\ QueuedSplitAt(p) /\ RunningSplitAt(p) /\ ActiveAt(p)

\* A chunk is in the queue once, or with one goroutine, or still to be fed.
CustodyAt(c) ==
  /\ \A i, j \in 1..Len(queue) : InQueue(i, c) /\ InQueue(j, c) => i = j
  /\ \A i \in 1..Len(queue), r \in Runner : InQueue(i, c) => ~FrameWorks(run[r], c)
  /\ \A r, q \in Runner : FrameWorks(run[r], c) /\ FrameWorks(run[q], c) => r = q
  /\ ToFeed(c) =>
       /\ \A i \in 1..Len(queue) : ~InQueue(i, c)
       /\ \A r \in Runner : ~FrameWorks(run[r], c)

CustodyOK == \A c \in Chunk : CustodyAt(c)

\* The status a chunk has while somebody holds it.
Stage(label) ==
  IF label = "mark" THEN {"pending"}
  ELSE IF label = "extract" THEN {"pending", "processing"}
  ELSE {"cognified"}

FrameStaged(f, c, s) ==
  /\ FrameHolds(f, c) => s \in Stage(f.pc)
  /\ FrameAhead(f, c) => s = "pending"

StageAt(c) ==
  /\ \A i \in 1..Len(queue) : InQueue(i, c) =>
       chunk[c] = IF queue[i].kind = "cognify" THEN "pending" ELSE "cognified"
  /\ ToFeed(c) => chunk[c] = "pending"
  /\ \A r \in Runner : FrameStaged(run[r], c, chunk[c])

StageOK == \A c \in Chunk : StageAt(c)

\* The inline loop is at the child before next.
NestedOK ==
  \A r \in Runner : run[r].nested => run[r].chunk = <<run[r].input, run[r].next - 1>>

\* What the last count found still holds when it is saved.
SaveOK ==
  \A r \in Runner : run[r].pc = "save" =>
    /\ run[r].all => Finished(run[r].input)
    /\ run[r].tally <= Cardinality(Completed(run[r].input))

FlowOK == PhaseOK /\ CustodyOK /\ StageOK /\ NestedOK

AccountOK == SaveOK /\ CompletedMeansDone /\ ProcessedIsEarned

FlowInv == TypeInv /\ FlowOK

PipelineInv == TypeInv /\ FlowOK /\ AccountOK

-----------------------------------------------------------------------------
(* How one frame, or the rows, may change.                                 *)

LEMMA RunAt ==
  ASSUME RunsOK, NEW r \in Runner, NEW f, run' = [run EXCEPT ![r] = f]
  PROVE  run'[r] = f /\ \A q \in Runner : q # r => run'[q] = run[q]
BY DEF RunsOK

LEMMA ChunkOf ==
  ASSUME NEW c \in Chunk
  PROVE  c[1] \in Parent /\ c[2] \in 1..ChunkCount[c[1]] /\ c = <<c[1], c[2]>>
         /\ c \in ChunksOf(c[1]) /\ c # None
BY ConstantsAssumption DEF Chunk, ChunksOf

LEMMA ChunkIn ==
  ASSUME NEW p \in Parent, NEW c \in ChunksOf(p)
  PROVE  c \in Chunk /\ c[1] = p
BY DEF Chunk, ChunksOf

\* The work on a chunk is work on its input.
LEMMA WorksOnInput ==
  ASSUME RunsOK, NEW r \in Runner, NEW c \in Chunk, FrameWorks(run[r], c)
  PROVE  run[r].input = c[1] /\ ~Splits(run[r])
<1>1. FrameOK(run[r]) /\ run[r] \in Frame /\ c # None /\ c \in Chunk
  BY ChunkOf DEF RunsOK
<1>2. CASE FrameHolds(run[r], c)
  <2>1. run[r].chunk = c /\ run[r].input \in Parent /\ c \in ChunksOf(run[r].input)
    BY <1>1, <1>2 DEF FrameOK, FrameHolds
  <2> QED
    BY <1>2, <2>1, ChunkIn DEF FrameHolds, Splits
<1>3. CASE FrameAhead(run[r], c)
  BY <1>1, <1>3 DEF FrameOK, FrameAhead, Splits
<1> QED
  BY <1>2, <1>3 DEF FrameWorks

LEMMA QueueTask ==
  ASSUME QueueOK, NEW i \in 1..Len(queue)
  PROVE  /\ queue[i] \in Task /\ TaskOK(queue[i])
         /\ queue[i].input \in Parent /\ queue[i].chunk \in Chunk \cup {None}
         /\ queue[i].kind \in {"cognify", "memify"}
<1>1. queue[i] \in Task /\ TaskOK(queue[i])
  BY DEF QueueOK
<1> QED
  BY <1>1 DEF Task

\* What a step leaves as it was: the inputs other than p, if what it still has for
\* them it had before.  The queue may lose its head (d = 1).
LEMMA OtherInputs ==
  ASSUME PhaseOK, NEW p \in Parent, NEW d \in {0, 1},
         handed' \in {handed, handed \cup {p}}, p \in handed',
         \A i \in 1..Len(queue') : queue'[i].input # p =>
            i + d \in 1..Len(queue) /\ queue'[i] = queue[i + d],
         \A r \in Runner : run'[r].input \in Parent \ {p} => run'[r] = run[r],
         \A q \in Parent \ {p} : feeder'[q] = feeder[q],
         \A c \in Chunk : c[1] # p => chunk'[c] = chunk[c],
         QueuedSplitAt(p)', RunningSplitAt(p)', ActiveAt(p)'
  PROVE  PhaseOK'
<1> SUFFICES ASSUME NEW q \in Parent
             PROVE  FreshAt(q)' /\ QueuedSplitAt(q)' /\ RunningSplitAt(q)' /\ ActiveAt(q)'
  BY DEF PhaseOK
<1>1. CASE q = p
  BY <1>1 DEF FreshAt
<1>2. CASE q # p
  <2>1. FreshAt(q) /\ QueuedSplitAt(q) /\ RunningSplitAt(q) /\ ActiveAt(q)
    BY DEF PhaseOK
  <2>2. \A i \in 1..Len(queue') : queue'[i].input = q =>
           i + d \in 1..Len(queue) /\ queue'[i] = queue[i + d]
    BY <1>2
  <2>3. \A r \in Runner : run'[r].input = q => run'[r] = run[r]
    BY <1>2
  <2>4. \A c \in ChunksOf(q) : chunk'[c] = chunk[c]
    BY <1>2, ChunkIn
  <2>5. feeder'[q] = feeder[q] /\ (q \notin handed' => q \notin handed)
    BY <1>2
  <2>6. FreshAt(q)'
    BY <2>1, <2>2, <2>3, <2>4, <2>5 DEF FreshAt, ChunksOf
  <2>7. QueuedSplitAt(q)'
    <3> SUFFICES ASSUME NEW i \in 1..Len(queue'), queue'[i].input = q, queue'[i].chunk = None
                 PROVE  /\ feeder'[q] = 0
                        /\ \A j \in 1..Len(queue') : queue'[j].input = q => j = i
                        /\ \A r \in Runner : run'[r].input # q
                        /\ \A c \in ChunksOf(q) : chunk'[c] = "none"
      BY DEF QueuedSplitAt, ChunksOf
    <3>1. i + d \in 1..Len(queue) /\ queue[i + d].input = q /\ queue[i + d].chunk = None
      BY <2>2
    <3>2. /\ feeder[q] = 0
          /\ \A j \in 1..Len(queue) : queue[j].input = q => j = i + d
          /\ \A r \in Runner : run[r].input # q
          /\ \A c \in ChunksOf(q) : chunk[c] = "none"
      BY <2>1, <3>1 DEF QueuedSplitAt
    <3>3. \A j \in 1..Len(queue') : queue'[j].input = q => j = i
      BY <2>2, <3>2
    <3> QED
      BY <2>3, <2>4, <2>5, <3>2, <3>3
  <2>8. RunningSplitAt(q)'
    <3> SUFFICES ASSUME NEW r \in Runner, run'[r].input = q, Splits(run'[r])
                 PROVE  /\ feeder'[q] = 0
                        /\ \A j \in 1..Len(queue') : queue'[j].input # q
                        /\ \A t \in Runner : run'[t].input = q => t = r
                        /\ \A c \in ChunksOf(q) :
                             chunk'[c] = IF c[2] < run'[r].next THEN "pending" ELSE "none"
                        /\ run'[r].pc = "publish" => ChunkCount[q] < run'[r].next
      BY DEF RunningSplitAt, ChunksOf, Splits
    <3>1. run'[r] = run[r]
      BY <2>3
    <3>2. /\ feeder[q] = 0
          /\ \A j \in 1..Len(queue) : queue[j].input # q
          /\ \A t \in Runner : run[t].input = q => t = r
          /\ \A c \in ChunksOf(q) :
               chunk[c] = IF c[2] < run[r].next THEN "pending" ELSE "none"
          /\ run[r].pc = "publish" => ChunkCount[q] < run[r].next
      BY <2>1, <3>1 DEF RunningSplitAt
    <3> QED
      BY <2>2, <2>3, <2>4, <2>5, <3>1, <3>2
  <2>9. ActiveAt(q)'
    <3>1. Active(q)' => Active(q)
      BY <2>2, <2>3, <2>5 DEF Active, Splits
    <3> QED
      BY <2>1, <2>4, <3>1 DEF ActiveAt, ChunksOf
  <2> QED
    BY <2>6, <2>7, <2>8, <2>9
<1> QED
  BY <1>1, <1>2

\* The same for a chunk nobody takes up.
LEMMA OtherChunk ==
  ASSUME NEW c \in Chunk, CustodyAt(c), StageAt(c), NEW d \in {0, 1},
         \A i \in 1..Len(queue') : queue'[i].chunk = c =>
            i + d \in 1..Len(queue) /\ queue'[i] = queue[i + d],
         \A r \in Runner : FrameWorks(run'[r], c) => run'[r] = run[r],
         ToFeed(c)' => ToFeed(c),
         chunk'[c] = chunk[c]
  PROVE  CustodyAt(c)' /\ StageAt(c)'
<1>1. \A i \in 1..Len(queue') : queue'[i].chunk = c => InQueue(i + d, c)
  BY DEF InQueue
<1>2. \A i, j \in 1..Len(queue') : queue'[i].chunk = c /\ queue'[j].chunk = c => i = j
  BY <1>1 DEF CustodyAt
<1>3. \A i \in 1..Len(queue'), r \in Runner : queue'[i].chunk = c => ~FrameWorks(run'[r], c)
  BY <1>1 DEF CustodyAt
<1>4. \A r, q \in Runner : FrameWorks(run'[r], c) /\ FrameWorks(run'[q], c) => r = q
  BY DEF CustodyAt
<1>5. ToFeed(c)' => /\ \A i \in 1..Len(queue') : queue'[i].chunk # c
                    /\ \A r \in Runner : ~FrameWorks(run'[r], c)
  BY <1>1 DEF CustodyAt
<1>6. CustodyAt(c)'
  BY <1>2, <1>3, <1>4, <1>5 DEF CustodyAt, InQueue, FrameWorks, FrameHolds, FrameAhead
<1>7. \A i \in 1..Len(queue') : queue'[i].chunk = c =>
         chunk'[c] = IF queue'[i].kind = "cognify" THEN "pending" ELSE "cognified"
  BY <1>1 DEF StageAt
<1>8. \A r \in Runner : FrameStaged(run'[r], c, chunk'[c])
  BY DEF StageAt, FrameStaged, FrameWorks
<1>9. StageAt(c)'
  BY <1>7, <1>8 DEF StageAt, InQueue, FrameStaged, FrameHolds, FrameAhead, Stage
<1> QED
  BY <1>6, <1>9

\* A step of a goroutine that executes a chunk task: the frame may go on with the
\* same input or end, and only the chunk it holds may change.
LEMMA LocalPhase ==
  ASSUME TypeInv, PhaseOK, UNCHANGED <<queue, feeder, handed>>,
         NEW r \in Runner, NEW f, run' = [run EXCEPT ![r] = f],
         run[r].input \in Parent, ~Splits(run[r]), ~Splits(f), f.input \in {run[r].input, None},
         \A c \in Chunk : chunk'[c] # chunk[c] => chunk'[c] # "none" /\ c[1] = run[r].input
  PROVE  PhaseOK'
<1>1. run'[r] = f /\ \A q \in Runner : q # r => run'[q] = run[q]
  BY RunAt DEF TypeInv
<1>2. PICK p \in Parent : p = run[r].input
  OBVIOUS
<1>3. FreshAt(p) /\ QueuedSplitAt(p) /\ RunningSplitAt(p) /\ ActiveAt(p)
  BY DEF PhaseOK
<1>4. p \in handed
  BY <1>2, <1>3 DEF FreshAt
<1>5. None \notin Parent
  BY ConstantsAssumption
<1>6. QueuedSplitAt(p)'
  BY <1>2, <1>3 DEF QueuedSplitAt
<1>7. RunningSplitAt(p)'
  <2>1. \A t \in Runner : run'[t].input = p => ~Splits(run'[t])
    BY <1>1, <1>2, <1>3 DEF RunningSplitAt
  <2> QED
    BY <2>1 DEF RunningSplitAt, Splits
<1>8. ActiveAt(p)'
  <2>1. \A c \in ChunksOf(p) : chunk[c] # "none"
    BY <1>2, <1>3 DEF ActiveAt, Active
  <2>2. \A c \in ChunksOf(p) : chunk'[c] # "none"
    BY <2>1, ChunkIn
  <2> QED
    BY <2>2 DEF ActiveAt, ChunksOf
<1>9. /\ \A i \in 1..Len(queue') : i + 0 \in 1..Len(queue) /\ queue'[i] = queue[i + 0]
      /\ \A t \in Runner : run'[t].input \in Parent \ {p} => run'[t] = run[t]
      /\ \A q \in Parent \ {p} : feeder'[q] = feeder[q]
      /\ \A c \in Chunk : c[1] # p => chunk'[c] = chunk[c]
  BY <1>1, <1>2, <1>5 DEF TypeInv, QueueOK
<1> QED
  BY <1>4, <1>6, <1>7, <1>8, <1>9, OtherInputs

\* A step that takes up no work it did not have, and changes only what it held.
LEMMA LocalChunks ==
  ASSUME TypeInv, CustodyOK, StageOK, UNCHANGED <<queue, feeder>>,
         NEW r \in Runner, NEW f, run' = [run EXCEPT ![r] = f],
         \A c \in Chunk : FrameWorks(f, c) => FrameWorks(run[r], c),
         \A c \in Chunk : chunk'[c] # chunk[c] => FrameWorks(run[r], c),
         \A c \in Chunk : FrameStaged(f, c, chunk'[c])
  PROVE  CustodyOK' /\ StageOK'
<1>1. run'[r] = f /\ \A q \in Runner : q # r => run'[q] = run[q]
  BY RunAt DEF TypeInv
<1> SUFFICES ASSUME NEW c \in Chunk PROVE CustodyAt(c)' /\ StageAt(c)'
  BY DEF CustodyOK, StageOK
<1>2. CustodyAt(c) /\ StageAt(c)
  BY DEF CustodyOK, StageOK
<1>3. \A q \in Runner : FrameWorks(run'[q], c) => FrameWorks(run[q], c)
  BY <1>1
<1>4. CustodyAt(c)'
  BY <1>2, <1>3 DEF CustodyAt, InQueue, ToFeed, FrameWorks, FrameHolds, FrameAhead
<1>5. /\ \A i \in 1..Len(queue) : queue[i].chunk = c =>
           chunk'[c] = IF queue[i].kind = "cognify" THEN "pending" ELSE "cognified"
      /\ ToFeed(c) => chunk'[c] = "pending"
      /\ \A q \in Runner : FrameStaged(run'[q], c, chunk'[c])
  <2>1. CASE chunk'[c] = chunk[c]
    BY <1>1, <1>2, <2>1 DEF StageAt, InQueue
  <2>2. CASE chunk'[c] # chunk[c]
    <3>1. FrameWorks(run[r], c)
      BY <2>2
    <3>2. (\A i \in 1..Len(queue) : queue[i].chunk # c) /\ ~ToFeed(c)
      BY <1>2, <3>1 DEF CustodyAt, InQueue
    <3>3. \A q \in Runner : q # r => ~FrameWorks(run[q], c)
      BY <1>2, <3>1 DEF CustodyAt
    <3>4. \A q \in Runner : FrameStaged(run'[q], c, chunk'[c])
      BY <1>1, <3>3 DEF FrameStaged, FrameWorks
    <3> QED
      BY <3>2, <3>4
  <2> QED
    BY <2>1, <2>2
<1>6. StageAt(c)'
  BY <1>5 DEF StageAt, InQueue, ToFeed, FrameStaged, FrameHolds, FrameAhead, Stage
<1> QED
  BY <1>4, <1>6

LEMMA NestedStep ==
  ASSUME TypeInv, NestedOK, NEW r \in Runner, NEW f, run' = [run EXCEPT ![r] = f],
         f.nested => f.chunk = <<f.input, f.next - 1>>
  PROVE  NestedOK'
BY RunAt DEF TypeInv, NestedOK

LEMMA Monotone ==
  ASSUME NEW p \in Parent,
         \A c \in Chunk : chunk[c] = "completed" => chunk'[c] = "completed"
  PROVE  /\ Finished(p) => Finished(p)'
         /\ Completed(p) \subseteq Completed(p)'
         /\ Cardinality(Completed(p)) <= Cardinality(Completed(p)')
<1>1. Completed(p) \subseteq Completed(p)' /\ Completed(p)' \subseteq ChunksOf(p)
  BY ChunkIn DEF Completed
<1>2. IsFiniteSet(Completed(p)')
  BY <1>1, ChunksOfFinite, FS_Subset
<1>3. Cardinality(Completed(p)) <= Cardinality(Completed(p)')
  BY <1>1, <1>2, FS_Subset
<1> QED
  BY <1>1, <1>3 DEF Finished

LEMMA SaveHolds ==
  ASSUME TypeInv',
         \A q \in Runner, p \in Parent : run'[q].pc = "save" /\ run'[q].input = p =>
            /\ run'[q].all => Finished(p)'
            /\ run'[q].tally <= Cardinality(Completed(p)')
  PROVE  SaveOK'
<1>1. \A q \in Runner : run'[q].pc = "save" => run'[q].input \in Parent
  BY DEF TypeInv, RunsOK, FrameOK
<1> QED
  BY <1>1 DEF SaveOK, Finished, Completed

\* No completed chunk is taken back, and nothing is announced.
LEMMA QuietAccount ==
  ASSUME TypeInv, TypeInv',
         \A c \in Chunk : chunk[c] = "completed" => chunk'[c] = "completed",
         \A r \in Runner : run'[r].pc = "save" => run'[r] = run[r],
         \A p \in Parent :
           \/ input'[p] = input[p]
           \/ input'[p].status # "completed" /\ input'[p].processed \in {0, input[p].processed}
  PROVE  AccountOK => AccountOK'
<1> SUFFICES ASSUME AccountOK PROVE AccountOK'
  OBVIOUS
<1>2. \A p \in Parent : Cardinality(Completed(p)) \in Nat /\ Cardinality(Completed(p)') \in Nat
  <2> TAKE p \in Parent
  <2>1. Completed(p)' \subseteq ChunksOf(p)
    BY DEF Completed
  <2> QED
    BY <2>1, CompletedFinite, ChunksOfFinite, FS_Subset, FS_CardinalityType
<1>3. SaveOK'
  <2>1. ASSUME NEW q \in Runner, run'[q].pc = "save", NEW p \in Parent, p = run'[q].input
        PROVE  /\ run'[q].all => Finished(p)'
               /\ run'[q].tally <= Cardinality(Completed(p)')
    <3>1. run'[q] = run[q] /\ run[q].tally \in Nat
      BY <2>1 DEF TypeInv, RunsOK, Frame
    <3>2. /\ run[q].all => Finished(p)
          /\ run[q].tally <= Cardinality(Completed(p))
      BY <2>1, <3>1 DEF AccountOK, SaveOK
    <3>3. /\ Finished(p) => Finished(p)'
          /\ Cardinality(Completed(p)) <= Cardinality(Completed(p)')
      BY Monotone
    <3> QED
      BY <1>2, <3>1, <3>2, <3>3
  <2> QED
    BY <2>1, SaveHolds
<1>4. CompletedMeansDone'
  <2> SUFFICES ASSUME NEW p \in Parent, input'[p].status = "completed"
               PROVE  Finished(p)'
    BY DEF CompletedMeansDone
  <2>1. input'[p] = input[p]
    OBVIOUS
  <2> QED
    BY <2>1, Monotone DEF AccountOK, CompletedMeansDone
<1>5. ProcessedIsEarned'
  <2> SUFFICES ASSUME NEW p \in Parent
               PROVE  input'[p].processed <= Cardinality(Completed(p)')
    BY DEF ProcessedIsEarned, Completed
  <2>1. input[p].processed <= Cardinality(Completed(p)) /\ input[p].processed \in Nat
    BY DEF AccountOK, ProcessedIsEarned, TypeInv, RowsOK, Row
  <2>2. Cardinality(Completed(p)) <= Cardinality(Completed(p)')
    BY Monotone
  <2>3. input'[p].processed \in {0, input[p].processed}
    OBVIOUS
  <2> QED
    BY <1>2, <2>1, <2>2, <2>3
<1> QED
  BY <1>3, <1>4, <1>5 DEF AccountOK

-----------------------------------------------------------------------------
(* The frames a step of a chunk task may end in.                           *)

GoesOn(r, f) ==
  /\ run' = [run EXCEPT ![r] = f]
  /\ ~Splits(f)
  /\ f.input \in {run[r].input, None}
  /\ f.nested => f.chunk = <<f.input, f.next - 1>>
  /\ \A c \in Chunk : FrameWorks(f, c) => FrameWorks(run[r], c)
  /\ \A c \in Chunk : FrameStaged(f, c, chunk'[c])

LEMMA LocalFlow ==
  ASSUME TypeInv, FlowOK, UNCHANGED <<queue, feeder, handed>>,
         NEW r \in Runner, NEW f, run[r].input \in Parent, ~Splits(run[r]), GoesOn(r, f),
         \A c \in Chunk : chunk'[c] # chunk[c] => FrameHolds(run[r], c) /\ chunk'[c] # "none"
  PROVE  FlowOK' /\ \A c \in Chunk : chunk[c] = "completed" => chunk'[c] = "completed"
<1>1. \A c \in Chunk : chunk'[c] # chunk[c] => FrameWorks(run[r], c) /\ c[1] = run[r].input
  BY WorksOnInput DEF TypeInv, FrameWorks
<1>2. PhaseOK'
  BY <1>1, LocalPhase DEF FlowOK, GoesOn
<1>3. CustodyOK' /\ StageOK'
  BY <1>1, LocalChunks DEF FlowOK, GoesOn
<1>5. NestedOK'
  BY NestedStep DEF FlowOK, GoesOn
<1>6. ASSUME NEW c \in Chunk, chunk[c] = "completed" PROVE chunk'[c] = "completed"
  BY <1>6 DEF FlowOK, StageOK, StageAt, FrameStaged, Stage
<1> QED
  BY <1>2, <1>3, <1>5, <1>6 DEF FlowOK

LEMMA IdleGoesOn ==
  ASSUME NEW r \in Runner, NEW result, Return(r, result)
  PROVE  \E f : GoesOn(r, f) /\ f.pc # "save"
<1> DEFINE f == IdleFrame(IF r \in Caller THEN result ELSE "none")
<1>1. \A c \in Chunk : ~FrameHolds(f, c) /\ ~FrameAhead(f, c)
  BY DEF IdleFrame, FrameHolds, FrameAhead
<1>2. f.pc = "idle" /\ f.input = None /\ f.nested = FALSE
  BY DEF IdleFrame
<1>3. run' = [run EXCEPT ![r] = f]
  BY DEF Return
<1>4. GoesOn(r, f)
  BY <1>1, <1>2, <1>3 DEF GoesOn, Splits, FrameWorks, FrameStaged
<1> QED
  BY <1>2, <1>4

LEMMA InlineGoesOn ==
  ASSUME TypeInv, FlowOK, NEW r \in Runner, run[r].nested, run[r].pc \in {"load", "count", "save"},
         Inline(r, run[r].input, run[r].next), UNCHANGED chunk
  PROVE  \E f : GoesOn(r, f) /\ f.pc # "save"
<1> DEFINE p == run[r].input
           i == run[r].next
<1>1. p \in Parent /\ i \in Nat \ {0}
  BY DEF TypeInv, RunsOK, FrameOK, Frame
<1>2. CASE i <= ChunkCount[p]
  <2> DEFINE f == FrameAt("mark", p, <<p, i>>, TRUE, i + 1, FALSE)
  <2>1. run' = [run EXCEPT ![r] = f]
    BY <1>2 DEF Inline
  <2>2. /\ f.pc = "mark" /\ f.input = p /\ f.nested = TRUE
        /\ f.chunk = <<p, i>> /\ f.next = i + 1
    BY DEF FrameAt
  <2> HIDE DEF f
  <2>3. f.next - 1 = i /\ f.chunk = <<f.input, f.next - 1>>
    BY <1>1, <2>2
  <2>4. ASSUME NEW c \in Chunk, FrameWorks(f, c) PROVE FrameAhead(run[r], c)
    <3>1. c[1] \in Parent /\ c[2] \in Int
      BY ChunkOf, ConstantsAssumption
    <3>2. c[1] = p /\ i <= c[2]
      BY <1>1, <2>2, <2>4, <3>1 DEF FrameWorks, FrameHolds, FrameAhead
    <3> QED
      BY <3>2 DEF FrameAhead
  <2>5. \A c \in Chunk : FrameAhead(run[r], c) => chunk'[c] = "pending"
    BY DEF FlowOK, StageOK, StageAt, FrameStaged
  <2>6. \A c \in Chunk : FrameStaged(f, c, chunk'[c])
    BY <2>2, <2>4, <2>5 DEF FrameStaged, FrameWorks, Stage
  <2>7. GoesOn(r, f)
    BY <2>1, <2>2, <2>3, <2>4, <2>6 DEF GoesOn, Splits, FrameWorks
  <2> QED
    BY <2>2, <2>7
<1>3. CASE ~(i <= ChunkCount[p])
  <2> DEFINE f == FrameAt("count", p, None, FALSE, 1, TRUE)
  <2>1. run' = [run EXCEPT ![r] = f]
    BY <1>3 DEF Inline
  <2>2. f.pc = "count" /\ f.input = p /\ f.nested = FALSE
    BY DEF FrameAt
  <2> HIDE DEF f
  <2>3. \A c \in Chunk : ~FrameHolds(f, c) /\ ~FrameAhead(f, c)
    BY <2>2 DEF FrameHolds, FrameAhead
  <2>4. GoesOn(r, f)
    BY <2>1, <2>2, <2>3 DEF GoesOn, Splits, FrameWorks, FrameStaged
  <2> QED
    BY <2>2, <2>4
<1> QED
  BY <1>2, <1>3

LEMMA SyncedGoesOn ==
  ASSUME TypeInv, FlowOK, NEW r \in Runner, run[r].pc \in {"load", "count", "save"},
         Synced(r), UNCHANGED chunk
  PROVE  \E f : GoesOn(r, f) /\ f.pc # "save"
BY InlineGoesOn, IdleGoesOn DEF Synced

\* The frame stays with its chunk and its place in the inline loop.
SameTask(f, g) ==
  f.input = g.input /\ f.chunk = g.chunk /\ f.nested = g.nested /\ f.next = g.next

LEMMA SameTaskGoesOn ==
  ASSUME TypeInv, FlowOK, NEW r \in Runner, ~Splits(run[r]), run[r].input \in Parent,
         NEW f, SameTask(f, run[r]), run' = [run EXCEPT ![r] = f],
         f.pc \in {"extract", "memify", "chain", "load", "failInput", "save", "count"},
         f.pc \in {"extract", "memify", "chain"} => run[r].pc \in {"mark", "extract", "chain", "memify"},
         run[r].pc # "failInput",
         \A c \in Chunk : FrameHolds(run[r], c) /\ f.pc \in {"extract", "memify", "chain"}
                            => chunk'[c] \in Stage(f.pc),
         \A c \in Chunk : ~FrameHolds(run[r], c) => chunk'[c] = chunk[c]
  PROVE  GoesOn(r, f)
<1>1. run[r] \in Frame
  BY DEF TypeInv, RunsOK
<1>2. f.nested => f.chunk = <<f.input, f.next - 1>>
  BY DEF FlowOK, NestedOK, SameTask
<1>3. \A c \in Chunk : FrameHolds(f, c) =>
         FrameHolds(run[r], c) /\ f.pc \in {"extract", "memify", "chain"}
  BY DEF FrameHolds, SameTask
<1>4. \A c \in Chunk : FrameAhead(f, c) => FrameAhead(run[r], c)
  BY DEF FrameAhead, SameTask
<1>5. ASSUME NEW c \in Chunk, FrameAhead(run[r], c) PROVE ~FrameHolds(run[r], c)
  <2>1. run[r].nested /\ run[r].next \in Nat /\ run[r].next <= c[2] /\ c[2] \in Int
    BY <1>1, <1>5, ChunkOf, ConstantsAssumption DEF FrameAhead, Frame
  <2>2. run[r].chunk = <<run[r].input, run[r].next - 1>>
    BY <2>1 DEF FlowOK, NestedOK
  <2>3. run[r].chunk[2] = run[r].next - 1
    BY <2>2
  <2> QED
    BY <2>1, <2>3 DEF FrameHolds
<1>6. \A c \in Chunk : FrameAhead(run[r], c) => chunk'[c] = "pending"
  BY <1>5 DEF FlowOK, StageOK, StageAt, FrameStaged
<1>7. \A c \in Chunk : FrameStaged(f, c, chunk'[c])
  BY <1>3, <1>4, <1>6 DEF FrameStaged
<1>8. ~Splits(f)
  BY DEF Splits
<1> QED
  BY <1>2, <1>3, <1>4, <1>7, <1>8 DEF GoesOn, FrameWorks, SameTask

LEMMA GotoGoesOn ==
  ASSUME TypeInv, FlowOK, NEW r \in Runner, ~Splits(run[r]), run[r].input \in Parent,
         NEW label \in {"extract", "memify", "chain", "load", "failInput", "save", "count"},
         run' = [run EXCEPT ![r] = [run[r] EXCEPT !.pc = label]],
         label \in {"extract", "memify", "chain"} => run[r].pc \in {"mark", "extract", "chain", "memify"},
         run[r].pc # "failInput",
         \A c \in Chunk : FrameHolds(run[r], c) /\ label \in {"extract", "memify", "chain"}
                            => chunk'[c] \in Stage(label),
         \A c \in Chunk : ~FrameHolds(run[r], c) => chunk'[c] = chunk[c]
  PROVE  GoesOn(r, [run[r] EXCEPT !.pc = label])
<1> DEFINE f == [run[r] EXCEPT !.pc = label]
<1>1. f.pc = label /\ SameTask(f, run[r])
  BY DEF TypeInv, RunsOK, Frame, SameTask
<1> HIDE DEF f
<1>2. run' = [run EXCEPT ![r] = f]
  BY DEF f
<1>3. GoesOn(r, f)
  BY <1>1, <1>2, SameTaskGoesOn
<1> QED
  BY <1>3 DEF f

LEMMA AbortedFrame ==
  ASSUME TypeInv, FlowOK, NEW r \in Runner, run[r].pc \in {"extract", "memify"}, Aborted(r),
         \A c \in Chunk : ~FrameHolds(run[r], c) => chunk'[c] = chunk[c]
  PROVE  \E f : GoesOn(r, f) /\ f.pc # "save"
<1>1. run[r] \in Frame /\ run[r].input \in Parent /\ ~Splits(run[r])
  BY DEF TypeInv, RunsOK, FrameOK, Splits
<1> DEFINE g == [run[r] EXCEPT !.pc = "failInput"]
<1>2. CASE run[r].nested
  <2>1. run' = [run EXCEPT ![r] = g]
    BY <1>2 DEF Aborted, Goto
  <2>2. GoesOn(r, g)
    BY <1>1, <2>1, GotoGoesOn
  <2>3. g.pc = "failInput"
    BY <1>1 DEF Frame
  <2> QED
    BY <2>2, <2>3
<1>3. CASE ~run[r].nested
  <2>1. Return(r, "err")
    BY <1>3 DEF Aborted
  <2> QED
    BY <2>1, IdleGoesOn
<1> QED
  BY <1>2, <1>3

-----------------------------------------------------------------------------
(* The steps of a chunk task that save no input.                           *)

Quiet ==
  \A p \in Parent :
    \/ input'[p] = input[p]
    \/ input'[p].status # "completed" /\ input'[p].processed \in {0, input[p].processed}

LEMMA LocalStep ==
  ASSUME FlowInv, TypeInv', UNCHANGED <<queue, feeder, handed>>, Quiet,
         NEW r \in Runner, NEW f, run[r].pc \notin {"idle", "exited", "split", "publish"},
         GoesOn(r, f), f.pc # "save",
         \A c \in Chunk : chunk'[c] # chunk[c] => FrameHolds(run[r], c) /\ chunk'[c] # "none"
  PROVE  FlowInv' /\ (AccountOK => AccountOK')
<1>1. run[r].input \in Parent /\ ~Splits(run[r])
  BY DEF FlowInv, TypeInv, RunsOK, FrameOK, Splits
<1>2. FlowOK' /\ \A c \in Chunk : chunk[c] = "completed" => chunk'[c] = "completed"
  BY <1>1, LocalFlow DEF FlowInv
<1>3. \A q \in Runner : run'[q].pc = "save" => run'[q] = run[q]
  BY RunAt DEF GoesOn, FlowInv, TypeInv
<1>4. AccountOK => AccountOK'
  BY <1>2, <1>3, QuietAccount DEF FlowInv, Quiet
<1> QED
  BY <1>2, <1>4 DEF FlowInv

LEMMA FailNestedInv ==
  ASSUME FlowInv, NEW r \in Runner, FailNested(r)
  PROVE  FlowInv' /\ (AccountOK => AccountOK')
<1>1. TypeInv'
  BY FailNestedType DEF FlowInv
<1>2. Quiet
  BY DEF Quiet, FailNested, FlowInv, TypeInv, RowsOK
<1>3. PICK f : GoesOn(r, f) /\ f.pc # "save"
  BY IdleGoesOn DEF FailNested
<1> QED
  BY <1>1, <1>2, <1>3, LocalStep DEF FailNested

LEMMA MarkInv ==
  ASSUME FlowInv, NEW r \in Runner, Mark(r)
  PROVE  FlowInv' /\ (AccountOK => AccountOK')
<1> DEFINE f == [run[r] EXCEPT !.pc = "extract"]
<1>1. TypeInv'
  BY MarkType DEF FlowInv
<1>2. run[r] \in Frame /\ run[r].pc = "mark" /\ run[r].input \in Parent /\ ~Splits(run[r])
  BY DEF FlowInv, TypeInv, RunsOK, FrameOK, Splits, Mark
<1>3. \A c \in Chunk : chunk'[c] = IF FrameHolds(run[r], c) /\ chunk' # chunk
                                   THEN "processing" ELSE chunk[c]
  BY <1>2 DEF Mark, FrameHolds, FlowInv, TypeInv, RowsOK
<1>4. \A c \in Chunk : FrameHolds(run[r], c) => chunk[c] = "pending"
  BY <1>2 DEF FlowInv, FlowOK, StageOK, StageAt, FrameStaged, Stage
<1>5. run' = [run EXCEPT ![r] = f]
  BY DEF Mark, Goto
<1>6. GoesOn(r, f)
  BY <1>2, <1>3, <1>4, <1>5, GotoGoesOn DEF FlowInv, Stage
<1>7. f.pc # "save"
  BY <1>2 DEF Frame
<1>8. Quiet
  BY DEF Quiet, Mark
<1> QED
  BY <1>1, <1>2, <1>3, <1>6, <1>7, <1>8, LocalStep DEF Mark

LEMMA ExtractInv ==
  ASSUME FlowInv, NEW r \in Runner, Extract(r)
  PROVE  FlowInv' /\ (AccountOK => AccountOK')
<1>1. TypeInv' /\ Quiet
  BY ExtractType DEF FlowInv, Quiet, Extract
<1>2. run[r] \in Frame /\ run[r].pc = "extract" /\ run[r].input \in Parent /\ ~Splits(run[r])
  BY DEF FlowInv, TypeInv, RunsOK, FrameOK, Splits, Extract
<1>3. CASE FailChunk(r, 1)
  <2>1. \A c \in Chunk : chunk'[c] # chunk[c] => FrameHolds(run[r], c) /\ chunk'[c] # "none"
    BY <1>2, <1>3 DEF FailChunk, FrameHolds, FlowInv, TypeInv, RowsOK
  <2>2. PICK f : GoesOn(r, f) /\ f.pc # "save"
    BY <1>2, <1>3, <2>1, AbortedFrame DEF FlowInv, FailChunk
  <2> QED
    BY <1>1, <1>2, <2>1, <2>2, LocalStep DEF Extract
<1>4. CASE ~FailChunk(r, 1)
  <2> DEFINE label == IF r \in Caller THEN "memify" ELSE "chain"
             f == [run[r] EXCEPT !.pc = label]
  <2>1. \A c \in Chunk : chunk'[c] = IF FrameHolds(run[r], c) THEN "cognified" ELSE chunk[c]
    BY <1>2, <1>4 DEF Extract, FrameHolds, FlowInv, TypeInv, RowsOK
  <2>2. run' = [run EXCEPT ![r] = f]
    BY <1>4 DEF Extract, Goto
  <2>3. label \in {"extract", "memify", "chain", "load", "failInput", "save", "count"}
        /\ Stage(label) = {"cognified"}
    BY DEF Stage
  <2>4. f.pc # "save"
    BY <1>2 DEF Frame
  <2> HIDE DEF label
  <2>5. GoesOn(r, f)
    BY <1>2, <2>1, <2>2, <2>3, GotoGoesOn DEF FlowInv
  <2> QED
    BY <1>1, <1>2, <2>1, <2>4, <2>5, LocalStep DEF Extract
<1> QED
  BY <1>3, <1>4

LEMMA MemifyInv ==
  ASSUME FlowInv, NEW r \in Runner, Memify(r)
  PROVE  FlowInv' /\ (AccountOK => AccountOK')
<1> DEFINE n == IF r \in Caller THEN 2 ELSE 1
<1>1. TypeInv' /\ Quiet
  BY MemifyType DEF FlowInv, Quiet, Memify
<1>2. run[r] \in Frame /\ run[r].pc = "memify" /\ run[r].input \in Parent /\ ~Splits(run[r])
  BY DEF FlowInv, TypeInv, RunsOK, FrameOK, Splits, Memify
<1>3. CASE FailChunk(r, n)
  <2>1. \A c \in Chunk : chunk'[c] # chunk[c] => FrameHolds(run[r], c) /\ chunk'[c] # "none"
    BY <1>2, <1>3 DEF FailChunk, FrameHolds, FlowInv, TypeInv, RowsOK
  <2>2. PICK f : GoesOn(r, f) /\ f.pc # "save"
    BY <1>2, <1>3, <2>1, AbortedFrame DEF FlowInv, FailChunk
  <2> QED
    BY <1>1, <1>2, <2>1, <2>2, LocalStep DEF Memify
<1>4. CASE ~FailChunk(r, n)
  <2> DEFINE f == [run[r] EXCEPT !.pc = "load"]
  <2>1. \A c \in Chunk : chunk'[c] = IF FrameHolds(run[r], c) THEN "completed" ELSE chunk[c]
    BY <1>2, <1>4 DEF Memify, FrameHolds, FlowInv, TypeInv, RowsOK
  <2>2. run' = [run EXCEPT ![r] = f]
    BY <1>4 DEF Memify, Goto
  <2>3. f.pc # "save"
    BY <1>2 DEF Frame
  <2>4. GoesOn(r, f)
    BY <1>2, <2>1, <2>2, GotoGoesOn DEF FlowInv
  <2> QED
    BY <1>1, <1>2, <2>1, <2>3, <2>4, LocalStep DEF Memify
<1> QED
  BY <1>3, <1>4

-----------------------------------------------------------------------------
(* syncParentStatusFromChildren.                                           *)

LEMMA LoadInputInv ==
  ASSUME FlowInv, NEW r \in Runner, LoadInput(r)
  PROVE  FlowInv' /\ (AccountOK => AccountOK')
<1>1. TypeInv' /\ Quiet
  BY LoadInputType DEF FlowInv, Quiet, LoadInput
<1>2. run[r] \in Frame /\ run[r].pc = "load" /\ run[r].input \in Parent /\ ~Splits(run[r])
  BY DEF FlowInv, TypeInv, RunsOK, FrameOK, Splits, LoadInput
<1>3. \E f : GoesOn(r, f) /\ f.pc # "save"
  <2>1. CASE Fault(1) /\ Synced(r)
    BY <1>2, <2>1, SyncedGoesOn DEF FlowInv, LoadInput
  <2>2. CASE ~(Fault(1) /\ Synced(r))
    <3> DEFINE f == [run[r] EXCEPT !.copy = input[run[r].input].split, !.pc = "count"]
    <3>1. f.pc = "count" /\ SameTask(f, run[r])
      BY <1>2 DEF Frame, SameTask
    <3>2. run' = [run EXCEPT ![r] = f]
      BY <2>2 DEF LoadInput
    <3> HIDE DEF f
    <3>3. \A c \in Chunk : chunk'[c] = chunk[c]
      BY DEF LoadInput
    <3>4. GoesOn(r, f)
      BY <1>2, <3>1, <3>2, <3>3, SameTaskGoesOn DEF FlowInv
    <3> QED
      BY <3>1, <3>4
  <2> QED
    BY <2>1, <2>2
<1> QED
  BY <1>1, <1>2, <1>3, LocalStep DEF LoadInput

\* The count is taken when every child of the input exists, so that the present
\* ones are all of them.
LEMMA CountIsFair ==
  ASSUME FlowInv, NEW r \in Runner, run[r].pc = "count", NEW p \in Parent, p = run[r].input
  PROVE  Present(p) = ChunksOf(p)
<1>1. Active(p)
  BY DEF Active, Splits
<1>2. \A c \in ChunksOf(p) : chunk[c] # "none"
  BY <1>1 DEF FlowInv, FlowOK, PhaseOK, ActiveAt
<1> QED
  BY <1>2 DEF Present

LEMMA CountChildrenInv ==
  ASSUME FlowInv, NEW r \in Runner, CountChildren(r)
  PROVE  FlowInv' /\ (AccountOK => AccountOK')
<1>1. TypeInv' /\ Quiet
  BY CountChildrenType DEF FlowInv, Quiet, CountChildren
<1>2. run[r] \in Frame /\ run[r].pc = "count" /\ run[r].input \in Parent /\ ~Splits(run[r])
  BY DEF FlowInv, TypeInv, RunsOK, FrameOK, Splits, CountChildren
<1>3. CASE Fault(1) /\ Synced(r)
  <2>1. PICK f : GoesOn(r, f) /\ f.pc # "save"
    BY <1>2, <1>3, SyncedGoesOn DEF FlowInv, CountChildren
  <2> QED
    BY <1>1, <1>2, <2>1, LocalStep DEF CountChildren
<1>4. CASE ~(Fault(1) /\ Synced(r))
  <2>1. PICK p \in Parent : p = run[r].input
    BY <1>2
  <2> DEFINE n == Cardinality(Completed(p))
             b == Present(p) # {} /\ Present(p) = Completed(p)
             f == [run[r] EXCEPT !.tally = n, !.all = b, !.pc = "save"]
  <2>2. f.pc = "save" /\ f.input = p /\ f.tally = n /\ f.all = b /\ SameTask(f, run[r])
    BY <1>2, <2>1 DEF Frame, SameTask
  <2>3. run' = [run EXCEPT ![r] = f]
    BY <1>4, <2>1 DEF CountChildren
  <2>4. b => Finished(p)
    BY <1>2, <2>1, CountIsFair DEF Finished
  <2>5. n \in Nat /\ n <= Cardinality(Completed(p))
    BY CompletedFinite
  <2> HIDE DEF f, n, b
  <2>6. UNCHANGED <<input, chunk, handed, queue, feeder>>
    BY <1>4 DEF CountChildren
  <2>7. GoesOn(r, f)
    BY <1>2, <2>2, <2>3, <2>6, SameTaskGoesOn DEF FlowInv
  <2>8. FlowOK'
    BY <1>2, <2>6, <2>7, LocalFlow DEF FlowInv
  <2>9. AccountOK => AccountOK'
    <3> SUFFICES ASSUME AccountOK PROVE AccountOK'
      OBVIOUS
    <3>1. run'[r] = f /\ \A q \in Runner : q # r => run'[q] = run[q]
      BY <2>3, RunAt DEF FlowInv, TypeInv
    <3>2. SaveOK'
      <4>1. ASSUME NEW q \in Runner, NEW s \in Parent, run'[q].pc = "save", run'[q].input = s
            PROVE  /\ run'[q].all => Finished(s)'
                   /\ run'[q].tally <= Cardinality(Completed(s)')
        <5>1. (Finished(s)' <=> Finished(s)) /\ Completed(s)' = Completed(s)
          BY <2>6 DEF Finished, Completed
        <5>2. CASE q = r
          BY <2>2, <2>4, <2>5, <3>1, <4>1, <5>1, <5>2
        <5>3. CASE q # r
          BY <3>1, <4>1, <5>1, <5>3 DEF FlowInv, AccountOK, SaveOK
        <5> QED
          BY <5>2, <5>3
      <4> QED
        BY <1>1, <4>1, SaveHolds
    <3>3. CompletedMeansDone' /\ ProcessedIsEarned'
      BY <2>6 DEF FlowInv, AccountOK, CompletedMeansDone, ProcessedIsEarned, Finished, Completed
    <3> QED
      BY <3>2, <3>3 DEF AccountOK
  <2> QED
    BY <1>1, <2>8, <2>9 DEF FlowInv
<1> QED
  BY <1>3, <1>4

LEMMA SaveInputInv ==
  ASSUME FlowInv, NEW r \in Runner, SaveInput(r)
  PROVE  FlowInv' /\ (AccountOK => AccountOK')
<1>1. TypeInv'
  BY SaveInputType DEF FlowInv
<1>2. run[r] \in Frame /\ run[r].pc = "save" /\ run[r].input \in Parent /\ ~Splits(run[r])
  BY DEF FlowInv, TypeInv, RunsOK, FrameOK, Splits, SaveInput
<1>3. PICK p \in Parent : p = run[r].input
  BY <1>2
<1>4. UNCHANGED <<chunk, handed, queue, feeder>>
  BY DEF SaveInput
<1>5. PICK f : GoesOn(r, f) /\ f.pc # "save"
  BY <1>2, SyncedGoesOn DEF FlowInv, SaveInput
<1>6. FlowOK'
  BY <1>2, <1>4, <1>5, LocalFlow DEF FlowInv
<1>7. AccountOK => AccountOK'
  <2> SUFFICES ASSUME AccountOK PROVE AccountOK'
    OBVIOUS
  <2>1. \A q \in Parent : (Finished(q)' <=> Finished(q)) /\ Completed(q)' = Completed(q)
    BY <1>4 DEF Finished, Completed
  <2>2. SaveOK'
    <3>1. \A q \in Runner : run'[q].pc = "save" => run'[q] = run[q]
      BY <1>5, RunAt DEF GoesOn, FlowInv, TypeInv
    <3>2. ASSUME NEW q \in Runner, NEW s \in Parent, run'[q].pc = "save", run'[q].input = s
          PROVE  /\ run'[q].all => Finished(s)'
                 /\ run'[q].tally <= Cardinality(Completed(s)')
      BY <2>1, <3>1, <3>2 DEF FlowInv, AccountOK, SaveOK
    <3> QED
      BY <1>1, <3>2, SaveHolds
  <2>3. /\ run[r].all => Finished(p)
        /\ run[r].tally <= Cardinality(Completed(p))
    BY <1>2, <1>3 DEF FlowInv, AccountOK, SaveOK
  <2>4. \A q \in Parent :
            \/ input'[q] = input[q]
            \/ /\ q = p
               /\ input'[q].status = "completed" => run[r].all
               /\ input'[q].processed = run[r].tally
    BY <1>3 DEF SaveInput, FlowInv, TypeInv, RowsOK
  <2>5. CompletedMeansDone'
    <3> SUFFICES ASSUME NEW q \in Parent, input'[q].status = "completed"
                 PROVE  Finished(q)'
      BY DEF CompletedMeansDone
    <3> QED
      BY <2>1, <2>3, <2>4 DEF FlowInv, AccountOK, CompletedMeansDone
  <2>6. ProcessedIsEarned'
    <3> SUFFICES ASSUME NEW q \in Parent
                 PROVE  input'[q].processed <= Cardinality(Completed(q)')
      BY DEF ProcessedIsEarned, Completed
    <3> QED
      BY <2>1, <2>3, <2>4 DEF FlowInv, AccountOK, ProcessedIsEarned
  <2> QED
    BY <2>2, <2>5, <2>6 DEF AccountOK
<1> QED
  BY <1>1, <1>6, <1>7 DEF FlowInv

-----------------------------------------------------------------------------
(* The calls of the clients, and the end of a worker.                      *)

LEMMA FlowStays ==
  ASSUME FlowOK, UNCHANGED <<chunk, handed, queue, feeder, run>>
  PROVE  FlowOK'
<1>1. PhaseOK'
  BY DEF FlowOK, PhaseOK, FreshAt, QueuedSplitAt, RunningSplitAt, ActiveAt, Active, Splits, ChunksOf
<1>2. CustodyOK'
  BY DEF FlowOK, CustodyOK, CustodyAt, InQueue, ToFeed, FrameWorks, FrameHolds, FrameAhead
<1>3. StageOK'
  BY DEF FlowOK, StageOK, StageAt, InQueue, ToFeed, FrameStaged, FrameHolds, FrameAhead, Stage
<1>4. NestedOK'
  BY DEF FlowOK, NestedOK
<1> QED
  BY <1>1, <1>2, <1>3, <1>4 DEF FlowOK

LEMMA AddInv ==
  ASSUME FlowInv, NEW p \in Parent, Add(p)
  PROVE  FlowInv' /\ (AccountOK => AccountOK')
<1>1. TypeInv' /\ FlowOK'
  BY AddType, FlowStays DEF FlowInv, Add
<1>2. \A q \in Parent :
         \/ input'[q] = input[q]
         \/ input'[q].status # "completed" /\ input'[q].processed \in {0, input[q].processed}
  BY DEF Add, FlowInv, TypeInv, RowsOK, Row
<1>3. AccountOK => AccountOK'
  BY <1>1, <1>2, QuietAccount DEF FlowInv, Add
<1> QED
  BY <1>1, <1>3 DEF FlowInv

LEMMA CloseInv ==
  ASSUME FlowInv, Close
  PROVE  FlowInv' /\ (AccountOK => AccountOK')
<1>1. TypeInv' /\ FlowOK'
  BY CloseType, FlowStays DEF FlowInv, Close
<1>2. AccountOK => AccountOK'
  BY <1>1, QuietAccount DEF FlowInv, Close
<1> QED
  BY <1>1, <1>2 DEF FlowInv

LEMMA Stutters ==
  ASSUME FlowInv, UNCHANGED vars
  PROVE  FlowInv' /\ (AccountOK => AccountOK')
<1>1. TypeInv'
  BY DEF vars, FlowInv, TypeInv, RowsOK, QueueOK, RunsOK, FeedersOK
<1>2. FlowOK'
  BY FlowStays DEF FlowInv, vars
<1>3. AccountOK => AccountOK'
  BY <1>1, QuietAccount DEF FlowInv, vars
<1> QED
  BY <1>1, <1>2, <1>3 DEF FlowInv

LEMMA Appended ==
  ASSUME QueueOK, NEW t \in Task, Submit(t)
  PROVE  /\ Len(queue) \in Nat /\ Len(queue') = Len(queue) + 1
         /\ \A i \in 1..Len(queue) : queue'[i] = queue[i]
         /\ queue'[Len(queue) + 1] = t
         /\ \A i \in 1..Len(queue') : i \in 1..Len(queue) \/ i = Len(queue) + 1
BY DEF QueueOK, Submit

\* The work of an input nobody has handed over yet starts with its split.
LEMMA CognifyAsyncInv ==
  ASSUME FlowInv, NEW p \in Parent, CognifyAsync(p)
  PROVE  FlowInv' /\ (AccountOK => AccountOK')
<1> DEFINE t == CognifyTask(p, None)
<1>1. TypeInv'
  BY CognifyAsyncType DEF FlowInv
<1>2. UNCHANGED <<input, chunk, feeder, run>> /\ handed' = handed \cup {p} /\ p \notin handed
  BY DEF CognifyAsync
<1>3. t \in Task /\ t.input = p /\ t.chunk = None
  BY DEF CognifyTask, Task
<1> HIDE DEF t
<1>4. /\ Len(queue) \in Nat /\ Len(queue') = Len(queue) + 1
      /\ \A i \in 1..Len(queue) : queue'[i] = queue[i]
      /\ queue'[Len(queue) + 1] = t
      /\ \A i \in 1..Len(queue') : i \in 1..Len(queue) \/ i = Len(queue) + 1
  BY <1>3, Appended DEF CognifyAsync, FlowInv, TypeInv, t
<1>5. /\ feeder[p] = 0
      /\ \A i \in 1..Len(queue) : queue[i].input # p
      /\ \A r \in Runner : run[r].input # p
      /\ \A c \in ChunksOf(p) : chunk[c] = "none"
  BY <1>2 DEF FlowInv, FlowOK, PhaseOK, FreshAt
<1>6. \A i \in 1..Len(queue') : queue'[i].input = p => i = Len(queue) + 1
  BY <1>4, <1>5
<1>7. QueuedSplitAt(p)'
  BY <1>2, <1>5, <1>6 DEF QueuedSplitAt, ChunksOf
<1>8. RunningSplitAt(p)'
  BY <1>2, <1>5 DEF RunningSplitAt, Splits
<1>9. ActiveAt(p)'
  BY <1>2, <1>3, <1>4, <1>5, <1>6 DEF ActiveAt, Active, Splits
<1>10. \A i \in 1..Len(queue') : queue'[i].input # p =>
          i + 0 \in 1..Len(queue) /\ queue'[i] = queue[i + 0]
  BY <1>3, <1>4
<1>11. PhaseOK'
  BY <1>2, <1>7, <1>8, <1>9, <1>10, OtherInputs DEF FlowInv, FlowOK
<1>12. ASSUME NEW c \in Chunk PROVE CustodyAt(c)' /\ StageAt(c)'
  <2>1. \A i \in 1..Len(queue') : queue'[i].chunk = c =>
           i + 0 \in 1..Len(queue) /\ queue'[i] = queue[i + 0]
    BY <1>3, <1>4, ChunkOf
  <2>2. CustodyAt(c) /\ StageAt(c) /\ (ToFeed(c)' => ToFeed(c))
    BY <1>2 DEF FlowInv, FlowOK, CustodyOK, StageOK, ToFeed
  <2> QED
    BY <1>2, <2>1, <2>2, OtherChunk
<1>13. NestedOK'
  BY <1>2 DEF FlowInv, FlowOK, NestedOK
<1>14. AccountOK => AccountOK'
  BY <1>1, <1>2, QuietAccount DEF FlowInv
<1> QED
  BY <1>1, <1>11, <1>12, <1>13, <1>14 DEF FlowInv, FlowOK, CustodyOK, StageOK

LEMMA ExitInv ==
  ASSUME FlowInv, NEW w \in Runner, Exit(w)
  PROVE  FlowInv' /\ (AccountOK => AccountOK')
<1> DEFINE f == [run[w] EXCEPT !.pc = "exited"]
<1>1. TypeInv'
  BY ExitType DEF FlowInv
<1>2. UNCHANGED <<input, chunk, handed, queue, feeder>> /\ run' = [run EXCEPT ![w] = f]
  BY DEF Exit, Goto
<1>3. run[w] \in Frame /\ run[w].pc = "idle" /\ run[w].input = None
  BY DEF FlowInv, TypeInv, RunsOK, FrameOK, Exit
<1>4. f.pc = "exited" /\ SameTask(f, run[w])
  BY <1>3 DEF Frame, SameTask
<1> HIDE DEF f
<1>5. run'[w] = f /\ \A q \in Runner : q # w => run'[q] = run[q]
  BY <1>2, RunAt DEF FlowInv, TypeInv
<1>6. \A q \in Runner : run'[q].input \in Parent => run'[q] = run[q]
  BY <1>3, <1>4, <1>5, ConstantsAssumption DEF SameTask
<1>7. PhaseOK'
  <2> SUFFICES ASSUME NEW p \in Parent
               PROVE  FreshAt(p)' /\ QueuedSplitAt(p)' /\ RunningSplitAt(p)' /\ ActiveAt(p)'
    BY DEF PhaseOK
  <2>1. FreshAt(p) /\ QueuedSplitAt(p) /\ RunningSplitAt(p) /\ ActiveAt(p)
    BY DEF FlowInv, FlowOK, PhaseOK
  <2>2. \A q \in Runner : run'[q].input = p => run'[q] = run[q]
    BY <1>6
  <2>3. FreshAt(p)' /\ QueuedSplitAt(p)'
    BY <1>2, <2>1, <2>2 DEF FreshAt, QueuedSplitAt, ChunksOf
  <2>4. RunningSplitAt(p)'
    BY <1>2, <2>1, <2>2 DEF RunningSplitAt, ChunksOf, Splits
  <2>5. ActiveAt(p)'
    BY <1>2, <2>1, <2>2 DEF ActiveAt, Active, ChunksOf, Splits
  <2> QED
    BY <2>3, <2>4, <2>5
<1>8. \A c \in Chunk : ~FrameHolds(f, c) /\ ~FrameAhead(f, c)
  BY <1>3, <1>4, ChunkOf, ConstantsAssumption DEF FrameHolds, FrameAhead, SameTask
<1>9. CustodyOK' /\ StageOK'
  BY <1>2, <1>8, LocalChunks DEF FlowInv, FlowOK, FrameWorks, FrameStaged
<1>10. NestedOK'
  BY <1>4, <1>5 DEF FlowInv, FlowOK, NestedOK, SameTask
<1>11. AccountOK => AccountOK'
  BY <1>1, <1>2, <1>4, <1>5, QuietAccount DEF FlowInv
<1> QED
  BY <1>1, <1>7, <1>9, <1>10, <1>11 DEF FlowInv, FlowOK

-----------------------------------------------------------------------------
(* The split of an input.                                                  *)

\* While an input is being split, nobody works on a chunk of it.
LEMMA SplitAlone ==
  ASSUME FlowInv, NEW r \in Runner, Splits(run[r]), NEW p \in Parent, run[r].input = p
  PROVE  /\ p \in handed /\ feeder[p] = 0
         /\ \A j \in 1..Len(queue) : queue[j].input # p
         /\ \A q \in Runner : run[q].input = p => q = r
         /\ \A c \in Chunk : c[1] = p =>
              /\ \A j \in 1..Len(queue) : queue[j].chunk # c
              /\ \A q \in Runner : ~FrameWorks(run[q], c)
              /\ ~ToFeed(c)
<1>1. /\ feeder[p] = 0
      /\ \A j \in 1..Len(queue) : queue[j].input # p
      /\ \A q \in Runner : run[q].input = p => q = r
  BY DEF FlowInv, FlowOK, PhaseOK, RunningSplitAt
<1>2. p \in handed
  BY DEF FlowInv, FlowOK, PhaseOK, FreshAt
<1>3. ASSUME NEW c \in Chunk, c[1] = p, NEW j \in 1..Len(queue) PROVE queue[j].chunk # c
  <2>1. queue[j].chunk # None => queue[j].chunk \in ChunksOf(queue[j].input) /\ queue[j].input \in Parent
    BY QueueTask DEF FlowInv, TypeInv, TaskOK
  <2> QED
    BY <1>1, <1>3, <2>1, ChunkIn, ChunkOf
<1>4. ASSUME NEW c \in Chunk, c[1] = p, NEW q \in Runner PROVE ~FrameWorks(run[q], c)
  BY <1>1, <1>4, WorksOnInput DEF FlowInv, TypeInv
<1>5. \A c \in Chunk : c[1] = p => ~ToFeed(c)
  BY <1>1 DEF ToFeed
<1> QED
  BY <1>1, <1>2, <1>3, <1>4, <1>5

\* Custody and stage after a step, from its outcome.
LEMMA ChunkIntro ==
  ASSUME NEW c \in Chunk,
         \A i, j \in 1..Len(queue') : queue'[i].chunk = c /\ queue'[j].chunk = c => i = j,
         \A i \in 1..Len(queue'), r \in Runner : queue'[i].chunk = c => ~FrameWorks(run'[r], c),
         \A r, q \in Runner : FrameWorks(run'[r], c) /\ FrameWorks(run'[q], c) => r = q,
         feeder'[c[1]] # 0 /\ feeder'[c[1]] <= c[2] =>
           /\ \A i \in 1..Len(queue') : queue'[i].chunk # c
           /\ \A r \in Runner : ~FrameWorks(run'[r], c)
           /\ chunk'[c] = "pending",
         \A i \in 1..Len(queue') : queue'[i].chunk = c =>
           chunk'[c] = IF queue'[i].kind = "cognify" THEN "pending" ELSE "cognified",
         \A r \in Runner : FrameStaged(run'[r], c, chunk'[c])
  PROVE  CustodyAt(c)' /\ StageAt(c)'
<1>1. CustodyAt(c)'
  BY DEF CustodyAt, InQueue, ToFeed, FrameWorks, FrameHolds, FrameAhead
<1>2. StageAt(c)'
  BY DEF StageAt, InQueue, ToFeed, FrameStaged, FrameHolds, FrameAhead, Stage
<1> QED
  BY <1>1, <1>2

\* A split that goes on, or ends with no work left behind.
LEMMA SplitStep ==
  ASSUME FlowInv, TypeInv', UNCHANGED <<queue, feeder, handed>>, Quiet,
         NEW r \in Runner, Splits(run[r]), NEW p \in Parent, run[r].input = p,
         NEW f, run' = [run EXCEPT ![r] = f], f.input \in {p, None}, f.pc # "save", ~f.nested,
         \A c \in Chunk : chunk[c] = "completed" => chunk'[c] = "completed",
         \A c \in Chunk : c[1] # p => chunk'[c] = chunk[c],
         f.input = p => /\ Splits(f)
                        /\ \A c \in ChunksOf(p) :
                             chunk'[c] = IF c[2] < f.next THEN "pending" ELSE "none"
                        /\ f.pc = "publish" => ChunkCount[p] < f.next,
         f.input = None => f.pc = "idle"
  PROVE  FlowInv' /\ (AccountOK => AccountOK')
<1>1. run'[r] = f /\ \A q \in Runner : q # r => run'[q] = run[q]
  BY RunAt DEF FlowInv, TypeInv
<1>2. /\ p \in handed /\ feeder[p] = 0
      /\ \A j \in 1..Len(queue) : queue[j].input # p
      /\ \A q \in Runner : run[q].input = p => q = r
      /\ \A c \in Chunk : c[1] = p =>
           /\ \A j \in 1..Len(queue) : queue[j].chunk # c
           /\ \A q \in Runner : ~FrameWorks(run[q], c)
           /\ ~ToFeed(c)
  BY SplitAlone
<1>3. None # p /\ None \notin Parent
  BY ConstantsAssumption
<1>4. \A c \in Chunk : ~FrameHolds(f, c) /\ ~FrameAhead(f, c)
  BY DEF FrameHolds, FrameAhead, Splits
<1>5. QueuedSplitAt(p)'
  BY <1>2 DEF QueuedSplitAt
<1>6. RunningSplitAt(p)'
  <2>1. \A q \in Runner : run'[q].input = p => q = r /\ f.input = p
    BY <1>1, <1>2
  <2> QED
    BY <1>1, <1>2, <2>1 DEF RunningSplitAt, ChunksOf, Splits
<1>7. ActiveAt(p)'
  BY <1>1, <1>2 DEF ActiveAt, Active, Splits
<1>8. /\ \A i \in 1..Len(queue') : i + 0 \in 1..Len(queue) /\ queue'[i] = queue[i + 0]
      /\ \A t \in Runner : run'[t].input \in Parent \ {p} => run'[t] = run[t]
  BY <1>1, <1>3 DEF FlowInv, TypeInv, QueueOK
<1>9. PhaseOK'
  BY <1>2, <1>5, <1>6, <1>7, <1>8, OtherInputs DEF FlowInv, FlowOK
<1>10. ASSUME NEW c \in Chunk PROVE CustodyAt(c)' /\ StageAt(c)'
  <2>1. \A q \in Runner : FrameWorks(run'[q], c) => q # r /\ run'[q] = run[q]
    BY <1>1, <1>4 DEF FrameWorks
  <2>2. CASE c[1] # p
    BY <1>8, <2>1, <2>2, OtherChunk DEF ToFeed, FlowInv, FlowOK, CustodyOK, StageOK
  <2>3. CASE c[1] = p
    <3>1. \A q \in Runner : ~FrameWorks(run'[q], c)
      BY <1>2, <2>1, <2>3
    <3>2. \A j \in 1..Len(queue') : queue'[j].chunk # c
      BY <1>2, <2>3
    <3>3. ~(feeder'[c[1]] # 0 /\ feeder'[c[1]] <= c[2])
      BY <1>2, <2>3
    <3>4. \A q \in Runner : FrameStaged(run'[q], c, chunk'[c])
      BY <3>1 DEF FrameStaged, FrameWorks
    <3> QED
      BY <3>1, <3>2, <3>3, <3>4, ChunkIntro
  <2> QED
    BY <2>2, <2>3
<1>11. NestedOK'
  BY <1>1 DEF FlowInv, FlowOK, NestedOK
<1>12. AccountOK => AccountOK'
  BY <1>1, QuietAccount DEF FlowInv, Quiet
<1> QED
  BY <1>9, <1>10, <1>11, <1>12 DEF FlowInv, FlowOK, CustodyOK, StageOK

LEMMA SplitFails ==
  ASSUME FlowInv, TypeInv', NEW r \in Runner, Splits(run[r]), NEW split \in BOOLEAN,
         FailInput(r, split), UNCHANGED <<chunk, handed, queue, feeder>>
  PROVE  FlowInv' /\ (AccountOK => AccountOK')
<1> DEFINE f == IdleFrame(IF r \in Caller THEN "err" ELSE "none")
<1>1. PICK p \in Parent : p = run[r].input
  BY DEF FlowInv, TypeInv, RunsOK, FrameOK, Splits
<1>2. run' = [run EXCEPT ![r] = f]
  BY DEF FailInput, Return
<1>3. f.pc = "idle" /\ f.input = None /\ f.nested = FALSE
  BY DEF IdleFrame
<1> HIDE DEF f
<1>4. Quiet
  BY DEF Quiet, FailInput, FlowInv, TypeInv, RowsOK
<1>5. None # p
  BY ConstantsAssumption
<1> QED
  BY <1>1, <1>2, <1>3, <1>4, <1>5, SplitStep

LEMMA CreateChildInv ==
  ASSUME FlowInv, NEW r \in Runner, CreateChild(r)
  PROVE  FlowInv' /\ (AccountOK => AccountOK')
<1>1. TypeInv' /\ UNCHANGED <<handed, queue, feeder>>
  BY CreateChildType DEF FlowInv, CreateChild
<1>2. /\ run[r] \in Frame /\ run[r].pc = "split" /\ Splits(run[r]) /\ ~run[r].nested
      /\ run[r].input \in Parent
  BY DEF FlowInv, TypeInv, RunsOK, FrameOK, Splits, CreateChild
<1>3. PICK p \in Parent : p = run[r].input
  BY <1>2
<1>4. PICK i \in Nat \ {0} : i = run[r].next
  BY <1>2 DEF Frame
<1>5. \A c \in ChunksOf(p) : chunk[c] = IF c[2] < i THEN "pending" ELSE "none"
  BY <1>2, <1>3, <1>4 DEF FlowInv, FlowOK, PhaseOK, RunningSplitAt
<1>6. \A c \in ChunksOf(p) : c = <<p, c[2]>> /\ c[2] \in 1..ChunkCount[p]
  BY DEF ChunksOf
<1>7. CASE FailInput(r, FALSE) /\ UNCHANGED chunk
  BY <1>1, <1>2, <1>7, SplitFails
<1>8. CASE /\ i <= ChunkCount[p]
           /\ chunk' = [chunk EXCEPT ![<<p, i>>] = "pending"]
           /\ run' = [run EXCEPT ![r].next = i + 1]
           /\ UNCHANGED <<input, faults>>
  <2> DEFINE f == [run[r] EXCEPT !.next = i + 1]
  <2>1. f.pc = "split" /\ f.input = p /\ ~f.nested /\ f.next = i + 1
    BY <1>2, <1>3 DEF Frame
  <2>2. run' = [run EXCEPT ![r] = f]
    BY <1>8
  <2> HIDE DEF f
  <2>3. <<p, i>> \in ChunksOf(p) /\ <<p, i>> \in Chunk
    BY <1>8, ChunkIs, ConstantsAssumption
  <2>4. \A c \in Chunk : chunk'[c] = IF c = <<p, i>> THEN "pending" ELSE chunk[c]
    BY <1>8 DEF FlowInv, TypeInv, RowsOK
  <2>5. \A c \in Chunk : chunk[c] = "completed" => chunk'[c] = "completed"
    BY <1>5, <2>3, <2>4
  <2>6. \A c \in Chunk : c[1] # p => chunk'[c] = chunk[c]
    BY <2>4
  <2>7. \A c \in ChunksOf(p) : chunk'[c] = IF c[2] < i + 1 THEN "pending" ELSE "none"
    <3> TAKE c \in ChunksOf(p)
    <3>1. c \in Chunk /\ c[2] \in Int /\ (c = <<p, i>> <=> c[2] = i)
      BY <1>6, ChunkIn, ConstantsAssumption
    <3> QED
      BY <1>4, <1>5, <2>4, <3>1
  <2>8. Quiet /\ Splits(f)
    BY <1>8, <2>1 DEF Quiet, Splits
  <2> QED
    <3>1. \A c \in ChunksOf(p) : chunk'[c] = IF c[2] < f.next THEN "pending" ELSE "none"
      BY <2>1, <2>7
    <3>2. f.pc # "publish" /\ f.pc # "save" /\ f.input # None
      BY <2>1, ConstantsAssumption
    <3> QED
      BY <1>1, <1>2, <1>3, <2>1, <2>2, <2>5, <2>6, <2>8, <3>1, <3>2, SplitStep
<1>9. CASE ~(i <= ChunkCount[p]) /\ Goto(r, "publish") /\ UNCHANGED <<input, chunk, faults>>
  <2> DEFINE f == [run[r] EXCEPT !.pc = "publish"]
  <2>1. f.pc = "publish" /\ f.input = p /\ ~f.nested /\ f.next = i
    BY <1>2, <1>3, <1>4 DEF Frame
  <2>2. run' = [run EXCEPT ![r] = f]
    BY <1>9 DEF Goto
  <2> HIDE DEF f
  <2>3. Quiet /\ Splits(f)
    BY <1>9, <2>1 DEF Quiet, Splits
  <2>4. ChunkCount[p] < f.next
    BY <1>9, <2>1, ConstantsAssumption
  <2>5. \A c \in ChunksOf(p) : chunk'[c] = IF c[2] < f.next THEN "pending" ELSE "none"
    BY <1>5, <1>9, <2>1
  <2> QED
    BY <1>1, <1>2, <1>3, <1>9, <2>1, <2>2, <2>3, <2>4, <2>5, SplitStep, ConstantsAssumption
<1> QED
  BY <1>3, <1>4, <1>7, <1>8, <1>9 DEF CreateChild

\* The frame and the feeders after a split is published: the chunks of p are with
\* one of them.
HandsOut(r, p, f) ==
  /\ run' = [run EXCEPT ![r] = f] /\ f.pc # "save" /\ ~Splits(f)
  /\ f.input \in {p, None}
  /\ f.nested => f.chunk = <<f.input, f.next - 1>>
  /\ \A c \in Chunk : FrameWorks(f, c) =>
       c[1] = p /\ feeder' = feeder /\ (FrameHolds(f, c) => f.pc = "mark")
  /\ \A q \in Parent \ {p} : feeder'[q] = feeder[q]

\* The published children are handed out: to the goroutine that feeds the queue,
\* or one by one to the caller's own.
LEMMA PublishInv ==
  ASSUME FlowInv, NEW r \in Runner, Publish(r)
  PROVE  FlowInv' /\ (AccountOK => AccountOK')
<1>1. TypeInv' /\ UNCHANGED <<chunk, handed, queue>>
  BY PublishType DEF FlowInv, Publish
<1>2. /\ run[r] \in Frame /\ run[r].pc = "publish" /\ Splits(run[r]) /\ run[r].input \in Parent
  BY DEF FlowInv, TypeInv, RunsOK, FrameOK, Splits, Publish
<1>3. PICK p \in Parent : p = run[r].input
  BY <1>2
<1>4. CASE FailInput(r, TRUE) /\ UNCHANGED feeder
  BY <1>1, <1>2, <1>4, SplitFails
<1>5. CASE ~(FailInput(r, TRUE) /\ UNCHANGED feeder)
  <2>1. /\ p \in handed /\ feeder[p] = 0
        /\ \A j \in 1..Len(queue) : queue[j].input # p
        /\ \A q \in Runner : run[q].input = p => q = r
        /\ \A c \in Chunk : c[1] = p =>
             /\ \A j \in 1..Len(queue) : queue[j].chunk # c
             /\ \A q \in Runner : ~FrameWorks(run[q], c)
             /\ ~ToFeed(c)
    BY <1>2, <1>3, SplitAlone
  <2>2. \A c \in Chunk : c[1] = p => chunk[c] = "pending"
    <3>1. /\ \A c \in ChunksOf(p) : chunk[c] = IF c[2] < run[r].next THEN "pending" ELSE "none"
          /\ ChunkCount[p] < run[r].next
      BY <1>2, <1>3 DEF FlowInv, FlowOK, PhaseOK, RunningSplitAt
    <3>2. \A c \in Chunk : c[1] = p => c \in ChunksOf(p) /\ c[2] \in Int /\ c[2] <= ChunkCount[p]
      BY ChunkOf, ConstantsAssumption
    <3> QED
      BY <1>2, <3>1, <3>2, ConstantsAssumption DEF Frame
  <2>3. Quiet
    <3>1. input' = [input EXCEPT ![p] =
                      [status |-> "processing", split |-> TRUE, processed |-> 0]]
      BY <1>3, <1>5 DEF Publish
    <3> QED
      BY <3>1 DEF Quiet, FlowInv, TypeInv, RowsOK
  <2>4. \E f : HandsOut(r, p, f)
    <3>1. CASE r \in Caller /\ ChunkCount[p] > 0
      <4> DEFINE f == FrameAt("mark", p, <<p, 1>>, TRUE, 1 + 1, FALSE)
      <4>0. Inline(r, p, 1) /\ feeder' = feeder
        BY <1>3, <1>5, <3>1 DEF Publish
      <4>1. run' = [run EXCEPT ![r] = f] /\ feeder' = feeder
        <5>1. 1 <= ChunkCount[p]
          BY <3>1, ConstantsAssumption
        <5> QED
          BY <4>0, <5>1 DEF Inline
      <4>2. f.pc = "mark" /\ f.input = p /\ f.chunk = <<p, 1>> /\ f.next = 2
        BY DEF FrameAt
      <4> HIDE DEF f
      <4>3. \A c \in Chunk : FrameWorks(f, c) => c[1] = p
        BY <4>2 DEF FrameWorks, FrameHolds, FrameAhead
      <4>4. HandsOut(r, p, f)
        BY <4>1, <4>2, <4>3 DEF Splits, HandsOut
      <4> QED
        BY <4>4
    <3>2. CASE ~(r \in Caller /\ ChunkCount[p] > 0)
      <4> DEFINE f == IdleFrame(IF r \in Caller THEN "ok" ELSE "none")
      <4>1. run' = [run EXCEPT ![r] = f]
        BY <1>3, <1>5, <3>2 DEF Publish, Return
      <4>2. \A q \in Parent \ {p} : feeder'[q] = feeder[q]
        BY <1>3, <1>5, <3>2 DEF Publish, FlowInv, TypeInv, FeedersOK
      <4>3. f.pc = "idle" /\ f.input = None /\ f.nested = FALSE
        BY DEF IdleFrame
      <4> HIDE DEF f
      <4>4. \A c \in Chunk : ~FrameWorks(f, c)
        BY <4>3 DEF FrameWorks, FrameHolds, FrameAhead
      <4>5. HandsOut(r, p, f)
        BY <4>1, <4>2, <4>3, <4>4 DEF Splits, HandsOut
      <4> QED
        BY <4>5
    <3> QED
      BY <3>1, <3>2
  <2> PICK f : HandsOut(r, p, f)
    BY <2>4
  <2>5. /\ run' = [run EXCEPT ![r] = f] /\ f.pc # "save" /\ ~Splits(f)
        /\ f.input \in {p, None}
        /\ f.nested => f.chunk = <<f.input, f.next - 1>>
        /\ \A c \in Chunk : FrameWorks(f, c) =>
             c[1] = p /\ feeder' = feeder /\ (FrameHolds(f, c) => f.pc = "mark")
        /\ \A q \in Parent \ {p} : feeder'[q] = feeder[q]
    BY DEF HandsOut
  <2>6. run'[r] = f /\ \A q \in Runner : q # r => run'[q] = run[q]
    BY <2>5, RunAt DEF FlowInv, TypeInv
  <2>7. None \notin Parent
    BY ConstantsAssumption
  <2>8. QueuedSplitAt(p)'
    BY <1>1, <2>1 DEF QueuedSplitAt
  <2>9. RunningSplitAt(p)'
    <3>1. \A q \in Runner : run'[q].input = p => ~Splits(run'[q])
      BY <2>1, <2>5, <2>6
    <3> QED
      BY <3>1 DEF RunningSplitAt, Splits
  <2>10. ActiveAt(p)'
    BY <1>1, <2>2, ChunkIn DEF ActiveAt, ChunksOf
  <2>11. /\ \A i \in 1..Len(queue') : i + 0 \in 1..Len(queue) /\ queue'[i] = queue[i + 0]
         /\ \A t \in Runner : run'[t].input \in Parent \ {p} => run'[t] = run[t]
    BY <1>1, <2>5, <2>6, <2>7 DEF FlowInv, TypeInv, QueueOK
  <2>12. PhaseOK'
    BY <1>1, <2>1, <2>5, <2>8, <2>9, <2>10, <2>11, OtherInputs DEF FlowInv, FlowOK
  <2>13. ASSUME NEW c \in Chunk PROVE CustodyAt(c)' /\ StageAt(c)'
    <3>1. CASE c[1] # p
      <4>1. \A q \in Runner : FrameWorks(run'[q], c) => run'[q] = run[q]
        BY <2>5, <2>6, <3>1
      <4>2. ToFeed(c)' => ToFeed(c)
        BY <2>5, <3>1, ChunkOf DEF ToFeed
      <4> QED
        BY <1>1, <2>11, <4>1, <4>2, OtherChunk DEF FlowInv, FlowOK, CustodyOK, StageOK
    <3>2. CASE c[1] = p
      <4>1. \A q \in Runner : FrameWorks(run'[q], c) => q = r
        BY <2>1, <2>6, <3>2
      <4>2. \A j \in 1..Len(queue') : queue'[j].chunk # c
        BY <1>1, <2>1, <3>2
      <4>3. feeder'[c[1]] # 0 => \A q \in Runner : ~FrameWorks(run'[q], c)
        BY <2>1, <2>5, <2>6, <3>2, <4>1
      <4>4. chunk'[c] = "pending"
        BY <1>1, <2>2, <3>2
      <4>5. \A q \in Runner : FrameStaged(run'[q], c, chunk'[c])
        BY <2>5, <2>6, <4>1, <4>4 DEF FrameStaged, FrameWorks, Stage
      <4> QED
        BY <4>1, <4>2, <4>3, <4>4, <4>5, ChunkIntro
    <3> QED
      BY <3>1, <3>2
  <2>14. NestedOK'
    BY <2>5, NestedStep DEF FlowInv, TypeInv, FlowOK
  <2>15. AccountOK => AccountOK'
    BY <1>1, <2>3, <2>5, <2>6, QuietAccount DEF FlowInv, Quiet
  <2> QED
    BY <1>1, <2>12, <2>13, <2>14, <2>15 DEF FlowInv, FlowOK, CustodyOK, StageOK
<1> QED
  BY <1>4, <1>5

-----------------------------------------------------------------------------
(* A goroutine takes up a task.                                            *)

LEMMA CognifyWaitInv ==
  ASSUME FlowInv, NEW r \in Runner, NEW p \in Parent, CognifyWait(r, p)
  PROVE  FlowInv' /\ (AccountOK => AccountOK')
<1> DEFINE f == FrameAt("split", p, None, FALSE, 1, FALSE)
<1>1. TypeInv'
  BY CognifyWaitType DEF FlowInv
<1>2. UNCHANGED <<input, chunk, queue, feeder>> /\ handed' = handed \cup {p} /\ p \notin handed
  BY DEF CognifyWait
<1>3. run' = [run EXCEPT ![r] = f] /\ run[r].pc = "idle"
  BY DEF CognifyWait, Enter
<1>4. f.pc = "split" /\ f.input = p /\ f.nested = FALSE /\ f.next = 1
  BY DEF FrameAt
<1> HIDE DEF f
<1>5. run'[r] = f /\ \A q \in Runner : q # r => run'[q] = run[q]
  BY <1>3, RunAt DEF FlowInv, TypeInv
<1>6. /\ feeder[p] = 0
      /\ \A i \in 1..Len(queue) : queue[i].input # p
      /\ \A q \in Runner : run[q].input # p
      /\ \A c \in ChunksOf(p) : chunk[c] = "none"
  BY <1>2 DEF FlowInv, FlowOK, PhaseOK, FreshAt
<1>7. QueuedSplitAt(p)'
  BY <1>2, <1>6 DEF QueuedSplitAt
<1>8. RunningSplitAt(p)'
  <2>1. \A q \in Runner : run'[q].input = p => q = r
    BY <1>5, <1>6
  <2>2. \A c \in ChunksOf(p) : chunk'[c] = IF c[2] < 1 THEN "pending" ELSE "none"
    BY <1>2, <1>6, ConstantsAssumption DEF ChunksOf
  <2> QED
    BY <1>2, <1>4, <1>5, <1>6, <2>1, <2>2 DEF RunningSplitAt, ChunksOf, Splits
<1>9. ActiveAt(p)'
  BY <1>2, <1>4, <1>5, <1>6 DEF ActiveAt, Active, Splits
<1>10. /\ \A i \in 1..Len(queue') : i + 0 \in 1..Len(queue) /\ queue'[i] = queue[i + 0]
       /\ \A t \in Runner : run'[t].input \in Parent \ {p} => run'[t] = run[t]
  BY <1>2, <1>4, <1>5 DEF FlowInv, TypeInv, QueueOK
<1>11. PhaseOK'
  BY <1>2, <1>7, <1>8, <1>9, <1>10, OtherInputs DEF FlowInv, FlowOK
<1>12. \A c \in Chunk : ~FrameHolds(f, c) /\ ~FrameAhead(f, c)
  BY <1>4 DEF FrameHolds, FrameAhead
<1>13. CustodyOK' /\ StageOK'
  BY <1>2, <1>3, <1>12, LocalChunks DEF FlowInv, FlowOK, FrameWorks, FrameStaged
<1>14. NestedOK'
  BY <1>3, <1>4, NestedStep DEF FlowInv, TypeInv, FlowOK
<1>15. AccountOK => AccountOK'
  BY <1>1, <1>2, <1>4, <1>5, QuietAccount DEF FlowInv
<1> QED
  BY <1>1, <1>11, <1>13, <1>14, <1>15 DEF FlowInv, FlowOK

\* A worker with the task at the head of the queue.
LEMMA Received ==
  ASSUME TypeInv, NEW w \in Runner, Take(w)
  PROVE  \E f, t :
           /\ t = queue[1] /\ 1 \in 1..Len(queue)
           /\ \A i \in 1..Len(queue') : i + 1 \in 1..Len(queue) /\ queue'[i] = queue[i + 1]
           /\ \A i \in 1..Len(queue') : i + 1 # 1
           /\ run' = [run EXCEPT ![w] = f]
           /\ f.input = t.input /\ f.chunk = t.chunk /\ f.nested = FALSE /\ f.next = 1
           /\ f.pc = IF t.kind = "memify" THEN "memify"
                     ELSE IF t.chunk # None THEN "mark" ELSE "split"
<1> DEFINE t == Head(queue)
           f == FrameAt(IF t.kind = "memify" THEN "memify"
                        ELSE IF t.chunk # None THEN "mark" ELSE "split",
                        t.input, t.chunk, FALSE, 1, FALSE)
<1>1. queue \in Seq(Task) /\ queue # <<>> /\ queue' = Tail(queue)
  BY DEF TypeInv, QueueOK, Take
<1>2. t = queue[1] /\ 1 \in 1..Len(queue)
  BY <1>1
<1>3. /\ \A i \in 1..Len(queue') : i + 1 \in 1..Len(queue) /\ queue'[i] = queue[i + 1]
      /\ \A i \in 1..Len(queue') : i + 1 # 1
  BY <1>1
<1>4. t.kind \in {"cognify", "memify"}
  BY <1>2, QueueTask DEF TypeInv
<1>5. run' = [run EXCEPT ![w] = f]
  <2>1. CASE t.kind = "cognify"
    <3>1. Enter(w, t.input, t.chunk, FALSE)
      BY <2>1 DEF Take
    <3>2. t.kind # "memify"
      BY <2>1
    <3> QED
      BY <3>1, <3>2 DEF Enter
  <2>2. CASE t.kind = "memify"
    BY <2>2 DEF Take
  <2> QED
    BY <1>4, <2>1, <2>2
<1>6. /\ f.input = t.input /\ f.chunk = t.chunk /\ f.nested = FALSE /\ f.next = 1
      /\ f.pc = IF t.kind = "memify" THEN "memify"
                ELSE IF t.chunk # None THEN "mark" ELSE "split"
  BY DEF FrameAt
<1> HIDE DEF f, t
<1> QED
  BY <1>2, <1>3, <1>5, <1>6

LEMMA TakeInv ==
  ASSUME FlowInv, NEW w \in Runner, Take(w)
  PROVE  FlowInv' /\ (AccountOK => AccountOK')
<1>1. TypeInv' /\ UNCHANGED <<input, chunk, handed, feeder>>
  BY TakeType DEF FlowInv, Take
<1>2. PICK f, t :
           /\ t = queue[1] /\ 1 \in 1..Len(queue)
           /\ \A i \in 1..Len(queue') : i + 1 \in 1..Len(queue) /\ queue'[i] = queue[i + 1]
           /\ \A i \in 1..Len(queue') : i + 1 # 1
           /\ run' = [run EXCEPT ![w] = f]
           /\ f.input = t.input /\ f.chunk = t.chunk /\ f.nested = FALSE /\ f.next = 1
           /\ f.pc = IF t.kind = "memify" THEN "memify"
                     ELSE IF t.chunk # None THEN "mark" ELSE "split"
  BY Received DEF FlowInv
<1>3. run'[w] = f /\ \A q \in Runner : q # w => run'[q] = run[q]
  BY <1>2, RunAt DEF FlowInv, TypeInv
<1>4. /\ t.input \in Parent /\ t.chunk \in Chunk \cup {None}
      /\ t.kind \in {"cognify", "memify"} /\ TaskOK(t)
  BY <1>2, QueueTask DEF FlowInv, TypeInv
<1>5. PICK p \in Parent : p = t.input
  BY <1>4
<1>6. FreshAt(p) /\ QueuedSplitAt(p) /\ RunningSplitAt(p) /\ ActiveAt(p)
  BY DEF FlowInv, FlowOK, PhaseOK
<1>7. p \in handed /\ \A q \in Runner : run[q].input = p => ~Splits(run[q])
  BY <1>2, <1>5, <1>6 DEF FreshAt, RunningSplitAt
<1>8. /\ \A i \in 1..Len(queue') : i + 1 \in 1..Len(queue) /\ queue'[i] = queue[i + 1]
      /\ \A q \in Runner : run'[q].input \in Parent \ {p} => run'[q] = run[q]
  BY <1>2, <1>3, <1>5
<1>9. QueuedSplitAt(p)' /\ RunningSplitAt(p)' /\ ActiveAt(p)'
  <2>1. CASE t.chunk = None
    <3>1. /\ feeder[p] = 0
          /\ \A j \in 1..Len(queue) : queue[j].input = p => j = 1
          /\ \A q \in Runner : run[q].input # p
          /\ \A c \in ChunksOf(p) : chunk[c] = "none"
      BY <1>2, <1>5, <1>6, <2>1 DEF QueuedSplitAt
    <3>2. \A j \in 1..Len(queue') : queue'[j].input # p
      BY <1>2, <3>1
    <3>3. f.pc = "split"
      BY <1>2, <1>4, <2>1 DEF TaskOK
    <3>4. QueuedSplitAt(p)'
      BY <3>2 DEF QueuedSplitAt
    <3>5. \A c \in ChunksOf(p) : chunk'[c] = IF c[2] < 1 THEN "pending" ELSE "none"
      BY <1>1, <3>1, ConstantsAssumption DEF ChunksOf
    <3>6. \A q \in Runner : run'[q].input = p => q = w
      BY <1>3, <3>1
    <3>7. RunningSplitAt(p)'
      BY <1>1, <1>2, <1>3, <3>1, <3>2, <3>3, <3>5, <3>6 DEF RunningSplitAt, ChunksOf, Splits
    <3>8. ActiveAt(p)'
      BY <1>1, <1>3, <3>1, <3>2, <3>3, <3>6 DEF ActiveAt, Active, Splits
    <3> QED
      BY <3>4, <3>7, <3>8
  <2>2. CASE t.chunk # None
    <3>1. \A c \in ChunksOf(p) : chunk[c] # "none"
      BY <1>2, <1>5, <1>6, <2>2 DEF ActiveAt, Active
    <3>2. \A i \in 1..Len(queue) : queue[i].input = p => queue[i].chunk # None
      BY <1>2, <1>5, <1>6, <2>2 DEF QueuedSplitAt
    <3>3. \A q \in Runner : run'[q].input = p => ~Splits(run'[q])
      BY <1>2, <1>3, <1>7, <2>2 DEF Splits
    <3>4. QueuedSplitAt(p)'
      BY <1>2, <3>2 DEF QueuedSplitAt
    <3>5. RunningSplitAt(p)'
      BY <3>3 DEF RunningSplitAt, Splits
    <3>6. ActiveAt(p)'
      BY <1>1, <3>1 DEF ActiveAt, ChunksOf
    <3> QED
      BY <3>4, <3>5, <3>6
  <2> QED
    BY <2>1, <2>2
<1>10. PhaseOK'
  BY <1>1, <1>7, <1>8, <1>9, OtherInputs DEF FlowInv, FlowOK
<1>11. ASSUME NEW c \in Chunk PROVE CustodyAt(c)' /\ StageAt(c)'
  <2>1. CustodyAt(c) /\ StageAt(c) /\ c # None
    BY ChunkOf DEF FlowInv, FlowOK, CustodyOK, StageOK
  <2>2. FrameWorks(f, c) => t.chunk = c
    BY <1>2 DEF FrameWorks, FrameHolds, FrameAhead
  <2>3. CASE t.chunk # c
    <3>1. \A q \in Runner : FrameWorks(run'[q], c) => run'[q] = run[q]
      BY <1>3, <2>2, <2>3
    <3> QED
      BY <1>1, <1>8, <2>1, <3>1, OtherChunk DEF ToFeed
  <2>4. CASE t.chunk = c
    <3>1. \A i \in 1..Len(queue') : queue'[i].chunk # c
      BY <1>2, <2>1, <2>4 DEF CustodyAt, InQueue
    <3>2. \A q \in Runner : FrameWorks(run'[q], c) => q = w
      BY <1>2, <1>3, <2>1, <2>4 DEF CustodyAt, InQueue
    <3>3. ~(feeder'[c[1]] # 0 /\ feeder'[c[1]] <= c[2])
      BY <1>1, <1>2, <2>1, <2>4 DEF CustodyAt, InQueue, ToFeed
    <3>4. chunk'[c] = IF t.kind = "cognify" THEN "pending" ELSE "cognified"
      BY <1>1, <1>2, <2>1, <2>4 DEF StageAt, InQueue
    <3>5. FrameStaged(f, c, chunk'[c])
      BY <1>2, <1>4, <2>1, <2>4, <3>4 DEF FrameStaged, FrameAhead, Stage
    <3>6. \A q \in Runner : FrameStaged(run'[q], c, chunk'[c])
      BY <1>3, <3>2, <3>5 DEF FrameStaged, FrameWorks
    <3> QED
      BY <3>1, <3>2, <3>3, <3>6, ChunkIntro
  <2> QED
    BY <2>3, <2>4
<1>12. NestedOK'
  BY <1>2, NestedStep DEF FlowInv, TypeInv, FlowOK
<1>13. AccountOK => AccountOK'
  BY <1>1, <1>2, <1>3, QuietAccount DEF FlowInv
<1> QED
  BY <1>1, <1>10, <1>11, <1>12, <1>13 DEF FlowInv, FlowOK, CustodyOK, StageOK

-----------------------------------------------------------------------------
(* A task is submitted.                                                    *)

\* The child leaves the goroutine that feeds the queue.
LEMMA FeedInv ==
  ASSUME FlowInv, NEW p \in Parent, Feed(p)
  PROVE  FlowInv' /\ (AccountOK => AccountOK')
<1> DEFINE e == <<p, feeder[p]>>
           t == CognifyTask(p, e)
           n == Len(queue) + 1
<1>1. TypeInv' /\ UNCHANGED <<input, chunk, handed, run>>
  BY FeedType DEF FlowInv, Feed
<1>2. feeder[p] \in 1..ChunkCount[p]
  BY ConstantsAssumption DEF FlowInv, TypeInv, FeedersOK, Feed
<1>3. e \in Chunk /\ e \in ChunksOf(p) /\ e # None /\ e[1] = p /\ e[2] = feeder[p]
  BY <1>2, ChunkIs
<1>4. t \in Task /\ t.input = p /\ t.chunk = e /\ t.kind = "cognify"
  BY <1>3 DEF CognifyTask, Task
<1>5. Submit(t)
  BY DEF Feed
<1>6. \A q \in Parent : feeder'[q] =
         IF q = p THEN (IF feeder[p] = ChunkCount[p] THEN 0 ELSE feeder[p] + 1) ELSE feeder[q]
  BY DEF Feed, FlowInv, TypeInv, FeedersOK
<1>7. \A c \in Chunk : ToFeed(c)' => ToFeed(c) /\ c # e
  <2> SUFFICES ASSUME NEW c \in Chunk, feeder'[c[1]] # 0, feeder'[c[1]] <= c[2]
               PROVE  ToFeed(c) /\ c # e
    BY DEF ToFeed
  <2>1. c[1] \in Parent /\ c[2] \in Int
    BY ChunkOf, ConstantsAssumption
  <2>2. CASE c[1] = p
    <3>1. feeder'[p] = feeder[p] + 1 /\ feeder[p] \in Int
      BY <1>2, <1>6, <2>2, ConstantsAssumption
    <3>2. feeder[p] < c[2] /\ feeder[p] # 0
      BY <1>2, <2>1, <2>2, <3>1
    <3> QED
      BY <1>3, <2>1, <2>2, <3>1, <3>2 DEF ToFeed
  <2>3. CASE c[1] # p
    BY <1>3, <1>6, <2>1, <2>3 DEF ToFeed
  <2> QED
    BY <2>2, <2>3
<1> HIDE DEF e, t
<1>8. /\ Len(queue) \in Nat /\ Len(queue') = n
      /\ \A i \in 1..Len(queue) : queue'[i] = queue[i]
      /\ queue'[n] = t
      /\ \A i \in 1..Len(queue') : i \in 1..Len(queue) \/ i = n
  BY <1>4, <1>5, Appended DEF FlowInv, TypeInv
<1>9. feeder[p] # 0 /\ FreshAt(p) /\ QueuedSplitAt(p) /\ RunningSplitAt(p) /\ ActiveAt(p)
  BY <1>2, ConstantsAssumption DEF FlowInv, FlowOK, PhaseOK
<1>10. p \in handed
  BY <1>9 DEF FreshAt
<1>11. QueuedSplitAt(p)'
  BY <1>3, <1>4, <1>8, <1>9 DEF QueuedSplitAt
<1>12. RunningSplitAt(p)'
  BY <1>1, <1>9 DEF RunningSplitAt, Splits
<1>13. ActiveAt(p)'
  BY <1>1, <1>9 DEF ActiveAt, Active, ChunksOf
<1>14. \A i \in 1..Len(queue') : queue'[i].input # p =>
          i + 0 \in 1..Len(queue) /\ queue'[i] = queue[i + 0]
  BY <1>4, <1>8
<1>15. PhaseOK'
  BY <1>1, <1>6, <1>10, <1>11, <1>12, <1>13, <1>14, OtherInputs DEF FlowInv, FlowOK
<1>16. ASSUME NEW c \in Chunk PROVE CustodyAt(c)' /\ StageAt(c)'
  <2>1. CustodyAt(c) /\ StageAt(c)
    BY DEF FlowInv, FlowOK, CustodyOK, StageOK
  <2>2. CASE c # e
    <3>1. \A i \in 1..Len(queue') : queue'[i].chunk = c =>
             i + 0 \in 1..Len(queue) /\ queue'[i] = queue[i + 0]
      BY <1>4, <1>8, <2>2
    <3> QED
      BY <1>1, <1>7, <2>1, <3>1, OtherChunk
  <2>3. CASE c = e
    <3>1. ToFeed(c)
      BY <1>2, <1>3, <1>9, <2>3, ConstantsAssumption DEF ToFeed
    <3>2. /\ \A i \in 1..Len(queue) : queue[i].chunk # c
          /\ \A q \in Runner : ~FrameWorks(run[q], c)
          /\ chunk[c] = "pending"
      BY <2>1, <3>1 DEF CustodyAt, StageAt, InQueue
    <3>3. \A i \in 1..Len(queue') : queue'[i].chunk = c => i = n /\ queue'[i].kind = "cognify"
      BY <1>4, <1>8, <3>2
    <3>4. ~(feeder'[c[1]] # 0 /\ feeder'[c[1]] <= c[2])
      BY <1>7, <2>3 DEF ToFeed
    <3>5. \A q \in Runner : ~FrameWorks(run'[q], c) /\ FrameStaged(run'[q], c, chunk'[c])
      BY <1>1, <3>2 DEF FrameStaged, FrameWorks
    <3> QED
      BY <1>1, <3>2, <3>3, <3>4, <3>5, ChunkIntro
  <2> QED
    BY <2>2, <2>3
<1>17. NestedOK'
  BY <1>1 DEF FlowInv, FlowOK, NestedOK
<1>18. AccountOK => AccountOK'
  BY <1>1, QuietAccount DEF FlowInv
<1> QED
  BY <1>1, <1>15, <1>16, <1>17, <1>18 DEF FlowInv, FlowOK, CustodyOK, StageOK

\* The cognified chunk goes back to the queue, to be memified.
LEMMA ChainInv ==
  ASSUME FlowInv, NEW r \in Runner, Chain(r)
  PROVE  FlowInv' /\ (AccountOK => AccountOK')
<1> DEFINE t == MemifyTask(run[r].input, run[r].chunk)
           f == IdleFrame(IF r \in Caller THEN "ok" ELSE "none")
           n == Len(queue) + 1
<1>1. TypeInv' /\ UNCHANGED <<input, chunk, handed, feeder>>
  BY ChainType DEF FlowInv, Chain
<1>2. /\ run[r] \in Frame /\ FrameOK(run[r]) /\ run[r].pc = "chain"
      /\ run[r].input \in Parent /\ run[r].chunk \in Chunk /\ ~Splits(run[r])
  BY DEF FlowInv, TypeInv, RunsOK, FrameOK, Frame, Splits, Chain
<1>3. PICK p \in Parent : p = run[r].input
  BY <1>2
<1>4. PICK e \in Chunk : e = run[r].chunk
  BY <1>2
<1>5. t \in Task /\ t.input = p /\ t.chunk = e /\ t.kind = "memify" /\ e # None
  BY <1>2, <1>3, <1>4, ChunkOf DEF MemifyTask, Task
<1>6. Submit(t)
  BY DEF Chain
<1>7. run' = [run EXCEPT ![r] = f]
  BY DEF Chain, Return
<1>8. f.pc = "idle" /\ f.input = None /\ f.nested = FALSE
  BY DEF IdleFrame
<1> HIDE DEF f, t
<1>9. run'[r] = f /\ \A q \in Runner : q # r => run'[q] = run[q]
  BY <1>7, RunAt DEF FlowInv, TypeInv
<1>10. /\ Len(queue) \in Nat /\ Len(queue') = n
       /\ \A i \in 1..Len(queue) : queue'[i] = queue[i]
       /\ queue'[n] = t
       /\ \A i \in 1..Len(queue') : i \in 1..Len(queue) \/ i = n
  BY <1>5, <1>6, Appended DEF FlowInv, TypeInv
<1>11. FreshAt(p) /\ QueuedSplitAt(p) /\ RunningSplitAt(p) /\ ActiveAt(p)
  BY DEF FlowInv, FlowOK, PhaseOK
<1>12. p \in handed
  BY <1>3, <1>11 DEF FreshAt
<1>13. QueuedSplitAt(p)'
  BY <1>3, <1>5, <1>10, <1>11 DEF QueuedSplitAt
<1>14. RunningSplitAt(p)'
  <2>1. \A q \in Runner : run'[q].input = p => ~Splits(run'[q])
    BY <1>2, <1>3, <1>8, <1>9, <1>11, ConstantsAssumption DEF RunningSplitAt
  <2> QED
    BY <2>1 DEF RunningSplitAt, Splits
<1>15. ActiveAt(p)'
  <2>1. \A c \in ChunksOf(p) : chunk[c] # "none"
    BY <1>2, <1>3, <1>11 DEF ActiveAt, Active
  <2> QED
    BY <1>1, <2>1 DEF ActiveAt, ChunksOf
<1>16. /\ \A i \in 1..Len(queue') : queue'[i].input # p =>
            i + 0 \in 1..Len(queue) /\ queue'[i] = queue[i + 0]
       /\ \A q \in Runner : run'[q].input \in Parent \ {p} => run'[q] = run[q]
  BY <1>5, <1>8, <1>9, <1>10, ConstantsAssumption
<1>17. PhaseOK'
  BY <1>1, <1>12, <1>13, <1>14, <1>15, <1>16, OtherInputs DEF FlowInv, FlowOK
<1>18. \A c \in Chunk, q \in Runner : FrameWorks(run'[q], c) => q # r /\ run'[q] = run[q]
  BY <1>8, <1>9 DEF FrameWorks, FrameHolds, FrameAhead
<1>19. ASSUME NEW c \in Chunk PROVE CustodyAt(c)' /\ StageAt(c)'
  <2>1. CustodyAt(c) /\ StageAt(c) /\ (ToFeed(c)' => ToFeed(c))
    BY <1>1 DEF FlowInv, FlowOK, CustodyOK, StageOK, ToFeed
  <2>2. CASE c # e
    <3>1. \A i \in 1..Len(queue') : queue'[i].chunk = c =>
             i + 0 \in 1..Len(queue) /\ queue'[i] = queue[i + 0]
      BY <1>5, <1>10, <2>2
    <3> QED
      BY <1>1, <1>18, <2>1, <3>1, OtherChunk
  <2>3. CASE c = e
    <3>1. FrameHolds(run[r], c)
      BY <1>2, <1>4, <2>3 DEF FrameHolds
    <3>2. /\ \A i \in 1..Len(queue) : queue[i].chunk # c
          /\ \A q \in Runner : FrameWorks(run[q], c) => q = r
          /\ ~ToFeed(c)
      BY <2>1, <3>1 DEF CustodyAt, InQueue, FrameWorks
    <3>3. chunk'[c] = "cognified"
      BY <1>1, <1>2, <2>1, <3>1 DEF StageAt, FrameStaged, Stage
    <3>4. \A i \in 1..Len(queue') : queue'[i].chunk = c => i = n /\ queue'[i].kind = "memify"
      BY <1>5, <1>10, <3>2
    <3>5. \A q \in Runner : ~FrameWorks(run'[q], c)
      BY <1>18, <3>2
    <3>6. \A q \in Runner : FrameStaged(run'[q], c, chunk'[c])
      BY <3>5 DEF FrameStaged, FrameWorks
    <3>7. ~(feeder'[c[1]] # 0 /\ feeder'[c[1]] <= c[2])
      BY <2>1, <3>2 DEF ToFeed
    <3> QED
      BY <3>3, <3>4, <3>5, <3>6, <3>7, ChunkIntro
  <2> QED
    BY <2>2, <2>3
<1>20. NestedOK'
  BY <1>7, <1>8, NestedStep DEF FlowInv, TypeInv, FlowOK
<1>21. AccountOK => AccountOK'
  BY <1>1, <1>8, <1>9, QuietAccount DEF FlowInv
<1> QED
  BY <1>1, <1>17, <1>19, <1>20, <1>21 DEF FlowInv, FlowOK, CustodyOK, StageOK

-----------------------------------------------------------------------------
(* The invariant and what follows from it.                                 *)

LEMMA InitInv == Init => PipelineInv
<1> SUFFICES ASSUME Init PROVE PipelineInv
  OBVIOUS
<1>1. TypeInv
  BY InitType
<1>2. /\ \A p \in Parent : feeder[p] = 0 /\ input[p] = NewRow
      /\ Len(queue) = 0
      /\ \A r \in Runner : run[r] = NewFrame
      /\ \A c \in Chunk : chunk[c] = "none"
  BY DEF Init
<1>3. NewFrame.pc = "idle" /\ NewFrame.input = None /\ NewFrame.nested = FALSE
  BY DEF NewFrame, IdleFrame
<1>4. \A r \in Runner : run[r].pc = "idle" /\ run[r].input = None /\ run[r].nested = FALSE
  BY <1>2, <1>3
<1>5. \A i : i \notin 1..Len(queue)
  BY <1>2
<1>6. PhaseOK
  <2> SUFFICES ASSUME NEW p \in Parent
               PROVE  FreshAt(p) /\ QueuedSplitAt(p) /\ RunningSplitAt(p) /\ ActiveAt(p)
    BY DEF PhaseOK
  <2>1. p # None
    BY ConstantsAssumption
  <2>2. FreshAt(p)
    BY <1>2, <1>4, <1>5, <2>1, ChunkIn DEF FreshAt
  <2>3. QueuedSplitAt(p)
    BY <1>5 DEF QueuedSplitAt
  <2>4. RunningSplitAt(p) /\ ActiveAt(p)
    BY <1>2, <1>4, <1>5, <2>1 DEF RunningSplitAt, ActiveAt, Active
  <2> QED
    BY <2>2, <2>3, <2>4
<1>7. \A r \in Runner, c \in Chunk : ~FrameHolds(run[r], c) /\ ~FrameAhead(run[r], c)
  BY <1>4 DEF FrameHolds, FrameAhead
<1>8. \A c \in Chunk : ~ToFeed(c)
  BY <1>2, ChunkOf DEF ToFeed
<1>9. CustodyOK
  BY <1>5, <1>7, <1>8 DEF CustodyOK, CustodyAt, FrameWorks
<1>10. StageOK
  BY <1>5, <1>7, <1>8 DEF StageOK, StageAt, FrameStaged
<1>11. NestedOK /\ SaveOK
  BY <1>4 DEF NestedOK, SaveOK
<1>12. CompletedMeansDone
  BY <1>2 DEF CompletedMeansDone, NewRow
<1>13. ProcessedIsEarned
  <2> SUFFICES ASSUME NEW p \in Parent PROVE input[p].processed <= Cardinality(Completed(p))
    BY DEF ProcessedIsEarned
  <2>1. input[p].processed = 0
    BY <1>2 DEF NewRow
  <2> QED
    BY <2>1, CompletedFinite
<1> QED
  BY <1>1, <1>6, <1>9, <1>10, <1>11, <1>12, <1>13 DEF PipelineInv, FlowOK, AccountOK

\* The flow of the tasks is kept by itself: it needs nothing of what the rows say.
LEMMA FlowStep ==
  ASSUME FlowInv, [Next]_vars
  PROVE  FlowInv' /\ (AccountOK => AccountOK')
<1> DEFINE Kept == FlowInv' /\ (AccountOK => AccountOK')
<1> SUFFICES Kept
  OBVIOUS
<1>1. CASE UNCHANGED vars
  BY <1>1, Stutters
<1>2. ASSUME NEW p \in Parent, Add(p) \/ CognifyAsync(p) \/ Feed(p) PROVE Kept
  BY <1>2, AddInv, CognifyAsyncInv, FeedInv
<1>3. ASSUME NEW r \in Caller, NEW p \in Parent, CognifyWait(r, p) PROVE Kept
  BY <1>3, CognifyWaitInv DEF Runner
<1>4. ASSUME NEW w \in Worker, Take(w) \/ Exit(w) PROVE Kept
  BY <1>4, TakeInv, ExitInv DEF Runner
<1>5. ASSUME NEW r \in Runner, Execute(r) PROVE Kept
  BY <1>5, CreateChildInv, PublishInv, FailNestedInv, MarkInv, ExtractInv,
     ChainInv, MemifyInv, LoadInputInv, CountChildrenInv, SaveInputInv
     DEF Execute
<1>6. CASE Close
  BY <1>6, CloseInv
<1> QED
  BY <1>1, <1>2, <1>3, <1>4, <1>5, <1>6 DEF Next

LEMMA StepInv == PipelineInv /\ [Next]_vars => PipelineInv'
BY FlowStep DEF FlowInv, PipelineInv

LEMMA AlwaysInv == Spec => []PipelineInv
BY InitInv, StepInv, PTL DEF Spec

LEMMA OneHolder ==
  ASSUME CustodyOK, NEW c \in Chunk, NEW h \in Holders(c), NEW k \in Holders(c)
  PROVE  h = k
<1>1. CustodyAt(c)
  BY DEF CustodyOK
<1>2. \A r \in Runner : Holds(r, c) \/ Ahead(r, c) <=> FrameWorks(run[r], c)
  BY DEF Holds, Ahead, FrameWorks, FrameHolds, FrameAhead
<1>3. \A x \in Holders(c) :
         \/ \E i \in 1..Len(queue) : InQueue(i, c) /\ x = <<"queue", i>>
         \/ \E r \in Runner : FrameWorks(run[r], c) /\ x = <<"run", r>>
         \/ ToFeed(c) /\ x = <<"feeder", c[1]>>
  BY <1>2 DEF Holders
<1> QED
  BY <1>1, <1>3 DEF CustodyAt

\* However the splitters, the queue, the workers and the waiting callers
\* interleave, and whatever stores fail: a chunk is in one hand at most
\* (worker_pool.go, task_cognify.go).
THEOREM Custody == Spec => []SingleCustody
<1>1. PipelineInv => SingleCustody
  BY OneHolder DEF PipelineInv, FlowOK, SingleCustody
<1> QED
  BY <1>1, AlwaysInv, PTL

\* syncParentStatusFromChildren never announces early, even from a stale copy of
\* the row: completed means that every chunk of the input is.
THEOREM Announced == Spec => []CompletedMeansDone
<1>1. PipelineInv => CompletedMeansDone
  BY DEF PipelineInv, AccountOK
<1> QED
  BY <1>1, AlwaysInv, PTL

\* processed_chunks of an input never exceeds the number of its chunks that are
\* completed, whichever goroutine wrote it last.
THEOREM Earned == Spec => []ProcessedIsEarned
<1>1. PipelineInv => ProcessedIsEarned
  BY DEF PipelineInv, AccountOK
<1> QED
  BY <1>1, AlwaysInv, PTL

-----------------------------------------------------------------------------
\* What the pipeline promises.

Announcements == {p \in Parent : input[p].status = "completed"}

\* What a step of the pipeline is for the contract.
Abstract == Contract!ContractNext \/ UNCHANGED <<chunk, Announcements>>

LEMMA SilentStep ==
  ASSUME UNCHANGED <<input, chunk>>
  PROVE  Abstract
BY DEF Abstract, Announcements

\* A chunk moves along an edge of the status diagram.
LEMMA ChunkStep ==
  ASSUME NEW c \in Chunk, NEW to, chunk' = [chunk EXCEPT ![c] = to], UNCHANGED input,
         \/ chunk[c] = "none" /\ to = "pending"
         \/ chunk[c] = "pending" /\ to = "processing"
         \/ chunk[c] \in {"pending", "processing"} /\ to = "cognified"
         \/ chunk[c] = "cognified" /\ to = "completed"
         \/ chunk[c] \in {"pending", "processing", "cognified"} /\ to = "failed"
  PROVE  Abstract
<1>1. Announcements' = Announcements
  BY DEF Announcements
<1>2. c \in Contract!Parts
  BY DEF Contract!Parts, Chunk
<1>3. \/ Contract!Register(c) \/ Contract!Begin(c) \/ Contract!Draft(c)
      \/ Contract!Complete(c) \/ Contract!GiveUp(c)
  BY <1>1 DEF Announcements, Contract!Move, Contract!Register, Contract!Begin,
     Contract!Draft, Contract!Complete, Contract!GiveUp
<1> QED
  BY <1>2, <1>3 DEF Abstract, Contract!ContractNext

\* The row of an input is written.
LEMMA RowStep ==
  ASSUME TypeInv, NEW p \in Parent, NEW row, input' = [input EXCEPT ![p] = row],
         UNCHANGED chunk, row.status = "completed" => Finished(p)
  PROVE  Abstract
<1>1. \A q \in Parent : input'[q] = IF q = p THEN row ELSE input[q]
  BY DEF TypeInv, RowsOK
<1>2. CASE row.status = "completed"
  <2>1. Announcements' = Announcements \cup {p}
    BY <1>1, <1>2 DEF Announcements
  <2>2. ChunksOf(p) # {} /\ \A c \in ChunksOf(p) : chunk[c] = "completed"
    BY <1>2 DEF Finished, Completed
  <2>3. Contract!Announce(p)
    BY <2>1, <2>2 DEF Contract!Announce, Announcements
  <2> QED
    BY <2>3 DEF Abstract, Contract!ContractNext
<1>3. CASE row.status # "completed"
  <2>1. Announcements' = Announcements \ {p}
    BY <1>1, <1>3 DEF Announcements
  <2>2. Contract!Withdraw(p)
    BY <2>1 DEF Contract!Withdraw, Announcements
  <2> QED
    BY <2>2 DEF Abstract, Contract!ContractNext
<1> QED
  BY <1>2, <1>3

\* The chunk a goroutine works on, and the status it has.
LEMMA HeldStage ==
  ASSUME PipelineInv, NEW r \in Runner, run[r].pc \in {"mark", "extract", "memify"}
  PROVE  run[r].chunk \in Chunk /\ chunk[run[r].chunk] \in Stage(run[r].pc)
<1>1. run[r].chunk \in Chunk
  BY DEF PipelineInv, TypeInv, RunsOK, Frame, FrameOK
<1> QED
  BY <1>1 DEF PipelineInv, FlowOK, StageOK, StageAt, FrameStaged, FrameHolds

LEMMA FailStep ==
  ASSUME PipelineInv, NEW r \in Runner, run[r].pc \in {"extract", "memify"},
         NEW n, FailChunk(r, n), UNCHANGED input
  PROVE  Abstract
<1>1. PICK c \in Chunk : c = run[r].chunk /\ chunk[c] \in Stage(run[r].pc)
  BY HeldStage
<1>2. chunk[c] \in {"pending", "processing", "cognified"}
  BY <1>1 DEF Stage
<1>3. CASE UNCHANGED chunk
  BY <1>3, SilentStep
<1>4. CASE chunk' = [chunk EXCEPT ![c] = "failed"]
  BY <1>2, <1>4, ChunkStep
<1> QED
  BY <1>1, <1>3, <1>4 DEF FailChunk

LEMMA FailRowStep ==
  ASSUME PipelineInv, NEW r \in Runner, Splits(run[r]), NEW split \in BOOLEAN,
         FailInput(r, split), UNCHANGED chunk
  PROVE  Abstract
<1>1. PICK p \in Parent : p = run[r].input
  BY DEF PipelineInv, TypeInv, RunsOK, FrameOK, Splits
<1>2. CASE UNCHANGED input
  BY <1>2, SilentStep
<1>3. CASE input' = [input EXCEPT ![p] = [status |-> "failed", split |-> split, processed |-> 0]]
  BY <1>3, RowStep DEF PipelineInv
<1> QED
  BY <1>1, <1>2, <1>3 DEF FailInput

LEMMA SplitSteps ==
  ASSUME PipelineInv, NEW r \in Runner, CreateChild(r) \/ Publish(r) \/ FailNested(r)
  PROVE  Abstract
<1>1. PICK p \in Parent : p = run[r].input
  BY DEF PipelineInv, TypeInv, RunsOK, FrameOK, CreateChild, Publish, FailNested
<1>2. CASE CreateChild(r)
  <2>1. PICK i \in Nat \ {0} : i = run[r].next
    BY DEF PipelineInv, TypeInv, RunsOK, Frame
  <2>2. Splits(run[r]) /\ run[r].pc = "split"
    BY <1>2 DEF CreateChild, Splits
  <2>3. CASE UNCHANGED <<input, chunk>>
    BY <2>3, SilentStep
  <2>4. CASE FailInput(r, FALSE) /\ UNCHANGED chunk
    BY <2>2, <2>4, FailRowStep
  <2>5. CASE i <= ChunkCount[p] /\ chunk' = [chunk EXCEPT ![<<p, i>>] = "pending"] /\ UNCHANGED input
    <3>1. <<p, i>> \in ChunksOf(p) /\ <<p, i>> \in Chunk
      BY <2>5, ChunkIs, ConstantsAssumption
    <3>2. chunk[<<p, i>>] = "none"
      BY <1>1, <2>1, <2>2, <3>1 DEF PipelineInv, FlowOK, PhaseOK, RunningSplitAt
    <3> QED
      BY <2>5, <3>1, <3>2, ChunkStep
  <2> QED
    BY <1>1, <1>2, <2>1, <2>3, <2>4, <2>5 DEF CreateChild
<1>3. CASE Publish(r)
  <2>1. Splits(run[r]) /\ UNCHANGED chunk
    BY <1>3 DEF Publish, Splits
  <2>2. CASE FailInput(r, TRUE)
    BY <2>1, <2>2, FailRowStep
  <2>3. CASE ~FailInput(r, TRUE)
    <3> DEFINE row == [status |-> "processing", split |-> TRUE, processed |-> 0]
    <3>1. input' = [input EXCEPT ![p] = row] /\ row.status # "completed"
      BY <1>1, <1>3, <2>3 DEF Publish
    <3> HIDE DEF row
    <3> QED
      BY <2>1, <3>1, RowStep DEF PipelineInv
  <2> QED
    BY <2>2, <2>3
<1>4. CASE FailNested(r)
  <2> DEFINE row == [status |-> "failed", split |-> TRUE, processed |-> 0]
  <2>1. UNCHANGED chunk /\ row.status # "completed"
    BY <1>4 DEF FailNested
  <2>2. UNCHANGED input \/ input' = [input EXCEPT ![p] = row]
    BY <1>1, <1>4 DEF FailNested
  <2> HIDE DEF row
  <2> QED
    BY <2>1, <2>2, SilentStep, RowStep DEF PipelineInv
<1> QED
  BY <1>2, <1>3, <1>4

LEMMA ChunkSteps ==
  ASSUME PipelineInv, NEW r \in Runner, Mark(r) \/ Extract(r) \/ Memify(r)
  PROVE  Abstract
<1>1. run[r].pc \in {"mark", "extract", "memify"} /\ UNCHANGED input
  BY DEF Mark, Extract, Memify
<1>2. PICK c \in Chunk : c = run[r].chunk /\ chunk[c] \in Stage(run[r].pc)
  BY <1>1, HeldStage
<1>3. CASE Mark(r)
  <2>1. chunk[c] = "pending"
    BY <1>2, <1>3 DEF Mark, Stage
  <2>2. UNCHANGED chunk \/ chunk' = [chunk EXCEPT ![c] = "processing"]
    BY <1>2, <1>3 DEF Mark
  <2> QED
    BY <1>1, <2>1, <2>2, SilentStep, ChunkStep
<1>4. CASE Extract(r)
  <2>1. chunk[c] \in {"pending", "processing"} /\ run[r].pc = "extract"
    BY <1>2, <1>4 DEF Extract, Stage
  <2>2. FailChunk(r, 1) \/ chunk' = [chunk EXCEPT ![c] = "cognified"]
    BY <1>2, <1>4 DEF Extract
  <2> QED
    BY <1>1, <2>1, <2>2, FailStep, ChunkStep
<1>5. CASE Memify(r)
  <2>1. chunk[c] = "cognified" /\ run[r].pc = "memify"
    BY <1>2, <1>5 DEF Memify, Stage
  <2>2. FailChunk(r, IF r \in Caller THEN 2 ELSE 1) \/ chunk' = [chunk EXCEPT ![c] = "completed"]
    BY <1>2, <1>5 DEF Memify
  <2> QED
    BY <1>1, <2>1, <2>2, FailStep, ChunkStep
<1> QED
  BY <1>3, <1>4, <1>5

\* The whole row is written from the copy; the last count justifies it.
LEMMA SaveStep ==
  ASSUME PipelineInv, NEW r \in Runner, SaveInput(r)
  PROVE  Abstract
<1>1. PICK p \in Parent : p = run[r].input /\ (run[r].all => Finished(p))
  BY DEF PipelineInv, TypeInv, RunsOK, FrameOK, AccountOK, SaveOK, SaveInput
<1> DEFINE row == [status |-> IF run[r].all THEN "completed" ELSE "processing",
                   split |-> run[r].copy, processed |-> run[r].tally]
<1>2. row.status = "completed" => run[r].all
  OBVIOUS
<1>3. UNCHANGED chunk /\ (UNCHANGED input \/ input' = [input EXCEPT ![p] = row])
  BY <1>1 DEF SaveInput
<1> HIDE DEF row
<1> QED
  BY <1>1, <1>2, <1>3, SilentStep, RowStep DEF PipelineInv

LEMMA AddStep ==
  ASSUME PipelineInv, NEW p \in Parent, Add(p)
  PROVE  Abstract
<1> DEFINE row == [input[p] EXCEPT !.status = "pending"]
<1>1. row.status # "completed"
  BY DEF PipelineInv, TypeInv, RowsOK, Row
<1>2. input' = [input EXCEPT ![p] = row] /\ UNCHANGED chunk
  BY DEF Add
<1> HIDE DEF row
<1> QED
  BY <1>1, <1>2, RowStep DEF PipelineInv

LEMMA NextStep == PipelineInv /\ [Next]_vars => Abstract
<1> SUFFICES ASSUME PipelineInv, [Next]_vars PROVE Abstract
  OBVIOUS
<1>1. CASE UNCHANGED vars
  BY <1>1, SilentStep DEF vars
<1>2. ASSUME NEW p \in Parent, CognifyAsync(p) \/ Feed(p) PROVE Abstract
  BY <1>2, SilentStep DEF CognifyAsync, Feed
<1>3. ASSUME NEW r \in Caller, NEW p \in Parent, CognifyWait(r, p) PROVE Abstract
  BY <1>3, SilentStep DEF CognifyWait
<1>4. ASSUME NEW w \in Worker, Take(w) \/ Exit(w) PROVE Abstract
  BY <1>4, SilentStep DEF Take, Exit
<1>5. CASE Close
  BY <1>5, SilentStep DEF Close
<1>6. ASSUME NEW r \in Runner, Chain(r) \/ LoadInput(r) \/ CountChildren(r) PROVE Abstract
  BY <1>6, SilentStep DEF Chain, LoadInput, CountChildren
<1>7. ASSUME NEW r \in Runner, Execute(r) PROVE Abstract
  BY <1>6, <1>7, SplitSteps, ChunkSteps, SaveStep DEF Execute
<1>8. ASSUME NEW p \in Parent, Add(p) PROVE Abstract
  BY <1>8, AddStep
<1> QED
  BY <1>1, <1>2, <1>3, <1>4, <1>5, <1>7, <1>8 DEF Next

LEMMA InitStep == Init => Contract!ContractInit
BY DEF Init, Contract!ContractInit, Contract!Parts, Chunk, NewRow

\* The pipeline keeps what IngestContract promises about the rows: a chunk only
\* moves along the status diagram of docs/system_overview.md, and an input is
\* announced only when all its chunks are completed.
THEOREM Refinement == Spec => ImplementsContract
<1>1. Abstract => [Contract!ContractNext]_(Contract!contractVars)
  BY DEF Abstract, Announcements, Contract!contractVars
<1> QED
  BY <1>1, InitStep, NextStep, AlwaysInv, PTL
     DEF Spec, ImplementsContract, Contract!ContractSpec

-----------------------------------------------------------------------------
(* A caller that waits for Cognify.                                        *)

\* The first child of the inline loop not known to be completed.
Reached(f) == IF f.pc \in {"load", "count", "save"} THEN f.next ELSE f.next - 1

\* The children behind the inline loop are completed, and after the loop all are;
\* only a call that has ended has a result.
Settled(f, status) ==
  /\ f.pc # "chain"
  /\ f.nested /\ f.pc # "failInput" =>
       \A c \in ChunksOf(f.input) : c[2] < Reached(f) => status[c] = "completed"
  /\ ~f.nested =>
       \/ f.pc \in {"idle", "split", "publish"}
       \/ f.pc \in {"count", "save"} /\ \A c \in ChunksOf(f.input) : status[c] = "completed"
  /\ f.pc # "idle" => f.ret = "none"

WaitOK == \A r \in Caller : Settled(run[r], chunk)

\* What a step of a caller has to keep.
WaitStep(r) ==
  /\ Settled(run'[r], chunk')
  /\ run'[r].ret = "ok" => \A c \in ChunksOf(run[r].input) : chunk'[c] = "completed"

LEMMA CompletedStays ==
  ASSUME PipelineInv, [Next]_vars, NEW c \in Chunk, chunk[c] = "completed"
  PROVE  chunk'[c] = "completed"
<1>1. Abstract
  BY NextStep
<1>2. CASE UNCHANGED chunk
  BY <1>2
<1>3. ASSUME NEW e \in Contract!Parts,
             \/ Contract!Register(e) \/ Contract!Begin(e) \/ Contract!Draft(e)
             \/ Contract!Complete(e) \/ Contract!GiveUp(e)
      PROVE  chunk'[c] = "completed"
  BY <1>3 DEF Contract!Move, Contract!Register, Contract!Begin, Contract!Draft,
     Contract!Complete, Contract!GiveUp, PipelineInv, TypeInv, RowsOK
<1>4. ASSUME NEW p \in Parent, Contract!Announce(p) \/ Contract!Withdraw(p)
      PROVE  UNCHANGED chunk
  BY <1>4 DEF Contract!Announce, Contract!Withdraw
<1> QED
  BY <1>1, <1>2, <1>3, <1>4 DEF Abstract, Contract!ContractNext

LEMMA SettledStays ==
  ASSUME RunsOK, NEW r \in Runner, Settled(run[r], chunk), run'[r] = run[r],
         \A c \in Chunk : chunk[c] = "completed" => chunk'[c] = "completed"
  PROVE  Settled(run'[r], chunk')
<1>1. FrameOK(run[r])
  BY DEF RunsOK
<1>2. run[r].pc \in {"idle", "exited"} => ~run[r].nested
  BY <1>1, ChunkOf, ConstantsAssumption DEF FrameOK, RunsOK, Frame, ChunksOf
<1>3. run[r].pc \notin {"idle", "exited"} => \A c \in ChunksOf(run[r].input) : c \in Chunk
  BY <1>1, ChunkIn DEF FrameOK
<1> QED
  BY <1>2, <1>3 DEF Settled

LEMMA ReturnSettles ==
  ASSUME RunsOK, NEW r \in Runner, NEW result, Return(r, result)
  PROVE  Settled(run'[r], chunk') /\ (run'[r].ret = "ok" => result = "ok")
<1> DEFINE f == IdleFrame(IF r \in Caller THEN result ELSE "none")
<1>1. run'[r] = f
  BY DEF Return, RunsOK
<1>2. f.pc = "idle" /\ f.nested = FALSE /\ (f.ret = "ok" => result = "ok")
  BY DEF IdleFrame
<1> HIDE DEF f
<1> QED
  BY <1>1, <1>2 DEF Settled

\* The loop goes on when the children before child i are completed.
LEMMA InlineSettles ==
  ASSUME RunsOK, NEW r \in Runner, NEW p \in Parent, NEW i \in Nat \ {0}, Inline(r, p, i),
         \A c \in ChunksOf(p) : c[2] < i => chunk'[c] = "completed"
  PROVE  Settled(run'[r], chunk') /\ run'[r].ret = "none"
<1>1. CASE i <= ChunkCount[p]
  <2> DEFINE f == FrameAt("mark", p, <<p, i>>, TRUE, i + 1, FALSE)
  <2>1. run' = [run EXCEPT ![r] = f]
    BY <1>1 DEF Inline
  <2>2. f.pc = "mark" /\ f.input = p /\ f.nested = TRUE /\ f.next = i + 1 /\ f.ret = "none"
    BY DEF FrameAt
  <2> HIDE DEF f
  <2>3. run'[r] = f /\ Reached(f) = i
    BY <2>1, <2>2 DEF RunsOK, Reached
  <2> QED
    BY <2>2, <2>3 DEF Settled
<1>2. CASE ~(i <= ChunkCount[p])
  <2> DEFINE f == FrameAt("count", p, None, FALSE, 1, TRUE)
  <2>1. run' = [run EXCEPT ![r] = f]
    BY <1>2 DEF Inline
  <2>2. f.pc = "count" /\ f.input = p /\ f.nested = FALSE /\ f.ret = "none"
    BY DEF FrameAt
  <2> HIDE DEF f
  <2>3. run'[r] = f
    BY <2>1 DEF RunsOK
  <2>4. \A c \in ChunksOf(p) : c[2] < i
    BY <1>2, ConstantsAssumption DEF ChunksOf
  <2> QED
    BY <2>2, <2>3, <2>4 DEF Settled
<1> QED
  BY <1>1, <1>2

LEMMA SyncedSettles ==
  ASSUME PipelineInv, NEW r \in Caller, Settled(run[r], chunk),
         run[r].pc \in {"load", "count", "save"}, Synced(r), UNCHANGED chunk
  PROVE  WaitStep(r)
<1>1. PICK p \in Parent : p = run[r].input
  BY DEF PipelineInv, TypeInv, RunsOK, FrameOK, Runner
<1>2. PICK i \in Nat \ {0} : i = run[r].next
  BY DEF PipelineInv, TypeInv, RunsOK, Frame, Runner
<1>3. r \in Runner /\ RunsOK
  BY DEF PipelineInv, TypeInv, Runner
<1>4. CASE run[r].nested
  <2>1. \A c \in ChunksOf(p) : c[2] < i => chunk'[c] = "completed"
    BY <1>1, <1>2, <1>4 DEF Settled, Reached
  <2>2. Inline(r, p, i)
    BY <1>1, <1>2, <1>4 DEF Synced
  <2> QED
    BY <1>3, <2>1, <2>2, InlineSettles DEF WaitStep
<1>5. CASE ~run[r].nested
  <2>1. \A c \in ChunksOf(run[r].input) : chunk'[c] = "completed"
    BY <1>5 DEF Settled
  <2>2. Return(r, "ok")
    BY <1>5 DEF Synced
  <2> QED
    BY <1>3, <2>1, <2>2, ReturnSettles DEF WaitStep
<1> QED
  BY <1>4, <1>5

\* The loop stays where it is, or has just completed the child it was at.
LEMMA GotoSettles ==
  ASSUME PipelineInv, NEW r \in Caller, Settled(run[r], chunk), run[r].nested,
         run[r].pc \in {"mark", "extract", "memify", "load", "count"},
         NEW f, run' = [run EXCEPT ![r] = f], SameTask(f, run[r]), f.ret = run[r].ret,
         f.pc \notin {"chain", "idle"},
         \A c \in Chunk : chunk[c] = "completed" => chunk'[c] = "completed",
         \/ f.pc = "failInput"
         \/ Reached(f) = Reached(run[r])
         \/ Reached(f) = run[r].next /\ chunk'[run[r].chunk] = "completed"
  PROVE  WaitStep(r)
<1>1. r \in Runner /\ run'[r] = f
  BY DEF PipelineInv, TypeInv, RunsOK, Runner
<1>2. PICK p \in Parent : p = run[r].input
  BY DEF PipelineInv, TypeInv, RunsOK, FrameOK, Runner
<1>3. run[r].chunk = <<p, run[r].next - 1>> /\ run[r].next \in Nat
  BY <1>1, <1>2 DEF PipelineInv, TypeInv, RunsOK, Frame, FlowOK, NestedOK
<1>4. ASSUME NEW c \in ChunksOf(p), c[2] < Reached(run[r]) PROVE chunk'[c] = "completed"
  BY <1>2, <1>4, ChunkIn DEF Settled
<1>5. ASSUME NEW c \in ChunksOf(p), f.pc # "failInput", c[2] < Reached(f)
      PROVE  chunk'[c] = "completed"
  <2>1. CASE Reached(f) = Reached(run[r])
    BY <1>4, <1>5, <2>1
  <2>2. CASE Reached(f) = run[r].next /\ chunk'[run[r].chunk] = "completed"
    <3>1. c = <<p, c[2]>> /\ c[2] \in Int
      BY ConstantsAssumption DEF ChunksOf
    <3>2. CASE c[2] = run[r].next - 1
      BY <1>3, <2>2, <3>1, <3>2
    <3>3. CASE c[2] # run[r].next - 1
      <4>1. c[2] < run[r].next - 1
        BY <1>3, <1>5, <2>2, <3>1, <3>3
      <4>2. c[2] < Reached(run[r])
        BY <1>3, <3>1, <4>1 DEF Reached
      <4> QED
        BY <1>4, <4>2
    <3> QED
      BY <3>2, <3>3
  <2> QED
    BY <1>5, <2>1, <2>2
<1>6. run[r].ret = "none"
  BY DEF Settled
<1> QED
  BY <1>1, <1>2, <1>5, <1>6 DEF WaitStep, Settled, SameTask

LEMMA AbortSettles ==
  ASSUME PipelineInv, NEW r \in Caller, Settled(run[r], chunk), run[r].nested,
         run[r].pc \in {"extract", "memify"}, NEW n, FailChunk(r, n),
         \A c \in Chunk : chunk[c] = "completed" => chunk'[c] = "completed"
  PROVE  WaitStep(r)
<1> DEFINE f == [run[r] EXCEPT !.pc = "failInput"]
<1>1. run' = [run EXCEPT ![r] = f]
  BY DEF FailChunk, Aborted, Goto
<1>2. f.pc = "failInput" /\ f.ret = run[r].ret /\ SameTask(f, run[r])
  BY DEF PipelineInv, TypeInv, RunsOK, Frame, SameTask, Runner
<1> HIDE DEF f
<1> QED
  BY <1>1, <1>2, GotoSettles

LEMMA CallerChunkStep ==
  ASSUME PipelineInv, NEW r \in Caller, Settled(run[r], chunk),
         Mark(r) \/ Extract(r) \/ Memify(r),
         \A c \in Chunk : chunk[c] = "completed" => chunk'[c] = "completed"
  PROVE  WaitStep(r)
<1>1. /\ run[r] \in Frame /\ run[r].nested
      /\ run[r].pc \in {"mark", "extract", "memify"}
      /\ run[r].chunk \in Chunk
  BY DEF Settled, Mark, Extract, Memify, PipelineInv, TypeInv, RunsOK, FrameOK, Frame, Runner
<1>2. CASE Mark(r)
  <2> DEFINE f == [run[r] EXCEPT !.pc = "extract"]
  <2>1. run' = [run EXCEPT ![r] = f] /\ run[r].pc = "mark"
    BY <1>2 DEF Mark, Goto
  <2>2. f.pc = "extract" /\ f.next = run[r].next /\ f.ret = run[r].ret /\ SameTask(f, run[r])
    BY <1>1 DEF Frame, SameTask
  <2> HIDE DEF f
  <2>3. Reached(f) = Reached(run[r])
    BY <2>1, <2>2 DEF Reached
  <2> QED
    BY <1>1, <2>1, <2>2, <2>3, GotoSettles
<1>3. CASE Extract(r) /\ ~FailChunk(r, 1)
  <2> DEFINE f == [run[r] EXCEPT !.pc = "memify"]
  <2>1. run' = [run EXCEPT ![r] = f] /\ run[r].pc = "extract"
    BY <1>3 DEF Extract, Goto
  <2>2. f.pc = "memify" /\ f.next = run[r].next /\ f.ret = run[r].ret /\ SameTask(f, run[r])
    BY <1>1 DEF Frame, SameTask
  <2> HIDE DEF f
  <2>3. Reached(f) = Reached(run[r])
    BY <2>1, <2>2 DEF Reached
  <2> QED
    BY <1>1, <2>1, <2>2, <2>3, GotoSettles
<1>4. CASE Memify(r) /\ ~FailChunk(r, 2)
  <2> DEFINE f == [run[r] EXCEPT !.pc = "load"]
  <2>1. /\ run' = [run EXCEPT ![r] = f]
        /\ chunk' = [chunk EXCEPT ![run[r].chunk] = "completed"]
    BY <1>4 DEF Memify, Goto
  <2>2. f.pc = "load" /\ f.next = run[r].next /\ f.ret = run[r].ret /\ SameTask(f, run[r])
    BY <1>1 DEF Frame, SameTask
  <2> HIDE DEF f
  <2>3. Reached(f) = run[r].next /\ chunk'[run[r].chunk] = "completed"
    BY <1>1, <2>1, <2>2 DEF Reached, PipelineInv, TypeInv, RowsOK
  <2> QED
    BY <1>1, <2>1, <2>2, <2>3, GotoSettles
<1>5. CASE run[r].pc \in {"extract", "memify"} /\ \E n \in {1, 2} : FailChunk(r, n)
  BY <1>1, <1>5, AbortSettles
<1> QED
  BY <1>2, <1>3, <1>4, <1>5 DEF Extract, Memify

LEMMA CallerSyncStep ==
  ASSUME PipelineInv, NEW r \in Caller, Settled(run[r], chunk),
         LoadInput(r) \/ CountChildren(r) \/ SaveInput(r)
  PROVE  WaitStep(r)
<1>1. run[r] \in Frame /\ UNCHANGED chunk
  BY DEF LoadInput, CountChildren, SaveInput, PipelineInv, TypeInv, RunsOK, Runner
<1>2. run[r].pc \in {"load", "count", "save"}
  BY DEF LoadInput, CountChildren, SaveInput
<1>3. CASE Synced(r)
  BY <1>1, <1>2, <1>3, SyncedSettles
<1>4. CASE LoadInput(r) /\ ~Synced(r)
  <2> DEFINE f == [run[r] EXCEPT !.copy = input[run[r].input].split, !.pc = "count"]
  <2>1. run' = [run EXCEPT ![r] = f] /\ run[r].pc = "load" /\ run[r].nested
    BY <1>4 DEF LoadInput, Settled
  <2>2. f.pc = "count" /\ f.next = run[r].next /\ f.ret = run[r].ret /\ SameTask(f, run[r])
    BY <1>1 DEF Frame, SameTask
  <2> HIDE DEF f
  <2>3. Reached(f) = Reached(run[r])
    BY <2>1, <2>2 DEF Reached
  <2> QED
    BY <1>1, <2>1, <2>2, <2>3, GotoSettles
<1>5. CASE CountChildren(r) /\ ~Synced(r)
  <2> DEFINE p == run[r].input
             n == Cardinality(Completed(p))
             b == Present(p) # {} /\ Present(p) = Completed(p)
             f == [run[r] EXCEPT !.tally = n, !.all = b, !.pc = "save"]
  <2> HIDE DEF n, b
  <2>2. run' = [run EXCEPT ![r] = f] /\ run[r].pc = "count"
    BY <1>5 DEF CountChildren, n, b
  <2>3. f.pc = "save" /\ f.next = run[r].next /\ f.ret = run[r].ret /\ SameTask(f, run[r])
    BY <1>1 DEF Frame, SameTask
  <2> HIDE DEF f
  <2>4. Reached(f) = Reached(run[r])
    BY <2>2, <2>3 DEF Reached
  <2>5. CASE run[r].nested
    BY <1>1, <2>2, <2>3, <2>4, <2>5, GotoSettles
  <2>6. CASE ~run[r].nested
    <3>1. run'[r] = f
      BY <2>2 DEF PipelineInv, TypeInv, RunsOK, Runner
    <3>2. run[r].ret = "none" /\ \A c \in ChunksOf(run[r].input) : chunk[c] = "completed"
      BY <2>2, <2>6 DEF Settled
    <3> QED
      BY <1>1, <2>3, <2>6, <3>1, <3>2 DEF WaitStep, Settled, SameTask
  <2> QED
    BY <2>5, <2>6
<1>6. SaveInput(r) => Synced(r)
  BY DEF SaveInput
<1> QED
  BY <1>3, <1>4, <1>5, <1>6

LEMMA CallerSplitStep ==
  ASSUME PipelineInv, NEW r \in Caller, Settled(run[r], chunk),
         CreateChild(r) \/ Publish(r) \/ FailNested(r)
  PROVE  WaitStep(r)
<1>1. /\ r \in Runner /\ RunsOK /\ run[r] \in Frame /\ FrameOK(run[r])
      /\ run[r].pc \in {"split", "publish", "failInput"}
  BY DEF CreateChild, Publish, FailNested, PipelineInv, TypeInv, RunsOK, Runner
<1>2. run[r].ret = "none"
  BY <1>1 DEF Settled
<1>3. PICK p \in Parent : p = run[r].input
  BY <1>1 DEF FrameOK
<1>4. CASE Return(r, "err")
  BY <1>1, <1>4, ReturnSettles DEF WaitStep
<1>5. CASE \E f : /\ run' = [run EXCEPT ![r] = f] /\ f.pc \in {"split", "publish"}
                  /\ f.nested = run[r].nested /\ f.ret = run[r].ret
                  /\ run[r].pc = "split"
  <2>1. PICK f : /\ run' = [run EXCEPT ![r] = f] /\ f.pc \in {"split", "publish"}
                 /\ f.nested = run[r].nested /\ f.ret = run[r].ret
                 /\ run[r].pc = "split"
    BY <1>5
  <2>2. run'[r] = f /\ ~f.nested
    BY <1>1, <2>1 DEF RunsOK, FrameOK
  <2> QED
    BY <1>2, <2>1, <2>2 DEF WaitStep, Settled
<1>6. CASE CreateChild(r) /\ ~Return(r, "err")
  <2> DEFINE f == [run[r] EXCEPT !.next = run[r].next + 1]
             g == [run[r] EXCEPT !.pc = "publish"]
  <2>1. run[r].pc = "split" /\ (run' = [run EXCEPT ![r] = f] \/ run' = [run EXCEPT ![r] = g])
    BY <1>6 DEF CreateChild, FailInput, Goto
  <2>2. /\ f.pc = "split" /\ f.nested = run[r].nested /\ f.ret = run[r].ret
        /\ g.pc = "publish" /\ g.nested = run[r].nested /\ g.ret = run[r].ret
    BY <1>1, <2>1 DEF Frame
  <2> HIDE DEF f, g
  <2> QED
    BY <1>5, <2>1, <2>2
<1>7. CASE Publish(r) /\ ~Return(r, "err")
  <2>1. CASE ChunkCount[p] > 0
    <3>1. Inline(r, p, 1)
      BY <1>3, <1>7, <2>1 DEF Publish, FailInput
    <3>2. \A c \in ChunksOf(p) : ~(c[2] < 1)
      BY ConstantsAssumption DEF ChunksOf
    <3> QED
      BY <1>1, <3>1, <3>2, InlineSettles DEF WaitStep
  <2>2. CASE ~(ChunkCount[p] > 0)
    <3>1. Return(r, "ok")
      BY <1>3, <1>7, <2>2 DEF Publish, FailInput
    <3>2. ChunksOf(p) = {}
      BY <2>2, ConstantsAssumption DEF ChunksOf
    <3> QED
      BY <1>1, <1>3, <3>1, <3>2, ReturnSettles DEF WaitStep
  <2> QED
    BY <2>1, <2>2
<1>8. FailNested(r) => Return(r, "err")
  BY DEF FailNested
<1> QED
  BY <1>4, <1>6, <1>7, <1>8

\* A step of one goroutine leaves the frames of the others alone.
LEMMA OthersKeep ==
  ASSUME RunsOK, NEW q \in Runner, Execute(q) \/ Take(q) \/ Exit(q)
  PROVE  \A r \in Runner : r # q => run'[r] = run[r]
<1>1. ASSUME NEW result, Return(q, result) PROVE \A r \in Runner : r # q => run'[r] = run[r]
  BY <1>1 DEF Return, RunsOK
<1>2. ASSUME NEW label, Goto(q, label) PROVE \A r \in Runner : r # q => run'[r] = run[r]
  BY <1>2 DEF Goto, RunsOK
<1>3. ASSUME NEW p, NEW i, Inline(q, p, i) PROVE \A r \in Runner : r # q => run'[r] = run[r]
  BY <1>3 DEF Inline, RunsOK
<1>4. Synced(q) => \A r \in Runner : r # q => run'[r] = run[r]
  BY <1>1, <1>3 DEF Synced
<1>5. ASSUME NEW n, FailChunk(q, n) PROVE \A r \in Runner : r # q => run'[r] = run[r]
  BY <1>1, <1>2, <1>5 DEF FailChunk, Aborted
<1>6. CASE Take(q)
  BY <1>6 DEF Take, Enter, RunsOK
<1>7. CASE Exit(q) \/ Mark(q)
  BY <1>2, <1>7 DEF Exit, Mark
<1>8. CASE Extract(q) \/ Memify(q)
  BY <1>2, <1>5, <1>8 DEF Extract, Memify
<1>9. CASE Chain(q) \/ FailNested(q)
  BY <1>1, <1>9 DEF Chain, FailNested
<1>10. CASE Publish(q)
  BY <1>1, <1>3, <1>10 DEF Publish, FailInput
<1>11. CASE CreateChild(q)
  <2>1. CASE run' = [run EXCEPT ![q].next = run[q].next + 1]
    BY <2>1 DEF RunsOK
  <2> QED
    BY <1>1, <1>2, <1>11, <2>1 DEF CreateChild, FailInput
<1>12. CASE SaveInput(q)
  BY <1>4, <1>12 DEF SaveInput
<1>13. CASE LoadInput(q)
  BY <1>4, <1>13 DEF LoadInput, RunsOK
<1>14. CASE CountChildren(q)
  BY <1>4, <1>14 DEF CountChildren, RunsOK
<1> QED
  BY <1>6, <1>7, <1>8, <1>9, <1>10, <1>11, <1>12, <1>13, <1>14 DEF Execute

LEMMA InitWait == Init => WaitOK
<1>1. NewFrame.pc = "idle" /\ NewFrame.nested = FALSE
  BY DEF NewFrame, IdleFrame
<1>2. Settled(NewFrame, chunk)
  BY <1>1 DEF Settled
<1> QED
  BY <1>2 DEF Init, WaitOK, Runner

LEMMA EveryWaitStep ==
  ASSUME PipelineInv, WaitOK, [Next]_vars, NEW r \in Caller
  PROVE  Settled(run'[r], chunk') /\ (run[r].input \in Parent => WaitStep(r))
<1>1. r \in Runner /\ RunsOK /\ Settled(run[r], chunk)
  BY DEF PipelineInv, TypeInv, WaitOK, Runner
<1>2. \A c \in Chunk : chunk[c] = "completed" => chunk'[c] = "completed"
  BY CompletedStays
<1>3. CASE run'[r] = run[r]
  <2>1. Settled(run'[r], chunk')
    BY <1>1, <1>2, <1>3, SettledStays
  <2>2. run[r].input \in Parent => run[r].ret = "none"
    BY <1>1, ConstantsAssumption DEF RunsOK, FrameOK, Settled
  <2> QED
    BY <1>3, <2>1, <2>2 DEF WaitStep
<1>4. CASE Execute(r)
  <2>1. ~Chain(r)
    BY <1>1 DEF Chain, Settled
  <2>2. WaitStep(r)
    BY <1>1, <1>2, <1>4, <2>1, CallerSplitStep, CallerChunkStep, CallerSyncStep DEF Execute
  <2> QED
    BY <2>2 DEF WaitStep
<1>5. ASSUME NEW p \in Parent, CognifyWait(r, p) PROVE Settled(run'[r], chunk') /\ run[r].input = None
  <2> DEFINE f == FrameAt("split", p, None, FALSE, 1, FALSE)
  <2>1. run' = [run EXCEPT ![r] = f] /\ run[r].pc = "idle"
    BY <1>5 DEF CognifyWait, Enter
  <2>2. f.pc = "split" /\ f.nested = FALSE /\ f.ret = "none"
    BY DEF FrameAt
  <2> HIDE DEF f
  <2>3. run'[r] = f /\ run[r].input = None
    BY <1>1, <2>1 DEF RunsOK, FrameOK
  <2> QED
    BY <2>2, <2>3 DEF Settled
<1>6. ASSUME NEW q \in Runner, q # r, Execute(q) \/ Take(q) \/ Exit(q) PROVE run'[r] = run[r]
  BY <1>1, <1>6, OthersKeep
<1>7. ASSUME NEW q \in Caller, NEW p \in Parent, q # r, CognifyWait(q, p) PROVE run'[r] = run[r]
  BY <1>1, <1>7 DEF CognifyWait, Enter, RunsOK
<1>8. \A w \in Worker : w # r /\ w \in Runner
  BY ConstantsAssumption DEF Runner
<1>9. CASE (\E p \in Parent : Add(p) \/ CognifyAsync(p) \/ Feed(p)) \/ Close \/ UNCHANGED vars
  BY <1>3, <1>9 DEF Add, CognifyAsync, Feed, Close, vars
<1> QED
  BY <1>3, <1>4, <1>5, <1>6, <1>7, <1>8, <1>9, ConstantsAssumption DEF Next

LEMMA StepWait == PipelineInv /\ WaitOK /\ [Next]_vars => WaitOK'
BY EveryWaitStep DEF WaitOK

LEMMA WaitResult ==
  ASSUME PipelineInv, WaitOK, [Next]_vars, NEW r \in Caller, NEW p \in Parent,
         run[r].input = p, run'[r].ret = "ok"
  PROVE  Finished(p)' \/ ChunksOf(p) = {}
<1>1. \A c \in ChunksOf(p) : chunk'[c] = "completed"
  BY EveryWaitStep DEF WaitStep
<1> QED
  BY <1>1 DEF Finished, Completed, ChunksOf

\* Cognify with WithWaitCognify(true) returns without an error only when every
\* chunk of the input is completed, whatever fails on the way (interface.go,
\* WithWaitCognify; task_cognify.go, the loop over the children).
THEOREM WaitedFor == Spec => WaitMeansDone
<1>1. PipelineInv /\ WaitOK /\ [Next]_vars =>
        [\A r \in Caller, p \in Parent :
           run[r].input = p /\ run'[r].ret = "ok" => Finished(p)' \/ ChunksOf(p) = {}]_vars
  BY WaitResult
<1> QED
  BY <1>1, InitWait, StepWait, AlwaysInv, PTL DEF Spec, WaitMeansDone

-----------------------------------------------------------------------------
(* Nothing is lost on the way.                                             *)

\* The input is still to be split, or being split.
Splitting(p) ==
  \/ \E i \in 1..Len(queue) : queue[i].input = p /\ queue[i].chunk = None
  \/ \E r \in Runner : run[r].input = p /\ Splits(run[r])

Held(c) ==
  \/ \E i \in 1..Len(queue) : queue[i].chunk = c
  \/ \E r \in Runner : FrameWorks(run[r], c)
  \/ ToFeed(c)

\* chunks_created is written when the split is over, whoever writes it.
SplitIsOver == \A p \in Parent : input[p].split => p \in handed /\ ~Splitting(p)

\* A chunk of an input handed over is still to come, done or somebody's work.
Minded(c) ==
  c[1] \in handed => Splitting(c[1]) \/ chunk[c] = "completed" \/ Held(c)

\* The inline loop runs on the goroutine of a waiting caller.
InlineIsCallers == \A r \in Runner : run[r].nested => r \in Caller

LossInv == InlineIsCallers /\ SplitIsOver /\ (faults = 0 => \A c \in Chunk : Minded(c))

LEMMA WorkerStaysOut ==
  ASSUME RunsOK, NEW w \in Worker, ~run[w].nested, Execute(w) \/ Take(w) \/ Exit(w)
  PROVE  ~run'[w].nested
<1>1. w \in Runner /\ w \notin Caller /\ run[w] \in Frame
  BY ConstantsAssumption DEF Runner, RunsOK
<1>2. ASSUME NEW result, Return(w, result) PROVE ~run'[w].nested
  BY <1>1, <1>2 DEF Return, IdleFrame, RunsOK
<1>3. ASSUME NEW label, Goto(w, label) PROVE ~run'[w].nested
  BY <1>1, <1>3 DEF Goto, RunsOK, Frame
<1>4. Synced(w) => ~run'[w].nested
  BY <1>2 DEF Synced
<1>5. ASSUME NEW n, FailChunk(w, n) PROVE ~run'[w].nested
  BY <1>2, <1>5 DEF FailChunk, Aborted
<1>6. CASE Take(w)
  BY <1>1, <1>6 DEF Take, Enter, FrameAt, RunsOK
<1>7. CASE Exit(w) \/ Mark(w)
  BY <1>3, <1>7 DEF Exit, Mark
<1>8. CASE Extract(w) \/ Memify(w)
  BY <1>3, <1>5, <1>8 DEF Extract, Memify
<1>9. CASE Chain(w) \/ FailNested(w)
  BY <1>2, <1>9 DEF Chain, FailNested
<1>10. CASE Publish(w)
  BY <1>1, <1>2, <1>10 DEF Publish, FailInput
<1>11. CASE CreateChild(w)
  <2>1. CASE run' = [run EXCEPT ![w].next = run[w].next + 1]
    BY <1>1, <2>1 DEF RunsOK, Frame
  <2> QED
    BY <1>2, <1>3, <1>11, <2>1 DEF CreateChild, FailInput
<1>12. CASE SaveInput(w)
  BY <1>4, <1>12 DEF SaveInput
<1>13. CASE LoadInput(w)
  BY <1>1, <1>4, <1>13 DEF LoadInput, RunsOK, Frame
<1>14. CASE CountChildren(w)
  <2>1. ASSUME NEW n, NEW b,
               run' = [run EXCEPT ![w].tally = n, ![w].all = b, ![w].pc = "save"]
        PROVE  ~run'[w].nested
    BY <1>1, <2>1 DEF RunsOK, Frame
  <2>2. \/ Synced(w)
        \/ \E n, b : run' = [run EXCEPT ![w].tally = n, ![w].all = b, ![w].pc = "save"]
    BY <1>14 DEF CountChildren
  <2> QED
    BY <1>4, <2>1, <2>2
<1> QED
  BY <1>6, <1>7, <1>8, <1>9, <1>10, <1>11, <1>12, <1>13, <1>14 DEF Execute

LEMMA StepInline ==
  ASSUME RunsOK, InlineIsCallers, [Next]_vars
  PROVE  InlineIsCallers'
<1> SUFFICES ASSUME NEW w \in Worker PROVE ~run'[w].nested
  BY DEF InlineIsCallers, Runner
<1>1. w \in Runner /\ w \notin Caller /\ ~run[w].nested
  BY ConstantsAssumption DEF InlineIsCallers, Runner
<1>2. ASSUME NEW q \in Runner, Execute(q) \/ Take(q) \/ Exit(q) PROVE ~run'[w].nested
  BY <1>1, <1>2, OthersKeep, WorkerStaysOut
<1>3. ASSUME NEW q \in Caller, NEW p \in Parent, CognifyWait(q, p) PROVE ~run'[w].nested
  BY <1>1, <1>3 DEF CognifyWait, Enter, RunsOK
<1>4. CASE (\E p \in Parent : Add(p) \/ CognifyAsync(p) \/ Feed(p)) \/ Close \/ UNCHANGED vars
  BY <1>1, <1>4 DEF Add, CognifyAsync, Feed, Close, vars
<1> QED
  BY <1>2, <1>3, <1>4 DEF Next, Runner

\* One frame changes, and goes on with what it was at.
LEMMA FrameMinds ==
  ASSUME RunsOK, NEW c \in Chunk, Minded(c), NEW r \in Runner,
         NEW g, run' = [run EXCEPT ![r] = g],
         UNCHANGED <<handed, queue, feeder>>,
         chunk[c] = "completed" => chunk'[c] = "completed",
         Splits(run[r]) => Splits(g) /\ g.input = run[r].input,
         FrameWorks(run[r], c) => FrameWorks(g, c) \/ chunk'[c] = "completed"
  PROVE  Minded(c)'
<1>1. run'[r] = g /\ \A q \in Runner : q # r => run'[q] = run[q]
  BY RunAt
<1>2. Splitting(c[1]) => Splitting(c[1])'
  BY <1>1 DEF Splitting, Splits
<1>3. Held(c) => Held(c)' \/ chunk'[c] = "completed"
  BY <1>1 DEF Held, ToFeed
<1> QED
  BY <1>2, <1>3 DEF Minded

\* A finished sync of an inline chunk goes on to the next child.
LEMMA InlineMinds ==
  ASSUME RunsOK, NEW c \in Chunk, Minded(c), NEW r \in Runner,
         run[r].pc \in {"load", "count", "save"}, Synced(r),
         UNCHANGED <<handed, queue, feeder, chunk>>
  PROVE  Minded(c)'
<1>1. run[r] \in Frame /\ FrameOK(run[r]) /\ ~Splits(run[r]) /\ run[r].input \in Parent
  BY DEF RunsOK, FrameOK, Splits
<1>2. c[1] \in Parent /\ c[2] \in 1..ChunkCount[c[1]] /\ c = <<c[1], c[2]>>
  BY ChunkOf
<1>3. FrameWorks(run[r], c) => run[r].nested /\ run[r].input = c[1] /\ run[r].next <= c[2]
  BY DEF FrameWorks, FrameHolds, FrameAhead
<1>4. CASE FrameWorks(run[r], c)
  <2> DEFINE i == run[r].next
             g == FrameAt("mark", run[r].input, <<run[r].input, i>>, TRUE, i + 1, FALSE)
  <2>1. i \in Nat /\ i <= ChunkCount[run[r].input] /\ Inline(r, run[r].input, i)
    BY <1>1, <1>2, <1>3, <1>4, ConstantsAssumption DEF Frame, Synced
  <2>2. run' = [run EXCEPT ![r] = g]
    BY <2>1 DEF Inline
  <2>3. /\ g.pc = "mark" /\ g.nested = TRUE /\ g.input = c[1]
        /\ g.chunk = <<c[1], i>> /\ g.next = i + 1
    BY <1>3, <1>4 DEF FrameAt
  <2> HIDE DEF g
  <2>4. FrameWorks(g, c)
    <3>1. CASE c[2] = i
      BY <1>2, <2>3, <3>1 DEF FrameWorks, FrameHolds
    <3>2. CASE c[2] # i
      <4>1. i + 1 <= c[2]
        BY <1>2, <1>3, <1>4, <2>1, <3>2, ConstantsAssumption
      <4> QED
        BY <2>3, <4>1 DEF FrameWorks, FrameAhead
    <3> QED
      BY <3>1, <3>2
  <2> QED
    BY <1>1, <2>2, <2>4, FrameMinds
<1>5. CASE ~FrameWorks(run[r], c)
  <2>1. \E g : run' = [run EXCEPT ![r] = g]
    BY DEF Synced, Inline, Return
  <2> QED
    BY <1>1, <1>5, <2>1, FrameMinds
<1> QED
  BY <1>4, <1>5

\* A step of a chunk task that goes on to another label with its chunk, or
\* completes it.
LEMMA GotoMinds ==
  ASSUME RunsOK, NEW c \in Chunk, Minded(c), NEW r \in Runner,
         run[r].pc \in {"mark", "extract", "memify", "load", "count"},
         NEW f, run' = [run EXCEPT ![r] = f], SameTask(f, run[r]),
         UNCHANGED <<handed, queue, feeder>>,
         chunk[c] = "completed" => chunk'[c] = "completed",
         f.pc # "failInput",
         \/ f.pc \in {"extract", "chain", "memify"}
         \/ run[r].pc \in {"load", "count"}
         \/ run[r].chunk = c => chunk'[c] = "completed"
  PROVE  Minded(c)'
<1>1. ~Splits(run[r])
  BY DEF Splits
<1>2. FrameAhead(run[r], c) => FrameAhead(f, c)
  BY DEF FrameAhead, SameTask
<1>3. FrameHolds(run[r], c) => FrameHolds(f, c) \/ chunk'[c] = "completed"
  BY DEF FrameHolds, SameTask
<1> QED
  BY <1>1, <1>2, <1>3, FrameMinds DEF FrameWorks

\* The steps of a chunk task that a store failure does not cut short.
LEMMA ChunkMinds ==
  ASSUME PipelineInv, [Next]_vars, NEW c \in Chunk, Minded(c), NEW r \in Runner,
         Mark(r) \/ Extract(r) \/ Memify(r), faults' = 0
  PROVE  Minded(c)'
<1>1. /\ RunsOK /\ run[r] \in Frame /\ FrameOK(run[r])
      /\ UNCHANGED <<handed, queue, feeder>>
      /\ (chunk[c] = "completed" => chunk'[c] = "completed")
  BY CompletedStays DEF PipelineInv, TypeInv, RunsOK, Mark, Extract, Memify
<1>2. faults \in Nat
  BY DEF PipelineInv, TypeInv
<1>3. ASSUME NEW n \in {1, 2} PROVE ~FailChunk(r, n)
  BY <1>2, <1>3 DEF FailChunk, Fault
<1>4. ASSUME NEW label \in {"extract", "chain", "memify", "load"}, Goto(r, label),
             run[r].pc \in {"mark", "extract", "memify"},
             label = "load" => (run[r].chunk = c => chunk'[c] = "completed")
      PROVE  Minded(c)'
  <2> DEFINE f == [run[r] EXCEPT !.pc = label]
  <2>1. run' = [run EXCEPT ![r] = f]
    BY <1>4 DEF Goto
  <2>2. f.pc = label /\ SameTask(f, run[r])
    BY <1>1 DEF Frame, SameTask
  <2> HIDE DEF f
  <2> QED
    BY <1>1, <1>4, <2>1, <2>2, GotoMinds
<1>5. CASE Mark(r)
  BY <1>4, <1>5 DEF Mark
<1>6. CASE Extract(r)
  <2>1. run[r].pc = "extract" /\ (Goto(r, "memify") \/ Goto(r, "chain"))
    BY <1>3, <1>6 DEF Extract
  <2> QED
    BY <1>4, <2>1
<1>7. CASE Memify(r)
  <2>1. /\ run[r].pc = "memify" /\ Goto(r, "load")
        /\ chunk' = [chunk EXCEPT ![run[r].chunk] = "completed"]
    BY <1>3, <1>7 DEF Memify
  <2>2. run[r].chunk = c => chunk'[c] = "completed"
    BY <2>1 DEF PipelineInv, TypeInv, RowsOK
  <2> QED
    BY <1>4, <2>1, <2>2
<1> QED
  BY <1>5, <1>6, <1>7

LEMMA SyncMinds ==
  ASSUME PipelineInv, NEW c \in Chunk, Minded(c), NEW r \in Runner,
         LoadInput(r) \/ CountChildren(r) \/ SaveInput(r)
  PROVE  Minded(c)'
<1>1. /\ RunsOK /\ run[r] \in Frame
      /\ UNCHANGED <<handed, queue, feeder, chunk>>
      /\ run[r].pc \in {"load", "count", "save"}
  BY DEF PipelineInv, TypeInv, RunsOK, LoadInput, CountChildren, SaveInput
<1>2. CASE Synced(r)
  BY <1>1, <1>2, InlineMinds
<1>3. CASE LoadInput(r) /\ ~Synced(r)
  <2> DEFINE f == [run[r] EXCEPT !.copy = input[run[r].input].split, !.pc = "count"]
  <2>1. run' = [run EXCEPT ![r] = f] /\ run[r].pc = "load"
    BY <1>3 DEF LoadInput
  <2>2. f.pc = "count" /\ SameTask(f, run[r])
    BY <1>1 DEF Frame, SameTask
  <2> HIDE DEF f
  <2> QED
    BY <1>1, <2>1, <2>2, GotoMinds
<1>4. CASE CountChildren(r) /\ ~Synced(r)
  <2> DEFINE p == run[r].input
             n == Cardinality(Completed(p))
             b == Present(p) # {} /\ Present(p) = Completed(p)
             f == [run[r] EXCEPT !.tally = n, !.all = b, !.pc = "save"]
  <2> HIDE DEF n, b
  <2>1. run' = [run EXCEPT ![r] = f] /\ run[r].pc = "count"
    BY <1>4 DEF CountChildren, n, b
  <2>2. f.pc = "save" /\ SameTask(f, run[r])
    BY <1>1 DEF Frame, SameTask
  <2> HIDE DEF f
  <2> QED
    BY <1>1, <2>1, <2>2, GotoMinds
<1> QED
  BY <1>2, <1>3, <1>4 DEF SaveInput

\* While it is split, nothing else has to be said of an input; an input that fails
\* has left its children before.
LEMMA SplitMinds ==
  ASSUME PipelineInv, [Next]_vars, NEW c \in Chunk, Minded(c), NEW r \in Runner,
         CreateChild(r) \/ FailNested(r), faults' = 0
  PROVE  Minded(c)'
<1>1. /\ RunsOK /\ run[r] \in Frame
      /\ UNCHANGED <<handed, queue, feeder>>
      /\ (chunk[c] = "completed" => chunk'[c] = "completed")
  BY CompletedStays DEF PipelineInv, TypeInv, RunsOK, CreateChild, FailNested
<1>2. faults \in Nat
  BY DEF PipelineInv, TypeInv
<1>3. CASE CreateChild(r)
  <2> DEFINE f == [run[r] EXCEPT !.next = run[r].next + 1]
             g == [run[r] EXCEPT !.pc = "publish"]
  <2>1. ~FailInput(r, FALSE)
    BY <1>2 DEF FailInput, Fault
  <2>2. run[r].pc = "split" /\ (run' = [run EXCEPT ![r] = f] \/ run' = [run EXCEPT ![r] = g])
    BY <1>3, <2>1 DEF CreateChild, Goto
  <2>3. /\ f.pc = "split" /\ f.input = run[r].input
        /\ g.pc = "publish" /\ g.input = run[r].input
    BY <1>1, <2>2 DEF Frame
  <2> HIDE DEF f, g
  <2>4. ~FrameWorks(run[r], c)
    BY <1>1, <2>2, WorksOnInput DEF Splits
  <2> QED
    BY <1>1, <2>2, <2>3, <2>4, FrameMinds DEF Splits
<1>4. CASE FailNested(r)
  <2>1. run[r].pc = "failInput" /\ \E g : run' = [run EXCEPT ![r] = g]
    BY <1>4 DEF FailNested, Return
  <2> QED
    BY <1>1, <2>1, FrameMinds DEF Splits, FrameWorks, FrameHolds, FrameAhead
<1> QED
  BY <1>3, <1>4

\* The publisher hands out every child of the input.
LEMMA PublishMinds ==
  ASSUME PipelineInv, NEW c \in Chunk, Minded(c), NEW r \in Runner, Publish(r), faults' = 0
  PROVE  Minded(c)'
<1>1. /\ RunsOK /\ run[r] \in Frame /\ FrameOK(run[r]) /\ run[r].pc = "publish"
      /\ UNCHANGED <<handed, queue, chunk>> /\ faults \in Nat
      /\ feeder \in [Parent -> Nat]
  BY DEF PipelineInv, TypeInv, FeedersOK, RunsOK, Publish
<1>2. PICK p \in Parent : p = run[r].input
  BY <1>1 DEF FrameOK
<1>3. ~FailInput(r, TRUE)
  BY <1>1 DEF FailInput, Fault
<1>4. /\ c[1] \in Parent /\ c[2] \in 1..ChunkCount[c[1]] /\ c = <<c[1], c[2]>>
      /\ ChunkCount[c[1]] \in Nat
  BY ChunkOf, ConstantsAssumption
<1>5. ~FrameWorks(run[r], c)
  BY <1>1, WorksOnInput DEF Splits
<1>6. \E g : run' = [run EXCEPT ![r] = g]
  BY <1>3 DEF Publish, Inline, Return
<1>7. \A q \in Runner : q # r => run'[q] = run[q]
  BY <1>1, <1>6 DEF RunsOK
<1>8. \A q \in Parent : q # p => feeder'[q] = feeder[q]
  BY <1>1, <1>2, <1>3 DEF Publish
<1>12. c[1] = p => ChunkCount[p] > 0 /\ 1 <= ChunkCount[p]
  BY <1>4
<1>9. CASE c[1] # p
  <2>1. Splitting(c[1]) => Splitting(c[1])'
    BY <1>1, <1>2, <1>7, <1>9 DEF Splitting
  <2>2. Held(c) => Held(c)'
    BY <1>1, <1>4, <1>5, <1>7, <1>8, <1>9 DEF Held, ToFeed
  <2> QED
    BY <1>1, <2>1, <2>2 DEF Minded
<1>10. CASE c[1] = p /\ r \in Caller
  <2> DEFINE g == FrameAt("mark", p, <<p, 1>>, TRUE, 1 + 1, FALSE)
  <2>1. Inline(r, p, 1)
    BY <1>2, <1>3, <1>10, <1>12 DEF Publish
  <2>5. run' = [run EXCEPT ![r] = g]
    BY <1>10, <1>12, <2>1 DEF Inline
  <2>2. g.pc = "mark" /\ g.nested = TRUE /\ g.input = p /\ g.chunk = <<p, 1>> /\ g.next = 2
    BY DEF FrameAt
  <2> HIDE DEF g
  <2>3. FrameWorks(g, c)
    BY <1>4, <1>10, <2>2 DEF FrameWorks, FrameHolds, FrameAhead
  <2>4. run'[r] = g
    BY <1>1, <2>5, RunAt
  <2> QED
    BY <2>3, <2>4 DEF Minded, Held
<1>11. CASE c[1] = p /\ r \notin Caller
  <2>1. feeder'[p] = 1
    BY <1>1, <1>2, <1>3, <1>11, <1>12 DEF Publish
  <2> QED
    BY <1>4, <1>11, <2>1 DEF Minded, Held, ToFeed
<1> QED
  BY <1>9, <1>10, <1>11

\* What was in the queue is still in it, but for its head if that was taken.
LEMMA QueueMinds ==
  ASSUME NEW c \in Chunk, Minded(c), NEW d \in {0, 1},
         \A i \in 1..Len(queue) : i > d => i - d \in 1..Len(queue') /\ queue'[i - d] = queue[i],
         d = 1 => \A i \in 1..Len(queue) : i <= d =>
           /\ queue[i].chunk = c => Held(c)'
           /\ queue[i].input = c[1] /\ queue[i].chunk = None => Splitting(c[1])',
         \A r \in Runner : FrameWorks(run[r], c) => Held(c)',
         \A r \in Runner : run[r].input = c[1] /\ Splits(run[r]) => Splitting(c[1])',
         ToFeed(c) => Held(c)',
         chunk[c] = "completed" => chunk'[c] = "completed",
         c[1] \in handed' => c[1] \in handed
  PROVE  Minded(c)'
<1>1. \A i \in 1..Len(queue) : d = 0 => i > d
  OBVIOUS
<1>2. ASSUME Held(c) PROVE Held(c)'
  <2>1. ASSUME NEW i \in 1..Len(queue), queue[i].chunk = c PROVE Held(c)'
    <3>1. CASE i > d
      BY <2>1, <3>1 DEF Held
    <3> QED
      BY <1>1, <2>1, <3>1
  <2> QED
    BY <1>2, <2>1 DEF Held
<1>3. ASSUME Splitting(c[1]) PROVE Splitting(c[1])'
  <2>1. ASSUME NEW i \in 1..Len(queue), queue[i].input = c[1], queue[i].chunk = None
        PROVE  Splitting(c[1])'
    <3>1. CASE i > d
      BY <2>1, <3>1 DEF Splitting
    <3> QED
      BY <1>1, <2>1, <3>1
  <2> QED
    BY <1>3, <2>1 DEF Splitting
<1> QED
  BY <1>2, <1>3 DEF Minded

LEMMA AsyncMinds ==
  ASSUME PipelineInv, NEW c \in Chunk, Minded(c), NEW p \in Parent, CognifyAsync(p)
  PROVE  Minded(c)'
<1> DEFINE t == CognifyTask(p, None)
           n == Len(queue) + 1
<1>1. UNCHANGED <<chunk, feeder, run>> /\ handed' = handed \cup {p}
  BY DEF CognifyAsync
<1>2. t \in Task /\ t.input = p /\ t.chunk = None
  BY DEF CognifyTask, Task
<1>3. Submit(t)
  BY DEF CognifyAsync
<1> HIDE DEF t
<1>4. /\ Len(queue) \in Nat /\ Len(queue') = n
      /\ \A i \in 1..Len(queue) : queue'[i] = queue[i]
      /\ queue'[n] = t
  BY <1>2, <1>3, Appended DEF PipelineInv, TypeInv
<1>5. CASE c[1] = p
  BY <1>2, <1>4, <1>5 DEF Minded, Splitting
<1>6. CASE c[1] # p
  <2>1. \A i \in 1..Len(queue) : i - 0 \in 1..Len(queue') /\ queue'[i - 0] = queue[i]
    BY <1>4
  <2> QED
    BY <1>1, <1>6, <2>1, QueueMinds DEF Held, Splitting, ToFeed
<1> QED
  BY <1>5, <1>6

LEMMA WaitMinds ==
  ASSUME PipelineInv, NEW c \in Chunk, Minded(c), NEW r \in Runner, NEW p \in Parent,
         CognifyWait(r, p)
  PROVE  Minded(c)'
<1> DEFINE g == FrameAt("split", p, None, FALSE, 1, FALSE)
<1>1. /\ RunsOK /\ run[r] \in Frame /\ FrameOK(run[r]) /\ run[r].pc = "idle"
      /\ UNCHANGED <<chunk, queue, feeder>> /\ handed' = handed \cup {p}
  BY DEF PipelineInv, TypeInv, RunsOK, CognifyWait
<1>2. run' = [run EXCEPT ![r] = g]
  BY DEF CognifyWait, Enter
<1>3. g.pc = "split" /\ g.input = p
  BY DEF FrameAt
<1> HIDE DEF g
<1>4. run'[r] = g /\ \A q \in Runner : q # r => run'[q] = run[q]
  BY <1>1, <1>2, RunAt
<1>5. CASE c[1] = p
  BY <1>3, <1>4, <1>5 DEF Minded, Splitting, Splits
<1>6. CASE c[1] # p
  <2>1. ~Splits(run[r]) /\ ~FrameWorks(run[r], c)
    BY <1>1, ChunkOf, ConstantsAssumption DEF Splits, FrameWorks, FrameHolds, FrameAhead, FrameOK
  <2>2. Held(c) => Held(c)'
    BY <1>1, <1>4, <2>1 DEF Held, ToFeed
  <2>3. Splitting(c[1]) => Splitting(c[1])'
    BY <1>1, <1>4, <2>1 DEF Splitting
  <2> QED
    BY <1>1, <1>6, <2>2, <2>3 DEF Minded
<1> QED
  BY <1>5, <1>6

LEMMA FeedMinds ==
  ASSUME PipelineInv, NEW c \in Chunk, Minded(c), NEW p \in Parent, Feed(p)
  PROVE  Minded(c)'
<1> DEFINE e == <<p, feeder[p]>>
           t == CognifyTask(p, e)
           n == Len(queue) + 1
<1>1. UNCHANGED <<chunk, handed, run>>
  BY DEF Feed
<1>12. feeder[p] \in Nat /\ ChunkCount[p] \in Nat /\ feeder[p] # 0 /\ feeder[p] <= ChunkCount[p]
  BY ConstantsAssumption DEF PipelineInv, TypeInv, FeedersOK, Feed
<1>2. feeder[p] \in 1..ChunkCount[p]
  BY <1>12
<1>3. t \in Task /\ t.chunk = e
  BY <1>2, <1>12, ChunkIs DEF CognifyTask, Task
<1>4. Submit(t)
  BY DEF Feed
<1>5. \A q \in Parent : feeder'[q] =
         IF q = p THEN (IF feeder[p] = ChunkCount[p] THEN 0 ELSE feeder[p] + 1) ELSE feeder[q]
  BY DEF Feed, PipelineInv, TypeInv, FeedersOK
<1> HIDE DEF t
<1>6. /\ Len(queue) \in Nat /\ Len(queue') = n
      /\ \A i \in 1..Len(queue) : queue'[i] = queue[i]
      /\ queue'[n] = t
  BY <1>3, <1>4, Appended DEF PipelineInv, TypeInv
<1>7. \A i \in 1..Len(queue) : i - 0 \in 1..Len(queue') /\ queue'[i - 0] = queue[i]
  BY <1>6
<1>8. /\ c[1] \in Parent /\ c[2] \in 1..ChunkCount[c[1]] /\ c = <<c[1], c[2]>>
      /\ c[2] \in Nat
  BY ChunkOf, ConstantsAssumption
<1>9. ToFeed(c) => Held(c)'
  <2>1. CASE c = e
    BY <1>3, <1>6, <2>1 DEF Held
  <2>2. CASE c # e /\ c[1] = p
    <3>1. ToFeed(c) => feeder[p] < c[2] /\ feeder[p] < ChunkCount[p]
      BY <1>2, <1>8, <1>12, <2>2 DEF ToFeed
    <3>2. ToFeed(c) => ToFeed(c)'
      BY <1>2, <1>5, <1>12, <1>8, <2>2, <3>1 DEF ToFeed
    <3> QED
      BY <3>2 DEF Held
  <2>3. CASE c[1] # p
    BY <1>5, <1>8, <2>3 DEF ToFeed, Held
  <2> QED
    BY <2>1, <2>2, <2>3
<1>10. \A r \in Runner : FrameWorks(run[r], c) => Held(c)'
  BY <1>1 DEF Held
<1>11. \A r \in Runner : run[r].input = c[1] /\ Splits(run[r]) => Splitting(c[1])'
  BY <1>1 DEF Splitting
<1> QED
  BY <1>1, <1>7, <1>9, <1>10, <1>11, QueueMinds

\* The chunk goes from the goroutine back to the queue.
LEMMA ChainMinds ==
  ASSUME PipelineInv, InlineIsCallers, WaitOK, NEW c \in Chunk, Minded(c), NEW r \in Runner, Chain(r)
  PROVE  Minded(c)'
<1> DEFINE t == MemifyTask(run[r].input, run[r].chunk)
           n == Len(queue) + 1
<1>1. /\ UNCHANGED <<chunk, handed, feeder>> /\ run[r].pc = "chain"
      /\ RunsOK /\ run[r] \in Frame /\ FrameOK(run[r])
      /\ run[r].input \in Parent /\ run[r].chunk \in Chunk
  BY DEF Chain, PipelineInv, TypeInv, RunsOK, FrameOK, Frame
<1>2. t \in Task /\ t.chunk = run[r].chunk
  BY <1>1 DEF MemifyTask, Task
<1>3. Submit(t) /\ \E g : run' = [run EXCEPT ![r] = g]
  BY DEF Chain, Return
<1> HIDE DEF t
<1>4. \A q \in Runner : q # r => run'[q] = run[q]
  BY <1>1, <1>3 DEF RunsOK
<1>5. /\ Len(queue) \in Nat /\ Len(queue') = n
      /\ \A i \in 1..Len(queue) : queue'[i] = queue[i]
      /\ queue'[n] = t
  BY <1>2, <1>3, Appended DEF PipelineInv, TypeInv
<1>6. \A i \in 1..Len(queue) : i - 0 \in 1..Len(queue') /\ queue'[i - 0] = queue[i]
  BY <1>5
<1>7. ~run[r].nested
  BY <1>1 DEF InlineIsCallers, WaitOK, Settled
<1>8. FrameWorks(run[r], c) => Held(c)'
  BY <1>2, <1>5, <1>7 DEF FrameWorks, FrameHolds, FrameAhead, Held
<1>9. \A q \in Runner : FrameWorks(run[q], c) => Held(c)'
  BY <1>4, <1>8 DEF Held
<1>10. \A q \in Runner : run[q].input = c[1] /\ Splits(run[q]) => Splitting(c[1])'
  BY <1>1, <1>4 DEF Splitting, Splits
<1>11. ToFeed(c) => Held(c)'
  BY <1>1 DEF ToFeed, Held
<1> QED
  BY <1>1, <1>6, <1>9, <1>10, <1>11, QueueMinds

\* The task goes from the queue to the worker.
LEMMA TakeMinds ==
  ASSUME PipelineInv, NEW c \in Chunk, Minded(c), NEW w \in Worker, Take(w)
  PROVE  Minded(c)'
<1>1. /\ w \in Runner /\ UNCHANGED <<chunk, handed, feeder>> /\ run[w].pc = "idle"
      /\ RunsOK /\ FrameOK(run[w]) /\ queue \in Seq(Task) /\ queue # <<>> /\ queue' = Tail(queue)
  BY DEF Take, PipelineInv, TypeInv, QueueOK, RunsOK, Runner
<1>2. PICK f, t :
           /\ t = queue[1] /\ 1 \in 1..Len(queue)
           /\ \A i \in 1..Len(queue') : i + 1 \in 1..Len(queue) /\ queue'[i] = queue[i + 1]
           /\ \A i \in 1..Len(queue') : i + 1 # 1
           /\ run' = [run EXCEPT ![w] = f]
           /\ f.input = t.input /\ f.chunk = t.chunk /\ f.nested = FALSE /\ f.next = 1
           /\ f.pc = IF t.kind = "memify" THEN "memify"
                     ELSE IF t.chunk # None THEN "mark" ELSE "split"
  BY <1>1, Received DEF PipelineInv
<1>3. run'[w] = f /\ \A q \in Runner : q # w => run'[q] = run[q]
  BY <1>1, <1>2, RunAt
<1>4. ~FrameWorks(run[w], c) /\ ~Splits(run[w])
  BY <1>1, ChunkOf, ConstantsAssumption DEF FrameWorks, FrameHolds, FrameAhead, FrameOK, Splits
<1>5. \A i \in 1..Len(queue) : i > 1 => i - 1 \in 1..Len(queue') /\ queue'[i - 1] = queue[i]
  BY <1>1
<1>6. queue[1].chunk = c => Held(c)'
  BY <1>1, <1>2, <1>3, ChunkOf DEF Held, FrameWorks, FrameHolds
<1>7. queue[1].input = c[1] /\ queue[1].chunk = None => Splitting(c[1])'
  <2>1. TaskOK(t)
    BY <1>2, QueueTask DEF PipelineInv, TypeInv
  <2> QED
    BY <1>1, <1>2, <1>3, <2>1 DEF Splitting, Splits, TaskOK
<1>8. \A q \in Runner : FrameWorks(run[q], c) => Held(c)'
  BY <1>3, <1>4 DEF Held
<1>9. \A q \in Runner : run[q].input = c[1] /\ Splits(run[q]) => Splitting(c[1])'
  BY <1>3, <1>4 DEF Splitting
<1>10. ToFeed(c) => Held(c)'
  BY <1>1 DEF ToFeed, Held
<1>11. \A i \in 1..Len(queue) : i <= 1 =>
         /\ queue[i].chunk = c => Held(c)'
         /\ queue[i].input = c[1] /\ queue[i].chunk = None => Splitting(c[1])'
  BY <1>6, <1>7
<1> QED
  BY <1>1, <1>5, <1>8, <1>9, <1>10, <1>11, QueueMinds

LEMMA ExitMinds ==
  ASSUME PipelineInv, NEW c \in Chunk, Minded(c), NEW w \in Worker, Exit(w)
  PROVE  Minded(c)'
<1>1. /\ w \in Runner /\ UNCHANGED <<chunk, handed, queue, feeder>> /\ run[w].pc = "idle"
      /\ RunsOK /\ FrameOK(run[w])
  BY DEF Exit, PipelineInv, TypeInv, RunsOK, Runner
<1>2. ~FrameWorks(run[w], c) /\ ~Splits(run[w])
  BY <1>1, ChunkOf, ConstantsAssumption DEF FrameWorks, FrameHolds, FrameAhead, FrameOK, Splits
<1>3. \E g : run' = [run EXCEPT ![w] = g]
  BY DEF Exit, Goto
<1> QED
  BY <1>1, <1>2, <1>3, FrameMinds

\* As long as no store call fails, whatever is handed over is minded.
LEMMA StepMinds ==
  ASSUME PipelineInv, InlineIsCallers, WaitOK, [Next]_vars, faults' = 0, NEW c \in Chunk, Minded(c)
  PROVE  Minded(c)'
<1>1. ASSUME NEW p \in Parent, Add(p) \/ CognifyAsync(p) \/ Feed(p) PROVE Minded(c)'
  <2>1. Add(p) => UNCHANGED <<chunk, handed, queue, feeder, run>>
    BY DEF Add
  <2> QED
    BY <1>1, <2>1, AsyncMinds, FeedMinds DEF Minded, Splitting, Held, ToFeed
<1>2. ASSUME NEW r \in Caller, NEW p \in Parent, CognifyWait(r, p) PROVE Minded(c)'
  BY <1>2, WaitMinds DEF Runner
<1>3. ASSUME NEW w \in Worker, Take(w) \/ Exit(w) PROVE Minded(c)'
  BY <1>3, TakeMinds, ExitMinds
<1>4. ASSUME NEW r \in Runner, Execute(r) PROVE Minded(c)'
  BY <1>4, SplitMinds, PublishMinds, ChunkMinds, ChainMinds, SyncMinds DEF Execute
<1>5. CASE Close \/ UNCHANGED vars
  BY <1>5 DEF Close, vars, Minded, Splitting, Held, ToFeed
<1> QED
  BY <1>1, <1>2, <1>3, <1>4, <1>5 DEF Next

\* The row of an input is written as split when its split ends, or from a copy
\* that a goroutine has of it.
LEMMA WritesSplit ==
  ASSUME PipelineInv, NEW p \in Parent, NEW r \in Runner, Execute(r),
         input'[p].split, ~input[p].split
  PROVE  run[r].input = p /\ run[r].pc \in {"publish", "failInput", "save"}
<1>1. input \in [Parent -> Row]
  BY DEF PipelineInv, TypeInv, RowsOK
<1>2. CASE CreateChild(r)
  BY <1>1, <1>2 DEF CreateChild, FailInput
<1>3. CASE Publish(r)
  BY <1>1, <1>3 DEF Publish, FailInput
<1>4. CASE FailNested(r)
  BY <1>1, <1>4 DEF FailNested
<1>5. CASE SaveInput(r)
  BY <1>1, <1>5 DEF SaveInput
<1>6. CASE Mark(r) \/ Extract(r) \/ Chain(r) \/ Memify(r) \/ LoadInput(r) \/ CountChildren(r)
  BY <1>6 DEF Mark, Extract, Chain, Memify, LoadInput, CountChildren
<1> QED
  BY <1>2, <1>3, <1>4, <1>5, <1>6 DEF Execute

LEMMA ExecuteSplits ==
  ASSUME PipelineInv, NEW r \in Runner, Execute(r)
  PROVE  \E g : /\ run' = [run EXCEPT ![r] = g]
                /\ Splits(g) => run[r].pc = "split" /\ g.input = run[r].input
<1> DEFINE Same(g) == /\ run' = [run EXCEPT ![r] = g]
                      /\ Splits(g) => run[r].pc = "split" /\ g.input = run[r].input
<1> SUFFICES \E g : Same(g)
  OBVIOUS
<1>1. run[r] \in Frame
  BY DEF PipelineInv, TypeInv, RunsOK
<1>2. ASSUME NEW result, Return(r, result) PROVE \E g : Same(g)
  <2> DEFINE g == IdleFrame(IF r \in Caller THEN result ELSE "none")
  <2>1. run' = [run EXCEPT ![r] = g]
    BY <1>2 DEF Return
  <2>2. ~Splits(g)
    BY DEF IdleFrame, Splits
  <2> HIDE DEF g
  <2> QED
    BY <2>1, <2>2
<1>3. ASSUME NEW label, Goto(r, label), label # "split", label # "publish" \/ run[r].pc = "split"
      PROVE \E g : Same(g)
  <2> DEFINE g == [run[r] EXCEPT !.pc = label]
  <2>1. run' = [run EXCEPT ![r] = g]
    BY <1>3 DEF Goto
  <2>2. g.pc = label /\ g.input = run[r].input
    BY <1>1 DEF Frame
  <2> HIDE DEF g
  <2> QED
    BY <1>3, <2>1, <2>2 DEF Splits
<1>4. ASSUME NEW p, NEW i, Inline(r, p, i) PROVE \E g : Same(g)
  <2>1. CASE i <= ChunkCount[p]
    <3> DEFINE g == FrameAt("mark", p, <<p, i>>, TRUE, i + 1, FALSE)
    <3>1. run' = [run EXCEPT ![r] = g]
      BY <1>4, <2>1 DEF Inline
    <3>2. ~Splits(g)
      BY DEF FrameAt, Splits
    <3> HIDE DEF g
    <3> QED
      BY <3>1, <3>2
  <2>2. CASE ~(i <= ChunkCount[p])
    <3> DEFINE g == FrameAt("count", p, None, FALSE, 1, TRUE)
    <3>1. run' = [run EXCEPT ![r] = g]
      BY <1>4, <2>2 DEF Inline
    <3>2. ~Splits(g)
      BY DEF FrameAt, Splits
    <3> HIDE DEF g
    <3> QED
      BY <3>1, <3>2
  <2> QED
    BY <2>1, <2>2
<1>5. CASE Synced(r)
  BY <1>2, <1>4, <1>5 DEF Synced
<1>6. ASSUME NEW n, FailChunk(r, n) PROVE \E g : Same(g)
  BY <1>2, <1>3, <1>6 DEF FailChunk, Aborted
<1>7. ASSUME NEW g, g.pc \in {"count", "save"}, run' = [run EXCEPT ![r] = g] PROVE \E h : Same(h)
  BY <1>7 DEF Splits
<1> HIDE DEF Same
<1>8. CASE Mark(r) \/ Extract(r) \/ Memify(r)
  BY <1>3, <1>6, <1>8 DEF Mark, Extract, Memify
<1>9. CASE Chain(r) \/ FailNested(r)
  BY <1>2, <1>9 DEF Chain, FailNested
<1>10. CASE Publish(r)
  BY <1>2, <1>4, <1>10 DEF Publish, FailInput
<1>11. CASE CreateChild(r)
  <2> DEFINE g == [run[r] EXCEPT !.next = run[r].next + 1]
  <2>1. \/ run' = [run EXCEPT ![r] = g] \/ Goto(r, "publish") \/ Return(r, "err")
    BY <1>11 DEF CreateChild, FailInput
  <2>2. run[r].pc = "split" /\ g.input = run[r].input
    BY <1>1, <1>11 DEF CreateChild, Frame
  <2> HIDE DEF g
  <2>3. CASE run' = [run EXCEPT ![r] = g]
    BY <2>2, <2>3 DEF Same
  <2> QED
    BY <1>2, <1>3, <2>1, <2>2, <2>3
<1>12. CASE SaveInput(r)
  BY <1>5, <1>12 DEF SaveInput
<1>13. CASE LoadInput(r)
  <2> DEFINE g == [run[r] EXCEPT !.copy = input[run[r].input].split, !.pc = "count"]
  <2>1. run' = [run EXCEPT ![r] = g] \/ Synced(r)
    BY <1>13 DEF LoadInput
  <2>2. g.pc = "count"
    BY <1>1 DEF Frame
  <2> HIDE DEF g
  <2> QED
    BY <1>5, <1>7, <2>1, <2>2
<1>14. CASE CountChildren(r)
  <2> DEFINE p == run[r].input
             n == Cardinality(Completed(p))
             b == Present(p) # {} /\ Present(p) = Completed(p)
             g == [run[r] EXCEPT !.tally = n, !.all = b, !.pc = "save"]
  <2> HIDE DEF n, b
  <2>1. run' = [run EXCEPT ![r] = g] \/ Synced(r)
    BY <1>14 DEF CountChildren, n, b
  <2>2. g.pc = "save"
    BY <1>1 DEF Frame
  <2> HIDE DEF g
  <2> QED
    BY <1>5, <1>7, <2>1, <2>2
<1> QED
  BY <1>8, <1>9, <1>10, <1>11, <1>12, <1>13, <1>14 DEF Execute

LEMMA ExecuteOver ==
  ASSUME PipelineInv, SplitIsOver, NEW r \in Runner, Execute(r)
  PROVE  SplitIsOver'
<1> SUFFICES ASSUME NEW p \in Parent, input'[p].split
             PROVE  p \in handed' /\ ~Splitting(p)'
  BY DEF SplitIsOver, Splitting
<1>1. PICK g : /\ run' = [run EXCEPT ![r] = g]
               /\ Splits(g) => run[r].pc = "split" /\ g.input = run[r].input
  BY ExecuteSplits
<1>2. run'[r] = g /\ \A q \in Runner : q # r => run'[q] = run[q]
  BY <1>1, RunAt DEF PipelineInv, TypeInv
<1>3. handed' = handed
  BY DEF Execute, CreateChild, Publish, FailNested, Mark, Extract, Chain, Memify,
     LoadInput, CountChildren, SaveInput
<1>4. ASSUME Splitting(p)' PROVE Splitting(p)
  <2>1. ASSUME NEW q \in Runner, run'[q].input = p, Splits(run'[q])
        PROVE  run[q].input = p /\ Splits(run[q])
    BY <1>1, <1>2, <2>1 DEF Splits
  <2>2. ASSUME NEW i \in 1..Len(queue'), queue'[i].input = p, queue'[i].chunk = None
        PROVE  Splitting(p)
    <3>1. CASE UNCHANGED queue
      BY <2>2, <3>1 DEF Splitting
    <3>2. CASE Chain(r)
      <4> DEFINE t == MemifyTask(run[r].input, run[r].chunk)
      <4>1. /\ run[r].input \in Parent /\ run[r].chunk \in Chunk
        BY <3>2 DEF Chain, PipelineInv, TypeInv, RunsOK, FrameOK, Frame
      <4>2. t \in Task /\ t.chunk # None
        BY <4>1, ConstantsAssumption DEF MemifyTask, Task
      <4>3. Submit(t)
        BY <3>2 DEF Chain
      <4> HIDE DEF t
      <4>4. i \in 1..Len(queue) /\ queue'[i] = queue[i]
        BY <2>2, <4>2, <4>3, Appended DEF PipelineInv, TypeInv
      <4> QED
        BY <2>2, <4>4 DEF Splitting
    <3> QED
      BY <3>1, <3>2 DEF Execute, CreateChild, Publish, FailNested, Mark, Extract, Memify,
         LoadInput, CountChildren, SaveInput
  <2> QED
    BY <1>4, <2>1, <2>2 DEF Splitting
<1>5. CASE input[p].split
  BY <1>3, <1>4, <1>5 DEF SplitIsOver
<1>6. CASE ~input[p].split
  <2>1. run[r].input = p /\ run[r].pc \in {"publish", "failInput", "save"}
    BY <1>6, WritesSplit
  <2>2. FreshAt(p) /\ QueuedSplitAt(p) /\ RunningSplitAt(p)
    BY DEF PipelineInv, FlowOK, PhaseOK
  <2>3. p \in handed /\ \A i \in 1..Len(queue) : ~(queue[i].input = p /\ queue[i].chunk = None)
    BY <2>1, <2>2 DEF FreshAt, QueuedSplitAt
  <2>4. \A q \in Runner : run[q].input = p /\ Splits(run[q]) => run[q].pc = "publish" /\ q = r
    BY <2>1, <2>2 DEF RunningSplitAt, Splits
  <2>5. ASSUME NEW q \in Runner, run'[q].input = p, Splits(run'[q]) PROVE FALSE
    BY <1>1, <1>2, <2>1, <2>4, <2>5
  <2>6. ~Splitting(p)'
    <3>1. CASE run[r].pc = "publish"
      <4>1. queue' = queue
        BY <3>1 DEF Execute, CreateChild, Publish, FailNested, Mark, Extract, Chain, Memify,
           LoadInput, CountChildren, SaveInput
      <4> QED
        BY <2>3, <2>5, <4>1 DEF Splitting
    <3>2. CASE run[r].pc # "publish"
      BY <1>4, <2>3, <2>4, <3>2 DEF Splitting
    <3> QED
      BY <3>1, <3>2
  <2> QED
    BY <1>3, <2>3, <2>6
<1> QED
  BY <1>5, <1>6

\* The clients and the queue start no split of an input that has been handed over.
LEMMA OthersOver ==
  ASSUME PipelineInv, SplitIsOver, \A p \in Parent : input'[p].split = input[p].split,
         \A p \in Parent : p \in handed /\ Splitting(p)' => Splitting(p),
         handed \subseteq handed'
  PROVE  SplitIsOver'
<1> SUFFICES ASSUME NEW p \in Parent, input'[p].split
             PROVE  p \in handed' /\ ~Splitting(p)'
  BY DEF SplitIsOver, Splitting
<1>1. input'[p].split = input[p].split
  OBVIOUS
<1> QED
  BY <1>1 DEF SplitIsOver

LEMMA StepOver ==
  ASSUME PipelineInv, SplitIsOver, [Next]_vars
  PROVE  SplitIsOver'
<1>1. ASSUME NEW p \in Parent, Add(p) PROVE SplitIsOver'
  BY <1>1, OthersOver DEF Add, Splitting, PipelineInv, TypeInv, RowsOK, Row
<1>2. ASSUME NEW p \in Parent, CognifyAsync(p) PROVE SplitIsOver'
  <2> DEFINE t == CognifyTask(p, None)
  <2>1. /\ UNCHANGED <<input, run>> /\ handed' = handed \cup {p} /\ p \notin handed
    BY <1>2 DEF CognifyAsync
  <2>2. t \in Task /\ t.input = p
    BY DEF CognifyTask, Task
  <2>3. Submit(t)
    BY <1>2 DEF CognifyAsync
  <2> HIDE DEF t
  <2>4. \A i \in 1..Len(queue') : queue'[i].input # p => i \in 1..Len(queue) /\ queue'[i] = queue[i]
    BY <2>2, <2>3, Appended DEF PipelineInv, TypeInv
  <2>5. \A q \in Parent : q \in handed /\ Splitting(q)' => Splitting(q)
    BY <2>1, <2>4 DEF Splitting
  <2> QED
    BY <2>1, <2>5, OthersOver
<1>3. ASSUME NEW p \in Parent, Feed(p) PROVE SplitIsOver'
  <2> DEFINE t == CognifyTask(p, <<p, feeder[p]>>)
  <2>1. UNCHANGED <<input, run, handed>>
    BY <1>3 DEF Feed
  <2>2. feeder[p] \in 1..ChunkCount[p]
    BY <1>3, ConstantsAssumption DEF PipelineInv, TypeInv, FeedersOK, Feed
  <2>3. t \in Task /\ t.chunk # None
    BY <2>2, ChunkIs DEF CognifyTask, Task
  <2>4. Submit(t)
    BY <1>3 DEF Feed
  <2> HIDE DEF t
  <2>5. \A i \in 1..Len(queue') : queue'[i].chunk = None => i \in 1..Len(queue) /\ queue'[i] = queue[i]
    BY <2>3, <2>4, Appended DEF PipelineInv, TypeInv
  <2>6. \A q \in Parent : Splitting(q)' => Splitting(q)
    BY <2>1, <2>5 DEF Splitting
  <2> QED
    BY <2>1, <2>6, OthersOver
<1>4. ASSUME NEW r \in Runner, NEW p \in Parent, CognifyWait(r, p) PROVE SplitIsOver'
  <2> DEFINE g == FrameAt("split", p, None, FALSE, 1, FALSE)
  <2>1. /\ UNCHANGED <<input, queue>> /\ handed' = handed \cup {p} /\ p \notin handed
    BY <1>4 DEF CognifyWait
  <2>2. run' = [run EXCEPT ![r] = g]
    BY <1>4 DEF CognifyWait, Enter
  <2>3. g.input = p
    BY DEF FrameAt
  <2> HIDE DEF g
  <2>4. run'[r] = g /\ \A q \in Runner : q # r => run'[q] = run[q]
    BY <2>2, RunAt DEF PipelineInv, TypeInv
  <2>5. \A q \in Parent : q \in handed /\ Splitting(q)' => Splitting(q)
    BY <2>1, <2>3, <2>4 DEF Splitting
  <2> QED
    BY <2>1, <2>5, OthersOver
<1>5. ASSUME NEW w \in Runner, Take(w) PROVE SplitIsOver'
  <2>1. UNCHANGED <<input, handed>>
    BY <1>5 DEF Take
  <2>2. PICK f, t :
           /\ t = queue[1] /\ 1 \in 1..Len(queue)
           /\ \A i \in 1..Len(queue') : i + 1 \in 1..Len(queue) /\ queue'[i] = queue[i + 1]
           /\ \A i \in 1..Len(queue') : i + 1 # 1
           /\ run' = [run EXCEPT ![w] = f]
           /\ f.input = t.input /\ f.chunk = t.chunk /\ f.nested = FALSE /\ f.next = 1
           /\ f.pc = IF t.kind = "memify" THEN "memify"
                     ELSE IF t.chunk # None THEN "mark" ELSE "split"
    BY <1>5, Received DEF PipelineInv
  <2>3. run'[w] = f /\ \A q \in Runner : q # w => run'[q] = run[q]
    BY <2>2, RunAt DEF PipelineInv, TypeInv
  <2>4. Splits(f) => t.chunk = None
    BY <2>2 DEF Splits
  <2>5. \A q \in Parent : Splitting(q)' => Splitting(q)
    BY <2>2, <2>3, <2>4 DEF Splitting
  <2> QED
    BY <2>1, <2>5, OthersOver
<1>6. ASSUME NEW w \in Runner, Exit(w) PROVE SplitIsOver'
  <2> DEFINE g == [run[w] EXCEPT !.pc = "exited"]
  <2>1. UNCHANGED <<input, handed, queue>> /\ run' = [run EXCEPT ![w] = g]
    BY <1>6 DEF Exit, Goto
  <2>2. g.pc = "exited"
    BY DEF PipelineInv, TypeInv, RunsOK, Frame
  <2> HIDE DEF g
  <2>3. run'[w] = g /\ \A q \in Runner : q # w => run'[q] = run[q]
    BY <2>1, RunAt DEF PipelineInv, TypeInv
  <2>4. \A q \in Parent : Splitting(q)' => Splitting(q)
    BY <2>1, <2>2, <2>3 DEF Splitting, Splits
  <2> QED
    BY <2>1, <2>4, OthersOver
<1>7. CASE Close \/ UNCHANGED vars
  BY <1>7, OthersOver DEF Close, vars, Splitting
<1> QED
  BY <1>1, <1>2, <1>3, <1>4, <1>5, <1>6, <1>7, ExecuteOver DEF Next, Runner

LEMMA InitLoss == Init => LossInv
<1>1. NewFrame.nested = FALSE
  BY DEF NewFrame, IdleFrame
<1> QED
  BY <1>1, ChunkOf DEF Init, LossInv, InlineIsCallers, SplitIsOver, Minded, NewRow

LEMMA StepLoss == PipelineInv /\ WaitOK /\ LossInv /\ [Next]_vars => LossInv'
<1> SUFFICES ASSUME PipelineInv, WaitOK, LossInv, [Next]_vars PROVE LossInv'
  OBVIOUS
<1>1. faults' = 0 => faults = 0
  <2>1. faults \in Nat
    BY DEF PipelineInv, TypeInv
  <2>2. ASSUME NEW n \in Nat, Fault(n), faults' = 0 PROVE faults = 0
    BY <2>1, <2>2 DEF Fault
  <2>3. ASSUME NEW r \in Runner, Execute(r), faults' = 0 PROVE faults = 0
    <3>1. \/ CreateChild(r) \/ Publish(r) \/ FailNested(r) \/ Mark(r) \/ Chain(r)
          \/ LoadInput(r) \/ CountChildren(r) \/ SaveInput(r)
          => UNCHANGED faults \/ Fault(1) \/ Fault(2)
      BY DEF CreateChild, Publish, FailNested, Mark, Chain, LoadInput, CountChildren,
         SaveInput, FailInput
    <3>2. ASSUME NEW n \in {1, 2}, FailChunk(r, n) PROVE \E k \in Nat : Fault(k)
      BY <3>2 DEF FailChunk
    <3>3. Extract(r) \/ Memify(r) => UNCHANGED faults \/ \E k \in Nat : Fault(k)
      BY <3>2 DEF Extract, Memify
    <3> QED
      BY <2>2, <2>3, <3>1, <3>3 DEF Execute
  <2> QED
    BY <2>3 DEF Next, Add, CognifyAsync, Feed, CognifyWait, Take, Exit, Close, vars
<1>2. faults' = 0 => \A c \in Chunk : Minded(c)'
  BY <1>1, StepMinds DEF LossInv
<1> QED
  BY <1>2, StepInline, StepOver DEF LossInv, PipelineInv, TypeInv

\* As long as no store call has failed, a chunk of a split input that is not
\* completed is in the queue, with a goroutine or still to be fed: none of the
\* hand-overs drops it (task_cognify.go, worker_pool.go).
THEOREM NothingDropped == Spec => []NothingLost
<1>1. ASSUME LossInv, faults = 0, NEW c \in Chunk, input[c[1]].split, chunk[c] # "completed"
      PROVE  Holders(c) # {}
  <2>1. Held(c)
    BY <1>1, ChunkOf DEF LossInv, SplitIsOver, Minded
  <2>2. \A r \in Runner : Holds(r, c) \/ Ahead(r, c) <=> FrameWorks(run[r], c)
    BY DEF Holds, Ahead, FrameWorks, FrameHolds, FrameAhead
  <2> QED
    BY <2>1, <2>2 DEF Held, Holders, InQueue
<1>2. LossInv => NothingLost
  BY <1>1 DEF NothingLost
<1> QED
  BY <1>2, InitWait, StepWait, InitLoss, StepLoss, AlwaysInv, PTL DEF Spec

-----------------------------------------------------------------------------
(* The load under which the pool does not jam.                             *)

\* The most there can be to do at a time: every chunk, and the split of every
\* input without chunks.
Load == Chunk \cup {<<p, 0>> : p \in {q \in Parent : ChunkCount[q] = 0}}

LEMMA LoadFinite ==
  ASSUME IsFiniteSet(Parent)
  PROVE  IsFiniteSet(Load)
<1>1. IsFiniteSet({ChunksOf(p) : p \in Parent}) /\ \A S \in {ChunksOf(p) : p \in Parent} : IsFiniteSet(S)
  <2>1. IsFiniteSet({ChunksOf(p) : p \in Parent})
    <3> DEFINE f == [p \in Parent |-> ChunksOf(p)]
               T == {ChunksOf(p) : p \in Parent}
    <3>1. f \in Surjection(Parent, T)
      BY DEF Surjection
    <3> QED
      BY <3>1, FS_Surjection
  <2> QED
    BY <2>1, ChunksOfFinite
<1>2. IsFiniteSet(Chunk)
  BY <1>1, FS_UNION DEF Chunk
<1>3. IsFiniteSet({<<p, 0>> : p \in {q \in Parent : ChunkCount[q] = 0}})
  <2> DEFINE E == {q \in Parent : ChunkCount[q] = 0}
             f == [p \in E |-> <<p, 0>>]
             T == {<<p, 0>> : p \in E}
  <2>1. IsFiniteSet(E)
    BY FS_Subset
  <2>2. f \in Surjection(E, T)
    BY DEF Surjection
  <2> HIDE DEF E
  <2>3. IsFiniteSet(T)
    BY <2>1, <2>2, FS_Surjection
  <2> QED
    BY <2>3 DEF E
<1> QED
  BY <1>2, <1>3, FS_Union DEF Load

\* What a task stands for in the load: its chunk, or for a split the first one.
Slot(t) ==
  IF t.chunk # None THEN t.chunk
  ELSE IF ChunkCount[t.input] = 0 THEN <<t.input, 0>> ELSE <<t.input, 1>>

LEMMA SlotOf ==
  ASSUME QueueOK, NEW i \in 1..Len(queue)
  PROVE  /\ Slot(queue[i]) \in Load /\ Slot(queue[i])[1] = queue[i].input
         /\ queue[i].chunk # None => Slot(queue[i]) = queue[i].chunk
<1>1. TaskOK(queue[i]) /\ queue[i].input \in Parent /\ queue[i].chunk \in Chunk \cup {None}
  BY QueueTask
<1>2. ChunkCount[queue[i].input] \in Nat
  BY <1>1, ConstantsAssumption
<1>3. CASE queue[i].chunk # None
  BY <1>1, <1>3, ChunkIn DEF Slot, TaskOK, Load
<1>4. CASE queue[i].chunk = None /\ ChunkCount[queue[i].input] = 0
  BY <1>1, <1>4 DEF Slot, Load
<1>5. CASE queue[i].chunk = None /\ ChunkCount[queue[i].input] # 0
  <2>1. 1 \in 1..ChunkCount[queue[i].input]
    BY <1>2, <1>5
  <2>2. <<queue[i].input, 1>> \in Chunk
    BY <1>1, <2>1, ChunkIs
  <2> QED
    BY <1>5, <2>2 DEF Slot, Load
<1> QED
  BY <1>3, <1>4, <1>5

\* No two tasks in the queue stand for the same.
LEMMA SlotsDiffer ==
  ASSUME PipelineInv, NEW i \in 1..Len(queue), NEW j \in 1..Len(queue),
         Slot(queue[i]) = Slot(queue[j])
  PROVE  i = j
<1>1. QueueOK
  BY DEF PipelineInv, TypeInv
<1>2. PICK p \in Parent : queue[i].input = p /\ queue[j].input = p
  BY <1>1, SlotOf, QueueTask
<1>3. QueuedSplitAt(p)
  BY DEF PipelineInv, FlowOK, PhaseOK
<1>4. CASE queue[i].chunk = None \/ queue[j].chunk = None
  BY <1>2, <1>3, <1>4 DEF QueuedSplitAt
<1>5. CASE queue[i].chunk # None /\ queue[j].chunk # None
  <2>1. PICK c \in Chunk : queue[i].chunk = c /\ queue[j].chunk = c
    BY <1>1, <1>5, SlotOf, QueueTask
  <2> QED
    BY <2>1 DEF PipelineInv, FlowOK, CustodyOK, CustodyAt, InQueue
<1> QED
  BY <1>4, <1>5

\* A worker that sends a memify has a chunk that is not in the queue.
LEMMA SenderApart ==
  ASSUME PipelineInv, NEW w \in Runner, run[w].pc = "chain"
  PROVE  /\ run[w].chunk \in Chunk
         /\ \A v \in Runner : run[v].pc = "chain" /\ run[v].chunk = run[w].chunk => v = w
         /\ \A i \in 1..Len(queue) : Slot(queue[i]) # run[w].chunk
<1>1. QueueOK /\ run[w].chunk \in Chunk /\ run[w].chunk \in ChunksOf(run[w].input) /\ run[w].input \in Parent
  BY DEF PipelineInv, TypeInv, RunsOK, FrameOK, Frame
<1>2. PICK c \in Chunk : c = run[w].chunk /\ c[1] = run[w].input
  BY <1>1, ChunkIn
<1>3. CustodyAt(c) /\ FrameWorks(run[w], c)
  BY <1>2 DEF PipelineInv, FlowOK, CustodyOK, FrameWorks, FrameHolds
<1>4. \A v \in Runner : run[v].pc = "chain" /\ run[v].chunk = c => v = w
  BY <1>3 DEF CustodyAt, FrameWorks, FrameHolds
<1>5. ASSUME NEW i \in 1..Len(queue), Slot(queue[i]) = c PROVE FALSE
  <2>1. queue[i].input = c[1]
    BY <1>1, <1>5, SlotOf
  <2>2. queue[i].chunk # None
    BY <1>1, <1>2, <2>1 DEF PipelineInv, FlowOK, PhaseOK, QueuedSplitAt
  <2> QED
    BY <1>1, <1>3, <1>5, <2>2, SlotOf DEF CustodyAt, InQueue
<1> QED
  BY <1>2, <1>4, <1>5

\* The queue and the workers cannot have more than there is to do.
LEMMA EnoughRoom ==
  ASSUME PipelineInv, IsFiniteSet(Parent), \A w \in Worker : run[w].pc = "chain"
  PROVE  /\ IsFiniteSet(Worker)
         /\ Len(queue) + Cardinality(Worker) <= Cardinality(Load)
<1> DEFINE n == Len(queue)
           f == [i \in 1..n |-> Slot(queue[i])]
           A == {f[i] : i \in 1..n}
           g == [w \in Worker |-> run[w].chunk]
<1>1. QueueOK /\ n \in Nat /\ IsFiniteSet(Load)
  BY LoadFinite DEF PipelineInv, TypeInv, QueueOK
<1>2. f \in [1..n -> A] /\ A \subseteq Load
  BY <1>1, SlotOf
<1>3. \A i, j \in 1..n : f[i] = f[j] => i = j
  BY SlotsDiffer
<1>4. g \in [Worker -> Load \ A]
  BY SenderApart DEF Load, Runner
<1>5. \A v, w \in Worker : g[v] = g[w] => v = w
  BY SenderApart DEF Runner
<1> HIDE DEF n, f, g
<1>6. f \in Injection(1..n, A) /\ f \in Surjection(1..n, A)
  BY <1>2, <1>3 DEF Injection, IsInjective, Surjection
<1>7. IsFiniteSet(1..n) /\ Cardinality(1..n) = n
  BY <1>1, FS_Interval
<1>8. IsFiniteSet(A) /\ Cardinality(A) = n
  BY <1>6, <1>7, FS_Surjection
<1>9. g \in Injection(Worker, Load \ A)
  BY <1>4, <1>5 DEF Injection, IsInjective
<1> HIDE DEF A
<1>10. IsFiniteSet(Load \ A) /\ Cardinality(Load \ A) = Cardinality(Load) - Cardinality(Load \cap A)
  BY <1>1, FS_Difference
<1>11. Load \cap A = A
  BY <1>2
<1>12. IsFiniteSet(Worker) /\ Cardinality(Worker) <= Cardinality(Load \ A)
  BY <1>9, <1>10, FS_Injection
<1>13. Cardinality(Worker) \in Nat /\ Cardinality(Load) \in Nat
  BY <1>1, <1>12, FS_CardinalityType
<1>14. Cardinality(Worker) <= Cardinality(Load) - n
  BY <1>8, <1>10, <1>11, <1>12
<1>15. n + Cardinality(Worker) <= Cardinality(Load)
  BY <1>1, <1>13, <1>14
<1> QED
  BY <1>12, <1>15 DEF n

\* The workers are never all stuck in the send of a memify when the queue has
\* room for all chunks but those the workers hold (worker_pool.go, Submit): an
\* input cut into more chunks than that can stop the pool for good.
THEOREM RoomForAll ==
  ASSUME IsFiniteSet(Parent), Cardinality(Load) < QueueCap + Cardinality(Worker)
  PROVE  Spec => []PoolNeverJams
<1>1. PipelineInv => PoolNeverJams
  <2> SUFFICES ASSUME PipelineInv, \A w \in Worker : run[w].pc = "chain", Len(queue) = QueueCap
               PROVE  FALSE
    BY DEF PoolNeverJams
  <2>1. IsFiniteSet(Worker) /\ QueueCap + Cardinality(Worker) <= Cardinality(Load)
    BY EnoughRoom
  <2>2. Cardinality(Load) \in Nat /\ Cardinality(Worker) \in Nat /\ QueueCap \in Nat
    BY <2>1, LoadFinite, FS_CardinalityType, ConstantsAssumption
  <2> QED
    BY <2>1, <2>2
<1> QED
  BY <1>1, AlwaysInv, PTL
=============================================================================
