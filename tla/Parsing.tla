------------------------------ MODULE Parsing ------------------------------
(***************************************************************************)
(* The callers of CachedUnifiedParser and UnifiedParser (parser/core,      *)
(* parser/cache/cached_parser.go) over the parsing cache and the worker    *)
(* pool: a source is looked up, parsed by its caller or by the pool, and   *)
(* stored.  ParsePDF, ParseFileStream and ParseMarkdown have the steps of  *)
(* ParseFile and ParseText.  A document that is streamed touches nothing of*)
(* this: it is a behaviour of its own.                                     *)
(*                                                                         *)
(* A plan bounds a behaviour: the calls each client makes one after the    *)
(* other, the texts of the sources (all versions of a file have the same), *)
(* and how often a file changes, an entry expires or the process is killed.*)
(* A panic ends the process; the next one loads what is persisted.         *)
(***************************************************************************)
EXTENDS ParsingCache, ParserPool, TextChunking

CONSTANTS
  Plans,
  NoPlan  \* a plan without calls

\* What a program can call for: one file or text, any files of a batch (a call
\* without one returns at once), or a file to be forgotten.
CallsAsked ==
  [op : {"file"}, of : {<<s>> : s \in Source}]
  \cup [op : {"batch", "parallel"}, of : Seq(Files) \ {<<>>}]
  \cup [op : {"invalidate"}, of : {<<f>> : f \in Files}]
  \cup [op : {"stop", "close"}, of : {<<>>}]

Workload ==
  [calls : [Client -> Seq(CallsAsked)],
   limits : [entries : Nat, memory : Nat, policy : {"lru", "lfu", "ttl", "fifo"}],
   text : [Source -> Seq(Nat)], size : [Source -> Nat \ {0}],
   chunking : [max : Nat, min : Nat, overlap : Nat],
   persistent : BOOLEAN, rewrites : Nat, expiries : Nat, cancels : Nat, kills : Nat]

ASSUME PlansAssumption == Plans \cup {NoPlan} \subseteq Workload

VARIABLES
  call,     \* the call each client is in
  plan,     \* what is left of the plan
  tickers,  \* Close has not stopped the background routines
  alive     \* the process runs

vars == <<cacheVars, poolVars, call, plan, tickers, alive>>

\* at: the next step.  ask: the sources of the call, since: their versions at
\* its begin.  todo: sources to look up; rest: those the cache does not have;
\* store: those to be cached.  got: the versions parsed.  key, mtime: of the
\* source at hand.  out: results still to come; box: the private channel; in:
\* the generation they are awaited from.  id: of the call.  stale is history:
\* the sources that came from an entry with a race.
Idle == [op |-> "none", at |-> "idle", ask |-> {}, since |-> <<>>, todo |-> <<>>, rest |-> <<>>,
         store |-> {}, got |-> <<>>, key |-> <<>>, mtime |-> 0, out |-> 0, box |-> <<>>,
         in |-> 0, id |-> 0, failed |-> FALSE, stale |-> {}]

With(got, s, text) == [x \in DOMAIN got \cup {s} |-> IF x = s THEN text ELSE got[x]]

At(c, label) == alive /\ call[c].at = label
Goes(c, state) == call' = [call EXCEPT ![c] = state]
GoesTo(c, label) == Goes(c, [call[c] EXCEPT !.at = label])
Fails(c) == Goes(c, [call[c] EXCEPT !.at = "return", !.failed = TRUE])
Panics == alive' = FALSE /\ UNCHANGED <<cacheVars, poolVars, call, plan, tickers>>
Cached == UNCHANGED <<cacheVars, plan, tickers, alive>>
Pooled == UNCHANGED <<poolVars, plan, tickers, alive>>

-----------------------------------------------------------------------------
First == [file |-> "lookup", batch |-> "lookup", parallel |-> "healthy",
          stop |-> "stop", close |-> "stop", invalidate |-> "invalidate"]

Calls(c) ==
  /\ At(c, "idle") /\ plan.calls[c] # <<>>
  /\ LET next == Head(plan.calls[c])
     IN  Goes(c, [Idle EXCEPT !.op = next.op, !.at = First[next.op], !.ask = ToSet(next.of),
                    !.since = Restrict(file, ToSet(next.of)),
                    !.todo = IF First[next.op] = "lookup" THEN next.of ELSE <<>>,
                    !.rest = IF First[next.op] = "healthy" THEN next.of ELSE <<>>,
                    !.id = Len(plan.calls[c])])
  /\ plan' = [plan EXCEPT !.calls[c] = Tail(@)]
  /\ UNCHANGED <<cacheVars, poolVars, tickers, alive>>

Returns(c) ==
  /\ At(c, "return") /\ Goes(c, Idle)
  /\ Pooled /\ Cached

\* After the lookups: what the cache does not have is parsed by the caller
\* (ParseFile) or by the pool (BatchParseFiles).
AfterLookups(state) ==
  [state EXCEPT !.at = IF state.todo # <<>> THEN "lookup"
                       ELSE IF state.rest = <<>> THEN "return"
                       ELSE IF state.op = "file" THEN "parse" ELSE "healthy"]

\* GetByFile, or Get of a text: the file is looked at (for the key, and again
\* for its time) at the moment of the lookup.
LooksUp(c) ==
  /\ At(c, "lookup")
  /\ LET s == Head(call[c].todo)
         key == GenerateFileKey(s)
         next == [call[c] EXCEPT !.todo = Tail(@), !.key = key]
     IN  /\ GetLooksUp(key)
         /\ Goes(c, IF Found(key) = "hit"
                    THEN [next EXCEPT !.at = "touch", !.got = With(@, s, entries[key].text),
                            !.stale = IF entries[key].raced THEN @ \cup {s} ELSE @]
                    ELSE AfterLookups([next EXCEPT !.rest = Append(@, s)]))
  /\ Pooled

Touches(c) ==
  /\ At(c, "touch") /\ GetTouches(call[c].key)
  /\ Goes(c, AfterLookups(call[c]))
  /\ Pooled

\* The caller parses; the file may be unreadable or malformed.
ParsesItself(c) ==
  /\ At(c, "parse")
  /\ LET s == Head(call[c].rest)
     IN  \/ Goes(c, [call[c] EXCEPT !.at = "stat", !.store = {s}, !.got = [x \in {s} |-> file[s]]])
         \/ Fails(c)
  /\ UNCHANGED poolVars /\ Cached

-----------------------------------------------------------------------------
\* BatchParseFiles and ProcessFilesParallel: the pool is asked for its health,
\* and started if it is not well; two callers may both try.
ChecksHealth(c) ==
  /\ At(c, "healthy")
  /\ Goes(c, [call[c] EXCEPT !.at = IF IsHealthy THEN "submit" ELSE "start", !.in = generation])
  /\ UNCHANGED poolVars /\ Cached

StartsPool(c) ==
  /\ At(c, "start")
  /\ \/ Start /\ Goes(c, [call[c] EXCEPT !.at = "submit", !.in = generation + 1])
     \/ started /\ Fails(c) /\ UNCHANGED poolVars
  /\ Cached

\* The private channel of a call is known by the call's id.
Task(c) == [of |-> Head(call[c].rest), for |-> IF call[c].op = "batch" THEN c ELSE NoClient,
            id |-> call[c].id]
Submitted(c) ==
  LET rest == Tail(call[c].rest)
  IN  [call[c] EXCEPT !.rest = rest, !.store = @ \cup {Head(call[c].rest)},
        !.at = IF rest = <<>> THEN "collect" ELSE "submit"]

\* ProcessFiles: one select for each file, the closed queue among its cases.
SubmitsBatch(c) ==
  /\ At(c, "submit") /\ call[c].op = "batch"
  /\ \/ Enqueue(Task(c)) /\ Goes(c, [Submitted(c) EXCEPT !.out = @ + 1]) /\ Cached
     \/ ~Current.open /\ Panics
     \/ Current.done /\ Fails(c) /\ UNCHANGED poolVars /\ Cached

\* SubmitTask, under the lock: a stopped pool or a full queue is an error of
\* the file.
SubmitsParallel(c) ==
  /\ At(c, "submit") /\ call[c].op = "parallel"
  /\ IF started /\ HasRoom
     THEN Enqueue(Task(c)) /\ Goes(c, [Submitted(c) EXCEPT !.out = @ + 1])
     ELSE Goes(c, [Submitted(c) EXCEPT !.failed = TRUE]) /\ UNCHANGED poolVars
  /\ Cached

Collected(c, result) ==
  [call[c] EXCEPT !.out = @ - 1,
     !.got = IF result.ok THEN With(@, result.of, result.text) ELSE @,
     !.failed = @ \/ ~result.ok]

CollectsBatch(c) ==
  /\ At(c, "collect") /\ call[c].op = "batch" /\ call[c].out > 0
  /\ call[c].box # <<>>
  /\ Goes(c, [Collected(c, Head(call[c].box)) EXCEPT !.box = Tail(@)])
  /\ UNCHANGED poolVars /\ Cached

\* From the shared queue; a closed one yields a nil result.
CollectsParallel(c) ==
  /\ At(c, "collect") /\ call[c].op = "parallel" /\ call[c].out > 0
  /\ \/ TakeShared /\ Goes(c, Collected(c, Head(Current.results))) /\ Cached
     \/ Current.results = <<>> /\ Current.drained /\ Panics

\* The pool is cancelled, or the time of the batch is up.
BatchGivesUp(c) ==
  /\ At(c, "collect") /\ call[c].op = "batch" /\ call[c].out > 0
  /\ Fails(c) /\ UNCHANGED poolVars /\ Cached

\* The caller cancels its context.
Cancels(c) ==
  /\ call[c].at = "collect" \/ (call[c].at = "submit" /\ call[c].op = "batch")
  /\ alive /\ plan.cancels > 0
  /\ plan' = [plan EXCEPT !.cancels = @ - 1]
  /\ Fails(c) /\ UNCHANGED <<cacheVars, poolVars, tickers, alive>>

\* All results are there: those of a batch without an error are cached.
CollectsLast(c) ==
  /\ At(c, "collect") /\ call[c].out = 0
  /\ Goes(c, IF call[c].failed \/ call[c].op = "parallel" THEN [call[c] EXCEPT !.at = "return"]
             ELSE [call[c] EXCEPT !.at = "stat"])
  /\ UNCHANGED poolVars /\ Cached

-----------------------------------------------------------------------------
\* The end of ParseFile and of BatchParseFiles: what was parsed is cached, the
\* files of a batch in any order.  SetByFile looks at the file anew.
Stored(c) ==
  LET left == call[c].store \ {call[c].key.of}
  IN  [call[c] EXCEPT !.store = left, !.at = IF left = {} THEN "return" ELSE "stat"]

StatsAgain(c) ==
  /\ At(c, "stat")
  /\ \E s \in call[c].store :
       Goes(c, [call[c] EXCEPT !.at = "set", !.key = GenerateFileKey(s), !.mtime = file[s]])
  /\ UNCHANGED poolVars /\ Cached

NewEntry(c) ==
  LET s == call[c].key.of
  IN  [text |-> call[c].got[s], size |-> plan.size[s], path |-> FALSE, mtime |-> 0,
       expired |-> FALSE, raced |-> call[c].got[s] # file[s]]

\* A source without a sentence has no chunk, and is not cached.
Blank(c) == plan.text[call[c].key.of] = <<>>

Evicts(c) ==
  /\ At(c, "set") /\ ~Blank(c) /\ EvictOne(c, plan.size[call[c].key.of], plan.limits)
  /\ UNCHANGED call /\ Pooled

Stores(c) ==
  /\ At(c, "set")
  /\ IF Blank(c) THEN UNCHANGED cacheVars /\ Goes(c, Stored(c))
     ELSE /\ SetStores(c, call[c].key, NewEntry(c), plan.limits)
          /\ Goes(c, IF call[c].key.of \in Texts THEN Stored(c) ELSE [call[c] EXCEPT !.at = "path"])
  /\ Pooled

SetsFilePath(c) ==
  /\ At(c, "path") /\ SetsPath(call[c].key, call[c].mtime)
  /\ Goes(c, Stored(c))
  /\ Pooled

-----------------------------------------------------------------------------
Invalidates(c) ==
  /\ At(c, "invalidate")
  /\ \E s \in call[c].ask : InvalidateFile(s)
  /\ GoesTo(c, "return") /\ Pooled

\* StopWorkerPool, and Close, which returns the error of a pool that was never
\* started before it has closed the cache.
Stops(c) ==
  /\ At(c, "stop")
  /\ \/ StopBegins /\ Goes(c, [call[c] EXCEPT !.at = "cancel", !.in = generation])
     \/ ~started /\ Fails(c) /\ UNCHANGED poolVars
  /\ Cached

CancelsPool(c) ==
  /\ At(c, "cancel") /\ StopCancels(call[c].in)
  /\ GoesTo(c, "queue") /\ Cached

ClosesQueue(c) ==
  /\ At(c, "queue") /\ StopCloses(call[c].in)
  /\ GoesTo(c, "wait") /\ Cached

WorkersGone(c) ==
  /\ At(c, "wait") /\ StopEnds(call[c].in)
  /\ GoesTo(c, IF call[c].op = "close" THEN "tickers" ELSE "return") /\ Cached

\* Close of the cache; its stop channels can be closed once.
StopsTickers(c) ==
  /\ At(c, "tickers")
  /\ \/ tickers /\ tickers' = FALSE /\ GoesTo(c, "persist")
        /\ UNCHANGED <<cacheVars, poolVars, plan, alive>>
     \/ ~tickers /\ Panics

PersistsLast(c) ==
  /\ At(c, "persist") /\ GoesTo(c, "clear")
  /\ IF plan.persistent THEN Persist ELSE UNCHANGED cacheVars
  /\ Pooled

Clears(c) ==
  /\ At(c, "clear") /\ Clear
  /\ GoesTo(c, "return") /\ Pooled

-----------------------------------------------------------------------------
ClientStep(c) ==
  \/ Calls(c) \/ Returns(c) \/ LooksUp(c) \/ Touches(c) \/ ParsesItself(c)
  \/ ChecksHealth(c) \/ StartsPool(c) \/ SubmitsBatch(c) \/ SubmitsParallel(c)
  \/ CollectsBatch(c) \/ CollectsParallel(c) \/ BatchGivesUp(c) \/ CollectsLast(c)
  \/ StatsAgain(c) \/ Evicts(c) \/ Stores(c) \/ SetsFilePath(c) \/ Invalidates(c)
  \/ Stops(c) \/ CancelsPool(c) \/ ClosesQueue(c) \/ WorkersGone(c)
  \/ StopsTickers(c) \/ PersistsLast(c) \/ Clears(c)

\* A worker's result reaches the call it is for, if that still waits; once the
\* context is cancelled it may be dropped.
Delivers(w, c) == c # NoClient /\ call[c].id = worker[w].task.id

WorkerStep(w) ==
  /\ alive
  /\ \/ (Loops(w) \/ Takes(w) \/ Exits(w) \/ Shares(w)) /\ UNCHANGED call
     \/ worker[w].at = "parse" /\ Parses(w, file[worker[w].task.of]) /\ UNCHANGED call
     \/ /\ Replies(w)
        /\ LET c == worker[w].task.for
           IN  IF Delivers(w, c)
               THEN \/ Goes(c, [call[c] EXCEPT !.box = Append(@, worker[w].result)])
                    \/ Current.done /\ UNCHANGED call
               ELSE UNCHANGED call
  /\ Cached

DeleteStep == alive /\ BackgroundDelete /\ UNCHANGED <<poolVars, call, plan, tickers, alive>>

CleanupStep ==
  /\ alive /\ tickers /\ Cleanup
  /\ UNCHANGED <<poolVars, call, plan, tickers, alive>>

PersistStep ==
  /\ alive /\ tickers /\ plan.persistent /\ Persist
  /\ UNCHANGED <<poolVars, call, plan, tickers, alive>>

\* The world: a file changes, an entry grows old, the process is killed.
FileChanges ==
  /\ alive /\ plan.rewrites > 0
  /\ \E f \in Files : Rewrite(f)
  /\ plan' = [plan EXCEPT !.rewrites = @ - 1]
  /\ UNCHANGED <<poolVars, call, tickers, alive>>

EntryExpires ==
  /\ alive /\ plan.expiries > 0
  /\ \E key \in DOMAIN entries : Expire(key)
  /\ plan' = [plan EXCEPT !.expiries = @ - 1]
  /\ UNCHANGED <<poolVars, call, tickers, alive>>

Killed ==
  /\ alive /\ plan.kills > 0
  /\ alive' = FALSE /\ plan' = [plan EXCEPT !.kills = @ - 1]
  /\ UNCHANGED <<cacheVars, poolVars, call, tickers>>

Restarts ==
  /\ ~alive /\ alive' = TRUE /\ tickers' = TRUE
  /\ Load /\ call' = [c \in Client |-> Idle]
  /\ generation' = 0 /\ started' = FALSE
  /\ chan' = [g \in 0..MaxGenerations |-> [Fresh EXCEPT !.done = TRUE]]
  /\ worker' = [w \in Worker |-> NotRunning]
  /\ UNCHANGED plan

\* Every plan has been carried out.
Done == alive /\ (\A c \in Client : call[c].at = "idle" /\ plan.calls[c] = <<>>) /\ UNCHANGED vars

CallStep ==
  \/ \E c \in Client : ClientStep(c) \/ Cancels(c)
  \/ \E w \in Worker : WorkerStep(w)
  \/ DeleteStep \/ CleanupStep \/ PersistStep
  \/ FileChanges \/ EntryExpires \/ Killed \/ Restarts \/ Done

Next ==
  \/ CallStep /\ UNCHANGED stream
  \/ StreamStep /\ UNCHANGED vars

\* Either calls are made or a document is streamed.
Init ==
  /\ CacheInit /\ PoolInit
  /\ call = [c \in Client |-> Idle]
  /\ tickers = TRUE /\ alive = TRUE
  /\ \/ plan \in Plans /\ stream = NoStream
     \/ plan = NoPlan /\ \E d \in Documents : stream = Opened(d)

\* Goroutines are scheduled, a timeout expires and a killed process is started
\* again.  Nobody has to cancel a call.
Fairness ==
  /\ \A c \in Client : WF_vars(ClientStep(c))
  /\ \A w \in Worker : WF_vars(WorkerStep(w))
  /\ WF_vars(Restarts)

Spec == Init /\ [][Next]_<<vars, stream>> /\ Fairness

-----------------------------------------------------------------------------
\* The types of the parts and of the calls.
ParsingTypeOK ==
  /\ CacheTypeOK /\ PoolTypeOK
  /\ \A c \in Client :
       /\ DOMAIN call[c].got \subseteq Source /\ call[c].store \subseteq Source
       /\ call[c].out \in Nat
       /\ mu = c => call[c].at = "set"

\* Of all the results that are in and on their way, a batch gets those of its
\* own files, and a parse or a hit never gives a version older than the begin
\* of the call, unless the entry was stored while its file was changing
\* (worker_pool.go:195, cache.go:843, cache.go:473).
OwnAndFresh ==
  \A c \in Client :
    (call[c].at = "return" /\ ~call[c].failed /\ call[c].op \in {"file", "batch"}) =>
      /\ DOMAIN call[c].got = call[c].ask
      /\ \A s \in call[c].ask : call[c].got[s] >= call[c].since[s] \/ s \in call[c].stale

\* A task of a batch is never lost while the pool it was given to runs: it is
\* in the queue, with a worker, or its result is in the batch's own channel.
Mine(c, task) == task.for = c /\ task.id = call[c].id
NoTaskLost ==
  \A c \in Client :
    (call[c].at = "collect" /\ call[c].op = "batch" /\ call[c].in = generation /\ ~Current.done) =>
      call[c].out = Cardinality({k \in DOMAIN Current.tasks : Mine(c, Current.tasks[k])})
                    + Cardinality({w \in Running : worker[w].at \in {"parse", "share", "reply"}
                                                   /\ Mine(c, worker[w].task)})
                    + Len(call[c].box)

\* What was parsed loses no more of its text than a piece shorter than MinSize
\* between two chunks or at the end (text.go:192), and so do the other
\* strategies (text.go:135); a document that is streamed neither, however it is
\* cut into reads, but for its last sentence (streaming.go:224).
ChunksLoseLittle ==
  /\ StreamKeeps
  /\ (stream.at = "read" /\ stream.rest = stream.document) =>
       CutsLoseLittle(stream.document, stream.config)
  /\ \A c \in Client : call[c].at = "stat" =>
       \A s \in call[c].store : LosesLittle(plan.text[s], Normalized(plan.chunking))

\* Every call returns, but for the three that may not: a Set whose eviction
\* comes upon a key a Get put back, and everybody behind it (cache.go:917); a
\* Stop during which the pool was started again (worker_pool.go:143); and a
\* ProcessFilesParallel whose results others took (unified.go:290).
Wedged(c) ==
  \/ mu # NoClient /\ revived # {}
  \/ call[c].at = "wait" /\ call[c].in < generation
  \/ call[c].at = "collect" /\ call[c].op = "parallel"
CallsReturn == \A c \in Client : (call[c].at # "idle") ~> (call[c].at = "idle" \/ ~alive \/ Wedged(c))
=============================================================================
