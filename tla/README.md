# Formal models of ai-memory-go

TLA+ models of the repository's core and of the parts it stands on, the TLC
configurations that check them on small instances, and theorems that TLAPS proves
for all instances of the ingestion pipeline, of the sweep that recovers it after a
crash, of the connection pool under its manager, of clients that share a row store or
a model's client, of the provider managers and the embedder, of the parser with its
cache and its pool, of the graph stores, and of the engine over its stores. Everything
is translated from the Go source; line numbers are in `PROJECT.json` (`map`).

## The system and its parts

An application *adds* texts to a memory engine. Each text (an **input**) is cut
into **chunks**; a chunk is *cognified* (embedded, entities and relations
extracted by an LLM, saved as drafts in its row) and then *memified* (the drafts
are written to the graph and vector stores). Searches read what is there.

| Component | State it keeps | Operations | Talks to | What makes it correct |
|---|---|---|---|---|
| Worker pool and tasks (`engine/worker_pool.go`, `task_cognify.go`, `task_memify.go`) | a bounded queue, `quit`, what each worker is doing | Submit, Execute of both tasks, Stop | row store (each call atomic), LLM, embedder, graph, vectors | no chunk processed twice or dropped; the status of an input tells the truth; no jam; Stop returns |
| Engine (`engine/engine_core.go`) | the pool, history buffers | Add, Cognify (queued or waiting), CognifyPending, Memify, Close | pool, row store | what is handed over is brought to an end; the sweep recovers and ends |
| Search, requests, think, deletion (`engine/search*.go`, `request.go`, `think.go`, `delete_session.go`) | none of their own | Search, Request, Think, DeleteMemory | all stores | sessions see their own rows; deletion leaves nothing behind |
| Row storage (`storage/adapters/*`) | tables `datapoints`, `input_datapoints` | store, get, update (whole row), query, delete | database | one statement is atomic; newest first |
| Connection pool (`storage/connection_pool.go`) | idle channel, active map, counters | Get, Put, Close, maintenance loop | drivers | one owner per connection; slots neither leak nor exceed the maximum |
| Health monitor (`storage/health_monitor.go`) | running flag, last results | Start, Stop, CheckAll, CheckOne | checkers | one loop at a time; Stop ends it; reports are earned |
| Storage configuration and manager (`storage/config_factory.go`, `connections.go`) | profiles, pools, monitor | profiles, overrides, validation, open, Close | drivers, pools, monitor | what was accepted is what is built |
| Configurations and factories (`extractor/config_manager.go`, `registry/provider_factory.go`) | settings, file and its time, watchers | load, save, update, auto reload, registration | file, environment, registry | the settings are the file's; providers are the settings' |
| LLM and embedding clients (`extractor/providers`) | model, length of vectors, counters | complete, embed, batch, SetModel, Configure | services over HTTP | an answer is the caller's own; a call gives up for cause |
| Extraction (`extractor/basic_extractor.go`, `extractor/deberta`) | the tagger's session and tensors | entities, relations, comparison | LLM, tagger | entities are the text's own; merges go to the right node |
| Provider managers (`extractor/registry`) | providers, health, availability | failover, health checks | LLM providers | order of failover; no check after Stop |
| Embedder with cache (`vector/embedder.go`) | cache, fallbacks | single and batch embedding | providers | the i-th answer belongs to the i-th text |
| Parser pool (`parser/concurrency`) | task and result channels, metrics | Start, Stop, ProcessFiles | file system | every file gets one result; Stop is safe |
| Parsing cache (`parser/cache`) | entries, LRU list, tags, memory account | Get, Set, Delete, eviction | - | the four structures agree |
| Vector stores (`vector/adapters`, `schema/memory_labels.go`) | vectors, metadata | store, update, delete, search with filters | database | the nearest that fit are found |
| Graph stores (`graph/adapters`) | nodes, edges, adjacency lists | create, delete, traverse | - | the lists name existing edges |
| Chunker and formats (`parser/formats`) | none | ParseText, ... | - | no sentence is lost |
| Web view (`internal/view`, `internal/sessionid`) | none | lists, pages, snapshots, add, delete, wipe | engine, stores | what is shown is what there is, for the session that was named |
| Command line, MCP server (`internal/cli`) | none that matters here | flags, one call each | engine | I/O only; not modelled |

The hard behaviours of the core are in the first two rows. Chunks are passed between a
splitter goroutine, a bounded channel, workers that also produce for that
channel, and callers that execute inline; the row of an input is written by
several memifies from copies taken earlier; any store call may fail half way
through a task; and the process may die at any point, leaving only the rows.
The other concurrent parts (connection pool, health monitor, parser pool,
caches) are classical monitors with races around Close, counters checked before
they are changed, and asynchronous deletions. The stores behind the engine are
interchangeable by configuration and differ in what they do with the same
calls. All of it is listed, at its line, under `hazards` in `PROJECT.json`.

## Modules

| Module | Models | Checked by |
|---|---|---|
| `CognifyPipeline` | worker pool, both tasks, Add / Cognify / Close | `MCCognifyPipeline` |
| `CognifySweep` | extends it with CognifyPending and crashes | `MCCognifySweep` |
| `IngestContract` | what the pipeline promises about the rows (abstract) | `MCCognifyPipeline` |
| `CognifyPipelineProofs` | theorems about `CognifyPipeline` | the prover |
| `CognifySweepProofs` | theorems about `CognifySweep` | the prover |
| `ConnectionPool` | GenericConnectionPool: Get, Put, Close, Health, the maintenance goroutine | `PooledStorage.cfg` |
| `PooledStorage` | composes it with the health monitor and Close of the manager | `PooledStorage.cfg` |
| `PooledStorageProofs` | theorems about the pool, by itself and under its manager | the prover |
| `GraphInMemory`, `GraphSQLite`, `GraphRedis`, `GraphNeo4j` | each graph store as operators on its data | the next two |
| `GraphStores` | the four stores given the same calls | `MCServices` |
| `RowTables` | the two tables of datapoints as operators | `MCServices` |
| `SharedRows` | clients that add and cognify over one relational store | `MCServices` |
| `RelationalStores` | both relational adapters under two callers: batches, queries, pages, sessions | `MCServices` |
| `VectorAdapters` | the five vector stores under two clients; labels, tiers and filters | `MCServices` |
| `EmbeddingClients`, `ModelClients` | one embedding or language model provider and its callers | `MCServices` |
| `ClientsProofs` | theorems and lemmas about the clients of the rows and of the models: `SharedRows`, `EmbeddingClients`, `ModelClients` | the prover |
| `Configurations` | the configuration manager, its file, the registry and the factories | `MCServices` |
| `StorageSetup`, `HealthMonitoring` | the storage configuration, the pooled manager, the whole monitor | `MCServices` |
| `Thinking` | Think and the analysis of a conversation | `MCServices` |
| `Extraction` | both extractors, and what Memify compares and merges | `MCServices` |
| `WebView` | the web view beside a working engine | `MCServices` |
| `Services` | puts the eleven parts above (its *families*) side by side in one run | `MCServices` |
| `ServicesProofs` | theorems about the graph stores, and about the clients among them | the prover |
| `VectorStores` | the vector stores as operators | `MCMemoryEngine` |
| `MemoryEngine` | composes rows, vectors and a graph store: ingestion, deletion, requests, searches | `MCMemoryEngine` |
| `MemoryEngineProofs` | theorems about it | the prover |
| `ParsingCache`, `ParserPool` | the cache and the pool of the parser, one operator or action per locked section | `MCParsing` |
| `TextChunking` | the strategies of the text parser, over sentences and over characters; ParseFileStream: reads, buffer, overlap, last buffer | `MCParsing` |
| `Parsing` | composes the three: the calls of the cached parser | `MCParsing` |
| `ParsingProofs` | theorems about `Parsing` | the prover |
| `ProviderManager`, `AutoEmbedder` | managers, registry entries and health checker; the embedder with its cache | `MCProviders` |
| `Providers` | composes them: the clients' calls step by step | `MCProviders` |
| `ProvidersProofs` | theorems about `Providers` | the prover |

### CognifyPipeline

`input[p]` is the row of an input: its status and the metadata
`chunks_created` (`split`) and `processed_chunks` (`processed`). `chunk[c]` is
the status column of a chunk row, `"none"` before it exists. `queue` is
`taskQueue`, `feeder[p]` the position of the goroutine that submits the children
of `p`, `run[r]` the frame of a goroutine that executes a task: the step it is
at (`pc`), and the locals that survive a step - above all `copy`, the
`chunks_created` of the copy of the input row it has read, and `tally`/`all`,
its last count of the children. `handed` are the inputs given to Cognify; a
client does so once per input. `faults` counts the store calls that failed.

One action is the code between two calls on the store or the queue:

- `Add`, `CognifyAsync`, `CognifyWait`, `Close`: the client calls. `Add` stands
  for the whole of its handler except that an input *is* a content, so that the
  deduplication query never finds another row.
- `Take`, `Exit`: the select of a worker; when both cases are ready either wins.
- `CreateChild`, `Publish`, `FailNested`, `Feed`: Execute on an input. With
  WaitUntilComplete the children are executed inline (`Inline`, `Synced`,
  `Aborted` say how one step goes on to the next child), otherwise `Feed` is the
  goroutine that submits them.
- `Mark`, `Extract`, `Chain`: Execute on a chunk; `Memify`, `LoadInput`,
  `CountChildren`, `SaveInput`: the memify and the sync it ends with, in three
  steps because the code takes no lock over them.

Every store write has a failing variant that costs one of `MaxFaults`; where
`fail()` writes again, its own failure costs another. Embedding, extraction,
graph and vector errors are only logged by the code and change no status: they
are part of `Extract` and `Memify`. The sub-chunks that Execute embeds in
parallel end in one join before the row is written and share nothing else, so
they are one step.

### CognifySweep

`SweepQuery`, `SweepItem`, `SweepReturn`, `SweepRound` are the loop of
CognifyPending; its Cognify is the waiting Cognify of `CognifyPipeline` run on
the goroutine `Sweeper`. `Crash` empties the queue, the frames and the splitters
and keeps the rows. The order of a round (`Before`) is the newest-first order of
the query: the chunks of an input before the input. `Alone` restricts the sweep
to the situation of the command line, where the pool is idle.

A query of the sweep asks for the 1000 newest rows, of both tables and whatever their
status, and looks for pending and processing ones among those (`Newest`, `Workload`;
`born` is the order in which the rows were created, `SweepLimit` the 1000). What lies
behind a thousand newer rows is therefore never recovered, however often the sweep is
run, although its comment (`engine_core.go:235`) speaks of "all pending/processing
items until no more work remains"; and the chunks a sweep creates itself push older
rows out of its sight. `SweepRecovers` promises what holds: all that the query still
returns at the end is completed (`ReachDone`).

### ConnectionPool and PooledStorage

`idle` is the channel of idle connections, `active` the map, `total` the counter
TotalConnections; `call[c]` is the frame of a client inside Get or Put, `maint`
that of the maintenance goroutine. A step is what happens between two points
where the code lets go of the lock or may block: Get's select, creation, the
second lock; Put's check and send; the three passes of the maintenance (collect
what expired, refill to the minimum, sample the health). Connections expire, stop
answering or cannot be created at any moment. `PooledStorage` adds the health
monitor, which is itself a client of the pool, its retries, and Close of the
manager (stop the monitor, then close the pool).

What the code does and the model therefore does too: Get's discard of an invalid
connection and Put's discards never give the slot back, so `total` only
overstates what is open (`SlotsCovered` is the other direction, and bounds by one
the overrun of the maximum by `ensureMinimumIdle`; `OneOwner` also says that a
connection is usable while it is held); a Put that passed the closed check may
send on the closed channel and panic, and a Get may receive nil from it. The
other calls of the monitor are in `HealthMonitoring`.

### Graph stores

The four stores have one operator per call, on a record that holds what the
store holds (maps and adjacency lists in memory; two tables; sets in Redis; nodes
with labels and relationships in Neo4j). `GraphStores` gives them the same calls
and compares. `Hops` is the reference: chains of edges, written without regard to
how a store searches. The in-memory lists are allowed to be wrong in the way the
code makes them wrong: `InMemoryReadsOwnEdges` bounds the damage instead of
denying it: a traversal that comes to its end has been at no node that the edges do
not lead to within its depth, and at every neighbour of its start; at all the nodes
within its depth only where no way is longer than that, since a node it has entered
deep down is not entered again. A stale id in the lists makes a traversal dereference
nil; the operators return that as `panic`. And an edge of one session to a node of
another outlives a wipe of the other: its end is then a nil among the nodes that the
traversal returns.

### RowTables and SharedRows

`RowTables` translates the statements of the SQLite adapter, of which the
PostgreSQL adapter has the same: an upsert keeps `created_at`, an update tries
the table its `is_input` flag names and then the other, a query reads both. In
`SharedRows` each client runs Add and then the waiting Cognify, one store call a
step; the lookup of Add is two steps because it is two statements. `copy` is the
row a client was handed, which it writes back whole after the split and after its
last chunk; `read` is the copy a sync reads. `added` is history: for each input,
the inputs stored before its Add began, and whether it was ever cognified by its
id. `cognify --id` hands over a datapoint
with nothing but an id: it writes the row's content, session and flags away (the
update falls back to the input table), and a sync of a client with the older copy
may bring them back; the chunks are complete either way, which is what
`HandedTwiceDone` says. It is also why `AddsFindEarlier` has an exemption for such
inputs: their row is blank for a while, is then not found, and may be found again
later. Texts are not empty. When Add finds a row that was split already, the Cognify
that follows only synchronises it and returns without an error while another
client may still be at work on its chunks: `memory_add` of the MCP server then
reports `cognify_completed` early.

### VectorStores and MemoryEngine

`row`, `vec` and `graph` are the three stores, in one of four configurations
(`Stacks`). The ingestion is a sequence of store calls (embed the chunk, embed
the document, save the drafts, store or merge each node with its vector, store
the relationships, complete), the client's call is a list of jobs, each a list of
store calls, and the two interleave at every call. A search changes nothing, so
it is an operator over a state: `SearchFinds` evaluates the default and the
four-tier search in every state for every memory and session. With the in-memory graph
a search may panic instead (`Panics`): at an edge whose id is still in a list, or at a
nil node, which it asks for its ID (`search_four_tier.go:434`). Both are reached in the
run: the first after any deletion of a node with an incoming edge, the second when
consistency reasoning gives a global node to a memory of a session, whose edges then
lead to it, and what belongs to no session is wiped. `raced` and
`overlap` mark what was removed while it was being written.

Abstractions: a text is the set of names it mentions and fits one chunk; a status
is completed or not; labels are in `VectorAdapters`; a request's own Add and Cognify is the
ingestion that is under way anyway; one client deletes, one ingests (two that add
are in `SharedRows`). Facts of the code that bound the properties: DeleteMemory of
an input's id leaves its chunk's row, vectors and nodes; `entity-...` vectors are
never deleted; a wipe of a session does nothing in the Redis graph; consistency
reasoning moves a shared node into the session of the newer memory, and
relationships keep the node id of their extraction; the deletion by type finds
nodes in memory only; the Redis search returns ten hits at most; Qdrant's hit ids
are hashes, and its filter on the Boolean `is_entity` matches nothing; the legacy
search applies the vector limit before it looks at sessions; what a request
forgets is chosen by similarity over all sessions.

### Parsing

`Parsing` gives each client a plan of calls (ParseFile through the cache, batches,
parallel calls, invalidation, stop, close) and runs them step by step over
`ParsingCache` and `ParserPool`; a plan also sets the limits, the policy and how
often files change, entries expire, contexts are cancelled and the process is
killed. A locked section is a step. A lookup and its validity check are one step,
as are the two stats of SetByFile and the write of the cache file. Facts of the
code: a Get may put the key of a removed entry back into the LRU list, after
which the eviction loop turns for ever under the lock; a replaced entry stays in
the account; the deletion of a stale entry is by key and may delete a fresh one;
ProcessFiles beside Stop may send on a closed channel; ProcessFilesParallel takes
results from a queue all calls share; the `break` of a retry leaves the select
only; a second Close of the cache panics. The properties exempt exactly these and
say so in their comments.

`TextChunking` is the sentence strategy the engine uses, over sentence lengths, and
the paragraph and fixed-size strategies over characters; its `stream` is the
StreamingParser, the reader that cuts a file buffer by buffer, with every way the
reads may fall. Facts of the code: a last chunk shorter than MinSize is dropped
(up to 499 characters at the engine's sizes); the stream loses the last sentence
of its final buffer when MinChunkSize characters precede it, and turns `!` and
`?` into full stops; a paragraph larger than the maximum is not split by the
stream; the fixed-size loop does not end when ChunkOverlap = MaxChunkSize;
trimming the overlap can join two words. The properties bound the loss.

Text is characters of one byte; a configuration replaced during a parse, tags,
compression and the semaphore of the cached parser are not modelled.

### ProviderManager, AutoEmbedder, Providers

A manager's entries, the registry's records, the health checker's goroutine and
flags are the state; a provider answers or does not, and turns at any moment. A
failover looks an entry up, asks without the lock, and marks it later. Facts of
the code: ExecuteWithFailover sorts the names with an array that is not permuted
along and is right for two names only; a name registered again does not close its
former provider; the registry's HealthCheck may write the answer of a name's
former holder into the new record, and never touches the manager's flags; a late
mark of an old failure may undo a newer check; the HealthChecker cannot be
started again after Stop. In the embedder the cache key is the text alone, so
that vectors of a former primary or of a fallback are served for 24 hours; a
batch fails at once without fallbacks where a single text would try them; the
length of a batch's answer is not checked. The providers' own retry loops are
inside one ask here; `ModelClients` and `EmbeddingClients` open them.

### EmbeddingClients and ModelClients

One client object and its callers, over a service that answers, refuses or fails
in every way the code tells apart. `emb` is the object with its model and length
of vectors, `asks[u]` the frame of a caller; `clash` remembers whether somebody
wrote model or length during another's call. `llm`, `talk` are the same for the
language model clients, with the attempts of a call. Facts of the code: a call
with options writes its length into the object all callers share and the old one
back, so that overlapping calls take each other's length and may leave it behind;
whether a call is retried is read off the *text* of the error, which has the
status only if the body of the reply could not be read, so that a server error in
a readable body is given up at once and a refusal that quotes a pattern is sent
again; Gemini makes its address anew for each attempt; Ollama and the OpenAI
library's clients send once. Left out: keys and endpoints, streams' pieces,
Ollama's own health call.

### Configurations

`settings` is what the manager has, `disk` the file with its time, `records` the
registry; loads hold the manager's lock, an editor of the file does not. Facts of
the code: a write between ReadFile and Stat is never noticed (the one exemption
of `FileIsFollowed`); a load does not validate; an entry from the environment
replaces the whole entry of the file; the manager reloads its own save; a reload
changes the settings but no provider that was made from them, and the registry
writes what it was given back into the settings. The factories drop endpoint and
timeouts of OpenAI's and Gemini's settings, and the embedding registry validates
before the defaults are merged in.

### StorageSetup and HealthMonitoring

`heap` holds the three parts of a configuration, which profiles and those who ask
for one share, `pools` the pools of a manager, `loops`, `runs` and `runner` the
monitor's goroutines and the runs of its checks. Facts of the code: a profile is
copied by assignment, so that an edit of what was handed out edits the profile
(`ProfilesAreKept` says that nothing else does); the keys of a YAML file are the
lower-cased field names, not the ones of the JSON file; the pools of graphs and
vectors begin with two connections whatever their maximum; every connection of an
in-memory store has a store of its own; the check of a pool borrows a connection and
puts it back before it reads the statistics, so that a pool of which the callers have
every connection keeps the check waiting until CheckTimeout and is reported
*unhealthy* although its backend answers, one with more than nine of ten connections
lent is degraded, and what is rated is not what was pinged; a Get that still waits
when the manager closes the pool receives nil and panics; the loser of two Stops returns before the
loop has ended; without automatic checks the channel is never made, so that the
second of two stops closes a closed channel; a Start beside a Stop may
leave a loop running; the time of CheckOne runs while it waits for the lock. The
callbacks of the monitor are left out, and so is a check that keeps its connection
while others look for one (in `PooledStorage` it does): ping and return are one step.

A report is compared with what there was to find while its run was under way (`seen`:
whether Health could succeed, whether the pool was lent out), recorded apart from what
the checks say. `ReportsAreEarned` says of each rating why it may be given.

### VectorAdapters

`kind` says which of the five stores a behaviour is about; `place` and `vectors`
are its entries and the vectors they lead to, `turn` the clients' calls item by
item, `promise` what the calls that nothing overlapped have left. The vectors lie
on a line, the query at its end; a search changes nothing and is an operator that
the properties evaluate in every state. Facts of the code: SQLite's score is
1/(1+L2) where the others take the cosine, so a threshold means something else;
Redis answers ten hits at most and filters them afterwards, its drop keeps the
hashes, and an update after a deletion leaves an entry without metadata; a SQLite
store that races a deletion says OK and stores nothing, and of two stores of a
new id the second is an error; rows without an entry still take places among the
nearest; pgvector answers nothing or an error for a limit of 0 or less, and its
table is only made by CreateCollection; its search does not ask rows.Err either
(`pgvector.go:207`), which is left out of the model here; a wanted label widens pgvector's window to
at most four times the limit; Qdrant's filter is a keyword, taken letter by letter,
where the engine folds capitals; the in-memory store returns a vector of another length with
score 0. The engine calls neither updates nor batches nor drops.

### RelationalStores

Both adapters over `tables`, `sessions`, `messages`; `course[p]` is a caller in
its call, statement by statement, `answers[p]` what a query has gathered with
what was there always and ever, `pledge` what the undisturbed calls have left.
Facts of the code: the filters, CreatedBefore and UpdatedAfter of a query are
ignored; SearchDataPoints asks for 100 rows; LIKE folds ASCII capitals in SQLite,
ILIKE all of them in PostgreSQL; the sort is not stable, so rows of one time may
change places between pages; DeleteBatch goes by slices of 900 in SQLite; messages
of sessions that never were, or are ended, are kept. Described only: SQLite
compares times as texts, and sslmode is added twice to PostgreSQL's address.

No query asks rows.Err after its loop (`postgresql_adapter.go:438`,
`sqlite_adapter.go:459`): where the connection or the context ends while rows are
read, those read so far are the answer, without an error. `QueriesRows` has that as one
of its failures, and `QueriesAreWhole` asks for all rows of every query it did not
happen to (`broken`); no answer, broken or not, has a row that never was. In the other
modules, which use queries, a query that fails is an error. `PagesAddUp` says that
pages show each row once if no two rows are of one time; if there are such, a row may
be on two of the pages one reads, or on none.

### Thinking

`thought[t]` is a question under way, `replies` what the model said, `shown` the
pieces its prompts had, `bridges` what was learned, `analyst` the analysis in the
background. The model says anything from a small set at every step. A question has
the memories that are `near` it, of any session, the entities it `names`, and a
`limit`; `Retrieves` makes the context of them as the search does: the memories that
the session may see, near ones and such as the graph leads to, cut at the limit, and
then up to `NodesShown` (20 in the code) nodes of the graph around what the question
names or what the memories near it are about, of *any* session, since nodes are listed
without a look at theirs (`search_four_tier.go:429`, `:491`). So another session's words
are in a prompt in two ways and no other, which is what `PromptsAreOwn` says: as such a
node, or as what a hop looked up for an entity the model asked for. Facts of the
code: the missing entities of a segment's answer are dropped, an answer that also
misses entities is not taken, an unreadable reply *is* the answer; the lookups of
a hop know no session, nor do the nodes of an analysis, whose goroutine outlives Close; a sentence longer than the limit is cut
by characters and may exceed the limit in bytes; Request answers "I have memorized
this information" when Think failed or said nothing, and leaves only the user's
message of a request whose intent it cannot read.

### Extraction

`drafts[c]` is the text of a chunk on its way from words or replies to nodes and
edges, `occupant` and `tensors` the tagger's session, `entities` what the graph
has, `verdicts` how drafts were compared. Facts of the code: Cognify stamps
`source_id` and a time on every node, so that the comparison finds two memories'
equal entities contradictory, as it does different confidences or capitals: only
nodes of the same memory, or such as a request was told of, are merged
(`MergesWithOwn`); two memories that compare at the same time may overwrite each
other's merge; in text mode empty names are kept; the last of repeated names gets
the relations; an entity the tagger finds twice becomes two nodes joined by
SIMILAR_TO; a blank other than space, tab or newline shifts the tagger's words
(`SpansAreOwn` is about texts without); what is beyond the maximum length is not
seen. Nothing closes the tagger.

### WebView

`memories`, `preview` and `web` are what the pages show; the engine works off an
`agenda` of writes meanwhile; `visits[v]` is the request being served, `scenes[v]`
what there was while it was. A request whose reads are one query is one action;
the vectors are looked up one by one, the snapshot of the graph goes type by type
and node by node. The four readings of the word for a session are operators, and
`SessionsAgree` says how they fit. Facts of the code: pages by offset skip a row
after a deletion and repeat one after an addition; a full snapshot may have links
to nodes it does not show, and the rows' own relations may lead to nodes that are
not shown either; an unknown tier lists the general one; no word lists all rows
and wipes none; the page deletes a row under the session that stands there, and
leaves the session out for a global row (with `session=global` it would be an
error).

## Runs

| Run | Expect | Shows |
|---|---|---|
| `pipeline` | pass | Two workers, a waiting caller, two inputs (2 and 1 chunks), queue of 2, up to 2 store failures, Close at any time. Custody, nothing lost, honest statuses, no jam *at this load*, WithWaitCognify, termination, and the contract. |
| `sweep` | pass | Two crashes, one store failure, queries of three rows where there are up to five: the sweep completes what is recoverable and in its sight, and keeps published work. |
| `pooled_storage` | pass | A client, the monitor and the maintenance goroutine on a pool of one: one owner per connection, no slot understated, nothing left open after Close, Close returns. |
| `services` | pass | Eleven families, each behaviour about one. Graph stores: reads are what the edges say, the stores agree, a wipe clears. Rows: an input is stored twice only by overlapping Adds, and its chunks are complete however many Cognify calls shared it. Clients of the models: an answer is the caller's own, lengths are as asked while nobody interferes, nothing is given up without cause. Configurations and storages: the file is followed, profiles are kept, what is accepted is built, Stop is final, reports are earned. Vector and relational stores: undisturbed calls leave what they say, the nearest are found, queries and pages are whole. Thinking, extraction, web view: see their sections. |
| `memory_engine` | pass | Two ingestions against deletions, wipes and requests, over four configurations: nothing deleted comes back, what is left behind is bounded, what is complete is found from its session. |
| `parsing` | pass | Two callers of the cached parser under changes, expiry, restarts and kills: a result is the caller's own and fresh, no task is lost, calls return; every text of up to four sentences and every document of up to seven characters loses little. |
| `providers` | pass | Two clients on both failovers and the embedder while providers fail, come back and are replaced: an answer comes from a provider that was asked, a failure marks the one that failed, calls end and marked entries heal. |
| `pool_jam` | violation | Queue of 1: both workers block sending a memify. |
| `close_hangs` | violation | A worker blocked in Submit after the others have exited; Close waits for ever. |
| `lost_sync` | violation | Two concurrent syncs; the older count is written last; the input stays processing. |
| `sweep_forever` | violation | A crash leaves a chunk cognified; the sweep never ends. |
| `partial_split` | violation | A split fails half way; the sweep later announces the input as completed. |

### Bounds

*Pipeline and sweep.* Two chunks of one input are what a race of two syncs needs,
a second input makes the queue shared, two workers are needed for every jam and
race; the queue of 2 is shorter than the three chunks, so splitters do block, but
the load stays below workers plus capacity, the condition under which no jam is
possible (`pool_jam` is what happens above it; with the 1000 of the code it takes
an input of about a thousand chunks). Two faults let a write fail together with
the write of its failure; more only repeat that. The sweep's queries return three
rows (`SweepLimit`) of the five there may be, so that an input can be out of sight
before a sweep begins and get out of it by the chunks of another. The passing runs take
from seconds to three minutes; the largest are `memory_engine` with 3.1 million and
`services` with 0.6 million states.

*Pool.* One slot makes every race a race for the same connection; three
connections in all (`Created`) allow one to be discarded and one replaced while a
third is held; one retry of the monitor shows the second attempt.

*Services.* Each family has plans of its own (in `MCServices`), and the properties
of the families are conjoined by what they are about: `ReadsAreExact` (graph
stores, web view, thinking, extraction), `ClientsAreSound` (model clients),
`SetupsHold` (configurations, storages), `BackendsHold` (vector and relational
stores). Graphs: three nodes, two edges and depth 2 have cycles, diamonds cut
short by the depth, and edges whose end is missing; nodes are interchangeable,
which the symmetry set uses (the run has no liveness property). Rows: two clients
with one or two calls each, texts of two chunks and of one, two sessions, two
tiers: the second chunk is what makes the content of a chunk differ from that of
its input. Clients: two callers with one to three calls; two models; lengths the
model knows and one it refuses; three attempts as in the code. Configurations: two
admins, two watchers, three entries, two edits of the file of which one cannot be
read, three ticks. Storages: two operators with up to six calls, two loops, two
ticks, one retry; every kind of part once, bounds of one and two connections, and
backends that fail, or whose pools are lent out in part or as a whole, and come back.
Vectors: two clients with up to three calls over a stock of one entry, or of
twelve, more than Redis answers and than the first window of SQLite holds, with
what is wanted last. Rows under statements: two callers, one failure, slices of
one row. Thinking: two questions of a session with memories of their own, of another
session and of none near them, one node shown, two steps and the five kinds of reply; segments of 4 bytes against sentences of 1 to 10. Extraction: two texts of
up to four words under 8 tokens, replies with repeated, nameless and unknown
entities. Web view: four rows (a global one, a chunk of another session), two
visitors, pages of one and two rows, limits that cut the snapshot and one that
does not.

*Engine.* Two inputs that share a name, so that nodes are merged and shared; a
repeated content; the global session and a named one, in both orders; consistency
reasoning over the in-memory and the SQLite graph; two calls of the client,
one failure of embedder or extractor.

*Parsing.* The plans in `MCParsing` (two clients with one to three calls, one
worker, a queue of one, two attempts, at most three generations of the pool) are
each built for a race; the sizes of texts are small against the limits so that
every branch of a strategy is taken, and configurations keep 2 Min < Max and
Overlap < Max as the defaults do.

*Providers.* Two or three names, at most three instances, one retry, two turns of
a provider; two embedders and two texts. Three names are what the wrong order of
ExecuteWithFailover needs; `BestFirst` asks it about two.

Runs that may really stop (no more calls) do not check deadlock; their liveness
properties, where they have them, say what must have happened.

`CompletedMeansDone` holds in the pipeline and is violated in `partial_split`:
the difference is that a sweep may cognify the children of a failed split, which
the pipeline alone never touches again. `CompletedIsFinal` is stated in the
module for the reader but is in no passing run: it is the same stale write as
`lost_sync`, seen as a step.

### Fairness

- `CognifyPipeline`, `CognifySweep`: goroutines are scheduled and store calls
  return (weak fairness of each task step, of each worker's select, of each
  splitter). None of clients or crashes. A blocked send is a disabled action, so
  weak fairness promises nothing there. Go's select picks among ready cases at
  random; weak fairness of `Take \/ Exit` promises only that an idle worker does
  one of them.
- `PooledStorage`: weak fairness of the goroutines the pool owns and of the
  monitor inside a call; strong fairness of the choice that ends a loop, since a
  select that finds `stopChan` closed again and again takes it. None of the
  client, which may keep its connection.
- `Parsing`: weak fairness of each client's step, each worker's step and the
  restart after a kill.
- `Providers`: strong fairness of each client (a waiter for a `sync.RWMutex` is
  not overtaken for ever), weak of the checker's step, strong of its tick and
  exit for the reason above.

## Proofs

The theorems are about the specifications without fairness, for every value of
the constants that the assumptions allow:

- `ConstantsAssumption` (pipeline): counts are naturals, the queue has room for
  one task, workers are not callers. Any inputs, workers, callers, any number of
  store failures.
- `SweepAssumption` (sweep): the sweep runs on the goroutine of a caller. Any number
  of crashes and of failures.
- `PoolAssumption`, `MonitorAssumption` (pool): finitely many goroutines ever use
  the pool, the minimum is at most the maximum, the maximum is not 0.
- `RowsAssumption` (shared rows): a text has a name and at least one chunk, a
  client is to do a finite sequence of Adds and of `cognify --id`. Any clients.
- `CacheAssumption`, `PoolAssumption`, `PlansAssumption` (parsing): finitely many
  sources, a `NoClient` that is no client, counts that are naturals (workers, queue
  and attempts not 0, to which the code defaults none of them), and plans
  that are workloads: finite sequences of the calls the program offers, a batch of
  any files with repetitions, any limits, any of the four policies, any number of
  rewrites, expiries, cancellations and kills. Any clients.
- `ManagerAssumption`, `ProvidersAssumption`, `PlansAssumption` (providers):
  finitely many names, a natural number of retries and of registrations, a
  client's calls are a finite sequence of those the program offers; a batch has a
  text, since one without returns at once (`embedder.go:124`). Any clients,
  priorities, embedders and texts.
- `GraphAssumption` (graph stores): the bound of the calls of CreateRelationship is a
  natural number. Any nodes, values, sessions and number of other calls.
- `EmbeddingClientsAssumption`, `ModelClientsAssumption` (clients of the models):
  finitely many users embed, an object is made with a model that the constants name,
  and each user has a finite sequence of calls; of a request to a language model at
  least one attempt is made. Any number of callers of a language model, any texts,
  failures and names.
- `EngineAssumption` (memory engine): the inputs are numbered from 1, what is told or
  related has a number of its own, `NoSource` is no row's id; a text mentions names, a
  configuration is a kind of graph store, a kind of vector store and whether there is
  consistency reasoning, a request names at most two names to relate. Any inputs, texts,
  sessions, names, requests and number of client calls.

| Theorem | Module | States |
|---|---|---|
| `TypeCorrect` | `CognifyPipelineProofs` | `[]TypeOK` |
| `Custody` | `CognifyPipelineProofs` | `[]SingleCustody` |
| `Announced` | `CognifyPipelineProofs` | `[]CompletedMeansDone` |
| `Earned` | `CognifyPipelineProofs` | `[]ProcessedIsEarned` |
| `Refinement` | `CognifyPipelineProofs` | `Spec => Contract!ContractSpec` |
| `WaitedFor` | `CognifyPipelineProofs` | `WaitMeansDone` |
| `NothingDropped` | `CognifyPipelineProofs` | `[]NothingLost` |
| `RoomForAll` | `CognifyPipelineProofs` | `[]PoolNeverJams`, for a bounded load |
| `SweepTyped` | `CognifySweepProofs` | `[]SweepTypeOK` |
| `PublishedKept` | `CognifySweepProofs` | `PublishedWorkKept`, for a sweep with the store for itself |
| `PoolInvariant` | `PooledStorageProofs` | the pool by itself keeps `PoolInv` |
| `ManagedPool` | `PooledStorageProofs` | `Spec => PoolSpec`: the composition refines the pool by itself |
| `ManagedOwners`, `ManagedSlots`, `ManagedCloses` | `PooledStorageProofs` | `[]OneOwner`, `[]SlotsCovered`, `[]ClosedLeavesNothing` |
| `ManagedTypes`, `MonitorStaysOut` | `PooledStorageProofs` | `[]TypeOK`, `[]MonitorOutOfClose` |
| `RowsTyped` | `ClientsProofs` | `[]RowsTypeOK` |
| `FoundEarlier` | `ClientsProofs` | `[]AddsFindEarlier` |
| `SharedCompletes` | `ClientsProofs` | `[]HandedTwiceDone` |
| `FailoversHold` | `ProvidersProofs` | `[]FailoversAreSound` |
| `ParsingInvHolds` | `ParsingProofs` | the inductive invariant `ParsingInv` |
| `ParsingIsTyped` | `ParsingProofs` | `[]ParsingTypeOK`: types, and that list, map and counters of the cache agree |
| `FetchesAreOwnAndFresh` | `ParsingProofs` | `[]OwnAndFresh` |
| `TasksAreNotLost` | `ParsingProofs` | `[]NoTaskLost` |
| `MemoryInvHolds` | `MemoryEngineProofs` | the inductive invariant `MemoryInv` |
| `EngineIsTyped` | `MemoryEngineProofs` | `[]MemoryTypeOK` |
| `NothingComesBack`, `NothingIsOrphaned` | `MemoryEngineProofs` | `[]DeletedStaysDeleted`, `[]NoOrphans` |
| `FewAreFound` | `MemoryEngineProofs` | `[](AllFit => SearchFinds)` |
| `WipesAreThorough` | `MemoryEngineProofs` | `WipeIsThorough` |
| `DeletionsAreOwn` | `MemoryEngineProofs` | `DeletionsStayInSession` |
| `StoresAreTyped` | `ServicesProofs` | `[]StoresTypeOK` |
| `StoresKeepTheSame` | `ServicesProofs` | `[]GraphsAgree` |
| `WipesClear` | `ServicesProofs` | `WipeClears` |
| `RowsAreShared` | `ServicesProofs` | `[](AddsFindEarlier /\ HandedTwiceDone)`, of all the parts together |
| `ClientsKeepTheirWord` | `ServicesProofs` | `[]ClientsAreSound` |

### The pipeline

`TypeOK` is not inductive: a frame at `mark` needs a chunk, a queued memify needs
one, and a running frame needs an input. `TypeInv` adds exactly that (`FrameOK`,
`TaskOK`); there is one lemma per action on top of one lemma per way a step
changes a frame (`ReturnOK`, `EnterOK`, `InlineOK`, `GotoOK`, ...).

None of the safety invariants is inductive either. `PipelineInv` adds:

- `PhaseOK`: what work there can be for an input. Before it is handed over there
  is none; a queued or running split is the only work for its input, and the
  split has created exactly the children before `next`; work on a chunk exists
  only once all the children do. This last part (`ActiveAt`) is what makes the
  count honest: syncParentStatusFromChildren compares the completed children with
  the children it *finds*, and they are all there when it counts.
- `CustodyOK`: `SingleCustody`, spelt out over the queue, the frames and the
  feeders. It needs `PhaseOK`, since a second split would hand everything out
  again.
- `StageOK`: the status a chunk has while it is queued, fed or worked on. It is
  what makes each write a move along the status diagram, and what keeps a
  completed chunk completed. It needs custody: two holders would overwrite each
  other's status.
- `SaveOK`: what a goroutine has counted still holds when it writes the row,
  because completed chunks stay completed. With it the old copies are harmless
  for `CompletedMeansDone` and `ProcessedIsEarned` - but not for
  `InputCatchesUp`, as `lost_sync` shows.

Steps fall into a few kinds, with one lemma each: a step of a chunk task that
keeps or drops its chunk (`LocalStep`), a step of a split (`SplitStep`), and what
a step that moves work between the queue, a frame and a feeder leaves alone
(`OtherInputs`, `OtherChunk`). The refinement then only has to read off each
action which move of the contract it is (`ChunkStep`, `RowStep`, `SilentStep`).
For `WaitedFor` a second invariant, `WaitOK`, says that the children behind the
position of the inline loop are completed.

`CompletedMeansDone` is proved for the pipeline and fails once a sweep may run
after a failed split (`partial_split`): the step of the proof that breaks is
`ActiveAt`, chunk work for an input whose children do not all exist.

`NothingLost` needs one more invariant, `LossInv`. A chunk of an input that was
handed over is still to be split off, completed, or `Held` by the queue, a frame
or a feeder (`Minded`, as long as no store call has failed); `chunks_created` is
written when nothing of the split is left (`SplitIsOver`), so that a split input's
chunks cannot be waiting for it; and the inline loop runs on callers only
(`InlineIsCallers`), since a worker that executed one and chained a memify from it
would lose its place in the loop.

`RoomForAll` counts: a worker that is blocked in `chain` holds a chunk, a task in
the queue is a chunk or a split, and custody makes all of them different, so a jam
needs `QueueCap` plus the number of workers of them. `Load` is the most there can
be at a time. The bound is tight: `pool_jam` has as many chunks as places and
workers (3 = 1 + 2) and jams, `pipeline` has one less (3 < 2 + 2).

### The sweep

`PipelineInv` is not an invariant once there are crashes: a split that was cut
short leaves children, and their sweep lets the input be announced early
(`partial_split`). What does not depend on the rows is: `FlowInv`, which is
`PipelineInv` without `SaveOK`, `CompletedMeansDone` and `ProcessedIsEarned`, is
kept by every step of the pipeline on its own (`FlowStep`), and it holds of any
rows when nothing is at work (`QuietFlow`), as after a crash and after a sweep, as
long as no input without a row has chunks (`UnbornOK`).

During a sweep that is alone, `FlowInv` is false: the sweep splits an input again
whose chunks exist, and has a workload that is neither queue nor feeder.
`SweepInv` then says instead that nothing else is at work (`AloneOK`), that what is
left of the workload is as it was read (`WorkOK`: a chunk still has the status it
was found with, an input still says whether it is split, and no row is there
twice), and where the sweep's own Cognify is (`CallOK`): a split, of an input that
is not split yet, has put the children before `next` to pending; the held chunk has
the status of its stage, the children ahead are pending; the copy of the row says
what the row says; and, `NotInWork`, no chunk of the input it splits is left in the
workload. This last part is where the argument turns: it follows from the order of
the round (`Before`, the chunks of an input before the input) and without it an
item would be processed on a status that the split has since overwritten. There
is one lemma for each way a step of the call ends (`ReturnCall`, `InlineCall`,
`SyncedCall`, `SameTaskCall`, `AbortedCall`) and one per action.

`PublishedKept` assumes `Alone`, the situation of the command line. Without it the
property does not hold, as TLC shows: the sweep finds an input that was only added,
cognifies it and completes its chunks; the client that added it then hands it to the
pool with a copy that knows nothing of this, and the worker that splits it puts the
chunks back to pending.

### The connection pool

`PoolInv` has five parts. `PoolTypeOK` and `ShapeOK` say what each label of Get,
Put, maintenance and Close implies: whether the frame has a connection, what is in
the maintenance's lists, whether the channel is shut; `OpenOK`, which of these connections are still open;
`CustodyOK`, that every connection is in one place only, over the channel, the
map, the frames and the maintenance's local list; `CountsOK`, that the counter
covers what is open or reserved. The counts are cardinalities of sets of
goroutines, which is why these have to be finite. A step moves a connection, takes
a slot or sheds one, and there is a lemma for each way (`Moved`, `Takes`, `Gives`,
`Sheds`, ...).

`ManagedPool` then shows that a step of `PooledStorage` is a step of the pool by
itself or leaves its variables alone: the monitor is one of the pool's clients and
the manager is who calls Close. What holds of the pool alone holds of the
composition; `MonitorInv` adds where the monitor is when the manager closes the
pool. (It needs that no tries are counted while the monitor waits for the ticker.)

### Shared rows

`RowsInv` says of the tables what every row and every copy of one is
(`TablesOK`, `InputsOK`, `PointsOK`, and `Fits`: what an input was added with or,
if it was ever cognified by its id, the bare row), and of every client what its
call may still write (`CallOK`). Two parts carry `HandedTwiceDone`:

- `DueOK`: a chunk that is not completed is due to somebody. A client at work on
  chunk k owes the chunks from k on; one that splits owes all of them. A client
  that was handed a bare or a split copy owes nothing, which is where the argument
  could fail: it must not be the last that the others count on. Two clients on the
  same chunk write its status up and down, but each goes on to completed, and the
  later one is still due while it has it at processing.
- `SharingOK`: a client past the split has all the chunks of its text in the
  table and no copy that says that the input is not split, so that no write takes
  `chunks_created` back (`MarkedOK`).

`AddsFindEarlier` is proved from the state of the second lookup: the newest of the
rows found is an input with the content, or the chunk of a text of one chunk; if
it is none of the tier, there is an input of another tier (`NotFoundExcused`,
which needs that a nonempty set of rows has a newest one). The attempt showed that
an earlier version of the property was too strong: a row that is blank now need
not be blank later, so that "or the row is blank" does not last; the property
names the cause, `byId`, instead, and TLC checks the plan that shows it.

### The failovers

`FailoversAreSound` has a part about the managers and one about the embedder, which
share no variable but the plan; the invariant, `FailoverInv`, is proved for them
side by side.

- `ManagerPart`: an entry is under the name it was made for (`Named`, which makes
  `NameOf` mean something: no entry is under two names), a health check that is
  under way has only entries left that are there, and no entry is without its flag
  unless its provider failed.
- `CallsPart`: what a failover still has to visit. `steady[c]` are the entries that
  could be used during all of the call so far. Each of them was asked, is at hand or
  is in the rest of the list (`VisitsOK`, `TriesOK`); the rest is sorted, and nothing
  in it is better than the entry at hand. When the list is empty, all of `steady`
  was asked, which is what a failure claims. For ExecuteWithFailover the list is of
  names that are looked up late, so that the entry found may be another than the one
  listed: the invariant speaks of the name a steady entry was made for. Its order is
  claimed for two names at most (`Few`): the code's sort is wrong for three.
- `EmbedderPart`: an embedding that is cached or was got is of its own text and by
  a provider that was added; an index of a batch has its embedding, is at hand or is
  still to come (`LeftOK`); the embedders that could be reached throughout are among
  the fallbacks still to be tried (`LastingOK`), so that when none is left there was
  none.

The lemmas worth citing are about the order of a failover: that `SortedNames` keeps
the names it was given (`SinkMoves`, `SinkKeeps`, `SortedNamesAre`) and sorts two of
them; that neighbours in order make a sorted sequence (`AllInOrder`); that a member
of `ByPriority` lists exactly the entries (`ByPriorityIs`). Two of these are
inductions over the position in a sequence; they are done with the least position at
which the claim would fail (`LeastNat`), since the library's induction rules cannot
be instantiated.

### The parser

`ParsingInv` is proved in three layers. `CacheInv` says that the list has no key
twice, has the keys of the entries and those that a Get has put back, that the
counters never understate the entries, and (`Sound`) how old an entry can be: one
that was stored while nothing changed has the text of its file, and once it has a
path it is no older than the time that went with the path. `PoolInv` says that only
generations that were started are in use and that a result is of its worker's task.
For every operation of the cache and every step of the pool there is a lemma that it
keeps its own part and what of it the calls rely on (`CacheMoves`: an entry without a
race has the text it had or the file's, and files only grow newer; `PoolMoves`: a
step within the pool makes no task, neither loses one nor changes what any call has
under way, and never takes back that a generation is over). The steps that do change it - a task is handed over, a
result delivered or dropped - are those of the calls. A step of a call is then checked against its own call once and
against all other calls by one lemma.

The third layer says of each call where its sources are (`AskOK`: still to look up,
missing from the cache, handed to the pool, or got, with nothing else in between),
that what it got is no older than its begin (`GotOK`), and what of it the pool has
(`TasksOK`, `CountOK`). `OwnAndFresh` needs the last for a batch: that the file names
of the results are the files asked for does not follow from their number alone. The
argument counts. Tasks in the queues, tasks with workers and results in the channel
are never more than the results awaited; if they are as many, every file handed over
is among them or was got; and while the generation runs they are as many. So when
nothing is awaited any more nothing is under way, and each file was got or failed.
The tasks of a call are told from those of an earlier call of the same client by the
call's id, which stands for the channel that ProcessFiles makes: a result of a batch
that gave up cannot arrive in the next.

`NoTaskLost` is the third clause, with the tasks in the running generation's queue
instead of those in all (`QueuedHere`): a call that awaits the running generation has
none in an earlier one.

Two operators are stated in a form the provers can use: `Without` is a recursive
function where SelectSeq would be a RECURSIVE operator, and `SizeOf`, a sum, is the
cardinality of the units of memory the entries take (`Taken`). That `Without` leaves
the other keys in order is one of the inductions by least counterexample (`LeastNat`).
The types of the plans (`Workload`) are assumed so that a batch may name a file twice:
an earlier version of the type invariant bounded `out` by the number of files, which
such a batch exceeds.

### The memory engine

Deleting is a list of store calls, and between any two of them the ingestion may write.
That a row which is gone left no trace cannot be seen from the stores when the row goes;
it has to follow from what the calls before have done. `MemoryInv` therefore speaks of
the calls that are still to come:

- `JobsOK`: every job of the client is of one of three forms (a deletion, a wipe, a job
  of a request), and each trace of its row that is still in a store, a vector or a
  node, is covered by a call in the job (`Covered`): the find that will list it, or the
  deletion of just that one. A wipe covers the rows of its session once it has listed
  them. The owner is still to be checked, or is the client's session. The jobs behind
  the first have not begun. Both coverings are claimed for what no ingestion was at
  work on while the call ran (`Unraced`; with consistency reasoning an ingestion may
  move the node of any row).
- `RowsOK`, `VecOK`, `LostOK`: the ingestion writes rows of its own input only and only
  once; vectors are of rows there are or were; no vector or node is of a row that is
  `Lost`, nor is the node that the ingestion met and will write back.
- `FoundOK`: a row that is done, or that the ingestion will mark as done, has its vector
  with its own words, id and tier, or could not be embedded, or is `Condemned`: it is
  the one being deleted, with its vectors taken before the row. Only where no call is
  under way does it follow that it is found.

A call does the same to all of this whatever it is: it takes away something it is about
(`Pops`), other calls take its place (`DeletionStep`, `WipeStep`, `RequestStep`), and
nothing else changes (`Fades`, `StoresKept`). One lemma, `ProceedKeeps`, says that the
invariant survives that; there is one lemma per action on top of it. The ingestion has
its counterpart in `IngestKeeps`: what a step of it writes is of a row that is not lost.
The graph stores differ in how they keep a node, and are proved first to do what all
this needs of them: to write the node with the source given, and to take nodes away
without touching the others (`Wrote`, `Shrank`). For Redis less is claimed, as it finds
no nodes by source and none by session.

`FewAreFound` bounds the vectors (`AllFit`) since the property does not hold without
(and it has the panics over the in-memory graph in it, at edges that are gone or lead
nowhere):
with enough nearer vectors of other sessions a memory is crowded out. TLC's instance is
too small for that, so the theorem states the bound that the run leaves unsaid. The
proof attempt found another thing: what a request forgets by similarity could, with
Qdrant, be a hit without a source; the model now leaves such hits out as the code
does, for whom a hash is nobody's id.

For these proofs the traversals of the graph stores are recursive functions, and the
stores put an entry with `Put`.

### The graph stores

`GraphInv` says of each store what its own code keeps - an edge is found under its
ends, the lists of the in-memory store are those of its nodes, an edge of SQLite and
of Neo4j has both ends - and of the four together that they have the same nodes in
the same sessions (`SameNodes`) and that the edges of SQLite but for loops are
relationships of Neo4j (`SameEdges`). The sessions are what the agreement rests on:
`DeleteGraphBySessionID` deletes by them, and Neo4j, which merges what it is given
into what it has, could keep another one than SQLite, which replaces it. For each
store there is one lemma per call, on what it makes of the nodes (`Sets`, `Loses`);
`SameAfterStore` and `SameAfterDelete` put the four together.

A behaviour of `Services` is about one part; `StepsApart` carries what is proved of
the graphs and, in `ClientsProofs`, of the clients over to it.

### The clients of the models

For a language model, `TalkInv` says where a call is by what it has: how many attempts
it has made against how many it may make (`CallPlace`), and that every attempt went to
a name the object had while the call ran. A name is added to those of *all* calls by
whoever sets it, which is why a step of one call keeps the invariant of the others
(`CallOutlasts`). That Gemini makes its address anew is in it as the one exception.

For an object that embeds, `EmbedInv` has more to relate, since a call with a length
writes it into the shared object and the old one back. `AskCourse` follows a call: what
it has built, what it was answered, in the order of its texts (for `dedup`, of its first
texts; `OrderIsSequence`). Every length in a request, in an answer or in the object is
one that was asked for or that of a model (`lengths`), whatever overlaps. That an
answer has *just* the length asked for holds only while nobody sets the object during
another's call, and the invariant for that case (`Undisturbed`) is about the length at
rest: at most one call has lent the object its length (`Lends`), and what it will write
back is the length the object is configured with; all other calls found that one.
`CountsAddUp` counts the calls under way (`Tally`), one more or less with each step that
begins or ends one; here the callers have to be finitely many.

The texts without repetition (`Uniques`) are those at the places where a text is first
met, in order; a fold would be out of the provers' reach.

### What is only model-checked

- Liveness and everything else that needs fairness or ENABLED: out of the prover's
  reach.
- `SearchFinds` where there are more vectors than a search asks for: then it is the
  bounds of the run, where at most so many are near, that make it hold. With more of
  them the nearest crowd the others out before sessions and tiers are looked at, and
  Redis answers ten of them at most.
- `SetupsHold` and `BackendsHold`: these families of `Services` share no variable with
  the others and could be proved one by one, as those are; not done.
- `ReadsAreExact`: what the graph stores read, what is read of a memory in segments and
  which span of a text is drafted are recursive functions and folds, and what they
  compute for every graph or text is an induction over data. The rest of it (the web
  view, thinking and extraction but for that) is within reach and not done.
- The loss of text in chunks and streams (`ChunksLoseLittle`): an induction over
  the texts, through recursive functions with several accumulators. The least
  counterexample would serve as it does for the failovers; not yet tried.

## Plan

Done: the pipeline and the sweep with their theorems; the connection pool under its
manager, with theorems; the failovers, with theorems; the parser with its cache, pool and
strategies, with theorems; the stores one by one, the graph stores with theorems; the engine over them, with
theorems; providers, their clients, configurations and the embedder;
storages and their monitor; two clients over one store; thinking, extraction and
the web view.

Left, in this order:

1. Theorems: the other families of `Services`; `ChunksLoseLittle` for the sentence strategy.
2. A sweep beside running workers (`Alone = FALSE`), and a sweep that finds rows a
   `cognify --id` has blanked.
3. A compare-and-merge of `Extraction` over the stores of `MemoryEngine`; the
   availability tracker of the provider managers.

## Not modelled

- The wording of prompts, JSON and YAML as such, the encoding of vectors and rows,
  similarity as a number and the ranking made of it, the segmentation of words
  into tokens (Viterbi) and the model files: data without a protocol.
- Quality scoring (`extractor/scoring`), the ONNX embedder, the parser's
  benchmarks, content detection and the readers of PDF and other formats: nothing
  in the engine calls the first, the others are pure functions or generated I/O.
- Operations nothing in the program calls: batches, edge updates and transactions
  of the graph stores, tags and compression of the parsing cache.
- Flags, the MCP handlers (each is one call of the engine), the overview's counts
  and the wrappers of single graph calls in the web view, rendering.
- The direct Memify call, basicSearch, lazy search of the storage tier.
- The registry's own ticker, usage statistics and the selection strategies by use,
  cost and latency (any choice instead), the callbacks of the health monitor.

What is modelled of each component, and what is left out of it, is in the
`components` of `PROJECT.json`.
