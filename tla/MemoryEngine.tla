---------------------------- MODULE MemoryEngine ----------------------------
(***************************************************************************)
(* The memory engine over its three stores (rows, vectors, graph): inputs  *)
(* are added and cognified one after the other while a client deletes      *)
(* memories, wipes sessions and sends requests.  A step is one call of a   *)
(* store; a search is what the stores would answer in a state.             *)
(*                                                                         *)
(* A text is the set of names it mentions; every input fits one chunk.     *)
(* Row ids are <<input, "input">> and <<input, "chunk">>, a node is        *)
(* <<where it was extracted, name>>.                                       *)
(***************************************************************************)
EXTENDS Naturals, Sequences, FiniteSets, SequencesExt

CONSTANTS
  Inputs,       \* how many inputs are added
  Offers,       \* input -> what may be added: [names, session, tier]
  NameSeq,      \* all names, in the order an extraction lists them
  Session,      \* the sessions; "" is the global one
  Stacks,       \* the configurations: [graph, vector, consistent]
  Requests,     \* what a request may ask: [relate, forget, tell]
  Told, Related,\* stand for an input in the ids of a request's nodes
  NoSource,     \* no row
  MaxCalls,     \* bound: calls of the client
  MaxFaults     \* bound: failures of the embedder and the extractor

Input == 1..Inputs
Name == ToSet(NameSeq)
Tier == {"general", "data", "core", "storage"}
Text == [names : (SUBSET Name) \ {{}}, session : Session, tier : Tier]

\* A text mentions something, a request relates two names at a time.
ASSUME EngineAssumption ==
  /\ Inputs \in Nat /\ {Told, Related} \subseteq Nat \ 0..Inputs
  /\ NoSource = <<0, "none">> /\ "" \in Session
  /\ NameSeq \in Seq(Name) /\ Offers \in [Input -> SUBSET Text]
  /\ Stacks \subseteq [graph : {"inmemory", "sqlite", "redis", "neo4j"},
                       vector : {"inmemory", "sqlite", "redis", "qdrant"}, consistent : BOOLEAN]
  /\ Requests \subseteq [session : Session, relate : {<<>>} \cup (Name \X Name),
                         forget : Seq(Name), tell : SUBSET Name]

VARIABLES
  stack,
  row,      \* id -> [names, session, tier, done]
  vec,      \* see VectorStores
  graph,    \* see GraphInMemory, GraphSQLite, GraphRedis, GraphNeo4j
  history,  \* the sessions with messages
  ing,      \* the ingestion under way: see Idle
  client,   \* the client's call under way: see Silent
  budget,   \* [calls, faults, asked]
  gone,     \* rows that were removed
  overlap,  \* inputs ingested while the client's call runs
  raced,    \* rows removed by a call that overlapped their ingestion
  blind     \* rows whose text could not be embedded
vars == <<stack, row, vec, graph, history, ing, client, budget, gone, overlap, raced, blind>>

RowId == Input \X {"input", "chunk"}
NodeId == (Input \cup {Told, Related}) \X Name
Key == [of : RowId \cup NodeId, kind : {"doc", "chunk", "entity"}]

IM == INSTANCE GraphInMemory
SQ == INSTANCE GraphSQLite
RD == INSTANCE GraphRedis
NJ == INSTANCE GraphNeo4j
V == INSTANCE VectorStores

-----------------------------------------------------------------------------
\* The graph store of the configuration.
Pick(inmemory, sqlite, redis, neo4j) ==
  CASE stack.graph = "inmemory" -> inmemory [] stack.graph = "sqlite" -> sqlite
    [] stack.graph = "redis" -> redis       [] stack.graph = "neo4j" -> neo4j

StoreNode(n, v) == Pick(IM!StoreNode(graph, n, v), SQ!StoreNode(graph, n, v),
                        RD!StoreNode(graph, n, v), NJ!StoreNode(graph, n, v))
UpdateNode(n, v) == Pick(IM!UpdateNode(graph, n, v), SQ!UpdateNode(graph, n, v),
                         RD!UpdateNode(graph, n, v), NJ!UpdateNode(graph, n, v))
DeleteNode(n) == Pick(IM!DeleteNode(graph, n), SQ!DeleteNode(graph, n),
                      RD!DeleteNode(graph, n), NJ!DeleteNode(graph, n))
Connect(e, edge) ==
  Pick(IM!CreateRelationship(graph, e, edge), SQ!CreateRelationship(graph, e, edge),
       RD!CreateRelationship(graph, e, edge), NJ!CreateRelationship(graph, e, edge))
DeleteGraphBySessionID(s) ==
  Pick(IM!DeleteGraphBySessionID(graph, s), SQ!DeleteGraphBySessionID(graph, s),
       RD!DeleteGraphBySessionID(graph, s), NJ!DeleteGraphBySessionID(graph, s))
BySource(r) == Pick(IM!BySource(graph, r), SQ!BySource(graph, r),
                    RD!BySource(graph, r), NJ!BySource(graph, r))
ByName(n) == Pick(IM!ByName(graph, n), SQ!ByName(graph, n),
                  RD!ByName(graph, n), NJ!ByName(graph, n))
ByEntity(n, type) == Pick(IM!ByEntity(graph, n, type), SQ!ByEntity(graph, n, type),
                          RD!ByEntity(graph, n, type), NJ!ByEntity(graph, n, type))

\* The nodes a traversal returns, in memory with nil for one that is not there.
TraverseGraph(n, depth) ==
  Pick(IM!TraverseGraph(graph, n, depth).ids, SQ!TraverseGraph(graph, n, depth),
       RD!TraverseGraph(graph, n, depth), NJ!TraverseGraph(graph, n, depth))
\* The in-memory store panics at an edge that is gone, and the search, which takes
\* the ID of every node it is given, at a nil: an edge whose end is gone.
Panics(n, depth) ==
  /\ stack.graph = "inmemory"
  /\ LET t == IM!TraverseGraph(graph, n, depth) IN t.panic \/ ~(t.ids \subseteq DOMAIN graph.node)

Node(name, session, source) ==
  [type |-> "Entity", name |-> name, session |-> session, source |-> source]
EdgeId(kind, from, to) == [kind |-> kind, from |-> from, to |-> to]
Edge(e, session) == [from |-> e.from, to |-> e.to, session |-> session]
Entry(names, source, tier, session) ==
  [names |-> names, source |-> source, tier |-> tier, session |-> session]
Vector(of, kind) == [of |-> of, kind |-> kind]
Hits(names, wanted, limit, boolean) ==
  V!Hits(stack.vector, vec, names, wanted, limit, boolean)

-----------------------------------------------------------------------------
\* i: the last input that was added.  at: the next store call.  left: the
\* names of its extraction still to be memified.  met: the node compared with
\* (NoSource if none), was: its value then, as: what became of it.  edges: the
\* relationships still to be stored.
Idle(i) == [i |-> i, at |-> "idle", offer |-> NoSource, left |-> <<>>, met |-> NoSource,
            was |-> NoSource, as |-> "keep_separate", edges |-> {}]

\* jobs: sequences of store calls [op, id]; a refused one ends with its job.
\* ends: the nodes a relationship is to connect.
Silent == [session |-> "", jobs |-> <<>>, ends |-> <<>>]

Init ==
  /\ stack \in Stacks
  /\ row = <<>> /\ vec = <<>>
  /\ graph = Pick(IM!Empty, SQ!Empty, RD!Empty, NJ!Empty)
  /\ history = {} /\ ing = Idle(0) /\ client = Silent
  /\ budget = [calls |-> MaxCalls, faults |-> MaxFaults, asked |-> FALSE]
  /\ gone = {} /\ overlap = {} /\ raced = {} /\ blind = {}

Put(f, k, v) == [x \in DOMAIN f \cup {k} |-> IF x = k THEN v ELSE f[x]]
At(step) == ing.at = step
Go(step) == ing' = [ing EXCEPT !.at = step]
Finished == ing' = Idle(ing.i)
Chunk == <<ing.i, "chunk">>
ByIngestion == UNCHANGED <<stack, history, client, gone, raced>>

\* A row that is not there is not updated, and the task ends as failed.
Update(r, next) ==
  IF r \in DOMAIN row THEN Go(next) ELSE Finished

Newer(r, q) == q[1] < r[1] \/ (q[1] = r[1] /\ (r[2] = "chunk" \/ q[2] = "input"))

\* The newest row of the session with this content; it counts only if it is
\* an input of the same tier.
Duplicate(offer) ==
  LET same == {r \in DOMAIN row : row[r].names = offer.names /\ row[r].session = offer.session}
      newest == CHOOSE r \in same : \A q \in same : Newer(r, q)
  IN  /\ same # {}
      /\ newest[2] = "input" /\ row[newest].tier = offer.tier

\* Add: the lookup.  An existing input is handed to Cognify again, which finds
\* it split.
Add ==
  /\ At("idle") /\ ing.i < Inputs
  /\ \E offer \in Offers[ing.i + 1] :
       ing' = IF Duplicate(offer) THEN Idle(ing.i + 1)
              ELSE [Idle(ing.i + 1) EXCEPT !.at = "store", !.offer = offer]
  /\ overlap' = IF client.jobs = <<>> THEN {} ELSE overlap \cup {ing.i + 1}
  /\ ByIngestion /\ UNCHANGED <<row, vec, graph, budget, blind>>

Row == [names |-> ing.offer.names, session |-> ing.offer.session, tier |-> ing.offer.tier,
        done |-> FALSE]

StoreInput ==
  /\ At("store") /\ Go("split")
  /\ row' = Put(row, <<ing.i, "input">>, Row)
  /\ ByIngestion /\ UNCHANGED <<vec, graph, budget, overlap, blind>>

\* One chunk, upserted; the input has then to be marked as split.
Split ==
  /\ At("split") /\ Go("parent")
  /\ row' = Put(row, Chunk, Row)
  /\ ByIngestion /\ UNCHANGED <<vec, graph, budget, overlap, blind>>

MarkSplit ==
  /\ At("parent") /\ Update(<<ing.i, "input">>, "chunk")
  /\ ByIngestion /\ UNCHANGED <<row, vec, graph, budget, overlap, blind>>

\* Mutant of SearchFinds: the vector does not say which row it is of.
ChunkEntryUnnamed == Entry(ing.offer.names, NoSource, ing.offer.tier, ing.offer.session)

ChunkEntry == Entry(ing.offer.names, Chunk, ing.offer.tier, ing.offer.session)

\* The embedding of the text and its extraction; either may fail, which is
\* logged, and the row goes on without vectors or without a graph.
EmbedChunk ==
  /\ At("chunk")
  /\ \/ /\ Go("doc")
        /\ vec' = V!StoreEmbedding(vec, Vector(Chunk, "chunk"), ChunkEntry)
        /\ UNCHANGED <<budget, blind>>
     \/ /\ budget.faults > 0 /\ budget' = [budget EXCEPT !.faults = @ - 1]
        /\ Go("save")
        /\ \/ vec' = vec /\ blind' = blind \cup {Chunk}
           \/ vec' = V!StoreEmbedding(vec, Vector(Chunk, "chunk"), ChunkEntry) /\ blind' = blind
  /\ ByIngestion /\ UNCHANGED <<row, graph, overlap>>

\* Names in the order an extraction lists them.
Listed(names) ==
  LET list[n \in 0..Len(NameSeq)] ==
        IF n = 0 THEN <<>>
        ELSE IF NameSeq[n] \in names THEN Append(list[n - 1], NameSeq[n]) ELSE list[n - 1]
  IN  list[Len(NameSeq)]

\* The vector of the row as a whole has no source_id.
EmbedDocument ==
  /\ At("doc")
  /\ vec' = V!StoreEmbedding(vec, Vector(Chunk, "doc"),
                             [ChunkEntry EXCEPT !.source = NoSource])
  /\ ing' = [ing EXCEPT !.at = "save",
                        !.left = Listed(ing.offer.names)]
  /\ ByIngestion /\ UNCHANGED <<row, graph, budget, overlap, blind>>

NextNode(left) ==
  IF left = <<>> THEN "edges" ELSE IF stack.consistent THEN "compare" ELSE "node"

\* The extraction relates each name to the next one.
Drafts ==
  {EdgeId("fact", <<ing.i, ing.left[k]>>, <<ing.i, ing.left[k + 1]>>) : k \in 1..Len(ing.left) - 1}

\* Saved as cognified, with its drafts.
Save ==
  /\ At("save")
  /\ IF Chunk \in DOMAIN row
     THEN ing' = [ing EXCEPT !.at = NextNode(ing.left), !.edges = Drafts]
     ELSE Finished
  /\ ByIngestion /\ UNCHANGED <<row, vec, graph, budget, overlap, blind>>

-----------------------------------------------------------------------------
\* Memify: one node of the extraction.
Current == Head(ing.left)
Draft == <<ing.i, Current>>

\* The nearest entity, if its node still exists, is compared with the draft.
Compare ==
  /\ At("compare")
  /\ \E S \in Hits({Current}, {k \in DOMAIN vec : k.kind = "entity"}, 1, TRUE) :
       LET met == {k.of : k \in S} \cap DOMAIN graph.node
       IN  \/ ing' = [ing EXCEPT !.at = "embed"]
           \/ \E n \in met, as \in {"update", "ignore", "contradict"} :
                ing' = [ing EXCEPT !.at = IF as = "update" THEN "update" ELSE "embed",
                                   !.met = n, !.was = graph.node[n], !.as = as,
                                   !.edges = IF as = "contradict"
                                             THEN @ \cup {EdgeId("contradicts", Draft, n)} ELSE @]
  /\ ByIngestion /\ UNCHANGED <<row, vec, graph, budget, overlap, blind>>

\* Mutant of MemoryTypeOK: a draft gives its own id for its source.
MergedFromDraft == [ing.was EXCEPT !.name = Current, !.source = Draft]

\* update: the properties of the draft go over those of the known node.
Merged == [ing.was EXCEPT !.name = Current, !.source = Chunk]

MergeNode ==
  /\ At("update") /\ Go("embed")
  /\ graph' = UpdateNode(ing.met, Merged)
  /\ ByIngestion /\ UNCHANGED <<row, vec, budget, overlap, blind>>

\* The draft takes over the id of the node it was found to repeat.
StoredAs == IF ing.as \in {"update", "ignore"} THEN ing.met ELSE Draft

EmbedEntity ==
  /\ At("embed") /\ Go("node")
  /\ vec' = V!StoreEmbedding(vec, Vector(StoredAs, "entity"),
                             Entry({Current}, Chunk, "none", "none"))
  /\ ByIngestion /\ UNCHANGED <<row, graph, budget, overlap, blind>>

\* It keeps its own session, whatever the session of the known node.
StoredValue ==
  CASE ing.as = "update" -> [Merged EXCEPT !.session = ing.offer.session]
    [] ing.as = "ignore" -> [ing.was EXCEPT !.session = ing.offer.session]
    [] OTHER -> Node(Current, ing.offer.session, Chunk)

MemifyNode ==
  /\ At("node")
  /\ graph' = StoreNode(StoredAs, StoredValue)
  /\ ing' = [ing EXCEPT !.at = NextNode(Tail(ing.left)), !.left = Tail(@),
                        !.met = NoSource, !.was = NoSource, !.as = "keep_separate"]
  /\ ByIngestion /\ UNCHANGED <<row, vec, budget, overlap, blind>>

\* The relationships have the ends they were drafted with.
MemifyEdge ==
  /\ At("edges")
  /\ IF ing.edges = {} THEN Go("complete") /\ graph' = graph
     ELSE LET e == CHOOSE e \in ing.edges : \A d \in ing.edges : d.kind = "fact" => e.kind = "fact"
          IN  /\ graph' = Connect(e, Edge(e, ing.offer.session))
              /\ ing' = [ing EXCEPT !.edges = @ \ {e}]
  /\ ByIngestion /\ UNCHANGED <<row, vec, budget, overlap, blind>>

\* Mutant of DeletedStaysDeleted: an update that inserts what is not there.
CompletedUpsert == Put(row, Chunk, [Row EXCEPT !.done = TRUE])

Completed == IF Chunk \in DOMAIN row THEN [row EXCEPT ![Chunk].done = TRUE] ELSE row

Complete ==
  /\ At("complete") /\ Finished
  /\ row' = Completed
  /\ ByIngestion /\ UNCHANGED <<vec, graph, budget, overlap, blind>>

Ingest ==
  \/ Add \/ StoreInput \/ Split \/ MarkSplit \/ EmbedChunk \/ EmbedDocument \/ Save
  \/ Compare \/ MergeNode \/ EmbedEntity \/ MemifyNode \/ MemifyEdge \/ Complete

-----------------------------------------------------------------------------
\* The client.  A job is what ends when one of its calls is refused.
Call(op, id) == [op |-> op, id |-> id]
Calls(op, S) == LET ids == SetToSeq(S) IN [k \in DOMAIN ids |-> Call(op, ids[k])]

\* deleteGraphNodesForSource and deleteVectorsForDataPoint: the traces of a row.
Vectors(r) == <<Call("vec", Vector(r, "doc")), Call("vec", Vector(r, "chunk"))>>
Traces(r) == <<Call("find", r)>> \o Vectors(r)

\* Mutant of NoOrphans: the row goes first.
DeleteJobRowFirst(r, session) ==
  (IF session = "" THEN <<>> ELSE <<Call("check", r)>>)
    \o <<Call("row", r), Call("find", r)>> \o Vectors(r)

\* DeleteMemory of an id: without a session the owner is not asked for.
DeleteJob(r, session) ==
  (IF session = "" THEN <<>> ELSE <<Call("check", r)>>)
    \o Traces(r) \o <<Call("row", r)>>

\* Mutant of WipeIsThorough: the rows alone.
WipeRowsOnly == <<Call("list", NoSource), Call("messages", NoSource), Call("rows", NoSource)>>

\* DeleteMemory of a whole session, or of what belongs to none.
WipeJob == <<Call("list", NoSource), Call("graph", NoSource), Call("messages", NoSource),
             Call("rows", NoSource)>>

\* Request: the relationships, then what is to be forgotten, then the facts.
RequestJobs(q) ==
  LET Each(op, where, names) == [k \in DOMAIN names |-> Call(op, <<where, names[k]>>)]
      told == Listed(q.tell)
      Link(k) == EdgeId("told", <<Told, told[k]>>, <<Told, told[k + 1]>>)
      IfAny(names, job) == IF names = <<>> THEN <<>> ELSE <<job>>
  IN  IfAny(q.relate, Each("ensure", Related, q.relate) \o <<Call("relate", NoSource)>>)
      \o [k \in DOMAIN q.forget |-> <<Call("entity", <<Told, q.forget[k]>>),
                                      Call("similar", <<Told, q.forget[k]>>)>>]
      \o IfAny(told, Each("tell", Told, told) \o [k \in 1..Len(told) - 1 |-> Call("link", Link(k))])

\* Bound: only the last call may begin while an input is being ingested.
Begin(session, jobs) ==
  /\ client.jobs = <<>> /\ budget.calls > 0
  /\ budget.calls > 1 => At("idle")
  /\ client' = [session |-> session, jobs |-> jobs, ends |-> <<>>]
  /\ overlap' = IF At("idle") \/ jobs = <<>> THEN {} ELSE {ing.i}
  /\ UNCHANGED <<stack, row, vec, graph, ing, gone, raced, blind>>

DeleteMemory(r, session) ==
  /\ Begin(session, <<DeleteJob(r, session)>>)
  /\ budget' = [budget EXCEPT !.calls = @ - 1] /\ UNCHANGED history

DeleteSession(session) ==
  /\ Begin(session, <<WipeJob>>)
  /\ budget' = [budget EXCEPT !.calls = @ - 1] /\ UNCHANGED history

\* One request per behaviour: its nodes are named after it.
Request(q) ==
  /\ ~budget.asked
  /\ Begin(q.session, RequestJobs(q))
  /\ budget' = [budget EXCEPT !.calls = @ - 1, !.asked = TRUE]
  /\ history' = history \cup ({q.session} \ {""})

Next1 == Head(client.jobs)[1]
Does(op) == client.jobs # <<>> /\ Next1.op = op

\* These jobs are left.
Leaves(jobs, ends) ==
  /\ client' = IF jobs = <<>> THEN Silent ELSE [client EXCEPT !.jobs = jobs, !.ends = ends]
  /\ overlap' = IF jobs = <<>> THEN {} ELSE overlap
  /\ UNCHANGED <<stack, ing, budget, blind>>

\* The call is done, and these come next.
Proceed(more, ends) ==
  LET job == more \o Tail(Head(client.jobs))
  IN  Leaves(IF job = <<>> THEN Tail(client.jobs) ELSE <<job>> \o Tail(client.jobs), ends)
Then(more) == Proceed(more, client.ends)
Refused == Leaves(Tail(client.jobs), client.ends)
KeepsRows == UNCHANGED <<row, gone, raced>>
Reads == UNCHANGED <<vec, graph, history>> /\ KeepsRows

\* Mutant of DeletionsStayInSession: that the row is there is enough.
Present(r) == r \in DOMAIN row

Owned(r) == r \in DOMAIN row /\ row[r].session = client.session

CheckOwner ==
  /\ Does("check") /\ Reads
  /\ IF Owned(Next1.id) THEN Then(<<>>) ELSE Refused

FindNodes == Does("find") /\ Reads /\ Then(Calls("node", BySource(Next1.id)))

RemoveNode ==
  /\ Does("node") /\ Then(<<>>)
  /\ graph' = DeleteNode(Next1.id)
  /\ UNCHANGED <<vec, history>> /\ KeepsRows

RemoveVector ==
  /\ Does("vec") /\ Then(<<>>)
  /\ vec' = V!DeleteEmbedding(vec, Next1.id)
  /\ UNCHANGED <<graph, history>> /\ KeepsRows

RemoveRows(S) ==
  /\ row' = Restrict(row, DOMAIN row \ S)
  /\ gone' = gone \cup (S \cap DOMAIN row)
  /\ raced' = raced \cup {r \in S \cap DOMAIN row :
                           r[1] \in overlap \/ (stack.consistent /\ overlap # {})}

RemoveRow ==
  /\ Does("row") /\ Then(<<>>)
  /\ RemoveRows({Next1.id}) /\ UNCHANGED <<vec, graph, history>>

OfSession == {r \in DOMAIN row : row[r].session = client.session}

ListRows ==
  LET rows == SetToSeq(OfSession)
  IN  /\ Does("list") /\ Reads
      /\ Then([k \in 1..3 * Len(rows) |-> Traces(rows[(k + 2) \div 3])[((k - 1) % 3) + 1]])

RemoveGraph ==
  /\ Does("graph") /\ Then(<<>>)
  /\ graph' = DeleteGraphBySessionID(client.session)
  /\ UNCHANGED <<vec, history>> /\ KeepsRows

RemoveMessages ==
  /\ Does("messages") /\ Then(<<>>)
  /\ history' = history \ {client.session}
  /\ UNCHANGED <<vec, graph>> /\ KeepsRows

RemoveRowsOfSession ==
  /\ Does("rows") /\ Then(<<>>)
  /\ RemoveRows(OfSession) /\ UNCHANGED <<vec, graph, history>>

\* What is to be forgotten: its nodes, whatever their session, and the
\* memories of the five nearest vectors, some of which may be near enough.  What
\* Qdrant calls by a hash is nobody's, and deleting it does nothing.
ForgetEntity == Does("entity") /\ Reads /\ Then(Calls("node", ByEntity(Next1.id[2], "")))

ForgetSimilar ==
  LET name == Next1.id[2]
      Source(k) == V!ResultSource(stack.vector, k, vec[k])
  IN  /\ Does("similar") /\ Reads
      /\ \E S \in Hits({name}, DOMAIN vec, 5, FALSE) :
           \E near \in {S, {k \in S : vec[k].names = {name}}} :
             LET ids == SetToSeq({Source(k) : k \in near} \ {NoSource})
             IN  Leaves([k \in DOMAIN ids |-> DeleteJob(ids[k], client.session)] \o Tail(client.jobs),
                        client.ends)

\* findOrCreateEntityNode: a node of that name and of the session, or of none.
Known(name) == {n \in ByName(name) : graph.node[n].session \in {client.session, ""}}

EnsureNode ==
  LET n == Next1.id
  IN  /\ Does("ensure") /\ UNCHANGED <<vec, history>> /\ KeepsRows
      /\ \/ \E m \in Known(n[2]) : Proceed(<<>>, Append(client.ends, m)) /\ graph' = graph
         \/ /\ Known(n[2]) = {}
            /\ graph' = StoreNode(n, Node(n[2], client.session, NoSource))
            /\ Proceed(<<Call("embed", n)>>, Append(client.ends, n))

EmbedNode ==
  LET n == Next1.id
  IN  /\ Does("embed") /\ Then(<<>>)
      /\ vec' = V!StoreEmbedding(vec, Vector(n, "entity"), Entry({n[2]}, n, "none", client.session))
      /\ UNCHANGED <<graph, history>> /\ KeepsRows

Relate ==
  LET e == EdgeId("relation", client.ends[1], client.ends[2])
  IN  /\ Does("relate") /\ Then(<<>>)
      /\ graph' = Connect(e, Edge(e, client.session))
      /\ UNCHANGED <<vec, history>> /\ KeepsRows

TellNode ==
  LET n == Next1.id
  IN  /\ Does("tell") /\ Then(<<>>)
      /\ graph' = StoreNode(n, Node(n[2], client.session, NoSource))
      /\ UNCHANGED <<vec, history>> /\ KeepsRows

TellEdge ==
  /\ Does("link") /\ Then(<<>>)
  /\ graph' = Connect(Next1.id, Edge(Next1.id, client.session))
  /\ UNCHANGED <<vec, history>> /\ KeepsRows

Client ==
  \/ \E r \in DOMAIN row \cup gone, s \in Session : DeleteMemory(r, s)
  \/ \E s \in Session : DeleteSession(s)
  \/ \E q \in Requests : Request(q)
  \/ CheckOwner \/ FindNodes \/ RemoveNode \/ RemoveVector \/ RemoveRow
  \/ ListRows \/ RemoveGraph \/ RemoveMessages \/ RemoveRowsOfSession
  \/ ForgetEntity \/ ForgetSimilar \/ EnsureNode \/ EmbedNode \/ Relate \/ TellNode \/ TellEdge

Next == Ingest \/ Client

Spec == Init /\ [][Next]_vars

-----------------------------------------------------------------------------
\* What a search would find now.
Visible(r, session) == r \in DOMAIN row /\ row[r].session \in {session, ""}

EffectiveTier(k) == IF vec[k].tier = "none" THEN "general" ELSE vec[k].tier

\* The possible sets of hits: two tiers, and the untiered search without what
\* is in storage.
HitsOfTiers(names, limit) ==
  LET OfTier(tier) == Hits(names, {k \in DOMAIN vec : vec[k].tier = tier}, limit, FALSE)
      Untiered == Hits(names, DOMAIN vec, IF 4 * limit < 40 THEN 40 ELSE 4 * limit, FALSE)
  IN  {g \cup d \cup {k \in u : EffectiveTier(k) # "storage"} :
         g \in OfTier("general"), d \in OfTier("data"), u \in Untiered}

CoreRows(session) == {r \in DOMAIN row : Visible(r, session) /\ row[r].tier = "core"}

Anchors(sources, names) ==
  UNION {BySource(r) : r \in sources} \cup UNION {ByEntity(n, "Entity") : n \in names}

\* The rows of the hits, and those the graph leads to from their nodes.
Ranked(sources, anchors, session) ==
  LET reached == UNION {TraverseGraph(a, 2) : a \in anchors}
  IN  {r \in sources \cup {graph.node[n].source : n \in reached} : Visible(r, session)}

\* The outcome of a search with these hits, as [rows, panics]: one that panics has
\* no rows, nor an answer.
Outcome(hits, more, names, session) ==
  LET sources == {V!ResultSource(stack.vector, k, vec[k]) : k \in hits} \cup more
      anchors == Anchors(sources, names)
      panics == \E a \in anchors : Panics(a, 2)
  IN  [rows |-> IF panics THEN {} ELSE Ranked(sources, anchors, session), panics |-> panics]

\* The search by default, and the one with tiers.
Legacy(names, session, limit) ==
  {Outcome(hits, {}, names, session) : hits \in Hits(names, DOMAIN vec, limit, FALSE)}

FourTier(names, session, limit) ==
  {Outcome(hits, CoreRows(session), names, session) : hits \in HitsOfTiers(names, limit)}

-----------------------------------------------------------------------------
MemoryTypeOK ==
  /\ DOMAIN row \subseteq RowId
  /\ \A r \in DOMAIN row : row[r].session \in Session /\ row[r].tier \in Tier
  /\ DOMAIN vec \subseteq Key /\ DOMAIN graph.node \subseteq NodeId
  /\ \A n \in DOMAIN graph.node : graph.node[n].source \in RowId \cup {NoSource}
  /\ \A k \in DOMAIN vec : vec[k].names \subseteq Name /\ vec[k].source \in RowId \cup NodeId \cup {NoSource}
  /\ history \subseteq Session \ {""}
  /\ gone \subseteq RowId /\ raced \subseteq gone /\ overlap \subseteq Input

\* A memory that was deleted stays deleted, although the pipeline goes on
\* writing what it had read before.
DeletedStaysDeleted == gone \cap DOMAIN row = {}

\* A row is the last thing of a memory to go: no vector and no node is left of
\* one that is gone, unless it was still being ingested.  (Redis finds no
\* nodes by their source; the vectors of entities are never deleted.)
NoOrphans ==
  LET lost == gone \ raced
  IN  /\ \A k \in DOMAIN vec : k.kind # "entity" => k.of \notin lost
      /\ stack.graph # "redis" => \A n \in DOMAIN graph.node : graph.node[n].source \notin lost

\* Wiping a session with no ingestion under way leaves no row, no node, no
\* message of it, and no vector of a row but of those a race left before.
WipeIsThorough ==
  [][Does("rows") /\ overlap = {} /\ client' = Silent =>
       LET s == client.session
       IN  /\ \A r \in DOMAIN row' : row'[r].session # s
           /\ \A k \in DOMAIN vec' : vec'[k].session = s => k.kind = "entity" \/ k.of \in raced
           /\ stack.graph # "redis" => \A n \in DOMAIN graph'.node : graph'.node[n].session # s
           /\ s \notin history']_vars

\* A call made for a session removes no row of another one and none of their
\* vectors, even where it follows the nearest vectors of all sessions.
DeletionsStayInSession ==
  [][client.session # "" =>
       /\ \A r \in DOMAIN row \ DOMAIN row' : row[r].session = client.session
       /\ \A k \in DOMAIN vec \ DOMAIN vec' : vec[k].session = client.session]_vars

\* A completed memory that a session may see is found by its own text, unless
\* it could not be embedded, is being deleted right now or, with tiers, is in
\* storage; or else, with the in-memory graph only, the search panics where it comes
\* upon an edge that is gone, or whose end is.  (As long as a search asks for as many
\* vectors as there are: see AllFit of MemoryEngineProofs.)
SearchFinds ==
  client.jobs = <<>> =>
    \A s \in Session, r \in DOMAIN row :
      row[r].done /\ r \notin blind /\ Visible(r, s) =>
        /\ \A found \in Legacy(row[r].names, s, 20) : r \in found.rows \/ found.panics
        /\ row[r].tier # "storage" =>
             \A found \in FourTier(row[r].names, s, 20) : r \in found.rows \/ found.panics
=============================================================================
