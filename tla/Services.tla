------------------------------ MODULE Services ------------------------------
(***************************************************************************)
(* What the engine stands on, one part at a time: the graph stores, the    *)
(* relational and the vector stores, an embedding client, a language model *)
(* client, the configurations of the clients, the storages under their     *)
(* manager; what the engine thinks with them and extracts; and the pages   *)
(* that show what they keep.  They keep no state of each other, so that a  *)
(* behaviour is about one of them, its family, and one run checks them all.*)
(***************************************************************************)
EXTENDS GraphStores, SharedRows, EmbeddingClients, ModelClients, Configurations, HealthMonitoring,
        VectorAdapters, RelationalStores, Thinking, Extraction, WebView

VARIABLE family   \* what the behaviour is about

serviceVars == <<vars, rowVars, embedVars, talkVars, configVars, healthVars, adapterVars,
                relationalVars, thinkVars, extractionVars, viewVars, family>>

Family == {"graph", "rows", "embedding", "talk", "settings", "storage", "vectors", "relational", "thinking", "extraction",
           "view"}
Of(name) == family = name
\* What the other families keep is empty, the graphs as well, and the clients of
\* the rows are idle.
NoRows == RowsInit([c \in Clients |-> <<>>])
NoEmbed ==
  /\ emb = <<>> /\ usage = <<>> /\ asks = <<>> /\ asked = <<>> /\ clash = <<>>
  /\ lengths = <<>>
NoTalk ==
  /\ llm = <<>> /\ talk = <<>> /\ said = <<>> /\ held = <<>>
NoConfig ==
  /\ settings = <<>> /\ manager = <<>> /\ disk = <<>> /\ records = <<>> /\ holder = <<>>
  /\ tasks = <<>> /\ outlook = <<>> /\ missed = <<>> /\ written = <<>>
NoHealth ==
  /\ heap = <<>> /\ factory = <<>> /\ pools = <<>> /\ kept = <<>> /\ jobs = <<>>
  /\ system = <<>> /\ condition = <<>> /\ ahead = <<>> /\ lent = <<>> /\ edited = <<>>
  /\ monitor = <<>> /\ checkers = <<>> /\ loops = <<>> /\ runs = <<>> /\ runner = <<>>
  /\ report = <<>> /\ began = <<>> /\ overlap = <<>>
NoVectors ==
  /\ kind = <<>> /\ place = <<>> /\ vectors = <<>> /\ serial = <<>> /\ shelves = <<>>
  /\ index = <<>> /\ turn = <<>> /\ promise = <<>>
NoRelational ==
  /\ dialect = <<>> /\ tables = <<>> /\ sessions = <<>> /\ messages = <<>> /\ course = <<>>
  /\ answers = <<>> /\ pledge = <<>> /\ failures = <<>>
NoThinking ==
  /\ thought = <<>> /\ replies = <<>> /\ shown = <<>> /\ bridges = <<>> /\ lore = <<>>
  /\ chats = <<>> /\ analyst = <<>>
NoExtraction ==
  /\ extractor = <<>> /\ drafts = <<>> /\ occupant = <<>> /\ tensors = <<>>
  /\ entities = <<>> /\ verdicts = <<>>
NoView ==
  /\ memories = <<>> /\ preview = <<>> /\ web = <<>> /\ visits = <<>> /\ agenda = <<>>
  /\ served = <<>> /\ scenes = <<>> /\ lastId = <<>> /\ types = <<>>

ServicesInit ==
  /\ family \in Family /\ Init
  /\ IF Of("rows") THEN \E plan \in RowPlans : RowsInit(plan) ELSE NoRows
  /\ IF Of("embedding") THEN \E plan \in EmbedPlans : EmbedInit(plan) ELSE NoEmbed
  /\ IF Of("talk") THEN \E plan \in TalkPlans : TalkInit(plan) ELSE NoTalk
  /\ IF Of("settings") THEN \E plan \in ConfigPlans : ConfigInit(plan) ELSE NoConfig
  /\ IF Of("storage") THEN \E plan \in SetupPlans : HealthInit(plan) ELSE NoHealth
  /\ IF Of("vectors") THEN \E plan \in VectorPlans : AdapterInit(plan) ELSE NoVectors
  /\ IF Of("relational") THEN \E plan \in RelationalPlans : RelationalInit(plan) ELSE NoRelational
  /\ IF Of("thinking") THEN \E plan \in ThinkPlans : ThinkInit(plan) ELSE NoThinking
  /\ IF Of("extraction") THEN \E plan \in ExtractionPlans : ExtractionInit(plan) ELSE NoExtraction
  /\ IF Of("view") THEN \E plan \in ViewPlans : ViewInit(plan) ELSE NoView

ServicesNext ==
  /\ UNCHANGED family
  /\ \/ Of("graph") /\ Next
        /\ UNCHANGED <<rowVars, embedVars, talkVars, configVars, healthVars,
                       adapterVars, relationalVars, thinkVars, extractionVars, viewVars>>
     \/ Of("rows") /\ RowsNext
        /\ UNCHANGED <<vars, embedVars, talkVars, configVars, healthVars,
                       adapterVars, relationalVars, thinkVars, extractionVars, viewVars>>
     \/ Of("embedding") /\ EmbedNext
        /\ UNCHANGED <<vars, rowVars, talkVars, configVars, healthVars,
                       adapterVars, relationalVars, thinkVars, extractionVars, viewVars>>
     \/ Of("talk") /\ TalkNext
        /\ UNCHANGED <<vars, rowVars, embedVars, configVars, healthVars,
                       adapterVars, relationalVars, thinkVars, extractionVars, viewVars>>
     \/ Of("settings") /\ ConfigNext
        /\ UNCHANGED <<vars, rowVars, embedVars, talkVars, healthVars,
                       adapterVars, relationalVars, thinkVars, extractionVars, viewVars>>
     \/ Of("storage") /\ HealthNext
        /\ UNCHANGED <<vars, rowVars, embedVars, talkVars, configVars,
                       adapterVars, relationalVars, thinkVars, extractionVars, viewVars>>
     \/ Of("vectors") /\ AdapterNext
        /\ UNCHANGED <<vars, rowVars, embedVars, talkVars, configVars,
                       healthVars, relationalVars, thinkVars, extractionVars, viewVars>>
     \/ Of("relational") /\ RelationalNext
        /\ UNCHANGED <<vars, rowVars, embedVars, talkVars, configVars,
                       healthVars, adapterVars, thinkVars, extractionVars, viewVars>>
     \/ Of("thinking") /\ ThinkNext
        /\ UNCHANGED <<vars, rowVars, embedVars, talkVars, configVars,
                       healthVars, adapterVars, relationalVars, extractionVars, viewVars>>
     \/ Of("extraction") /\ ExtractionNext
        /\ UNCHANGED <<vars, rowVars, embedVars, talkVars, configVars,
                       healthVars, adapterVars, relationalVars, thinkVars, viewVars>>
     \/ Of("view") /\ ViewNext
        /\ UNCHANGED <<vars, rowVars, embedVars, talkVars, configVars, healthVars,
                       adapterVars, relationalVars, thinkVars, extractionVars>>

ServicesSpec == ServicesInit /\ [][ServicesNext]_serviceVars

StoresTypeOK == (Of("graph") => GraphTypeOK) /\ (Of("rows") => RowsTypeOK)

\* What is read of a graph is what its edges say: TraversalExact,
\* PathsAreShortest and InMemoryReadsOwnEdges of GraphStores.  What the web view
\* shows is what there is, for the session it was asked for (WebView), and the
\* model reads all there is to read and nothing else (Thinking).  What is drafted
\* of a text is the text's own, whatever is extracted at the same time (Extraction).
ReadsAreExact ==
  /\ Of("graph") => TraversalExact /\ PathsAreShortest /\ InMemoryReadsOwnEdges
  /\ Of("view") => SessionsAgree /\ PagesMeet /\ VectorsAreCounted /\ SnapshotHolds
  /\ Of("thinking") =>
       /\ PromptsAreOwn /\ EverythingIsRead /\ NotFoundForCause
       /\ LearnsFromAnswers /\ SegmentsFit
  /\ Of("extraction") =>
       /\ SpansAreOwn /\ EdgesJoinDrafts /\ TypesAreStable
       /\ MergesWithOwn /\ SourcesStay

\* The same calls leave the same graphs, in which no edge lacks an end:
\* StoresAgree and EdgesAnchored of GraphStores.
GraphsAgree == Of("graph") => StoresAgree /\ EdgesAnchored

\* What the clients of the models promise their callers (EmbeddingClients,
\* ModelClients), whatever overlaps and however the services fail.
ClientsAreSound ==
  /\ Of("embedding") => LengthsAsAsked /\ OwnVectors /\ CountsAddUp
  /\ Of("talk") => AnswersAreOwn /\ GivesUpForCause /\ StopsWhenOver

\* The configurations follow their file and the providers the configurations
\* (FileIsFollowed, WatchersCatchUp and RegisteredAsLoaded of Configurations); the
\* storages are what theirs say, checked as they are and stopped for good
\* (StorageSetup, HealthMonitoring).
SetupsHold ==
  /\ Of("settings") => FileIsFollowed /\ WatchersCatchUp /\ RegisteredAsLoaded
  /\ Of("storage") =>
       /\ ProfilesAreKept /\ AcceptedIsBuilt /\ WritesAreFound
       /\ StopIsFinal /\ ReportsAreEarned /\ ClosedIsQuiet

\* What the calls that nothing overlaps leave in a vector or relational store is
\* what they say, a search finds the nearest and a query all there is (VectorAdapters,
\* RelationalStores).
BackendsHold ==
  /\ Of("vectors") =>
       KeptAsSaid /\ RowsHaveEntries /\ NearestAreFound /\ NothingMissing
  /\ Of("relational") => RowsAsPledged /\ QueriesAreWhole /\ PagesAddUp
=============================================================================
