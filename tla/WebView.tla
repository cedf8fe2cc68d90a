------------------------------- MODULE WebView -------------------------------
(***************************************************************************)
(* The web view (internal/view/server.go): what its pages show of rows,    *)
(* vectors and the graph while the engine goes on writing and visitors add *)
(* and delete, and whose memories the word for a session means, which the  *)
(* view and the engine read in four ways (internal/sessionid).             *)
(*                                                                         *)
(* An id is the time the row was created.  A row is [session, marks, tier, *)
(* status, said, nodes, links]: said is the word of who added it, nodes    *)
(* and links are its part of the graph.  What the engine does to a row is  *)
(* CognifyPipeline and MemoryEngine: here it is a step for each write, and *)
(* a deletion is one step.  Texts differ, so that Add finds no earlier row.*)
(***************************************************************************)
EXTENDS Integers, Sequences, FiniteSets, TLC
LOCAL INSTANCE Functions
LOCAL INSTANCE SequencesExt
LOCAL INSTANCE FiniteSetsExt

CONSTANTS
  Visitor,    \* who looks at the pages
  Anywhere,   \* the session of global memories
  Unheard,    \* nobody's word
  ViewPlans   \* [memories, preview, web, todo, agenda, types]

VARIABLES
  memories,  \* the rows: id -> row
  preview,  \* the ids that have a vector
  web,      \* the graph: [nodes: id -> [type, source], links, both]
  visits,   \* visitor -> the requests to come, and the one being served
  agenda,   \* what the engine is about to write: [op, id, nodes, links]
  served,  \* visitor -> what was answered, in order
  scenes,   \* visitor -> what there was while it was served, and since a page
  lastId,    \* the last id given
  types     \* the node types, in the order they are looked up
viewVars == <<memories, preview, web, visits, agenda, served, scenes, lastId, types>>

----------------------------------------------------------------------------
(* The word for a session is [name, loud], without the blanks around it.    *)

DefaultName == [name |-> "default", loud |-> FALSE]
IsGlobalKeyword(word) == word.name \in {"global", "shared", "_"}
ForDataPointAdd(word) ==
  CASE word.name = "" -> DefaultName [] IsGlobalKeyword(word) -> Anywhere [] OTHER -> word
ForEngineContext(word) == IF word.name = "" \/ IsGlobalKeyword(word) THEN DefaultName ELSE word
\* No word lists all rows.
ListFilter(row, word) ==
  \/ word.name = ""
  \/ row.session = IF IsGlobalKeyword(word) THEN Anywhere ELSE word
WipeByName(row, word) == word.name # "" /\ row.session = word
\* No word wipes nothing.
ForBulkDeleteAll(row, word) ==
  word.name # "" /\ row.session = IF IsGlobalKeyword(word) THEN Anywhere ELSE word
VisibleForSearch(row, word) == row.session \in {Anywhere, ForEngineContext(word)}

----------------------------------------------------------------------------
(* Lists and pages.                                                         *)

IsChunk(row) == row.marks \cap {"is_chunk", "parent_id", "chunk_index"} # {}
IsInput(row) == "is_input" \in row.marks \/ ~IsChunk(row)
OfKind(row, kind) ==
  CASE kind = "input" -> IsInput(row) [] kind \in {"chunk", "processed", ""} -> IsChunk(row) [] OTHER -> TRUE
MemoryTier(tier) == IF tier \in {"core", "general", "data", "storage"} THEN tier ELSE "general"
FitsFilter(row, filter) ==
  /\ ListFilter(row, filter.session) /\ OfKind(row, filter.kind)
  /\ filter.status \in {"", "all", row.status}
  /\ filter.tier = "" \/ MemoryTier(row.tier) = MemoryTier(filter.tier)
Fitting(db, filter) == {id \in DOMAIN db : FitsFilter(db[id], filter)}
NewestFirst(ids) == SetToSortSeq(ids, LAMBDA a, b : a > b)

Bound(n, lo, hi) == IF n < lo THEN lo ELSE IF n > hi THEN hi ELSE n
PageFromNext(list, limit, offset) ==
  LET start == Bound(offset, 0, Len(list)) IN SubSeq(list, start + 1, Bound(start + limit + 1, 0, Len(list)))
PageOf(list, limit, offset) ==
  LET start == Bound(offset, 0, Len(list)) IN SubSeq(list, start + 1, Bound(start + limit, 0, Len(list)))

----------------------------------------------------------------------------

Idle0(todo) == [todo |-> todo, at |-> "idle", of |-> {}, list |-> <<>>, items |-> <<>>, total |-> 0, open |-> {}, shown |-> {}, links |-> {}]
Request1(v) == Head(visits[v].todo)
Limit1(v, most) == Bound(Request1(v).limit, 1, most)
Offset1(v) == IF Request1(v).offset < 0 THEN 0 ELSE Request1(v).offset
Serves(v, op) == visits[v].todo # <<>> /\ visits[v].at = "idle" /\ Request1(v).op = op
Within1(v, at) == visits[v].at = at
Serving(v, next) == visits' = [visits EXCEPT ![v] = next]
Replies(v, reply) ==
  Serving(v, Idle0(Tail(visits[v].todo))) /\ served' = [served EXCEPT ![v] = Append(@, [request |-> Request1(v)] @@ reply)]
Silently == UNCHANGED served
Rests == UNCHANGED <<memories, preview, web, agenda, lastId>>
\* What there was of vectors and links while a visitor is served, and which rows
\* came to fit the page it saw last, or went.
Watches ==
  /\ scenes' = [v \in Visitor |->
       LET was == visits[v].at = "idle"
           f == scenes[v].filter
           listed == served'[v] # served[v] /\ Request1(v).op = "list"
           came == IF f = Unheard THEN {} ELSE Fitting(memories', f) \ Fitting(memories, f)
           went == IF f = Unheard THEN {} ELSE Fitting(memories, f) \ Fitting(memories', f)
       IN  [always |-> IF was THEN preview' ELSE scenes[v].always \cap preview',
            ever |-> IF was THEN preview' ELSE scenes[v].ever \cup preview',
            drawn |-> IF was THEN web'.links ELSE scenes[v].drawn \cup web'.links,
            filter |-> IF listed THEN Request1(v).filter ELSE f,
            came |-> IF listed THEN {} ELSE scenes[v].came \cup came,
            went |-> IF listed THEN {} ELSE scenes[v].went \cup went]]
  /\ UNCHANGED types

\* POST /memory: Add, and Cognify without waiting for it.
AddsMemory(v) ==
  /\ Serves(v, "add")
  /\ LET asked == Request1(v)
         id == lastId + 1
         row == [session |-> ForDataPointAdd(asked.session), marks |-> {"is_input"}, tier |-> asked.tier,
                 status |-> "pending", said |-> asked.session, nodes |-> {}, links |-> {}]
     IN  /\ memories' = (id :> row) @@ memories /\ lastId' = id
         /\ agenda' = IF asked.cognify THEN Append(agenda, [op |-> "split", id |-> id, nodes |-> asked.nodes, links |-> asked.links])
                      ELSE agenda
         /\ Replies(v, [added |-> id])
  /\ UNCHANGED <<preview, web>> /\ Watches

Removed(ids) ==
  LET left == {n \in DOMAIN web.nodes : web.nodes[n].source \notin ids} IN
  /\ memories' = Restrict(memories, DOMAIN memories \ ids)
  /\ preview' = preview \ ids
  /\ web' = [web EXCEPT !.nodes = Restrict(@, left), !.links = @ \cap (left \X left)]
\* DELETE /memory of a row on the last page, with the session that stands there; a
\* row that is gone by then is an error if it has one.
DeletesShown(v) ==
  /\ Serves(v, "delete") /\ served[v] # <<>>
  /\ LET page == Last(served[v]) IN
     \E id \in Range(page.items) :
       /\ IF page.seen[id].session # Anywhere /\ (id \notin DOMAIN memories \/ memories[id].session # page.seen[id].session)
          THEN UNCHANGED <<memories, preview, web>> ELSE Removed({id})
       /\ Replies(v, [gone |-> id \notin DOMAIN memories'])
  /\ UNCHANGED <<agenda, lastId>> /\ Watches
\* DELETE /memory/session.
WipesSession(v) ==
  /\ Serves(v, "wipe")
  /\ LET word == Request1(v).session
         ids == {id \in DOMAIN memories : ForBulkDeleteAll(memories[id], word)}
     IN  /\ Removed(ids)
         /\ Replies(v, [left |-> {id \in DOMAIN memories' : ListFilter(memories'[id], word)},
                        lost |-> {id \in DOMAIN memories \ DOMAIN memories' : ~ListFilter(memories[id], word)}])
  /\ UNCHANGED <<agenda, lastId>> /\ Watches

\* GET /datapoints: the filters come after the query, the page after the filters.
ListsRows(v) ==
  /\ Serves(v, "list")
  /\ LET asked == Request1(v)
         all == Fitting(memories, asked.filter)
         page == PageOf(NewestFirst(all), Limit1(v, 200), Offset1(v))
     IN  Replies(v, [items |-> page, total |-> Cardinality(all), all |-> all,
                     seen |-> Restrict(memories, Range(page)),
                     came |-> scenes[v].came, went |-> scenes[v].went])
  /\ Rests /\ Watches

\* GET /vectors: the rows are read at once, their vectors one after the other, and
\* those that have one are counted and paged.
ListsVectors(v) ==
  /\ Serves(v, "vectors")
  /\ LET all == Fitting(memories, Request1(v).filter) IN
     Serving(v, [visits[v] EXCEPT !.at = "looking", !.of = all, !.list = NewestFirst(all)])
  /\ Silently /\ Rests /\ Watches
OnPage(v, rank) == rank \in Offset1(v)..Offset1(v) + Limit1(v, 200) - 1
CountsAll(v, id) ==
  [visits[v] EXCEPT !.list = Tail(@), !.total = @ + 1,
     !.items = IF id \in preview /\ OnPage(v, visits[v].total) THEN Append(@, id) ELSE @]
CountsPreview(v, id) ==
  IF id \notin preview THEN [visits[v] EXCEPT !.list = Tail(@)]
  ELSE [visits[v] EXCEPT !.list = Tail(@), !.total = @ + 1,
          !.items = IF OnPage(v, visits[v].total) THEN Append(@, id) ELSE @]
LooksAtVector(v) ==
  /\ Within1(v, "looking")
  /\ IF visits[v].list # <<>> THEN Serving(v, CountsPreview(v, Head(visits[v].list))) /\ Silently
     ELSE Replies(v, [items |-> visits[v].items, total |-> visits[v].total, of |-> visits[v].of,
                     always |-> scenes[v].always, ever |-> scenes[v].ever])
  /\ Rests /\ Watches

\* GET /relationships: what the rows have of the graph, cut to the limit; if they
\* have nothing, the graph itself.
Cut(S, n) == IF Cardinality(S) <= n THEN {S} ELSE kSubset(n, S)
ShowsRelations(v) ==
  /\ Serves(v, "relations")
  /\ LET asked == Request1(v)
         rows == {memories[id] : id \in {id \in DOMAIN memories : ListFilter(memories[id], asked.session)}}
         nodes == UNION {row.nodes : row \in rows}
         links == UNION {row.links : row \in rows}
     IN  IF nodes = {} /\ links = {}
         THEN Serving(v, [visits[v] EXCEPT !.at = "types", !.list = types]) /\ Silently
         ELSE \E n \in Cut(nodes, Limit1(v, 500)), l \in Cut(links, 4 * Limit1(v, 500)) :
                Replies(v, [snapshot |-> FALSE, nodes |-> n, links |-> l])
  /\ Rests /\ Watches
\* Nodes type by type, until there are enough.
CollectsType(v) ==
  /\ Within1(v, "types")
  /\ LET limit == Limit1(v, 500)
         shown == visits[v].shown
         found == {n \in DOMAIN web.nodes : visits[v].list # <<>> /\ web.nodes[n].type = Head(visits[v].list)} \ shown
     IN  IF visits[v].list = <<>> \/ Cardinality(shown) >= limit
         THEN Serving(v, [visits[v] EXCEPT !.at = "links", !.open = shown])
         ELSE \E more \in Cut(found, limit - Cardinality(shown)) :
                Serving(v, [visits[v] EXCEPT !.list = Tail(@), !.shown = @ \cup more])
  /\ Silently /\ Rests /\ Watches
Neighbours(n) ==
  {m \in DOMAIN web.nodes : <<n, m>> \in web.links \/ (web.both /\ <<m, n>> \in web.links)}
\* The neighbours of each, in the order of a map that grows on the way: a node that
\* joins it may be visited as well or not.
ConnectsShown(v) ==
  /\ Within1(v, "links")
  /\ LET visit == visits[v]
         limit == Limit1(v, 500)
     IN
     IF visit.open = {}
     THEN Replies(v, [snapshot |-> TRUE, nodes |-> visit.shown, links |-> visit.links,
                      full |-> Cardinality(visit.shown) >= limit, drawn |-> scenes[v].drawn])
     ELSE \E n \in visit.open :
            LET near == IF n \in DOMAIN web.nodes THEN Neighbours(n) ELSE {}
                room == Bound(limit - Cardinality(visit.shown), 0, limit)
            IN  \E more \in Cut(near \ visit.shown, room) : \E also \in SUBSET more :
                  /\ Serving(v, [visit EXCEPT !.open = (@ \ {n}) \cup also, !.shown = @ \cup more,
                                            !.links = @ \cup {<<n, m>> : m \in near}])
                  /\ Silently
  /\ Rests /\ Watches

----------------------------------------------------------------------------

\* The engine, write by write: the row of a chunk, its vector, its part of the
\* graph, the row again.  A row that is gone is not written again, its vector and
\* its nodes are.
EngineWrites ==
  /\ agenda # <<>>
  /\ LET next == Head(agenda)
         id == next.id
         new == lastId + 1
         then(op, of) == [next EXCEPT !.op = op, !.id = of]
         here == id \in DOMAIN memories
     IN  CASE next.op = "split" ->
                /\ memories' = IF here THEN (new :> [memories[id] EXCEPT !.marks = {"is_chunk", "parent_id", "chunk_index"}])
                                           @@ [memories EXCEPT ![id].status = "processing"]
                              ELSE memories
                /\ agenda' = Tail(agenda) \o IF here THEN <<then("embed", new), then("draw", new), then("complete", new), then("complete", id)>>
                                             ELSE <<>>
                /\ lastId' = IF here THEN new ELSE lastId
                /\ UNCHANGED <<preview, web>>
           [] next.op = "embed" ->
                /\ preview' = preview \cup {id} /\ agenda' = Tail(agenda)
                /\ UNCHANGED <<memories, web, lastId>>
           [] next.op = "draw" ->
                /\ web' = [web EXCEPT !.nodes = [n \in next.nodes |-> [type |-> n[1], source |-> id]] @@ @, !.links = @ \cup next.links]
                /\ agenda' = Tail(agenda) /\ UNCHANGED <<memories, preview, lastId>>
           [] next.op = "complete" ->
                /\ memories' = IF here THEN [memories EXCEPT ![id] =
                                     IF IsChunk(@) THEN [@ EXCEPT !.status = "completed", !.nodes = next.nodes, !.links = next.links]
                                     ELSE [@ EXCEPT !.status = "completed"]]
                              ELSE memories
                /\ agenda' = Tail(agenda) /\ UNCHANGED <<preview, web, lastId>>
  /\ UNCHANGED visits /\ Silently /\ Watches

ViewInit(plan) ==
  /\ memories = plan.memories /\ preview = plan.preview /\ web = plan.web
  /\ agenda = plan.agenda /\ types = plan.types
  /\ lastId = Max(DOMAIN plan.memories \cup {0})
  /\ visits = [v \in Visitor |-> Idle0(plan.todo[v])]
  /\ served = [v \in Visitor |-> <<>>]
  /\ scenes = [v \in Visitor |-> [always |-> plan.preview, ever |-> plan.preview, drawn |-> plan.web.links,
                                  filter |-> Unheard, came |-> {}, went |-> {}]]

ViewNext ==
  \/ EngineWrites
  \/ \E v \in Visitor :
       \/ AddsMemory(v) \/ DeletesShown(v) \/ WipesSession(v) \/ ListsRows(v)
       \/ ListsVectors(v) \/ LooksAtVector(v)
       \/ ShowsRelations(v) \/ CollectsType(v) \/ ConnectsShown(v)

----------------------------------------------------------------------------

Answered(op) == UNION {{r \in Range(served[v]) : r.request.op = op} : v \in Visitor}

\* A memory is found again under the word its adder used, in the lists, by a search
\* and by a deletion of the session, which takes what the list has and nothing else;
\* and a row is gone once it is deleted from a page (sessionid.go, handleMemory).
SessionsAgree ==
  /\ \A id \in DOMAIN memories :
       LET said == memories[id].said IN
       said # Unheard =>
         /\ ListFilter(memories[id], said) /\ VisibleForSearch(memories[id], said)
         /\ said.name # "" => ForBulkDeleteAll(memories[id], said)
  /\ \A r \in Answered("wipe") : r.request.session.name # "" => r.left = {} /\ r.lost = {}
  /\ \A r \in Answered("delete") : r.gone

\* A page and the one after it show no row twice if none came in between, and leave
\* none out that is in their range if none went (handleDataPoints).
PagesMeet ==
  \A v \in Visitor : \A k \in 2..Len(served[v]) :
    LET a == served[v][k - 1]
        b == served[v][k]
    IN  /\ a.request.op = "list" /\ b.request.op = "list" /\ a.request.filter = b.request.filter
        /\ a.request.offset = 0 /\ b.request.offset = a.request.limit
        => /\ b.came = {} => Range(a.items) \cap Range(b.items) = {}
           /\ b.went = {} => \A id \in b.all \ b.came :
                (b.items # <<>> /\ id >= Last(b.items)) => id \in Range(a.items) \cup Range(b.items)

\* The vectors that were there all along are counted, those that were never there
\* are not, and the page is the part of them asked for (handleVectors).
VectorsAreCounted ==
  \A r \in Answered("vectors") :
    /\ r.total \in Cardinality(r.of \cap r.always)..Cardinality(r.of \cap r.ever)
    /\ Range(r.items) \subseteq r.of \cap r.ever
    /\ r.always = r.ever => r.items = PageOf(NewestFirst(r.of \cap r.ever), r.request.limit, r.request.offset)

\* The graph that is shown when the rows have none of it is no larger than asked
\* for, its links join nodes it shows unless it is full, and each was in the graph
\* (loadGraphSnapshot).
SnapshotHolds ==
  \A r \in {r \in Answered("relations") : r.snapshot} :
    /\ Cardinality(r.nodes) <= r.request.limit
    /\ \A l \in r.links :
         /\ l[1] \in r.nodes /\ (l[2] \in r.nodes \/ r.full)
         /\ l \in r.drawn \/ (web.both /\ <<l[2], l[1]>> \in r.drawn)
=============================================================================
