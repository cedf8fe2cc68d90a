--------------------------- MODULE VectorAdapters ---------------------------
(***************************************************************************)
(* The five stores of vectors behind one interface (vector/adapters): in   *)
(* memory, SQLite with sqlite-vec, PostgreSQL with pgvector, Redis, Qdrant. *)
(*                                                                         *)
(* A behaviour is about one kind of store and two clients of it.  place    *)
(* has the entry of an id, which says where its vector is: in SQLite in a  *)
(* row of another table, in the others under the id itself.  A vector is   *)
(* its distance to the one query that is asked, in hundredths of 1 -       *)
(* cosine, or Misfit, a vector of another length.  All are of length 1, so *)
(* that the distance SQLite computes is the root of twice that.            *)
(*                                                                         *)
(* Labels, tiers and the filters of a search come first                    *)
(* (schema/memory_labels.go, the start of Add in engine/engine_core.go).   *)
(* A text as somebody wrote it is [name, loud]: what is left of it in      *)
(* lower case and without blanks around it, and whether it has capitals or *)
(* blanks.  A value of the metadata is a text or has another type, which   *)
(* is printed as its name.                                                 *)
(***************************************************************************)
EXTENDS Integers, Sequences, FiniteSets, TLC
LOCAL INSTANCE Functions
LOCAL INSTANCE FiniteSetsExt
LOCAL INSTANCE SequencesExt

CONSTANTS
  Absent,        \* no such key in the metadata, no such filter
  Caller,        \* who uses the store
  Misfit,        \* a vector whose length is not that of the store
  NoMeta,        \* what an entry has whose metadata is gone
  Torn,          \* what calls promise that overlap
  VectorPlans,   \* [kind, stock, calls, shelves]: what is there, what they do
  Queries        \* what may be searched for

NormalizeLabel(written) == written.name

\* Without blanks and repetitions, in the order of the first appearance.
NormalizeLabels(written) ==
  FoldLeft(LAMBDA names, l :
             IF l.name = "" \/ l.name \in Range(names) THEN names ELSE Append(names, l.name),
           <<>>, written)
LabelSetsEqual(a, b) == Range(NormalizeLabels(a)) = Range(NormalizeLabels(b))

Builtin == {"rule", "policy"}   \* labels of the core tier
DefaultTier(labels) == IF Range(labels) \cap Builtin # {} THEN "core" ELSE "general"

\* What Add writes about labels and tier.
Plain(name) == [name |-> name, loud |-> FALSE, type |-> "string"]
TierOf(written, tier) == IF tier # Absent THEN tier.name ELSE DefaultTier(NormalizeLabels(written))
Labelled(written, tier) ==
  LET labels == NormalizeLabels(written) IN
  [tier |-> Plain(TierOf(written, tier)),
   primary |-> IF labels = <<>> THEN Absent ELSE Plain(labels[1]),
   joined |-> Range(labels), list |-> labels]

\* What Cognify writes beside the vector of a row: the joined labels and the
\* primary one, not the list.
ForVector(meta) == [meta EXCEPT !.list = <<>>]

HasAnyLabel(meta, want) ==
  \/ want = <<>>
  \/ meta.primary # Absent /\ meta.primary.name \in Range(want)
  \/ meta.joined \cap Range(want) # {}
  \/ Range(meta.list) \cap Range(want) # {}

\* A filter has a value for the tier and labels one of which is wanted.
HasLabelFilter(filter) == NormalizeLabels(filter.labels) # <<>>
EngineFilter(filter) == filter.tier # Absent
NoFilters(filter) == filter.tier = Absent /\ filter.labels = <<>>

\* As printed, in any case.
Matches(meta, filter) ==
  /\ filter.tier # Absent => meta.tier # Absent /\ meta.tier.name = filter.tier.name
  /\ HasAnyLabel(meta, NormalizeLabels(filter.labels))

----------------------------------------------------------------------------
Home == "home"   \* the collection of the configuration

VARIABLES
  kind,     \* the store
  place,    \* id -> [row, meta]
  vectors,  \* row -> distance or Misfit
  serial,   \* the rows SQLite has handed out
  shelves,  \* the collections, tables or indexes of the server
  index,    \* the index Redis searches
  turn,     \* caller -> [calls, item, sees, at, marred]: where it is
  promise   \* id -> what the last call about it comes to
adapterVars == <<kind, place, vectors, serial, shelves, index, turn, promise>>

----------------------------------------------------------------------------
(* A call has items, [id, vector, meta] for each id it is about.            *)

Call(c) == Head(turn[c].calls)
Asks(c, ops) == turn[c].calls # <<>> /\ Call(c).op \in ops
Item(c) == Call(c).items[turn[c].item]
AboutAll(call) == call.op = "drop"
About(call) == {call.items[i].id : i \in DOMAIN call.items}
Under(c) == turn[c].calls # <<>> /\ turn[c].at # "start"
Id == DOMAIN promise

\* The ids two calls share that are under way at the same time.
Shared(c, d) ==
  IF ~Under(d) THEN {}
  ELSE IF AboutAll(Call(c)) THEN IF AboutAll(Call(d)) THEN Id ELSE About(Call(d))
  ELSE IF AboutAll(Call(d)) THEN About(Call(c)) ELSE About(Call(c)) \cap About(Call(d))
Marred(c) == turn[c].marred \cup UNION {Shared(c, d) : d \in Caller \ {c}}
\* Caller c goes on to next, and those it disturbs remember.
Steps(c, next) ==
  turn' = [d \in Caller |->
    IF d = c THEN next ELSE [turn[d] EXCEPT !.marred = @ \cup Shared(c, d)]]
Goes(c, at, sees) == Steps(c, [turn[c] EXCEPT !.at = at, !.sees = sees, !.marred = Marred(c)])
Over(c) == Steps(c, [calls |-> Tail(turn[c].calls), item |-> 1, sees |-> Absent, at |-> "start", marred |-> {}])

\* What an item comes to.
Outcome(old, call, item) ==
  CASE call.op \in {"delete", "deletes"} -> Absent
    [] call.op \in {"store", "batch"} -> [vector |-> item.vector, meta |-> item.meta]
    [] OTHER -> IF old \in {Absent, Torn} THEN old ELSE [old EXCEPT !.vector = item.vector]
\* The call is over and its first n items have had their effect.
EndsCall(c, n) ==
  /\ Over(c)
  /\ promise' = [id \in Id |->
       LET at == {i \in 1..n : Call(c).items[i].id = id} IN
       IF id \in Marred(c) THEN Torn
       ELSE IF at = {} THEN promise[id]
       ELSE Outcome(promise[id], Call(c), Call(c).items[Max(at)])]
\* The item is done; the next one, if there is one.
EndsItem(c) ==
  IF turn[c].item < Len(Call(c).items)
  THEN /\ Steps(c, [turn[c] EXCEPT !.item = @ + 1, !.at = "next", !.sees = Absent, !.marred = Marred(c)])
       /\ UNCHANGED promise
  ELSE EndsCall(c, turn[c].item)
\* An error ends the call at this item.
FailsItem(c) == EndsCall(c, turn[c].item - 1)

Fits(vector) == vector # Misfit
\* SQLite itself, or the server, refuses a vector of another length.
RefusesLength(vector) == kind \in {"sqlite", "pgvector", "qdrant"} /\ ~Fits(vector)
\* Without its table or collection a server answers with an error.
Served == kind \in {"pgvector", "qdrant"} => Home \in shelves

WritesVector(id, row, vector, entry) ==
  /\ place' = (id :> entry) @@ place
  /\ vectors' = (row :> vector) @@ vectors
VectorEntry(row, meta) == [row |-> row, meta |-> meta]
Removes(ids) ==
  /\ vectors' = Restrict(vectors, DOMAIN vectors \ {place[id].row : id \in ids \cap DOMAIN place})
  /\ place' = Restrict(place, DOMAIN place \ ids)
SameStore == UNCHANGED <<place, vectors, serial>>
SameShelves == UNCHANGED <<kind, shelves, index>>

----------------------------------------------------------------------------
(* SQLite looks for the row of an id and then opens a transaction; Redis    *)
(* looks whether an id is there before it updates it.                       *)

LooksSQLite(c) ==
  /\ kind = "sqlite" /\ turn[c].at \in {"start", "next"}
  /\ Asks(c, {"store", "batch", "update", "delete", "deletes"})
  /\ IF Asks(c, {"store", "batch", "update"}) /\ RefusesLength(Item(c).vector)
     THEN FailsItem(c)
     ELSE IF Item(c).id \in DOMAIN place
     THEN Goes(c, "write", place[Item(c).id].row) /\ UNCHANGED promise
     ELSE IF Asks(c, {"update"}) THEN FailsItem(c)
     ELSE IF Asks(c, {"delete", "deletes"}) THEN EndsItem(c)
     ELSE Goes(c, "write", Absent) /\ UNCHANGED promise
  /\ SameStore /\ SameShelves

\* A new id gets a new row, unless another call has stored it meanwhile; the
\* row and the entry of an old one are updated where they still are.
StoresSQLite(c) ==
  /\ kind = "sqlite" /\ turn[c].at = "write" /\ Asks(c, {"store", "batch"})
  /\ LET id == Item(c).id
         row == turn[c].sees
         entry == VectorEntry(row, Item(c).meta)
     IN  IF row = Absent
         THEN IF id \in DOMAIN place
              THEN FailsItem(c) /\ SameStore
              ELSE /\ serial' = serial + 1
                   /\ WritesVector(id, serial', Item(c).vector, [entry EXCEPT !.row = serial'])
                   /\ EndsItem(c)
         ELSE /\ vectors' = IF row \in DOMAIN vectors THEN [vectors EXCEPT ![row] = Item(c).vector] ELSE vectors
              /\ place' = IF id \in DOMAIN place THEN [place EXCEPT ![id].meta = Item(c).meta] ELSE place
              /\ EndsItem(c) /\ UNCHANGED serial
  /\ SameShelves

UpdatesSQLite(c) ==
  /\ kind = "sqlite" /\ turn[c].at = "write" /\ Asks(c, {"update"})
  /\ vectors' = IF turn[c].sees \in DOMAIN vectors
                THEN [vectors EXCEPT ![turn[c].sees] = Item(c).vector] ELSE vectors
  /\ EndsItem(c) /\ UNCHANGED <<place, serial>> /\ SameShelves

DeletesSQLite(c) ==
  /\ kind = "sqlite" /\ turn[c].at = "write" /\ Asks(c, {"delete", "deletes"})
  /\ vectors' = Restrict(vectors, DOMAIN vectors \ {turn[c].sees})
  /\ place' = Restrict(place, DOMAIN place \ {Item(c).id})
  /\ EndsItem(c) /\ UNCHANGED serial /\ SameShelves

\* The two tables are emptied one after the other.
DropsSQLite(c) ==
  /\ kind = "sqlite" /\ Asks(c, {"drop"})
  /\ IF turn[c].at = "start"
     THEN vectors' = <<>> /\ Goes(c, "meta", Absent) /\ UNCHANGED <<place, promise>>
     ELSE /\ place' = <<>> /\ UNCHANGED vectors /\ Over(c)
          /\ promise' = [id \in Id |-> IF id \in Marred(c) THEN Torn ELSE Absent]
  /\ UNCHANGED serial /\ SameShelves

UpdatesRedis(c) ==
  /\ kind = "redis" /\ Asks(c, {"update"})
  /\ LET id == Item(c).id IN
     IF turn[c].at = "start"
     THEN IF id \in DOMAIN place THEN Goes(c, "write", Absent) /\ UNCHANGED promise /\ SameStore
          ELSE FailsItem(c) /\ SameStore
     ELSE /\ WritesVector(id, id, Item(c).vector, IF id \in DOMAIN place THEN place[id] ELSE VectorEntry(id, NoMeta))
          /\ EndsItem(c) /\ UNCHANGED serial
  /\ SameShelves

----------------------------------------------------------------------------
(* The other stores do one thing at a time: under their lock, or in one     *)
(* statement or request.                                                    *)

StoresOne(c) ==
  /\ kind # "sqlite" /\ Asks(c, {"store"})
  /\ IF RefusesLength(Item(c).vector) \/ ~Served
     THEN FailsItem(c) /\ SameStore
     ELSE /\ WritesVector(Item(c).id, Item(c).id, Item(c).vector, VectorEntry(Item(c).id, Item(c).meta))
          /\ EndsItem(c) /\ UNCHANGED serial
  /\ SameShelves

\* In memory and in the pipeline of Redis one after the other; in one
\* transaction or request in the two servers.
StoresBatch(c) ==
  /\ kind # "sqlite" /\ Asks(c, {"batch"})
  /\ LET items == Call(c).items
         last(id) == items[Max({i \in DOMAIN items : items[i].id = id})]
         all == About(Call(c))
     IN  IF kind \in {"inmemory", "redis"}
         THEN /\ WritesVector(Item(c).id, Item(c).id, Item(c).vector, VectorEntry(Item(c).id, Item(c).meta))
              /\ EndsItem(c)
         ELSE IF ~Served \/ \E i \in DOMAIN items : RefusesLength(items[i].vector)
         THEN EndsCall(c, 0) /\ UNCHANGED <<place, vectors>>
         ELSE /\ place' = [id \in all |-> VectorEntry(id, last(id).meta)] @@ place
              /\ vectors' = [id \in all |-> last(id).vector] @@ vectors
              /\ EndsCall(c, Len(items))
  /\ UNCHANGED serial /\ SameShelves

UpdatesOne(c) ==
  /\ kind \in {"inmemory", "pgvector", "qdrant"} /\ Asks(c, {"update"})
  /\ IF Item(c).id \notin DOMAIN place \/ RefusesLength(Item(c).vector) \/ ~Served
     THEN FailsItem(c) /\ UNCHANGED vectors
     ELSE vectors' = [vectors EXCEPT ![Item(c).id] = Item(c).vector] /\ EndsItem(c)
  /\ UNCHANGED <<place, serial>> /\ SameShelves

DeletesOne(c) ==
  /\ kind # "sqlite" /\ Asks(c, {"delete", "deletes"})
  /\ IF ~Served THEN FailsItem(c) /\ UNCHANGED <<place, vectors>>
     ELSE IF Asks(c, {"delete"}) \/ kind = "inmemory"
     THEN Removes({Item(c).id}) /\ EndsItem(c)
     ELSE Removes(About(Call(c))) /\ EndsCall(c, Len(Call(c).items))
  /\ UNCHANGED serial /\ SameShelves

\* In memory and SQLite have one collection under any name.  The statements of
\* PostgreSQL go to the table of the configuration, the searches of Redis to
\* the index that was created last; Qdrant refuses a second of a name.
Creates(c) ==
  /\ Asks(c, {"create"})
  /\ shelves' = IF kind \in {"pgvector", "redis", "qdrant"} THEN shelves \cup {Call(c).name} ELSE shelves
  /\ index' = IF kind = "redis" THEN Call(c).name ELSE index
  /\ Over(c) /\ UNCHANGED <<kind, place, vectors, serial, promise>>

\* Redis drops the index and keeps the vectors, which a new one finds again.
Drops(c) ==
  /\ kind # "sqlite" /\ Asks(c, {"drop"})
  /\ shelves' = shelves \ {Call(c).name}
  /\ IF kind = "inmemory" \/ (kind \in {"pgvector", "qdrant"} /\ Call(c).name = Home)
     THEN /\ place' = <<>> /\ vectors' = <<>>
          /\ promise' = [id \in Id |-> IF id \in Marred(c) THEN Torn ELSE Absent]
     ELSE UNCHANGED <<place, vectors, promise>>
  /\ Over(c) /\ UNCHANGED <<kind, serial, index>>

----------------------------------------------------------------------------
(* A search, [filter, limit, threshold], for the nearest entries that match *)
(* the filter.                                                              *)

Distance(row) == IF Fits(vectors[row]) THEN vectors[row] ELSE 100
DistanceOf(id) == Distance(place[id].row)
Least(a, b) == IF a < b THEN a ELSE b
Greatest(a, b) == IF a < b THEN b ELSE a
\* The n nearest of some ids; no two of them are equally near.
First(n, ids) == {id \in ids : Cardinality({j \in ids : DistanceOf(j) < DistanceOf(id)}) < n}

\* The score SQLite gives is 1 / (1 + distance), the others' is 1 - distance.
Near(id, threshold) ==
  IF kind = "sqlite"
  THEN 2 * DistanceOf(id) * threshold * threshold <= 100 * (100 - threshold) * (100 - threshold)
  ELSE 100 - DistanceOf(id) >= threshold
\* Metadata that is gone is empty.
MetaOf(id) ==
  IF place[id].meta = NoMeta
  THEN [tier |-> Absent, primary |-> Absent, joined |-> {}, list |-> <<>>]
  ELSE place[id].meta
Wanted(id, filter) == Matches(MetaOf(id), filter)
Stored == {id \in DOMAIN place : place[id].row \in DOMAIN vectors}

SearchInMemory(q) ==
  LET found == {id \in Stored : Wanted(id, q.filter) /\ Near(id, q.threshold)}
  IN  IF q.limit > 0 THEN First(q.limit, found) ELSE found

\* The k nearest rows that have an entry.
KnnSearch(k) ==
  LET rows == {r \in DOMAIN vectors :
                 Cardinality({s \in DOMAIN vectors : Distance(s) < Distance(r)}) < k}
  IN  {id \in DOMAIN place : place[id].row \in rows}
MaxCandidates == 5000
\* The window is doubled until it holds enough, or everything.
FirstWindow(limit) == Greatest(limit * 4, limit + 10)
WindowOnce(q, limit) == IF NoFilters(q.filter) THEN limit ELSE FirstWindow(limit)
Window(q, limit) ==
  LET found(k) == {id \in KnnSearch(k) : Wanted(id, q.filter) /\ Near(id, q.threshold)}
      stops(k) == \/ Cardinality(found(k)) >= limit
                  \/ Cardinality(KnnSearch(k)) < k
                  \/ k >= MaxCandidates
      windows == {Least(FirstWindow(limit) * 2 ^ i, MaxCandidates) : i \in 0..12}
  IN  IF NoFilters(q.filter) THEN limit ELSE Min({k \in windows : stops(k)})
Limit(q) == IF q.limit <= 0 THEN 10 ELSE q.limit
SearchSQLite(q) ==
  LET found == KnnSearch(Window(q, Limit(q)))
  IN  First(Limit(q), {id \in found : Near(id, q.threshold) /\ Wanted(id, q.filter)})

\* The statement compares the values as they are, the labels come after it: for
\* them it is asked for more rows.  A negative limit is an error.
WindowPgVector(q) ==
  IF HasLabelFilter(q.filter) THEN Least(q.limit * 4, Greatest(q.limit + 20, 40)) ELSE q.limit
SearchPgVector(q) ==
  LET found == {id \in Stored :
                  /\ Near(id, q.threshold)
                  /\ EngineFilter(q.filter) => MetaOf(id).tier = q.filter.tier}
  IN  IF ~Served \/ WindowPgVector(q) <= 0 THEN {}
      ELSE First(q.limit, {id \in First(WindowPgVector(q), found) : Wanted(id, q.filter)})

\* Without its index Redis finds nothing.  A reply has ten entries unless it is
\* asked for more, which the query never does.
RedisReply == 10
SearchRedis(q) ==
  LET knn == IF HasLabelFilter(q.filter) THEN Least(Limit(q) * 4, 500) ELSE Limit(q)
      indexed == IF index \in shelves THEN {id \in Stored : Fits(vectors[id])} ELSE {}
      reply == First(Least(knn, RedisReply), indexed)
  IN  First(Limit(q), {id \in reply : Near(id, q.threshold) /\ Wanted(id, q.filter)})

\* A filter is a keyword, which only a text of the metadata can be.
Keyword(value, want) == value # Absent /\ value.type = "string" /\ want.type = "string" /\ value = want
SearchQdrant(q) ==
  LET window == IF HasLabelFilter(q.filter) THEN Least(Limit(q) * 4, 200) ELSE Limit(q)
      found == {id \in Stored :
                  /\ Near(id, q.threshold)
                  /\ EngineFilter(q.filter) => Keyword(MetaOf(id).tier, q.filter.tier)}
  IN  IF ~Served THEN {}
      ELSE First(Limit(q), {id \in First(window, found) : Wanted(id, q.filter)})

Finds(q) ==
  CASE kind = "inmemory" -> SearchInMemory(q)
    [] kind = "sqlite" -> SearchSQLite(q)
    [] kind = "pgvector" -> SearchPgVector(q)
    [] kind = "redis" -> SearchRedis(q)
    [] kind = "qdrant" -> SearchQdrant(q)

----------------------------------------------------------------------------

\* A stock of entries is there before; a server has the collections it was given.
AdapterInit(plan) ==
  /\ kind = plan.kind /\ shelves = plan.shelves /\ index = "vectors"
  /\ place = [id \in DOMAIN plan.stock |->
       VectorEntry(IF kind = "sqlite" THEN plan.stock[id].row ELSE id, plan.stock[id].meta)]
  /\ vectors = [row \in {place[id].row : id \in DOMAIN place} |->
       plan.stock[CHOOSE id \in DOMAIN place : place[id].row = row].vector]
  /\ serial = Cardinality(DOMAIN plan.stock)
  /\ turn = [c \in Caller |->
       [calls |-> plan.calls[c], item |-> 1, sees |-> Absent, at |-> "start", marred |-> {}]]
  /\ promise = [id \in DOMAIN plan.stock \cup
                       UNION {UNION {About(plan.calls[c][i]) : i \in 1..Len(plan.calls[c])} : c \in Caller} |->
       IF id \in DOMAIN plan.stock
       THEN [vector |-> plan.stock[id].vector, meta |-> plan.stock[id].meta] ELSE Absent]

AdapterNext ==
  \E c \in Caller :
    \/ LooksSQLite(c) \/ StoresSQLite(c) \/ UpdatesSQLite(c) \/ DeletesSQLite(c) \/ DropsSQLite(c)
    \/ UpdatesRedis(c)
    \/ StoresOne(c) \/ StoresBatch(c) \/ UpdatesOne(c) \/ DeletesOne(c)
    \/ Creates(c) \/ Drops(c)

----------------------------------------------------------------------------

\* The calls about an id that nothing overlapped have left what they say,
\* whatever overlapped before them (store, update, delete and their batches of
\* the five adapters).
KeptAsSaid ==
  \A id \in Id :
    LET busy == \E c \in Caller : Under(c) /\ (AboutAll(Call(c)) \/ id \in About(Call(c))) IN
    ~busy /\ promise[id] # Torn =>
      IF promise[id] = Absent THEN id \notin DOMAIN place
      ELSE /\ id \in Stored
           /\ vectors[place[id].row] = promise[id].vector /\ place[id].meta = promise[id].meta

\* No vector of SQLite is left without its entry, or taken by two, unless a
\* store came between the halves of a drop.
RowsHaveEntries ==
  kind = "sqlite" /\ Torn \notin Range(promise) /\ (\A c \in Caller : turn[c].at # "meta") =>
    /\ DOMAIN vectors = {place[id].row : id \in DOMAIN place}
    /\ \A i, j \in DOMAIN place : place[i].row = place[j].row => i = j

\* What passes filter and threshold, as the engine understands them.
Qualifies(id, q) == Wanted(id, q.filter) /\ Near(id, q.threshold)
Written == \A id \in Stored : MetaOf(id).tier # Absent => MetaOf(id).tier = Plain(MetaOf(id).tier.name)

\* Every hit passes the filter and is nearer than what qualifies and is no hit,
\* where the filter is written as the metadata is: of a reply that is read to its
\* end (pgvector.go:207 does not ask whether it was).
NearestAreFound ==
  \A q \in Queries :
    /\ \A id \in Finds(q) : Qualifies(id, q)
    /\ q.limit > 0 => Cardinality(Finds(q)) <= q.limit
    /\ Written /\ (EngineFilter(q.filter) => q.filter.tier = Plain(q.filter.tier.name)) =>
         \A id \in Finds(q) : \A j \in Stored \ Finds(q) :
           Qualifies(j, q) /\ (kind = "redis" => Fits(vectors[j])) => DistanceOf(id) <= DistanceOf(j)

\* In memory and in SQLite, however far the search has to go, nothing is missing
\* while there are fewer hits than asked for; in the servers when no label is
\* wanted, and in Redis when nothing is and no more than ten.
NothingMissing ==
  \A q \in Queries :
    LET complete ==
          CASE kind = "inmemory" -> TRUE
            [] kind = "sqlite" -> Torn \notin Range(promise)
            [] kind = "redis" -> index \in shelves /\ NoFilters(q.filter) /\ q.limit \in 1..RedisReply
            [] OTHER -> Served /\ q.limit > 0 /\ ~HasLabelFilter(q.filter)
                        /\ (EngineFilter(q.filter) => Written /\ q.filter.tier = Plain(q.filter.tier.name))
        reachable == {id \in Stored : kind = "redis" => Fits(vectors[id])}
    IN  complete /\ (\A c \in Caller : turn[c].at # "meta") =>
          \/ Cardinality(Finds(q)) >= Limit(q)
          \/ {id \in reachable : Qualifies(id, q)} \subseteq Finds(q)
=============================================================================
