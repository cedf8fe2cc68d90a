---------------------------- MODULE VectorStores ----------------------------
(***************************************************************************)
(* The vector stores (vector/adapters), as the engine uses them.           *)
(*                                                                         *)
(* A store is a function from keys to entries.  A key is [of, kind]: the   *)
(* vector of a whole row (its id), of the text of a row (<id>-chunk-0) or  *)
(* of a graph node (entity-<id>).  An entry has the names its text         *)
(* mentions, in place of the embedding, and the metadata the engine reads: *)
(* source_id, memory_tier, session_id.  Which of the entries that share a  *)
(* name with the query are the nearest is left open.                       *)
(***************************************************************************)
EXTENDS Naturals, FiniteSets, FiniteSetsExt, Functions

CONSTANT NoSource   \* no source_id; and the UUID Qdrant makes of a key

Put(f, k, v) == [x \in DOMAIN f \cup {k} |-> IF x = k THEN v ELSE f[x]]
StoreEmbedding(vec, key, entry) == Put(vec, key, entry)

\* No store takes an absent key for an error.
DeleteEmbedding(vec, key) == Restrict(vec, DOMAIN vec \ {key})

\* Every set of limit elements may be the nearest ones.
Nearest(S, limit) == kSubset(IF Cardinality(S) < limit THEN Cardinality(S) ELSE limit, S)

Close(vec, names) == {k \in DOMAIN vec : vec[k].names \cap names # {}}

\* wanted: the keys that pass the filter.  The in-memory store takes any limit
\* below 1 for no limit; PostgreSQL does the filter in the WHERE clause.
InMemoryHits(vec, names, wanted, limit) ==
  LET found == Close(vec, names) \cap wanted
  IN  IF limit < 1 THEN {found} ELSE Nearest(found, limit)

\* The window of the search is widened until enough of it passes the filter.
SQLiteHits(vec, names, wanted, limit) ==
  Nearest(Close(vec, names) \cap wanted, IF limit < 1 THEN 10 ELSE limit)

\* FT.SEARCH has no LIMIT and returns ten; the filter comes after it.
RedisHits(vec, names, wanted, limit) ==
  {S \cap wanted :
     S \in Nearest(Close(vec, names), IF limit < 1 \/ limit > 10 THEN 10 ELSE limit)}

\* The filter is part of the query, as a keyword: one on a Boolean is empty.
QdrantHits(vec, names, wanted, limit, boolean) ==
  IF boolean THEN {{}} ELSE SQLiteHits(vec, names, wanted, limit)

\* boolean: the filter is on a Boolean field.
Hits(store, vec, names, wanted, limit, boolean) ==
  CASE store = "inmemory" -> InMemoryHits(vec, names, wanted, limit)
    [] store = "sqlite" -> SQLiteHits(vec, names, wanted, limit)
    [] store = "redis" -> RedisHits(vec, names, wanted, limit)
    [] store = "qdrant" -> QdrantHits(vec, names, wanted, limit, boolean)

\* What a hit leads to: its source_id, or its own id, which Qdrant has only as
\* a hash (no _original_id is stored with a single embedding).
ResultSource(store, key, entry) ==
  IF entry.source # NoSource THEN entry.source
  ELSE IF store = "qdrant" THEN NoSource ELSE key.of
=============================================================================
