---------------------------- MODULE GraphStores ----------------------------
(***************************************************************************)
(* The four graph stores a configuration may name, given the same calls    *)
(* one after the other: what the engine relies on of the GraphStore        *)
(* interface, and where the stores part.                                   *)
(*                                                                         *)
(* The calls are those the engine makes: StoreNode, UpdateNode, DeleteNode,*)
(* CreateRelationship and DeleteGraphBySessionID.  The id of an edge is    *)
(* drawn once (NewEdge) and never used for other ends: it is the pair of   *)
(* its ends here.                                                          *)
(***************************************************************************)
EXTENDS Naturals, Sequences, FiniteSets, TLC
LOCAL INSTANCE SequencesExt

CONSTANTS
  NodeId,
  NodeValue,   \* what a node may be stored with: [type, name, session, source]
  Session,     \* the sessions whose graph may be deleted
  EdgeSession, \* the sessions edges are created in
  NoSource,
  MaxEdges,    \* bound: calls of CreateRelationship
  MaxDepth     \* the largest depth a traversal is checked for

ASSUME GraphAssumption == MaxEdges \in Nat

IM == INSTANCE GraphInMemory
SQ == INSTANCE GraphSQLite
RD == INSTANCE GraphRedis
NJ == INSTANCE GraphNeo4j

VARIABLES
  inmemory, sqlite, redis, neo4j,
  created      \* number of CreateRelationship calls
vars == <<inmemory, sqlite, redis, neo4j, created>>

Edge == [from : NodeId, to : NodeId, session : EdgeSession]

GraphTypeOK ==
  /\ \A node \in {inmemory.node, sqlite.node, redis.node} :
       DOMAIN node \subseteq NodeId /\ \A n \in DOMAIN node : node[n] \in NodeValue
  /\ \A edge \in {inmemory.edge, sqlite.edge, redis.edge} :
       \A e \in DOMAIN edge : edge[e] \in Edge /\ e = <<edge[e].from, edge[e].to>>
  /\ DOMAIN inmemory.out = DOMAIN inmemory.node
  /\ DOMAIN inmemory.in = DOMAIN inmemory.node
  /\ \A n \in DOMAIN neo4j.node : neo4j.node[n].type \in neo4j.node[n].labels
  /\ created \in 0..MaxEdges

Init ==
  /\ inmemory = IM!Empty /\ sqlite = SQ!Empty
  /\ redis = RD!Empty /\ neo4j = NJ!Empty
  /\ created = 0

StoreNode(n, v) ==
  /\ inmemory' = IM!StoreNode(inmemory, n, v)
  /\ sqlite' = SQ!StoreNode(sqlite, n, v)
  /\ redis' = RD!StoreNode(redis, n, v)
  /\ neo4j' = NJ!StoreNode(neo4j, n, v)
  /\ UNCHANGED created

UpdateNode(n, v) ==
  /\ inmemory' = IM!UpdateNode(inmemory, n, v)
  /\ sqlite' = SQ!UpdateNode(sqlite, n, v)
  /\ redis' = RD!UpdateNode(redis, n, v)
  /\ neo4j' = NJ!UpdateNode(neo4j, n, v)
  /\ UNCHANGED created

DeleteNode(n) ==
  /\ inmemory' = IM!DeleteNode(inmemory, n)
  /\ sqlite' = SQ!DeleteNode(sqlite, n)
  /\ redis' = RD!DeleteNode(redis, n)
  /\ neo4j' = NJ!DeleteNode(neo4j, n)
  /\ UNCHANGED created

CreateRelationship(edge) ==
  LET id == <<edge.from, edge.to>>
  IN  /\ created < MaxEdges /\ created' = created + 1
      /\ inmemory' = IM!CreateRelationship(inmemory, id, edge)
      /\ sqlite' = SQ!CreateRelationship(sqlite, id, edge)
      /\ redis' = RD!CreateRelationship(redis, id, edge)
      /\ neo4j' = NJ!CreateRelationship(neo4j, id, edge)

DeleteGraphBySessionID(s) ==
  /\ inmemory' = IM!DeleteGraphBySessionID(inmemory, s)
  /\ sqlite' = SQ!DeleteGraphBySessionID(sqlite, s)
  /\ redis' = RD!DeleteGraphBySessionID(redis, s)
  /\ neo4j' = NJ!DeleteGraphBySessionID(neo4j, s)
  /\ UNCHANGED created

Next ==
  \/ \E n \in NodeId, v \in NodeValue : StoreNode(n, v) \/ UpdateNode(n, v)
  \/ \E n \in NodeId : DeleteNode(n)
  \/ \E edge \in Edge : CreateRelationship(edge)
  \/ \E s \in Session : DeleteGraphBySessionID(s)

Spec == Init /\ [][Next]_vars

-----------------------------------------------------------------------------
\* Reference definitions: chains of steps, written with no regard to how the
\* stores search.
Arrows(edges) == {<<e.from, e.to>> : e \in edges}
BothWays(arrows) == arrows \cup {<<a[2], a[1]>> : a \in arrows}

\* <<x, y, k>> when k steps lead from x to y.
Hops(arrows) ==
  UNION {{<<p[0], p[k], k>> :
            p \in {p \in [0..k -> NodeId] : \A i \in 1..k : <<p[i - 1], p[i]>> \in arrows}} :
         k \in 0..MaxDepth}

Within(hops, x, k) == {y \in NodeId : \E j \in 0..k : <<x, y, j>> \in hops}

EdgesOf(g) == {g.edge[e] : e \in DOMAIN g.edge}

\* The edges of the in-memory store that a reader can come across.  One is
\* missed when its source was deleted with its session and stored again.
Listed(g) ==
  UNION {{g.edge[e] : e \in ToSet(g.out[n]) \cap DOMAIN g.edge} : n \in DOMAIN g.out}

\* In SQLite and in Neo4j no edge lacks an end, whatever was deleted.
EdgesAnchored ==
  /\ \A e \in EdgesOf(sqlite) : {e.from, e.to} \subseteq DOMAIN sqlite.node
  /\ \A r \in DOMAIN neo4j.rel : {r.from, r.to} \subseteq DOMAIN neo4j.node

\* What a search is given as the neighbourhood of an anchor is the set of the
\* nodes at most depth edges away: along the edges in SQLite, in both
\* directions in Redis (through deleted nodes) and in Neo4j, which returns the
\* start itself only if a cycle leads back to it.
TraversalExact ==
  LET rows == Hops(Arrows(EdgesOf(sqlite)))
      links == Hops(BothWays(Arrows(EdgesOf(redis))))
      rels == Hops(BothWays(Arrows(DOMAIN neo4j.rel)))
  IN  \A x \in NodeId, d \in 1..MaxDepth :
        /\ SQ!TraverseGraph(sqlite, x, d) = Within(rows, x, d) \ {x}
        /\ RD!TraverseGraph(redis, x, d) = Within(links, x, d) \cap DOMAIN redis.node
        /\ NJ!TraverseGraph(neo4j, x, d) \ {x} = Within(rels, x, d) \ {x}

\* The lists of the in-memory store survive deletions in the wrong state (ids
\* of edges that are gone, ids twice), but an edge that exists is never in the
\* list of another node.  So a traversal that comes to its end has been at nothing
\* but nodes within its depth: at every neighbour of the start and, as a node is
\* entered once, perhaps by a way too long to go on from, at all of them only where
\* no way through the nodes is longer than the depth.
InMemoryReadsOwnEdges ==
  LET live == DOMAIN inmemory.edge
      hops == Hops(Arrows(Listed(inmemory)))
  IN  /\ \A n \in DOMAIN inmemory.node :
           /\ \A k \in DOMAIN inmemory.out[n] :
                inmemory.out[n][k] \in live => inmemory.edge[inmemory.out[n][k]].from = n
           /\ \A k \in DOMAIN inmemory.in[n] :
                inmemory.in[n][k] \in live => inmemory.edge[inmemory.in[n][k]].to = n
      /\ \A x \in DOMAIN inmemory.node, d \in 1..MaxDepth :
           LET t == IM!TraverseGraph(inmemory, x, d)
               sure == IF d + 1 >= Cardinality(NodeId) THEN d ELSE 1
           IN  /\ t.ids \subseteq Within(hops, x, d)
               /\ t.panic \/ Within(hops, x, sure) \subseteq t.ids

\* A path that is shown is a chain of edges, no chain is shorter, and where
\* there is a chain within the bound a path is shown: maxDepth edges in SQLite
\* (any simple path) and Redis, maxDepth nodes in memory.
PathsAreShortest ==
  LET rows == Hops(Arrows(EdgesOf(sqlite)))
      links == Hops(BothWays(Arrows(EdgesOf(redis))))
      hops == Hops(Arrows(Listed(inmemory)))
      Shortest(steps, path, x, y) ==
        LET k == Len(path) - 1
        IN  <<x, y, k>> \in steps /\ \A j \in 0..k - 1 : <<x, y, j>> \notin steps
  IN  \A x, y \in NodeId, d \in 1..MaxDepth :
        /\ (SQ!FindPath(sqlite, x, y, d) # {}) <=> y \in Within(rows, x, d)
        /\ (RD!FindPath(redis, x, y, d) # {}) <=> y \in Within(links, x, d)
        /\ NodeId = DOMAIN redis.node =>
             \A path \in RD!FindPath(redis, x, y, d) : Shortest(links, path, x, y)
        /\ LET found == IM!FindPath(inmemory, x, y, d)
           IN  IF found.path # <<>>
               THEN Len(found.path) <= d /\ Shortest(hops, found.path, x, y)
               ELSE \/ found.panic \/ {x, y} \ DOMAIN inmemory.node # {}
                    \/ y \notin Within(hops, x, d - 1)

\* The same calls leave the same nodes in SQLite, Neo4j and, but for deleted
\* ones, Redis; the in-memory store lacks those an UpdateNode brought back, and
\* Neo4j has the edges of SQLite, but for the loops it refuses.
StoresAgree ==
  /\ DOMAIN sqlite.node = DOMAIN neo4j.node
  /\ DOMAIN inmemory.node \subseteq DOMAIN sqlite.node
  /\ DOMAIN sqlite.node \subseteq DOMAIN redis.node
  /\ \A n \in DOMAIN inmemory.node : inmemory.node[n] = sqlite.node[n]
  /\ {e \in DOMAIN sqlite.edge : e[1] # e[2]} \subseteq {r.id : r \in DOMAIN neo4j.rel}

\* After DeleteGraphBySessionID the session has no node and no edge, except in
\* Redis (all of it) and for the edges Neo4j keeps between other sessions'
\* nodes; what others have stays, edges that touch its nodes aside.
WipeClears ==
  [][\A s \in Session : DeleteGraphBySessionID(s) =>
       /\ \A node \in {inmemory'.node, sqlite'.node, neo4j'.node} :
            \A n \in DOMAIN node : node[n].session # s
       /\ \A e \in EdgesOf(inmemory') \cup EdgesOf(sqlite') : e.session # s
       /\ \A n \in DOMAIN sqlite.node :
            sqlite.node[n].session # s => n \in DOMAIN sqlite'.node]_vars
=============================================================================
