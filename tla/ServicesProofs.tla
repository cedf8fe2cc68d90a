--------------------------- MODULE ServicesProofs ---------------------------
(***************************************************************************)
(* Proofs about what the engine stands on: the four graph stores keep the  *)
(* same graph, whatever the calls; the clients of one relational store, of *)
(* one language model and of one object that embeds keep what they promise *)
(* their callers.  The other parts are only model-checked.                 *)
(***************************************************************************)
EXTENDS Services, ClientsProofs

-----------------------------------------------------------------------------
(* What each graph store keeps, and what they keep together.               *)

NodesOK(node) == node \in [DOMAIN node -> NodeValue] /\ DOMAIN node \subseteq NodeId

\* The id of an edge is the pair of its ends.
EdgesOK(edge) ==
  /\ edge = [e \in DOMAIN edge |-> edge[e]]
  /\ \A e \in DOMAIN edge : edge[e] \in Edge /\ e = <<edge[e].from, edge[e].to>>

InMemoryOK(g) ==
  /\ g = [node |-> g.node, edge |-> g.edge, out |-> g.out, in |-> g.in]
  /\ NodesOK(g.node) /\ EdgesOK(g.edge)
  /\ g.out = [n \in DOMAIN g.node |-> g.out[n]]
  /\ g.in = [n \in DOMAIN g.node |-> g.in[n]]

SQLiteOK(g) ==
  /\ g = [node |-> g.node, edge |-> g.edge]
  /\ NodesOK(g.node) /\ EdgesOK(g.edge)
  /\ \A e \in DOMAIN g.edge : g.edge[e].from \in DOMAIN g.node /\ g.edge[e].to \in DOMAIN g.node

RedisOK(g) ==
  /\ g = [node |-> g.node, edge |-> g.edge, out |-> g.out, in |-> g.in]
  /\ NodesOK(g.node) /\ EdgesOK(g.edge)

\* A relationship is [id, from, to].
Rel(a, b) == [id |-> <<a, b>>, from |-> a, to |-> b]

Neo4jOK(g) ==
  /\ g = [node |-> g.node, rel |-> g.rel]
  /\ g.node = [n \in DOMAIN g.node |-> g.node[n]]
  /\ \A n \in DOMAIN g.node : g.node[n].type \in g.node[n].labels
  /\ g.rel = [r \in DOMAIN g.rel |-> g.rel[r]]
  /\ \A r \in DOMAIN g.rel : r.from \in DOMAIN g.node /\ r.to \in DOMAIN g.node

\* The same nodes but for those that only some of the stores delete or bring
\* back, in the same sessions; and in Neo4j the edges of SQLite but for loops.
SameNodes(i, s, r, j) ==
  /\ DOMAIN s.node = DOMAIN j.node
  /\ DOMAIN i.node \subseteq DOMAIN s.node
  /\ DOMAIN s.node \subseteq DOMAIN r.node
  /\ \A n \in DOMAIN i.node : i.node[n] = s.node[n]
  /\ \A n \in DOMAIN s.node : s.node[n].session = j.node[n].session

SameEdges(s, j) ==
  \A e \in DOMAIN s.edge : s.edge[e].from # s.edge[e].to => Rel(s.edge[e].from, s.edge[e].to) \in DOMAIN j.rel

GraphInv ==
  /\ InMemoryOK(inmemory) /\ SQLiteOK(sqlite) /\ RedisOK(redis) /\ Neo4jOK(neo4j)
  /\ SameNodes(inmemory, sqlite, redis, neo4j)
  /\ SameEdges(sqlite, neo4j)
  /\ created \in 0..MaxEdges

-----------------------------------------------------------------------------
(* What a call makes of the nodes of a store.                              *)

\* A node is there as given, the others are as they were.
Sets(new, old, n, v) ==
  /\ DOMAIN new = DOMAIN old \cup {n}
  /\ new[n] = v
  /\ \A m \in DOMAIN old : m # n => new[m] = old[m]

\* In Neo4j of the value given the session is what matters.
SetsIn(new, old, n, session) ==
  /\ DOMAIN new = DOMAIN old \cup {n}
  /\ new[n].session = session
  /\ \A m \in DOMAIN old : m # n => new[m] = old[m]

Loses(new, old, dead) ==
  /\ DOMAIN new = DOMAIN old \ dead
  /\ \A m \in DOMAIN new : new[m] = old[m]

InMemorySets(h, g, n, v) == InMemoryOK(h) /\ Sets(h.node, g.node, n, v)
InMemoryUpdates(h, g, n, v) ==
  /\ InMemoryOK(h)
  /\ n \in DOMAIN g.node => Sets(h.node, g.node, n, v)
  /\ n \notin DOMAIN g.node => h = g
InMemoryDrops(h, g, dead) == InMemoryOK(h) /\ Loses(h.node, g.node, dead)
InMemoryLinks(h, g) == InMemoryOK(h) /\ h.node = g.node

SQLiteSets(h, g, n, v) == SQLiteOK(h) /\ Sets(h.node, g.node, n, v) /\ h.edge = g.edge
SQLiteDrops(h, g, dead) ==
  /\ SQLiteOK(h) /\ Loses(h.node, g.node, dead)
  /\ \A e \in DOMAIN h.edge : e \in DOMAIN g.edge /\ h.edge[e] = g.edge[e]
SQLiteLinks(h, g, edge) ==
  /\ SQLiteOK(h) /\ h.node = g.node
  /\ \A e \in DOMAIN h.edge :
       \/ e \in DOMAIN g.edge /\ h.edge[e].from = g.edge[e].from /\ h.edge[e].to = g.edge[e].to
       \/ /\ h.edge[e].from = edge.from /\ h.edge[e].to = edge.to
          /\ edge.from \in DOMAIN g.node /\ edge.to \in DOMAIN g.node

RedisSets(h, g, n, v) == RedisOK(h) /\ Sets(h.node, g.node, n, v)
RedisKeeps(h, g, dead) == RedisOK(h) /\ Loses(h.node, g.node, dead)

Neo4jSets(h, g, n, v) == Neo4jOK(h) /\ SetsIn(h.node, g.node, n, v.session) /\ h.rel = g.rel
Neo4jDrops(h, g, dead) ==
  /\ Neo4jOK(h) /\ Loses(h.node, g.node, dead)
  /\ \A r \in DOMAIN g.rel : r.from \notin dead /\ r.to \notin dead => r \in DOMAIN h.rel
Neo4jLinks(h, g, edge) ==
  /\ Neo4jOK(h) /\ h.node = g.node /\ DOMAIN g.rel \subseteq DOMAIN h.rel
  /\ edge.from # edge.to /\ edge.from \in DOMAIN g.node /\ edge.to \in DOMAIN g.node =>
       Rel(edge.from, edge.to) \in DOMAIN h.rel

-----------------------------------------------------------------------------
(* The in-memory store.                                                    *)

LEMMA InMemoryStores ==
  ASSUME NEW g, InMemoryOK(g), NEW n \in NodeId, NEW v \in NodeValue
  PROVE  InMemorySets(IM!StoreNode(g, n, v), g, n, v)
<1> DEFINE h == IM!StoreNode(g, n, v)
           value == IM!Put(g.node, n, v)
           outs == IF n \in DOMAIN g.node THEN g.out ELSE IM!Put(g.out, n, <<>>)
           ins == IF n \in DOMAIN g.node THEN g.in ELSE IM!Put(g.in, n, <<>>)
<1>1. /\ g = [node |-> g.node, edge |-> g.edge, out |-> g.out, in |-> g.in]
      /\ DOMAIN g.out = DOMAIN g.node /\ DOMAIN g.in = DOMAIN g.node
      /\ g.out = [m \in DOMAIN g.node |-> g.out[m]] /\ g.in = [m \in DOMAIN g.node |-> g.in[m]]
  BY DEF InMemoryOK
<1>2. h = [node |-> value, edge |-> g.edge, out |-> outs, in |-> ins]
  <2>1. h = [g EXCEPT !.node = value, !.out = outs, !.in = ins]
    BY <1>1 DEF IM!StoreNode
  <2> HIDE DEF h, value, outs, ins
  <2> QED
    BY <1>1, <2>1
<1>3. Sets(value, g.node, n, v) /\ NodesOK(value)
  BY DEF InMemoryOK, NodesOK, Sets, IM!Put
<1>4. DOMAIN value = DOMAIN g.node \cup {n}
  BY <1>3 DEF Sets
<1>5. outs = [m \in DOMAIN value |-> outs[m]] /\ ins = [m \in DOMAIN value |-> ins[m]]
  <2> HIDE DEF value
  <2>1. CASE n \in DOMAIN g.node
    <3>1. DOMAIN value = DOMAIN g.node
      BY <1>4, <2>1
    <3> QED
      BY <1>1, <2>1, <3>1
  <2>2. CASE n \notin DOMAIN g.node
    BY <1>1, <1>4, <2>2 DEF IM!Put
  <2> QED
    BY <2>1, <2>2
<1> HIDE DEF h, value, outs, ins
<1>6. InMemorySets(h, g, n, v)
  BY <1>2, <1>3, <1>5 DEF InMemorySets, InMemoryOK
<1> QED
  BY <1>6 DEF h

LEMMA InMemoryUpdate ==
  ASSUME NEW g, InMemoryOK(g), NEW n \in NodeId, NEW v \in NodeValue
  PROVE  InMemoryUpdates(IM!UpdateNode(g, n, v), g, n, v)
<1> DEFINE h == IM!UpdateNode(g, n, v)
<1>1. CASE n \notin DOMAIN g.node
  BY <1>1 DEF IM!UpdateNode, InMemoryUpdates
<1>2. CASE n \in DOMAIN g.node
  <2>1. h = [node |-> [g.node EXCEPT ![n] = v], edge |-> g.edge, out |-> g.out, in |-> g.in]
    BY <1>2 DEF InMemoryOK, IM!UpdateNode
  <2>2. Sets(h.node, g.node, n, v) /\ NodesOK(h.node) /\ DOMAIN h.node = DOMAIN g.node
    BY <1>2, <2>1 DEF InMemoryOK, NodesOK, Sets
  <2> QED
    BY <1>2, <2>1, <2>2 DEF InMemoryUpdates, InMemoryOK
<1> QED
  BY <1>1, <1>2

LEMMA InMemoryDelete ==
  ASSUME NEW g, InMemoryOK(g), NEW n \in NodeId
  PROVE  InMemoryDrops(IM!DeleteNode(g, n), g, {n})
<1> DEFINE h == IM!DeleteNode(g, n)
           own == IM!ToSet(g.out[n]) \cup IM!ToSet(g.in[n])
<1>1. CASE n \notin DOMAIN g.node
  BY <1>1 DEF IM!DeleteNode, InMemoryDrops, Loses
<1>2. CASE n \in DOMAIN g.node
  <2>1. /\ h.node = [m \in DOMAIN g.node \ {n} |-> g.node[m]]
        /\ h.edge = [e \in DOMAIN g.edge \ own |-> g.edge[e]]
        /\ h.out = [m \in DOMAIN g.node \ {n} |-> g.out[m]]
        /\ h.in = [m \in DOMAIN g.node \ {n} |-> g.in[m]]
        /\ h = [node |-> h.node, edge |-> h.edge, out |-> h.out, in |-> h.in]
    BY <1>2 DEF InMemoryOK, IM!DeleteNode, IM!Without, IM!Restrict
  <2> HIDE DEF h, own
  <2>2. Loses(h.node, g.node, {n}) /\ NodesOK(h.node) /\ EdgesOK(h.edge)
    BY <2>1 DEF InMemoryOK, NodesOK, EdgesOK, Loses
  <2>3. InMemoryOK(h)
    BY <2>1, <2>2 DEF InMemoryOK
  <2>4. InMemoryDrops(h, g, {n})
    BY <2>2, <2>3 DEF InMemoryDrops
  <2> QED
    BY <2>4 DEF h
<1> QED
  BY <1>1, <1>2

LEMMA InMemoryWipe ==
  ASSUME NEW g, InMemoryOK(g), NEW s
  PROVE  InMemoryDrops(IM!DeleteGraphBySessionID(g, s), g,
                       {n \in DOMAIN g.node : g.node[n].session = s})
<1> DEFINE h == IM!DeleteGraphBySessionID(g, s)
           gone == {e \in DOMAIN g.edge : g.edge[e].session = s}
           dead == {n \in DOMAIN g.node : g.node[n].session = s}
<1>1. /\ h.node = [m \in DOMAIN g.node \ dead |-> g.node[m]]
      /\ h.edge = [e \in DOMAIN g.edge \ gone |-> g.edge[e]]
      /\ h.out = [m \in DOMAIN g.node \ dead |-> h.out[m]]
      /\ h.in = [m \in DOMAIN g.node \ dead |-> h.in[m]]
      /\ h = [node |-> h.node, edge |-> h.edge, out |-> h.out, in |-> h.in]
  BY DEF InMemoryOK, IM!DeleteGraphBySessionID, IM!Without, IM!Restrict
<1> HIDE DEF h, gone, dead
<1>2. Loses(h.node, g.node, dead) /\ NodesOK(h.node) /\ EdgesOK(h.edge)
  BY <1>1 DEF InMemoryOK, NodesOK, EdgesOK, Loses
<1>3. InMemoryOK(h)
  BY <1>1, <1>2 DEF InMemoryOK
<1>4. InMemoryDrops(h, g, dead)
  BY <1>2, <1>3 DEF InMemoryDrops
<1> QED
  BY <1>4 DEF h, dead

LEMMA InMemoryLink ==
  ASSUME NEW g, InMemoryOK(g), NEW edge \in Edge
  PROVE  InMemoryLinks(IM!CreateRelationship(g, <<edge.from, edge.to>>, edge), g)
<1> DEFINE id == <<edge.from, edge.to>>
           h == IM!CreateRelationship(g, id, edge)
<1>1. CASE edge.from = edge.to \/ {edge.from, edge.to} \ DOMAIN g.node # {}
  BY <1>1 DEF IM!CreateRelationship, InMemoryLinks
<1>2. CASE ~(edge.from = edge.to \/ {edge.from, edge.to} \ DOMAIN g.node # {})
  <2>1. h = [node |-> g.node, edge |-> IM!Put(g.edge, id, edge),
             out |-> [g.out EXCEPT ![edge.from] = Append(@, id)],
             in |-> [g.in EXCEPT ![edge.to] = Append(@, id)]]
    BY <1>2 DEF InMemoryOK, IM!CreateRelationship
  <2>2. EdgesOK(h.edge)
    BY <2>1 DEF InMemoryOK, EdgesOK, IM!Put
  <2>3. h.out = [n \in DOMAIN h.node |-> h.out[n]] /\ h.in = [n \in DOMAIN h.node |-> h.in[n]]
    BY <2>1 DEF InMemoryOK
  <2> QED
    BY <2>1, <2>2, <2>3 DEF InMemoryLinks, InMemoryOK
<1> QED
  BY <1>1, <1>2

-----------------------------------------------------------------------------
(* The SQLite store.                                                       *)

LEMMA SQLiteStore ==
  ASSUME NEW g, SQLiteOK(g), NEW n \in NodeId, NEW v \in NodeValue
  PROVE  SQLiteSets(SQ!StoreNode(g, n, v), g, n, v)
<1> DEFINE h == SQ!StoreNode(g, n, v)
<1>1. h = [node |-> SQ!Put(g.node, n, v), edge |-> g.edge]
  BY DEF SQLiteOK, SQ!StoreNode
<1>2. Sets(h.node, g.node, n, v) /\ NodesOK(h.node)
  BY <1>1 DEF SQLiteOK, NodesOK, Sets, SQ!Put
<1>3. SQLiteOK(h)
  BY <1>1, <1>2 DEF SQLiteOK, Sets
<1> QED
  BY <1>1, <1>2, <1>3 DEF SQLiteSets

LEMMA SQLiteDelete ==
  ASSUME NEW g, SQLiteOK(g), NEW n \in NodeId
  PROVE  SQLiteDrops(SQ!DeleteNode(g, n), g, {n})
<1> DEFINE h == SQ!DeleteNode(g, n)
           left == {e \in DOMAIN g.edge : n \notin {g.edge[e].from, g.edge[e].to}}
<1>1. /\ h.node = [m \in DOMAIN g.node \ {n} |-> g.node[m]]
      /\ h.edge = [e \in left |-> g.edge[e]]
      /\ h = [node |-> h.node, edge |-> h.edge]
  BY DEF SQ!DeleteNode, SQ!Keep, SQ!Restrict
<1>2. \A e \in left : e \in DOMAIN g.edge /\ g.edge[e].from # n /\ g.edge[e].to # n
  OBVIOUS
<1> HIDE DEF h, left
<1>3. Loses(h.node, g.node, {n}) /\ NodesOK(h.node) /\ EdgesOK(h.edge)
  BY <1>1, <1>2 DEF SQLiteOK, NodesOK, EdgesOK, Loses
<1>4. SQLiteOK(h)
  BY <1>1, <1>2, <1>3 DEF SQLiteOK
<1>5. SQLiteDrops(h, g, {n})
  BY <1>1, <1>2, <1>3, <1>4 DEF SQLiteDrops
<1> QED
  BY <1>5 DEF h

LEMMA SQLiteWipe ==
  ASSUME NEW g, SQLiteOK(g), NEW s
  PROVE  SQLiteDrops(SQ!DeleteGraphBySessionID(g, s), g,
                     {n \in DOMAIN g.node : g.node[n].session = s})
<1> DEFINE h == SQ!DeleteGraphBySessionID(g, s)
           dead == {n \in DOMAIN g.node : g.node[n].session = s}
           left == {n \in DOMAIN g.node : g.node[n].session # s}
           linked == {e \in DOMAIN g.edge : /\ g.edge[e].session # s
                                            /\ {g.edge[e].from, g.edge[e].to} \subseteq left}
<1>1. /\ h.node = [m \in left |-> g.node[m]]
      /\ h.edge = [e \in linked |-> g.edge[e]]
      /\ h = [node |-> h.node, edge |-> h.edge]
  BY DEF SQ!DeleteGraphBySessionID, SQ!Keep, SQ!Restrict
<1>2. left = DOMAIN g.node \ dead
  OBVIOUS
<1>3. \A e \in linked : e \in DOMAIN g.edge /\ g.edge[e].from \in left /\ g.edge[e].to \in left
  OBVIOUS
<1> HIDE DEF h, dead, left, linked
<1>4. Loses(h.node, g.node, dead) /\ NodesOK(h.node) /\ EdgesOK(h.edge)
  BY <1>1, <1>2, <1>3 DEF SQLiteOK, NodesOK, EdgesOK, Loses
<1>5. SQLiteOK(h)
  BY <1>1, <1>2, <1>3, <1>4 DEF SQLiteOK
<1>6. SQLiteDrops(h, g, dead)
  BY <1>1, <1>3, <1>4, <1>5 DEF SQLiteDrops
<1> QED
  BY <1>6 DEF h, dead

LEMMA SQLiteLink ==
  ASSUME NEW g, SQLiteOK(g), NEW edge \in Edge
  PROVE  SQLiteLinks(SQ!CreateRelationship(g, <<edge.from, edge.to>>, edge), g, edge)
<1> DEFINE id == <<edge.from, edge.to>>
           h == SQ!CreateRelationship(g, id, edge)
<1>1. CASE id \in DOMAIN g.edge
  <2>1. h = [node |-> g.node, edge |-> [g.edge EXCEPT ![id].session = edge.session]]
    BY <1>1 DEF SQLiteOK, SQ!CreateRelationship
  <2>2. /\ DOMAIN h.edge = DOMAIN g.edge /\ h.edge = [e \in DOMAIN h.edge |-> h.edge[e]]
        /\ h.edge[id] = [g.edge[id] EXCEPT !.session = edge.session]
        /\ \A e \in DOMAIN g.edge : e # id => h.edge[e] = g.edge[e]
    BY <1>1, <2>1 DEF SQLiteOK, EdgesOK
  <2>3. g.edge[id] \in Edge
    BY <1>1 DEF SQLiteOK, EdgesOK
  <2>4. /\ h.edge[id] \in Edge
        /\ h.edge[id].from = g.edge[id].from /\ h.edge[id].to = g.edge[id].to
    BY <2>2, <2>3 DEF Edge
  <2> HIDE DEF h, id
  <2>5. \A e \in DOMAIN h.edge : /\ h.edge[e] \in Edge /\ e \in DOMAIN g.edge
                                 /\ h.edge[e].from = g.edge[e].from /\ h.edge[e].to = g.edge[e].to
    BY <2>2, <2>4 DEF SQLiteOK, EdgesOK
  <2>6. EdgesOK(h.edge)
    BY <2>2, <2>5 DEF SQLiteOK, EdgesOK
  <2>7. h.node = g.node /\ h = [node |-> h.node, edge |-> h.edge]
    BY <2>1
  <2>8. SQLiteLinks(h, g, edge)
    BY <2>5, <2>6, <2>7 DEF SQLiteOK, SQLiteLinks
  <2> QED
    BY <2>8 DEF h, id
<1>2. CASE id \notin DOMAIN g.edge /\ edge.from \in DOMAIN g.node /\ edge.to \in DOMAIN g.node
  <2>1. h = [node |-> g.node, edge |-> SQ!Put(g.edge, id, edge)]
    BY <1>2 DEF SQLiteOK, SQ!CreateRelationship
  <2>2. EdgesOK(SQ!Put(g.edge, id, edge))
    BY <1>2 DEF SQLiteOK, EdgesOK, SQ!Put
  <2>3. \A e \in DOMAIN h.edge : \/ e \in DOMAIN g.edge /\ h.edge[e] = g.edge[e]
                                 \/ h.edge[e] = edge
    BY <2>1 DEF SQ!Put
  <2> HIDE DEF h, id
  <2>4. h.node = g.node /\ h = [node |-> h.node, edge |-> h.edge] /\ EdgesOK(h.edge)
    BY <2>1, <2>2
  <2>5. SQLiteLinks(h, g, edge)
    BY <1>2, <2>3, <2>4 DEF SQLiteOK, SQLiteLinks
  <2> QED
    BY <2>5 DEF h, id
<1>3. CASE id \notin DOMAIN g.edge /\ ~(edge.from \in DOMAIN g.node /\ edge.to \in DOMAIN g.node)
  <2>1. h = g
    BY <1>3 DEF SQ!CreateRelationship
  <2> QED
    BY <2>1 DEF SQLiteLinks
<1> QED
  BY <1>1, <1>2, <1>3

-----------------------------------------------------------------------------
(* The Redis store.                                                        *)

LEMMA RedisStore ==
  ASSUME NEW g, RedisOK(g), NEW n \in NodeId, NEW v \in NodeValue
  PROVE  RedisSets(RD!StoreNode(g, n, v), g, n, v)
<1> DEFINE h == RD!StoreNode(g, n, v)
<1>1. h = [node |-> RD!Put(g.node, n, v), edge |-> g.edge, out |-> g.out, in |-> g.in]
  BY DEF RedisOK, RD!StoreNode
<1>2. Sets(h.node, g.node, n, v) /\ NodesOK(h.node)
  BY <1>1 DEF RedisOK, NodesOK, Sets, RD!Put
<1> QED
  BY <1>1, <1>2 DEF RedisSets, RedisOK

LEMMA RedisDelete ==
  ASSUME NEW g, RedisOK(g), NEW n \in NodeId
  PROVE  RedisKeeps(RD!DeleteNode(g, n), g, {n})
<1> DEFINE h == RD!DeleteNode(g, n)
<1>1. h = [node |-> [m \in DOMAIN g.node \ {n} |-> g.node[m]], edge |-> g.edge,
           out |-> g.out, in |-> g.in]
  BY DEF RedisOK, RD!DeleteNode, RD!Restrict
<1>2. Loses(h.node, g.node, {n}) /\ NodesOK(h.node)
  BY <1>1 DEF RedisOK, NodesOK, Loses
<1> QED
  BY <1>1, <1>2 DEF RedisKeeps, RedisOK

LEMMA RedisLink ==
  ASSUME NEW g, RedisOK(g), NEW edge \in Edge
  PROVE  RedisKeeps(RD!CreateRelationship(g, <<edge.from, edge.to>>, edge), g, {})
<1> DEFINE id == <<edge.from, edge.to>>
           h == RD!CreateRelationship(g, id, edge)
           edges == RD!Put(g.edge, id, edge)
           outs == RD!SAdd(g.out, edge.from, id)
           ins == RD!SAdd(g.in, edge.to, id)
<1>1. g = [node |-> g.node, edge |-> g.edge, out |-> g.out, in |-> g.in]
  BY DEF RedisOK
<1>2. h = [node |-> g.node, edge |-> edges, out |-> outs, in |-> ins]
  <2>1. h = [g EXCEPT !.edge = edges, !.out = outs, !.in = ins]
    BY <1>1 DEF RD!CreateRelationship
  <2> HIDE DEF h, edges, outs, ins
  <2> QED
    BY <1>1, <2>1
<1>3. EdgesOK(edges)
  BY DEF RedisOK, EdgesOK, RD!Put
<1> HIDE DEF h, edges, outs, ins
<1>4. RedisKeeps(h, g, {})
  BY <1>2, <1>3 DEF RedisKeeps, RedisOK, Loses
<1> QED
  BY <1>4 DEF h

-----------------------------------------------------------------------------
(* The Neo4j store.                                                        *)

LEMMA Neo4jStore ==
  ASSUME NEW g, Neo4jOK(g), NEW n \in NodeId, NEW v \in NodeValue
  PROVE  Neo4jSets(NJ!StoreNode(g, n, v), g, n, v)
<1> DEFINE h == NJ!StoreNode(g, n, v)
           old == g.node[n]
           new == [type |-> v.type, name |-> v.name, session |-> v.session,
                   source |-> v.source, labels |-> {v.type}]
           merged == [new EXCEPT !.labels = @ \cup old.labels,
                                 !.source = IF @ = NoSource THEN old.source ELSE @]
           value == IF n \in DOMAIN g.node THEN merged ELSE new
<1>1. h = [node |-> NJ!Put(g.node, n, value), rel |-> g.rel]
  BY DEF Neo4jOK, NJ!StoreNode
<1>2. /\ new.type = v.type /\ new.session = v.session /\ new.labels = {v.type}
      /\ merged.type = v.type /\ merged.session = v.session
      /\ merged.labels = {v.type} \cup old.labels
  OBVIOUS
<1>3. value.session = v.session /\ value.type \in value.labels
  BY <1>2
<1> HIDE DEF h, value
<1>4. SetsIn(h.node, g.node, n, v.session)
  BY <1>1, <1>3 DEF SetsIn, NJ!Put
<1>5. /\ h.node = [m \in DOMAIN h.node |-> h.node[m]]
      /\ \A m \in DOMAIN h.node : h.node[m].type \in h.node[m].labels
  BY <1>1, <1>3 DEF Neo4jOK, NJ!Put
<1>6. Neo4jOK(h)
  BY <1>1, <1>4, <1>5 DEF Neo4jOK, SetsIn
<1>7. Neo4jSets(h, g, n, v)
  BY <1>1, <1>4, <1>6 DEF Neo4jSets
<1> QED
  BY <1>7 DEF h

LEMMA Neo4jDetach ==
  ASSUME NEW g, Neo4jOK(g), NEW dead
  PROVE  Neo4jDrops(NJ!Detach(g, dead), g, dead)
<1> DEFINE h == NJ!Detach(g, dead)
           left == {r \in DOMAIN g.rel : {r.from, r.to} \cap dead = {}}
<1>1. /\ h.node = [m \in DOMAIN g.node \ dead |-> g.node[m]]
      /\ h.rel = [r \in left |-> g.rel[r]]
      /\ h = [node |-> h.node, rel |-> h.rel]
  BY DEF NJ!Detach, NJ!Restrict
<1>2. \A r \in DOMAIN g.rel : r \in left <=> r.from \notin dead /\ r.to \notin dead
  OBVIOUS
<1>3. left \subseteq DOMAIN g.rel
  OBVIOUS
<1> HIDE DEF h, left
<1>4. Loses(h.node, g.node, dead)
  BY <1>1 DEF Loses
<1>5. Neo4jOK(h)
  BY <1>1, <1>2, <1>3 DEF Neo4jOK
<1>6. Neo4jDrops(h, g, dead)
  BY <1>1, <1>2, <1>4, <1>5 DEF Neo4jDrops
<1> QED
  BY <1>6 DEF h

LEMMA Neo4jLink ==
  ASSUME NEW g, Neo4jOK(g), NEW edge \in Edge
  PROVE  Neo4jLinks(NJ!CreateRelationship(g, <<edge.from, edge.to>>, edge), g, edge)
<1> DEFINE id == <<edge.from, edge.to>>
           h == NJ!CreateRelationship(g, id, edge)
           rel == Rel(edge.from, edge.to)
<1>1. CASE edge.from = edge.to \/ {edge.from, edge.to} \ DOMAIN g.node # {}
  <2>1. h = g
    BY <1>1 DEF NJ!CreateRelationship
  <2> QED
    BY <1>1, <2>1 DEF Neo4jLinks
<1>2. CASE ~(edge.from = edge.to \/ {edge.from, edge.to} \ DOMAIN g.node # {})
  <2>1. h = [node |-> g.node, rel |-> NJ!Put(g.rel, rel, edge.session)]
    BY <1>2 DEF Neo4jOK, NJ!CreateRelationship, Rel
  <2>2. rel.from = edge.from /\ rel.to = edge.to
    BY DEF Rel
  <2>3. edge.from \in DOMAIN g.node /\ edge.to \in DOMAIN g.node
    BY <1>2
  <2> HIDE DEF h, rel
  <2>4. DOMAIN h.rel = DOMAIN g.rel \cup {rel} /\ h.rel = [r \in DOMAIN h.rel |-> h.rel[r]]
    BY <2>1 DEF NJ!Put
  <2>5. h.node = g.node /\ h = [node |-> h.node, rel |-> h.rel]
    BY <2>1
  <2>6. Neo4jOK(h)
    BY <2>2, <2>3, <2>4, <2>5 DEF Neo4jOK
  <2>7. Neo4jLinks(h, g, edge)
    BY <2>4, <2>5, <2>6 DEF Neo4jLinks, rel
  <2> QED
    BY <2>7 DEF h
<1> QED
  BY <1>1, <1>2

-----------------------------------------------------------------------------
(* The same call, made of all four.                                        *)

LEMMA SameAfterStore ==
  ASSUME NEW n \in NodeId, NEW v \in NodeValue, NEW i, NEW s, NEW r, NEW j,
         NEW i2, NEW s2, NEW r2, NEW j2, SameNodes(i, s, r, j), SameEdges(s, j),
         \/ Sets(i2.node, i.node, n, v)
         \/ n \notin DOMAIN i.node /\ i2 = i,
         SQLiteSets(s2, s, n, v), RedisSets(r2, r, n, v), Neo4jSets(j2, j, n, v)
  PROVE  SameNodes(i2, s2, r2, j2) /\ SameEdges(s2, j2)
<1>1. Sets(s2.node, s.node, n, v) /\ Sets(r2.node, r.node, n, v) /\ SetsIn(j2.node, j.node, n, v.session)
  BY DEF SQLiteSets, RedisSets, Neo4jSets
<1>2. s2.edge = s.edge /\ j2.rel = j.rel
  BY DEF SQLiteSets, Neo4jSets
<1>3. /\ DOMAIN s2.node = DOMAIN j2.node
      /\ DOMAIN s2.node \subseteq DOMAIN r2.node
      /\ \A m \in DOMAIN s2.node : s2.node[m].session = j2.node[m].session
  BY <1>1 DEF SameNodes, Sets, SetsIn
<1>4. DOMAIN i2.node \subseteq DOMAIN s2.node /\ \A m \in DOMAIN i2.node : i2.node[m] = s2.node[m]
  BY <1>1 DEF SameNodes, Sets
<1> QED
  BY <1>2, <1>3, <1>4 DEF SameNodes, SameEdges

\* dead: what SQLite and Neo4j delete; in memory it is what is there of it.
LEMMA SameAfterDelete ==
  ASSUME NEW dead, NEW lost, NEW i, NEW s, NEW r, NEW j,
         NEW i2, NEW s2, NEW r2, NEW j2, SameNodes(i, s, r, j), SameEdges(s, j), SQLiteOK(s2),
         Loses(i2.node, i.node, lost), dead \cap DOMAIN i.node \subseteq lost,
         SQLiteDrops(s2, s, dead), Neo4jDrops(j2, j, dead),
         DOMAIN s.node \ dead \subseteq DOMAIN r2.node
  PROVE  SameNodes(i2, s2, r2, j2) /\ SameEdges(s2, j2)
<1>1. Loses(s2.node, s.node, dead) /\ Loses(j2.node, j.node, dead)
  BY DEF SQLiteDrops, Neo4jDrops
<1>2. /\ DOMAIN s2.node = DOMAIN j2.node
      /\ DOMAIN s2.node \subseteq DOMAIN r2.node
      /\ \A m \in DOMAIN s2.node : s2.node[m].session = j2.node[m].session
  BY <1>1 DEF SameNodes, Loses
<1>3. DOMAIN i2.node \subseteq DOMAIN s2.node /\ \A m \in DOMAIN i2.node : i2.node[m] = s2.node[m]
  BY <1>1 DEF SameNodes, Loses
<1>4. ASSUME NEW e \in DOMAIN s2.edge, s2.edge[e].from # s2.edge[e].to
      PROVE  Rel(s2.edge[e].from, s2.edge[e].to) \in DOMAIN j2.rel
  <2> DEFINE a == s2.edge[e].from
             b == s2.edge[e].to
             rel == Rel(a, b)
  <2>1. e \in DOMAIN s.edge /\ s2.edge[e] = s.edge[e]
    BY DEF SQLiteDrops
  <2>2. rel \in DOMAIN j.rel
    BY <1>4, <2>1 DEF SameEdges
  <2>3. rel.from = a /\ rel.to = b
    BY DEF Rel
  <2>4. a \in DOMAIN s2.node /\ b \in DOMAIN s2.node
    BY DEF SQLiteOK
  <2>5. a \notin dead /\ b \notin dead
    BY <1>1, <2>4 DEF Loses
  <2> HIDE DEF a, b, rel
  <2>6. rel \in DOMAIN j2.rel
    BY <2>2, <2>3, <2>5 DEF Neo4jDrops
  <2> QED
    BY <2>6 DEF rel, a, b
<1> QED
  BY <1>2, <1>3, <1>4 DEF SameNodes, SameEdges

LEMMA StoreNodeInv ==
  ASSUME GraphInv, NEW n \in NodeId, NEW v \in NodeValue, StoreNode(n, v)
  PROVE  GraphInv'
<1>1. PICK i, s, r, j : i = inmemory /\ s = sqlite /\ r = redis /\ j = neo4j
  OBVIOUS
<1>2. PICK i2, s2, r2, j2 : i2 = inmemory' /\ s2 = sqlite' /\ r2 = redis' /\ j2 = neo4j'
  OBVIOUS
<1>3. InMemoryOK(i) /\ SQLiteOK(s) /\ RedisOK(r) /\ Neo4jOK(j) /\ SameNodes(i, s, r, j) /\ SameEdges(s, j)
  BY <1>1 DEF GraphInv
<1>4. i2 = IM!StoreNode(i, n, v) /\ s2 = SQ!StoreNode(s, n, v)
      /\ r2 = RD!StoreNode(r, n, v) /\ j2 = NJ!StoreNode(j, n, v)
  BY <1>1, <1>2 DEF StoreNode
<1>5. InMemorySets(i2, i, n, v) /\ SQLiteSets(s2, s, n, v) /\ RedisSets(r2, r, n, v) /\ Neo4jSets(j2, j, n, v)
  BY <1>3, <1>4, InMemoryStores, SQLiteStore, RedisStore, Neo4jStore
<1>6. InMemoryOK(i2) /\ SQLiteOK(s2) /\ RedisOK(r2) /\ Neo4jOK(j2) /\ Sets(i2.node, i.node, n, v)
  BY <1>5 DEF InMemorySets, SQLiteSets, RedisSets, Neo4jSets
<1>7. SameNodes(i2, s2, r2, j2) /\ SameEdges(s2, j2)
  BY <1>3, <1>5, <1>6, SameAfterStore
<1>8. created' \in 0..MaxEdges
  BY DEF GraphInv, StoreNode
<1> QED
  BY <1>2, <1>6, <1>7, <1>8 DEF GraphInv

LEMMA UpdateNodeInv ==
  ASSUME GraphInv, NEW n \in NodeId, NEW v \in NodeValue, UpdateNode(n, v)
  PROVE  GraphInv'
<1>1. PICK i, s, r, j : i = inmemory /\ s = sqlite /\ r = redis /\ j = neo4j
  OBVIOUS
<1>2. PICK i2, s2, r2, j2 : i2 = inmemory' /\ s2 = sqlite' /\ r2 = redis' /\ j2 = neo4j'
  OBVIOUS
<1>3. InMemoryOK(i) /\ SQLiteOK(s) /\ RedisOK(r) /\ Neo4jOK(j) /\ SameNodes(i, s, r, j) /\ SameEdges(s, j)
  BY <1>1 DEF GraphInv
<1>4. i2 = IM!UpdateNode(i, n, v) /\ s2 = SQ!StoreNode(s, n, v)
      /\ r2 = RD!StoreNode(r, n, v) /\ j2 = NJ!StoreNode(j, n, v)
  BY <1>1, <1>2 DEF UpdateNode, SQ!UpdateNode, RD!UpdateNode, NJ!UpdateNode
<1>5. InMemoryUpdates(i2, i, n, v) /\ SQLiteSets(s2, s, n, v) /\ RedisSets(r2, r, n, v) /\ Neo4jSets(j2, j, n, v)
  BY <1>3, <1>4, InMemoryUpdate, SQLiteStore, RedisStore, Neo4jStore
<1>6. InMemoryOK(i2) /\ SQLiteOK(s2) /\ RedisOK(r2) /\ Neo4jOK(j2)
  BY <1>5 DEF InMemoryUpdates, SQLiteSets, RedisSets, Neo4jSets
<1>7. Sets(i2.node, i.node, n, v) \/ (n \notin DOMAIN i.node /\ i2 = i)
  BY <1>5 DEF InMemoryUpdates
<1>8. SameNodes(i2, s2, r2, j2) /\ SameEdges(s2, j2)
  BY <1>3, <1>5, <1>7, SameAfterStore
<1>9. created' \in 0..MaxEdges
  BY DEF GraphInv, UpdateNode
<1> QED
  BY <1>2, <1>6, <1>8, <1>9 DEF GraphInv

LEMMA DeleteNodeInv ==
  ASSUME GraphInv, NEW n \in NodeId, DeleteNode(n)
  PROVE  GraphInv'
<1>1. PICK i, s, r, j : i = inmemory /\ s = sqlite /\ r = redis /\ j = neo4j
  OBVIOUS
<1>2. PICK i2, s2, r2, j2 : i2 = inmemory' /\ s2 = sqlite' /\ r2 = redis' /\ j2 = neo4j'
  OBVIOUS
<1>3. InMemoryOK(i) /\ SQLiteOK(s) /\ RedisOK(r) /\ Neo4jOK(j) /\ SameNodes(i, s, r, j) /\ SameEdges(s, j)
  BY <1>1 DEF GraphInv
<1>4. i2 = IM!DeleteNode(i, n) /\ s2 = SQ!DeleteNode(s, n)
      /\ r2 = RD!DeleteNode(r, n) /\ j2 = NJ!Detach(j, {n})
  BY <1>1, <1>2 DEF DeleteNode, NJ!DeleteNode
<1>5. InMemoryDrops(i2, i, {n}) /\ SQLiteDrops(s2, s, {n}) /\ RedisKeeps(r2, r, {n}) /\ Neo4jDrops(j2, j, {n})
  BY <1>3, <1>4, InMemoryDelete, SQLiteDelete, RedisDelete, Neo4jDetach
<1>6. InMemoryOK(i2) /\ SQLiteOK(s2) /\ RedisOK(r2) /\ Neo4jOK(j2)
      /\ Loses(i2.node, i.node, {n}) /\ Loses(r2.node, r.node, {n})
  BY <1>5 DEF InMemoryDrops, SQLiteDrops, RedisKeeps, Neo4jDrops
<1>7. DOMAIN s.node \ {n} \subseteq DOMAIN r2.node
  BY <1>3, <1>6 DEF SameNodes, Loses
<1>8. SameNodes(i2, s2, r2, j2) /\ SameEdges(s2, j2)
  <2>1. {n} \cap DOMAIN i.node \subseteq {n}
    OBVIOUS
  <2> QED
    BY <1>3, <1>5, <1>6, <1>7, <2>1, SameAfterDelete
<1>9. created' \in 0..MaxEdges
  BY DEF GraphInv, DeleteNode
<1> QED
  BY <1>2, <1>6, <1>8, <1>9 DEF GraphInv

LEMMA WipeInv ==
  ASSUME GraphInv, NEW x, DeleteGraphBySessionID(x)
  PROVE  GraphInv'
<1>1. PICK i, s, r, j : i = inmemory /\ s = sqlite /\ r = redis /\ j = neo4j
  OBVIOUS
<1>2. PICK i2, s2, r2, j2 : i2 = inmemory' /\ s2 = sqlite' /\ r2 = redis' /\ j2 = neo4j'
  OBVIOUS
<1> DEFINE lost == {n \in DOMAIN i.node : i.node[n].session = x}
           dead == {n \in DOMAIN s.node : s.node[n].session = x}
           away == {n \in DOMAIN j.node : j.node[n].session = x}
<1>3. InMemoryOK(i) /\ SQLiteOK(s) /\ RedisOK(r) /\ Neo4jOK(j) /\ SameNodes(i, s, r, j) /\ SameEdges(s, j)
  BY <1>1 DEF GraphInv
<1>4. i2 = IM!DeleteGraphBySessionID(i, x) /\ s2 = SQ!DeleteGraphBySessionID(s, x)
      /\ r2 = r /\ j2 = NJ!Detach(j, away)
  BY <1>1, <1>2 DEF DeleteGraphBySessionID, RD!DeleteGraphBySessionID, NJ!DeleteGraphBySessionID
<1>5. away = dead /\ dead \cap DOMAIN i.node \subseteq lost /\ dead \subseteq DOMAIN s.node
  BY <1>3 DEF SameNodes
<1>6. InMemoryDrops(i2, i, lost) /\ SQLiteDrops(s2, s, dead)
  BY <1>3, <1>4, InMemoryWipe, SQLiteWipe
<1> HIDE DEF lost, dead, away
<1>7. Neo4jDrops(j2, j, dead)
  BY <1>3, <1>4, <1>5, Neo4jDetach
<1>8. InMemoryOK(i2) /\ SQLiteOK(s2) /\ RedisOK(r2) /\ Neo4jOK(j2) /\ Loses(i2.node, i.node, lost)
  BY <1>3, <1>4, <1>6, <1>7 DEF InMemoryDrops, SQLiteDrops, Neo4jDrops
<1>9. DOMAIN s.node \ dead \subseteq DOMAIN r2.node
  BY <1>3, <1>4 DEF SameNodes
<1>10. SameNodes(i2, s2, r2, j2) /\ SameEdges(s2, j2)
  <2>1. SQLiteOK(s2) /\ Loses(i2.node, i.node, lost) /\ dead \cap DOMAIN i.node \subseteq lost
        /\ SQLiteDrops(s2, s, dead)
    BY <1>5, <1>6, <1>8
  <2> QED
    BY <1>3, <1>7, <1>9, <2>1, SameAfterDelete
<1>11. created' \in 0..MaxEdges
  BY DEF GraphInv, DeleteGraphBySessionID
<1> QED
  BY <1>2, <1>8, <1>10, <1>11 DEF GraphInv

LEMMA CreateRelationshipInv ==
  ASSUME GraphInv, NEW edge \in Edge, CreateRelationship(edge)
  PROVE  GraphInv'
<1>1. PICK i, s, r, j : i = inmemory /\ s = sqlite /\ r = redis /\ j = neo4j
  OBVIOUS
<1>2. PICK i2, s2, r2, j2 : i2 = inmemory' /\ s2 = sqlite' /\ r2 = redis' /\ j2 = neo4j'
  OBVIOUS
<1>3. InMemoryOK(i) /\ SQLiteOK(s) /\ RedisOK(r) /\ Neo4jOK(j) /\ SameNodes(i, s, r, j) /\ SameEdges(s, j)
  BY <1>1 DEF GraphInv
<1> DEFINE id == <<edge.from, edge.to>>
<1>4. i2 = IM!CreateRelationship(i, id, edge) /\ s2 = SQ!CreateRelationship(s, id, edge)
      /\ r2 = RD!CreateRelationship(r, id, edge) /\ j2 = NJ!CreateRelationship(j, id, edge)
  BY <1>1, <1>2 DEF CreateRelationship
<1>5. InMemoryLinks(i2, i) /\ SQLiteLinks(s2, s, edge) /\ RedisKeeps(r2, r, {}) /\ Neo4jLinks(j2, j, edge)
  BY <1>3, <1>4, InMemoryLink, SQLiteLink, RedisLink, Neo4jLink
<1>6. InMemoryOK(i2) /\ SQLiteOK(s2) /\ RedisOK(r2) /\ Neo4jOK(j2)
      /\ i2.node = i.node /\ s2.node = s.node /\ j2.node = j.node /\ Loses(r2.node, r.node, {})
  BY <1>5 DEF InMemoryLinks, SQLiteLinks, RedisKeeps, Neo4jLinks
<1>7. SameNodes(i2, s2, r2, j2)
  BY <1>3, <1>6 DEF SameNodes, Loses
<1>8. ASSUME NEW e \in DOMAIN s2.edge, s2.edge[e].from # s2.edge[e].to
      PROVE  Rel(s2.edge[e].from, s2.edge[e].to) \in DOMAIN j2.rel
  <2>1. CASE e \in DOMAIN s.edge /\ s2.edge[e].from = s.edge[e].from /\ s2.edge[e].to = s.edge[e].to
    BY <1>3, <1>5, <1>8, <2>1 DEF SameEdges, Neo4jLinks
  <2>2. CASE /\ s2.edge[e].from = edge.from /\ s2.edge[e].to = edge.to
             /\ edge.from \in DOMAIN s.node /\ edge.to \in DOMAIN s.node
    BY <1>3, <1>5, <1>8, <2>2 DEF SameNodes, Neo4jLinks
  <2> QED
    BY <1>5, <2>1, <2>2 DEF SQLiteLinks
<1>9. created' \in 0..MaxEdges
  BY GraphAssumption DEF GraphInv, CreateRelationship
<1> QED
  BY <1>2, <1>6, <1>7, <1>8, <1>9 DEF GraphInv, SameEdges

LEMMA InitGraphs ==
  ASSUME Init
  PROVE  GraphInv
<1>1. /\ inmemory = [node |-> <<>>, edge |-> <<>>, out |-> <<>>, in |-> <<>>]
      /\ sqlite = [node |-> <<>>, edge |-> <<>>]
      /\ redis = [node |-> <<>>, edge |-> <<>>, out |-> <<>>, in |-> <<>>]
      /\ neo4j = [node |-> <<>>, rel |-> <<>>] /\ created = 0
  BY DEF Init, IM!Empty, SQ!Empty, RD!Empty, NJ!Empty
<1>2. PICK f : f = <<>>
  OBVIOUS
<1>3. DOMAIN f = {} /\ f = [x \in {} |-> f[x]]
  BY <1>2
<1>4. NodesOK(f) /\ EdgesOK(f)
  BY <1>3 DEF NodesOK, EdgesOK
<1>5. /\ inmemory = [node |-> f, edge |-> f, out |-> f, in |-> f]
      /\ sqlite = [node |-> f, edge |-> f]
      /\ redis = [node |-> f, edge |-> f, out |-> f, in |-> f]
      /\ neo4j = [node |-> f, rel |-> f]
  BY <1>1, <1>2
<1>6. InMemoryOK(inmemory) /\ SQLiteOK(sqlite) /\ RedisOK(redis) /\ Neo4jOK(neo4j)
  BY <1>3, <1>4, <1>5 DEF InMemoryOK, SQLiteOK, RedisOK, Neo4jOK
<1>7. SameNodes(inmemory, sqlite, redis, neo4j) /\ SameEdges(sqlite, neo4j)
  BY <1>3, <1>5 DEF SameNodes, SameEdges
<1> QED
  BY <1>1, <1>6, <1>7, GraphAssumption DEF GraphInv

LEMMA StepGraphs ==
  ASSUME GraphInv, [Next]_vars
  PROVE  GraphInv'
<1>1. CASE UNCHANGED vars
  BY <1>1 DEF vars, GraphInv
<1>2. CASE Next
  BY <1>2, StoreNodeInv, UpdateNodeInv, DeleteNodeInv, CreateRelationshipInv, WipeInv DEF Next
<1> QED
  BY <1>1, <1>2

-----------------------------------------------------------------------------
(* What it says of the graphs.                                             *)

LEMMA TypedGraphs == GraphInv => GraphTypeOK
<1> SUFFICES ASSUME GraphInv PROVE GraphTypeOK
  OBVIOUS
<1>1. NodesOK(inmemory.node) /\ NodesOK(sqlite.node) /\ NodesOK(redis.node)
  BY DEF GraphInv, InMemoryOK, SQLiteOK, RedisOK
<1>2. EdgesOK(inmemory.edge) /\ EdgesOK(sqlite.edge) /\ EdgesOK(redis.edge)
  BY DEF GraphInv, InMemoryOK, SQLiteOK, RedisOK
<1>3. DOMAIN inmemory.out = DOMAIN inmemory.node /\ DOMAIN inmemory.in = DOMAIN inmemory.node
  BY DEF GraphInv, InMemoryOK
<1>4. \A n \in DOMAIN neo4j.node : neo4j.node[n].type \in neo4j.node[n].labels
  BY DEF GraphInv, Neo4jOK
<1>5. created \in 0..MaxEdges
  BY DEF GraphInv
<1>6. \A node \in {inmemory.node, sqlite.node, redis.node} :
        DOMAIN node \subseteq NodeId /\ \A n \in DOMAIN node : node[n] \in NodeValue
  BY <1>1 DEF NodesOK
<1>7. \A edge \in {inmemory.edge, sqlite.edge, redis.edge} :
        \A e \in DOMAIN edge : edge[e] \in Edge /\ e = <<edge[e].from, edge[e].to>>
  BY <1>2 DEF EdgesOK
<1> QED
  BY <1>3, <1>4, <1>5, <1>6, <1>7 DEF GraphTypeOK

LEMMA AgreeingGraphs == GraphInv => StoresAgree /\ EdgesAnchored
<1> SUFFICES ASSUME GraphInv PROVE StoresAgree /\ EdgesAnchored
  OBVIOUS
<1>1. SameNodes(inmemory, sqlite, redis, neo4j) /\ SameEdges(sqlite, neo4j)
  BY DEF GraphInv
<1>2. ASSUME NEW e \in DOMAIN sqlite.edge, e[1] # e[2]
      PROVE  e \in {r.id : r \in DOMAIN neo4j.rel}
  <2> DEFINE a == sqlite.edge[e].from
             b == sqlite.edge[e].to
  <2>1. e = <<a, b>>
    BY DEF GraphInv, SQLiteOK, EdgesOK
  <2>2. a # b
    BY <1>2, <2>1
  <2>3. Rel(a, b) \in DOMAIN neo4j.rel
    BY <1>1, <2>2 DEF SameEdges
  <2>4. Rel(a, b).id = e
    BY <2>1 DEF Rel
  <2> QED
    BY <2>3, <2>4
<1>3. StoresAgree
  BY <1>1, <1>2 DEF SameNodes, StoresAgree
<1>4. \A e \in EdgesOf(sqlite) : {e.from, e.to} \subseteq DOMAIN sqlite.node
  BY DEF GraphInv, SQLiteOK, EdgesOf
<1>5. \A r \in DOMAIN neo4j.rel : {r.from, r.to} \subseteq DOMAIN neo4j.node
  BY DEF GraphInv, Neo4jOK
<1> QED
  BY <1>3, <1>4, <1>5 DEF EdgesAnchored

-----------------------------------------------------------------------------
(* Among the other parts.                                                  *)

ServicesInv ==
  /\ GraphInv /\ RowsInv
  /\ Of("embedding") => EmbedInv
  /\ Of("talk") => TalkInv

LEMMA InitServices ==
  ASSUME ServicesInit
  PROVE  ServicesInv
<1>1. GraphInv
  BY InitGraphs DEF ServicesInit
<1>2. RowsInv
  <2>1. CASE Of("rows")
    <3>1. PICK plan \in RowPlans : RowsInit(plan)
      BY <2>1 DEF ServicesInit
    <3>2. \A c \in Clients : plan[c] \in Seq(RowOffer \cup {ById})
      BY RowsAssumption
    <3> QED
      BY <3>1, <3>2, InitRows
  <2>2. CASE ~Of("rows")
    <3>1. RowsInit([c \in Clients |-> <<>>])
      BY <2>2 DEF ServicesInit, NoRows
    <3>2. PICK plan : plan = [c \in Clients |-> <<>>]
      OBVIOUS
    <3>3. \A c \in Clients : plan[c] \in Seq(RowOffer \cup {ById})
      BY <3>2
    <3> QED
      BY <3>1, <3>2, <3>3, InitRows
  <2> QED
    BY <2>1, <2>2
<1>3. ASSUME Of("embedding") PROVE EmbedInv
  <2>1. PICK plan \in EmbedPlans : EmbedInit(plan)
    BY <1>3 DEF ServicesInit
  <2> QED
    BY <2>1, InitEmbed
<1>4. ASSUME Of("talk") PROVE TalkInv
  <2>1. PICK plan \in TalkPlans : TalkInit(plan)
    BY <1>4 DEF ServicesInit
  <2> QED
    BY <2>1, InitTalk
<1> QED
  BY <1>1, <1>2, <1>3, <1>4 DEF ServicesInv

\* A step is one of the graphs', or leaves them as they are; so with the other
\* parts, and none makes the behaviour one about another part.
LEMMA StepsApart ==
  ASSUME [ServicesNext]_serviceVars
  PROVE  /\ [Next]_vars /\ [RowsNext]_rowVars
         /\ [EmbedNext]_embedVars /\ [TalkNext]_talkVars
         /\ family' = family
<1>1. CASE UNCHANGED serviceVars
  <2>1. UNCHANGED <<vars, rowVars, embedVars, talkVars, family>>
    BY <1>1 DEF serviceVars
  <2> QED
    BY <2>1
<1>2. CASE ServicesNext
  <2>1. [Next]_vars
    BY <1>2 DEF ServicesNext
  <2>2. [RowsNext]_rowVars
    BY <1>2 DEF ServicesNext
  <2>3. [EmbedNext]_embedVars
    BY <1>2 DEF ServicesNext
  <2>4. [TalkNext]_talkVars
    BY <1>2 DEF ServicesNext
  <2>5. family' = family
    BY <1>2 DEF ServicesNext
  <2> QED
    BY <2>1, <2>2, <2>3, <2>4, <2>5
<1> QED
  BY <1>1, <1>2

LEMMA ServicesAlways == ServicesSpec => []ServicesInv
<1>1. ServicesInit => ServicesInv
  BY InitServices
<1>2. ServicesInv /\ [ServicesNext]_serviceVars => ServicesInv'
  <2> SUFFICES ASSUME ServicesInv, [ServicesNext]_serviceVars
               PROVE  ServicesInv'
    OBVIOUS
  <2>1. GraphInv' /\ RowsInv'
    BY StepsApart, StepGraphs, StepRows DEF ServicesInv
  <2>2. ASSUME Of("embedding")' PROVE EmbedInv'
    <3>1. Of("embedding")
      BY <2>2, StepsApart DEF Of
    <3> QED
      BY <3>1, StepsApart, StepEmbed DEF ServicesInv
  <2>3. ASSUME Of("talk")' PROVE TalkInv'
    <3>1. Of("talk")
      BY <2>3, StepsApart DEF Of
    <3> QED
      BY <3>1, StepsApart, StepTalk DEF ServicesInv
  <2> QED
    BY <2>1, <2>2, <2>3 DEF ServicesInv
<1> QED
  BY <1>1, <1>2, PTL DEF ServicesSpec

-----------------------------------------------------------------------------
(* What it says.                                                           *)

\* What the four graph stores keep has the shape their readers rely on: an
\* edge is found under its ends, and the in-memory store has lists for the
\* nodes it has and for no others.  The tables of the rows are sound.
THEOREM StoresAreTyped == ServicesSpec => []StoresTypeOK
<1>1. ServicesInv => StoresTypeOK
  BY TypedGraphs, TypedRows DEF ServicesInv, StoresTypeOK
<1> QED
  BY <1>1, ServicesAlways, PTL

\* The same calls, however many and in whatever order, leave the same graph in
\* all four stores, but for what StoresAgree excepts; and in SQLite and Neo4j
\* no edge outlives one of its ends.
THEOREM StoresKeepTheSame == ServicesSpec => []GraphsAgree
<1>1. ServicesInv => GraphsAgree
  BY AgreeingGraphs DEF ServicesInv, GraphsAgree
<1> QED
  BY <1>1, ServicesAlways, PTL

\* When a session's graph is deleted, nothing of it is left, except in Redis,
\* and SQLite keeps the nodes of all the other sessions.
THEOREM WipesClear == ServicesSpec => WipeClears
<1> DEFINE Clears(s) ==
      /\ \A node \in {inmemory'.node, sqlite'.node, neo4j'.node} :
           \A n \in DOMAIN node : node[n].session # s
      /\ \A e \in EdgesOf(inmemory') \cup EdgesOf(sqlite') : e.session # s
      /\ \A n \in DOMAIN sqlite.node :
           sqlite.node[n].session # s => n \in DOMAIN sqlite'.node
<1>1. ASSUME NEW s \in Session, DeleteGraphBySessionID(s)
      PROVE  Clears(s)
  <2>1. \A n \in DOMAIN inmemory'.node : inmemory'.node[n].session # s
    BY <1>1 DEF DeleteGraphBySessionID, IM!DeleteGraphBySessionID, IM!Without, IM!Restrict
  <2>2. /\ \A n \in DOMAIN sqlite'.node : sqlite'.node[n].session # s
        /\ \A n \in DOMAIN sqlite.node :
             sqlite.node[n].session # s => n \in DOMAIN sqlite'.node
    BY <1>1 DEF DeleteGraphBySessionID, SQ!DeleteGraphBySessionID, SQ!Keep, SQ!Restrict
  <2>3. \A n \in DOMAIN neo4j'.node : neo4j'.node[n].session # s
    BY <1>1 DEF DeleteGraphBySessionID, NJ!DeleteGraphBySessionID, NJ!Detach, NJ!Restrict
  <2>4. \A e \in DOMAIN inmemory'.edge : inmemory'.edge[e].session # s
    BY <1>1 DEF DeleteGraphBySessionID, IM!DeleteGraphBySessionID, IM!Without, IM!Restrict
  <2>5. \A e \in DOMAIN sqlite'.edge : sqlite'.edge[e].session # s
    BY <1>1 DEF DeleteGraphBySessionID, SQ!DeleteGraphBySessionID, SQ!Keep, SQ!Restrict
  <2>6. \A e \in EdgesOf(inmemory') \cup EdgesOf(sqlite') : e.session # s
    BY <2>4, <2>5 DEF EdgesOf
  <2> QED
    BY <2>1, <2>2, <2>3, <2>6
<1>2. [ServicesNext]_serviceVars => [\A s \in Session : DeleteGraphBySessionID(s) => Clears(s)]_vars
  BY <1>1
<1>3. ServicesSpec => [][\A s \in Session : DeleteGraphBySessionID(s) => Clears(s)]_vars
  BY <1>2, PTL DEF ServicesSpec
<1> QED
  BY <1>3 DEF WipeClears

\* What ClientsProofs shows of the rows holds among the other parts: an Add
\* finds what was stored before it began, and an input that several clients
\* cognify is complete when the last of them is through.
THEOREM RowsAreShared == ServicesSpec => [](AddsFindEarlier /\ HandedTwiceDone)
<1>1. ServicesInv => AddsFindEarlier /\ HandedTwiceDone
  BY EarlierRows, SharedRowsDone DEF ServicesInv
<1> QED
  BY <1>1, ServicesAlways, PTL

\* However many share one object and however the services fail: a call that
\* embeds hands out the vectors of its own texts, in lengths that somebody asked
\* for, exactly those asked for as long as nobody sets the object during another's
\* call; an answer comes from a model the object was set to during the call, a
\* call gives up early only for a cause, and sends at most one request once its
\* caller's context has ended.
THEOREM ClientsKeepTheirWord == ServicesSpec => []ClientsAreSound
<1>1. ServicesInv => ClientsAreSound
  BY OwnLengths, OwnEmbeddings, SoundTalk DEF ServicesInv, ClientsAreSound
<1> QED
  BY <1>1, ServicesAlways, PTL
=============================================================================
