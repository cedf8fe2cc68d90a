----------------------------- MODULE GraphNeo4j -----------------------------
(***************************************************************************)
(* The Neo4j graph store (graph/adapters/neo4j): MERGE on the id of a node *)
(* and on the ends and the id of a relationship, DETACH DELETE, and        *)
(* matches without direction.  A node keeps every label it was stored      *)
(* with, and a property it is stored without.                              *)
(*                                                                         *)
(* g.rel maps [id, from, to] to the session of the relationship.           *)
(***************************************************************************)
EXTENDS Naturals, Functions

CONSTANT NoSource   \* the source of a node stored without a source_id

Empty == [node |-> <<>>, rel |-> <<>>]

Put(f, k, v) == [x \in DOMAIN f \cup {k} |-> IF x = k THEN v ELSE f[x]]

\* Node.Validate passes every node with an id and a type.
StoreNode(g, id, value) ==
  LET old == g.node[id]
      new == [type |-> value.type, name |-> value.name, session |-> value.session,
              source |-> value.source, labels |-> {value.type}]
      merged == [new EXCEPT !.labels = @ \cup old.labels,
                            !.source = IF @ = NoSource THEN old.source ELSE @]
  IN  [g EXCEPT !.node = Put(@, id, IF id \in DOMAIN g.node THEN merged ELSE new)]

UpdateNode(g, id, value) == StoreNode(g, id, value)

Detach(g, dead) ==
  [node |-> Restrict(g.node, DOMAIN g.node \ dead),
   rel |-> Restrict(g.rel, {r \in DOMAIN g.rel : {r.from, r.to} \cap dead = {}})]

DeleteNode(g, id) == Detach(g, {id})

\* Edge.Validate refuses a loop; a missing end matches nothing.
CreateRelationship(g, id, edge) ==
  IF edge.from = edge.to \/ {edge.from, edge.to} \ DOMAIN g.node # {} THEN g
  ELSE [g EXCEPT !.rel = Put(@, [id |-> id, from |-> edge.from, to |-> edge.to], edge.session)]

DeleteGraphBySessionID(g, session) ==
  Detach(g, {n \in DOMAIN g.node : g.node[n].session = session})

-----------------------------------------------------------------------------
BySource(g, source) == {n \in DOMAIN g.node : g.node[n].source = source}
ByName(g, name) == {n \in DOMAIN g.node : g.node[n].name = name}

\* MATCH (n:<type>): with an empty type the query is not well formed and the
\* call an error.
ByEntity(g, name, type) == {n \in ByName(g, name) : type \in g.node[n].labels}

\* A match of [*1..depth] uses no relationship twice.
Trail(g, start, depth) ==
  LET ids == {start} \cup UNION {{r.from, r.to} : r \in DOMAIN g.rel}
      trail[at \in ids, used \in SUBSET DOMAIN g.rel, left \in 0..depth] ==
        LET free == {r \in DOMAIN g.rel \ used : at \in {r.from, r.to}}
        IN  IF left = 0 THEN {}
            ELSE UNION {LET n == IF r.from = at THEN r.to ELSE r.from
                        IN  {n} \cup trail[n, used \cup {r}, left - 1] : r \in free}
  IN  trail[start, {}, depth]

TraverseGraph(g, start, depth) ==
  IF start \in DOMAIN g.node THEN Trail(g, start, depth) ELSE {}

FindConnected(g, id) == TraverseGraph(g, id, 1)
=============================================================================
