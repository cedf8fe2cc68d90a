---------------------------- MODULE GraphSQLite ----------------------------
(***************************************************************************)
(* The SQLite graph store (graph/adapters/sqlite): a table of nodes and a  *)
(* table of edges whose ends are foreign keys with ON DELETE CASCADE, so   *)
(* that an edge with a missing end is refused and a deleted node takes its *)
(* edges along.  One statement is one step (SetMaxOpenConns(1)).           *)
(***************************************************************************)
EXTENDS Naturals, Functions

Empty == [node |-> <<>>, edge |-> <<>>]

Put(f, k, v) == [x \in DOMAIN f \cup {k} |-> IF x = k THEN v ELSE f[x]]
Keep(f, S) == Restrict(f, S)

StoreNode(g, id, value) == [g EXCEPT !.node = Put(@, id, value)]

\* Mutant of StoresAgree: an UPDATE of a row that has to be there.
UpdateRow(g, id, value) ==
  IF id \in DOMAIN g.node THEN StoreNode(g, id, value) ELSE g

UpdateNode(g, id, value) == StoreNode(g, id, value)

\* Mutant of EdgesAnchored: the edges table without its foreign keys.
DeleteRowOnly(g, id) == [g EXCEPT !.node = Keep(@, DOMAIN @ \ {id})]

DeleteNode(g, id) ==
  [node |-> Keep(g.node, DOMAIN g.node \ {id}),
   edge |-> Keep(g.edge, {e \in DOMAIN g.edge :
                            id \notin {g.edge[e].from, g.edge[e].to}})]

\* An upsert; a known edge keeps its ends.
CreateRelationship(g, id, edge) ==
  IF id \in DOMAIN g.edge THEN [g EXCEPT !.edge[id].session = edge.session]
  ELSE IF {edge.from, edge.to} \subseteq DOMAIN g.node
  THEN [g EXCEPT !.edge = Put(@, id, edge)]
  ELSE g

\* Mutant of WipeClears: the edges of the session are left to the cascade.
DeleteNodesOfSession(g, session) ==
  LET left == {n \in DOMAIN g.node : g.node[n].session # session}
  IN  [node |-> Keep(g.node, left),
       edge |-> Keep(g.edge, {e \in DOMAIN g.edge :
                                {g.edge[e].from, g.edge[e].to} \subseteq left})]

DeleteGraphBySessionID(g, session) ==
  LET left == {n \in DOMAIN g.node : g.node[n].session # session}
  IN  [node |-> Keep(g.node, left),
       edge |-> Keep(g.edge, {e \in DOMAIN g.edge :
                                /\ g.edge[e].session # session
                                /\ {g.edge[e].from, g.edge[e].to} \subseteq left})]

-----------------------------------------------------------------------------
BySource(g, source) == {n \in DOMAIN g.node : g.node[n].source = source}
ByName(g, name) == {n \in DOMAIN g.node : g.node[n].name = name}

\* The type is compared as it is: an empty one matches no node.
ByEntity(g, name, type) == {n \in ByName(g, name) : g.node[n].type = type}

Targets(g, S) == {g.edge[e].to : e \in {e \in DOMAIN g.edge : g.edge[e].from \in S}}

\* The recursive query adds the rows (id, depth) of one depth after the other.
Rows(g, start, depth) ==
  LET at[d \in 0..depth] == IF d = 0 THEN {start} ELSE Targets(g, at[d - 1])
  IN  UNION {at[d] : d \in 0..depth}

TraverseGraph(g, start, depth) == (Rows(g, start, depth) \cap DOMAIN g.node) \ {start}

FindConnected(g, id) == Targets(g, {id})

\* The rows of the recursive query are the simple paths of at most maxDepth
\* edges; the LIMIT takes any of those that end in the target, and the join
\* returns its nodes in no order.
Paths(g, from, maxDepth) ==
  LET grow(S) == S \cup UNION {{[ids |-> p.ids \cup {n}, end |-> n] :
                                 n \in Targets(g, {p.end}) \ p.ids} : p \in S}
      upTo[d \in 0..maxDepth] ==
        IF d = 0 THEN {[ids |-> {from}, end |-> from]} ELSE grow(upTo[d - 1])
  IN  upTo[maxDepth]

FindPath(g, from, to, maxDepth) ==
  {p.ids \cap DOMAIN g.node : p \in {p \in Paths(g, from, maxDepth) : p.end = to}}
=============================================================================
