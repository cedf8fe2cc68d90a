--------------------------- MODULE GraphInMemory ---------------------------
(***************************************************************************)
(* The in-memory graph store (graph/adapters/inmemory): nodes, edges, and  *)
(* for every node the list of its outgoing and of its incoming edges.      *)
(*                                                                         *)
(* A store is a record g: g.node maps ids to [type, name, session,         *)
(* source], g.edge maps ids to [from, to, session], g.out and g.in map     *)
(* node ids to sequences of edge ids.  An operator that changes the store  *)
(* returns the new one; where the code returns an error it is the old one. *)
(* The edge types and the property filters of a read, which no caller      *)
(* sets, are left out.                                                     *)
(***************************************************************************)
EXTENDS Naturals, Sequences, SequencesExt

Empty == [node |-> <<>>, edge |-> <<>>, out |-> <<>>, in |-> <<>>]

Put(f, k, v) == [x \in DOMAIN f \cup {k} |-> IF x = k THEN v ELSE f[x]]
Without(f, S) == Restrict(f, DOMAIN f \ S)

StoreNode(g, id, value) ==
  LET Listed(lists) == IF id \in DOMAIN lists THEN lists ELSE Put(lists, id, <<>>)
  IN  [g EXCEPT !.node = Put(@, id, value), !.out = Listed(@), !.in = Listed(@)]

UpdateNode(g, id, value) ==
  IF id \in DOMAIN g.node THEN [g EXCEPT !.node[id] = value] ELSE g

\* Mutant of GraphTypeOK: the lists of the deleted node are kept.
DeleteKeepsLists(g, id) ==
  IF id \notin DOMAIN g.node THEN g
  ELSE [g EXCEPT !.node = Without(@, {id}),
                 !.edge = Without(@, ToSet(g.out[id]) \cup ToSet(g.in[id]))]

\* The edges its own lists name go too; their entry in the list of the other
\* end stays behind.
DeleteNode(g, id) ==
  IF id \notin DOMAIN g.node THEN g
  ELSE [node |-> Without(g.node, {id}),
        edge |-> Without(g.edge, ToSet(g.out[id]) \cup ToSet(g.in[id])),
        out |-> Without(g.out, {id}),
        in |-> Without(g.in, {id})]

DeleteFails(g, id) == id \notin DOMAIN g.node

\* Mutant of InMemoryReadsOwnEdges: the two lists are mixed up.
ListsSwapped(g, id, edge) ==
  IF edge.from = edge.to \/ {edge.from, edge.to} \ DOMAIN g.node # {} THEN g
  ELSE [g EXCEPT !.edge = Put(@, id, edge),
                 !.out[edge.to] = Append(@, id),
                 !.in[edge.from] = Append(@, id)]

CreateRelationship(g, id, edge) ==
  IF edge.from = edge.to \/ {edge.from, edge.to} \ DOMAIN g.node # {} THEN g
  ELSE [g EXCEPT !.edge = Put(@, id, edge),
                 !.out[edge.from] = Append(@, id),
                 !.in[edge.to] = Append(@, id)]

\* removeEdgeFromList moves the tail one place down in the array that the map
\* still sees at its old length: the last id is there twice.
Removed(list, id) ==
  IF id \notin ToSet(list) THEN list
  ELSE LET i == SelectInSeq(list, LAMBDA e : e = id)
       IN  [k \in DOMAIN list |->
              IF k < i \/ k = Len(list) THEN list[k] ELSE list[k + 1]]

\* The edges of the session leave the lists one by one, its nodes go with
\* their lists, and an edge of another session that ended there stays.
\* (The code removes them in the order of a map's iteration; the removals of
\* two ids commute.)
DeleteGraphBySessionID(g, session) ==
  LET gone == {e \in DOMAIN g.edge : g.edge[e].session = session}
      dead == {n \in DOMAIN g.node : g.node[n].session = session}
      Purge(lists) == [n \in DOMAIN lists \ dead |->
                         FoldLeft(Removed, lists[n], SetToSeq(gone))]
  IN  [node |-> Without(g.node, dead), edge |-> Without(g.edge, gone),
       out |-> Purge(g.out), in |-> Purge(g.in)]

-----------------------------------------------------------------------------
BySource(g, source) == {n \in DOMAIN g.node : g.node[n].source = source}
ByName(g, name) == {n \in DOMAIN g.node : g.node[n].name = name}

\* An empty type stands for any.
ByEntity(g, name, type) ==
  {n \in ByName(g, name) : type = "" \/ g.node[n].type = type}

\* traverseRecursive: depth first along the outgoing lists, no node twice.
\* What it has visited is appended to the result, a node that is not there as
\* a nil pointer; an edge that is not there is dereferenced and panics.
Visit(g, start, depth) ==
  LET ids == {start} \cup {g.edge[e].to : e \in DOMAIN g.edge}
      visit[seen \in [ids : SUBSET ids, panic : BOOLEAN], id \in ids, left \in 0..depth] ==
        IF id \in seen.ids \/ left = 0 THEN seen
        ELSE LET here == [seen EXCEPT !.ids = @ \cup {id}]
                 Follow(acc, e) ==
                   IF acc.panic \/ e \notin DOMAIN g.edge
                   THEN [acc EXCEPT !.panic = TRUE]
                   ELSE visit[acc, g.edge[e].to, left - 1]
             IN  IF id \in DOMAIN g.out THEN FoldLeft(Follow, here, g.out[id])
                 ELSE here
  IN  visit[[ids |-> {}, panic |-> FALSE], start, depth]

\* The search is entered at depth 0 and turns back beyond the maximum.  An
\* unknown start is an error, which the callers take for no result.
TraverseGraph(g, start, depth) ==
  IF start \in DOMAIN g.node THEN Visit(g, start, depth + 1)
  ELSE [ids |-> {}, panic |-> FALSE]

FindConnected(g, id) ==
  LET list == IF id \in DOMAIN g.node THEN ToSet(g.out[id]) ELSE {}
  IN  [ids |-> {g.edge[e].to : e \in list \cap DOMAIN g.edge} \cap DOMAIN g.node,
       panic |-> ~(list \subseteq DOMAIN g.edge)]

\* Mutant of PathsAreShortest: the bound counts edges.
LongEnoughByEdges(path, maxDepth) == Len(path) > maxDepth

LongEnough(path, maxDepth) == Len(path) >= maxDepth

\* A queue of paths; a node expanded once is not expanded again, and a path
\* of maxDepth nodes is not extended.  <<>> when there is none.
Explore(g, from, to, maxDepth) ==
  LET ids == {from} \cup {g.edge[e].to : e \in DOMAIN g.edge}
      explore[queue \in Seq(Seq(ids)), visited \in SUBSET ids] ==
        IF queue = <<>> THEN [path |-> <<>>, panic |-> FALSE]
        ELSE LET path == Head(queue)
                 here == Last(path)
                 list == IF here \in DOMAIN g.out THEN g.out[here] ELSE <<>>
             IN  IF here = to THEN [path |-> path, panic |-> FALSE]
                 ELSE IF LongEnough(path, maxDepth) \/ here \in visited
                 THEN explore[Tail(queue), visited]
                 ELSE IF ~(ToSet(list) \subseteq DOMAIN g.edge)
                 THEN [path |-> <<>>, panic |-> TRUE]
                 ELSE explore[Tail(queue) \o [k \in DOMAIN list |->
                                                Append(path, g.edge[list[k]].to)],
                              visited \cup {here}]
  IN  explore[<<<<from>>>>, {}]

FindPath(g, from, to, maxDepth) ==
  IF {from, to} \subseteq DOMAIN g.node
  THEN Explore(g, from, to, maxDepth)
  ELSE [path |-> <<>>, panic |-> FALSE]
=============================================================================
