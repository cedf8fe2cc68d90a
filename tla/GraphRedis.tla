----------------------------- MODULE GraphRedis -----------------------------
(***************************************************************************)
(* The Redis graph store (graph/adapters/redis): a key per node, a hash of *)
(* edges, and per node two sets of edge ids, the outgoing and the incoming *)
(* ones.  Nothing is checked on a write, and a deleted node leaves its     *)
(* edges and their sets; reads walk in both directions.                    *)
(***************************************************************************)
EXTENDS Naturals, Sequences, Functions

Empty == [node |-> <<>>, edge |-> <<>>, out |-> <<>>, in |-> <<>>]

Put(f, k, v) == [x \in DOMAIN f \cup {k} |-> IF x = k THEN v ELSE f[x]]
Members(sets, id) == IF id \in DOMAIN sets THEN sets[id] ELSE {}
SAdd(sets, id, e) == Put(sets, id, Members(sets, id) \cup {e})

StoreNode(g, id, value) == [g EXCEPT !.node = Put(@, id, value)]
UpdateNode(g, id, value) == StoreNode(g, id, value)
DeleteNode(g, id) == [g EXCEPT !.node = Restrict(@, DOMAIN @ \ {id})]

\* One pipeline.
CreateRelationship(g, id, edge) ==
  [g EXCEPT !.edge = Put(@, id, edge),
            !.out = SAdd(@, edge.from, id),
            !.in = SAdd(@, edge.to, id)]

\* Not implemented for the Redis layout: returns without an error.
DeleteGraphBySessionID(g, session) == g

-----------------------------------------------------------------------------
\* FindNodesByProperty returns the empty list for every property.
BySource(g, source) == {}
ByName(g, name) == {}

ByEntity(g, name, type) ==
  {n \in DOMAIN g.node : g.node[n].name = name /\ g.node[n].type = type}

AdjacentEdges(g, id) ==
  {g.edge[e] : e \in (Members(g.out, id) \cup Members(g.in, id)) \cap DOMAIN g.edge}

\* The other end of an edge that was found at id.
OtherEnd(edge, id) == IF edge.from = id THEN edge.to ELSE edge.from

\* Mutant of TraversalExact: an edge is followed in its own direction only.
NextOutgoing(g, ids) ==
  UNION {{edge.to : edge \in {d \in AdjacentEdges(g, id) : d.from = id}} : id \in ids}

NextLevel(g, ids) ==
  UNION {{OtherEnd(edge, id) : edge \in AdjacentEdges(g, id)} : id \in ids}

\* One level of the queue after the other, no id twice; ids without a node
\* are passed through and not returned.
Level(g, start, depth) ==
  LET walk[d \in 0..depth] ==
        IF d = 0 THEN [seen |-> {start}, queue |-> {start}]
        ELSE LET next == NextLevel(g, walk[d - 1].queue) \ walk[d - 1].seen
             IN  [seen |-> walk[d - 1].seen \cup next, queue |-> next]
  IN  walk[depth]

TraverseGraph(g, start, depth) == Level(g, start, depth).seen \cap DOMAIN g.node

FindConnected(g, id) == NextLevel(g, {id}) \cap DOMAIN g.node

\* Breadth first, the parent of every id remembered at its first visit: the
\* ids of any shortest chain, those without a node left out.
Chains(g, from, to, d) ==
  LET ids == {from, to} \cup Level(g, from, d).seen
      chains[n \in 0..d, id \in ids] ==
        IF n = 0 THEN IF from = id THEN {<<id>>} ELSE {}
        ELSE UNION {{Append(c, id) : c \in chains[n - 1, p]} :
                      p \in {p \in Level(g, from, n - 1).queue : id \in NextLevel(g, {p})}}
  IN  chains[d, to]

FindPath(g, from, to, maxDepth) ==
  LET hit == {d \in 0..maxDepth : to \in Level(g, from, d).queue}
  IN  UNION {{SelectSeq(c, LAMBDA id : id \in DOMAIN g.node) :
                c \in Chains(g, from, to, d)} : d \in hit}
=============================================================================
