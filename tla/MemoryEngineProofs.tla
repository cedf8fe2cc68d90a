------------------------ MODULE MemoryEngineProofs ------------------------
(***************************************************************************)
(* Proofs about the memory engine: the ingestion of inputs, and the calls  *)
(* of a client that deletes, wipes, relates, tells and forgets, over the   *)
(* relational, the vector and the graph store of any configuration.        *)
(*                                                                         *)
(* No store knows of the others, so what is deleted goes step by step, and *)
(* the row last.  That a row leaves no trace is not inductive by itself:   *)
(* the invariant has to say of every job under way that each trace of its  *)
(* row which is still there has a call that is still to come (Covered),    *)
(* unless the ingestion was at work on the row meanwhile (overlap, raced), *)
(* and of the ingestion that it writes for the row it is at, which is not  *)
(* gone or is raced.  For the searches it says that a row that is done, or *)
(* will be, has its vector, or is condemned by the job at the head.        *)
(*                                                                         *)
(* The graph stores come first: each writes a node with the source it is   *)
(* given (Wrote) and takes nodes away without touching the others (Shrank).*)
(***************************************************************************)
EXTENDS MemoryEngine, FiniteSetTheorems, TLAPS

\* The values of the stores.
RowType == [names : (SUBSET Name) \ {{}}, session : Session, tier : Tier, done : BOOLEAN]
EntryType ==
  [names : SUBSET Name, source : RowId \cup NodeId \cup {NoSource},
   tier : Tier \cup {"none"}, session : Session \cup {"none"}]
Plain == [type : {"Entity"}, name : Name, session : Session, source : RowId \cup {NoSource}]
Labelled ==
  [type : {"Entity"}, name : Name, session : Session, source : RowId \cup {NoSource},
   labels : SUBSET {"Entity"}]
NodeValue == Plain \cup Labelled

IsGraph(g, kind) ==
  /\ "node" \in DOMAIN g
  /\ DOMAIN g.node \subseteq NodeId /\ IsFiniteSet(DOMAIN g.node)
  /\ \A n \in DOMAIN g.node :
       g.node[n] \in NodeValue /\ (kind = "neo4j" => g.node[n] \in Labelled)

AreRows(rows) ==
  /\ DOMAIN rows \subseteq RowId /\ IsFiniteSet(DOMAIN rows)
  /\ \A r \in DOMAIN rows : rows[r] \in RowType

AreVectors(vectors) ==
  /\ DOMAIN vectors \subseteq Key /\ IsFiniteSet(DOMAIN vectors)
  /\ \A k \in DOMAIN vectors : vectors[k] \in EntryType

\* The stores have their types.
StoresTyped ==
  /\ stack \in Stacks
  /\ AreRows(row) /\ AreVectors(vec) /\ IsGraph(graph, stack.graph)
  /\ history \subseteq Session \ {""}
  /\ gone \subseteq RowId /\ raced \subseteq gone /\ overlap \subseteq Input

-----------------------------------------------------------------------------
\* The ingestion.
LinkType == [kind : {"fact", "contradicts", "told"}, from : NodeId, to : NodeId]
IngType ==
  [i : 0..Inputs,
   at : {"idle", "store", "split", "parent", "chunk", "doc", "save", "compare", "update",
         "embed", "node", "edges", "complete"},
   offer : Text \cup {NoSource}, left : Seq(Name), met : NodeId \cup {NoSource},
   was : NodeValue \cup {NoSource}, as : {"keep_separate", "update", "ignore", "contradict"},
   edges : SUBSET LinkType]

\* The variables of the ingestion, by where it is.
IngOK ==
  /\ ing \in IngType
  /\ ~At("idle") => ing.i \in Input /\ ing.offer \in Text
  /\ ing.at \in {"compare", "update", "embed", "node"} => ing.left # <<>>
  /\ ing.met = NoSource <=> ing.as = "keep_separate"
  /\ ing.met # NoSource => ing.was \in NodeValue /\ stack.consistent /\ ~At("idle")
  /\ At("update") => ing.as = "update"
  /\ At("compare") => stack.consistent

\* The rows there are or were, and what the ingestion has still to write.
RowsOK ==
  /\ gone \cap DOMAIN row = {}
  /\ \A r \in DOMAIN row \cup gone :
       r[1] <= ing.i /\ (r[1] = ing.i => ~At("store") /\ (At("split") => r[2] = "input"))
  /\ ing.at \notin {"idle", "store", "split"} => Chunk \in DOMAIN row \cup gone
  /\ \A r \in DOMAIN row :
       /\ ~At("idle") /\ r[1] = ing.i =>
            /\ row[r].names = ing.offer.names
            /\ row[r].session = ing.offer.session /\ row[r].tier = ing.offer.tier
       /\ row[r].done => r[2] = "chunk" /\ (r[1] = ing.i => At("idle"))

\* The rows that are gone and were not written again meanwhile.
Lost == gone \ raced
\* Redis does not find nodes by their source.
Findable == stack.graph # "redis"

\* The vectors of rows are of rows there are or of raced ones, and of their session.
VecOK ==
  \A k \in DOMAIN vec : k.kind # "entity" =>
    /\ k.of \in DOMAIN row \cup gone /\ k.of \notin Lost
    /\ k.of \in DOMAIN row => vec[k].session = row[k.of].session

\* Nor has a lost row a node, and the ingestion brings none back.
LostOK ==
  /\ Findable => \A n \in DOMAIN graph.node : graph.node[n].source \notin Lost
  /\ \A r \in Lost : r[1] = ing.i => At("idle")
  /\ ing.met # NoSource /\ Findable => ing.was.source \notin Lost

\* What was ingested while a call of the client was under way.
OverlapOK ==
  IF client.jobs = <<>> THEN overlap = {} ELSE ~At("idle") => ing.i \in overlap

-----------------------------------------------------------------------------
\* The client.
\* The calls about the traces of one row, and those about the nodes found by them.
Its(r) == {Call("find", r), Call("vec", Vector(r, "doc")), Call("vec", Vector(r, "chunk"))}
NodeCalls == {Call("node", n) : n \in NodeId}
SessionCalls == {Call("list", NoSource), Call("graph", NoSource), Call("messages", NoSource)}
RequestCalls ==
  [op : {"ensure", "embed", "tell", "entity", "similar", "node"}, id : NodeId]
    \cup [op : {"link", "relate"}, id : LinkType \cup {NoSource}]
CallType ==
  [op : {"check", "find", "vec", "node", "row", "list", "graph", "messages", "rows",
         "ensure", "embed", "tell", "entity", "similar", "link", "relate"},
   id : RowId \cup NodeId \cup Key \cup LinkType \cup {NoSource}]
ClientType == [session : Session, jobs : Seq(Seq(CallType)), ends : Seq(NodeId)]

Has(job, call) == \E p \in 1..Len(job) : job[p] = call
Of(job) == job[Len(job)].id
\* A job that ends with its row, or with the rows of its session.
Deleting(job) == job[Len(job)].op = "row"
Wiping(job) == job[Len(job)].op = "rows"

\* A deletion: the owner is checked first, if at all, then the traces of one row go.
DeletionForm(job) ==
  /\ Of(job) \in RowId \cup NodeId
  /\ \A p \in 1..Len(job) - 1 : job[p] \in {Call("check", Of(job))} \cup Its(Of(job)) \cup NodeCalls
  /\ \A p \in 2..Len(job) : job[p].op # "check"

\* The wiping of a session: the listings, and the traces of rows of the session only.
WipeForm(job) ==
  \A p \in 1..Len(job) - 1 :
    job[p] \in SessionCalls \cup NodeCalls \/ \E r \in OfSession : job[p] \in Its(r)

\* The jobs of a request that is no deletion.
RequestForm(job) == \A p \in 1..Len(job) : job[p] \in RequestCalls

Form(job) ==
  /\ job # <<>>
  /\ Deleting(job) => DeletionForm(job)
  /\ Wiping(job) => WipeForm(job)
  /\ ~Deleting(job) /\ ~Wiping(job) => RequestForm(job)

\* Not touched by an ingestion since the call began.
Unraced(r) == r[1] \notin overlap /\ (stack.consistent => overlap = {})

\* Each trace of the row that is still there has its call in the job.
Covered(job, r) ==
  /\ \A kind \in {"doc", "chunk"} :
       Vector(r, kind) \in DOMAIN vec => Has(job, Call("vec", Vector(r, kind)))
  /\ Findable => \A n \in DOMAIN graph.node :
       graph.node[n].source = r => Has(job, Call("find", r)) \/ Has(job, Call("node", n))

\* Hence the row of a deletion that met no ingestion goes after all its traces.
DeletionCovers(job) ==
  Deleting(job) /\ Of(job) \in RowId /\ Unraced(Of(job)) => Covered(job, Of(job))

\* So do the rows of a session, its nodes and its messages, once they were listed.
WipeCovers(job) ==
  Wiping(job) =>
    /\ ~Has(job, Call("list", NoSource)) => \A r \in OfSession : Unraced(r) => Covered(job, r)
    /\ overlap = {} /\ Findable /\ ~Has(job, Call("graph", NoSource)) =>
         \A n \in DOMAIN graph.node : graph.node[n].session # client.session
    /\ ~Has(job, Call("messages", NoSource)) => client.session \notin history

\* The owner is still to be checked.
Checked(job) == Deleting(job) /\ client.session # "" => job[1].op = "check"

\* The job that is being done, and those that wait.
HeadOK(job) ==
  /\ Form(job) /\ DeletionCovers(job) /\ WipeCovers(job)
  /\ Checked(job) \/ Of(job) \in OfSession

LaterOK(job) == Form(job) /\ ~Wiping(job) /\ DeletionCovers(job) /\ Checked(job)

JobsOK ==
  /\ client \in ClientType
  /\ client.jobs # <<>> => HeadOK(client.jobs[1])
  /\ \A j \in 2..Len(client.jobs) : LaterOK(client.jobs[j])

-----------------------------------------------------------------------------
\* What a search finds.
\* The row is being deleted: its vectors may be gone already.
Condemned(r) ==
  /\ client.jobs # <<>>
  /\ LET job == client.jobs[1]
     IN  \/ Deleting(job) /\ Of(job) = r /\ job[1].op # "check"
         \/ Wiping(job) /\ r \in OfSession

\* The vector of the row has its words, its id and its tier.
Embedded(r) ==
  LET k == Vector(r, "chunk")
  IN  k \in DOMAIN vec /\ vec[k].names = row[r].names /\ vec[k].source = r /\ vec[k].tier = row[r].tier

\* The ingestion has embedded this row.
Past(r) ==
  r = Chunk /\ ing.at \in {"doc", "save", "compare", "update", "embed", "node", "edges", "complete"}

\* A row that is or will be marked as done has its vector, or could not be embedded.
FoundOK ==
  \A r \in DOMAIN row : row[r].done \/ Past(r) => r \in blind \/ Embedded(r) \/ Condemned(r)

MemoryInv ==
  /\ StoresTyped /\ IngOK /\ RowsOK /\ VecOK /\ LostOK /\ OverlapOK /\ JobsOK /\ FoundOK

\* A set of natural numbers that is not empty has a least one.
LEMMA LeastNat ==
  ASSUME NEW S, S \subseteq Nat, S # {}
  PROVE  \E n \in S : \A m \in S : n <= m
<1> DEFINE R == {ss \in Nat \X Nat : ss[1] < ss[2]}
<1>1. IsWellFoundedOn(R, Nat)
  BY NatLessThanWellFounded DEF OpToRel
<1>2. PICK x \in S : \A y \in S : <<y, x>> \notin R
  <2> HIDE DEF R
  <2> QED  BY <1>1, WFMin
<1>3. ASSUME NEW y \in S
      PROVE  x <= y
  <2>1. ~(y < x)
    BY <1>2
  <2> QED  BY <2>1
<1> QED  BY <1>3

\* The names the extraction may yield are a sequence of names.
LEMMA NamesListed == NameSeq \in Seq(Name)
  BY EngineAssumption

\* What is listed are names.
LEMMA ListedIs ==
  ASSUME NEW names
  PROVE  Listed(names) \in Seq(Name)
<1> DEFINE N == Len(NameSeq)
           Grown(before, k) ==
             IF NameSeq[k] \in names THEN Append(before, NameSeq[k]) ELSE before
           Good(f, n) == /\ f \in [0..n -> Seq(Name)]
                         /\ f[0] = <<>>
                         /\ \A k \in 1..n : f[k] = Grown(f[k - 1], k)
           Bad == {n \in 0..N : ~\E f : Good(f, n)}
<1>1. N \in Nat /\ \A i \in 1..N : NameSeq[i] \in Name
  BY NamesListed
<1>2. Bad = {}
  <2>1. SUFFICES ASSUME Bad # {}
                 PROVE  FALSE
    OBVIOUS
  <2>2. PICK n \in Bad : \A m \in Bad : n <= m
    <3>1. Bad \subseteq Nat
      BY <1>1
    <3> HIDE DEF Bad
    <3> QED  BY <2>1, <3>1, LeastNat
  <2>3. CASE n = 0
    <3>1. Good([k \in 0..0 |-> <<>>], 0)
      OBVIOUS
    <3> HIDE DEF Good
    <3> QED  BY <2>3, <3>1
  <2>4. CASE n # 0
    <3>1. n - 1 \in 0..N /\ n - 1 \notin Bad /\ n \in 1..N
      <4>1. n \in 0..N
        OBVIOUS
      <4> HIDE DEF Bad
      <4>2. n - 1 \in 0..N /\ n \in 1..N
        BY <4>1, <2>4, <1>1
      <4>3. n - 1 \notin Bad
        BY <4>1, <4>2, <2>2
      <4> QED  BY <4>2, <4>3
    <3>2. PICK f : Good(f, n - 1)
      <4> HIDE DEF Good
      <4> QED  BY <3>1
    <3> DEFINE after == Grown(f[n - 1], n)
               g == [k \in 0..n |-> IF k = n THEN after ELSE f[k]]
    <3>3. f[n - 1] \in Seq(Name)
      <4>1. n - 1 \in 0..(n - 1)
        BY <3>1
      <4>2. f \in [0..(n - 1) -> Seq(Name)]
        BY <3>2
      <4> QED  BY <4>1, <4>2
    <3>4. after \in Seq(Name)
      BY <3>1, <3>3, <1>1
    <3>5. Good(g, n)
      <4> HIDE DEF after, Grown
      <4>1. g \in [0..n -> Seq(Name)] /\ g[0] = <<>>
        <5>1. f \in [0..(n - 1) -> Seq(Name)] /\ f[0] = <<>> /\ 0 \in 0..(n - 1) /\ n # 0
          BY <3>1, <3>2
        <5>2. \A k \in 0..n : k = n \/ k \in 0..(n - 1)
          BY <3>1
        <5> QED  BY <5>1, <5>2, <3>4
      <4>2. ASSUME NEW k \in 1..n
            PROVE  g[k] = Grown(g[k - 1], k)
        <5>1. CASE k = n
          <6>1. g[k] = after /\ g[k - 1] = f[n - 1]
            BY <5>1, <3>1
          <6> QED  BY <6>1, <5>1 DEF after
        <5>2. CASE k # n
          <6>1. k \in 1..(n - 1) /\ g[k] = f[k] /\ g[k - 1] = f[k - 1]
            BY <5>2, <3>1, SMTT(30)
          <6> QED  BY <6>1, <3>2
        <5> QED  BY <5>1, <5>2
      <4> QED  BY <4>1, <4>2
    <3> HIDE DEF Good, g
    <3> QED  BY <3>5
  <2> QED  BY <2>3, <2>4
<1>3. PICK f : Good(f, N)
  <2>1. N \in 0..N
    BY <1>1
  <2> HIDE DEF Good, N
  <2> QED  BY <2>1, <1>2
<1> DEFINE Steps(h) == h = [n \in 0..N |->
             IF n = 0 THEN <<>> ELSE Grown(h[n - 1], n)]
           list == CHOOSE h : Steps(h)
<1>4. Steps(f)
  <2>1. f \in [0..N -> Seq(Name)] /\ f[0] = <<>> /\ \A k \in 1..N : f[k] = Grown(f[k - 1], k)
    BY <1>3
  <2> HIDE DEF Grown, N
  <2> QED  BY <2>1, <1>1
<1>5. Steps(list)
  <2> HIDE DEF Steps
  <2> QED  BY <1>4
<1>6. Listed(names) = list[N]
  BY DEF Listed
<1> HIDE DEF list
<1>7. \A k \in 1..N : list[k] = Grown(list[k - 1], k) /\ f[k] = Grown(f[k - 1], k)
  <2>1. list = [n \in 0..N |->
             IF n = 0 THEN <<>> ELSE Grown(list[n - 1], n)]
    BY <1>5
  <2>2. \A k \in 1..N : f[k] = Grown(f[k - 1], k)
    BY <1>3
  <2> HIDE DEF Grown, N
  <2> QED  BY <2>1, <2>2, <1>1
<1>8. list[0] = <<>> /\ f[0] = <<>>
  BY <1>1, <1>3, <1>5
<1>9. \A k \in 0..N : list[k] = f[k]
  <2> DEFINE Off == {k \in 0..N : list[k] # f[k]}
  <2>1. SUFFICES ASSUME Off # {}
                 PROVE  FALSE
    OBVIOUS
  <2>2. PICK n \in Off : \A m \in Off : n <= m
    <3>1. Off \subseteq Nat
      BY <1>1
    <3> HIDE DEF Off
    <3> QED  BY <2>1, <3>1, LeastNat
  <2>3. n # 0
    BY <1>8, <2>2
  <2>4. n - 1 \in 0..N /\ n - 1 \notin Off /\ n \in 1..N
    BY <1>1, <2>2, <2>3
  <2>5. list[n - 1] = f[n - 1] /\ list[n] # f[n]
    BY <2>2, <2>4
  <2> HIDE DEF Grown
  <2> QED  BY <1>7, <2>4, <2>5
<1> QED  BY <1>1, <1>3, <1>6, <1>9

\* A finite set as a sequence has all its members.
LEMMA InSequence ==
  ASSUME NEW S, IsFiniteSet(S)
  PROVE  /\ SetToSeq(S) \in Seq(S)
         /\ \A x \in S : \E k \in 1..Len(SetToSeq(S)) : SetToSeq(S)[k] = x
<1> DEFINE D == 1..Cardinality(S)
           order == SetToSeq(S)
<1>1. Cardinality(S) \in Nat
  BY FS_CardinalityType
<1>2. PICK f \in Bijection(D, S) : TRUE
  BY FS_CardinalityType DEF ExistsBijection
<1>3. f \in [D -> S] /\ IsInjective(f)
  BY <1>2 DEF Bijection, Injection, IsInjective
<1>4. order \in [D -> S] /\ IsInjective(order)
  BY <1>3 DEF SetToSeq
<1> HIDE DEF order
<1>5. order \in Seq(S) /\ Len(order) = Cardinality(S) /\ DOMAIN order = D
  BY <1>1, <1>4
<1>6. ASSUME NEW x \in S
      PROVE  \E k \in 1..Len(order) : order[k] = x
  <2>1. SUFFICES ASSUME \A k \in D : order[k] # x
                 PROVE  FALSE
    BY <1>5
  <2>2. order \in [D -> S \ {x}]
    BY <2>1, <1>4
  <2>3. IsFiniteSet(S \ {x}) /\ Cardinality(S \ {x}) = Cardinality(S) - 1
    BY FS_RemoveElement
  <2>4. IsFiniteSet(D) /\ Cardinality(D) = Cardinality(S)
    <3>1. 1 \in Int /\ Cardinality(S) \in Int
      BY <1>1
    <3> QED  BY <1>1, <3>1, FS_Interval
  <2>5. PICK i, j \in D : i # j /\ order[i] = order[j]
    BY <2>2, <2>3, <2>4, <1>1, FS_PigeonHole
  <2> QED  BY <2>5, <1>4 DEF IsInjective
<1> QED  BY <1>5, <1>6 DEF order

\* The same, as calls.
LEMMA CallsIs ==
  ASSUME NEW op, NEW S, IsFiniteSet(S), NEW T, \A x \in S : Call(op, x) \in T
  PROVE  /\ Calls(op, S) \in Seq(T)
         /\ \A p \in 1..Len(Calls(op, S)) : \E x \in S : Calls(op, S)[p] = Call(op, x)
         /\ \A x \in S : Has(Calls(op, S), Call(op, x))
<1> DEFINE ids == SetToSeq(S)
<1>1. ids \in Seq(S) /\ \A x \in S : \E k \in 1..Len(ids) : ids[k] = x
  BY InSequence
<1>2. Calls(op, S) = [k \in DOMAIN ids |-> Call(op, ids[k])]
  BY DEF Calls
<1> HIDE DEF ids
<1>3. DOMAIN ids = 1..Len(ids) /\ Len(ids) \in Nat /\ \A k \in 1..Len(ids) : ids[k] \in S
  BY <1>1
<1> DEFINE calls == [k \in 1..Len(ids) |-> Call(op, ids[k])]
<1>4. calls \in Seq(T) /\ Len(calls) = Len(ids)
  BY <1>3
<1>5. Calls(op, S) = calls
  BY <1>2, <1>3
<1>6. \A k \in 1..Len(ids) : calls[k] = Call(op, ids[k])
  OBVIOUS
<1> HIDE DEF calls
<1> QED  BY <1>1, <1>3, <1>4, <1>5, <1>6 DEF Has

\* The inputs are counted from 1, as far as there are any.
LEMMA InputsAre == Inputs \in Nat
  BY EngineAssumption

\* What is told and what is related have numbers no input has.
LEMMA Asked == Told \in Nat \ 0..Inputs /\ Related \in Nat \ 0..Inputs
  BY EngineAssumption

\* What stands for no source.
LEMMA NoRow == NoSource = <<0, "none">>
  BY EngineAssumption

\* The global session is one of the sessions.
LEMMA GlobalSession == "" \in Session
  BY EngineAssumption

\* What each input may be offered as.
LEMMA OffersAre == Offers \in [Input -> SUBSET Text]
  BY EngineAssumption

\* What a request may be: a pair of names to relate, or none, and names to forget.
LEMMA RequestsAre ==
  ASSUME NEW q \in Requests
  PROVE  /\ q.session \in Session /\ q.relate \in {<<>>} \cup (Name \X Name)
         /\ q.forget \in Seq(Name)
  BY EngineAssumption

\* The configurations there are.
LEMMA StacksAre ==
  ASSUME NEW s \in Stacks
  PROVE  /\ s.graph \in {"inmemory", "sqlite", "redis", "neo4j"}
         /\ s.vector \in {"inmemory", "sqlite", "redis", "qdrant"}
         /\ s.consistent \in BOOLEAN
  BY EngineAssumption

\* What has no source has neither a row nor a node.
LEMMA NoSourceIs ==
  /\ NoSource \notin RowId /\ NoSource \notin NodeId
  /\ \A i \in Input : <<i, "input">> \in RowId /\ <<i, "chunk">> \in RowId
  /\ \A i \in Input \cup {Told, Related}, name \in Name : <<i, name>> \in NodeId
<1>1. NoSource \notin RowId
  BY NoRow DEF RowId, Input
<1>2. NoSource \notin NodeId
  <2>1. 0 \notin Input \cup {Told, Related}
    <3>1. 0 \in 0..Inputs
      BY InputsAre
    <3>2. Told # 0 /\ Related # 0
      BY <3>1, Asked
    <3> QED  BY <3>2 DEF Input
  <2>2. NoSource[1] = 0
    BY NoRow
  <2> QED  BY <2>1, <2>2 DEF NodeId
<1>3. \A i \in Input : <<i, "input">> \in RowId /\ <<i, "chunk">> \in RowId
  BY DEF RowId
<1>4. \A i \in Input \cup {Told, Related}, name \in Name : <<i, name>> \in NodeId
  BY DEF NodeId
<1> QED  BY <1>1, <1>2, <1>3, <1>4

\* A node with another name and source, or another session, is one.
LEMMA NodesAre ==
  /\ \A name \in Name, session \in Session, source \in RowId \cup {NoSource} :
       /\ Node(name, session, source) \in NodeValue
       /\ Node(name, session, source).source = source
  /\ \A v \in NodeValue, name \in Name, source \in RowId \cup {NoSource} :
       /\ [v EXCEPT !.name = name, !.source = source] \in NodeValue
       /\ [v EXCEPT !.name = name, !.source = source].source = source
  /\ \A v \in NodeValue, session \in Session :
       /\ [v EXCEPT !.session = session] \in NodeValue
       /\ [v EXCEPT !.session = session].source = v.source
  BY DEF Node, NodeValue, Plain, Labelled

-----------------------------------------------------------------------------
\* The graph stores: what each operation leaves of the nodes.

\* At most the node n is another than before, and it has the source it was
\* given, or with none the one it had.
Wrote(g, before, kind, n, source) ==
  /\ IsGraph(g, kind)
  /\ \A m \in DOMAIN g.node : m # n => m \in DOMAIN before.node /\ g.node[m] = before.node[m]
  /\ n \in DOMAIN g.node =>
       \/ g.node[n].source = source
       \/ /\ source = NoSource /\ n \in DOMAIN before.node
          /\ g.node[n].source = before.node[n].source

\* Some nodes went.
Shrank(g, before, kind) ==
  /\ IsGraph(g, kind)
  /\ \A m \in DOMAIN g.node : m \in DOMAIN before.node /\ g.node[m] = before.node[m]

\* A node that is put into a graph leaves a graph, and the other nodes.
LEMMA PutNode ==
  ASSUME NEW kind, NEW g, IsGraph(g, kind), NEW n \in NodeId, NEW v \in NodeValue,
         kind = "neo4j" => v \in Labelled,
         NEW h, "node" \in DOMAIN h, h.node = Put(g.node, n, v)
  PROVE  /\ IsGraph(h, kind) /\ h.node[n] = v
         /\ \A m \in DOMAIN h.node : m # n => m \in DOMAIN g.node /\ h.node[m] = g.node[m]
<1>1. /\ DOMAIN h.node = DOMAIN g.node \cup {n} /\ h.node[n] = v
      /\ \A m \in DOMAIN g.node : m # n => h.node[m] = g.node[m]
  BY DEF Put
<1>2. IsFiniteSet(DOMAIN g.node) /\ DOMAIN g.node \subseteq NodeId
  BY DEF IsGraph
<1>3. IsFiniteSet(DOMAIN h.node)
  BY <1>1, <1>2, FS_AddElement
<1>4. IsGraph(h, kind)
  BY <1>1, <1>2, <1>3 DEF IsGraph
<1> QED  BY <1>1, <1>4

\* A graph with some of its nodes only is one.
LEMMA SomeNodes ==
  ASSUME NEW kind, NEW g, IsGraph(g, kind), NEW h, "node" \in DOMAIN h,
         NEW S, S \subseteq DOMAIN g.node, h.node = [n \in S |-> g.node[n]]
  PROVE  Shrank(h, g, kind)
<1>1. IsFiniteSet(S)
  BY FS_Subset DEF IsGraph
<1> QED  BY <1>1 DEF IsGraph, Shrank

\* A node is stored.
LEMMA InMemoryStores ==
  ASSUME NEW g, IsGraph(g, "inmemory"), NEW n \in NodeId, NEW v \in NodeValue
  PROVE  /\ Wrote(IM!StoreNode(g, n, v), g, "inmemory", n, v.source)
         /\ Wrote(IM!UpdateNode(g, n, v), g, "inmemory", n, v.source)
<1>1. ASSUME NEW h, "node" \in DOMAIN h, h.node = Put(g.node, n, v)
      PROVE  Wrote(h, g, "inmemory", n, v.source)
  BY <1>1, PutNode DEF Wrote
<1>2. "node" \in DOMAIN g
  BY DEF IsGraph
<1>3. Wrote(IM!StoreNode(g, n, v), g, "inmemory", n, v.source)
  <2> DEFINE h == IM!StoreNode(g, n, v)
  <2>1. "node" \in DOMAIN h /\ h.node = Put(g.node, n, v)
    BY <1>2 DEF IM!StoreNode, IM!Put, Put
  <2> QED  BY <2>1, <1>1
<1>4. CASE n \in DOMAIN g.node
  <2> DEFINE h == IM!UpdateNode(g, n, v)
  <2>1. h = [g EXCEPT !.node = [g.node EXCEPT ![n] = v]]
    BY <1>4 DEF IM!UpdateNode
  <2>2. [g.node EXCEPT ![n] = v] = Put(g.node, n, v)
    BY <1>4 DEF Put
  <2>3. "node" \in DOMAIN h /\ h.node = Put(g.node, n, v)
    BY <1>2, <2>1, <2>2
  <2> QED  BY <2>3, <1>1, <1>3
<1>5. CASE n \notin DOMAIN g.node
  BY <1>3, <1>5 DEF IM!UpdateNode, Wrote
<1> QED  BY <1>4, <1>5, <1>3

\* SQLite stores or replaces the node, with the row it came from.
LEMMA SQLiteStores ==
  ASSUME NEW g, IsGraph(g, "sqlite"), NEW n \in NodeId, NEW v \in NodeValue
  PROVE  /\ Wrote(SQ!StoreNode(g, n, v), g, "sqlite", n, v.source)
         /\ Wrote(SQ!UpdateNode(g, n, v), g, "sqlite", n, v.source)
<1>1. "node" \in DOMAIN g
  BY DEF IsGraph
<1> DEFINE h == SQ!StoreNode(g, n, v)
<1>2. "node" \in DOMAIN h /\ h.node = Put(g.node, n, v)
  BY <1>1 DEF SQ!StoreNode, SQ!Put, Put
<1>3. SQ!UpdateNode(g, n, v) = h
  BY DEF SQ!UpdateNode
<1> HIDE DEF h
<1>4. Wrote(h, g, "sqlite", n, v.source)
  BY <1>2, PutNode DEF Wrote
<1> QED  BY <1>3, <1>4 DEF h

\* So does Redis, where the indexes of names and types change with it.
LEMMA RedisStores ==
  ASSUME NEW g, IsGraph(g, "redis"), NEW n \in NodeId, NEW v \in NodeValue
  PROVE  /\ Wrote(RD!StoreNode(g, n, v), g, "redis", n, v.source)
         /\ Wrote(RD!UpdateNode(g, n, v), g, "redis", n, v.source)
<1>1. "node" \in DOMAIN g
  BY DEF IsGraph
<1> DEFINE h == RD!StoreNode(g, n, v)
<1>2. "node" \in DOMAIN h /\ h.node = Put(g.node, n, v)
  BY <1>1 DEF RD!StoreNode, RD!Put, Put
<1>3. RD!UpdateNode(g, n, v) = h
  BY DEF RD!UpdateNode
<1> HIDE DEF h
<1>4. Wrote(h, g, "redis", n, v.source)
  BY <1>2, PutNode DEF Wrote
<1> QED  BY <1>3, <1>4 DEF h

\* So does Neo4j, that keeps the labels of the node.
LEMMA Neo4jStores ==
  ASSUME NEW g, IsGraph(g, "neo4j"), NEW n \in NodeId, NEW v \in NodeValue
  PROVE  /\ Wrote(NJ!StoreNode(g, n, v), g, "neo4j", n, v.source)
         /\ Wrote(NJ!UpdateNode(g, n, v), g, "neo4j", n, v.source)
<1>1. "node" \in DOMAIN g
  BY DEF IsGraph
<1> DEFINE h == NJ!StoreNode(g, n, v)
           old == g.node[n]
           new == [type |-> v.type, name |-> v.name, session |-> v.session,
                   source |-> v.source, labels |-> {v.type}]
           merged == [new EXCEPT !.labels = @ \cup old.labels,
                                 !.source = IF @ = NoSource THEN old.source ELSE @]
           value == IF n \in DOMAIN g.node THEN merged ELSE new
<1>2. "node" \in DOMAIN h /\ h.node = Put(g.node, n, value)
  BY <1>1 DEF NJ!StoreNode, NJ!Put, Put
<1>3. NJ!UpdateNode(g, n, v) = h
  BY DEF NJ!UpdateNode
<1>4. new \in Labelled /\ new.source = v.source
  BY DEF NodeValue, Plain, Labelled
<1>5. ASSUME n \in DOMAIN g.node
      PROVE  /\ merged \in Labelled
             /\ \/ merged.source = v.source
                \/ v.source = NoSource /\ merged.source = g.node[n].source
  <2>1. old \in Labelled
    BY <1>5 DEF IsGraph
  <2> DEFINE source == IF v.source = NoSource THEN old.source ELSE v.source
  <2>2. merged = [new EXCEPT !.labels = new.labels \cup old.labels, !.source = source]
    <3>1. [new EXCEPT !.labels = new.labels \cup old.labels].source = v.source
      OBVIOUS
    <3> QED  BY <3>1
  <2>3. /\ source \in RowId \cup {NoSource} /\ v.type = "Entity" /\ v.name \in Name
        /\ v.session \in Session /\ old.labels \subseteq {"Entity"}
    BY <2>1 DEF NodeValue, Plain, Labelled
  <2> HIDE DEF old
  <2>4. merged \in Labelled /\ merged.source = source
    <3>1. new.labels \cup old.labels \in SUBSET {"Entity"}
      BY <2>3
    <3>2. source \in RowId \cup {NoSource}
      BY <2>3
    <3> DEFINE L == new.labels \cup old.labels
    <3>3. merged = [new EXCEPT !.labels = L, !.source = source]
      BY <2>2
    <3>4. L \in SUBSET {"Entity"} /\ new \in Labelled
      BY <3>1, <1>4
    <3> HIDE DEF source, merged, new, L
    <3>5. /\ [new EXCEPT !.labels = L, !.source = source] \in Labelled
          /\ [new EXCEPT !.labels = L, !.source = source].source = source
      BY <3>2, <3>4 DEF Labelled
    <3> QED  BY <3>3, <3>5
  <2> QED  BY <2>4 DEF old
<1>6. value \in Labelled /\ value \in NodeValue
  BY <1>4, <1>5 DEF NodeValue
<1>7. \/ value.source = v.source
      \/ v.source = NoSource /\ n \in DOMAIN g.node /\ value.source = g.node[n].source
  BY <1>4, <1>5
<1> HIDE DEF h, value
<1>8. Wrote(h, g, "neo4j", n, v.source)
  <2>1. /\ IsGraph(h, "neo4j") /\ h.node[n] = value
        /\ \A m \in DOMAIN h.node : m # n => m \in DOMAIN g.node /\ h.node[m] = g.node[m]
    BY <1>2, <1>6, PutNode
  <2> QED  BY <2>1, <1>7 DEF Wrote
<1> QED  BY <1>3, <1>8 DEF h

\* The records the stores keep their nodes in.
LEMMA RecordsOfNodes ==
  ASSUME NEW a, NEW b, NEW c, NEW d
  PROVE  /\ "node" \in DOMAIN [node |-> a, edge |-> b, out |-> c, in |-> d]
         /\ [node |-> a, edge |-> b, out |-> c, in |-> d].node = a
         /\ "node" \in DOMAIN [node |-> a, edge |-> b] /\ [node |-> a, edge |-> b].node = a
         /\ "node" \in DOMAIN [node |-> a, rel |-> b] /\ [node |-> a, rel |-> b].node = a
  OBVIOUS

\* A node is deleted, or those of a session are.
LEMMA InMemoryDeletes ==
  ASSUME NEW g, IsGraph(g, "inmemory"), NEW n, NEW s
  PROVE  /\ Shrank(IM!DeleteNode(g, n), g, "inmemory")
         /\ n \notin DOMAIN IM!DeleteNode(g, n).node
         /\ Shrank(IM!DeleteGraphBySessionID(g, s), g, "inmemory")
         /\ LET h == IM!DeleteGraphBySessionID(g, s)
            IN  \A m \in DOMAIN h.node : h.node[m].session # s
<1>1. ASSUME n \in DOMAIN g.node
      PROVE  Shrank(IM!DeleteNode(g, n), g, "inmemory") /\ n \notin DOMAIN IM!DeleteNode(g, n).node
  <2> DEFINE h == IM!DeleteNode(g, n)
             S == DOMAIN g.node \ {n}
  <2>1. "node" \in DOMAIN h /\ h.node = [m \in S |-> g.node[m]]
    <3>1. PICK nodes, edges, outs, ins : h = [node |-> nodes, edge |-> edges, out |-> outs, in |-> ins] /\ nodes = Restrict(g.node, S)
      BY <1>1 DEF IM!DeleteNode, IM!Without, IM!Restrict, Restrict
    <3>2. "node" \in DOMAIN h /\ h.node = nodes
      <4> HIDE DEF h
      <4> QED  BY <3>1, RecordsOfNodes
    <3> QED  BY <3>1, <3>2 DEF Restrict
  <2>2. Shrank(h, g, "inmemory")
    <3> HIDE DEF h
    <3> QED  BY <2>1, SomeNodes
  <2> HIDE DEF h
  <2>3. n \notin S /\ DOMAIN h.node = S
    BY <2>1 DEF S
  <2> HIDE DEF S
  <2>4. Shrank(h, g, "inmemory") /\ n \notin DOMAIN h.node
    BY <2>2, <2>3
  <2> QED  BY <2>4 DEF h
<1>2. ASSUME n \notin DOMAIN g.node
      PROVE  Shrank(IM!DeleteNode(g, n), g, "inmemory") /\ n \notin DOMAIN IM!DeleteNode(g, n).node
  <2>1. IM!DeleteNode(g, n) = g
    BY <1>2 DEF IM!DeleteNode, IM!Restrict, Restrict
  <2>2. Shrank(g, g, "inmemory")
    BY DEF Shrank
  <2> QED  BY <1>2, <2>1, <2>2
<1>3. LET h == IM!DeleteGraphBySessionID(g, s)
      IN  /\ Shrank(h, g, "inmemory")
          /\ \A m \in DOMAIN h.node : h.node[m].session # s
  <2> DEFINE h == IM!DeleteGraphBySessionID(g, s)
             S == DOMAIN g.node \ {m \in DOMAIN g.node : g.node[m].session = s}
  <2>1. "node" \in DOMAIN h /\ h.node = [m \in S |-> g.node[m]]
    <3>1. PICK nodes, edges, outs, ins : h = [node |-> nodes, edge |-> edges, out |-> outs, in |-> ins] /\ nodes = Restrict(g.node, S)
      BY DEF IM!DeleteGraphBySessionID, IM!Without, IM!Restrict, Restrict
    <3>2. "node" \in DOMAIN h /\ h.node = nodes
      <4> HIDE DEF h
      <4> QED  BY <3>1, RecordsOfNodes
    <3> QED  BY <3>1, <3>2 DEF Restrict
  <2>2. Shrank(h, g, "inmemory") /\ \A m \in DOMAIN h.node : h.node[m].session # s
    <3> HIDE DEF h
    <3> QED  BY <2>1, SomeNodes
  <2> QED  BY <2>2
<1> QED  BY <1>1, <1>2, <1>3

\* SQLite deletes the rows of the tables of nodes and edges.
LEMMA SQLiteDeletes ==
  ASSUME NEW g, IsGraph(g, "sqlite"), NEW n, NEW s
  PROVE  /\ Shrank(SQ!DeleteNode(g, n), g, "sqlite")
         /\ n \notin DOMAIN SQ!DeleteNode(g, n).node
         /\ Shrank(SQ!DeleteGraphBySessionID(g, s), g, "sqlite")
         /\ LET h == SQ!DeleteGraphBySessionID(g, s)
            IN  \A m \in DOMAIN h.node : h.node[m].session # s
<1>1. /\ Shrank(SQ!DeleteNode(g, n), g, "sqlite")
      /\ n \notin DOMAIN SQ!DeleteNode(g, n).node
  <2> DEFINE h == SQ!DeleteNode(g, n)
             S == DOMAIN g.node \ {n}
  <2>1. "node" \in DOMAIN h /\ h.node = [m \in S |-> g.node[m]]
    <3>1. PICK nodes, edges : h = [node |-> nodes, edge |-> edges] /\ nodes = Restrict(g.node, S)
      BY DEF SQ!DeleteNode, SQ!Keep, SQ!Restrict, Restrict
    <3>2. "node" \in DOMAIN h /\ h.node = nodes
      <4> HIDE DEF h
      <4> QED  BY <3>1, RecordsOfNodes
    <3> QED  BY <3>1, <3>2 DEF Restrict
  <2>2. Shrank(h, g, "sqlite")
    <3> HIDE DEF h
    <3> QED  BY <2>1, SomeNodes
  <2> QED  BY <2>1, <2>2
<1>2. LET h == SQ!DeleteGraphBySessionID(g, s)
      IN  /\ Shrank(h, g, "sqlite")
          /\ \A m \in DOMAIN h.node : h.node[m].session # s
  <2> DEFINE h == SQ!DeleteGraphBySessionID(g, s)
             S == {m \in DOMAIN g.node : g.node[m].session # s}
  <2>1. "node" \in DOMAIN h /\ h.node = [m \in S |-> g.node[m]]
    <3>1. PICK nodes, edges : h = [node |-> nodes, edge |-> edges] /\ nodes = Restrict(g.node, S)
      BY DEF SQ!DeleteGraphBySessionID, SQ!Keep, SQ!Restrict, Restrict
    <3>2. "node" \in DOMAIN h /\ h.node = nodes
      <4> HIDE DEF h
      <4> QED  BY <3>1, RecordsOfNodes
    <3> QED  BY <3>1, <3>2 DEF Restrict
  <2>2. Shrank(h, g, "sqlite") /\ \A m \in DOMAIN h.node : h.node[m].session # s
    <3> HIDE DEF h
    <3> QED  BY <2>1, SomeNodes
  <2> QED  BY <2>2
<1> QED  BY <1>1, <1>2

\* Redis deletes a node; by session it finds none, so nothing is said of those that stay.
LEMMA RedisDeletes ==
  ASSUME NEW g, IsGraph(g, "redis"), NEW n, NEW s
  PROVE  /\ Shrank(RD!DeleteNode(g, n), g, "redis")
         /\ n \notin DOMAIN RD!DeleteNode(g, n).node
         /\ Shrank(RD!DeleteGraphBySessionID(g, s), g, "redis")
<1>1. "node" \in DOMAIN g
  BY DEF IsGraph
<1>2. /\ Shrank(RD!DeleteNode(g, n), g, "redis")
      /\ n \notin DOMAIN RD!DeleteNode(g, n).node
  <2> DEFINE h == RD!DeleteNode(g, n)
             S == DOMAIN g.node \ {n}
  <2>1. "node" \in DOMAIN h /\ h.node = [m \in S |-> g.node[m]]
    <3>1. h = [g EXCEPT !.node = Restrict(g.node, S)]
      BY DEF RD!DeleteNode, RD!Restrict, Restrict
    <3>2. "node" \in DOMAIN h /\ h.node = Restrict(g.node, S)
      <4> DEFINE nodes == Restrict(g.node, S)
      <4> HIDE DEF nodes, h
      <4>1. h = [g EXCEPT !.node = nodes]
        BY <3>1 DEF nodes
      <4>2. "node" \in DOMAIN h /\ h.node = nodes
        BY <4>1, <1>1
      <4> QED  BY <4>2 DEF nodes
    <3> QED  BY <3>2 DEF Restrict
  <2>2. Shrank(h, g, "redis")
    <3> HIDE DEF h
    <3> QED  BY <2>1, SomeNodes
  <2> QED  BY <2>1, <2>2
<1>3. Shrank(RD!DeleteGraphBySessionID(g, s), g, "redis")
  BY DEF RD!DeleteGraphBySessionID, Shrank, RD!Restrict, Restrict
<1> QED  BY <1>2, <1>3

\* Neo4j detaches and deletes the nodes.
LEMMA Neo4jDeletes ==
  ASSUME NEW g, IsGraph(g, "neo4j"), NEW n, NEW s
  PROVE  /\ Shrank(NJ!DeleteNode(g, n), g, "neo4j")
         /\ n \notin DOMAIN NJ!DeleteNode(g, n).node
         /\ Shrank(NJ!DeleteGraphBySessionID(g, s), g, "neo4j")
         /\ LET h == NJ!DeleteGraphBySessionID(g, s)
            IN  \A m \in DOMAIN h.node : h.node[m].session # s
<1>1. ASSUME NEW dead
      PROVE  LET h == NJ!Detach(g, dead)
             IN  Shrank(h, g, "neo4j") /\ DOMAIN h.node = DOMAIN g.node \ dead
  <2> DEFINE h == NJ!Detach(g, dead)
             S == DOMAIN g.node \ dead
  <2>1. "node" \in DOMAIN h /\ h.node = [m \in S |-> g.node[m]]
    <3>1. PICK nodes, rels : h = [node |-> nodes, rel |-> rels] /\ nodes = Restrict(g.node, S)
      BY DEF NJ!Detach, NJ!Restrict, Restrict
    <3>2. "node" \in DOMAIN h /\ h.node = nodes
      <4> HIDE DEF h
      <4> QED  BY <3>1, RecordsOfNodes
    <3> QED  BY <3>1, <3>2 DEF Restrict
  <2>2. Shrank(h, g, "neo4j") /\ DOMAIN h.node = S
    <3> HIDE DEF h
    <3> QED  BY <2>1, SomeNodes
  <2> QED  BY <2>2
<1>2. /\ Shrank(NJ!DeleteNode(g, n), g, "neo4j")
      /\ n \notin DOMAIN NJ!DeleteNode(g, n).node
  BY <1>1 DEF NJ!DeleteNode, NJ!Restrict, Restrict
<1>3. LET h == NJ!DeleteGraphBySessionID(g, s)
      IN  /\ Shrank(h, g, "neo4j")
          /\ \A m \in DOMAIN h.node : h.node[m].session # s
  <2> DEFINE dead == {m \in DOMAIN g.node : g.node[m].session = s}
             h == NJ!Detach(g, dead)
  <2>1. Shrank(h, g, "neo4j") /\ DOMAIN h.node = DOMAIN g.node \ dead
    <3> HIDE DEF dead
    <3> QED  BY <1>1
  <2>2. NJ!DeleteGraphBySessionID(g, s) = h
    BY DEF NJ!DeleteGraphBySessionID, NJ!Restrict, Restrict
  <2> HIDE DEF h
  <2>3. \A m \in DOMAIN h.node : h.node[m].session # s
    BY <2>1 DEF Shrank
  <2> QED  BY <2>1, <2>2, <2>3
<1> QED  BY <1>2, <1>3

\* A relationship leaves the nodes as they are.
LEMMA Connects ==
  ASSUME NEW g, "node" \in DOMAIN g, NEW e, NEW edge
  PROVE  /\ LET h == IM!CreateRelationship(g, e, edge) IN "node" \in DOMAIN h /\ h.node = g.node
         /\ LET h == SQ!CreateRelationship(g, e, edge) IN "node" \in DOMAIN h /\ h.node = g.node
         /\ LET h == RD!CreateRelationship(g, e, edge) IN "node" \in DOMAIN h /\ h.node = g.node
         /\ LET h == NJ!CreateRelationship(g, e, edge) IN "node" \in DOMAIN h /\ h.node = g.node
<1>1. ASSUME NEW x
      PROVE  LET h == [g EXCEPT !.edge = x] IN "node" \in DOMAIN h /\ h.node = g.node
  OBVIOUS
<1>2. ASSUME NEW x, NEW y, NEW z
      PROVE  LET h == [g EXCEPT !.edge = x, !.out = y, !.in = z]
             IN  "node" \in DOMAIN h /\ h.node = g.node
  OBVIOUS
<1>3. ASSUME NEW x
      PROVE  LET h == [g EXCEPT !.rel = x] IN "node" \in DOMAIN h /\ h.node = g.node
  OBVIOUS
<1>4. LET h == IM!CreateRelationship(g, e, edge) IN "node" \in DOMAIN h /\ h.node = g.node
  BY DEF IM!CreateRelationship
<1>5. LET h == SQ!CreateRelationship(g, e, edge) IN "node" \in DOMAIN h /\ h.node = g.node
  BY DEF SQ!CreateRelationship
<1>6. LET h == RD!CreateRelationship(g, e, edge) IN "node" \in DOMAIN h /\ h.node = g.node
  BY DEF RD!CreateRelationship
<1>7. LET h == NJ!CreateRelationship(g, e, edge) IN "node" \in DOMAIN h /\ h.node = g.node
  BY DEF NJ!CreateRelationship
<1> QED  BY <1>4, <1>5, <1>6, <1>7

\* The graph store of the configuration.
LEMMA Stores ==
  ASSUME stack \in Stacks, IsGraph(graph, stack.graph), NEW n \in NodeId, NEW v \in NodeValue
  PROVE  /\ Wrote(StoreNode(n, v), graph, stack.graph, n, v.source)
         /\ Wrote(UpdateNode(n, v), graph, stack.graph, n, v.source)
<1>1. stack.graph \in {"inmemory", "sqlite", "redis", "neo4j"}
  BY StacksAre
<1>2. CASE stack.graph = "inmemory"
  <2>1. StoreNode(n, v) = IM!StoreNode(graph, n, v) /\ UpdateNode(n, v) = IM!UpdateNode(graph, n, v)
    BY <1>2 DEF StoreNode, UpdateNode, Pick
  <2> QED  BY <1>2, <2>1, InMemoryStores
<1>3. CASE stack.graph = "sqlite"
  <2>1. StoreNode(n, v) = SQ!StoreNode(graph, n, v) /\ UpdateNode(n, v) = SQ!UpdateNode(graph, n, v)
    BY <1>3 DEF StoreNode, UpdateNode, Pick
  <2> QED  BY <1>3, <2>1, SQLiteStores
<1>4. CASE stack.graph = "redis"
  <2>1. StoreNode(n, v) = RD!StoreNode(graph, n, v) /\ UpdateNode(n, v) = RD!UpdateNode(graph, n, v)
    BY <1>4 DEF StoreNode, UpdateNode, Pick
  <2> QED  BY <1>4, <2>1, RedisStores
<1>5. CASE stack.graph = "neo4j"
  <2>1. StoreNode(n, v) = NJ!StoreNode(graph, n, v) /\ UpdateNode(n, v) = NJ!UpdateNode(graph, n, v)
    BY <1>5 DEF StoreNode, UpdateNode, Pick
  <2> QED  BY <1>5, <2>1, Neo4jStores
<1> QED  BY <1>1, <1>2, <1>3, <1>4, <1>5

\* The same of the graph store of the configuration, whichever it is.
LEMMA Deletes ==
  ASSUME stack \in Stacks, IsGraph(graph, stack.graph), NEW n, NEW s
  PROVE  /\ Shrank(DeleteNode(n), graph, stack.graph)
         /\ n \notin DOMAIN DeleteNode(n).node
         /\ Shrank(DeleteGraphBySessionID(s), graph, stack.graph)
         /\ Findable => LET h == DeleteGraphBySessionID(s)
                        IN  \A m \in DOMAIN h.node : h.node[m].session # s
<1>1. stack.graph \in {"inmemory", "sqlite", "redis", "neo4j"}
  BY StacksAre
<1>2. CASE stack.graph = "inmemory"
  <2>1. /\ DeleteNode(n) = IM!DeleteNode(graph, n)
        /\ DeleteGraphBySessionID(s) = IM!DeleteGraphBySessionID(graph, s)
    BY <1>2 DEF DeleteNode, DeleteGraphBySessionID, Pick
  <2> QED  BY <1>2, <2>1, InMemoryDeletes
<1>3. CASE stack.graph = "sqlite"
  <2>1. /\ DeleteNode(n) = SQ!DeleteNode(graph, n)
        /\ DeleteGraphBySessionID(s) = SQ!DeleteGraphBySessionID(graph, s)
    BY <1>3 DEF DeleteNode, DeleteGraphBySessionID, Pick
  <2> QED  BY <1>3, <2>1, SQLiteDeletes
<1>4. CASE stack.graph = "redis"
  <2>1. /\ DeleteNode(n) = RD!DeleteNode(graph, n)
        /\ DeleteGraphBySessionID(s) = RD!DeleteGraphBySessionID(graph, s)
    BY <1>4 DEF DeleteNode, DeleteGraphBySessionID, Pick
  <2> QED  BY <1>4, <2>1, RedisDeletes DEF Findable
<1>5. CASE stack.graph = "neo4j"
  <2>1. /\ DeleteNode(n) = NJ!DeleteNode(graph, n)
        /\ DeleteGraphBySessionID(s) = NJ!DeleteGraphBySessionID(graph, s)
    BY <1>5 DEF DeleteNode, DeleteGraphBySessionID, Pick
  <2> QED  BY <1>5, <2>1, Neo4jDeletes
<1> QED  BY <1>1, <1>2, <1>3, <1>4, <1>5

\* A relationship in it leaves the nodes as they are.
LEMMA ConnectIs ==
  ASSUME stack \in Stacks, IsGraph(graph, stack.graph), NEW e, NEW edge
  PROVE  /\ IsGraph(Connect(e, edge), stack.graph)
         /\ Connect(e, edge).node = graph.node
<1>1. stack.graph \in {"inmemory", "sqlite", "redis", "neo4j"}
  BY StacksAre
<1>2. "node" \in DOMAIN graph
  BY DEF IsGraph
<1>3. "node" \in DOMAIN Connect(e, edge) /\ Connect(e, edge).node = graph.node
  <2>1. CASE stack.graph = "inmemory"
    BY <2>1, <1>2, Connects DEF Connect, Pick
  <2>2. CASE stack.graph = "sqlite"
    BY <2>2, <1>2, Connects DEF Connect, Pick
  <2>3. CASE stack.graph = "redis"
    BY <2>3, <1>2, Connects DEF Connect, Pick
  <2>4. CASE stack.graph = "neo4j"
    BY <2>4, <1>2, Connects DEF Connect, Pick
  <2> QED  BY <1>1, <2>1, <2>2, <2>3, <2>4
<1> QED  BY <1>3 DEF IsGraph

\* What the reads return are nodes; those of a source are all found, or with
\* Redis none.
LEMMA Finds ==
  ASSUME stack \in Stacks, NEW r, NEW name, NEW type
  PROVE  /\ BySource(r) \subseteq DOMAIN graph.node
         /\ Findable => BySource(r) = {n \in DOMAIN graph.node : graph.node[n].source = r}
         /\ ByName(name) \subseteq DOMAIN graph.node
         /\ ByEntity(name, type) \subseteq DOMAIN graph.node
<1>1. stack.graph \in {"inmemory", "sqlite", "redis", "neo4j"}
  BY StacksAre
<1>2. CASE stack.graph = "inmemory"
  BY <1>2 DEF BySource, ByName, ByEntity, Pick, IM!BySource, IM!ByName, IM!ByEntity
<1>3. CASE stack.graph = "sqlite"
  BY <1>3 DEF BySource, ByName, ByEntity, Pick, SQ!BySource, SQ!ByName, SQ!ByEntity
<1>4. CASE stack.graph = "redis"
  BY <1>4 DEF BySource, ByName, ByEntity, Pick, RD!BySource, RD!ByName, RD!ByEntity, Findable
<1>5. CASE stack.graph = "neo4j"
  BY <1>5 DEF BySource, ByName, ByEntity, Pick, NJ!BySource, NJ!ByName, NJ!ByEntity
<1> QED  BY <1>1, <1>2, <1>3, <1>4, <1>5

\* At first there are no nodes.
LEMMA NoNodes ==
  ASSUME stack \in Stacks, graph = Pick(IM!Empty, SQ!Empty, RD!Empty, NJ!Empty)
  PROVE  IsGraph(graph, stack.graph) /\ DOMAIN graph.node = {}
<1>1. stack.graph \in {"inmemory", "sqlite", "redis", "neo4j"}
  BY StacksAre
<1>2. "node" \in DOMAIN graph /\ graph.node = <<>>
  <2>1. CASE stack.graph = "inmemory"
    BY <2>1 DEF Pick, IM!Empty
  <2>2. CASE stack.graph = "sqlite"
    BY <2>2 DEF Pick, SQ!Empty
  <2>3. CASE stack.graph = "redis"
    BY <2>3 DEF Pick, RD!Empty
  <2>4. CASE stack.graph = "neo4j"
    BY <2>4 DEF Pick, NJ!Empty
  <2> QED  BY <1>1, <2>1, <2>2, <2>3, <2>4
<1>3. DOMAIN graph.node = {}
  BY <1>2
<1> QED  BY <1>2, <1>3, FS_EmptySet DEF IsGraph

VectorPut(after, vectors, k, x) ==
  /\ AreVectors(after) /\ DOMAIN after = DOMAIN vectors \cup {k} /\ after[k] = x
  /\ \A q \in DOMAIN vectors : q # k => after[q] = vectors[q]

VectorOut(after, vectors, k) ==
  /\ AreVectors(after) /\ DOMAIN after = DOMAIN vectors \ {k}
  /\ \A q \in DOMAIN after : after[q] = vectors[q]

\* A vector is stored under its key, or replaces the one there was.
LEMMA VectorStored ==
  ASSUME NEW vectors, AreVectors(vectors), NEW k \in Key, NEW x \in EntryType,
         NEW w, w = V!StoreEmbedding(vectors, k, x)
  PROVE  VectorPut(w, vectors, k, x)
<1>1. /\ DOMAIN w = DOMAIN vectors \cup {k} /\ w[k] = x
      /\ \A q \in DOMAIN vectors : q # k => w[q] = vectors[q]
  BY DEF V!StoreEmbedding, V!Put
<1>2. IsFiniteSet(DOMAIN w)
  BY <1>1, FS_AddElement DEF AreVectors
<1>3. AreVectors(w)
  BY <1>1, <1>2 DEF AreVectors
<1> QED  BY <1>1, <1>3 DEF VectorPut

\* A vector is deleted, and no other.
LEMMA VectorGone ==
  ASSUME NEW vectors, AreVectors(vectors), NEW k, NEW w, w = V!DeleteEmbedding(vectors, k)
  PROVE  VectorOut(w, vectors, k)
<1>1. DOMAIN w = DOMAIN vectors \ {k} /\ \A q \in DOMAIN w : w[q] = vectors[q]
  BY DEF V!DeleteEmbedding, V!Restrict
<1>2. IsFiniteSet(DOMAIN w)
  BY <1>1, FS_Subset DEF AreVectors
<1>3. AreVectors(w)
  BY <1>1, <1>2 DEF AreVectors
<1> QED  BY <1>1, <1>3 DEF VectorOut

\* The keys of vectors.
LEMMA KeysAre ==
  /\ \A r \in RowId, kind \in {"doc", "chunk"} : Vector(r, kind) \in Key
  /\ \A n \in NodeId : Vector(n, "entity") \in Key
  /\ \A of, kind : Vector(of, kind).of = of /\ Vector(of, kind).kind = kind
  /\ \A k \in Key : k = Vector(k.of, k.kind) /\ k.kind \in {"doc", "chunk", "entity"}
  BY DEF Vector, Key

-----------------------------------------------------------------------------
\* What a search of the vectors hits.
LEMMA NearestIs ==
  ASSUME NEW T, NEW limit
  PROVE  V!Nearest(T, limit) \subseteq SUBSET T
  BY DEF V!Nearest, V!kSubset

\* The hits of a search are vectors there are, in every store.
LEMMA HitsAre ==
  ASSUME stack \in Stacks, NEW names, NEW wanted, NEW limit, NEW boolean,
         NEW S \in Hits(names, wanted, limit, boolean)
  PROVE  S \subseteq DOMAIN vec
<1> DEFINE close == V!Close(vec, names)
<1>1. close \subseteq DOMAIN vec
  BY DEF V!Close
<1>2. stack.vector \in {"inmemory", "sqlite", "redis", "qdrant"}
  BY StacksAre
<1> HIDE DEF close
<1>3. V!InMemoryHits(vec, names, wanted, limit) \subseteq SUBSET close
  BY NearestIs DEF V!InMemoryHits, close
<1>4. V!SQLiteHits(vec, names, wanted, limit) \subseteq SUBSET close
  BY NearestIs DEF V!SQLiteHits, close
<1>5. V!RedisHits(vec, names, wanted, limit) \subseteq SUBSET close
  <2>1. V!Nearest(close, IF limit < 1 \/ limit > 10 THEN 10 ELSE limit) \subseteq SUBSET close
    BY NearestIs
  <2> QED  BY <2>1 DEF V!RedisHits, close
<1>6. V!QdrantHits(vec, names, wanted, limit, boolean) \subseteq SUBSET close
  BY <1>4 DEF V!QdrantHits
<1>7. Hits(names, wanted, limit, boolean) \subseteq SUBSET close
  BY <1>2, <1>3, <1>4, <1>5, <1>6 DEF Hits, V!Hits
<1> QED  BY <1>1, <1>7

\* Of few vectors all that are near are hit.
LEMMA CountIs ==
  ASSUME NEW T
  PROVE  V!Cardinality(T) = Cardinality(T)
  BY DEF V!Cardinality, Cardinality

\* A search that asks for 20 may hit all of the vectors: Redis hits ten at most.
AllFit == Cardinality(DOMAIN vec) <= IF stack.vector = "redis" THEN 10 ELSE 20

\* Of no more than the limit the nearest are all.
LEMMA FewNearest ==
  ASSUME NEW T, IsFiniteSet(T), NEW limit \in Nat, Cardinality(T) <= limit,
         NEW S \in V!Nearest(T, limit)
  PROVE  S = T
<1>1. Cardinality(T) \in Nat
  BY FS_CardinalityType
<1>2. (IF Cardinality(T) < limit THEN Cardinality(T) ELSE limit) = Cardinality(T)
  BY <1>1
<1>3. S \in SUBSET T /\ Cardinality(S) = Cardinality(T)
  BY <1>2, CountIs DEF V!Nearest, V!kSubset
<1> QED  BY <1>3, FS_Subset

\* So a search hits all that are near and wanted.
LEMMA FewHits ==
  ASSUME stack \in Stacks, IsFiniteSet(DOMAIN vec), AllFit,
         NEW names, NEW wanted, NEW limit \in Nat, limit >= 20,
         NEW S \in Hits(names, wanted, limit, FALSE)
  PROVE  S = V!Close(vec, names) \cap wanted
<1> DEFINE close == V!Close(vec, names)
<1>1. close \subseteq DOMAIN vec
  BY DEF V!Close
<1> HIDE DEF close
<1> DEFINE most == IF stack.vector = "redis" THEN 10 ELSE 20
<1>2. \A T \in SUBSET close : IsFiniteSet(T) /\ Cardinality(T) <= most
  <2>1. SUFFICES ASSUME NEW T \in SUBSET close
                 PROVE  IsFiniteSet(T) /\ Cardinality(T) <= most
    OBVIOUS
  <2>2. T \in SUBSET DOMAIN vec
    BY <1>1
  <2>3. IsFiniteSet(T) /\ Cardinality(T) <= Cardinality(DOMAIN vec)
    BY <2>2, FS_Subset
  <2>4. Cardinality(T) \in Nat /\ Cardinality(DOMAIN vec) \in Nat
    BY <2>3, FS_CardinalityType
  <2> QED  BY <2>3, <2>4 DEF AllFit
<1>3. stack.vector \in {"inmemory", "sqlite", "redis", "qdrant"}
  BY StacksAre
<1>4. ASSUME NEW T \in SUBSET close, NEW l \in Nat, l >= most
      PROVE  \A U \in V!Nearest(T, l) : U = T
  <2>1. IsFiniteSet(T) /\ Cardinality(T) <= l
    <3>1. IsFiniteSet(T) /\ Cardinality(T) <= most /\ Cardinality(T) \in Nat
      BY <1>2, FS_CardinalityType
    <3> QED  BY <3>1, <1>4
  <2> QED  BY <2>1, FewNearest
<1>5. ~(limit < 1) /\ limit >= most
  OBVIOUS
<1>6. \A U \in V!SQLiteHits(vec, names, wanted, limit) : U = close \cap wanted
  BY <1>4, <1>5 DEF V!SQLiteHits, close
<1>7. \A U \in V!InMemoryHits(vec, names, wanted, limit) : U = close \cap wanted
  BY <1>4, <1>5 DEF V!InMemoryHits, close
<1>8. stack.vector = "redis" => \A U \in V!RedisHits(vec, names, wanted, limit) : U = close \cap wanted
  <2>1. (IF limit < 1 \/ limit > 10 THEN 10 ELSE limit) = 10
    OBVIOUS
  <2>2. stack.vector = "redis" => \A U \in V!Nearest(close, 10) : U = close
    BY <1>4
  <2> QED  BY <2>1, <2>2 DEF V!RedisHits, close
<1>9. V!QdrantHits(vec, names, wanted, limit, FALSE) = V!SQLiteHits(vec, names, wanted, limit)
  BY DEF V!QdrantHits
<1>10. S = close \cap wanted
  BY <1>3, <1>6, <1>7, <1>8, <1>9 DEF Hits, V!Hits
<1> QED  BY <1>10 DEF close

\* A search whose hits have the vector of a row finds it, or panics.
LEMMA OutcomeHas ==
  ASSUME NEW hits, NEW more, NEW names, NEW s, NEW r, Visible(r, s),
         NEW k \in hits, vec[k].source = r, r # NoSource,
         NEW found, found = Outcome(hits, more, names, s)
  PROVE  r \in found.rows \/ found.panics
<1> DEFINE sources == {V!ResultSource(stack.vector, q, vec[q]) : q \in hits} \cup more
           anchors == Anchors(sources, names)
           panics == \E a \in anchors : Panics(a, 2)
           rows == IF panics THEN {} ELSE Ranked(sources, anchors, s)
<1>1. V!ResultSource(stack.vector, k, vec[k]) = r
  BY DEF V!ResultSource
<1>2. r \in sources
  BY <1>1
<1> HIDE DEF sources
<1>3. r \in Ranked(sources, anchors, s)
  <2> HIDE DEF anchors
  <2> QED  BY <1>2 DEF Ranked
<1>4. found = [rows |-> rows, panics |-> panics]
  BY DEF Outcome, sources
<1>5. found.rows = rows /\ found.panics = panics
  <2> HIDE DEF anchors, panics, rows
  <2> QED  BY <1>4
<1>6. ~panics => r \in rows
  <2> HIDE DEF anchors, panics
  <2> QED  BY <1>3
<1> HIDE DEF anchors, panics, rows
<1> QED  BY <1>5, <1>6

\* With few vectors in the store, what is embedded is found, but for a panic.
LEMMA FoundOfFew ==
  ASSUME StoresTyped, FoundOK, AllFit
  PROVE  SearchFinds
<1>1. SUFFICES ASSUME client.jobs = <<>>, NEW s \in Session, NEW r \in DOMAIN row,
                      row[r].done, r \notin blind, Visible(r, s)
               PROVE  /\ \A found \in Legacy(row[r].names, s, 20) : r \in found.rows \/ found.panics
                      /\ row[r].tier # "storage" =>
                           \A found \in FourTier(row[r].names, s, 20) : r \in found.rows \/ found.panics
  BY DEF SearchFinds
<1> DEFINE k == Vector(r, "chunk")
           names == row[r].names
<1>2. Embedded(r)
  BY <1>1 DEF FoundOK, Condemned
<1>3. k \in DOMAIN vec /\ vec[k].names = names /\ vec[k].source = r /\ vec[k].tier = row[r].tier
  BY <1>2 DEF Embedded
<1>4. r \in RowId /\ row[r] \in RowType /\ r # NoSource
  BY NoSourceIs DEF StoresTyped, AreRows
<1>5. names # {} /\ row[r].tier \in Tier
  BY <1>4 DEF RowType
<1>6. k \in V!Close(vec, names)
  BY <1>3, <1>5 DEF V!Close
<1>7. stack \in Stacks /\ IsFiniteSet(DOMAIN vec)
  BY DEF StoresTyped, AreVectors
<1> HIDE DEF k, names
<1>8. ASSUME NEW found \in Legacy(names, s, 20)
      PROVE  r \in found.rows \/ found.panics
  <2>1. PICK hits \in Hits(names, DOMAIN vec, 20, FALSE) : found = Outcome(hits, {}, names, s)
    BY <1>8 DEF Legacy
  <2>2. hits = V!Close(vec, names) \cap DOMAIN vec
    <3>1. 20 \in Nat /\ 20 >= 20
      OBVIOUS
    <3> QED  BY <2>1, <3>1, <1>7, FewHits
  <2>3. k \in hits
    BY <2>2, <1>3, <1>6
  <2> QED  BY <2>1, <2>3, <1>1, <1>3, <1>4, OutcomeHas
<1>9. ASSUME row[r].tier # "storage", NEW found \in FourTier(names, s, 20)
      PROVE  r \in found.rows \/ found.panics
  <2>1. PICK hits \in HitsOfTiers(names, 20) : found = Outcome(hits, CoreRows(s), names, s)
    BY <1>9 DEF FourTier
  <2>2. k \in hits
    <3> DEFINE wide == IF 4 * 20 < 40 THEN 40 ELSE 4 * 20
    <3> DEFINE G == Hits(names, {q \in DOMAIN vec : vec[q].tier = "general"}, 20, FALSE)
               D == Hits(names, {q \in DOMAIN vec : vec[q].tier = "data"}, 20, FALSE)
               U == Hits(names, DOMAIN vec, wide, FALSE)
    <3>5. HitsOfTiers(names, 20) =
            {g \cup d \cup {q \in u : EffectiveTier(q) # "storage"} : g \in G, d \in D, u \in U}
      BY DEF HitsOfTiers
    <3>1. PICK g \in G, d \in D, u \in U : hits = g \cup d \cup {q \in u : EffectiveTier(q) # "storage"}
      <4> HIDE DEF G, D, U
      <4> QED  BY <2>1, <3>5
    <3>2. wide \in Nat /\ wide >= 20
      OBVIOUS
    <3> HIDE DEF wide
    <3>3. u = V!Close(vec, names) \cap DOMAIN vec
      BY <3>1, <3>2, <1>7, FewHits
    <3>4. EffectiveTier(k) # "storage"
      BY <1>3, <1>5, <1>9 DEF EffectiveTier, Tier
    <3> QED  BY <3>1, <3>3, <3>4, <1>3, <1>6
  <2> QED  BY <2>1, <2>2, <1>1, <1>3, <1>4, OutcomeHas
<1> QED  BY <1>8, <1>9 DEF names

\* left: a job without its first call, which more takes the place of.
After(job, more, left) ==
  /\ \A p \in 1..Len(left) :
       \/ p \in 1..Len(more) /\ left[p] = more[p]
       \/ \E q \in 2..Len(job) : left[p] = job[q] /\ (p # Len(left) => q # Len(job))
  /\ \A c : Has(more, c) => Has(left, c)
  /\ \A c : Has(job, c) => c = job[1] \/ Has(left, c)
  /\ Len(job) > 1 => left # <<>> /\ left[Len(left)] = job[Len(job)]
  /\ Len(job) <= 1 => left = more

\* A call is done, and others take its place.
LEMMA Popped ==
  ASSUME NEW job \in Seq(CallType), job # <<>>, NEW more \in Seq(CallType),
         NEW left, left = more \o Tail(job)
  PROVE  left \in Seq(CallType) /\ After(job, more, left)
<1>1. /\ Len(job) \in Nat /\ Len(job) >= 1 /\ Len(more) \in Nat
      /\ Tail(job) \in Seq(CallType) /\ Len(Tail(job)) = Len(job) - 1
      /\ \A i \in 1..Len(job) - 1 : Tail(job)[i] = job[i + 1]
  OBVIOUS
<1> DEFINE m == Len(more)
           l == Len(job)
<1>2. left \in Seq(CallType) /\ Len(left) = m + l - 1
  BY <1>1
<1>3. \A p \in 1..m : left[p] = more[p]
  BY <1>1
<1>4. \A q \in 2..l : q + m - 1 \in 1..Len(left) /\ left[q + m - 1] = job[q]
  <2>1. SUFFICES ASSUME NEW q \in 2..l
                 PROVE  q + m - 1 \in 1..Len(left) /\ left[q + m - 1] = job[q]
    OBVIOUS
  <2>2. q - 1 \in 1..l - 1 /\ q + m - 1 \in 1..(m + l - 1) /\ q + m - 1 > m /\ (q + m - 1) - m = q - 1
    BY <1>1
  <2>3. left[q + m - 1] = Tail(job)[q - 1]
    BY <1>1, <2>2
  <2>4. Tail(job)[q - 1] = job[q]
    BY <1>1, <2>2
  <2> QED  BY <1>2, <2>2, <2>3, <2>4
<1>5. ASSUME NEW p \in 1..Len(left), p \notin 1..m
      PROVE  /\ p - m + 1 \in 2..l /\ left[p] = job[p - m + 1]
             /\ p # Len(left) => p - m + 1 # l
  <2>1. p - m + 1 \in 2..l /\ (p - m + 1) + m - 1 = p
    BY <1>1, <1>2, <1>5
  <2>2. left[(p - m + 1) + m - 1] = job[p - m + 1]
    BY <1>4, <2>1
  <2>3. p # Len(left) => p - m + 1 # l
    BY <1>1, <1>2, <1>5
  <2> QED  BY <2>1, <2>2, <2>3
<1>6. \A c : Has(more, c) => Has(left, c)
  <2>1. \A p \in 1..m : p \in 1..Len(left)
    BY <1>1, <1>2
  <2> QED  BY <1>3, <2>1 DEF Has
<1>7. \A c : Has(job, c) => c = job[1] \/ Has(left, c)
  <2>1. \A q \in 1..l : q = 1 \/ q \in 2..l
    BY <1>1
  <2> QED  BY <1>4, <2>1 DEF Has
<1>9. Len(job) > 1 => left # <<>> /\ left[Len(left)] = job[Len(job)]
  <2>1. ASSUME Len(job) > 1
        PROVE  left # <<>> /\ left[Len(left)] = job[Len(job)]
    <3>1. l \in 2..l /\ l + m - 1 = Len(left)
      BY <1>1, <1>2, <2>1
    <3>2. Len(left) \in 1..Len(left) /\ left[Len(left)] = job[l]
      BY <1>4, <3>1
    <3> QED  BY <3>2, SMTT(30)
  <2> QED  BY <2>1
<1>10. Len(job) <= 1 => left = more
  <2>1. ASSUME Len(job) <= 1
        PROVE  left = more
    <3>1. Tail(job) = <<>>
      BY <1>1, <2>1
    <3> QED  BY <3>1, SMTT(30)
  <2> QED  BY <2>1
<1>12. \A p \in 1..Len(left) :
         \/ p \in 1..Len(more) /\ left[p] = more[p]
         \/ \E q \in 2..Len(job) : left[p] = job[q] /\ (p # Len(left) => q # Len(job))
  BY <1>3, <1>5
<1> QED  BY <1>2, <1>6, <1>7, <1>9, <1>10, <1>12 DEF After

\* What is left of the client's jobs.
LEMMA JobsAre ==
  ASSUME client \in ClientType, client.jobs # <<>>
  PROVE  /\ client.session \in Session /\ client.ends \in Seq(NodeId)
         /\ client.jobs \in Seq(Seq(CallType)) /\ Len(client.jobs) \in Nat /\ Len(client.jobs) >= 1
         /\ Head(client.jobs) = client.jobs[1] /\ client.jobs[1] \in Seq(CallType)
         /\ Tail(client.jobs) \in Seq(Seq(CallType))
         /\ Len(Tail(client.jobs)) = Len(client.jobs) - 1
         /\ \A j \in 1..Len(Tail(client.jobs)) :
              j + 1 \in 2..Len(client.jobs) /\ Tail(client.jobs)[j] = client.jobs[j + 1]
<1>1. client.session \in Session /\ client.ends \in Seq(NodeId) /\ client.jobs \in Seq(Seq(CallType))
  BY DEF ClientType
<1> DEFINE jobs == client.jobs
<1> HIDE DEF jobs
<1>2. jobs \in Seq(Seq(CallType)) /\ jobs # <<>>
  BY <1>1 DEF jobs
<1>3. /\ Len(jobs) \in Nat /\ Len(jobs) >= 1
      /\ Head(jobs) = jobs[1] /\ jobs[1] \in Seq(CallType)
      /\ Tail(jobs) \in Seq(Seq(CallType))
      /\ Len(Tail(jobs)) = Len(jobs) - 1
  BY <1>2
<1>4. \A j \in 1..Len(Tail(jobs)) :
        j + 1 \in 2..Len(jobs) /\ Tail(jobs)[j] = jobs[j + 1]
  BY <1>2, <1>3
<1> QED  BY <1>1, <1>3, <1>4 DEF jobs

\* The client is left with these jobs.
LEMMA LeavesIs ==
  ASSUME client \in ClientType, NEW jobs \in Seq(Seq(CallType)), NEW ends \in Seq(NodeId),
         Leaves(jobs, ends)
  PROVE  /\ client' \in ClientType /\ client'.jobs = jobs
         /\ jobs # <<>> => client'.session = client.session /\ overlap' = overlap
         /\ jobs = <<>> => overlap' = {} /\ client' = Silent
         /\ stack' = stack /\ ing' = ing /\ budget' = budget /\ blind' = blind
<1>1. client' = IF jobs = <<>> THEN Silent ELSE [client EXCEPT !.jobs = jobs, !.ends = ends]
  BY DEF Leaves
<1>2. CASE jobs = <<>>
  <2>1. client' = Silent
    BY <1>1, <1>2
  <2>2. Silent \in ClientType /\ Silent.jobs = <<>>
    <3>1. <<>> \in Seq(Seq(CallType)) /\ <<>> \in Seq(NodeId)
      OBVIOUS
    <3> QED  BY <3>1, GlobalSession DEF Silent, ClientType
  <2> QED  BY <2>1, <2>2, <1>2 DEF Leaves
<1>3. CASE jobs # <<>>
  <2>1. client' = [client EXCEPT !.jobs = jobs, !.ends = ends]
    BY <1>1, <1>3
  <2>2. client' \in ClientType /\ client'.jobs = jobs /\ client'.session = client.session
    BY <2>1 DEF ClientType
  <2> QED  BY <2>2, <1>3 DEF Leaves
<1> QED  BY <1>2, <1>3

\* Later jobs stay as they are.
Fades ==
  /\ \A k \in DOMAIN vec' : k.kind # "entity" => k \in DOMAIN vec /\ vec'[k] = vec[k]
  /\ \A n \in DOMAIN graph'.node :
       graph'.node[n].source \in RowId =>
         n \in DOMAIN graph.node /\ graph'.node[n].source = graph.node[n].source

\* A step that only takes away keeps a row covered by its job.
LEMMA CoveredStays ==
  ASSUME Fades, stack' = stack, NEW job, NEW r \in RowId, Covered(job, r)
  PROVE  Covered(job, r)'
  BY KeysAre DEF Covered, Fades, Findable

\* And the jobs that wait as they should be.
LEMMA LaterStays ==
  ASSUME Fades, stack' = stack, overlap' = overlap, client'.session = client.session,
         NEW job, LaterOK(job)
  PROVE  LaterOK(job)'
<1>1. ~Wiping(job) /\ Form(job) /\ Checked(job) /\ DeletionCovers(job)
  BY DEF LaterOK
<1>2. Form(job)'
  BY <1>1 DEF Form, DeletionForm, RequestForm
<1>3. Checked(job)'
  BY <1>1 DEF Checked
<1>4. DeletionCovers(job)'
  BY <1>1, CoveredStays DEF DeletionCovers, Unraced
<1> QED  BY <1>1, <1>2, <1>3, <1>4 DEF LaterOK

\* No call is left of a job, or those that took its place and the others.
LEMMA JobsGoOn ==
  ASSUME JobsOK, client.jobs # <<>>, NEW left \in Seq(CallType), NEW ends \in Seq(NodeId),
         Leaves(IF left = <<>> THEN Tail(client.jobs) ELSE <<left>> \o Tail(client.jobs), ends),
         client'.jobs # <<>> => left = <<>> \/ HeadOK(left)',
         Fades
  PROVE  /\ JobsOK'
         /\ client'.jobs = <<>> => overlap' = {}
         /\ client'.jobs # <<>> => client'.session = client.session /\ overlap' = overlap
         /\ left # <<>> => client'.jobs # <<>> /\ client'.jobs[1] = left
         /\ stack' = stack /\ ing' = ing /\ blind' = blind
<1> DEFINE rest == Tail(client.jobs)
           jobs == IF left = <<>> THEN rest ELSE <<left>> \o rest
<1>1. client \in ClientType
  BY DEF JobsOK
<1>2. /\ client.jobs \in Seq(Seq(CallType)) /\ Len(client.jobs) \in Nat
      /\ rest \in Seq(Seq(CallType)) /\ Len(rest) = Len(client.jobs) - 1
      /\ \A j \in 1..Len(rest) : j + 1 \in 2..Len(client.jobs) /\ rest[j] = client.jobs[j + 1]
  BY <1>1, JobsAre
<1> HIDE DEF rest
<1>3. jobs \in Seq(Seq(CallType))
  BY <1>2
<1>4. PICK list \in Seq(Seq(CallType)) : list = jobs
  BY <1>3
<1>5. Leaves(list, ends)
  BY <1>4 DEF rest
<1> HIDE DEF jobs
<1>6. /\ client' \in ClientType /\ client'.jobs = list
      /\ list # <<>> => client'.session = client.session /\ overlap' = overlap
      /\ list = <<>> => overlap' = {} /\ client' = Silent
      /\ stack' = stack /\ ing' = ing /\ budget' = budget /\ blind' = blind
  BY <1>1, <1>5, LeavesIs
<1>7. /\ left # <<>> => /\ list # <<>> /\ list[1] = left
                        /\ \A j \in 2..Len(list) : j \in 2..Len(client.jobs) /\ list[j] = client.jobs[j]
      /\ left = <<>> => \A j \in 1..Len(list) : j + 1 \in 2..Len(client.jobs) /\ list[j] = client.jobs[j + 1]
  <2>1. CASE left = <<>>
    <3>1. list = rest
      BY <2>1, <1>4 DEF jobs
    <3> QED  BY <3>1, <2>1, <1>2
  <2>2. CASE left # <<>>
    <3>1. list = <<left>> \o rest
      BY <2>2, <1>4 DEF jobs
    <3>2. Len(list) = 1 + Len(rest) /\ list[1] = left /\ Len(rest) \in Nat
      BY <3>1, <1>2
    <3>3. ASSUME NEW j \in 2..Len(list)
          PROVE  j \in 2..Len(client.jobs) /\ list[j] = client.jobs[j]
      <4>1. j - 1 \in 1..Len(rest) /\ (j - 1) + 1 = j
        BY <3>2
      <4>2. list[j] = rest[j - 1]
        BY <3>1, <3>2, <4>1, <1>2
      <4> QED  BY <4>1, <4>2, <1>2
    <3>4. list # <<>>
      BY <3>2
    <3> QED  BY <2>2, <3>2, <3>3, <3>4
  <2> QED  BY <2>1, <2>2
<1>8. ASSUME NEW j \in 1..Len(list), left = <<>> \/ j >= 2
      PROVE  LaterOK(list[j])'
  <2>1. list # <<>> /\ j \in Nat
    BY <1>8
  <2>2. PICK i \in 2..Len(client.jobs) : list[j] = client.jobs[i]
    <3>1. CASE left = <<>>
      BY <3>1, <1>7
    <3>2. CASE left # <<>>
      <4>1. j \in 2..Len(list)
        BY <3>2, <1>8
      <4> QED  BY <3>2, <4>1, <1>7
    <3> QED  BY <3>1, <3>2
  <2>3. PICK x : x = list[j]
    OBVIOUS
  <2>4. LaterOK(x)
    BY <2>2, <2>3 DEF JobsOK
  <2>5. LaterOK(x)'
    BY <2>1, <2>4, <1>6, LaterStays
  <2> QED  BY <2>3, <2>5
<1>9. ASSUME list # <<>>
      PROVE  HeadOK(list[1])'
  <2>1. CASE left = <<>>
    <3>1. 1 \in 1..Len(list)
      BY <1>4, <1>9, <1>3
    <3>2. PICK x : x = list[1]
      OBVIOUS
    <3>3. LaterOK(x)'
      BY <3>1, <3>2, <2>1, <1>8
    <3>4. HeadOK(x)'
      BY <3>3 DEF LaterOK, HeadOK, WipeCovers
    <3> QED  BY <3>2, <3>4
  <2>2. CASE left # <<>>
    BY <2>2, <1>6, <1>7, <1>9
  <2> QED  BY <2>1, <2>2
<1>10. JobsOK'
  <2>1. \A j \in 2..Len(list) : j \in 1..Len(list) /\ j >= 2
    BY <1>3, <1>4
  <2>2. \A j \in 2..Len(list) : LaterOK(list[j])'
    BY <2>1, <1>8
  <2> QED  BY <1>6, <2>2, <1>9 DEF JobsOK
<1> QED  BY <1>6, <1>7, <1>10

\* A call of the client that leaves the rows keeps what is not about its jobs.
LEMMA RowsStay ==
  ASSUME MemoryInv, client.jobs # <<>>, KeepsRows, Fades,
         stack' = stack, ing' = ing, blind' = blind,
         client'.jobs = <<>> => overlap' = {}, client'.jobs # <<>> => overlap' = overlap,
         AreVectors(vec'), IsGraph(graph', stack.graph), history' \subseteq history
  PROVE  StoresTyped' /\ IngOK' /\ RowsOK' /\ VecOK' /\ LostOK' /\ OverlapOK'
<1>1. StoresTyped /\ IngOK /\ RowsOK /\ VecOK /\ LostOK /\ OverlapOK
  BY DEF MemoryInv
<1>2. row' = row /\ gone' = gone /\ raced' = raced
  BY DEF KeepsRows
<1>3. StoresTyped'
  BY <1>1, <1>2 DEF StoresTyped
<1>4. IngOK'
  BY <1>1 DEF IngOK, At
<1>5. RowsOK'
  BY <1>1, <1>2 DEF RowsOK, At, Chunk
<1>6. VecOK'
  BY <1>1, <1>2 DEF VecOK, Lost, Fades
<1>7. LostOK'
  <2>1. gone \subseteq RowId
    BY <1>1 DEF StoresTyped
  <2> QED  BY <1>1, <1>2, <2>1 DEF LostOK, Lost, Fades, Findable, At
<1>8. OverlapOK'
  BY <1>1 DEF OverlapOK, At
<1> QED  BY <1>3, <1>4, <1>5, <1>6, <1>7, <1>8

\* The effect of the first call of a job that more follows.
Pops(job, more) ==
  /\ job[1].op = "vec" => job[1].id \notin DOMAIN vec'
  /\ job[1].op = "node" => job[1].id \notin DOMAIN graph'.node
  /\ job[1].op = "find" /\ Findable =>
       \A n \in DOMAIN graph'.node :
         graph'.node[n].source = job[1].id => Has(more, Call("node", n))

\* A call is its operation and what it is about.
LEMMA CallsAre ==
  /\ \A op, id : Call(op, id).op = op /\ Call(op, id).id = id
  /\ \A c \in CallType : c = Call(c.op, c.id)
  BY DEF Call, CallType

\* A row stays covered when the first call of a job is done, for that took its trace.
LEMMA CoveredOn ==
  ASSUME Fades, stack' = stack, NEW job, NEW more, NEW left, Pops(job, more),
         \A c : Has(more, c) => Has(left, c), \A c : Has(job, c) => c = job[1] \/ Has(left, c),
         NEW r \in RowId, Covered(job, r)
  PROVE  Covered(left, r)'
<1>1. ASSUME NEW kind \in {"doc", "chunk"}, Vector(r, kind) \in DOMAIN vec'
      PROVE  Has(left, Call("vec", Vector(r, kind)))
  <2>1. Vector(r, kind) \in DOMAIN vec
    BY <1>1, KeysAre DEF Fades
  <2>2. Has(job, Call("vec", Vector(r, kind)))
    BY <2>1 DEF Covered
  <2>3. Call("vec", Vector(r, kind)) # job[1]
    BY <1>1, CallsAre DEF Pops
  <2> QED  BY <2>2, <2>3
<1>2. ASSUME Findable, NEW n \in DOMAIN graph'.node, graph'.node[n].source = r
      PROVE  Has(left, Call("find", r)) \/ Has(left, Call("node", n))
  <2>1. n \in DOMAIN graph.node /\ graph.node[n].source = r
    BY <1>2 DEF Fades
  <2>2. Has(job, Call("find", r)) \/ Has(job, Call("node", n))
    BY <2>1, <1>2 DEF Covered
  <2>3. Call("node", n) # job[1]
    BY <1>2, CallsAre DEF Pops
  <2>4. Call("find", r) = job[1] => Has(more, Call("node", n))
    BY <1>2, CallsAre DEF Pops
  <2> QED  BY <2>2, <2>3, <2>4
<1> QED  BY <1>1, <1>2 DEF Covered, Findable

\* A deletion goes on.
LEMMA DeletionGoesOn ==
  ASSUME Fades, stack' = stack, client'.session = client.session, overlap' = overlap, row' = row,
         NEW job \in Seq(CallType), HeadOK(job), Deleting(job), job[1].op # "row",
         NEW more \in Seq(CallType), \A p \in 1..Len(more) : more[p] \in NodeCalls,
         Pops(job, more), job[1].op = "check" => Of(job) \in OfSession,
         NEW left \in Seq(CallType), After(job, more, left)
  PROVE  /\ left # <<>> /\ HeadOK(left)' /\ Deleting(left) /\ Of(left) = Of(job)
         /\ left[1].op # "check"
<1>1. job # <<>> /\ DeletionForm(job) /\ DeletionCovers(job) /\ (Checked(job) \/ Of(job) \in OfSession)
  BY DEF HeadOK, Form
<1>2. Len(job) > 1
  <2>1. Len(job) \in Nat /\ Len(job) >= 1
    BY <1>1
  <2>2. Len(job) # 1
    BY DEF Deleting
  <2>3. \A l \in Nat : l >= 1 /\ l # 1 => l > 1
    OBVIOUS
  <2> QED  BY <2>1, <2>2, <2>3
<1>3. /\ left \in Seq(CallType)
      /\ \A p \in 1..Len(left) :
           \/ p \in 1..Len(more) /\ left[p] = more[p]
           \/ \E q \in 2..Len(job) : left[p] = job[q] /\ (p # Len(left) => q # Len(job))
      /\ \A c : Has(more, c) => Has(left, c)
      /\ \A c : Has(job, c) => c = job[1] \/ Has(left, c)
      /\ left # <<>> /\ left[Len(left)] = job[Len(job)]
  BY <1>1, <1>2 DEF After
<1>4. Deleting(left) /\ Of(left) = Of(job)
  BY <1>3 DEF Deleting, Of
<1>5. ~Wiping(left) /\ ~Wiping(job)
  BY <1>4 DEF Deleting, Wiping
<1>6. \A c \in NodeCalls : c.op = "node"
  BY CallsAre DEF NodeCalls
<1>7. \A p \in 1..Len(left) : left[p].op # "check"
  BY <1>3, <1>6, <1>1 DEF DeletionForm
<1>8. left[1].op # "check"
  <2>1. 1 \in 1..Len(left)
    BY <1>3
  <2> QED  BY <2>1, <1>7
<1>9. DeletionForm(left)
  <2>1. \A q \in 2..Len(job) : q # Len(job) => q \in 1..Len(job) - 1
    BY <1>3
  <2>2. \A p \in 1..Len(left) - 1 : p \in 1..Len(left) /\ p # Len(left)
    BY <1>3
  <2>3. \A p \in 1..Len(left) - 1 : left[p] \in {Call("check", Of(job))} \cup Its(Of(job)) \cup NodeCalls
    BY <2>1, <2>2, <1>1, <1>3 DEF DeletionForm
  <2>4. \A p \in 2..Len(left) : left[p].op # "check"
    BY <1>7, <1>3
  <2> QED  BY <2>3, <2>4, <1>1, <1>4 DEF DeletionForm
<1>10. Form(left)'
  BY <1>3, <1>4, <1>5, <1>9 DEF Form, DeletionForm, RequestForm
<1>11. DeletionCovers(left)'
  <2>1. SUFFICES ASSUME Of(left) \in RowId, Unraced(Of(left))'
                 PROVE  Covered(left, Of(left))'
    BY DEF DeletionCovers
  <2>2. PICK r : r = Of(left)
    OBVIOUS
  <2>3. r \in RowId /\ Unraced(r) /\ r = Of(job)
    BY <2>1, <2>2, <1>4 DEF Unraced
  <2>4. Covered(job, r)
    BY <2>3, <1>1 DEF DeletionCovers
  <2>5. Covered(left, r)'
    BY <2>3, <2>4, <1>3, CoveredOn
  <2> QED  BY <2>2, <2>5
<1>12. WipeCovers(left)'
  BY <1>5 DEF WipeCovers
<1>13. (Checked(left) \/ Of(left) \in OfSession)'
  <2>1. client.session # "" => Of(job) \in OfSession
    BY <1>1 DEF Checked
  <2> QED  BY <2>1, <1>4 DEF Checked, OfSession
<1>14. HeadOK(left)'
  BY <1>10, <1>11, <1>12, <1>13 DEF HeadOK
<1> QED  BY <1>3, <1>4, <1>8, <1>14

\* The wiping of a session goes on.
LEMMA WipeGoesOn ==
  ASSUME Fades, stack' = stack, client'.session = client.session, overlap' = overlap, row' = row,
         DOMAIN row \subseteq RowId,
         NEW job \in Seq(CallType), HeadOK(job), Wiping(job), job[1].op # "rows",
         NEW more \in Seq(CallType),
         \A p \in 1..Len(more) : more[p] \in NodeCalls \/ \E r \in OfSession : more[p] \in Its(r),
         Pops(job, more),
         job[1].op = "list" => \A r \in OfSession : \A c \in Its(r) : Has(more, c),
         \A n \in DOMAIN graph'.node : n \in DOMAIN graph.node /\ graph'.node[n] = graph.node[n],
         job[1].op = "graph" /\ Findable =>
           \A n \in DOMAIN graph'.node : graph'.node[n].session # client.session,
         history' \subseteq history, job[1].op = "messages" => client.session \notin history',
         NEW left \in Seq(CallType), After(job, more, left)
  PROVE  left # <<>> /\ HeadOK(left)' /\ Wiping(left)
<1>1. job # <<>> /\ WipeForm(job) /\ WipeCovers(job)
  BY DEF HeadOK, Form, Wiping
<1>2. Len(job) > 1
  <2>1. Len(job) \in Nat /\ Len(job) >= 1
    BY <1>1
  <2>2. Len(job) # 1
    BY DEF Wiping
  <2>3. \A l \in Nat : l >= 1 /\ l # 1 => l > 1
    OBVIOUS
  <2> QED  BY <2>1, <2>2, <2>3
<1>3. /\ left \in Seq(CallType)
      /\ \A p \in 1..Len(left) :
           \/ p \in 1..Len(more) /\ left[p] = more[p]
           \/ \E q \in 2..Len(job) : left[p] = job[q] /\ (p # Len(left) => q # Len(job))
      /\ \A c : Has(more, c) => Has(left, c)
      /\ \A c : Has(job, c) => c = job[1] \/ Has(left, c)
      /\ left # <<>> /\ left[Len(left)] = job[Len(job)]
  BY <1>1, <1>2 DEF After
<1>4. Wiping(left) /\ ~Deleting(left) /\ ~Deleting(job)
  BY <1>3 DEF Deleting, Wiping
<1>5. OfSession' = OfSession
  BY DEF OfSession
<1>6. WipeForm(left)
  <2>1. \A q \in 2..Len(job) : q # Len(job) => q \in 1..Len(job) - 1
    BY <1>3
  <2>2. \A p \in 1..Len(left) - 1 : p \in 1..Len(left) /\ p # Len(left)
    BY <1>3
  <2> QED  BY <2>1, <2>2, <1>1, <1>3 DEF WipeForm
<1>7. Form(left)'
  BY <1>3, <1>4, <1>5, <1>6 DEF Form, WipeForm
<1>8. WipeCovers(left)'
  <2>1. ASSUME ~Has(left, Call("list", NoSource)), NEW r \in OfSession, Unraced(r)
        PROVE  Covered(left, r)'
    <3>1. r \in RowId
      BY <2>1 DEF OfSession
    <3>2. CASE Has(job, Call("list", NoSource))
      <4>1. job[1].op = "list"
        BY <1>3, <2>1, <3>2, CallsAre
      <4>2. \A c \in Its(r) : Has(left, c)
        BY <4>1, <2>1, <1>3
      <4> QED  BY <4>2 DEF Covered, Its
    <3>3. CASE ~Has(job, Call("list", NoSource))
      <4>1. Covered(job, r)
        BY <1>1, <2>1, <3>3 DEF WipeCovers
      <4> QED  BY <3>1, <4>1, <1>3, CoveredOn
    <3> QED  BY <3>2, <3>3
  <2>2. ASSUME overlap = {}, Findable, ~Has(left, Call("graph", NoSource)), NEW n \in DOMAIN graph'.node
        PROVE  graph'.node[n].session # client.session
    <3>1. CASE Has(job, Call("graph", NoSource))
      <4>1. job[1].op = "graph"
        BY <1>3, <2>2, <3>1, CallsAre
      <4> QED  BY <4>1, <2>2
    <3>2. CASE ~Has(job, Call("graph", NoSource))
      BY <3>2, <2>2, <1>1 DEF WipeCovers
    <3> QED  BY <3>1, <3>2
  <2>3. ASSUME ~Has(left, Call("messages", NoSource))
        PROVE  client.session \notin history'
    <3>1. CASE Has(job, Call("messages", NoSource))
      <4>1. job[1].op = "messages"
        BY <1>3, <2>3, <3>1, CallsAre
      <4> QED  BY <4>1
    <3>2. CASE ~Has(job, Call("messages", NoSource))
      BY <3>2, <1>1 DEF WipeCovers
    <3> QED  BY <3>1, <3>2
  <2>4. \A r : Unraced(r)' = Unraced(r)
    BY DEF Unraced
  <2>5. \A r \in OfSession' : ~Has(left, Call("list", NoSource)) /\ Unraced(r)' => Covered(left, r)'
    BY <2>1, <2>4, <1>5
  <2> QED  BY <2>2, <2>3, <2>5 DEF WipeCovers, Findable
<1>9. DeletionCovers(left)' /\ Checked(left)'
  BY <1>4 DEF DeletionCovers, Checked
<1> QED  BY <1>3, <1>4, <1>7, <1>8, <1>9 DEF HeadOK

\* A request goes on.
LEMMA RequestGoesOn ==
  ASSUME NEW job \in Seq(CallType), HeadOK(job), ~Deleting(job), ~Wiping(job),
         NEW more \in Seq(CallType), \A p \in 1..Len(more) : more[p] \in RequestCalls,
         NEW left \in Seq(CallType), After(job, more, left), left # <<>>
  PROVE  HeadOK(left)'
<1>1. job # <<>> /\ RequestForm(job)
  BY DEF HeadOK, Form
<1>2. /\ left \in Seq(CallType)
      /\ \A p \in 1..Len(left) :
           \/ p \in 1..Len(more) /\ left[p] = more[p]
           \/ \E q \in 2..Len(job) : left[p] = job[q] /\ (p # Len(left) => q # Len(job))
  BY <1>1 DEF After
<1>3. \A p \in 1..Len(left) : left[p] \in RequestCalls
  <2>1. \A q \in 2..Len(job) : q \in 1..Len(job)
    BY <1>1
  <2> QED  BY <1>1, <1>2, <2>1 DEF RequestForm
<1>4. left[Len(left)] \in RequestCalls
  <2>1. Len(left) \in 1..Len(left)
    BY <1>2
  <2> QED  BY <2>1, <1>3
<1>5. ~Deleting(left) /\ ~Wiping(left)
  BY <1>4 DEF Deleting, Wiping, RequestCalls
<1>6. Form(left)'
  BY <1>3, <1>5 DEF Form, RequestForm
<1> QED  BY <1>5, <1>6 DEF HeadOK, DeletionCovers, WipeCovers, Checked

\* What the calls of a job do to the stores, and what comes in their place.
StoresKept ==
  /\ AreVectors(vec') /\ IsGraph(graph', stack.graph) /\ history' \subseteq history

\* Only the vector of a call of its own goes.
VectorsStay(job) ==
  \A k \in DOMAIN vec : k.kind # "entity" =>
    \/ k \in DOMAIN vec' /\ vec'[k] = vec[k]
    \/ job[1].op = "vec" /\ k = job[1].id

\* What takes the place of a deletion's call are the nodes of its row; of a wiping's, the
\* traces of the listed rows; of a request's, more of its own calls.
DeletionStep(job, more) ==
  Deleting(job) =>
    /\ \A p \in 1..Len(more) : more[p] \in NodeCalls
    /\ job[1].op = "check" => Of(job) \in OfSession

WipeStep(job, more) ==
  Wiping(job) =>
    /\ \A p \in 1..Len(more) : more[p] \in NodeCalls \/ \E r \in OfSession : more[p] \in Its(r)
    /\ job[1].op = "list" => \A r \in OfSession : \A c \in Its(r) : Has(more, c)
    /\ \A n \in DOMAIN graph'.node : n \in DOMAIN graph.node /\ graph'.node[n] = graph.node[n]
    /\ job[1].op = "graph" /\ Findable =>
         \A n \in DOMAIN graph'.node : graph'.node[n].session # client.session
    /\ job[1].op = "messages" => client.session \notin history'

RequestStep(job, more) ==
  ~Deleting(job) /\ ~Wiping(job) => \A p \in 1..Len(more) : more[p] \in RequestCalls

\* A call of the client is done and the job goes on with what takes its place: the
\* invariant holds if the step does to the stores what such a call may do, and only such
\* calls take its place.
LEMMA ProceedKeeps ==
  ASSUME MemoryInv, client.jobs # <<>>, NEW job, job = client.jobs[1],
         NEW more \in Seq(CallType), NEW ends \in Seq(NodeId), Proceed(more, ends),
         KeepsRows, StoresKept, Fades, VectorsStay(job), Pops(job, more),
         job[1].op \notin {"row", "rows"},
         DeletionStep(job, more), WipeStep(job, more), RequestStep(job, more)
  PROVE  MemoryInv'
<1>1. StoresTyped /\ JobsOK /\ FoundOK
  BY DEF MemoryInv
<1>2. job \in Seq(CallType) /\ Head(client.jobs) = job
  BY <1>1, JobsAre DEF JobsOK
<1>3. HeadOK(job) /\ job # <<>>
  BY <1>1 DEF JobsOK, HeadOK, Form
<1>4. PICK left : left = more \o Tail(job)
  OBVIOUS
<1>5. left \in Seq(CallType) /\ After(job, more, left)
  BY <1>2, <1>3, <1>4, Popped
<1>6. Leaves(IF left = <<>> THEN Tail(client.jobs) ELSE <<left>> \o Tail(client.jobs), ends)
  BY <1>2, <1>4 DEF Proceed
<1>7. /\ client'.jobs = <<>> => overlap' = {}
      /\ client'.jobs # <<>> => client'.session = client.session /\ overlap' = overlap
      /\ left # <<>> => client'.jobs # <<>> /\ client'.jobs[1] = left
      /\ stack' = stack /\ ing' = ing /\ blind' = blind
  <2>1. PICK jobs \in Seq(Seq(CallType)) :
          /\ jobs = IF left = <<>> THEN Tail(client.jobs) ELSE <<left>> \o Tail(client.jobs)
          /\ left # <<>> => jobs # <<>> /\ jobs[1] = left
    <3>1. Tail(client.jobs) \in Seq(Seq(CallType))
      BY <1>1, JobsAre DEF JobsOK
    <3>2. \A rest \in Seq(Seq(CallType)), x \in Seq(CallType) :
            /\ <<x>> \o rest \in Seq(Seq(CallType))
            /\ <<x>> \o rest # <<>> /\ (<<x>> \o rest)[1] = x
      OBVIOUS
    <3> QED  BY <3>1, <3>2, <1>5
  <2>2. Leaves(jobs, ends)
    BY <1>6, <2>1
  <2> QED  BY <2>1, <2>2, <1>1, LeavesIs DEF JobsOK
<1>8. row' = row /\ DOMAIN row \subseteq RowId /\ OfSession \subseteq RowId
  BY <1>1 DEF KeepsRows, StoresTyped, AreRows, OfSession
<1>9. ASSUME left # <<>>
      PROVE  /\ HeadOK(left)'
             /\ Deleting(job) => Deleting(left) /\ Of(left) = Of(job) /\ left[1].op # "check"
             /\ Wiping(job) => Wiping(left)
  <2>1. client'.session = client.session /\ overlap' = overlap /\ stack' = stack
    BY <1>7, <1>9
  <2>2. CASE Deleting(job)
    <3>1. ~Wiping(job)
      BY <2>2 DEF Deleting, Wiping
    <3> QED  BY <2>1, <2>2, <3>1, <1>2, <1>3, <1>5, <1>8, DeletionGoesOn DEF DeletionStep
  <2>3. CASE Wiping(job)
    <3>1. ~Deleting(job)
      BY <2>3 DEF Deleting, Wiping
    <3> QED  BY <2>1, <2>3, <3>1, <1>2, <1>3, <1>5, <1>8, WipeGoesOn DEF WipeStep, StoresKept
  <2>4. CASE ~Deleting(job) /\ ~Wiping(job)
    <3>1. HeadOK(left)'
      BY <2>4, <1>2, <1>3, <1>5, <1>9, RequestGoesOn DEF RequestStep
    <3> QED  BY <2>4, <3>1
  <2> QED  BY <2>2, <2>3, <2>4
<1>10. JobsOK'
  BY <1>1, <1>5, <1>6, <1>9, JobsGoOn
<1>11. StoresTyped' /\ IngOK' /\ RowsOK' /\ VecOK' /\ LostOK' /\ OverlapOK'
  BY <1>7, RowsStay DEF StoresKept
<1>12. ASSUME Deleting(job) \/ Wiping(job)
       PROVE  left # <<>>
  <2>1. Len(job) \in Nat /\ Len(job) >= 1 /\ Len(job) # 1
    BY <1>2, <1>3, <1>12 DEF Deleting, Wiping
  <2>2. \A l \in Nat : l >= 1 /\ l # 1 => l > 1
    OBVIOUS
  <2> QED  BY <2>1, <2>2, <1>5 DEF After
<1>13. ASSUME NEW r \in RowId, Condemned(r)
       PROVE  Condemned(r)'
  <2>1. \/ Deleting(job) /\ Of(job) = r
        \/ Wiping(job) /\ r \in OfSession
    BY <1>13 DEF Condemned
  <2>2. /\ left # <<>> /\ client'.jobs # <<>> /\ client'.jobs[1] = left
        /\ client'.session = client.session
    BY <2>1, <1>7, <1>12
  <2> QED  BY <2>1, <2>2, <1>8, <1>9 DEF Condemned, OfSession
<1>14. ASSUME NEW r \in RowId, job[1].op = "vec", job[1].id = Vector(r, "chunk"), Embedded(r)
       PROVE  Condemned(r)'
  <2>1. job[1] = Call("vec", Vector(r, "chunk"))
    <3>1. job[1] \in CallType
      BY <1>2, <1>3
    <3> QED  BY <3>1, <1>14, CallsAre
  <2>2. \/ Deleting(job) /\ Of(job) = r
        \/ Wiping(job) /\ r \in OfSession
    <3>1. 1 \in 1..Len(job)
      BY <1>2, <1>3
    <3>2. Deleting(job) \/ Wiping(job)
      <4>1. job[1] \notin RequestCalls
        BY <1>14 DEF RequestCalls
      <4> QED  BY <4>1, <3>1, <1>3 DEF HeadOK, Form, RequestForm
    <3>3. 1 \in 1..Len(job) - 1
      <4>1. Len(job) \in Nat /\ Len(job) # 1
        BY <3>2, <1>2 DEF Deleting, Wiping
      <4>2. \A l \in Nat : 1 \in 1..l /\ l # 1 => 1 \in 1..l - 1
        OBVIOUS
      <4> QED  BY <3>1, <4>1, <4>2
    <3>4. job[1] \notin NodeCalls /\ job[1] \notin SessionCalls
      BY <1>14, CallsAre DEF NodeCalls, SessionCalls
    <3>5. \A q : job[1] \in Its(q) => q = r
      <4>1. \A q : job[1] \in Its(q) => job[1].id \in {Vector(q, "doc"), Vector(q, "chunk")}
        BY <1>14, CallsAre DEF Its
      <4> QED  BY <4>1, <1>14, KeysAre
    <3>6. CASE Deleting(job)
      <4>1. job[1] \in {Call("check", Of(job))} \cup Its(Of(job)) \cup NodeCalls
        BY <3>3, <3>6, <1>3 DEF HeadOK, Form, DeletionForm
      <4>2. job[1] # Call("check", Of(job))
        BY <1>14, CallsAre
      <4> QED  BY <4>1, <4>2, <3>4, <3>5, <3>6
    <3>7. CASE Wiping(job)
      <4>1. job[1] \in SessionCalls \cup NodeCalls \/ \E q \in OfSession : job[1] \in Its(q)
        BY <3>3, <3>7, <1>3 DEF HeadOK, Form, WipeForm
      <4> QED  BY <4>1, <3>4, <3>5, <3>7
    <3> QED  BY <3>2, <3>6, <3>7
  <2>3. /\ left # <<>> /\ client'.jobs # <<>> /\ client'.jobs[1] = left
        /\ client'.session = client.session
    BY <2>2, <1>7, <1>12
  <2> QED  BY <2>2, <2>3, <1>8, <1>9 DEF Condemned, OfSession
<1>15. FoundOK'
  <2>1. SUFFICES ASSUME NEW r \in DOMAIN row, row[r].done \/ Past(r), r \notin blind
                 PROVE  Embedded(r)' \/ Condemned(r)'
    BY <1>7, <1>8 DEF FoundOK, Past, Chunk
  <2>2. r \in RowId
    BY <1>8
  <2>3. Embedded(r) \/ Condemned(r)
    BY <2>1, <1>1 DEF FoundOK
  <2>4. CASE Condemned(r)
    BY <2>2, <2>4, <1>13
  <2>5. CASE Embedded(r)
    <3>1. Vector(r, "chunk") \in DOMAIN vec /\ Vector(r, "chunk").kind # "entity"
      BY <2>5, KeysAre DEF Embedded
    <3>2. CASE job[1].op = "vec" /\ job[1].id = Vector(r, "chunk")
      BY <3>2, <2>2, <2>5, <1>14
    <3>3. CASE ~(job[1].op = "vec" /\ job[1].id = Vector(r, "chunk"))
      <4>1. Vector(r, "chunk") \in DOMAIN vec' /\ vec'[Vector(r, "chunk")] = vec[Vector(r, "chunk")]
        BY <3>1, <3>3 DEF VectorsStay
      <4> QED  BY <4>1, <2>5, <1>8 DEF Embedded
    <3> QED  BY <3>2, <3>3
  <2> QED  BY <2>3, <2>4, <2>5
<1> QED  BY <1>10, <1>11, <1>15 DEF MemoryInv

\* Which operations the calls of each kind have.
LEMMA OpsAre ==
  /\ \A c \in NodeCalls : c.op = "node" /\ c.id \in NodeId /\ c \in RequestCalls /\ c \in CallType
  /\ \A r, c : c \in Its(r) =>
       \/ c.op = "find" /\ c.id = r
       \/ c.op = "vec" /\ c.id \in {Vector(r, "doc"), Vector(r, "chunk")}
  /\ \A c \in SessionCalls : c.op \in {"list", "graph", "messages"}
  /\ \A c \in RequestCalls :
       \/ c.op \in {"ensure", "embed", "tell", "entity", "similar", "node"} /\ c.id \in NodeId
       \/ c.op \in {"link", "relate"}
<1>1. \A c \in NodeCalls : c.op = "node" /\ c.id \in NodeId
  BY CallsAre DEF NodeCalls
<1>2. \A n \in NodeId : Call("node", n) \in RequestCalls /\ Call("node", n) \in CallType
  BY DEF Call, RequestCalls, CallType
<1>3. \A c \in NodeCalls : c \in RequestCalls /\ c \in CallType
  BY <1>2 DEF NodeCalls
<1>4. \A r, c : c \in Its(r) =>
       \/ c.op = "find" /\ c.id = r
       \/ c.op = "vec" /\ c.id \in {Vector(r, "doc"), Vector(r, "chunk")}
  BY CallsAre DEF Its
<1>5. \A c \in SessionCalls : c.op \in {"list", "graph", "messages"}
  BY CallsAre DEF SessionCalls
<1>6. \A c \in RequestCalls :
       \/ c.op \in {"ensure", "embed", "tell", "entity", "similar", "node"} /\ c.id \in NodeId
       \/ c.op \in {"link", "relate"}
  BY DEF RequestCalls
<1> QED  BY <1>1, <1>3, <1>4, <1>5, <1>6

\* The call to be done.
LEMMA HeadCall ==
  ASSUME MemoryInv, client.jobs # <<>>, NEW job, job = client.jobs[1]
  PROVE  /\ job \in Seq(CallType) /\ job # <<>> /\ HeadOK(job)
         /\ Head(client.jobs) = job /\ Next1 = job[1] /\ job[1] \in CallType
         /\ job[1].op \in {"check", "row"} =>
              Deleting(job) /\ ~Wiping(job) /\ job[1].id = Of(job)
         /\ job[1].op \in {"list", "graph", "messages", "rows"} => Wiping(job) /\ ~Deleting(job)
         /\ job[1].op \in {"row", "rows"} => Len(job) = 1
         /\ job[1].op = "node" => job[1].id \in NodeId
         /\ job[1].op \in {"find", "vec"} => Deleting(job) \/ Wiping(job)
         /\ job[1].op = "find" => (Deleting(job) /\ job[1].id = Of(job)) \/ job[1].id \in OfSession
         /\ job[1].op = "vec" =>
              /\ job[1].id.kind # "entity"
              /\ \/ Deleting(job) /\ job[1].id.of = Of(job)
                 \/ Wiping(job) /\ job[1].id.of \in OfSession
         /\ job[1].op \in {"ensure", "embed", "tell", "entity", "similar"} =>
              ~Deleting(job) /\ ~Wiping(job) /\ job[1].id \in NodeId
         /\ job[1].op \in {"link", "relate"} => ~Deleting(job) /\ ~Wiping(job)
<1>1. client \in ClientType /\ HeadOK(job)
  BY DEF MemoryInv, JobsOK
<1>2. job \in Seq(CallType) /\ Head(client.jobs) = job
  BY <1>1, JobsAre
<1>3. job # <<>> /\ Form(job)
  BY <1>1 DEF HeadOK, Form
<1>4. Len(job) \in Nat /\ Len(job) >= 1 /\ 1 \in 1..Len(job) /\ job[1] \in CallType
  BY <1>2, <1>3
<1>5. Next1 = job[1]
  BY <1>2 DEF Next1
<1>6. Len(job) # 1 => 1 \in 1..Len(job) - 1
  <2>1. \A l \in Nat : l >= 1 /\ l # 1 => 1 \in 1..l - 1
    OBVIOUS
  <2> QED  BY <1>4, <2>1
<1>7. CASE Deleting(job)
  <2>1. ~Wiping(job)
    BY <1>7 DEF Deleting, Wiping
  <2>2. CASE Len(job) = 1
    <3>1. job[1].op = "row" /\ job[1].id = Of(job)
      BY <2>2, <1>7 DEF Deleting, Of
    <3> QED  BY <3>1, <2>1, <2>2, <1>1, <1>2, <1>3, <1>4, <1>5, <1>7
  <2>3. CASE Len(job) # 1
    <3>1. job[1] \in {Call("check", Of(job))} \cup Its(Of(job)) \cup NodeCalls
      BY <2>3, <1>3, <1>6, <1>7 DEF Form, DeletionForm
    <3>2. \/ job[1].op = "check" /\ job[1].id = Of(job)
          \/ job[1].op = "find" /\ job[1].id = Of(job)
          \/ job[1].op = "vec" /\ job[1].id \in {Vector(Of(job), "doc"), Vector(Of(job), "chunk")}
          \/ job[1].op = "node" /\ job[1].id \in NodeId
      BY <3>1, OpsAre, CallsAre
    <3>3. job[1].op = "vec" => job[1].id.kind # "entity" /\ job[1].id.of = Of(job)
      BY <3>2, KeysAre
    <3> HIDE DEF Of
    <3> QED  BY <3>2, <3>3, <2>1, <1>1, <1>2, <1>3, <1>4, <1>5, <1>7
  <2> QED  BY <2>2, <2>3
<1>8. CASE Wiping(job)
  <2>1. ~Deleting(job)
    BY <1>8 DEF Deleting, Wiping
  <2>2. CASE Len(job) = 1
    <3>1. job[1].op = "rows"
      BY <2>2, <1>8 DEF Wiping
    <3> QED  BY <3>1, <2>1, <2>2, <1>1, <1>2, <1>3, <1>4, <1>5, <1>8
  <2>3. CASE Len(job) # 1
    <3>1. job[1] \in SessionCalls \cup NodeCalls \/ \E r \in OfSession : job[1] \in Its(r)
      BY <2>3, <1>3, <1>6, <1>8 DEF Form, WipeForm
    <3>2. \/ job[1].op \in {"list", "graph", "messages"}
          \/ job[1].op = "node" /\ job[1].id \in NodeId
          \/ job[1].op = "find" /\ job[1].id \in OfSession
          \/ job[1].op = "vec" /\ \E r \in OfSession : job[1].id \in {Vector(r, "doc"), Vector(r, "chunk")}
      BY <3>1, OpsAre
    <3>3. job[1].op = "vec" => job[1].id.kind # "entity" /\ job[1].id.of \in OfSession
      BY <3>2, KeysAre
    <3> QED  BY <3>2, <3>3, <2>1, <1>1, <1>2, <1>3, <1>4, <1>5, <1>8
  <2> QED  BY <2>2, <2>3
<1>9. CASE ~Deleting(job) /\ ~Wiping(job)
  <2>1. job[1] \in RequestCalls
    BY <1>9, <1>3, <1>4 DEF Form, RequestForm
  <2>2. \/ job[1].op \in {"ensure", "embed", "tell", "entity", "similar", "node"} /\ job[1].id \in NodeId
        \/ job[1].op \in {"link", "relate"}
    BY <2>1, OpsAre
  <2> QED  BY <2>2, <1>1, <1>2, <1>3, <1>4, <1>5, <1>9
<1> QED  BY <1>7, <1>8, <1>9

\* A call that only reads.
LEMMA ReadsKeep ==
  ASSUME MemoryInv, Reads, NEW job
  PROVE  /\ KeepsRows /\ StoresKept /\ Fades /\ VectorsStay(job)
         /\ \A n \in DOMAIN graph'.node : n \in DOMAIN graph.node /\ graph'.node[n] = graph.node[n]
  BY DEF MemoryInv, StoresTyped, Reads, StoresKept, Fades, VectorsStay

\* Nodes go, and nothing else happens to the stores.
LEMMA NodesGo ==
  ASSUME MemoryInv, Shrank(graph', graph, stack.graph), UNCHANGED <<vec, history>>, NEW job
  PROVE  /\ StoresKept /\ Fades /\ VectorsStay(job)
         /\ \A n \in DOMAIN graph'.node : n \in DOMAIN graph.node /\ graph'.node[n] = graph.node[n]
  BY DEF MemoryInv, StoresTyped, StoresKept, Fades, VectorsStay, Shrank

\* A node without a source is stored.
LEMMA NodeComes ==
  ASSUME MemoryInv, NEW n, Wrote(graph', graph, stack.graph, n, NoSource),
         UNCHANGED <<vec, history>>, NEW job
  PROVE  StoresKept /\ Fades /\ VectorsStay(job)
<1>1. AreVectors(vec)
  BY DEF MemoryInv, StoresTyped
<1>2. ASSUME NEW m \in DOMAIN graph'.node, graph'.node[m].source \in RowId
      PROVE  m \in DOMAIN graph.node /\ graph'.node[m].source = graph.node[m].source
  <2>1. CASE m # n
    BY <2>1, <1>2 DEF Wrote
  <2>2. CASE m = n
    BY <2>2, <1>2, NoSourceIs DEF Wrote
  <2> QED  BY <2>1, <2>2
<1> QED  BY <1>1, <1>2 DEF StoresKept, Fades, VectorsStay, Wrote

\* Nothing takes the place of the call.
LEMMA NothingMore ==
  /\ <<>> \in Seq(CallType)
  /\ \A p \in 1..Len(<<>>) : FALSE
  OBVIOUS

\* The types of the client.
LEMMA ClientTyped ==
  ASSUME MemoryInv
  PROVE  client \in ClientType /\ client.session \in Session /\ client.ends \in Seq(NodeId)
  BY DEF MemoryInv, JobsOK, ClientType

-----------------------------------------------------------------------------
\* The calls one by one: the owner is checked.
LEMMA CheckAccepts ==
  ASSUME MemoryInv, CheckOwner, Owned(Next1.id)
  PROVE  MemoryInv'
<1>1. PICK job : job = client.jobs[1]
  OBVIOUS
<1>2. client.jobs # <<>> /\ Next1.op = "check" /\ Reads /\ Then(<<>>)
  BY DEF CheckOwner, Does
<1>3. Next1 = job[1] /\ Deleting(job) /\ ~Wiping(job) /\ job[1].id = Of(job) /\ job[1].op = "check"
  BY <1>1, <1>2, HeadCall
<1>4. Of(job) \in OfSession
  BY <1>3 DEF Owned, OfSession
<1>5. DeletionStep(job, <<>>) /\ WipeStep(job, <<>>) /\ RequestStep(job, <<>>) /\ Pops(job, <<>>)
  BY <1>3, <1>4, NothingMore DEF DeletionStep, WipeStep, RequestStep, Pops
<1>6. KeepsRows /\ StoresKept /\ Fades /\ VectorsStay(job)
  BY <1>2, ReadsKeep
<1>7. Proceed(<<>>, client.ends) /\ client.ends \in Seq(NodeId)
  BY <1>2, ClientTyped DEF Then
<1>8. PICK ends \in Seq(NodeId) : Proceed(<<>>, ends)
  BY <1>7
<1> QED  BY <1>1, <1>2, <1>3, <1>5, <1>6, <1>8, NothingMore, ProceedKeeps

\* The nodes of a row are looked for.
LEMMA FindNodesKeeps ==
  ASSUME MemoryInv, FindNodes
  PROVE  MemoryInv'
<1>1. PICK job : job = client.jobs[1]
  OBVIOUS
<1>2. client.jobs # <<>> /\ Next1.op = "find" /\ Reads /\ Then(Calls("node", BySource(Next1.id)))
  BY DEF FindNodes, Does
<1>3. Next1 = job[1] /\ job[1].op = "find" /\ (Deleting(job) \/ Wiping(job))
  BY <1>1, <1>2, HeadCall
<1>4. PICK r : r = Next1.id
  OBVIOUS
<1>5. stack \in Stacks /\ IsGraph(graph, stack.graph)
  BY DEF MemoryInv, StoresTyped
<1>6. /\ BySource(r) \subseteq DOMAIN graph.node
      /\ Findable => BySource(r) = {n \in DOMAIN graph.node : graph.node[n].source = r}
  BY <1>5, Finds
<1>7. IsFiniteSet(BySource(r)) /\ BySource(r) \subseteq NodeId
  BY <1>5, <1>6, FS_Subset DEF IsGraph
<1>8. PICK S : S = BySource(r)
  OBVIOUS
<1>9. PICK more : more = Calls("node", S)
  OBVIOUS
<1>10. /\ more \in Seq(CallType) /\ \A p \in 1..Len(more) : more[p] \in NodeCalls
       /\ \A n \in S : Has(more, Call("node", n))
  <2>1. \A n \in S : Call("node", n) \in NodeCalls /\ Call("node", n) \in CallType
    BY <1>7, <1>8, OpsAre DEF NodeCalls
  <2>2. IsFiniteSet(S)
    BY <1>7, <1>8
  <2> QED  BY <2>1, <2>2, <1>9, CallsIs
<1>11. graph' = graph
  BY <1>2 DEF Reads
<1>12. Pops(job, more)
  BY <1>3, <1>4, <1>6, <1>8, <1>10, <1>11 DEF Pops
<1>13. KeepsRows /\ StoresKept /\ Fades /\ VectorsStay(job)
       /\ \A n \in DOMAIN graph'.node : n \in DOMAIN graph.node /\ graph'.node[n] = graph.node[n]
  BY <1>2, ReadsKeep
<1>14. DeletionStep(job, more) /\ WipeStep(job, more) /\ RequestStep(job, more)
  BY <1>3, <1>10, <1>13 DEF DeletionStep, WipeStep, RequestStep
<1>15. PICK ends \in Seq(NodeId) : Proceed(more, ends)
  BY <1>2, <1>4, <1>8, <1>9, ClientTyped DEF Then
<1> QED  BY <1>1, <1>2, <1>3, <1>10, <1>12, <1>13, <1>14, <1>15, ProceedKeeps

\* A call that nothing takes the place of.
LEMMA StepsOf ==
  ASSUME NEW job, job[1].op \notin {"check", "list", "graph", "messages"},
         Wiping(job) => \A n \in DOMAIN graph'.node : n \in DOMAIN graph.node /\ graph'.node[n] = graph.node[n]
  PROVE  DeletionStep(job, <<>>) /\ WipeStep(job, <<>>) /\ RequestStep(job, <<>>)
  BY NothingMore DEF DeletionStep, WipeStep, RequestStep

\* A call is done, and nothing takes its place.
LEMMA DoneKeeps ==
  ASSUME MemoryInv, client.jobs # <<>>, NEW job, job = client.jobs[1], Then(<<>>),
         KeepsRows, StoresKept, Fades, VectorsStay(job), Pops(job, <<>>),
         job[1].op \notin {"row", "rows"},
         DeletionStep(job, <<>>), WipeStep(job, <<>>), RequestStep(job, <<>>)
  PROVE  MemoryInv'
<1>1. PICK ends \in Seq(NodeId) : Proceed(<<>>, ends)
  BY ClientTyped DEF Then
<1> QED  BY <1>1, NothingMore, ProceedKeeps

\* A node is deleted.
LEMMA RemoveNodeKeeps ==
  ASSUME MemoryInv, RemoveNode
  PROVE  MemoryInv'
<1>1. PICK job : job = client.jobs[1]
  OBVIOUS
<1>2. client.jobs # <<>> /\ Next1.op = "node" /\ Then(<<>>) /\ KeepsRows /\ UNCHANGED <<vec, history>>
  BY DEF RemoveNode, Does
<1>3. Next1 = job[1] /\ job[1].op = "node"
  BY <1>1, <1>2, HeadCall
<1>4. PICK n : n = Next1.id
  OBVIOUS
<1>5. stack \in Stacks /\ IsGraph(graph, stack.graph)
  BY DEF MemoryInv, StoresTyped
<1>6. graph' = DeleteNode(n)
  BY <1>4 DEF RemoveNode
<1>7. Shrank(graph', graph, stack.graph) /\ n \notin DOMAIN graph'.node
  BY <1>5, <1>6, Deletes
<1>8. /\ StoresKept /\ Fades /\ VectorsStay(job)
      /\ \A m \in DOMAIN graph'.node : m \in DOMAIN graph.node /\ graph'.node[m] = graph.node[m]
  BY <1>2, <1>7, NodesGo
<1>9. Pops(job, <<>>)
  BY <1>3, <1>4, <1>7 DEF Pops
<1>10. DeletionStep(job, <<>>) /\ WipeStep(job, <<>>) /\ RequestStep(job, <<>>)
  BY <1>3, <1>8, StepsOf
<1> QED  BY <1>1, <1>2, <1>3, <1>8, <1>9, <1>10, DoneKeeps

\* A vector is deleted.
LEMMA RemoveVectorKeeps ==
  ASSUME MemoryInv, RemoveVector
  PROVE  MemoryInv'
<1>1. PICK job : job = client.jobs[1]
  OBVIOUS
<1>2. client.jobs # <<>> /\ Next1.op = "vec" /\ Then(<<>>) /\ KeepsRows /\ UNCHANGED <<graph, history>>
  BY DEF RemoveVector, Does
<1>3. Next1 = job[1] /\ job[1].op = "vec"
  BY <1>1, <1>2, HeadCall
<1>4. PICK k : k = Next1.id
  OBVIOUS
<1>5. AreVectors(vec) /\ IsGraph(graph, stack.graph)
  BY DEF MemoryInv, StoresTyped
<1>6. vec' = V!DeleteEmbedding(vec, k)
  BY <1>4 DEF RemoveVector
<1>7. AreVectors(vec') /\ DOMAIN vec' = DOMAIN vec \ {k} /\ \A q \in DOMAIN vec' : vec'[q] = vec[q]
  <2>1. PICK v, w : v = vec /\ w = V!DeleteEmbedding(v, k)
    OBVIOUS
  <2>2. AreVectors(v)
    BY <1>5, <2>1
  <2>3. VectorOut(w, v, k)
    BY ONLY <2>1, <2>2, VectorGone
  <2> QED  BY <1>6, <2>1, <2>3 DEF VectorOut
<1>8. StoresKept /\ Fades /\ VectorsStay(job)
  BY <1>2, <1>3, <1>4, <1>5, <1>7 DEF StoresKept, Fades, VectorsStay
<1>9. Pops(job, <<>>)
  BY <1>3, <1>4, <1>7 DEF Pops
<1>10. DeletionStep(job, <<>>) /\ WipeStep(job, <<>>) /\ RequestStep(job, <<>>)
  BY <1>2, <1>3, StepsOf
<1> QED  BY <1>1, <1>2, <1>3, <1>8, <1>9, <1>10, DoneKeeps

\* The graph of a session is deleted.
LEMMA RemoveGraphKeeps ==
  ASSUME MemoryInv, RemoveGraph
  PROVE  MemoryInv'
<1>1. PICK job : job = client.jobs[1]
  OBVIOUS
<1>2. client.jobs # <<>> /\ Next1.op = "graph" /\ Then(<<>>) /\ KeepsRows /\ UNCHANGED <<vec, history>>
  BY DEF RemoveGraph, Does
<1>3. Next1 = job[1] /\ job[1].op = "graph" /\ ~Deleting(job) /\ Wiping(job)
  BY <1>1, <1>2, HeadCall
<1>4. PICK s : s = client.session
  OBVIOUS
<1>5. stack \in Stacks /\ IsGraph(graph, stack.graph)
  BY DEF MemoryInv, StoresTyped
<1>6. graph' = DeleteGraphBySessionID(s)
  BY <1>4 DEF RemoveGraph
<1>7. /\ Shrank(graph', graph, stack.graph)
      /\ Findable => \A m \in DOMAIN graph'.node : graph'.node[m].session # s
  BY <1>5, <1>6, Deletes
<1>8. /\ StoresKept /\ Fades /\ VectorsStay(job)
      /\ \A m \in DOMAIN graph'.node : m \in DOMAIN graph.node /\ graph'.node[m] = graph.node[m]
  BY <1>2, <1>7, NodesGo
<1>9. Pops(job, <<>>)
  BY <1>3 DEF Pops
<1>10. DeletionStep(job, <<>>) /\ WipeStep(job, <<>>) /\ RequestStep(job, <<>>)
  BY <1>3, <1>4, <1>7, <1>8, NothingMore DEF DeletionStep, WipeStep, RequestStep
<1> QED  BY <1>1, <1>2, <1>3, <1>8, <1>9, <1>10, DoneKeeps

\* The messages of a session are deleted.
LEMMA RemoveMessagesKeeps ==
  ASSUME MemoryInv, RemoveMessages
  PROVE  MemoryInv'
<1>1. PICK job : job = client.jobs[1]
  OBVIOUS
<1>2. /\ client.jobs # <<>> /\ Next1.op = "messages" /\ Then(<<>>) /\ KeepsRows
      /\ UNCHANGED <<vec, graph>> /\ history' = history \ {client.session}
  BY DEF RemoveMessages, Does
<1>3. Next1 = job[1] /\ job[1].op = "messages" /\ ~Deleting(job) /\ Wiping(job)
  BY <1>1, <1>2, HeadCall
<1>4. AreVectors(vec) /\ IsGraph(graph, stack.graph)
  BY DEF MemoryInv, StoresTyped
<1>5. StoresKept /\ Fades /\ VectorsStay(job)
  BY <1>2, <1>4 DEF StoresKept, Fades, VectorsStay
<1>6. Pops(job, <<>>)
  BY <1>3 DEF Pops
<1>7. DeletionStep(job, <<>>) /\ WipeStep(job, <<>>) /\ RequestStep(job, <<>>)
  BY <1>2, <1>3, NothingMore DEF DeletionStep, WipeStep, RequestStep
<1> QED  BY <1>1, <1>2, <1>3, <1>5, <1>6, <1>7, DoneKeeps

\* The nodes of a name are looked for.
LEMMA ForgetEntityKeeps ==
  ASSUME MemoryInv, ForgetEntity
  PROVE  MemoryInv'
<1>1. PICK job : job = client.jobs[1]
  OBVIOUS
<1>2. client.jobs # <<>> /\ Next1.op = "entity" /\ Reads /\ Then(Calls("node", ByEntity(Next1.id[2], "")))
  BY DEF ForgetEntity, Does
<1>3. Next1 = job[1] /\ job[1].op = "entity" /\ ~Deleting(job) /\ ~Wiping(job)
  BY <1>1, <1>2, HeadCall
<1>4. PICK S : S = ByEntity(Next1.id[2], "")
  OBVIOUS
<1>5. stack \in Stacks /\ IsGraph(graph, stack.graph)
  BY DEF MemoryInv, StoresTyped
<1>6. IsFiniteSet(S) /\ S \subseteq NodeId
  <2>1. PICK name : name = Next1.id[2]
    OBVIOUS
  <2>2. S \subseteq DOMAIN graph.node
    BY <2>1, <1>4, <1>5, Finds
  <2> QED  BY <2>2, <1>5, FS_Subset DEF IsGraph
<1>7. PICK more : more = Calls("node", S)
  OBVIOUS
<1>8. more \in Seq(CallType) /\ \A p \in 1..Len(more) : more[p] \in RequestCalls
  <2>1. \A n \in S : Call("node", n) \in RequestCalls /\ Call("node", n) \in CallType
    <3>1. \A n \in S : Call("node", n) \in NodeCalls
      BY <1>6 DEF NodeCalls
    <3> QED  BY <3>1, OpsAre
  <2> QED  BY <2>1, <1>6, <1>7, CallsIs
<1>9. Pops(job, more)
  BY <1>3 DEF Pops
<1>10. KeepsRows /\ StoresKept /\ Fades /\ VectorsStay(job)
  BY <1>2, ReadsKeep
<1>11. DeletionStep(job, more) /\ WipeStep(job, more) /\ RequestStep(job, more)
  BY <1>3, <1>8 DEF DeletionStep, WipeStep, RequestStep
<1>12. PICK ends \in Seq(NodeId) : Proceed(more, ends)
  BY <1>2, <1>4, <1>7, ClientTyped DEF Then
<1> QED  BY <1>1, <1>2, <1>3, <1>8, <1>9, <1>10, <1>11, <1>12, ProceedKeeps

\* The vector of a related node.
LEMMA EmbedNodeKeeps ==
  ASSUME MemoryInv, EmbedNode
  PROVE  MemoryInv'
<1>1. PICK job : job = client.jobs[1]
  OBVIOUS
<1>2. client.jobs # <<>> /\ Next1.op = "embed" /\ Then(<<>>) /\ KeepsRows /\ UNCHANGED <<graph, history>>
  BY DEF EmbedNode, Does
<1>3. Next1 = job[1] /\ job[1].op = "embed" /\ ~Deleting(job) /\ ~Wiping(job) /\ job[1].id \in NodeId
  BY <1>1, <1>2, HeadCall
<1>4. PICK n \in NodeId : n = Next1.id
  BY <1>3
<1>5. AreVectors(vec) /\ IsGraph(graph, stack.graph)
  BY DEF MemoryInv, StoresTyped
<1>6. PICK x : x = Entry({n[2]}, n, "none", client.session)
  OBVIOUS
<1>7. x \in EntryType
  <2>1. {n[2]} \in SUBSET Name
    BY DEF NodeId
  <2>2. client.session \in Session
    BY ClientTyped
  <2> QED  BY <2>1, <2>2, <1>6 DEF Entry, EntryType
<1>8. PICK k \in Key : k = Vector(n, "entity") /\ k.kind = "entity"
  BY KeysAre
<1>9. vec' = V!StoreEmbedding(vec, k, x)
  BY <1>4, <1>6, <1>8 DEF EmbedNode
<1>10. /\ AreVectors(vec') /\ DOMAIN vec' = DOMAIN vec \cup {k}
       /\ \A q \in DOMAIN vec : q # k => vec'[q] = vec[q]
  <2>1. PICK v, w : v = vec /\ w = V!StoreEmbedding(v, k, x)
    OBVIOUS
  <2>2. AreVectors(v) /\ x \in EntryType
    BY <1>5, <1>7, <2>1
  <2>3. VectorPut(w, v, k, x)
    BY ONLY <1>8, <2>1, <2>2, VectorStored
  <2> QED  BY <1>9, <2>1, <2>3 DEF VectorPut
<1>11. StoresKept /\ Fades /\ VectorsStay(job)
  BY <1>2, <1>5, <1>8, <1>10 DEF StoresKept, Fades, VectorsStay
<1>12. Pops(job, <<>>)
  BY <1>3 DEF Pops
<1>13. DeletionStep(job, <<>>) /\ WipeStep(job, <<>>) /\ RequestStep(job, <<>>)
  BY <1>3, StepsOf
<1> QED  BY <1>1, <1>2, <1>3, <1>11, <1>12, <1>13, DoneKeeps

\* A relationship is stored.
LEMMA EdgesKeep ==
  ASSUME MemoryInv, NEW e, NEW edge, graph' = Connect(e, edge), UNCHANGED <<vec, history>>, NEW job
  PROVE  StoresKept /\ Fades /\ VectorsStay(job)
<1>1. stack \in Stacks /\ IsGraph(graph, stack.graph) /\ AreVectors(vec)
  BY DEF MemoryInv, StoresTyped
<1>2. IsGraph(graph', stack.graph) /\ graph'.node = graph.node
  BY <1>1, ConnectIs
<1> QED  BY <1>1, <1>2 DEF StoresKept, Fades, VectorsStay

\* Two names are related, or told to be.
LEMMA RelateKeeps ==
  ASSUME MemoryInv, Relate \/ TellEdge
  PROVE  MemoryInv'
<1>1. PICK job : job = client.jobs[1]
  OBVIOUS
<1>2. /\ client.jobs # <<>> /\ Next1.op \in {"relate", "link"} /\ Then(<<>>) /\ KeepsRows
      /\ UNCHANGED <<vec, history>>
  BY DEF Relate, TellEdge, Does
<1>3. Next1 = job[1] /\ job[1].op \in {"relate", "link"} /\ ~Deleting(job) /\ ~Wiping(job)
  BY <1>1, <1>2, HeadCall
<1>4. PICK e, edge : graph' = Connect(e, edge)
  BY DEF Relate, TellEdge
<1>5. StoresKept /\ Fades /\ VectorsStay(job)
  BY <1>2, <1>4, EdgesKeep
<1>6. Pops(job, <<>>)
  BY <1>3 DEF Pops
<1>7. DeletionStep(job, <<>>) /\ WipeStep(job, <<>>) /\ RequestStep(job, <<>>)
  BY <1>3, StepsOf
<1> QED  BY <1>1, <1>2, <1>3, <1>5, <1>6, <1>7, DoneKeeps

\* A node without a source, for what was related or told.
LEMMA NodeStored ==
  ASSUME MemoryInv, NEW n \in NodeId, NEW session \in Session,
         graph' = StoreNode(n, Node(n[2], session, NoSource)),
         UNCHANGED <<vec, history>>, NEW job
  PROVE  StoresKept /\ Fades /\ VectorsStay(job)
<1>1. stack \in Stacks /\ IsGraph(graph, stack.graph)
  BY DEF MemoryInv, StoresTyped
<1>2. PICK v : v = Node(n[2], session, NoSource)
  OBVIOUS
<1>3. v \in NodeValue /\ v.source = NoSource
  <2>1. PICK name \in Name : name = n[2]
    BY DEF NodeId
  <2>2. \A so \in RowId \cup {NoSource} :
          Node(name, session, so) \in NodeValue /\ Node(name, session, so).source = so
    BY NodesAre
  <2> QED  BY <2>1, <2>2, <1>2
<1>4. Wrote(graph', graph, stack.graph, n, NoSource)
  <2>1. Wrote(StoreNode(n, v), graph, stack.graph, n, v.source)
    BY <1>1, <1>3, Stores
  <2> QED  BY <2>1, <1>2, <1>3
<1> QED  BY <1>4, NodeComes

\* The node of what is told is stored.
LEMMA TellNodeKeeps ==
  ASSUME MemoryInv, TellNode
  PROVE  MemoryInv'
<1>1. PICK job : job = client.jobs[1]
  OBVIOUS
<1>2. client.jobs # <<>> /\ Next1.op = "tell" /\ Then(<<>>) /\ KeepsRows /\ UNCHANGED <<vec, history>>
  BY DEF TellNode, Does
<1>3. Next1 = job[1] /\ job[1].op = "tell" /\ ~Deleting(job) /\ ~Wiping(job) /\ job[1].id \in NodeId
  BY <1>1, <1>2, HeadCall
<1>4. PICK n \in NodeId : n = Next1.id
  BY <1>3
<1>5. PICK s \in Session : s = client.session
  BY ClientTyped
<1>6. graph' = StoreNode(n, Node(n[2], s, NoSource))
  BY <1>4, <1>5 DEF TellNode
<1>7. StoresKept /\ Fades /\ VectorsStay(job)
  BY <1>2, <1>6, NodeStored
<1>8. Pops(job, <<>>)
  BY <1>3 DEF Pops
<1>9. DeletionStep(job, <<>>) /\ WipeStep(job, <<>>) /\ RequestStep(job, <<>>)
  BY <1>3, StepsOf
<1> QED  BY <1>1, <1>2, <1>3, <1>7, <1>8, <1>9, DoneKeeps

\* The node of a name is found, or made and then embedded.
LEMMA EnsureNodeKeeps ==
  ASSUME MemoryInv, EnsureNode
  PROVE  MemoryInv'
<1>1. PICK job : job = client.jobs[1]
  OBVIOUS
<1>2. client.jobs # <<>> /\ Next1.op = "ensure" /\ KeepsRows /\ UNCHANGED <<vec, history>>
  BY DEF EnsureNode, Does
<1>3. Next1 = job[1] /\ job[1].op = "ensure" /\ ~Deleting(job) /\ ~Wiping(job) /\ job[1].id \in NodeId
  BY <1>1, <1>2, HeadCall
<1>4. PICK n \in NodeId : n = Next1.id
  BY <1>3
<1>5. stack \in Stacks /\ IsGraph(graph, stack.graph) /\ AreVectors(vec)
  BY DEF MemoryInv, StoresTyped
<1>6. \A m \in NodeId : Append(client.ends, m) \in Seq(NodeId)
  BY ClientTyped
<1>7. PICK s \in Session : s = client.session
  BY ClientTyped
<1>8. ASSUME NEW m \in Known(n[2]), Proceed(<<>>, Append(client.ends, m)), graph' = graph
      PROVE  MemoryInv'
  <2>1. StoresKept /\ Fades /\ VectorsStay(job)
    BY <1>2, <1>5, <1>8 DEF StoresKept, Fades, VectorsStay
  <2>2. Pops(job, <<>>)
    BY <1>3 DEF Pops
  <2>3. DeletionStep(job, <<>>) /\ WipeStep(job, <<>>) /\ RequestStep(job, <<>>)
    BY <1>3, StepsOf
  <2>4. m \in NodeId
    <3>1. PICK name : name = n[2]
      OBVIOUS
    <3>2. m \in ByName(name)
      BY <1>8, <3>1 DEF Known
    <3>3. m \in DOMAIN graph.node
      BY <3>2, <1>5, Finds
    <3> QED  BY <3>3, <1>5 DEF IsGraph
  <2>5. PICK ends \in Seq(NodeId) : Proceed(<<>>, ends)
    BY <2>4, <1>6, <1>8
  <2> QED  BY <1>1, <1>2, <1>3, <2>1, <2>2, <2>3, <2>5, NothingMore, ProceedKeeps
<1>9. ASSUME graph' = StoreNode(n, Node(n[2], s, NoSource)),
             Proceed(<<Call("embed", n)>>, Append(client.ends, n))
      PROVE  MemoryInv'
  <2>1. StoresKept /\ Fades /\ VectorsStay(job)
    BY <1>2, <1>9, NodeStored
  <2>2. PICK more : more = <<Call("embed", n)>>
    OBVIOUS
  <2>3. more \in Seq(CallType) /\ \A p \in 1..Len(more) : more[p] \in RequestCalls
    <3>1. Call("embed", n) \in CallType /\ Call("embed", n) \in RequestCalls
      BY DEF Call, CallType, RequestCalls
    <3> QED  BY <3>1, <2>2
  <2>4. Pops(job, more)
    BY <1>3 DEF Pops
  <2>5. DeletionStep(job, more) /\ WipeStep(job, more) /\ RequestStep(job, more)
    BY <1>3, <2>3 DEF DeletionStep, WipeStep, RequestStep
  <2>6. PICK ends \in Seq(NodeId) : Proceed(more, ends)
    BY <2>2, <1>6, <1>9
  <2> QED  BY <1>1, <1>2, <1>3, <2>1, <2>3, <2>4, <2>5, <2>6, ProceedKeeps
<1> QED  BY <1>4, <1>7, <1>8, <1>9 DEF EnsureNode

\* What is in the listing of a session's rows.
LEMMA TracesAre ==
  ASSUME NEW r
  PROVE  /\ \A k \in 1..3 : Traces(r)[k] \in Its(r)
         /\ \A c \in Its(r) : \E k \in 1..3 : c = Traces(r)[k]
<1>1. PICK a, b, c : a = Call("find", r) /\ b = Call("vec", Vector(r, "doc")) /\ c = Call("vec", Vector(r, "chunk"))
  OBVIOUS
<1>2. PICK t : t = <<a>> \o <<b, c>>
  OBVIOUS
<1>3. t[1] = a /\ t[2] = b /\ t[3] = c
  BY <1>2
<1>4. Traces(r) = t
  BY <1>1, <1>2 DEF Traces, Vectors
<1>5. Its(r) = {a, b, c}
  BY <1>1 DEF Its
<1> HIDE DEF Its
<1>6. \A k \in 1..3 : k = 1 \/ k = 2 \/ k = 3
  OBVIOUS
<1>7. 1 \in 1..3 /\ 2 \in 1..3 /\ 3 \in 1..3
  OBVIOUS
<1> QED  BY <1>3, <1>4, <1>5, <1>6, <1>7

\* The calls about a row are calls.
LEMMA ItsTyped ==
  ASSUME NEW r \in RowId
  PROVE  Its(r) \subseteq CallType
<1>1. Vector(r, "doc") \in Key /\ Vector(r, "chunk") \in Key
  BY KeysAre
<1> QED  BY <1>1 DEF Its, Call, CallType

\* The three calls of each row, numbered through.
LEMMA Thirds ==
  /\ \A k \in Nat, n \in Nat : k \in 1..3 * n => (k + 2) \div 3 \in 1..n /\ ((k - 1) % 3) + 1 \in 1..3
  /\ \A p \in Nat, n \in Nat, j \in 1..3 :
       p \in 1..n => LET k == 3 * (p - 1) + j
                     IN  k \in 1..3 * n /\ (k + 2) \div 3 = p /\ ((k - 1) % 3) + 1 = j
<1>1. ASSUME NEW k \in Nat, NEW n \in Nat, k \in 1..3 * n
      PROVE  (k + 2) \div 3 \in 1..n /\ ((k - 1) % 3) + 1 \in 1..3
  BY <1>1
<1>2. ASSUME NEW p \in Nat, NEW n \in Nat, NEW j \in 1..3, p \in 1..n
      PROVE  LET k == 3 * (p - 1) + j
             IN  k \in 1..3 * n /\ (k + 2) \div 3 = p /\ ((k - 1) % 3) + 1 = j
  BY <1>2
<1> QED  BY <1>1, <1>2

\* Three calls for each of the rows, one row after the other.
Listing(rows) == [k \in 1..3 * Len(rows) |-> Traces(rows[(k + 2) \div 3])[((k - 1) % 3) + 1]]

\* The listing of a set of rows has all the calls about each of them, and no others.
LEMMA ListingIs ==
  ASSUME NEW S, IsFiniteSet(S), S \subseteq RowId, NEW rows, rows = SetToSeq(S),
         NEW more, more = Listing(rows)
  PROVE  /\ more \in Seq(CallType)
         /\ \A p \in 1..Len(more) : \E r \in S : more[p] \in Its(r)
         /\ \A r \in S : \A c \in Its(r) : Has(more, c)
<1>1. rows \in Seq(S) /\ \A x \in S : \E k \in 1..Len(rows) : rows[k] = x
  BY InSequence
<1>2. PICK n \in Nat : n = Len(rows)
  BY <1>1
<1>3. 3 * n \in Nat
  BY <1>2
<1>4. ASSUME NEW k \in 1..3 * n
      PROVE  \E r \in S : more[k] \in Its(r)
  <2>1. k \in Nat
    BY <1>3, <1>4
  <2>2. (k + 2) \div 3 \in 1..n /\ ((k - 1) % 3) + 1 \in 1..3
    BY <2>1, <1>4, Thirds
  <2>3. PICK p \in 1..n, j \in 1..3 : p = (k + 2) \div 3 /\ j = ((k - 1) % 3) + 1
    BY <2>2
  <2>4. more[k] = Traces(rows[p])[j] /\ rows[p] \in S
    BY <2>3, <1>1, <1>2, <1>4 DEF Listing
  <2> QED  BY <2>3, <2>4, TracesAre
<1>5. more \in Seq(CallType) /\ Len(more) = 3 * n
  <2>1. \A k \in 1..3 * n : more[k] \in CallType
    BY <1>4, ItsTyped
  <2> QED  BY <2>1, <1>2, <1>3 DEF Listing
<1>6. ASSUME NEW r \in S, NEW c \in Its(r)
      PROVE  Has(more, c)
  <2>1. PICK p \in 1..n : rows[p] = r
    BY <1>1, <1>2
  <2>2. PICK j \in 1..3 : c = Traces(r)[j]
    BY TracesAre
  <2>3. PICK k : k = 3 * (p - 1) + j
    OBVIOUS
  <2>4. p \in Nat
    BY <1>2
  <2>5. k \in 1..3 * n /\ (k + 2) \div 3 = p /\ ((k - 1) % 3) + 1 = j
    BY <2>3, <2>4, <1>2, Thirds
  <2>6. more[k] = c
    BY <2>1, <2>2, <2>5, <1>2 DEF Listing
  <2> QED  BY <2>5, <2>6, <1>5 DEF Has
<1> QED  BY <1>4, <1>5, <1>6

\* The rows of a session are listed.
LEMMA ListRowsKeeps ==
  ASSUME MemoryInv, ListRows
  PROVE  MemoryInv'
<1>1. PICK job : job = client.jobs[1]
  OBVIOUS
<1>2. PICK S : S = OfSession
  OBVIOUS
<1>3. PICK rows : rows = SetToSeq(S)
  OBVIOUS
<1>4. PICK more : more = Listing(rows)
  OBVIOUS
<1>5. client.jobs # <<>> /\ Next1.op = "list" /\ Reads /\ Then(more)
  BY <1>2, <1>3, <1>4 DEF ListRows, Does, Listing
<1>6. Next1 = job[1] /\ job[1].op = "list" /\ ~Deleting(job) /\ Wiping(job)
  BY <1>1, <1>5, HeadCall
<1>7. AreRows(row)
  BY DEF MemoryInv, StoresTyped
<1>8. S \subseteq RowId /\ IsFiniteSet(S)
  BY <1>2, <1>7, FS_Subset DEF AreRows, OfSession
<1>9. /\ more \in Seq(CallType)
      /\ \A p \in 1..Len(more) : \E r \in S : more[p] \in Its(r)
      /\ \A r \in S : \A c \in Its(r) : Has(more, c)
  BY <1>3, <1>4, <1>8, ListingIs
<1>10. Pops(job, more)
  BY <1>6 DEF Pops
<1>11. /\ KeepsRows /\ StoresKept /\ Fades /\ VectorsStay(job)
       /\ \A n \in DOMAIN graph'.node : n \in DOMAIN graph.node /\ graph'.node[n] = graph.node[n]
  BY <1>5, ReadsKeep
<1>12. DeletionStep(job, more) /\ WipeStep(job, more) /\ RequestStep(job, more)
  BY <1>2, <1>6, <1>9, <1>11 DEF DeletionStep, WipeStep, RequestStep
<1>13. PICK ends \in Seq(NodeId) : Proceed(more, ends)
  BY <1>5, ClientTyped DEF Then
<1> QED  BY <1>1, <1>5, <1>6, <1>9, <1>10, <1>11, <1>12, <1>13, ProceedKeeps

\* The jobs after the first are waiting ones.
LEMMA LaterJobs ==
  ASSUME JobsOK, client.jobs # <<>>
  PROVE  /\ Tail(client.jobs) \in Seq(Seq(CallType))
         /\ \A j \in 1..Len(Tail(client.jobs)) : LaterOK(Tail(client.jobs)[j])
<1>1. client \in ClientType
  BY DEF JobsOK
<1>2. /\ Tail(client.jobs) \in Seq(Seq(CallType))
      /\ \A j \in 1..Len(Tail(client.jobs)) :
           j + 1 \in 2..Len(client.jobs) /\ Tail(client.jobs)[j] = client.jobs[j + 1]
  BY <1>1, JobsAre
<1>3. \A j \in 2..Len(client.jobs) : LaterOK(client.jobs[j])
  BY DEF JobsOK
<1> QED  BY <1>2, <1>3

\* A job is done with or refused, and those that are left come later; rows that
\* had no traces may go with it.
LEMMA LeavesKeeps ==
  ASSUME MemoryInv, client.jobs # <<>>,
         NEW jobs \in Seq(Seq(CallType)), NEW ends \in Seq(NodeId), Leaves(jobs, ends),
         \A j \in 1..Len(jobs) : LaterOK(jobs[j]),
         UNCHANGED <<vec, graph, history>>,
         AreRows(row'), DOMAIN row' \subseteq DOMAIN row,
         \A r \in DOMAIN row' : row'[r] = row[r] /\ ~Condemned(r),
         gone' = gone \cup (DOMAIN row \ DOMAIN row'),
         raced \subseteq raced', raced' \subseteq gone',
         \A r \in DOMAIN row \ DOMAIN row' : r \notin raced' =>
           /\ Unraced(r)
           /\ Vector(r, "doc") \notin DOMAIN vec /\ Vector(r, "chunk") \notin DOMAIN vec
           /\ Findable => \A n \in DOMAIN graph.node : graph.node[n].source # r
  PROVE  MemoryInv'
<1>1. StoresTyped /\ IngOK /\ RowsOK /\ VecOK /\ LostOK /\ OverlapOK /\ JobsOK /\ FoundOK
  BY DEF MemoryInv
<1>2. client \in ClientType
  BY <1>1 DEF JobsOK
<1>3. /\ client' \in ClientType /\ client'.jobs = jobs
      /\ jobs # <<>> => client'.session = client.session /\ overlap' = overlap
      /\ jobs = <<>> => overlap' = {}
      /\ stack' = stack /\ ing' = ing /\ blind' = blind
  BY <1>2, LeavesIs
<1>4. StoresTyped'
  BY <1>1, <1>3 DEF StoresTyped, AreRows
<1>5. IngOK'
  BY <1>1, <1>3 DEF IngOK, At
<1>6. DOMAIN row' \cup gone' = DOMAIN row \cup gone
  OBVIOUS
<1>7. RowsOK'
  <2>1. gone' \cap DOMAIN row' = {}
    BY <1>1 DEF RowsOK
  <2>2. \A r \in DOMAIN row' \cup gone' :
          r[1] <= ing'.i /\ (r[1] = ing'.i => ~(ing'.at = "store") /\ (ing'.at = "split" => r[2] = "input"))
    BY <1>1, <1>3, <1>6 DEF RowsOK, At
  <2>3. ing'.at \notin {"idle", "store", "split"} => <<ing'.i, "chunk">> \in DOMAIN row' \cup gone'
    BY <1>1, <1>3, <1>6 DEF RowsOK, Chunk
  <2>4. \A r \in DOMAIN row' :
          /\ ~(ing'.at = "idle") /\ r[1] = ing'.i =>
               /\ row'[r].names = ing'.offer.names
               /\ row'[r].session = ing'.offer.session /\ row'[r].tier = ing'.offer.tier
          /\ row'[r].done => r[2] = "chunk" /\ (r[1] = ing'.i => ing'.at = "idle")
    BY <1>1, <1>3 DEF RowsOK, At
  <2> QED  BY <2>1, <2>2, <2>3, <2>4 DEF RowsOK, At, Chunk
<1>8. \A r \in gone' \ raced' :
        \/ r \in Lost
        \/ /\ r \in DOMAIN row \ DOMAIN row' /\ Unraced(r)
           /\ Vector(r, "doc") \notin DOMAIN vec /\ Vector(r, "chunk") \notin DOMAIN vec
           /\ Findable => \A n \in DOMAIN graph.node : graph.node[n].source # r
  BY DEF Lost
<1>9. VecOK'
  <2>1. SUFFICES ASSUME NEW k \in DOMAIN vec, k.kind # "entity"
                 PROVE  /\ k.of \in DOMAIN row' \cup gone' /\ k.of \notin gone' \ raced'
                        /\ k.of \in DOMAIN row' => vec[k].session = row'[k.of].session
    BY DEF VecOK, Lost
  <2>2. /\ k.of \in DOMAIN row \cup gone /\ k.of \notin Lost
        /\ k.of \in DOMAIN row => vec[k].session = row[k.of].session
    BY <1>1, <2>1 DEF VecOK
  <2>3. k = Vector(k.of, "doc") \/ k = Vector(k.of, "chunk")
    <3>1. k \in Key
      BY <1>1 DEF StoresTyped, AreVectors
    <3> QED  BY <3>1, <2>1, KeysAre
  <2> QED  BY <2>2, <2>3, <1>6, <1>8
<1>10. LostOK'
  <2>1. ~At("idle") => ing.i \in overlap
    BY <1>1 DEF OverlapOK
  <2>2. Findable => \A n \in DOMAIN graph.node : graph.node[n].source \notin gone' \ raced'
    BY <1>1, <1>8 DEF LostOK
  <2>3. \A r \in gone' \ raced' : r[1] = ing.i => At("idle")
    BY <1>1, <1>8, <2>1 DEF LostOK, Unraced
  <2>4. ing.met # NoSource /\ Findable => ing.was.source \notin gone' \ raced'
    <3>1. SUFFICES ASSUME ing.met # NoSource, Findable
                   PROVE  ing.was.source \notin gone' \ raced'
      OBVIOUS
    <3>2. stack.consistent /\ ~At("idle")
      BY <1>1, <3>1 DEF IngOK
    <3>3. \A r : ~Unraced(r)
      BY <3>2, <2>1 DEF Unraced
    <3> QED  BY <1>1, <1>8, <3>1, <3>3 DEF LostOK
  <2> QED  BY <1>3, <2>2, <2>3, <2>4 DEF LostOK, Lost, Findable, At
<1>11. OverlapOK'
  BY <1>1, <1>3 DEF OverlapOK, At
<1>12. JobsOK'
  <2>1. Fades
    BY DEF Fades
  <2>2. \A j \in 1..Len(jobs) : LaterOK(jobs[j])'
    <3>1. SUFFICES ASSUME NEW j \in 1..Len(jobs) PROVE LaterOK(jobs[j])'
      OBVIOUS
    <3>2. PICK job : job = jobs[j]
      OBVIOUS
    <3>3. jobs # <<>>
      BY <3>1
    <3>4. LaterOK(job)'
      BY <3>2, <3>3, <1>3, <2>1, LaterStays
    <3> QED  BY <3>2, <3>4
  <2>3. jobs # <<>> => HeadOK(jobs[1])'
    <3>1. SUFFICES ASSUME jobs # <<>> PROVE HeadOK(jobs[1])'
      OBVIOUS
    <3>2. PICK job : job = jobs[1]
      OBVIOUS
    <3>3. 1 \in 1..Len(jobs)
      BY <3>1
    <3>4. LaterOK(job)'
      BY <3>2, <3>3, <2>2
    <3>5. HeadOK(job)'
      BY <3>4 DEF LaterOK, HeadOK, WipeCovers
    <3> QED  BY <3>2, <3>5
  <2>4. \A j \in 2..Len(jobs) : j \in 1..Len(jobs)
    OBVIOUS
  <2> QED  BY <1>3, <2>2, <2>3, <2>4 DEF JobsOK
<1>13. FoundOK'
  <2>1. SUFFICES ASSUME NEW r \in DOMAIN row', row'[r].done \/ Past(r)', r \notin blind
                 PROVE  Embedded(r)'
    BY <1>3 DEF FoundOK
  <2>2. r \in DOMAIN row /\ row'[r] = row[r] /\ ~Condemned(r) /\ (row[r].done \/ Past(r))
    BY <2>1, <1>3 DEF Past, Chunk
  <2>3. Embedded(r)
    BY <2>1, <2>2, <1>1 DEF FoundOK
  <2> QED  BY <2>2, <2>3 DEF Embedded
<1> QED  BY <1>4, <1>5, <1>7, <1>9, <1>10, <1>11, <1>12, <1>13 DEF MemoryInv

\* The owner is another one.
LEMMA CheckRefuses ==
  ASSUME MemoryInv, CheckOwner, ~Owned(Next1.id)
  PROVE  MemoryInv'
<1>1. PICK job : job = client.jobs[1]
  OBVIOUS
<1>2. client.jobs # <<>> /\ Next1.op = "check" /\ Reads /\ Refused
  BY DEF CheckOwner, Does
<1>3. Deleting(job) /\ ~Wiping(job) /\ job[1].op = "check"
  BY <1>1, <1>2, HeadCall
<1>4. \A r : ~Condemned(r)
  BY <1>1, <1>3 DEF Condemned
<1>5. JobsOK /\ AreRows(row) /\ raced \subseteq gone
  BY DEF MemoryInv, StoresTyped
<1>6. PICK jobs \in Seq(Seq(CallType)) :
        jobs = Tail(client.jobs) /\ \A j \in 1..Len(jobs) : LaterOK(jobs[j])
  BY <1>2, <1>5, LaterJobs
<1>7. PICK ends \in Seq(NodeId) : Leaves(jobs, ends)
  BY <1>2, <1>6, ClientTyped DEF Refused
<1>8. UNCHANGED <<vec, graph, history>> /\ row' = row /\ gone' = gone /\ raced' = raced
  BY <1>2 DEF Reads, KeepsRows
<1> QED  BY <1>2, <1>4, <1>5, <1>6, <1>7, <1>8, LeavesKeeps

\* Rows go, the last call of a job.
LEMMA RowsGo ==
  ASSUME MemoryInv, client.jobs # <<>>, NEW job, job = client.jobs[1], Len(job) = 1, Then(<<>>),
         NEW S, RemoveRows(S), UNCHANGED <<vec, graph, history>>,
         \A r \in RowId : Condemned(r) => r \in S,
         \A r \in S \cap DOMAIN row : Unraced(r) => Covered(job, r),
         job[1].op \in {"row", "rows"}
  PROVE  MemoryInv'
<1>1. JobsOK /\ AreRows(row) /\ raced \subseteq gone
  BY DEF MemoryInv, StoresTyped
<1>2. job \in Seq(CallType) /\ Head(client.jobs) = job
  BY HeadCall
<1>3. <<>> \o Tail(job) = <<>>
  <2>1. Len(Tail(job)) = 0 /\ Tail(job) \in Seq(CallType)
    BY <1>2
  <2>2. \A t \in Seq(CallType) : Len(t) = 0 => <<>> \o t = <<>>
    OBVIOUS
  <2> QED  BY <2>1, <2>2
<1>4. Leaves(Tail(client.jobs), client.ends)
  BY <1>2, <1>3 DEF Then, Proceed
<1>5. PICK jobs \in Seq(Seq(CallType)) :
        jobs = Tail(client.jobs) /\ \A j \in 1..Len(jobs) : LaterOK(jobs[j])
  BY <1>1, LaterJobs
<1>6. PICK ends \in Seq(NodeId) : Leaves(jobs, ends)
  BY <1>4, <1>5, ClientTyped
<1>7. /\ AreRows(row') /\ DOMAIN row' = DOMAIN row \ S
      /\ \A r \in DOMAIN row' : row'[r] = row[r]
  <2>1. PICK rows : rows = row
    OBVIOUS
  <2>2. PICK w : w = Restrict(rows, DOMAIN rows \ S)
    OBVIOUS
  <2>3. AreRows(rows)
    BY <1>1, <2>1
  <2>4. AreRows(w) /\ DOMAIN w = DOMAIN rows \ S /\ \A r \in DOMAIN w : w[r] = rows[r]
    <3>1. DOMAIN w = DOMAIN rows \ S /\ \A r \in DOMAIN w : w[r] = rows[r]
      BY <2>2 DEF Restrict
    <3>2. IsFiniteSet(DOMAIN w)
      BY <2>3, <3>1, FS_Subset DEF AreRows
    <3> QED  BY <2>3, <3>1, <3>2 DEF AreRows
  <2>5. row' = w
    BY <2>1, <2>2 DEF RemoveRows
  <2> QED  BY <2>1, <2>4, <2>5 DEF AreRows
<1>8. /\ gone' = gone \cup (S \cap DOMAIN row)
      /\ raced' = raced \cup {r \in S \cap DOMAIN row :
                           r[1] \in overlap \/ (stack.consistent /\ overlap # {})}
  BY DEF RemoveRows
<1>9. gone' = gone \cup (DOMAIN row \ DOMAIN row') /\ raced \subseteq raced' /\ raced' \subseteq gone'
  BY <1>1, <1>7, <1>8
<1>10. \A r \in DOMAIN row' : ~Condemned(r)
  BY <1>1, <1>7 DEF AreRows
<1>11. ASSUME NEW r \in DOMAIN row \ DOMAIN row', r \notin raced'
       PROVE  /\ Unraced(r)
              /\ Vector(r, "doc") \notin DOMAIN vec /\ Vector(r, "chunk") \notin DOMAIN vec
              /\ Findable => \A n \in DOMAIN graph.node : graph.node[n].source # r
  <2>1. r \in S \cap DOMAIN row /\ Unraced(r)
    BY <1>7, <1>8, <1>11 DEF Unraced
  <2>2. Covered(job, r)
    BY <2>1
  <2>3. \A op, id : op \notin {"row", "rows"} => ~Has(job, Call(op, id))
    BY CallsAre DEF Has
  <2> QED  BY <2>1, <2>2, <2>3 DEF Covered
<1> QED  BY <1>5, <1>6, <1>7, <1>9, <1>10, <1>11, LeavesKeeps

\* The row of a deletion goes: nothing of it is left, unless it was written again
\* meanwhile.
LEMMA RemoveRowKeeps ==
  ASSUME MemoryInv, RemoveRow
  PROVE  MemoryInv'
<1>1. PICK job : job = client.jobs[1]
  OBVIOUS
<1>2. client.jobs # <<>> /\ Next1.op = "row" /\ Then(<<>>) /\ UNCHANGED <<vec, graph, history>>
  BY DEF RemoveRow, Does
<1>3. /\ Next1 = job[1] /\ job[1].op = "row" /\ Deleting(job) /\ ~Wiping(job)
      /\ job[1].id = Of(job) /\ Len(job) = 1 /\ HeadOK(job)
  BY <1>1, <1>2, HeadCall
<1>4. PICK r : r = Of(job)
  OBVIOUS
<1>5. RemoveRows({r})
  BY <1>3, <1>4 DEF RemoveRow
<1>6. \A q \in RowId : Condemned(q) => q \in {r}
  BY <1>1, <1>3, <1>4 DEF Condemned
<1>7. DOMAIN row \subseteq RowId
  BY DEF MemoryInv, StoresTyped, AreRows
<1>8. \A q \in {r} \cap DOMAIN row : Unraced(q) => Covered(job, q)
  BY <1>3, <1>4, <1>7 DEF HeadOK, DeletionCovers
<1> QED  BY <1>1, <1>2, <1>3, <1>5, <1>6, <1>8, RowsGo

\* The rows of a session go, all of them listed before or written meanwhile.
LEMMA RemoveRowsOfSessionKeeps ==
  ASSUME MemoryInv, RemoveRowsOfSession
  PROVE  MemoryInv'
<1>1. PICK job : job = client.jobs[1]
  OBVIOUS
<1>2. client.jobs # <<>> /\ Next1.op = "rows" /\ Then(<<>>) /\ UNCHANGED <<vec, graph, history>>
  BY DEF RemoveRowsOfSession, Does
<1>3. /\ Next1 = job[1] /\ job[1].op = "rows" /\ ~Deleting(job) /\ Wiping(job)
      /\ Len(job) = 1 /\ HeadOK(job)
  BY <1>1, <1>2, HeadCall
<1>4. PICK S : S = OfSession
  OBVIOUS
<1>5. RemoveRows(S)
  BY <1>4 DEF RemoveRowsOfSession
<1>6. \A q \in RowId : Condemned(q) => q \in S
  BY <1>1, <1>3, <1>4 DEF Condemned
<1>7. ~Has(job, Call("list", NoSource))
  BY <1>3, CallsAre DEF Has
<1>8. \A q \in S \cap DOMAIN row : Unraced(q) => Covered(job, q)
  BY <1>3, <1>4, <1>7 DEF HeadOK, WipeCovers
<1> QED  BY <1>1, <1>2, <1>3, <1>5, <1>6, <1>8, RowsGo

-----------------------------------------------------------------------------
\* A deletion from the start.
LEMMA FreshDeletion ==
  ASSUME NEW r \in RowId \cup NodeId, NEW s, NEW job, job = DeleteJob(r, s)
  PROVE  /\ job \in Seq(CallType) /\ job # <<>> /\ Deleting(job) /\ ~Wiping(job) /\ Of(job) = r
         /\ DeletionForm(job) /\ (s # "" => job[1].op = "check")
         /\ \A c \in Its(r) : Has(job, c)
<1>1. PICK a, b, c, d, e :
        /\ a = Call("check", r) /\ b = Call("find", r) /\ c = Call("vec", Vector(r, "doc"))
        /\ d = Call("vec", Vector(r, "chunk")) /\ e = Call("row", r)
  OBVIOUS
<1>2. /\ a.op = "check" /\ b.op = "find" /\ c.op = "vec" /\ d.op = "vec" /\ e.op = "row" /\ e.id = r
  BY <1>1, CallsAre
<1>3. a \in CallType /\ b \in CallType /\ c \in CallType /\ d \in CallType /\ e \in CallType
  <2>1. Vector(r, "doc") \in Key /\ Vector(r, "chunk") \in Key
    BY DEF Vector, Key
  <2> QED  BY <2>1, <1>1 DEF Call, CallType
<1>4. Its(r) = {b, c, d}
  BY <1>1 DEF Its
<1>5. CASE s = ""
  <2>1. job = <<>> \o (<<b>> \o <<c, d>>) \o <<e>>
    BY <1>1, <1>5 DEF DeleteJob, Traces, Vectors
  <2>2. job \in Seq(CallType) /\ Len(job) = 4 /\ job[1] = b /\ job[2] = c /\ job[3] = d /\ job[4] = e
    BY <2>1, <1>3
  <2>3. Of(job) = r /\ Deleting(job) /\ ~Wiping(job)
    BY <2>2, <1>2 DEF Of, Deleting, Wiping
  <2>4. /\ \A p \in 1..Len(job) - 1 : p = 1 \/ p = 2 \/ p = 3
        /\ \A p \in 2..Len(job) : p = 2 \/ p = 3 \/ p = 4
        /\ 1 \in 1..Len(job) /\ 2 \in 1..Len(job) /\ 3 \in 1..Len(job)
    BY <2>2
  <2>5. \A p \in 1..Len(job) - 1 : job[p] \in Its(r)
    BY <2>2, <2>4, <1>4
  <2>6. \A p \in 2..Len(job) : job[p].op # "check"
    BY <2>2, <2>4, <1>2
  <2>7. \A x \in Its(r) : Has(job, x)
    BY <2>2, <2>4, <1>4 DEF Has
  <2>8. job # <<>>
    BY <2>2
  <2>9. DeletionForm(job)
    BY <2>3, <2>5, <2>6 DEF DeletionForm
  <2> QED  BY <2>2, <2>3, <2>7, <2>8, <2>9, <1>5
<1>6. CASE s # ""
  <2>1. job = <<a>> \o (<<b>> \o <<c, d>>) \o <<e>>
    BY <1>1, <1>6 DEF DeleteJob, Traces, Vectors
  <2>2. /\ job \in Seq(CallType) /\ Len(job) = 5 /\ job[1] = a /\ job[2] = b /\ job[3] = c
        /\ job[4] = d /\ job[5] = e
    BY <2>1, <1>3
  <2>3. Of(job) = r /\ Deleting(job) /\ ~Wiping(job)
    BY <2>2, <1>2 DEF Of, Deleting, Wiping
  <2>4. /\ \A p \in 1..Len(job) - 1 : p = 1 \/ p = 2 \/ p = 3 \/ p = 4
        /\ \A p \in 2..Len(job) : p = 2 \/ p = 3 \/ p = 4 \/ p = 5
        /\ 2 \in 1..Len(job) /\ 3 \in 1..Len(job) /\ 4 \in 1..Len(job)
    BY <2>2
  <2>5. \A p \in 1..Len(job) - 1 : job[p] \in {Call("check", r)} \cup Its(r)
    BY <2>2, <2>4, <1>1, <1>4
  <2>6. \A p \in 2..Len(job) : job[p].op # "check"
    BY <2>2, <2>4, <1>2
  <2>7. \A x \in Its(r) : Has(job, x)
    BY <2>2, <2>4, <1>4 DEF Has
  <2>8. job # <<>>
    <3>1. Len(job) = 5
      BY <2>2
    <3> QED  BY ONLY <3>1
  <2>9. DeletionForm(job)
    BY <2>3, <2>5, <2>6 DEF DeletionForm
  <2> QED  BY <2>2, <2>3, <2>7, <2>8, <2>9, <1>2
<1> QED  BY <1>5, <1>6

\* A job with every call about a row covers it, before and after.
LEMMA CoversAll ==
  ASSUME NEW job, NEW r, \A c \in Its(r) : Has(job, c)
  PROVE  Covered(job, r) /\ Covered(job, r)'
  BY DEF Covered, Its

\* A deletion that has not begun is a job that can wait.
LEMMA FreshIsLater ==
  ASSUME NEW r \in RowId \cup NodeId, NEW job, job = DeleteJob(r, client.session)
  PROVE  job \in Seq(CallType) /\ LaterOK(job)
<1>1. PICK s : s = client.session
  OBVIOUS
<1>2. /\ job \in Seq(CallType) /\ job # <<>> /\ Deleting(job) /\ ~Wiping(job) /\ Of(job) = r
      /\ DeletionForm(job) /\ (s # "" => job[1].op = "check")
      /\ \A c \in Its(r) : Has(job, c)
  BY <1>1, FreshDeletion
<1>3. Covered(job, r)
  BY <1>2, CoversAll
<1> QED  BY <1>1, <1>2, <1>3 DEF LaterOK, Form, DeletionCovers, Checked

\* The nearest vectors' memories are to be forgotten.
LEMMA ForgetSimilarKeeps ==
  ASSUME MemoryInv, ForgetSimilar
  PROVE  MemoryInv'
<1>1. PICK job : job = client.jobs[1]
  OBVIOUS
<1>2. client.jobs # <<>> /\ Next1.op = "similar" /\ Reads
  BY DEF ForgetSimilar, Does
<1>3. ~Deleting(job) /\ ~Wiping(job)
  BY <1>1, <1>2, HeadCall
<1>4. \A r : ~Condemned(r)
  BY <1>1, <1>3 DEF Condemned
<1>5. JobsOK /\ AreRows(row) /\ raced \subseteq gone /\ stack \in Stacks /\ AreVectors(vec)
  BY DEF MemoryInv, StoresTyped
<1>6. PICK name : name = Next1.id[2]
  OBVIOUS
<1>7. PICK S, near, ids :
        /\ S \in Hits({name}, DOMAIN vec, 5, FALSE) /\ near \subseteq S
        /\ ids = SetToSeq({V!ResultSource(stack.vector, k, vec[k]) : k \in near} \ {NoSource})
        /\ Leaves([k \in DOMAIN ids |-> DeleteJob(ids[k], client.session)] \o Tail(client.jobs),
                  client.ends)
  BY <1>6 DEF ForgetSimilar
<1>8. near \subseteq DOMAIN vec
  BY <1>5, <1>7, HitsAre
<1>9. PICK T : T = {V!ResultSource(stack.vector, k, vec[k]) : k \in near} \ {NoSource}
  OBVIOUS
<1>10. T \subseteq RowId \cup NodeId /\ IsFiniteSet(T)
  <2>1. \A k \in near : V!ResultSource(stack.vector, k, vec[k]) \in RowId \cup NodeId \cup {NoSource}
    BY <1>5, <1>8 DEF V!ResultSource, AreVectors, EntryType, Key
  <2>2. IsFiniteSet(near)
    BY <1>5, <1>8, FS_Subset DEF AreVectors
  <2>3. PICK f : f = [k \in near |-> V!ResultSource(stack.vector, k, vec[k])]
    OBVIOUS
  <2>4. PICK U : U = {V!ResultSource(stack.vector, k, vec[k]) : k \in near}
    OBVIOUS
  <2>5. f \in Surjection(near, U)
    <3>1. f \in [near -> U] /\ \A u \in U : \E k \in near : f[k] = u
      BY <2>3, <2>4
    <3> QED  BY <3>1 DEF Surjection
  <2>6. IsFiniteSet(U)
    BY <2>2, <2>5, FS_Surjection
  <2>7. T \subseteq U
    BY <1>9, <2>4
  <2> QED  BY <2>1, <2>4, <2>6, <2>7, <1>9, FS_Subset
<1>11. ids \in Seq(T)
  <2>1. ids = SetToSeq(T)
    BY <1>7, <1>9
  <2> QED  BY <2>1, <1>10, InSequence
<1>12. PICK first : first = [k \in DOMAIN ids |-> DeleteJob(ids[k], client.session)]
  OBVIOUS
<1>13. first \in Seq(Seq(CallType)) /\ \A j \in 1..Len(first) : LaterOK(first[j])
  <2>1. \A k \in DOMAIN ids : first[k] \in Seq(CallType) /\ LaterOK(first[k])
    <3>1. SUFFICES ASSUME NEW k \in DOMAIN ids PROVE first[k] \in Seq(CallType) /\ LaterOK(first[k])
      OBVIOUS
    <3>2. PICK x : x = first[k]
      OBVIOUS
    <3>3. PICK r \in RowId \cup NodeId : r = ids[k]
      BY <1>10, <1>11
    <3>4. x = DeleteJob(r, client.session)
      BY <1>12, <3>2, <3>3
    <3>5. x \in Seq(CallType) /\ LaterOK(x)
      BY <3>4, FreshIsLater
    <3> QED  BY <3>2, <3>5
  <2>2. DOMAIN ids = 1..Len(ids) /\ Len(ids) \in Nat
    BY <1>11
  <2>3. first \in Seq(Seq(CallType)) /\ Len(first) = Len(ids)
    BY <1>12, <2>1, <2>2
  <2> QED  BY <2>1, <2>2, <2>3
<1>14. PICK rest \in Seq(Seq(CallType)) :
         rest = Tail(client.jobs) /\ \A j \in 1..Len(rest) : LaterOK(rest[j])
  BY <1>2, <1>5, LaterJobs
<1>15. PICK jobs : jobs = first \o rest
  OBVIOUS
<1>16. jobs \in Seq(Seq(CallType)) /\ \A j \in 1..Len(jobs) : LaterOK(jobs[j])
  <2>1. jobs \in Seq(Seq(CallType))
    BY <1>13, <1>14, <1>15
  <2>2. ASSUME NEW j \in 1..Len(jobs)
        PROVE  \/ j \in 1..Len(first) /\ jobs[j] = first[j]
               \/ j - Len(first) \in 1..Len(rest) /\ jobs[j] = rest[j - Len(first)]
    BY <1>13, <1>14, <1>15
  <2> QED  BY <2>1, <2>2, <1>13, <1>14
<1>17. PICK ends \in Seq(NodeId) : Leaves(jobs, ends)
  BY <1>7, <1>12, <1>14, <1>15, ClientTyped
<1>18. UNCHANGED <<vec, graph, history>> /\ row' = row /\ gone' = gone /\ raced' = raced
  BY <1>2 DEF Reads, KeepsRows
<1> QED  BY <1>2, <1>4, <1>5, <1>16, <1>17, <1>18, LeavesKeeps

\* The empty sequence is one of any set.
LEMMA EmptyIs ==
  ASSUME NEW T
  PROVE  <<>> \in Seq(T)
  OBVIOUS

\* A call of the client begins.
LEMMA BeginKeeps ==
  ASSUME MemoryInv, NEW session \in Session, NEW jobs \in Seq(Seq(CallType)), Begin(session, jobs),
         jobs # <<>> => HeadOK(jobs[1])', \A j \in 2..Len(jobs) : LaterOK(jobs[j])',
         history' \subseteq Session \ {""}
  PROVE  MemoryInv'
<1>1. StoresTyped /\ IngOK /\ RowsOK /\ VecOK /\ LostOK /\ OverlapOK /\ JobsOK /\ FoundOK
  BY DEF MemoryInv
<1>2. /\ client.jobs = <<>> /\ client' = [session |-> session, jobs |-> jobs, ends |-> <<>>]
      /\ overlap' = IF At("idle") \/ jobs = <<>> THEN {} ELSE {ing.i}
      /\ UNCHANGED <<stack, row, vec, graph, ing, gone, raced, blind>>
  BY DEF Begin
<1>3. StoresTyped'
  <2>1. overlap' \subseteq Input
    BY <1>1, <1>2 DEF IngOK
  <2> QED  BY <1>1, <1>2, <2>1 DEF StoresTyped
<1>4. IngOK'
  BY <1>1, <1>2 DEF IngOK, At
<1>5. RowsOK'
  BY <1>1, <1>2 DEF RowsOK, At, Chunk
<1>6. VecOK'
  BY <1>1, <1>2 DEF VecOK, Lost
<1>7. LostOK'
  BY <1>1, <1>2 DEF LostOK, Lost, Findable, At
<1>8. client'.jobs = jobs
  BY <1>2
<1>9. OverlapOK'
  BY <1>2, <1>8 DEF OverlapOK, At
<1>10. JobsOK'
  <2>1. client' \in ClientType
    <3>1. <<>> \in Seq(NodeId)
      BY EmptyIs
    <3> QED  BY <3>1, <1>2 DEF ClientType
  <2> QED  BY <2>1, <1>8 DEF JobsOK
<1>11. FoundOK'
  <2>1. SUFFICES ASSUME NEW r \in DOMAIN row, row[r].done \/ Past(r), r \notin blind
                 PROVE  Embedded(r)'
    BY <1>2 DEF FoundOK, Past, Chunk
  <2>2. Embedded(r)
    BY <2>1, <1>1, <1>2 DEF FoundOK, Condemned
  <2> QED  BY <2>2, <1>2 DEF Embedded
<1> QED  BY <1>3, <1>4, <1>5, <1>6, <1>7, <1>9, <1>10, <1>11 DEF MemoryInv

\* A single job.
LEMMA JobAlone ==
  ASSUME NEW job \in Seq(CallType)
  PROVE  <<job>> \in Seq(Seq(CallType)) /\ Len(<<job>>) = 1 /\ <<job>>[1] = job
  OBVIOUS

\* A memory is to be deleted.
LEMMA DeleteMemoryKeeps ==
  ASSUME MemoryInv, NEW r \in DOMAIN row \cup gone, NEW s \in Session, DeleteMemory(r, s)
  PROVE  MemoryInv'
<1>1. r \in RowId /\ history \subseteq Session \ {""}
  BY DEF MemoryInv, StoresTyped, AreRows
<1>2. PICK job : job = DeleteJob(r, s)
  OBVIOUS
<1>3. /\ job \in Seq(CallType) /\ job # <<>> /\ Deleting(job) /\ ~Wiping(job) /\ Of(job) = r
      /\ DeletionForm(job) /\ (s # "" => job[1].op = "check")
      /\ \A c \in Its(r) : Has(job, c)
  BY <1>1, <1>2, FreshDeletion
<1>4. PICK jobs \in Seq(Seq(CallType)) : jobs = <<job>> /\ Len(jobs) = 1 /\ jobs[1] = job
  BY <1>3, JobAlone
<1>5. Begin(s, jobs) /\ history' = history
  BY <1>2, <1>4 DEF DeleteMemory
<1>6. HeadOK(jobs[1])'
  <2>1. Covered(job, r)'
    BY <1>3, CoversAll
  <2>2. client'.session = s
    BY <1>5 DEF Begin
  <2>3. HeadOK(job)'
    BY <2>1, <2>2, <1>3 DEF HeadOK, Form, DeletionCovers, WipeCovers, Checked
  <2> QED  BY <2>3, <1>4
<1>7. \A j \in 2..Len(jobs) : FALSE
  BY <1>4
<1> QED  BY <1>1, <1>5, <1>6, <1>7, BeginKeeps

\* A session is wiped from the start.
LEMMA FreshWipe ==
  ASSUME NEW job, job = WipeJob
  PROVE  /\ job \in Seq(CallType) /\ job # <<>> /\ ~Deleting(job) /\ Wiping(job)
         /\ \A p \in 1..Len(job) - 1 : job[p] \in SessionCalls
         /\ \A c \in SessionCalls : Has(job, c)
<1>1. PICK a, b, c, d :
        /\ a = Call("list", NoSource) /\ b = Call("graph", NoSource)
        /\ c = Call("messages", NoSource) /\ d = Call("rows", NoSource)
  OBVIOUS
<1>2. a \in CallType /\ b \in CallType /\ c \in CallType /\ d \in CallType /\ d.op = "rows"
  BY <1>1 DEF Call, CallType
<1>3. SessionCalls = {a, b, c}
  BY <1>1 DEF SessionCalls
<1>4. job = <<a, b, c, d>>
  BY <1>1 DEF WipeJob
<1>5. job \in Seq(CallType) /\ Len(job) = 4 /\ job[1] = a /\ job[2] = b /\ job[3] = c /\ job[4] = d
  BY <1>2, <1>4
<1>6. job # <<>> /\ ~Deleting(job) /\ Wiping(job)
  <2>1. job[Len(job)] = d
    BY <1>5
  <2>2. job # <<>>
    BY <1>5
  <2> QED  BY <2>1, <2>2, <1>2 DEF Deleting, Wiping
<1>7. /\ \A p \in 1..Len(job) - 1 : p = 1 \/ p = 2 \/ p = 3
      /\ 1 \in 1..Len(job) /\ 2 \in 1..Len(job) /\ 3 \in 1..Len(job)
  BY <1>5
<1> QED  BY <1>3, <1>5, <1>6, <1>7 DEF Has

\* A session is to be wiped.
LEMMA DeleteSessionKeeps ==
  ASSUME MemoryInv, NEW s \in Session, DeleteSession(s)
  PROVE  MemoryInv'
<1>1. history \subseteq Session \ {""}
  BY DEF MemoryInv, StoresTyped
<1>2. PICK job : job = WipeJob
  OBVIOUS
<1>3. /\ job \in Seq(CallType) /\ job # <<>> /\ ~Deleting(job) /\ Wiping(job)
      /\ \A p \in 1..Len(job) - 1 : job[p] \in SessionCalls
      /\ \A c \in SessionCalls : Has(job, c)
  BY <1>2, FreshWipe
<1>4. PICK jobs \in Seq(Seq(CallType)) : jobs = <<job>> /\ Len(jobs) = 1 /\ jobs[1] = job
  BY <1>3, JobAlone
<1>5. Begin(s, jobs) /\ history' = history
  BY <1>2, <1>4 DEF DeleteSession
<1>6. HeadOK(jobs[1])'
  <2>1. Form(job)'
    BY <1>3 DEF Form, WipeForm
  <2>2. DeletionCovers(job)' /\ Checked(job)'
    BY <1>3 DEF DeletionCovers, Checked
  <2>3. WipeCovers(job)'
    BY <1>3 DEF WipeCovers, SessionCalls
  <2>4. HeadOK(job)'
    BY <2>1, <2>2, <2>3 DEF HeadOK
  <2> QED  BY <2>4, <1>4
<1>7. \A j \in 2..Len(jobs) : FALSE
  BY <1>4
<1> QED  BY <1>1, <1>5, <1>6, <1>7, BeginKeeps

-----------------------------------------------------------------------------
\* What a request asks for.
LEMMA AskedCalls ==
  /\ \A op \in {"ensure", "embed", "tell", "entity", "similar", "node"}, n \in NodeId :
       Call(op, n) \in RequestCalls
  /\ Call("relate", NoSource) \in RequestCalls
  /\ \A n, m \in NodeId : Call("link", EdgeId("told", n, m)) \in RequestCalls
<1>1. \A n, m \in NodeId : EdgeId("told", n, m) \in LinkType
  BY DEF EdgeId, LinkType
<1> QED  BY <1>1 DEF Call, RequestCalls

\* The calls of a request are calls.
LEMMA RequestCallsTyped == RequestCalls \subseteq CallType
  BY DEF RequestCalls, CallType

\* The jobs of a request.
Asks == Seq(RequestCalls) \ {<<>>}

\* A job of a request deletes no row.
LEMMA AsksAre ==
  ASSUME NEW job \in Asks
  PROVE  /\ job \in Seq(CallType) /\ job # <<>> /\ ~Deleting(job) /\ ~Wiping(job) /\ RequestForm(job)
<1>1. job \in Seq(RequestCalls) /\ job # <<>>
  BY DEF Asks
<1>2. Len(job) \in 1..Len(job) /\ \A p \in 1..Len(job) : job[p] \in RequestCalls
  BY <1>1
<1>3. \A c \in RequestCalls : c.op \notin {"row", "rows"}
  BY DEF RequestCalls
<1>4. job \in Seq(CallType)
  BY <1>1, RequestCallsTyped
<1> QED  BY <1>1, <1>2, <1>3, <1>4 DEF Deleting, Wiping, RequestForm

\* Jobs of a request put together, one after the other.
LEMMA JobsOfAre ==
  /\ \A a, b \in Seq(RequestCalls) : a \o b \in Seq(RequestCalls) /\ (a # <<>> \/ b # <<>> => a \o b \in Asks)
  /\ \A c \in RequestCalls : <<c>> \in Asks
  /\ \A c, d \in RequestCalls : <<c, d>> \in Asks
  /\ \A job \in Asks : <<job>> \in Seq(Asks)
  /\ <<>> \in Seq(Asks)
  /\ \A a, b \in Seq(Asks) : a \o b \in Seq(Asks)
<1>1. \A a, b \in Seq(RequestCalls) : a \o b \in Seq(RequestCalls) /\ (a # <<>> \/ b # <<>> => a \o b # <<>>)
  OBVIOUS
<1>2. \A c \in RequestCalls : <<c>> \in Seq(RequestCalls) /\ <<c>> # <<>>
  OBVIOUS
<1>3. \A c, d \in RequestCalls : <<c, d>> \in Seq(RequestCalls) /\ <<c, d>> # <<>>
  OBVIOUS
<1>4. \A job \in Asks : <<job>> \in Seq(Asks)
  OBVIOUS
<1>5. <<>> \in Seq(Asks) /\ \A a, b \in Seq(Asks) : a \o b \in Seq(Asks)
  OBVIOUS
<1> QED  BY <1>1, <1>2, <1>3, <1>4, <1>5 DEF Asks

\* One call for each name.
LEMMA EachIs ==
  ASSUME NEW op \in {"ensure", "tell"}, NEW where \in {Told, Related}, NEW names \in Seq(Name),
         NEW each, each = [k \in DOMAIN names |-> Call(op, <<where, names[k]>>)]
  PROVE  each \in Seq(RequestCalls) /\ (names # <<>> => each # <<>>)
<1>1. DOMAIN names = 1..Len(names) /\ Len(names) \in Nat /\ \A k \in 1..Len(names) : names[k] \in Name
  OBVIOUS
<1>2. \A k \in 1..Len(names) : <<where, names[k]>> \in NodeId
  BY <1>1, NoSourceIs
<1>3. \A k \in 1..Len(names) : each[k] \in RequestCalls
  BY <1>1, <1>2, AskedCalls
<1>4. each \in Seq(RequestCalls) /\ Len(each) = Len(names)
  BY <1>1, <1>3
<1>5. names # <<>> => Len(names) # 0
  OBVIOUS
<1> QED  BY <1>4, <1>5

\* What a request asks for are jobs of that kind: relationships and names to tell or to
\* forget.
LEMMA RequestJobsAre ==
  ASSUME NEW q \in Requests
  PROVE  RequestJobs(q) \in Seq(Asks)
<1> DEFINE Each(op, where, names) == [k \in DOMAIN names |-> Call(op, <<where, names[k]>>)]
           told == Listed(q.tell)
           Link(k) == EdgeId("told", <<Told, told[k]>>, <<Told, told[k + 1]>>)
           IfAny(names, job) == IF names = <<>> THEN <<>> ELSE <<job>>
           relating == Each("ensure", Related, q.relate) \o <<Call("relate", NoSource)>>
           forgetting == [k \in DOMAIN q.forget |-> <<Call("entity", <<Told, q.forget[k]>>),
                                                      Call("similar", <<Told, q.forget[k]>>)>>]
           links == [k \in 1..Len(told) - 1 |-> Call("link", Link(k))]
           telling == Each("tell", Told, told) \o links
<1>1. RequestJobs(q) = IfAny(q.relate, relating) \o forgetting \o IfAny(told, telling)
  BY DEF RequestJobs
<1>2. q.relate \in Seq(Name) /\ q.forget \in Seq(Name)
  <2>1. q.relate \in {<<>>} \cup (Name \X Name) /\ q.forget \in Seq(Name)
    BY RequestsAre
  <2>2. <<>> \in Seq(Name) /\ \A p \in Name \X Name : p \in Seq(Name)
    <3>1. \A x, y \in Name : <<x, y>> \in Seq(Name)
      OBVIOUS
    <3>2. \A p \in Name \X Name : \E x, y \in Name : p = <<x, y>>
      OBVIOUS
    <3>3. <<>> \in Seq(Name)
      OBVIOUS
    <3> QED  BY <3>1, <3>2, <3>3, ZenonT(60)
  <2> QED  BY <2>1, <2>2
<1>3. told \in Seq(Name)
  BY ListedIs
<1> HIDE DEF told
<1>4. relating \in Asks
  <2>1. PICK names \in Seq(Name) : names = q.relate
    BY <1>2
  <2>2. PICK each \in Seq(RequestCalls) : each = Each("ensure", Related, names)
    BY EachIs
  <2>3. <<Call("relate", NoSource)>> \in Seq(RequestCalls) /\ <<Call("relate", NoSource)>> # <<>>
    BY AskedCalls, JobsOfAre DEF Asks
  <2> QED  BY <2>1, <2>2, <2>3, JobsOfAre
<1>5. forgetting \in Seq(Asks)
  <2>1. PICK names \in Seq(Name) : names = q.forget
    BY <1>2
  <2>2. DOMAIN names = 1..Len(names) /\ Len(names) \in Nat /\ \A k \in 1..Len(names) : names[k] \in Name
    BY <2>1
  <2>3. \A k \in 1..Len(names) : <<Told, names[k]>> \in NodeId
    BY <2>2, NoSourceIs
  <2>4. \A k \in 1..Len(names) : <<Call("entity", <<Told, names[k]>>), Call("similar", <<Told, names[k]>>)>> \in Asks
    BY <2>3, AskedCalls, JobsOfAre
  <2>5. PICK f : f = forgetting
    OBVIOUS
  <2>6. DOMAIN f = 1..Len(names) /\ \A k \in 1..Len(names) : f[k] \in Asks
    BY <2>1, <2>2, <2>4, <2>5
  <2>7. f = [k \in 1..Len(names) |-> f[k]]
    BY <2>1, <2>2, <2>5
  <2>8. f \in Seq(Asks)
    BY <2>2, <2>6, <2>7
  <2> QED  BY <2>5, <2>8
<1>6. told # <<>> => telling \in Asks
  <2>1. PICK names \in Seq(Name) : names = told
    BY <1>3
  <2>2. PICK each \in Seq(RequestCalls) : each = Each("tell", Told, names) /\ (names # <<>> => each # <<>>)
    <3>1. PICK e : e = Each("tell", Told, names)
      OBVIOUS
    <3>2. e \in Seq(RequestCalls) /\ (names # <<>> => e # <<>>)
      BY <3>1, <2>1, EachIs
    <3> QED  BY <3>1, <3>2
  <2>3. Len(names) \in Nat /\ \A k \in 1..Len(names) : names[k] \in Name
    BY <2>1
  <2>4. \A l \in Nat : \A k \in 1..l - 1 : k \in 1..l /\ k + 1 \in 1..l
    OBVIOUS
  <2>5. \A k \in 1..Len(names) - 1 : names[k] \in Name /\ names[k + 1] \in Name
    BY <2>3, <2>4
  <2>6. \A k \in 1..Len(names) - 1 : <<Told, names[k]>> \in NodeId /\ <<Told, names[k + 1]>> \in NodeId
    BY <2>5, NoSourceIs
  <2>7. PICK f : f = links
    OBVIOUS
  <2>8. /\ f = [k \in 1..Len(names) - 1 |-> f[k]]
        /\ \A k \in 1..Len(names) - 1 : f[k] = Call("link", EdgeId("told", <<Told, names[k]>>, <<Told, names[k + 1]>>))
    BY <2>1, <2>7
  <2>9. \A k \in 1..Len(names) - 1 : f[k] \in RequestCalls
    BY <2>6, <2>8, AskedCalls
  <2>10. f \in Seq(RequestCalls)
    <3>1. PICK l \in Nat : 1..Len(names) - 1 = 1..l
      <4>1. \A n \in Nat : n = 0 => 1..n - 1 = 1..0
        OBVIOUS
      <4>2. \A n \in Nat : n # 0 => n - 1 \in Nat
        OBVIOUS
      <4> QED  BY <4>1, <4>2, <2>3
    <3>2. f = [k \in 1..l |-> f[k]] /\ \A k \in 1..l : f[k] \in RequestCalls
      BY <3>1, <2>8, <2>9
    <3> QED  BY <3>2
  <2>11. telling = each \o f
    BY <2>1, <2>2, <2>7
  <2> QED  BY <2>1, <2>2, <2>10, <2>11, JobsOfAre
<1>7. PICK r, t : r = relating /\ t = telling
  OBVIOUS
<1>8. IfAny(q.relate, relating) \in Seq(Asks) /\ IfAny(told, telling) \in Seq(Asks)
  BY <1>4, <1>6, <1>7, JobsOfAre
<1>9. PICK a, b, c \in Seq(Asks) : a = IfAny(q.relate, relating) /\ b = forgetting /\ c = IfAny(told, telling)
  BY <1>5, <1>8
<1>10. RequestJobs(q) = a \o b \o c
  BY <1>1, <1>9
<1> QED  BY <1>9, <1>10, JobsOfAre

\* A request begins.
LEMMA RequestKeeps ==
  ASSUME MemoryInv, NEW q \in Requests, Request(q)
  PROVE  MemoryInv'
<1>1. PICK s \in Session : s = q.session
  BY RequestsAre
<1>2. PICK jobs \in Seq(Asks) : jobs = RequestJobs(q)
  BY RequestJobsAre
<1>3. Begin(s, jobs) /\ history' = history \cup ({s} \ {""})
  BY <1>1, <1>2 DEF Request
<1>4. history' \subseteq Session \ {""}
  BY <1>3 DEF MemoryInv, StoresTyped
<1>5. \A j \in 1..Len(jobs) : jobs[j] \in Asks
  BY <1>2
<1>6. jobs \in Seq(Seq(CallType))
  <2>1. Asks \subseteq Seq(CallType)
    BY AsksAre
  <2> QED  BY <1>2, <2>1
<1>7. ASSUME NEW job \in Asks
      PROVE  LaterOK(job)' /\ HeadOK(job)'
  <2>1. /\ job \in Seq(CallType) /\ job # <<>> /\ ~Deleting(job) /\ ~Wiping(job) /\ RequestForm(job)
    BY AsksAre
  <2>2. Form(job)' /\ DeletionCovers(job)' /\ WipeCovers(job)' /\ Checked(job)'
    BY <2>1 DEF Form, DeletionCovers, WipeCovers, Checked
  <2> QED  BY <2>1, <2>2 DEF LaterOK, HeadOK
<1>8. jobs # <<>> => HeadOK(jobs[1])'
  <2>1. SUFFICES ASSUME jobs # <<>> PROVE HeadOK(jobs[1])'
    OBVIOUS
  <2>2. PICK job \in Asks : job = jobs[1]
    BY <2>1, <1>2
  <2>3. HeadOK(job)'
    BY <1>7
  <2> QED  BY <2>2, <2>3
<1>9. \A j \in 2..Len(jobs) : LaterOK(jobs[j])'
  <2>1. SUFFICES ASSUME NEW j \in 2..Len(jobs) PROVE LaterOK(jobs[j])'
    OBVIOUS
  <2>2. PICK job \in Asks : job = jobs[j]
    BY <1>2
  <2>3. LaterOK(job)'
    BY <1>7
  <2> QED  BY <2>2, <2>3
<1> QED  BY <1>3, <1>4, <1>6, <1>8, <1>9, BeginKeeps

\* What a step of the ingestion keeps.
IngestedRows ==
  /\ AreRows(row') /\ DOMAIN row \subseteq DOMAIN row'
  /\ \A r \in DOMAIN row :
       row'[r].names = row[r].names /\ row'[r].session = row[r].session /\ row'[r].tier = row[r].tier
  /\ \A r \in DOMAIN row' \ DOMAIN row : r[1] = ing.i /\ ~At("idle")

IngestedVectors ==
  /\ AreVectors(vec')
  /\ \A k \in DOMAIN vec' : k.kind # "entity" =>
       \/ k \in DOMAIN vec /\ vec'[k].session = vec[k].session
       \/ /\ ~At("idle") /\ Chunk \in DOMAIN row \cup gone
          /\ k.of = Chunk /\ vec'[k].session = ing.offer.session

IngestedNodes ==
  /\ IsGraph(graph', stack.graph)
  /\ \A n \in DOMAIN graph'.node : graph'.node[n].source \in RowId =>
       \/ n \in DOMAIN graph.node /\ graph.node[n].source = graph'.node[n].source
       \/ ~At("idle") /\ graph'.node[n].source = Chunk
       \/ ing.met # NoSource /\ graph'.node[n].source = ing.was.source
  /\ At("idle") => graph' = graph

IngestedOverlap ==
  /\ overlap \subseteq overlap' /\ overlap' \subseteq Input
  /\ client.jobs = <<>> => overlap' = {}
  /\ client.jobs # <<>> /\ ing'.at # "idle" => ing'.i \in overlap'
  /\ client.jobs # <<>> /\ At("idle") => overlap' # {}

IngestedStep ==
  /\ \/ ing'.i = ing.i /\ ~At("idle")
     \/ ing'.i = ing.i + 1
  /\ ing'.met # NoSource =>
       \/ ing.met # NoSource /\ ing'.was = ing.was
       \/ \E n \in DOMAIN graph.node : ing'.was = graph.node[n]

IngestedFound ==
  /\ blind \subseteq blind'
  /\ \A r \in DOMAIN row' : row'[r].done \/ Past(r)' =>
       r \in blind' \/ Embedded(r)' \/ (r \in DOMAIN row /\ (row[r].done \/ Past(r)))
  /\ \A r \in DOMAIN row : Embedded(r) => Embedded(r)'

\* A step of the ingestion that writes no lost row's trace keeps the invariant.
LEMMA IngestKeeps ==
  ASSUME MemoryInv, ByIngestion, IngestedRows, IngestedVectors, IngestedNodes, IngestedOverlap,
         IngestedStep, IngestedFound, IngOK', RowsOK'
  PROVE  MemoryInv'
<1>1. StoresTyped /\ IngOK /\ RowsOK /\ VecOK /\ LostOK /\ OverlapOK /\ JobsOK /\ FoundOK
  BY DEF MemoryInv
<1>2. UNCHANGED <<stack, history, client, gone, raced>>
  BY DEF ByIngestion
<1>3. AreRows(row') /\ AreVectors(vec') /\ IsGraph(graph', stack.graph)
  BY DEF IngestedRows, IngestedVectors, IngestedNodes
<1>4. StoresTyped'
  BY <1>1, <1>2, <1>3 DEF StoresTyped, IngestedOverlap
<1>5. ~At("idle") => Chunk \notin Lost
  BY <1>1 DEF LostOK, Chunk
<1>6. Lost' = Lost /\ (Findable' <=> Findable)
  BY <1>2 DEF Lost, Findable
<1>7. VecOK'
  <2>1. SUFFICES ASSUME NEW k \in DOMAIN vec', k.kind # "entity"
                 PROVE  /\ k.of \in DOMAIN row' \cup gone /\ k.of \notin Lost
                        /\ k.of \in DOMAIN row' => vec'[k].session = row'[k.of].session
    BY <1>2, <1>6 DEF VecOK
  <2>2. DOMAIN row \subseteq DOMAIN row' /\ gone \cap DOMAIN row' = {}
    BY <1>2 DEF IngestedRows, RowsOK
  <2>3. CASE k \in DOMAIN vec /\ vec'[k].session = vec[k].session
    <3>1. /\ k.of \in DOMAIN row \cup gone /\ k.of \notin Lost
          /\ k.of \in DOMAIN row => vec[k].session = row[k.of].session
      BY <2>1, <2>3, <1>1 DEF VecOK
    <3> QED  BY <3>1, <2>2, <2>3 DEF IngestedRows
  <2>4. CASE /\ ~At("idle") /\ Chunk \in DOMAIN row \cup gone
             /\ k.of = Chunk /\ vec'[k].session = ing.offer.session
    <3>1. Chunk \in DOMAIN row => row[Chunk].session = ing.offer.session
      BY <2>4, <1>1 DEF RowsOK, Chunk
    <3> QED  BY <3>1, <2>2, <2>4, <1>5 DEF IngestedRows
  <2> QED  BY <2>1, <2>3, <2>4 DEF IngestedVectors
<1>8. LostOK'
  <2>1. Lost \subseteq RowId
    BY <1>1 DEF Lost, StoresTyped
  <2>2. ASSUME Findable, NEW n \in DOMAIN graph'.node
        PROVE  graph'.node[n].source \notin Lost
    BY <2>1, <2>2, <1>1, <1>5 DEF LostOK, IngestedNodes
  <2>3. ASSUME NEW r \in Lost, r[1] = ing'.i
        PROVE  ing'.at = "idle"
    <3>1. r \in gone /\ r \in RowId
      BY <1>1 DEF Lost, StoresTyped
    <3>2. r[1] <= ing.i /\ r[1] \in Nat /\ ing.i \in Nat
      BY <3>1, <1>1, InputsAre DEF RowsOK, RowId, Input, IngOK, IngType
    <3>3. r[1] # ing.i + 1
      BY <3>2
    <3> QED  BY <3>3, <2>3, <1>1 DEF LostOK, IngestedStep
  <2>4. ing'.met # NoSource /\ Findable => ing'.was.source \notin Lost
    BY <1>1 DEF LostOK, IngestedStep
  <2> QED  BY <2>2, <2>3, <2>4, <1>6 DEF LostOK, At
<1>9. OverlapOK'
  BY <1>2 DEF OverlapOK, IngestedOverlap, At
<1>10. \A r : Unraced(r)' => Unraced(r)
  BY <1>2 DEF Unraced, IngestedOverlap
<1>11. client.jobs # <<>> /\ ~At("idle") => ing.i \in overlap
  BY <1>1 DEF OverlapOK
<1>12. ASSUME client.jobs # <<>>, NEW r \in RowId, Unraced(r)', NEW job, Covered(job, r)
       PROVE  Covered(job, r)'
  <2>1. ~At("idle") => r # Chunk /\ ~(ing.met # NoSource)
    <3>1. Unraced(r)
      BY <1>10, <1>12
    <3> QED  BY <3>1, <1>1, <1>11, <1>12 DEF Unraced, Chunk, IngOK
  <2>2. ing.met # NoSource => ~At("idle")
    BY <1>1 DEF IngOK
  <2>3. ASSUME NEW kind \in {"doc", "chunk"}, Vector(r, kind) \in DOMAIN vec'
        PROVE  Has(job, Call("vec", Vector(r, kind)))
    <3>1. Vector(r, kind).kind # "entity" /\ Vector(r, kind).of = r
      BY KeysAre
    <3>2. Vector(r, kind) \in DOMAIN vec
      BY <3>1, <2>1, <2>3 DEF IngestedVectors
    <3> QED  BY <3>2, <1>12 DEF Covered
  <2>4. ASSUME Findable, NEW n \in DOMAIN graph'.node, graph'.node[n].source = r
        PROVE  Has(job, Call("find", r)) \/ Has(job, Call("node", n))
    <3>1. n \in DOMAIN graph.node /\ graph.node[n].source = r
      BY <2>1, <2>2, <2>4 DEF IngestedNodes
    <3> QED  BY <3>1, <2>4, <1>12 DEF Covered
  <2> QED  BY <2>3, <2>4, <1>6 DEF Covered
<1>13. OfSession \subseteq OfSession'
  BY <1>2 DEF OfSession, IngestedRows
<1>14. ASSUME client.jobs # <<>>, NEW job, Form(job)
       PROVE  Form(job)'
  BY <1>13, <1>14 DEF Form, DeletionForm, WipeForm, RequestForm
<1>15. ASSUME client.jobs # <<>>, NEW job, DeletionCovers(job)
       PROVE  DeletionCovers(job)'
  BY <1>10, <1>12, <1>15 DEF DeletionCovers
<1>16. ASSUME client.jobs # <<>>, NEW job, WipeCovers(job)
       PROVE  WipeCovers(job)'
  <2>1. SUFFICES ASSUME Wiping(job)
                 PROVE  /\ ~Has(job, Call("list", NoSource)) =>
                             \A r \in OfSession' : Unraced(r)' => Covered(job, r)'
                        /\ overlap' = {} /\ Findable /\ ~Has(job, Call("graph", NoSource)) =>
                             \A n \in DOMAIN graph'.node : graph'.node[n].session # client.session
                        /\ ~Has(job, Call("messages", NoSource)) => client.session \notin history
    BY <1>2, <1>6 DEF WipeCovers
  <2>2. ASSUME ~Has(job, Call("list", NoSource)), NEW r \in OfSession', Unraced(r)'
        PROVE  Covered(job, r)'
    <3>1. r \in DOMAIN row'
      BY <2>2 DEF OfSession
    <3>2. r \in DOMAIN row
      <4>1. SUFFICES ASSUME r \notin DOMAIN row PROVE FALSE
        OBVIOUS
      <4>2. r[1] = ing.i /\ ~At("idle")
        BY <3>1, <4>1 DEF IngestedRows
      <4> QED  BY <4>2, <2>2, <1>10, <1>11, <1>16 DEF Unraced
    <3>3. r \in OfSession /\ r \in RowId
      BY <2>2, <3>2, <1>1, <1>2 DEF OfSession, IngestedRows, StoresTyped, AreRows
    <3>4. Unraced(r)
      BY <2>2, <1>10
    <3>5. Covered(job, r)
      BY <2>1, <2>2, <3>3, <3>4, <1>16 DEF WipeCovers
    <3> QED  BY <2>2, <3>3, <3>5, <1>12, <1>16
  <2>3. overlap' = {} => overlap = {} /\ graph' = graph
    BY <1>11, <1>16 DEF IngestedOverlap, IngestedNodes
  <2> QED  BY <2>1, <2>2, <2>3, <1>16 DEF WipeCovers
<1>17. JobsOK'
  <2>1. ASSUME client.jobs # <<>>, NEW job, HeadOK(job)
        PROVE  HeadOK(job)'
    <3>1. Form(job)' /\ DeletionCovers(job)' /\ WipeCovers(job)'
      BY <2>1, <1>14, <1>15, <1>16 DEF HeadOK
    <3>2. Checked(job)' \/ Of(job) \in OfSession'
      BY <2>1, <1>2, <1>13 DEF HeadOK, Checked
    <3> QED  BY <3>1, <3>2 DEF HeadOK
  <2>2. ASSUME client.jobs # <<>>, NEW job, LaterOK(job)
        PROVE  LaterOK(job)'
    <3>1. Form(job)' /\ DeletionCovers(job)' /\ ~Wiping(job)
      BY <2>2, <1>14, <1>15 DEF LaterOK
    <3>2. Checked(job)'
      BY <2>2, <1>2 DEF LaterOK, Checked
    <3> QED  BY <3>1, <3>2 DEF LaterOK
  <2>3. client' \in ClientType
    BY <1>1, <1>2 DEF JobsOK
  <2>4. client.jobs # <<>> => HeadOK(client.jobs[1])'
    <3>1. PICK job : job = client.jobs[1]
      OBVIOUS
    <3>2. client.jobs # <<>> => HeadOK(job)'
      BY <3>1, <2>1, <1>1 DEF JobsOK
    <3>3. client'.jobs[1] = job
      BY <3>1, <1>2
    <3> QED  BY <3>2, <3>3, <1>2
  <2>5. \A j \in 2..Len(client.jobs) : LaterOK(client.jobs[j])'
    <3>1. SUFFICES ASSUME NEW j \in 2..Len(client.jobs) PROVE LaterOK(client.jobs[j])'
      OBVIOUS
    <3>2. PICK job : job = client.jobs[j]
      OBVIOUS
    <3>3. client.jobs # <<>>
      BY <3>1, <1>1 DEF JobsOK, ClientType
    <3>4. LaterOK(job)'
      BY <3>1, <3>2, <3>3, <2>2, <1>1 DEF JobsOK
    <3>5. client'.jobs[j] = job
      BY <3>2, <1>2
    <3> QED  BY <3>4, <3>5
  <2> QED  BY <2>3, <2>4, <2>5, <1>2 DEF JobsOK
<1>18. FoundOK'
  <2>1. \A r : Condemned(r) => Condemned(r)'
    BY <1>2, <1>13 DEF Condemned
  <2>2. SUFFICES ASSUME NEW r \in DOMAIN row', row'[r].done \/ Past(r)', r \notin blind'
                 PROVE  Embedded(r)' \/ Condemned(r)'
    BY DEF FoundOK
  <2>3. CASE r \in DOMAIN row /\ (row[r].done \/ Past(r))
    <3>1. r \notin blind
      BY <2>2 DEF IngestedFound
    <3>2. Embedded(r) \/ Condemned(r)
      BY <2>3, <3>1, <1>1 DEF FoundOK
    <3> QED  BY <2>1, <2>3, <3>2 DEF IngestedFound
  <2> QED  BY <2>2, <2>3 DEF IngestedFound
<1> QED  BY <1>4, <1>7, <1>8, <1>9, <1>17, <1>18 DEF MemoryInv

\* Where the ingestion can be, and where it is after the chunk was embedded.
Steps == {"idle", "store", "split", "parent", "chunk", "doc", "save", "compare", "update",
          "embed", "node", "edges", "complete"}
PastSteps == {"doc", "save", "compare", "update", "embed", "node", "edges", "complete"}

\* The ingestion goes on, or is done.
LEMMA GoIs ==
  ASSUME ing \in IngType, NEW step \in Steps, Go(step)
  PROVE  /\ ing' \in IngType /\ ing'.at = step /\ ing'.i = ing.i /\ ing'.offer = ing.offer
         /\ ing'.left = ing.left /\ ing'.met = ing.met /\ ing'.was = ing.was /\ ing'.as = ing.as
         /\ ing'.edges = ing.edges
  BY DEF Go, IngType, Steps

\* The ingestion between two inputs.
LEMMA IdleIs ==
  ASSUME NEW i \in 0..Inputs
  PROVE  /\ Idle(i) \in IngType /\ Idle(i).at = "idle" /\ Idle(i).i = i /\ Idle(i).left = <<>>
         /\ Idle(i).met = NoSource /\ Idle(i).as = "keep_separate"
<1>1. <<>> \in Seq(Name)
  BY EmptyIs
<1> QED  BY <1>1 DEF Idle, IngType

\* An input is done, or given up.
LEMMA FinishedIs ==
  ASSUME IngOK, Finished
  PROVE  /\ IngOK' /\ ing'.at = "idle" /\ ing'.i = ing.i /\ ing'.met = NoSource
<1>1. PICK i \in 0..Inputs : i = ing.i
  BY DEF IngOK, IngType
<1>2. ing' = Idle(i)
  BY <1>1 DEF Finished
<1>3. /\ ing' \in IngType /\ ing'.at = "idle" /\ ing'.i = i /\ ing'.left = <<>>
      /\ ing'.met = NoSource /\ ing'.as = "keep_separate"
  BY <1>2, IdleIs
<1> QED  BY <1>1, <1>3 DEF IngOK, At

\* A step after the rows are stored.
LEMMA WritesKeep ==
  ASSUME MemoryInv, ByIngestion, row' = row, overlap' = overlap,
         ing.at \notin {"idle", "store", "split"}, IngOK', ing'.i = ing.i,
         ing'.at \notin {"store", "split"}, ing'.at # "idle" => ing'.offer = ing.offer,
         ing'.met # NoSource =>
           \/ ing.met # NoSource /\ ing'.was = ing.was
           \/ \E n \in DOMAIN graph.node : ing'.was = graph.node[n],
         IngestedVectors, IngestedNodes, IngestedFound
  PROVE  MemoryInv'
<1>1. StoresTyped /\ RowsOK /\ OverlapOK
  BY DEF MemoryInv
<1>2. IngestedRows
  BY <1>1 DEF IngestedRows, StoresTyped
<1>3. IngestedOverlap
  BY <1>1 DEF IngestedOverlap, OverlapOK, StoresTyped, At
<1>4. IngestedStep
  BY DEF IngestedStep, At
<1>5. RowsOK'
  <2>1. gone' = gone
    BY DEF ByIngestion
  <2>2. \A r \in DOMAIN row \cup gone : r[1] <= ing.i
    BY <1>1 DEF RowsOK
  <2>3. Chunk' = Chunk /\ Chunk \in DOMAIN row \cup gone
    BY <1>1 DEF RowsOK, Chunk
  <2>4. \A r \in DOMAIN row : ing'.at # "idle" /\ r[1] = ing'.i =>
          /\ row[r].names = ing'.offer.names
          /\ row[r].session = ing'.offer.session /\ row[r].tier = ing'.offer.tier
    BY <1>1 DEF RowsOK, At
  <2>5. \A r \in DOMAIN row : row[r].done => r[2] = "chunk" /\ r[1] # ing.i
    BY <1>1 DEF RowsOK, At
  <2>6. gone \cap DOMAIN row = {}
    BY <1>1 DEF RowsOK
  <2> QED  BY <2>1, <2>2, <2>3, <2>4, <2>5, <2>6 DEF RowsOK, At
<1> QED  BY <1>2, <1>3, <1>4, <1>5, IngestKeeps

\* A step that leaves the vectors of rows.
LEMMA QuietKeeps ==
  ASSUME MemoryInv, ByIngestion, row' = row, overlap' = overlap, blind' = blind,
         ing.at \notin {"idle", "store", "split"}, IngOK', ing'.i = ing.i,
         ing'.at \notin {"store", "split"}, ing'.at # "idle" => ing'.offer = ing.offer,
         ing'.met # NoSource =>
           \/ ing.met # NoSource /\ ing'.was = ing.was
           \/ \E n \in DOMAIN graph.node : ing'.was = graph.node[n],
         AreVectors(vec'),
         \A k : k.kind # "entity" =>
           /\ k \in DOMAIN vec' <=> k \in DOMAIN vec
           /\ k \in DOMAIN vec => vec'[k] = vec[k],
         IngestedNodes, ing'.at \in PastSteps => ing.at \in PastSteps
  PROVE  MemoryInv'
<1>1. IngestedVectors
  BY DEF IngestedVectors
<1>2. \A r : Vector(r, "chunk").kind # "entity"
  BY KeysAre
<1>3. IngestedFound
  BY <1>2 DEF IngestedFound, Past, PastSteps, Chunk, Embedded
<1> QED  BY <1>1, <1>3, WritesKeep

\* The vectors are what they were.
LEMMA SameVectors ==
  ASSUME MemoryInv, vec' = vec
  PROVE  /\ AreVectors(vec')
         /\ \A k : k.kind # "entity" =>
              /\ k \in DOMAIN vec' <=> k \in DOMAIN vec
              /\ k \in DOMAIN vec => vec'[k] = vec[k]
  BY DEF MemoryInv, StoresTyped

\* So are the nodes.
LEMMA SameNodes ==
  ASSUME MemoryInv, graph' = graph \/ (IsGraph(graph', stack.graph) /\ graph'.node = graph.node /\ ~At("idle"))
  PROVE  IngestedNodes
  BY DEF MemoryInv, StoresTyped, IngestedNodes

\* What the invariant says of the ingestion.
LEMMA IngestionIs ==
  ASSUME MemoryInv
  PROVE  /\ StoresTyped /\ IngOK /\ RowsOK /\ ing \in IngType /\ ing.i \in 0..Inputs
         /\ ~At("idle") => Chunk \in RowId /\ ing.offer \in Text /\ ing.i \in Input
<1>1. IngOK /\ ing \in IngType
  BY DEF MemoryInv, IngOK
<1>2. ing.i \in 0..Inputs
  BY <1>1 DEF IngType
<1> QED  BY <1>1, <1>2 DEF MemoryInv, IngOK, Chunk, RowId

\* The input is marked as split once its chunks are stored.
LEMMA MarkSplitKeeps ==
  ASSUME MemoryInv, MarkSplit
  PROVE  MemoryInv'
<1>1. /\ ing.at = "parent" /\ ByIngestion /\ row' = row /\ overlap' = overlap /\ blind' = blind
      /\ vec' = vec /\ graph' = graph
  BY DEF MarkSplit, At
<1>2. IngOK /\ ing \in IngType
  BY IngestionIs
<1>3. Go("chunk") \/ Finished
  BY DEF MarkSplit, Update
<1>4. CASE Go("chunk")
  <2>1. /\ ing' \in IngType /\ ing'.at = "chunk" /\ ing'.i = ing.i /\ ing'.offer = ing.offer
        /\ ing'.met = ing.met /\ ing'.was = ing.was /\ ing'.as = ing.as
    BY <1>2, <1>4, GoIs DEF Steps
  <2>2. IngOK'
    BY <1>1, <1>2, <2>1 DEF IngOK, At, ByIngestion
  <2> QED  BY <1>1, <2>1, <2>2, SameVectors, SameNodes, QuietKeeps DEF PastSteps
<1>5. CASE Finished
  <2>1. IngOK' /\ ing'.at = "idle" /\ ing'.i = ing.i /\ ing'.met = NoSource
    BY <1>2, <1>5, FinishedIs
  <2> QED  BY <1>1, <2>1, SameVectors, SameNodes, QuietKeeps DEF PastSteps
<1> QED  BY <1>3, <1>4, <1>5

\* The next node of the extraction, if there is one.
LEMMA NextNodeIs ==
  ASSUME NEW left \in Seq(Name), NEW at, at = NextNode(left)
  PROVE  /\ at \in {"edges", "compare", "node"}
         /\ at \in {"compare", "node"} => left # <<>>
         /\ at = "compare" => stack.consistent
  BY DEF NextNode

\* The nodes of an extraction are taken up, or there are none.
LEMMA SaveKeeps ==
  ASSUME MemoryInv, Save
  PROVE  MemoryInv'
<1>1. /\ ing.at = "save" /\ ByIngestion /\ row' = row /\ overlap' = overlap /\ blind' = blind
      /\ vec' = vec /\ graph' = graph
  BY DEF Save, At
<1>2. IngOK /\ ing \in IngType /\ ing.i \in Input
  BY <1>1, IngestionIs DEF At
<1>3. PICK at, edges : at = NextNode(ing.left) /\ edges = Drafts
  OBVIOUS
<1>4. CASE ing' = [ing EXCEPT !.at = at, !.edges = edges]
  <2>1. edges \subseteq LinkType
    <3>1. ing.left \in Seq(Name)
      BY <1>2 DEF IngType
    <3>2. PICK left \in Seq(Name) : left = ing.left
      BY <3>1
    <3>3. \A l \in Nat : \A k \in 1..l - 1 : k \in 1..l /\ k + 1 \in 1..l
      OBVIOUS
    <3>4. \A k \in 1..Len(left) - 1 : left[k] \in Name /\ left[k + 1] \in Name
      BY <3>2, <3>3
    <3>5. \A k \in 1..Len(left) - 1 : <<ing.i, left[k]>> \in NodeId /\ <<ing.i, left[k + 1]>> \in NodeId
      BY <1>2, <3>4, NoSourceIs
    <3>6. \A n, m \in NodeId : EdgeId("fact", n, m) \in LinkType
      BY DEF EdgeId, LinkType
    <3> QED  BY <1>3, <3>2, <3>5, <3>6 DEF Drafts
  <2>2. /\ at \in {"edges", "compare", "node"} /\ (at \in {"compare", "node"} => ing.left # <<>>)
        /\ (at = "compare" => stack.consistent)
    <3>1. PICK left \in Seq(Name) : left = ing.left
      BY <1>2 DEF IngType
    <3> QED  BY <1>3, <3>1, NextNodeIs
  <2>3. /\ ing' \in IngType /\ ing'.at = at /\ ing'.i = ing.i /\ ing'.offer = ing.offer
        /\ ing'.left = ing.left /\ ing'.met = ing.met /\ ing'.was = ing.was /\ ing'.as = ing.as
    BY <1>2, <1>4, <2>1, <2>2 DEF IngType
  <2>4. IngOK'
    BY <1>1, <1>2, <2>2, <2>3 DEF IngOK, At, ByIngestion
  <2> QED  BY <1>1, <2>2, <2>3, <2>4, SameVectors, SameNodes, QuietKeeps DEF PastSteps
<1>5. CASE Finished
  <2>1. IngOK' /\ ing'.at = "idle" /\ ing'.i = ing.i /\ ing'.met = NoSource
    BY <1>2, <1>5, FinishedIs
  <2> QED  BY <1>1, <2>1, SameVectors, SameNodes, QuietKeeps DEF PastSteps
<1> QED  BY <1>3, <1>4, <1>5 DEF Save

\* The node of the extraction that is memified.
LEMMA CurrentIs ==
  ASSUME MemoryInv, ing.at \in {"compare", "update", "embed", "node"}
  PROVE  /\ Current \in Name /\ Draft \in NodeId /\ ing.left \in Seq(Name) /\ ing.left # <<>>
         /\ Tail(ing.left) \in Seq(Name)
<1>1. IngOK /\ ing \in IngType /\ ing.i \in Input
  BY IngestionIs DEF At
<1>2. ing.left \in Seq(Name) /\ ing.left # <<>>
  BY <1>1 DEF IngOK, IngType
<1>3. PICK left \in Seq(Name) : left = ing.left
  BY <1>2
<1>4. Head(left) \in Name /\ Tail(left) \in Seq(Name)
  BY <1>2, <1>3
<1>5. Current \in Name
  BY <1>3, <1>4 DEF Current
<1> QED  BY <1>1, <1>2, <1>3, <1>4, <1>5, NoSourceIs DEF Draft

\* A draft is compared with the entity that is nearest: the node that is met is of no lost
\* row.
LEMMA CompareKeeps ==
  ASSUME MemoryInv, Compare
  PROVE  MemoryInv'
<1>1. /\ ing.at = "compare" /\ ByIngestion /\ row' = row /\ overlap' = overlap /\ blind' = blind
      /\ vec' = vec /\ graph' = graph
  BY DEF Compare, At
<1>2. IngOK /\ ing \in IngType
  BY IngestionIs
<1>3. Draft \in NodeId /\ ing.left # <<>>
  BY <1>1, CurrentIs
<1>4. stack.consistent /\ IsGraph(graph, stack.graph) /\ stack' = stack
  BY <1>1, <1>2 DEF IngOK, At, MemoryInv, StoresTyped, ByIngestion
<1>5. \/ ing' = [ing EXCEPT !.at = "embed"]
      \/ \E n \in DOMAIN graph.node, as \in {"update", "ignore", "contradict"} :
           ing' = [ing EXCEPT !.at = IF as = "update" THEN "update" ELSE "embed",
                              !.met = n, !.was = graph.node[n], !.as = as,
                              !.edges = IF as = "contradict"
                                        THEN @ \cup {EdgeId("contradicts", Draft, n)} ELSE @]
  BY DEF Compare
<1>6. CASE ing' = [ing EXCEPT !.at = "embed"]
  <2>1. Go("embed")
    BY <1>6 DEF Go
  <2>2. /\ ing' \in IngType /\ ing'.at = "embed" /\ ing'.i = ing.i /\ ing'.offer = ing.offer
        /\ ing'.left = ing.left /\ ing'.met = ing.met /\ ing'.was = ing.was /\ ing'.as = ing.as
    BY <1>2, <2>1, GoIs DEF Steps
  <2>3. IngOK'
    BY <1>1, <1>2, <1>4, <2>2 DEF IngOK, At
  <2> QED  BY <1>1, <2>2, <2>3, SameVectors, SameNodes, QuietKeeps DEF PastSteps
<1>7. ASSUME NEW n \in DOMAIN graph.node, NEW as \in {"update", "ignore", "contradict"},
             ing' = [ing EXCEPT !.at = IF as = "update" THEN "update" ELSE "embed",
                                !.met = n, !.was = graph.node[n], !.as = as,
                                !.edges = IF as = "contradict"
                                          THEN @ \cup {EdgeId("contradicts", Draft, n)} ELSE @]
      PROVE  MemoryInv'
  <2>1. n \in NodeId /\ graph.node[n] \in NodeValue
    BY <1>4 DEF IsGraph
  <2>2. PICK at : at = IF as = "update" THEN "update" ELSE "embed"
    OBVIOUS
  <2>3. PICK edges : edges = IF as = "contradict"
                             THEN ing.edges \cup {EdgeId("contradicts", Draft, n)} ELSE ing.edges
    OBVIOUS
  <2>4. EdgeId("contradicts", Draft, n) \in LinkType
    BY <1>3, <2>1 DEF EdgeId, LinkType
  <2>5. edges \subseteq LinkType /\ at \in {"update", "embed"} /\ (at = "update" => as = "update")
    BY <1>2, <2>2, <2>3, <2>4 DEF IngType
  <2>6. PICK v \in NodeValue : v = graph.node[n]
    BY <2>1
  <2>7. ing' = [ing EXCEPT !.at = at, !.met = n, !.was = v, !.as = as, !.edges = edges]
    BY <1>7, <2>2, <2>3, <2>6
  <2>8. /\ ing' \in IngType /\ ing'.at = at /\ ing'.i = ing.i /\ ing'.offer = ing.offer
        /\ ing'.left = ing.left /\ ing'.met = n /\ ing'.was = v /\ ing'.as = as
    BY <1>2, <2>1, <2>5, <2>7 DEF IngType
  <2>9. n # NoSource
    BY <2>1, NoSourceIs
  <2>10. IngOK'
    BY <1>1, <1>2, <1>3, <1>4, <2>5, <2>8, <2>9 DEF IngOK, At
  <2> QED  BY <1>1, <1>7, <2>5, <2>6, <2>8, <2>10, SameVectors, SameNodes, QuietKeeps DEF PastSteps
<1> QED  BY <1>5, <1>6, <1>7

\* The node that was met, under another name and source.
Renamed(v, name, source) == [v EXCEPT !.name = name, !.source = source]

\* The node that was met is one under another name and source.
LEMMA MergedIs ==
  ASSUME NEW v \in NodeValue, NEW name \in Name, NEW source \in RowId \cup {NoSource}
  PROVE  Renamed(v, name, source) \in NodeValue /\ Renamed(v, name, source).source = source
<1> DEFINE w == [v EXCEPT !.name = name, !.source = source]
<1>1. v \in Plain => w \in Plain /\ w.source = source
  BY DEF Plain
<1>2. v \in Labelled => w \in Labelled /\ w.source = source
  BY DEF Labelled
<1>3. Renamed(v, name, source) = w
  BY DEF Renamed
<1> HIDE DEF w
<1> QED  BY <1>1, <1>2, <1>3 DEF NodeValue

\* The node that was met takes over the draft's.
LEMMA MergeNodeKeeps ==
  ASSUME MemoryInv, MergeNode
  PROVE  MemoryInv'
<1>1. /\ ing.at = "update" /\ ByIngestion /\ row' = row /\ overlap' = overlap /\ blind' = blind
      /\ vec' = vec /\ Go("embed")
  BY DEF MergeNode, At
<1>2. IngOK /\ ing \in IngType /\ Chunk \in RowId /\ stack \in Stacks /\ IsGraph(graph, stack.graph)
  BY <1>1, IngestionIs DEF At, StoresTyped
<1>3. Current \in Name /\ ing.left # <<>>
  BY <1>1, CurrentIs
<1>4. ing.met # NoSource /\ ing.met \in NodeId /\ ing.was \in NodeValue
  BY <1>1, <1>2 DEF IngOK, At, IngType
<1>5. PICK v \in NodeValue : v = Merged /\ v.source = Chunk
  <2>1. PICK was \in NodeValue, name \in Name, source \in RowId \cup {NoSource} :
          was = ing.was /\ name = Current /\ source = Chunk
    BY <1>2, <1>3, <1>4
  <2>2. PICK v : v = Renamed(was, name, source)
    OBVIOUS
  <2>3. v \in NodeValue /\ v.source = source
    BY <2>2, MergedIs
  <2>4. v = Merged
    BY <2>1, <2>2 DEF Merged, Renamed
  <2> QED  BY <2>1, <2>3, <2>4
<1>6. PICK n \in NodeId : n = ing.met
  BY <1>4
<1>7. graph' = UpdateNode(n, v)
  BY <1>5, <1>6 DEF MergeNode
<1>8. Wrote(graph', graph, stack.graph, n, Chunk)
  BY <1>2, <1>5, <1>7, Stores
<1>9. IngestedNodes
  <2>1. Chunk # NoSource
    BY <1>2, NoSourceIs
  <2> QED  BY <1>1, <1>8, <2>1 DEF IngestedNodes, Wrote, At
<1>10. /\ ing' \in IngType /\ ing'.at = "embed" /\ ing'.i = ing.i /\ ing'.offer = ing.offer
       /\ ing'.left = ing.left /\ ing'.met = ing.met /\ ing'.was = ing.was /\ ing'.as = ing.as
  BY <1>1, <1>2, GoIs DEF Steps
<1>11. IngOK'
  BY <1>1, <1>2, <1>10 DEF IngOK, At, ByIngestion
<1> QED  BY <1>1, <1>9, <1>10, <1>11, SameVectors, QuietKeeps DEF PastSteps

\* The entity is embedded: its key is no row's.
LEMMA EmbedEntityKeeps ==
  ASSUME MemoryInv, EmbedEntity
  PROVE  MemoryInv'
<1>1. /\ ing.at = "embed" /\ ByIngestion /\ row' = row /\ overlap' = overlap /\ blind' = blind
      /\ graph' = graph /\ Go("node")
  BY DEF EmbedEntity, At
<1>2. IngOK /\ ing \in IngType /\ Chunk \in RowId /\ AreVectors(vec)
  BY <1>1, IngestionIs DEF At, StoresTyped
<1>3. Current \in Name /\ Draft \in NodeId
  BY <1>1, CurrentIs
<1>4. PICK n \in NodeId : n = StoredAs
  BY <1>2, <1>3 DEF StoredAs, IngOK, IngType
<1>5. PICK k \in Key : k = Vector(n, "entity") /\ k.kind = "entity"
  BY KeysAre
<1>6. PICK x \in EntryType : x = Entry({Current}, Chunk, "none", "none")
  BY <1>2, <1>3 DEF Entry, EntryType
<1>7. vec' = V!StoreEmbedding(vec, k, x)
  BY <1>4, <1>5, <1>6 DEF EmbedEntity
<1>8. AreVectors(vec') /\ DOMAIN vec' = DOMAIN vec \cup {k} /\ \A q \in DOMAIN vec : q # k => vec'[q] = vec[q]
  <2>1. PICK v, w : v = vec /\ w = V!StoreEmbedding(v, k, x)
    OBVIOUS
  <2>2. AreVectors(v) /\ x \in EntryType
    BY <1>2, <2>1
  <2>3. VectorPut(w, v, k, x)
    BY ONLY <1>5, <2>1, <2>2, VectorStored
  <2> QED  BY <1>7, <2>1, <2>3 DEF VectorPut
<1>9. \A q : q.kind # "entity" =>
        /\ q \in DOMAIN vec' <=> q \in DOMAIN vec
        /\ q \in DOMAIN vec => vec'[q] = vec[q]
  BY <1>5, <1>8
<1>10. /\ ing' \in IngType /\ ing'.at = "node" /\ ing'.i = ing.i /\ ing'.offer = ing.offer
       /\ ing'.left = ing.left /\ ing'.met = ing.met /\ ing'.was = ing.was /\ ing'.as = ing.as
  BY <1>1, <1>2, GoIs DEF Steps
<1>11. IngOK'
  BY <1>1, <1>2, <1>10 DEF IngOK, At, ByIngestion
<1> QED  BY <1>1, <1>8, <1>9, <1>10, <1>11, SameNodes, QuietKeeps DEF PastSteps

\* The node of the draft is stored, of the row that is being cognified.
LEMMA MemifyNodeKeeps ==
  ASSUME MemoryInv, MemifyNode
  PROVE  MemoryInv'
<1>1. /\ ing.at = "node" /\ ByIngestion /\ row' = row /\ overlap' = overlap /\ blind' = blind
      /\ vec' = vec
  BY DEF MemifyNode, At
<1>2. /\ IngOK /\ ing \in IngType /\ Chunk \in RowId /\ stack \in Stacks /\ IsGraph(graph, stack.graph)
      /\ ing.offer.session \in Session
  BY <1>1, IngestionIs DEF At, StoresTyped, Text
<1>3. Current \in Name /\ Draft \in NodeId /\ Tail(ing.left) \in Seq(Name)
  BY <1>1, CurrentIs
<1>4. PICK n \in NodeId : n = StoredAs
  BY <1>2, <1>3 DEF StoredAs, IngOK, IngType
<1>5. PICK s \in Session : s = ing.offer.session
  BY <1>2
<1>6. PICK v \in NodeValue :
        /\ v = StoredValue
        /\ v.source = Chunk \/ (ing.met # NoSource /\ v.source = ing.was.source)
  <2>1. CASE ing.as = "update"
    <3>1. ing.was \in NodeValue
      BY <2>1, <1>2 DEF IngOK
    <3>2. PICK was \in NodeValue, name \in Name, source \in RowId \cup {NoSource} :
            was = ing.was /\ name = Current /\ source = Chunk
      BY <3>1, <1>2, <1>3
    <3>3. PICK m \in NodeValue : m = Renamed(was, name, source) /\ m.source = source
      <4>1. PICK m : m = Renamed(was, name, source)
        OBVIOUS
      <4>2. m \in NodeValue /\ m.source = source
        BY <4>1, MergedIs
      <4> QED  BY <4>1, <4>2
    <3>4. PICK w \in NodeValue : w = [m EXCEPT !.session = s] /\ w.source = m.source
      BY NodesAre
    <3>5. w = StoredValue
      BY <2>1, <3>2, <3>3, <3>4, <1>5 DEF StoredValue, Merged, Renamed
    <3> QED  BY <3>2, <3>3, <3>4, <3>5
  <2>2. CASE ing.as = "ignore"
    <3>1. ing.was \in NodeValue /\ ing.met # NoSource
      BY <2>2, <1>2 DEF IngOK
    <3>2. PICK was \in NodeValue : was = ing.was
      BY <3>1
    <3>3. PICK w \in NodeValue : w = [was EXCEPT !.session = s] /\ w.source = was.source
      BY NodesAre
    <3>4. w = StoredValue
      BY <2>2, <3>2, <3>3, <1>5 DEF StoredValue
    <3> QED  BY <3>1, <3>2, <3>3, <3>4
  <2>3. CASE ing.as \notin {"update", "ignore"}
    <3>1. PICK name \in Name, source \in RowId \cup {NoSource} : name = Current /\ source = Chunk
      BY <1>2, <1>3
    <3>2. PICK w : w = Node(name, s, source)
      OBVIOUS
    <3>3. w \in NodeValue /\ w.source = source
      BY <3>2, NodesAre, ZenonT(60)
    <3>4. w = StoredValue
      BY <2>3, <3>1, <3>2, <1>5 DEF StoredValue
    <3> QED  BY <3>1, <3>3, <3>4
  <2> QED  BY <2>1, <2>2, <2>3
<1>7. graph' = StoreNode(n, v)
  BY <1>4, <1>6 DEF MemifyNode
<1>8. Wrote(graph', graph, stack.graph, n, v.source)
  BY <1>2, <1>7, Stores
<1>9. IngestedNodes
  <2>1. IsGraph(graph', stack.graph)
    BY <1>8 DEF Wrote
  <2>2. ASSUME NEW m \in DOMAIN graph'.node, graph'.node[m].source \in RowId
        PROVE  \/ m \in DOMAIN graph.node /\ graph.node[m].source = graph'.node[m].source
               \/ graph'.node[m].source = Chunk
               \/ ing.met # NoSource /\ graph'.node[m].source = ing.was.source
    BY <2>2, <1>6, <1>8 DEF Wrote
  <2> QED  BY <1>1, <2>1, <2>2 DEF IngestedNodes, At
<1>10. PICK left \in Seq(Name) : left = Tail(ing.left)
  BY <1>3
<1>11. PICK at : at = NextNode(left)
  OBVIOUS
<1>12. /\ at \in {"edges", "compare", "node"} /\ (at \in {"compare", "node"} => left # <<>>)
       /\ (at = "compare" => stack.consistent)
  BY <1>11, NextNodeIs
<1>13. ing' = [ing EXCEPT !.at = at, !.left = left,
                          !.met = NoSource, !.was = NoSource, !.as = "keep_separate"]
  BY <1>2, <1>10, <1>11 DEF MemifyNode, IngType
<1>14. /\ ing' \in IngType /\ ing'.at = at /\ ing'.i = ing.i /\ ing'.offer = ing.offer
       /\ ing'.left = left /\ ing'.met = NoSource /\ ing'.as = "keep_separate"
  BY <1>2, <1>12, <1>13 DEF IngType
<1>15. IngOK'
  BY <1>1, <1>2, <1>12, <1>14 DEF IngOK, At, ByIngestion
<1> QED  BY <1>1, <1>9, <1>12, <1>14, <1>15, SameVectors, QuietKeeps DEF PastSteps

\* An edge between the nodes of the extraction is stored.
LEMMA MemifyEdgeKeeps ==
  ASSUME MemoryInv, MemifyEdge
  PROVE  MemoryInv'
<1>1. /\ ing.at = "edges" /\ ByIngestion /\ row' = row /\ overlap' = overlap /\ blind' = blind
      /\ vec' = vec
  BY DEF MemifyEdge, At
<1>2. IngOK /\ ing \in IngType /\ stack \in Stacks /\ IsGraph(graph, stack.graph)
  BY IngestionIs DEF StoresTyped
<1>3. CASE ing.edges = {}
  <2>1. Go("complete") /\ graph' = graph
    BY <1>3 DEF MemifyEdge
  <2>2. /\ ing' \in IngType /\ ing'.at = "complete" /\ ing'.i = ing.i /\ ing'.offer = ing.offer
        /\ ing'.left = ing.left /\ ing'.met = ing.met /\ ing'.was = ing.was /\ ing'.as = ing.as
    BY <1>2, <2>1, GoIs DEF Steps
  <2>3. IngOK'
    BY <1>1, <1>2, <2>2 DEF IngOK, At, ByIngestion
  <2> QED  BY <1>1, <2>1, <2>2, <2>3, SameVectors, SameNodes, QuietKeeps DEF PastSteps
<1>4. CASE ing.edges # {}
  <2>1. PICK e, edge : graph' = Connect(e, edge) /\ ing' = [ing EXCEPT !.edges = @ \ {e}]
    BY <1>4 DEF MemifyEdge
  <2>2. IsGraph(graph', stack.graph) /\ graph'.node = graph.node
    BY <1>2, <2>1, ConnectIs
  <2>3. /\ ing' \in IngType /\ ing'.at = "edges" /\ ing'.i = ing.i /\ ing'.offer = ing.offer
        /\ ing'.left = ing.left /\ ing'.met = ing.met /\ ing'.was = ing.was /\ ing'.as = ing.as
    BY <1>1, <1>2, <2>1 DEF IngType
  <2>4. IngOK'
    BY <1>1, <1>2, <2>3 DEF IngOK, At, ByIngestion
  <2>5. IngestedNodes
    BY <1>1, <2>2, SameNodes DEF At
  <2> QED  BY <1>1, <2>3, <2>4, <2>5, SameVectors, QuietKeeps DEF PastSteps
<1> QED  BY <1>3, <1>4

\* An input is added, or known and cognified again.
LEMMA AddKeeps ==
  ASSUME MemoryInv, Add
  PROVE  MemoryInv'
<1>1. /\ At("idle") /\ ing.i < Inputs /\ ByIngestion /\ row' = row /\ vec' = vec /\ graph' = graph
      /\ blind' = blind
      /\ overlap' = IF client.jobs = <<>> THEN {} ELSE overlap \cup {ing.i + 1}
  BY DEF Add
<1>2. StoresTyped /\ IngOK /\ RowsOK /\ OverlapOK /\ ing.i \in 0..Inputs
  BY IngestionIs DEF MemoryInv
<1>3. PICK i \in Input : i = ing.i + 1 /\ i \in 0..Inputs
  <2>1. \A l \in Nat : \A j \in 0..l : j < l => j + 1 \in 1..l /\ j + 1 \in 0..l
    OBVIOUS
  <2> QED  BY <1>1, <1>2, <2>1, InputsAre DEF Input
<1>4. PICK offer \in Offers[i] :
        ing' = Idle(i) \/ ing' = [Idle(i) EXCEPT !.at = "store", !.offer = offer]
  BY <1>3 DEF Add
<1>5. offer \in Text
  BY <1>4, OffersAre
<1>6. PICK idle \in IngType :
        /\ idle = Idle(i) /\ idle.at = "idle" /\ idle.i = i /\ idle.left = <<>>
        /\ idle.met = NoSource /\ idle.as = "keep_separate"
  BY <1>3, IdleIs
<1>7. /\ ing' \in IngType /\ ing'.i = i /\ ing'.left = <<>> /\ ing'.met = NoSource
      /\ ing'.as = "keep_separate"
      /\ ing'.at = "idle" \/ (ing'.at = "store" /\ ing'.offer = offer)
  <2>1. CASE ing' = idle
    BY <2>1, <1>6
  <2>2. CASE ing' = [idle EXCEPT !.at = "store", !.offer = offer]
    BY <2>2, <1>5, <1>6 DEF IngType
  <2> QED  BY <2>1, <2>2, <1>4, <1>6
<1>8. IngOK'
  BY <1>3, <1>5, <1>7 DEF IngOK, At
<1>9. \A r \in DOMAIN row \cup gone : r[1] <= ing'.i /\ r[1] # ing'.i
  <2>1. DOMAIN row \cup gone \subseteq RowId
    BY <1>2 DEF StoresTyped, AreRows
  <2>2. \A r \in DOMAIN row \cup gone : r[1] <= ing.i /\ r[1] \in Nat
    BY <1>2, <2>1, InputsAre DEF RowsOK, RowId, Input
  <2>3. ing.i \in Nat
    BY <1>2, InputsAre
  <2> QED  BY <2>2, <2>3, <1>3, <1>7
<1>10. RowsOK'
  <2>1. gone' = gone /\ gone \cap DOMAIN row = {}
    BY <1>1, <1>2 DEF ByIngestion, RowsOK
  <2>2. \A r \in DOMAIN row : row[r].done => r[2] = "chunk"
    BY <1>2 DEF RowsOK
  <2> QED  BY <2>1, <2>2, <1>1, <1>7, <1>9 DEF RowsOK, At
<1>11. IngestedRows
  BY <1>1, <1>2 DEF IngestedRows, StoresTyped
<1>12. IngestedVectors /\ IngestedNodes
  BY <1>1, <1>2, SameNodes DEF IngestedVectors, StoresTyped
<1>13. IngestedOverlap
  BY <1>1, <1>2, <1>3, <1>7 DEF IngestedOverlap, OverlapOK, StoresTyped
<1>14. IngestedStep
  BY <1>3, <1>7 DEF IngestedStep
<1>15. IngestedFound
  BY <1>1, <1>7 DEF IngestedFound, Past, Embedded
<1> QED  BY <1>1, <1>8, <1>10, <1>11, <1>12, <1>13, <1>14, <1>15, IngestKeeps

\* A row is stored.
LEMMA RowComes ==
  ASSUME MemoryInv, ByIngestion, ~At("idle"), NEW r \in RowId, r[1] = ing.i,
         r \notin DOMAIN row \cup gone, row' = Put(row, r, Row),
         UNCHANGED <<vec, graph, overlap, blind>>,
         NEW next \in {"split", "parent"}, Go(next),
         next = "split" => \A q \in DOMAIN row' \cup gone : q[1] = ing.i => q[2] = "input",
         next = "parent" => r = Chunk
  PROVE  MemoryInv'
<1>1. StoresTyped /\ IngOK /\ RowsOK /\ OverlapOK /\ ing \in IngType /\ ing.offer \in Text /\ ing.i \in Input
  BY IngestionIs DEF MemoryInv
<1>2. gone' = gone /\ stack' = stack
  BY DEF ByIngestion
<1>3. PICK x \in RowType :
        /\ x = Row /\ x.names = ing.offer.names /\ x.session = ing.offer.session
        /\ x.tier = ing.offer.tier /\ x.done = FALSE
  <2>1. PICK x : x = Row
    OBVIOUS
  <2>2. x \in RowType
    BY <2>1, <1>1 DEF Row, RowType, Text
  <2>3. /\ x.names = ing.offer.names /\ x.session = ing.offer.session
        /\ x.tier = ing.offer.tier /\ x.done = FALSE
    BY <2>1 DEF Row
  <2> QED  BY <2>1, <2>2, <2>3
<1>4. /\ AreRows(row') /\ DOMAIN row' = DOMAIN row \cup {r} /\ row'[r] = x
      /\ \A q \in DOMAIN row : q # r => row'[q] = row[q]
  <2>1. PICK rows : rows = row
    OBVIOUS
  <2>2. PICK w : w = Put(rows, r, x)
    OBVIOUS
  <2>3. AreRows(rows)
    BY <1>1, <2>1 DEF StoresTyped
  <2>4. /\ AreRows(w) /\ DOMAIN w = DOMAIN rows \cup {r} /\ w[r] = x
        /\ \A q \in DOMAIN rows : q # r => w[q] = rows[q]
    <3>1. w = [q \in DOMAIN rows \cup {r} |-> IF q = r THEN x ELSE rows[q]]
      BY <2>2 DEF Put
    <3>2. IsFiniteSet(DOMAIN rows \cup {r})
      BY <2>3, FS_AddElement DEF AreRows
    <3> QED  BY <3>1, <3>2, <2>3, <1>3 DEF AreRows
  <2>5. row' = w
    BY <2>1, <2>2, <1>3
  <2> QED  BY <2>1, <2>4, <2>5 DEF AreRows
<1>5. /\ ing'.at = next /\ ing' \in IngType /\ ing'.i = ing.i /\ ing'.offer = ing.offer
      /\ ing'.left = ing.left /\ ing'.met = ing.met /\ ing'.was = ing.was /\ ing'.as = ing.as
  BY <1>1, GoIs DEF Steps
<1>6. IngOK'
  BY <1>1, <1>2, <1>5 DEF IngOK, At
<1>7. RowsOK'
  <2>1. gone \cap DOMAIN row' = {}
    BY <1>1, <1>4 DEF RowsOK
  <2>2. \A q \in DOMAIN row' \cup gone : q[1] <= ing.i
    <3>1. ing.i <= ing.i
      BY <1>1, InputsAre DEF Input
    <3> QED  BY <3>1, <1>1, <1>4 DEF RowsOK
  <2>3. \A q \in DOMAIN row' :
          /\ q[1] = ing.i =>
               /\ row'[q].names = ing.offer.names
               /\ row'[q].session = ing.offer.session /\ row'[q].tier = ing.offer.tier
          /\ row'[q].done => q[2] = "chunk" /\ q[1] # ing.i
    BY <1>1, <1>3, <1>4 DEF RowsOK
  <2>4. ing'.at \notin {"idle", "store", "split"} => Chunk' \in DOMAIN row'
    BY <1>4, <1>5 DEF Chunk
  <2> QED  BY <2>1, <2>2, <2>3, <2>4, <1>2, <1>5 DEF RowsOK, At
<1>8. IngestedRows
  BY <1>4 DEF IngestedRows
<1>9. IngestedVectors /\ IngestedNodes
  BY <1>1, SameNodes DEF IngestedVectors, StoresTyped
<1>10. IngestedOverlap
  BY <1>1, <1>5 DEF IngestedOverlap, OverlapOK, StoresTyped
<1>11. IngestedStep
  BY <1>5 DEF IngestedStep
<1>12. IngestedFound
  <2>1. ~row'[r].done
    BY <1>3, <1>4
  <2>2. \A q : ~Past(q)'
    BY <1>5 DEF Past
  <2>3. \A q \in DOMAIN row' : q # r => q \in DOMAIN row /\ row'[q] = row[q]
    BY <1>4
  <2>4. \A q \in DOMAIN row : q # r
    OBVIOUS
  <2>5. \A q \in DOMAIN row : Embedded(q) => Embedded(q)'
    BY <2>3, <2>4, <1>4 DEF Embedded
  <2> QED  BY <2>1, <2>2, <2>3, <2>5 DEF IngestedFound
<1> QED  BY <1>6, <1>7, <1>8, <1>9, <1>10, <1>11, <1>12, IngestKeeps

\* The row of an input is stored, unless its hash is known.
LEMMA StoreInputKeeps ==
  ASSUME MemoryInv, StoreInput
  PROVE  MemoryInv'
<1>1. /\ At("store") /\ Go("split") /\ ByIngestion /\ UNCHANGED <<vec, graph, overlap, blind>>
  BY DEF StoreInput
<1>2. PICK r : r = <<ing.i, "input">>
  OBVIOUS
<1>3. r \in RowId /\ r[1] = ing.i /\ r[2] = "input" /\ ~At("idle")
  BY <1>1, <1>2, IngestionIs DEF RowId, At
<1>4. \A q \in DOMAIN row \cup gone : q[1] # ing.i
  BY <1>1, IngestionIs DEF RowsOK
<1>5. row' = Put(row, r, Row)
  BY <1>2 DEF StoreInput
<1>6. DOMAIN row' = DOMAIN row \cup {r}
  BY <1>5 DEF Put
<1>7. \A q \in DOMAIN row' \cup gone : q[1] = ing.i => q[2] = "input"
  BY <1>3, <1>4, <1>6
<1> QED  BY <1>1, <1>3, <1>4, <1>5, <1>7, RowComes

\* The chunk of an input is stored.
LEMMA SplitKeeps ==
  ASSUME MemoryInv, Split
  PROVE  MemoryInv'
<1>1. /\ At("split") /\ Go("parent") /\ ByIngestion /\ UNCHANGED <<vec, graph, overlap, blind>>
      /\ row' = Put(row, Chunk, Row)
  BY DEF Split
<1>2. PICK r : r = Chunk
  OBVIOUS
<1>3. r \in RowId /\ r[1] = ing.i /\ r[2] = "chunk" /\ ~At("idle")
  BY <1>1, <1>2, IngestionIs DEF Chunk, At
<1>4. r \notin DOMAIN row \cup gone
  BY <1>1, <1>3, IngestionIs DEF RowsOK
<1> QED  BY <1>1, <1>2, <1>3, <1>4, RowComes

-----------------------------------------------------------------------------
\* A vector of the chunk is stored.
LEMMA ChunkVector ==
  ASSUME MemoryInv, ~At("idle"), Chunk \in DOMAIN row \cup gone, NEW kind \in {"doc", "chunk"},
         NEW x \in EntryType, x.session = ing.offer.session,
         vec' = V!StoreEmbedding(vec, Vector(Chunk, kind), x)
  PROVE  /\ IngestedVectors
         /\ Vector(Chunk, kind) \in DOMAIN vec' /\ vec'[Vector(Chunk, kind)] = x
         /\ \A k \in DOMAIN vec : k # Vector(Chunk, kind) => k \in DOMAIN vec' /\ vec'[k] = vec[k]
<1>1. AreVectors(vec) /\ Chunk \in RowId
  BY IngestionIs DEF StoresTyped
<1>2. PICK k \in Key : k = Vector(Chunk, kind) /\ k.of = Chunk
  BY <1>1, KeysAre
<1>3. vec' = V!StoreEmbedding(vec, k, x)
  BY <1>2
<1>4. /\ AreVectors(vec') /\ DOMAIN vec' = DOMAIN vec \cup {k} /\ vec'[k] = x
      /\ \A q \in DOMAIN vec : q # k => vec'[q] = vec[q]
  <2>1. PICK v, w : v = vec /\ w = V!StoreEmbedding(v, k, x)
    OBVIOUS
  <2>2. AreVectors(v) /\ x \in EntryType
    BY <1>1, <2>1
  <2>3. VectorPut(w, v, k, x)
    BY ONLY <1>2, <2>1, <2>2, VectorStored
  <2> QED  BY <1>3, <2>1, <2>3 DEF VectorPut
<1>5. IngestedVectors
  BY <1>2, <1>4 DEF IngestedVectors
<1> QED  BY <1>2, <1>4, <1>5

\* The vector of a chunk has its words, its row, its tier and its session.
LEMMA ChunkEntryIs ==
  ASSUME MemoryInv, ~At("idle")
  PROVE  /\ ChunkEntry \in EntryType /\ ChunkEntry.session = ing.offer.session
         /\ ChunkEntry.names = ing.offer.names /\ ChunkEntry.source = Chunk
         /\ ChunkEntry.tier = ing.offer.tier
  BY IngestionIs DEF ChunkEntry, Entry, EntryType, Text

\* The chunk is embedded, or that fails and nothing will find it by its vector.
LEMMA EmbedChunkKeeps ==
  ASSUME MemoryInv, EmbedChunk
  PROVE  MemoryInv'
<1>1. ing.at = "chunk" /\ ByIngestion /\ row' = row /\ graph' = graph /\ overlap' = overlap
  BY DEF EmbedChunk, At
<1>2. IngOK /\ RowsOK /\ StoresTyped /\ ing \in IngType /\ ~At("idle")
  BY <1>1, IngestionIs DEF At
<1>3. Chunk \in DOMAIN row \cup gone
  BY <1>1, <1>2 DEF RowsOK
<1>4. PICK next \in {"doc", "save"} : Go(next)
  BY DEF EmbedChunk
<1>5. /\ ing' \in IngType /\ ing'.at = next /\ ing'.i = ing.i /\ ing'.offer = ing.offer
      /\ ing'.left = ing.left /\ ing'.met = ing.met /\ ing'.was = ing.was /\ ing'.as = ing.as
  BY <1>2, <1>4, GoIs DEF Steps
<1>6. IngOK'
  BY <1>1, <1>2, <1>5 DEF IngOK, At, ByIngestion
<1>7. \A r : Past(r)' => r = Chunk
  BY <1>5 DEF Past, Chunk
<1>8. CASE vec' = V!StoreEmbedding(vec, Vector(Chunk, "chunk"), ChunkEntry) /\ blind' = blind
  <2>1. PICK x \in EntryType :
          /\ x = ChunkEntry /\ x.session = ing.offer.session /\ x.names = ing.offer.names
          /\ x.source = Chunk /\ x.tier = ing.offer.tier
    BY <1>2, ChunkEntryIs
  <2>2. /\ IngestedVectors
        /\ Vector(Chunk, "chunk") \in DOMAIN vec' /\ vec'[Vector(Chunk, "chunk")] = x
        /\ \A k \in DOMAIN vec : k # Vector(Chunk, "chunk") => k \in DOMAIN vec' /\ vec'[k] = vec[k]
    BY <1>2, <1>3, <1>8, <2>1, ChunkVector
  <2>3. PICK c : c = Chunk
    OBVIOUS
  <2>4. c \in DOMAIN row => Embedded(c)'
    <3>1. c \in DOMAIN row => row[c].names = ing.offer.names /\ row[c].tier = ing.offer.tier
      BY <1>2, <2>3 DEF RowsOK, Chunk
    <3> QED  BY <3>1, <1>1, <2>1, <2>2, <2>3 DEF Embedded
  <2>5. \A r \in DOMAIN row : Embedded(r) => Embedded(r)'
    <3>1. SUFFICES ASSUME NEW r \in DOMAIN row, Embedded(r), r # c PROVE Embedded(r)'
      BY <2>4
    <3>2. Vector(r, "chunk") # Vector(Chunk, "chunk")
      BY <3>1, <2>3, KeysAre
    <3> QED  BY <3>1, <3>2, <1>1, <2>2 DEF Embedded
  <2>6. IngestedFound
    BY <1>1, <1>7, <1>8, <2>3, <2>4, <2>5 DEF IngestedFound
  <2> QED  BY <1>1, <1>2, <1>5, <1>6, <2>2, <2>6, SameNodes, WritesKeep
<1>9. CASE vec' = vec /\ blind' = blind \cup {Chunk}
  <2>1. IngestedVectors
    BY <1>2, <1>9 DEF IngestedVectors, StoresTyped
  <2>2. \A r \in DOMAIN row : Embedded(r) => Embedded(r)'
    BY <1>1, <1>9 DEF Embedded
  <2>3. IngestedFound
    BY <1>1, <1>7, <1>9, <2>2 DEF IngestedFound
  <2> QED  BY <1>1, <1>2, <1>5, <1>6, <2>1, <2>3, SameNodes, WritesKeep
<1> QED  BY <1>8, <1>9 DEF EmbedChunk

\* The document is embedded.
LEMMA EmbedDocumentKeeps ==
  ASSUME MemoryInv, EmbedDocument
  PROVE  MemoryInv'
<1>1. /\ ing.at = "doc" /\ ByIngestion /\ row' = row /\ graph' = graph /\ overlap' = overlap
      /\ blind' = blind
  BY DEF EmbedDocument, At
<1>2. IngOK /\ RowsOK /\ ing \in IngType /\ ~At("idle")
  BY <1>1, IngestionIs DEF At
<1>3. Chunk \in DOMAIN row \cup gone
  BY <1>1, <1>2 DEF RowsOK
<1>4. PICK left \in Seq(Name) : left = Listed(ing.offer.names)
  <2>1. PICK names : names = ing.offer.names
    OBVIOUS
  <2> QED  BY <2>1, ListedIs
<1>5. ing' = [ing EXCEPT !.at = "save", !.left = left]
  BY <1>4 DEF EmbedDocument
<1>6. /\ ing' \in IngType /\ ing'.at = "save" /\ ing'.i = ing.i /\ ing'.offer = ing.offer
      /\ ing'.met = ing.met /\ ing'.was = ing.was /\ ing'.as = ing.as
  BY <1>2, <1>5 DEF IngType
<1>7. IngOK'
  BY <1>1, <1>2, <1>6 DEF IngOK, At, ByIngestion
<1>8. PICK x \in EntryType : x = [ChunkEntry EXCEPT !.source = NoSource] /\ x.session = ing.offer.session
  <2>1. PICK e \in EntryType : e = ChunkEntry /\ e.session = ing.offer.session
    BY <1>2, ChunkEntryIs
  <2>2. PICK x : x = [e EXCEPT !.source = NoSource]
    OBVIOUS
  <2>3. x \in EntryType /\ x.session = e.session
    BY <2>2 DEF EntryType
  <2> QED  BY <2>1, <2>2, <2>3
<1>9. vec' = V!StoreEmbedding(vec, Vector(Chunk, "doc"), x)
  BY <1>8 DEF EmbedDocument
<1>10. /\ IngestedVectors
       /\ \A k \in DOMAIN vec : k # Vector(Chunk, "doc") => k \in DOMAIN vec' /\ vec'[k] = vec[k]
  BY <1>2, <1>3, <1>8, <1>9, ChunkVector
<1>11. \A r \in DOMAIN row : Embedded(r) => Embedded(r)'
  <2>1. \A r : Vector(r, "chunk") # Vector(Chunk, "doc")
    BY KeysAre
  <2> QED  BY <2>1, <1>1, <1>10 DEF Embedded
<1>12. IngestedFound
  <2>1. \A r : Past(r)' => Past(r)
    BY <1>1, <1>6 DEF Past, Chunk
  <2> QED  BY <2>1, <1>1, <1>11 DEF IngestedFound
<1> QED  BY <1>1, <1>2, <1>6, <1>7, <1>10, <1>12, SameNodes, WritesKeep

\* The chunk is cognified, if it is still there.
LEMMA CompleteKeeps ==
  ASSUME MemoryInv, Complete
  PROVE  MemoryInv'
<1>1. /\ ing.at = "complete" /\ ByIngestion /\ vec' = vec /\ graph' = graph /\ overlap' = overlap
      /\ blind' = blind /\ Finished
  BY DEF Complete, At
<1>2. IngOK /\ RowsOK /\ StoresTyped /\ OverlapOK /\ ing \in IngType /\ ~At("idle")
  BY <1>1, IngestionIs DEF At, MemoryInv
<1>3. IngOK' /\ ing'.at = "idle" /\ ing'.i = ing.i /\ ing'.met = NoSource
  BY <1>1, <1>2, FinishedIs
<1>4. PICK c : c = Chunk /\ c[2] = "chunk"
  <2>1. Chunk[2] = "chunk"
    BY DEF Chunk
  <2> QED  BY <2>1
<1>5. /\ DOMAIN row' = DOMAIN row
      /\ \A r \in DOMAIN row : r # c => row'[r] = row[r]
      /\ c \in DOMAIN row => row'[c] = [row[c] EXCEPT !.done = TRUE]
  BY <1>4 DEF Complete, Completed
<1>6. \A r \in DOMAIN row : row[r] \in RowType
  BY <1>2 DEF StoresTyped, AreRows
<1>7. /\ \A r \in DOMAIN row : row'[r] \in RowType /\ row'[r].names = row[r].names
                               /\ row'[r].session = row[r].session /\ row'[r].tier = row[r].tier
      /\ \A r \in DOMAIN row : row'[r].done => row[r].done \/ r = c
  <2>1. ASSUME c \in DOMAIN row
        PROVE  /\ row'[c] \in RowType /\ row'[c].names = row[c].names
               /\ row'[c].session = row[c].session /\ row'[c].tier = row[c].tier
    <3>1. PICK x \in RowType : x = row[c]
      BY <2>1, <1>6
    <3>2. [x EXCEPT !.done = TRUE] \in RowType
      BY DEF RowType
    <3>3. row'[c] = [x EXCEPT !.done = TRUE]
      BY <2>1, <3>1, <1>5
    <3>4. /\ [x EXCEPT !.done = TRUE].names = x.names /\ [x EXCEPT !.done = TRUE].session = x.session
          /\ [x EXCEPT !.done = TRUE].tier = x.tier
      BY DEF RowType
    <3> QED  BY <3>1, <3>2, <3>3, <3>4
  <2> QED  BY <2>1, <1>5, <1>6
<1>8. AreRows(row')
  BY <1>2, <1>5, <1>7 DEF AreRows, StoresTyped
<1>9. IngestedRows
  BY <1>5, <1>7, <1>8 DEF IngestedRows
<1>10. IngestedVectors /\ IngestedNodes
  BY <1>1, <1>2, SameNodes DEF IngestedVectors, StoresTyped
<1>11. IngestedOverlap
  BY <1>1, <1>2, <1>3 DEF IngestedOverlap, OverlapOK, StoresTyped
<1>12. IngestedStep
  BY <1>2, <1>3 DEF IngestedStep
<1>13. RowsOK'
  <2>1. gone' = gone /\ gone \cap DOMAIN row = {}
    BY <1>2 DEF ByIngestion, RowsOK, Complete
  <2>2. \A r \in DOMAIN row \cup gone : r[1] <= ing.i
    BY <1>2 DEF RowsOK
  <2>3. \A r \in DOMAIN row : row'[r].done => r[2] = "chunk"
    BY <1>2, <1>4, <1>7 DEF RowsOK
  <2> QED  BY <2>1, <2>2, <2>3, <1>3, <1>5 DEF RowsOK, At
<1>14. IngestedFound
  <2>1. Past(c)
    BY <1>1, <1>4 DEF Past
  <2>2. \A r : ~Past(r)'
    BY <1>3 DEF Past
  <2>3. \A r \in DOMAIN row : Embedded(r) => Embedded(r)'
    BY <1>1, <1>7 DEF Embedded
  <2> QED  BY <2>1, <2>2, <2>3, <1>1, <1>5, <1>7 DEF IngestedFound
<1> QED  BY <1>1, <1>3, <1>9, <1>10, <1>11, <1>12, <1>13, <1>14, IngestKeeps

\* At first the invariant holds.
LEMMA InitHolds == Init => MemoryInv
<1> SUFFICES ASSUME Init PROVE MemoryInv
  OBVIOUS
<1>1. /\ stack \in Stacks /\ row = <<>> /\ vec = <<>> /\ history = {} /\ client = Silent
      /\ gone = {} /\ overlap = {} /\ raced = {} /\ blind = {} /\ ing = Idle(0)
      /\ graph = Pick(IM!Empty, SQ!Empty, RD!Empty, NJ!Empty)
  BY DEF Init
<1>2. IsGraph(graph, stack.graph) /\ DOMAIN graph.node = {}
  BY <1>1, NoNodes
<1>3. DOMAIN row = {} /\ DOMAIN vec = {} /\ IsFiniteSet({})
  <2>1. DOMAIN <<>> = {}
    OBVIOUS
  <2> QED  BY <2>1, <1>1, FS_EmptySet
<1>4. StoresTyped
  BY <1>1, <1>2, <1>3 DEF StoresTyped, AreRows, AreVectors
<1>5. /\ ing \in IngType /\ ing.at = "idle" /\ ing.i = 0 /\ ing.left = <<>>
      /\ ing.met = NoSource /\ ing.as = "keep_separate"
  <2>1. 0 \in 0..Inputs
    BY InputsAre
  <2> QED  BY <2>1, <1>1, IdleIs
<1>6. IngOK
  BY <1>5 DEF IngOK, At
<1>7. RowsOK /\ VecOK /\ LostOK
  BY <1>1, <1>2, <1>3, <1>5 DEF RowsOK, VecOK, LostOK, Lost, At
<1>8. client.jobs = <<>> /\ client.session = "" /\ client.ends = <<>>
  BY <1>1 DEF Silent
<1>9. OverlapOK
  BY <1>1, <1>8 DEF OverlapOK
<1>10. JobsOK
  <2>1. client \in ClientType
    <3>1. <<>> \in Seq(Seq(CallType)) /\ <<>> \in Seq(NodeId) /\ "" \in Session
      BY EmptyIs, GlobalSession
    <3> QED  BY <3>1, <1>1 DEF Silent, ClientType
  <2>2. \A j \in 2..Len(<<>>) : FALSE
    OBVIOUS
  <2> QED  BY <2>1, <2>2, <1>8 DEF JobsOK
<1>11. FoundOK
  BY <1>3 DEF FoundOK
<1> QED  BY <1>4, <1>6, <1>7, <1>9, <1>10, <1>11 DEF MemoryInv

\* Every step keeps it.
LEMMA IngestHolds ==
  ASSUME MemoryInv, Ingest
  PROVE  MemoryInv'
BY AddKeeps, StoreInputKeeps, SplitKeeps, MarkSplitKeeps, EmbedChunkKeeps, EmbedDocumentKeeps,
   SaveKeeps, CompareKeeps, MergeNodeKeeps, EmbedEntityKeeps, MemifyNodeKeeps, MemifyEdgeKeeps,
   CompleteKeeps DEF Ingest

\* Every step of a call of the client keeps it.
LEMMA ClientHolds ==
  ASSUME MemoryInv, Client
  PROVE  MemoryInv'
BY DeleteMemoryKeeps, DeleteSessionKeeps, RequestKeeps, CheckAccepts, CheckRefuses, FindNodesKeeps,
   RemoveNodeKeeps, RemoveVectorKeeps, RemoveRowKeeps, ListRowsKeeps, RemoveGraphKeeps,
   RemoveMessagesKeeps, RemoveRowsOfSessionKeeps, ForgetEntityKeeps, ForgetSimilarKeeps,
   EnsureNodeKeeps, EmbedNodeKeeps, RelateKeeps, TellNodeKeeps DEF Client

\* A step that changes nothing keeps it too.
LEMMA StutterHolds ==
  ASSUME MemoryInv, UNCHANGED vars
  PROVE  MemoryInv'
<1>1. /\ stack' = stack /\ row' = row /\ vec' = vec /\ graph' = graph /\ history' = history
      /\ ing' = ing /\ client' = client /\ gone' = gone /\ overlap' = overlap /\ raced' = raced
      /\ blind' = blind
  BY DEF vars
<1>2. StoresTyped' /\ IngOK' /\ RowsOK'
  BY <1>1 DEF MemoryInv, StoresTyped, IngOK, RowsOK, At, Chunk
<1>3. VecOK' /\ LostOK' /\ OverlapOK'
  BY <1>1 DEF MemoryInv, VecOK, LostOK, OverlapOK, Lost, Findable, At
<1>4. JobsOK'
  <2>1. ASSUME NEW job, HeadOK(job)
        PROVE  HeadOK(job)'
    <3>1. OfSession' = OfSession /\ (Findable' <=> Findable)
      BY <1>1 DEF OfSession, Findable
    <3>2. \A r : (Unraced(r)' <=> Unraced(r)) /\ (Covered(job, r)' <=> Covered(job, r))
      BY <1>1, <3>1 DEF Unraced, Covered
    <3>3. Form(job)'
      BY <2>1, <3>1 DEF HeadOK, Form, DeletionForm, WipeForm, RequestForm
    <3>4. DeletionCovers(job)'
      BY <2>1, <3>2 DEF HeadOK, DeletionCovers
    <3>5. WipeCovers(job)'
      BY <2>1, <1>1, <3>1, <3>2 DEF HeadOK, WipeCovers
    <3>6. Checked(job)' \/ Of(job) \in OfSession'
      BY <2>1, <1>1, <3>1 DEF HeadOK, Checked
    <3> QED  BY <3>3, <3>4, <3>5, <3>6 DEF HeadOK
  <2>2. \A job : LaterOK(job) => LaterOK(job)'
    BY <1>1 DEF LaterOK, Form, DeletionForm, WipeForm, RequestForm, DeletionCovers,
                Covered, Unraced, Findable, Checked
  <2>3. JobsOK
    BY DEF MemoryInv
  <2>4. client.jobs # <<>> => HeadOK(client.jobs[1])'
    <3>1. PICK job : job = client.jobs[1]
      OBVIOUS
    <3>2. client.jobs # <<>> => HeadOK(job)'
      BY <3>1, <2>1, <2>3 DEF JobsOK
    <3>3. client'.jobs[1] = job
      BY <3>1, <1>1
    <3> QED  BY <3>2, <3>3, <1>1
  <2>5. \A j \in 2..Len(client.jobs) : LaterOK(client.jobs[j])'
    <3>1. SUFFICES ASSUME NEW j \in 2..Len(client.jobs) PROVE LaterOK(client.jobs[j])'
      OBVIOUS
    <3>2. PICK job : job = client.jobs[j]
      OBVIOUS
    <3>3. LaterOK(job)'
      BY <3>1, <3>2, <2>2, <2>3 DEF JobsOK
    <3>4. client'.jobs[j] = job
      BY <3>2, <1>1
    <3> QED  BY <3>3, <3>4
  <2> QED  BY <1>1, <2>3, <2>4, <2>5 DEF JobsOK
<1>5. FoundOK'
  <2>1. FoundOK
    BY DEF MemoryInv
  <2> QED  BY <1>1, <2>1 DEF FoundOK, Past, Chunk, Embedded, Condemned, OfSession
<1> QED  BY <1>2, <1>3, <1>4, <1>5 DEF MemoryInv

\* For any inputs, sessions, requests and configurations of stores the ingestion and the
\* client's calls keep the stores together, step by step and in any order of their steps
\* (search.go:228, task_cognify.go:48).
THEOREM MemoryInvHolds == Spec => []MemoryInv
<1>1. Init => MemoryInv
  BY InitHolds
<1>2. MemoryInv /\ [Next]_vars => MemoryInv'
  BY IngestHolds, ClientHolds, StutterHolds DEF Next
<1> QED  BY <1>1, <1>2, PTL DEF Spec

-----------------------------------------------------------------------------
\* The types are part of it.
LEMMA TypesFollow == MemoryInv => MemoryTypeOK
<1> SUFFICES ASSUME MemoryInv PROVE MemoryTypeOK
  OBVIOUS
<1>1. AreRows(row) /\ AreVectors(vec) /\ IsGraph(graph, stack.graph)
  BY DEF MemoryInv, StoresTyped
<1>2. DOMAIN row \subseteq RowId /\ \A r \in DOMAIN row : row[r].session \in Session /\ row[r].tier \in Tier
  BY <1>1 DEF AreRows, RowType
<1>3. /\ DOMAIN vec \subseteq Key
      /\ \A k \in DOMAIN vec : vec[k].names \subseteq Name /\ vec[k].source \in RowId \cup NodeId \cup {NoSource}
  BY <1>1 DEF AreVectors, EntryType
<1>4. /\ DOMAIN graph.node \subseteq NodeId
      /\ \A n \in DOMAIN graph.node : graph.node[n].source \in RowId \cup {NoSource}
  BY <1>1 DEF IsGraph, NodeValue, Plain, Labelled
<1>5. history \subseteq Session \ {""} /\ gone \subseteq RowId /\ raced \subseteq gone /\ overlap \subseteq Input
  BY DEF MemoryInv, StoresTyped
<1> QED  BY <1>2, <1>3, <1>4, <1>5 DEF MemoryTypeOK

\* The stores, the ingestion and the client keep their types: what is met in the graph,
\* read in one step and written in a later one, is a node all the while
\* (task_memify.go:63).
THEOREM EngineIsTyped == Spec => []MemoryTypeOK
BY MemoryInvHolds, TypesFollow, PTL

\* A row that was deleted is never there again, whatever copy of it the ingestion had read
\* and goes on to write: it updates and does not insert (task_memify.go:136,
\* search.go:228).
THEOREM NothingComesBack == Spec => []DeletedStaysDeleted
<1>1. MemoryInv => DeletedStaysDeleted
  BY DEF MemoryInv, RowsOK, DeletedStaysDeleted
<1> QED  BY <1>1, MemoryInvHolds, PTL

\* The row is the last of a memory to go (search.go:228, delete_session.go:53), and nothing
\* writes or merges a trace of it later, unless an ingestion overlapped the call.
THEOREM NothingIsOrphaned == Spec => []NoOrphans
<1>1. MemoryInv => NoOrphans
  BY DEF MemoryInv, VecOK, LostOK, Lost, Findable, NoOrphans
<1> QED  BY <1>1, MemoryInvHolds, PTL

\* Whatever is done to it, a completed memory is found by its own words by each session
\* that may see it, in both kinds of search, as long as the store has no more vectors than
\* a search asks for: beyond that the nearest crowd out the others (search.go:57,
\* search_four_tier.go:136).  Over the in-memory graph the search may panic instead, and
\* only at an edge that is gone or whose end is (search_four_tier.go:434).
THEOREM FewAreFound == Spec => [](AllFit => SearchFinds)
<1>1. MemoryInv => (AllFit => SearchFinds)
  BY FoundOfFew DEF MemoryInv
<1> QED  BY <1>1, MemoryInvHolds, PTL

-----------------------------------------------------------------------------
\* A session is wiped.
LEMMA OnlyRows ==
  ASSUME MemoryInv, [Next]_vars, Does("rows"), client' # client
  PROVE  RemoveRowsOfSession
<1>1. client.jobs # <<>> /\ Next1.op = "rows"
  BY DEF Does
<1>2. ~Ingest /\ ~UNCHANGED vars
  <2>1. Ingest => ByIngestion
    BY DEF Ingest, Add, StoreInput, Split, MarkSplit, EmbedChunk, EmbedDocument, Save, Compare,
           MergeNode, EmbedEntity, MemifyNode, MemifyEdge, Complete
  <2> QED  BY <2>1 DEF ByIngestion, vars
<1>3. \A s, jobs : ~Begin(s, jobs)
  BY <1>1 DEF Begin
<1>4. \A op : op # "rows" => ~Does(op)
  BY <1>1 DEF Does
<1> QED  BY <1>2, <1>3, <1>4
         DEF Next, Client, DeleteMemory, DeleteSession, Request, CheckOwner, FindNodes, RemoveNode,
             RemoveVector, RemoveRow, ListRows, RemoveGraph, RemoveMessages, ForgetEntity,
             ForgetSimilar, EnsureNode, EmbedNode, Relate, TellNode, TellEdge

\* The last step of a wiping that met no ingestion leaves nothing of the session.
LEMMA WipeStepIs ==
  ASSUME MemoryInv, [Next]_vars, Does("rows"), overlap = {}, client' = Silent, NEW s, s = client.session
  PROVE  /\ \A r \in DOMAIN row' : row'[r].session # s
         /\ \A k \in DOMAIN vec' : vec'[k].session = s => k.kind = "entity" \/ k.of \in raced
         /\ stack.graph # "redis" => \A n \in DOMAIN graph'.node : graph'.node[n].session # s
         /\ s \notin history'
<1>1. RemoveRowsOfSession
  <2>1. client.jobs # <<>> /\ client'.jobs = <<>>
    BY DEF Does, Silent
  <2> QED  BY <2>1, OnlyRows
<1>2. PICK job : job = client.jobs[1]
  OBVIOUS
<1>3. client.jobs # <<>> /\ Next1.op = "rows" /\ UNCHANGED <<vec, graph, history>> /\ RemoveRows(OfSession)
  BY <1>1 DEF RemoveRowsOfSession, Does
<1>4. job[1].op = "rows" /\ Wiping(job) /\ Len(job) = 1 /\ HeadOK(job)
  BY <1>2, <1>3, HeadCall
<1>5. \A op, id : op # "rows" => ~Has(job, Call(op, id))
  BY <1>4, CallsAre DEF Has
<1>6. \A r : Unraced(r)
  BY DEF Unraced
<1>7. \A r \in OfSession : Covered(job, r)
  BY <1>4, <1>5, <1>6 DEF HeadOK, WipeCovers
<1>8. \A r \in DOMAIN row' : row'[r].session # s
  BY <1>3 DEF RemoveRows, Restrict, OfSession
<1>9. ASSUME NEW k \in DOMAIN vec, vec[k].session = s, k.kind # "entity"
      PROVE  k.of \in raced
  <2>1. /\ k.of \in DOMAIN row \cup gone /\ k.of \notin Lost
        /\ k.of \in DOMAIN row => vec[k].session = row[k.of].session
    BY <1>9 DEF MemoryInv, VecOK
  <2>2. k = Vector(k.of, k.kind) /\ k.kind \in {"doc", "chunk"}
    <3>1. k \in Key
      BY <1>9 DEF MemoryInv, StoresTyped, AreVectors
    <3> QED  BY <3>1, <1>9, KeysAre
  <2>3. k.of \notin OfSession
    BY <1>5, <1>7, <1>9, <2>2 DEF Covered
  <2> QED  BY <2>1, <2>3, <1>9 DEF OfSession, Lost
<1>10. stack.graph # "redis" => \A n \in DOMAIN graph.node : graph.node[n].session # s
  BY <1>4, <1>5 DEF HeadOK, WipeCovers, Findable
<1>11. s \notin history
  BY <1>4, <1>5 DEF HeadOK, WipeCovers
<1> QED  BY <1>3, <1>8, <1>9, <1>10, <1>11

\* A session that is wiped while nothing is ingested has no row, no message, no vector of a
\* row and, but in Redis, no node afterwards, for any number of rows
\* (delete_session.go:53).
THEOREM WipesAreThorough == Spec => WipeIsThorough
<1>1. MemoryInv /\ [Next]_vars =>
        [Does("rows") /\ overlap = {} /\ client' = Silent =>
           LET s == client.session
           IN  /\ \A r \in DOMAIN row' : row'[r].session # s
               /\ \A k \in DOMAIN vec' : vec'[k].session = s => k.kind = "entity" \/ k.of \in raced
               /\ stack.graph # "redis" => \A n \in DOMAIN graph'.node : graph'.node[n].session # s
               /\ s \notin history']_vars
  <2>1. SUFFICES ASSUME MemoryInv, [Next]_vars, Does("rows"), overlap = {}, client' = Silent
                 PROVE  /\ \A r \in DOMAIN row' : row'[r].session # client.session
                        /\ \A k \in DOMAIN vec' : vec'[k].session = client.session =>
                             k.kind = "entity" \/ k.of \in raced
                        /\ stack.graph # "redis" =>
                             \A n \in DOMAIN graph'.node : graph'.node[n].session # client.session
                        /\ client.session \notin history'
    OBVIOUS
  <2>2. PICK s : s = client.session
    OBVIOUS
  <2>3. /\ \A r \in DOMAIN row' : row'[r].session # s
        /\ \A k \in DOMAIN vec' : vec'[k].session = s => k.kind = "entity" \/ k.of \in raced
        /\ stack.graph # "redis" => \A n \in DOMAIN graph'.node : graph'.node[n].session # s
        /\ s \notin history'
    BY <2>1, <2>2, WipeStepIs
  <2> QED  BY <2>2, <2>3
<1> QED  BY <1>1, MemoryInvHolds, PTL DEF Spec, WipeIsThorough

-----------------------------------------------------------------------------
\* Nothing but a removal takes rows or vectors.
LEMMA StoreGrows ==
  ASSUME NEW k, NEW x
  PROVE  DOMAIN vec \subseteq DOMAIN V!StoreEmbedding(vec, k, x)
  BY DEF V!StoreEmbedding, V!Put

LEMMA IngestTakesNothing ==
  ASSUME Ingest
  PROVE  DOMAIN row \subseteq DOMAIN row' /\ DOMAIN vec \subseteq DOMAIN vec'
<1>1. CASE Add \/ MarkSplit \/ Save \/ Compare \/ MergeNode \/ MemifyNode \/ MemifyEdge
  <2>1. row' = row /\ vec' = vec
    BY <1>1 DEF Add, MarkSplit, Save, Compare, MergeNode, MemifyNode, MemifyEdge
  <2> QED  BY <2>1
<1>2. CASE StoreInput \/ Split
  <2>1. vec' = vec /\ \E r, x : row' = Put(row, r, x)
    BY <1>2 DEF StoreInput, Split
  <2> QED  BY <2>1 DEF Put
<1>3. CASE EmbedChunk \/ EmbedDocument \/ EmbedEntity
  <2>1. row' = row /\ (vec' = vec \/ \E k, x : vec' = V!StoreEmbedding(vec, k, x))
    BY <1>3 DEF EmbedChunk, EmbedDocument, EmbedEntity
  <2> QED  BY <2>1, StoreGrows
<1>4. CASE Complete
  <2>1. vec' = vec /\ DOMAIN row' = DOMAIN row
    BY <1>4 DEF Complete, Completed
  <2> QED  BY <2>1
<1> QED  BY <1>1, <1>2, <1>3, <1>4 DEF Ingest

\* Nor does a call of the client but for three.
LEMMA ClientTakes ==
  ASSUME Client, ~RemoveRow, ~RemoveRowsOfSession, ~RemoveVector
  PROVE  DOMAIN row \subseteq DOMAIN row' /\ DOMAIN vec \subseteq DOMAIN vec'
<1>1. Reads => row' = row /\ vec' = vec
  BY DEF Reads, KeepsRows
<1>2. \A s, jobs : Begin(s, jobs) => row' = row /\ vec' = vec
  BY DEF Begin
<1>3. CASE EmbedNode
  <2>1. row' = row /\ \E k, x : vec' = V!StoreEmbedding(vec, k, x)
    BY <1>3 DEF EmbedNode, KeepsRows
  <2> QED  BY <2>1, StoreGrows
<1>4. CASE ~EmbedNode
  <2>1. row' = row /\ vec' = vec
    BY <1>1, <1>2, <1>4
       DEF Client, DeleteMemory, DeleteSession, Request, CheckOwner, FindNodes, RemoveNode,
           ListRows, RemoveGraph, RemoveMessages, ForgetEntity, ForgetSimilar, EnsureNode,
           Relate, TellNode, TellEdge, KeepsRows
  <2> QED  BY <2>1
<1> QED  BY <1>3, <1>4

\* And those take only what is of the client's session.
LEMMA OwnRows ==
  ASSUME MemoryInv, [Next]_vars, client.session # ""
  PROVE  /\ \A r \in DOMAIN row \ DOMAIN row' : row[r].session = client.session
         /\ \A k \in DOMAIN vec \ DOMAIN vec' : vec[k].session = client.session
<1>1. PICK job : job = client.jobs[1]
  OBVIOUS
<1>2. CASE RemoveRow
  <2>1. client.jobs # <<>> /\ Next1.op = "row" /\ vec' = vec /\ RemoveRows({Next1.id})
    BY <1>2 DEF RemoveRow, Does
  <2>2. Next1 = job[1] /\ job[1].op = "row" /\ Deleting(job) /\ job[1].id = Of(job) /\ HeadOK(job)
    BY <1>1, <2>1, HeadCall
  <2>3. Of(job) \in OfSession
    BY <2>2 DEF HeadOK, Checked
  <2>4. DOMAIN row' = DOMAIN row \ {Of(job)}
    BY <2>1, <2>2 DEF RemoveRows, Restrict
  <2> QED  BY <2>1, <2>3, <2>4 DEF OfSession
<1>3. CASE RemoveRowsOfSession
  <2>1. vec' = vec /\ DOMAIN row' = DOMAIN row \ OfSession
    BY <1>3 DEF RemoveRowsOfSession, RemoveRows, Restrict
  <2> QED  BY <2>1 DEF OfSession
<1>4. CASE RemoveVector
  <2>1. client.jobs # <<>> /\ Next1.op = "vec" /\ row' = row /\ vec' = V!DeleteEmbedding(vec, Next1.id)
    BY <1>4 DEF RemoveVector, Does, KeepsRows
  <2>2. Next1 = job[1] /\ job[1].op = "vec" /\ HeadOK(job)
    BY <1>1, <2>1, HeadCall
  <2>3. PICK k : k = job[1].id
    OBVIOUS
  <2>4. k.kind # "entity" /\ k.of \in OfSession
    <3>1. k.kind # "entity" /\ ((k.of = Of(job) /\ Deleting(job)) \/ k.of \in OfSession)
      BY <1>1, <2>1, <2>2, <2>3, HeadCall
    <3> QED  BY <3>1, <2>2 DEF HeadOK, Checked
  <2>6. \A q \in DOMAIN vec \ DOMAIN vec' : q = k
    <3>1. PICK v, w : v = vec /\ w = V!DeleteEmbedding(v, k)
      OBVIOUS
    <3>2. AreVectors(v)
      BY <3>1 DEF MemoryInv, StoresTyped
    <3>3. DOMAIN w = DOMAIN v \ {k}
      BY ONLY <3>1, <3>2, VectorGone DEF VectorOut
    <3>4. vec' = w
      BY <3>1, <2>1, <2>2, <2>3
    <3> QED  BY <3>1, <3>3, <3>4
  <2>7. k \in DOMAIN vec => vec[k].session = row[k.of].session
    BY <2>4 DEF MemoryInv, VecOK, OfSession
  <2> QED  BY <2>1, <2>4, <2>6, <2>7 DEF OfSession
<1>5. CASE ~RemoveRow /\ ~RemoveRowsOfSession /\ ~RemoveVector
  <2>1. UNCHANGED vars => row' = row /\ vec' = vec
    BY DEF vars
  <2>2. DOMAIN row \subseteq DOMAIN row' /\ DOMAIN vec \subseteq DOMAIN vec'
    BY <1>5, <2>1, IngestTakesNothing, ClientTakes DEF Next
  <2> QED  BY <2>2
<1> QED  BY <1>2, <1>3, <1>4, <1>5

\* With a session, a call never takes a row or a vector of another one, whatever ids it is
\* given (search.go:230): the owner is checked first.
THEOREM DeletionsAreOwn == Spec => DeletionsStayInSession
<1>1. MemoryInv /\ [Next]_vars =>
        [client.session # "" =>
           /\ \A r \in DOMAIN row \ DOMAIN row' : row[r].session = client.session
           /\ \A k \in DOMAIN vec \ DOMAIN vec' : vec[k].session = client.session]_vars
  BY OwnRows
<1> QED  BY <1>1, MemoryInvHolds, PTL DEF Spec, DeletionsStayInSession
=============================================================================
