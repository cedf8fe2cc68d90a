--------------------------- MODULE ClientsProofs ----------------------------
(***************************************************************************)
(* Proofs about clients that have something in common, for any number of   *)
(* them and whatever each of them is to do.  Those of one relational store *)
(* (SharedRows): an input that several of them cognify at the same time    *)
(* ends with all its chunks, and is stored twice for known reasons only.   *)
(* Those of one language model (ModelClients): a call is answered by a     *)
(* model that was set while it ran, and gives up for a cause.  Those that  *)
(* embed with one object (EmbeddingClients): a call that ends well has the *)
(* vectors of its texts, of lengths that somebody asked for.               *)
(***************************************************************************)
EXTENDS SharedRows, ModelClients, EmbeddingClients, FiniteSetTheorems, SequenceTheorems,
        WellFoundedInduction, TLAPS

-----------------------------------------------------------------------------
(* Naturals and the tables.                                                *)

LEMMA LeastNat ==
  ASSUME NEW T \in SUBSET Nat, T # {}
  PROVE  \E x \in T : \A y \in T : x <= y
<1> DEFINE below == {1..n : n \in T}
<1>1. below # {} /\ below \subseteq FiniteSubsetsOf(Nat)
  <2>1. ASSUME NEW n \in T
        PROVE  1..n \in FiniteSubsetsOf(Nat)
    <3>1. IsFiniteSet(1..n)
      BY FS_Interval
    <3> QED
      BY <3>1 DEF FiniteSubsetsOf
  <2> QED
    BY <2>1
<1>2. \E s \in below : \A u \in below : ~(<<u, s>> \in StrictSubsetOrdering(Nat))
  <2> HIDE DEF below
  <2> QED
    BY <1>1, FS_StrictSubsetOrderingWellFounded, WFMin
<1>3. PICK x \in T : \A u \in below : ~(<<u, 1..x>> \in StrictSubsetOrdering(Nat))
  BY <1>2
<1>4. ASSUME NEW y \in T, y < x
      PROVE  FALSE
  <2>1. x \in Nat /\ y \in Nat
    OBVIOUS
  <2>2. 1..y \subseteq 1..x /\ x \in 1..x /\ x \notin 1..y
    BY <1>4, <2>1
  <2>3. 1..y \in below /\ 1..x \subseteq Nat
    BY <2>1
  <2> QED
    BY <2>2, <2>3, <1>3 DEF StrictSubsetOrdering
<1> QED
  BY <1>4

\* Among rows whose times are bounded there is a newest one.
LEMMA NewestExists ==
  ASSUME NEW found, found # {}, NEW bound \in Nat,
         \A f \in found : f.row.created \in Nat /\ f.row.created <= bound
  PROVE  \E f \in found : f \in R!NewestOf(found)
<1> DEFINE ages == {bound - f.row.created : f \in found}
<1>1. ages \in SUBSET Nat /\ ages # {}
  OBVIOUS
<1>2. PICK x \in ages : \A y \in ages : x <= y
  <2> HIDE DEF ages
  <2> QED
    BY <1>1, LeastNat
<1>3. PICK f \in found : x = bound - f.row.created
  BY <1>2
<1>4. \A g \in found : bound - f.row.created <= bound - g.row.created
  BY <1>2, <1>3
<1>5. \A g \in found : g.row.created <= f.row.created
  BY <1>4
<1> QED
  BY <1>5 DEF R!NewestOf

-----------------------------------------------------------------------------
(* The invariant, over the values of the variables: d of db, a of added, t *)
(* of clock, calls of caller, me of a client's call.                       *)

InputId == Nat \X {0}
RowStatus == {"pending", "processing", "cognified", "completed"}
\* What names a session or a tier (the provers do not know that these are strings).
Word == STRING \cup {"", "general"}
RowKind ==
  [content : {Blank} \cup ((DOMAIN PartsOf) \X Nat), session : Word, tier : Word,
   isInput : BOOLEAN, split : BOOLEAN, parent : {NoRow} \cup InputId,
   status : RowStatus, created : Nat]
RowSteps == {"idle", "inputs", "store", "split", "mark", "begin", "draft", "finish",
         "parent", "count", "write"}
RowCall ==
  [todo : Seq(RowOffer \cup {ById}), at : RowSteps, seen : SUBSET [id : Nat \X Nat, row : RowKind],
   known : SUBSET InputId, id : {NoRow} \cup InputId, copy : RowKind \cup {NoRow},
   k : Nat, read : RowKind \cup {NoRow}]
InputEntry == [offer : RowOffer, known : SUBSET InputId, byId : BOOLEAN]

Inputs(d) == d["input_datapoints"]
Points(d) == d["datapoints"]
Size(a, id) == Chunks(a[id].offer.content)
SameAs(row, offer) ==
  row.content = offer.content /\ row.session = offer.session /\ row.tier = offer.tier

\* What is ever in the row of an input, or in a copy of it: what it was added
\* with or, when it was cognified by its id, the bare row.
FitsAdded(a, id, row) ==
  /\ row \in RowKind
  /\ row.isInput => SameAs(row, a[id].offer)
  /\ ~row.isInput => row.content = Blank /\ a[id].byId

TablesOK(d, a, t) ==
  /\ t \in Nat
  /\ d = [u \in R!Table |-> d[u]]
  /\ \A u \in R!Table : /\ d[u] \in [DOMAIN d[u] -> RowKind]
                        /\ \A i \in DOMAIN d[u] : d[u][i].created <= t
  /\ \E m \in Nat : DOMAIN a = {<<n, 0>> : n \in 1..m}
  /\ DOMAIN Inputs(d) = DOMAIN a
  /\ a \in [DOMAIN a -> InputEntry]
  /\ \A id \in DOMAIN a : a[id].known \subseteq DOMAIN a

InputsOK(d, a) == \A id \in DOMAIN a : FitsAdded(a, id, Inputs(d)[id])

PointsOK(d, a) ==
  \A i \in DOMAIN Points(d) : \E id \in DOMAIN a : \E k \in 1..Size(a, id) :
    /\ i = ChunkId(id, k)
    /\ Points(d)[i].parent = id
    /\ ~Points(d)[i].isInput
    /\ Points(d)[i].content = ChunkContent(a[id].offer.content, k)

There(d, id, k) == ChunkId(id, k) \in DOMAIN Points(d)
AllThere(d, a, id) == \A k \in 1..Size(a, id) : There(d, id, k)
Done(d, id, k) == There(d, id, k) /\ Points(d)[ChunkId(id, k)].status = "completed"

\* AddsFindEarlier, for one Add.
Excused(a, offer, known) ==
  \A old \in known : a[old].offer = offer =>
    \/ Chunks(offer.content) = 1
    \/ a[old].byId
    \/ \E other \in DOMAIN a : /\ a[other].offer.content = offer.content
                               /\ a[other].offer.tier # offer.tier

\* The chunks that a lookup has seen are no inputs, and are of texts of one chunk:
\* others have a content of their own.
SeenOK(me, t) ==
  \A f \in me.seen :
    /\ ~f.row.isInput
    /\ f.row.created <= t
    /\ f.row.content = Head(me.todo).content /\ Chunks(f.row.content) = 1

\* A client that shares an input: it stores the chunks it then works on, and no
\* copy it may write is of a time before the split.
SharingOK(me, d, a) ==
  /\ me.id \in DOMAIN a
  /\ FitsAdded(a, me.id, me.copy)
  /\ me.at = "split" => /\ me.k \in 1..Chunks(me.copy.content)
                        /\ \A j \in 1..(me.k - 1) : There(d, me.id, j)
  /\ me.at = "mark" /\ Chunks(me.copy.content) # 0 => AllThere(d, a, me.id)
  /\ me.at \notin {"split", "mark"} =>
       /\ me.copy.split /\ Inputs(d)[me.id].split
       /\ me.k \in 1..(Chunks(me.copy.content) + 1)
       /\ me.k <= Chunks(me.copy.content) => AllThere(d, a, me.id)
  /\ me.at \in {"begin", "draft", "finish", "parent"} => me.k <= Chunks(me.copy.content)
  /\ me.at \in {"count", "write"} => FitsAdded(a, me.id, me.read) /\ me.read.split

CallOK(me, d, a, t) ==
  /\ me \in RowCall
  /\ me.at # "idle" => me.todo # <<>>
  /\ me.at \in {"inputs", "store"} => me.known \subseteq DOMAIN a /\ Head(me.todo) # ById
  /\ me.at = "inputs" => SeenOK(me, t)
  /\ me.at = "store" =>
       /\ me.copy \in RowKind /\ me.copy.created <= t
       /\ SameAs(me.copy, Head(me.todo)) /\ me.copy.isInput /\ ~me.copy.split
       /\ Excused(a, Head(me.todo), me.known)
  /\ me.at \notin {"idle", "inputs", "store"} => SharingOK(me, d, a)

CallsOK(calls, d, a, t) ==
  /\ calls \in [Clients -> RowCall]
  /\ \A c \in Clients : CallOK(calls[c], d, a, t)

\* The client has chunk k of the input still to complete.
Due(me, id, k) ==
  /\ me.id = id
  /\ \/ me.at = "split"
     \/ me.at = "mark" /\ Chunks(me.copy.content) # 0
     \/ me.at \in {"begin", "draft", "finish"} /\ me.k <= k
     \/ me.at \in {"parent", "count", "write"} /\ me.k < k /\ k <= Chunks(me.copy.content)

DueOK(calls, d, a) ==
  \A id \in DOMAIN a : \A k \in 1..Size(a, id) :
    Done(d, id, k) \/ \E c \in Clients : Due(calls[c], id, k)

MarkedOK(calls, d, a) ==
  \A id \in DOMAIN a :
    \/ Inputs(d)[id].split
    \/ \E c \in Clients : calls[c].id = id /\ calls[c].at \in {"split", "mark"}

AddedOK(a) == \A id \in DOMAIN a : Excused(a, a[id].offer, a[id].known)

RowsInv ==
  /\ TablesOK(db, added, clock)
  /\ InputsOK(db, added)
  /\ PointsOK(db, added)
  /\ CallsOK(caller, db, added, clock)
  /\ DueOK(caller, db, added)
  /\ MarkedOK(caller, db, added)
  /\ AddedOK(added)

-----------------------------------------------------------------------------
(* Contents, ids and copies.                                               *)

LEMMA ContentOfOffer ==
  ASSUME NEW o \in RowOffer
  PROVE  /\ o.content \in {Blank} \cup ((DOMAIN PartsOf) \X Nat)
         /\ o.session \in Word /\ o.tier \in Word
         /\ \E n \in DOMAIN PartsOf : o.content = <<n, 0>>
<1>1. o.session \in STRING /\ o.tier \in STRING
  BY DEF RowOffer
<1>2. o.content \in {Blank} \cup ((DOMAIN PartsOf) \X Nat)
      /\ \E n \in DOMAIN PartsOf : o.content = <<n, 0>>
  BY DEF RowOffer
<1> QED
  BY <1>1, <1>2, Zenon DEF Word

LEMMA ChunksType ==
  ASSUME NEW content \in {Blank} \cup ((DOMAIN PartsOf) \X Nat)
  PROVE  Chunks(content) \in Nat
BY RowsAssumption DEF Chunks

LEMMA ChunksOfBlank == Chunks(Blank) = 0
BY DEF Chunks

\* The contents of the chunks of a text, which has any.
LEMMA ChunkContentType ==
  ASSUME NEW o \in RowOffer, NEW k \in 1..Chunks(o.content)
  PROVE  /\ ChunkContent(o.content, k) \in {Blank} \cup ((DOMAIN PartsOf) \X Nat)
         /\ \A other \in RowOffer :
              ChunkContent(o.content, k) = other.content => Chunks(other.content) = 1
<1>1. PICK n \in DOMAIN PartsOf : o.content = <<n, 0>>
  BY DEF RowOffer
<1>2. Chunks(o.content) \in Nat
  BY ContentOfOffer, ChunksType
<1>3. k \in Nat /\ k # 0
  BY <1>2
<1>4. CASE Chunks(o.content) = 1
  <2>1. ChunkContent(o.content, k) = o.content
    BY <1>4 DEF ChunkContent
  <2> QED
    BY <1>4, <2>1, ContentOfOffer
<1>5. CASE Chunks(o.content) # 1
  <2>1. ChunkContent(o.content, k) = <<n, k>>
    BY <1>1, <1>5 DEF ChunkContent
  <2>2. \A other \in RowOffer : other.content # <<n, k>>
    BY <1>3, ContentOfOffer
  <2> QED
    BY <1>3, <2>1, <2>2
<1> QED
  BY <1>4, <1>5

LEMMA ChunkIds ==
  ASSUME NEW id \in InputId, NEW k \in Nat
  PROVE  /\ \A other \in InputId, j \in Nat :
              ChunkId(id, k) = ChunkId(other, j) => id = other /\ k = j
         /\ k # 0 => ChunkId(id, k) \notin InputId
         /\ ChunkId(id, k)[1] = id[1] /\ ChunkId(id, k) \in Nat \X Nat
BY DEF InputId, ChunkId

LEMMA SizeType ==
  ASSUME NEW d, NEW a, NEW t, TablesOK(d, a, t), NEW id \in DOMAIN a
  PROVE  /\ a[id].offer \in RowOffer /\ Size(a, id) \in Nat /\ id \in InputId
         /\ a[id] \in InputEntry
<1>1. a[id] \in InputEntry /\ id \in InputId
  BY DEF TablesOK, InputId
<1>2. a[id].offer \in RowOffer
  BY <1>1 DEF InputEntry
<1> QED
  BY <1>1, <1>2, ContentOfOffer, ChunksType DEF Size

\* A copy of an input's row is cut into its chunks or into none.
LEMMA FitsChunks ==
  ASSUME NEW a, NEW id, NEW row, FitsAdded(a, id, row)
  PROVE  /\ Chunks(row.content) \in Nat
         /\ Chunks(row.content) # 0 =>
              row.content = a[id].offer.content /\ Chunks(row.content) = Size(a, id)
         /\ row \in RowKind
<1>1. row \in RowKind /\ row.content \in {Blank} \cup ((DOMAIN PartsOf) \X Nat)
  BY DEF FitsAdded, RowKind
<1> QED
  BY <1>1, ChunksType, ChunksOfBlank DEF FitsAdded, Size, SameAs

-----------------------------------------------------------------------------
(* What one statement writes.                                              *)

\* The row, but for the time it was created.
RowsKept(new, row, t) ==
  /\ new \in RowKind /\ new.created <= t
  /\ new.content = row.content /\ new.session = row.session /\ new.tier = row.tier
  /\ new.isInput = row.isInput /\ new.split = row.split /\ new.parent = row.parent
  /\ new.status = row.status

RowWrote(d, d2, t, tab, i, row) ==
  /\ d2 = [u \in R!Table |-> d2[u]]
  /\ \A u \in R!Table \ {tab} : d2[u] = d[u]
  /\ d2[tab] \in [DOMAIN d[tab] \cup {i} -> RowKind]
  /\ \A j \in DOMAIN d[tab] : j # i => d2[tab][j] = d[tab][j]
  /\ RowsKept(d2[tab][i], row, t)

LEMMA PutWrites ==
  ASSUME NEW d, NEW a, NEW t, TablesOK(d, a, t), NEW tab \in R!Table, NEW i,
         NEW row \in RowKind, i \in DOMAIN d[tab] \/ row.created <= t
  PROVE  RowWrote(d, R!Put(d, tab, i, row), t, tab, i, row)
<1> DEFINE new == IF i \in DOMAIN d[tab] THEN [row EXCEPT !.created = d[tab][i].created] ELSE row
           d2 == R!Put(d, tab, i, row)
<1>1. d = [u \in R!Table |-> d[u]] /\ d[tab] \in [DOMAIN d[tab] -> RowKind]
  BY DEF TablesOK
<1>2. d2 = [u \in R!Table |-> IF u # tab THEN d[u] ELSE
              [j \in DOMAIN d[tab] \cup {i} |-> IF j # i THEN d[tab][j] ELSE new]]
  BY <1>1, Zenon DEF R!Put, R!Has
<1>3. RowsKept(new, row, t)
  <2>1. CASE i \in DOMAIN d[tab]
    <3>1. d[tab][i] \in RowKind /\ d[tab][i].created <= t
      BY <2>1, <1>1 DEF TablesOK
    <3> DEFINE at == d[tab][i].created
    <3>2. at \in Nat /\ at <= t
      BY <3>1 DEF RowKind
    <3>3. new = [row EXCEPT !.created = at]
      BY <2>1
    <3> HIDE DEF at, new
    <3> QED
      BY <3>2, <3>3 DEF RowsKept, RowKind
  <2>2. CASE i \notin DOMAIN d[tab]
    <3>1. new = row
      BY <2>2
    <3> HIDE DEF new
    <3> QED
      BY <2>2, <3>1 DEF RowsKept
  <2> QED
    BY <2>1, <2>2
<1>4. new \in RowKind
  BY <1>3 DEF RowsKept
<1> HIDE DEF new, d2
<1>5. d2[tab] = [j \in DOMAIN d[tab] \cup {i} |-> IF j # i THEN d[tab][j] ELSE new]
  BY <1>2
<1>6. d2[tab] \in [DOMAIN d[tab] \cup {i} -> RowKind]
  BY <1>1, <1>4, <1>5
<1>7. \A u \in R!Table \ {tab} : d2[u] = d[u]
  BY <1>2
<1>8. d2 = [u \in R!Table |-> d2[u]]
  BY <1>2
<1>9. d2[tab][i] = new /\ \A j \in DOMAIN d[tab] : j # i => d2[tab][j] = d[tab][j]
  BY <1>5
<1> QED
  BY <1>3, <1>6, <1>7, <1>8, <1>9 DEF RowWrote, d2

\* Inputs and chunks are in tables of their own.
LEMMA TablesApart ==
  ASSUME NEW d, NEW a, NEW t, TablesOK(d, a, t), PointsOK(d, a)
  PROVE  /\ DOMAIN Points(d) \cap DOMAIN Inputs(d) = {}
         /\ DOMAIN Inputs(d) = DOMAIN a
<1>1. ASSUME NEW i \in DOMAIN Points(d)
      PROVE  i \notin InputId
  <2>1. PICK id \in DOMAIN a : \E k \in 1..Size(a, id) : i = ChunkId(id, k)
    BY <1>1 DEF PointsOK
  <2>2. PICK k \in 1..Size(a, id) : i = ChunkId(id, k)
    BY <2>1
  <2>3. Size(a, id) \in Nat /\ id \in InputId
    BY <2>1, SizeType
  <2>4. k \in Nat /\ k # 0
    BY <2>3
  <2> QED
    BY <2>2, <2>3, <2>4, ChunkIds
<1>2. DOMAIN Inputs(d) = DOMAIN a
  BY DEF TablesOK
<1>3. DOMAIN a \subseteq InputId
  BY SizeType
<1> QED
  BY <1>1, <1>2, <1>3

LEMMA TableNames == R!Table = {"datapoints", "input_datapoints"}
BY DEF R!Table

\* An update of an input's row finds it, whatever the copy says it is.
LEMMA UpdateInput ==
  ASSUME NEW d, NEW a, NEW t, TablesOK(d, a, t), PointsOK(d, a), NEW id \in DOMAIN a,
         NEW row \in RowKind
  PROVE  RowWrote(d, R!UpdateDataPoint(d, id, row), t, "input_datapoints", id, row)
<1>1. id \in DOMAIN d["input_datapoints"] /\ id \notin DOMAIN d["datapoints"]
  BY TablesApart DEF Points, Inputs
<1>2. R!UpdateDataPoint(d, id, row) = R!Put(d, "input_datapoints", id, row)
  BY <1>1 DEF R!UpdateDataPoint, R!Has, R!TableForDataPoint, R!OtherTable
<1> QED
  BY <1>1, <1>2, PutWrites, TableNames

LEMMA UpdatePoint ==
  ASSUME NEW d, NEW a, NEW t, TablesOK(d, a, t), NEW i \in DOMAIN Points(d),
         NEW row \in RowKind, ~row.isInput
  PROVE  RowWrote(d, R!UpdateDataPoint(d, i, row), t, "datapoints", i, row)
<1>1. i \in DOMAIN d["datapoints"]
  BY DEF Points
<1>2. R!UpdateDataPoint(d, i, row) = R!Put(d, "datapoints", i, row)
  BY <1>1 DEF R!UpdateDataPoint, R!Has, R!TableForDataPoint
<1> QED
  BY <1>1, <1>2, PutWrites, TableNames

LEMMA StoreWrites ==
  ASSUME NEW d, NEW a, NEW t, TablesOK(d, a, t), NEW i, NEW row \in RowKind, row.created <= t
  PROVE  /\ row.isInput => RowWrote(d, R!StoreDataPoint(d, i, row), t, "input_datapoints", i, row)
         /\ ~row.isInput => RowWrote(d, R!StoreDataPoint(d, i, row), t, "datapoints", i, row)
BY PutWrites, TableNames DEF R!StoreDataPoint, R!TableForDataPoint

\* The tables after a row of an input was written, and after a chunk was.
LEMMA WroteInput ==
  ASSUME NEW d, NEW d2, NEW t, NEW i, NEW row,
         RowWrote(d, d2, t, "input_datapoints", i, row)
  PROVE  /\ Points(d2) = Points(d)
         /\ DOMAIN Inputs(d2) = DOMAIN Inputs(d) \cup {i}
         /\ Inputs(d2) \in [DOMAIN Inputs(d2) -> RowKind]
         /\ \A j \in DOMAIN Inputs(d) : j # i => Inputs(d2)[j] = Inputs(d)[j]
         /\ RowsKept(Inputs(d2)[i], row, t)
BY TableNames DEF RowWrote, Points, Inputs

LEMMA WrotePoint ==
  ASSUME NEW d, NEW d2, NEW t, NEW i, NEW row, RowWrote(d, d2, t, "datapoints", i, row)
  PROVE  /\ Inputs(d2) = Inputs(d)
         /\ DOMAIN Points(d2) = DOMAIN Points(d) \cup {i}
         /\ Points(d2) \in [DOMAIN Points(d2) -> RowKind]
         /\ \A j \in DOMAIN Points(d) : j # i => Points(d2)[j] = Points(d)[j]
         /\ RowsKept(Points(d2)[i], row, t)
BY TableNames DEF RowWrote, Points, Inputs

LEMMA KeptFits ==
  ASSUME NEW a, NEW id, NEW row, NEW new, NEW t, FitsAdded(a, id, row), RowsKept(new, row, t)
  PROVE  FitsAdded(a, id, new)
BY DEF FitsAdded, RowsKept, SameAs

-----------------------------------------------------------------------------
(* What the steps of the others leave of a client's call.                  *)

\* Rows are never deleted, an input keeps what it was added with, and once it
\* is split it stays so.
Grew(d, a, t, d2, a2, t2) ==
  /\ t \in Nat /\ t2 \in Nat /\ t <= t2
  /\ DOMAIN a \subseteq DOMAIN a2
  /\ \A id \in DOMAIN a :
       /\ a2[id].offer = a[id].offer
       /\ a[id].byId => a2[id].byId
       /\ Inputs(d)[id].split => Inputs(d2)[id].split
  /\ DOMAIN Points(d) \subseteq DOMAIN Points(d2)

LEMMA FitsStay ==
  ASSUME NEW d, NEW a, NEW t, NEW d2, NEW a2, NEW t2, Grew(d, a, t, d2, a2, t2),
         NEW id \in DOMAIN a, NEW row, FitsAdded(a, id, row)
  PROVE  FitsAdded(a2, id, row)
<1>1. a2[id].offer = a[id].offer /\ (a[id].byId => a2[id].byId)
  BY DEF Grew
<1> QED
  BY <1>1 DEF FitsAdded

LEMMA ExcusesStay ==
  ASSUME NEW d, NEW a, NEW t, NEW d2, NEW a2, NEW t2, Grew(d, a, t, d2, a2, t2),
         NEW offer, NEW known, known \subseteq DOMAIN a, Excused(a, offer, known)
  PROVE  Excused(a2, offer, known)
<1> SUFFICES ASSUME NEW old \in known, a2[old].offer = offer,
                    Chunks(offer.content) # 1, ~a2[old].byId
             PROVE  \E other \in DOMAIN a2 : /\ a2[other].offer.content = offer.content
                                             /\ a2[other].offer.tier # offer.tier
  BY DEF Excused
<1>1. old \in DOMAIN a /\ a[old].offer = offer /\ ~a[old].byId
  BY DEF Grew
<1>2. PICK other \in DOMAIN a : /\ a[other].offer.content = offer.content
                                /\ a[other].offer.tier # offer.tier
  BY <1>1 DEF Excused
<1>3. other \in DOMAIN a2 /\ a2[other].offer = a[other].offer
  BY DEF Grew
<1> QED
  BY <1>2, <1>3

LEMMA SizesStay ==
  ASSUME NEW d, NEW a, NEW t, NEW d2, NEW a2, NEW t2, Grew(d, a, t, d2, a2, t2),
         NEW id \in DOMAIN a
  PROVE  /\ Size(a2, id) = Size(a, id) /\ id \in DOMAIN a2
         /\ AllThere(d, a, id) => AllThere(d2, a2, id)
         /\ \A k : There(d, id, k) => There(d2, id, k)
BY DEF Grew, Size, AllThere, There

LEMMA CallStays ==
  ASSUME NEW d, NEW a, NEW t, NEW d2, NEW a2, NEW t2, Grew(d, a, t, d2, a2, t2),
         NEW me, CallOK(me, d, a, t)
  PROVE  CallOK(me, d2, a2, t2)
<1>1. me \in RowCall /\ (me.at # "idle" => me.todo # <<>>)
  BY DEF CallOK
<1>2. DOMAIN a \subseteq DOMAIN a2 /\ t \in Nat /\ t2 \in Nat /\ t <= t2
  BY DEF Grew
<1>3. me.at \in {"inputs", "store"} => me.known \subseteq DOMAIN a2 /\ Head(me.todo) # ById
  BY <1>2 DEF CallOK
<1>4. ASSUME me.at = "inputs"
      PROVE  SeenOK(me, t2)
  <2>1. SeenOK(me, t)
    BY <1>4 DEF CallOK
  <2>2. \A f \in me.seen : f.row \in RowKind
    BY <1>1 DEF RowCall
  <2>3. \A f \in me.seen : f.row.created <= t2
    <3> TAKE f \in me.seen
    <3>1. f.row.created <= t /\ f.row.created \in Nat
      BY <2>1, <2>2 DEF SeenOK, RowKind
    <3> QED
      BY <1>2, <3>1
  <2> QED
    BY <2>1, <2>3 DEF SeenOK
<1>5. ASSUME me.at = "store"
      PROVE  /\ me.copy \in RowKind /\ me.copy.created <= t2
             /\ SameAs(me.copy, Head(me.todo)) /\ me.copy.isInput /\ ~me.copy.split
             /\ Excused(a2, Head(me.todo), me.known)
  <2>1. /\ me.copy \in RowKind /\ me.copy.created <= t
        /\ SameAs(me.copy, Head(me.todo)) /\ me.copy.isInput /\ ~me.copy.split
        /\ Excused(a, Head(me.todo), me.known) /\ me.known \subseteq DOMAIN a
    BY <1>5 DEF CallOK
  <2>2. me.copy.created <= t2
    BY <1>2, <2>1 DEF RowKind
  <2>3. Excused(a2, Head(me.todo), me.known)
    BY <2>1, ExcusesStay
  <2> QED
    BY <2>1, <2>2, <2>3
<1>6. ASSUME me.at \notin {"idle", "inputs", "store"}
      PROVE  SharingOK(me, d2, a2)
  <2>1. SharingOK(me, d, a)
    BY <1>6 DEF CallOK
  <2>2. me.id \in DOMAIN a /\ me.id \in DOMAIN a2
    BY <1>2, <2>1 DEF SharingOK
  <2>3. FitsAdded(a2, me.id, me.copy) /\ (me.at \in {"count", "write"} => FitsAdded(a2, me.id, me.read))
    BY <2>1, <2>2, FitsStay DEF SharingOK
  <2>4. /\ AllThere(d, a, me.id) => AllThere(d2, a2, me.id)
        /\ \A j : There(d, me.id, j) => There(d2, me.id, j)
    BY <2>2, SizesStay
  <2>5. Inputs(d)[me.id].split => Inputs(d2)[me.id].split
    BY <2>2 DEF Grew
  <2> QED
    BY <2>1, <2>2, <2>3, <2>4, <2>5 DEF SharingOK
<1> QED
  BY <1>1, <1>3, <1>4, <1>5, <1>6 DEF CallOK

-----------------------------------------------------------------------------
(* A step of client c, whose call is me2 afterwards.                       *)

Marking(me, id) == me.id = id /\ me.at \in {"split", "mark"}

\* What the step leaves to the others was theirs before, or is done.
LEMMA StepInv ==
  ASSUME RowsInv, NEW c \in Clients, NEW me2, caller' = [caller EXCEPT ![c] = me2],
         Grew(db, added, clock, db', added', clock'),
         TablesOK(db', added', clock'), InputsOK(db', added'), PointsOK(db', added'),
         AddedOK(added'), CallOK(me2, db', added', clock'),
         \A id \in DOMAIN added' : \A k \in 1..Size(added', id) :
           \/ Done(db', id, k) \/ Due(me2, id, k)
           \/ id \in DOMAIN added /\ ~Due(caller[c], id, k) /\ (Done(db, id, k) => Done(db', id, k)),
         \A id \in DOMAIN added' :
           \/ Inputs(db')[id].split \/ Marking(me2, id)
           \/ id \in DOMAIN added /\ ~Marking(caller[c], id)
  PROVE  RowsInv'
<1>1. caller \in [Clients -> RowCall] /\ \A e \in Clients : CallOK(caller[e], db, added, clock)
  BY DEF RowsInv, CallsOK
<1>2. caller'[c] = me2 /\ \A e \in Clients : e # c => caller'[e] = caller[e]
  BY <1>1
<1>3. me2 \in RowCall
  BY DEF CallOK
<1>4. CallsOK(caller', db', added', clock')
  <2>1. caller' \in [Clients -> RowCall]
    BY <1>1, <1>3
  <2>2. ASSUME NEW e \in Clients
        PROVE  CallOK(caller'[e], db', added', clock')
    <3>1. CallOK(caller[e], db', added', clock')
      BY <1>1, CallStays
    <3> QED
      BY <1>2, <3>1
  <2> QED
    BY <2>1, <2>2 DEF CallsOK
<1>5. DueOK(caller', db', added')
  <2> SUFFICES ASSUME NEW id \in DOMAIN added', NEW k \in 1..Size(added', id),
                      ~Done(db', id, k)
               PROVE  \E e \in Clients : Due(caller'[e], id, k)
    BY DEF DueOK
  <2>1. CASE Due(me2, id, k)
    BY <2>1, <1>2
  <2>2. CASE id \in DOMAIN added /\ ~Due(caller[c], id, k) /\ ~Done(db, id, k)
    <3>1. k \in 1..Size(added, id)
      BY <2>2, SizesStay
    <3>2. PICK e \in Clients : Due(caller[e], id, k)
      BY <2>2, <3>1 DEF RowsInv, DueOK
    <3> QED
      BY <1>2, <2>2, <3>2
  <2> QED
    BY <2>1, <2>2
<1>6. MarkedOK(caller', db', added')
  <2> SUFFICES ASSUME NEW id \in DOMAIN added', ~Inputs(db')[id].split
               PROVE  \E e \in Clients : Marking(caller'[e], id)
    BY DEF MarkedOK, Marking
  <2>1. CASE Marking(me2, id)
    BY <2>1, <1>2
  <2>2. CASE id \in DOMAIN added /\ ~Marking(caller[c], id)
    <3>1. ~Inputs(db)[id].split
      BY <2>2 DEF Grew
    <3>2. PICK e \in Clients : Marking(caller[e], id)
      BY <2>2, <3>1 DEF RowsInv, MarkedOK, Marking
    <3> QED
      BY <1>2, <2>2, <3>2
  <2> QED
    BY <2>1, <2>2
<1> QED
  BY <1>4, <1>5, <1>6 DEF RowsInv

\* A step that writes nothing but the clock.
LEMMA ReadingStep ==
  ASSUME RowsInv, NEW c \in Clients, NEW me2, caller' = [caller EXCEPT ![c] = me2],
         db' = db, added' = added, clock' \in {clock, clock + 1},
         CallOK(me2, db, added, clock'),
         \A id, k : /\ Due(caller[c], id, k) => Due(me2, id, k)
                    /\ Marking(caller[c], id) => Marking(me2, id)
  PROVE  RowsInv'
<1>1. TablesOK(db, added, clock) /\ InputsOK(db, added) /\ PointsOK(db, added) /\ AddedOK(added)
  BY DEF RowsInv
<1>2. clock \in Nat /\ clock' \in Nat /\ clock <= clock'
  BY <1>1 DEF TablesOK
<1>3. TablesOK(db', added', clock')
  <2>1. ASSUME NEW u \in R!Table, NEW i \in DOMAIN db[u]
        PROVE  db[u][i].created <= clock'
    <3>1. db[u][i] \in RowKind /\ db[u][i].created <= clock
      BY <1>1 DEF TablesOK
    <3> QED
      BY <1>2, <3>1 DEF RowKind
  <2> QED
    BY <1>1, <1>2, <2>1 DEF TablesOK
<1>4. Grew(db, added, clock, db', added', clock')
  BY <1>2 DEF Grew
<1> QED
  BY <1>1, <1>3, <1>4, StepInv

-----------------------------------------------------------------------------
(* The lookups of Add.                                                     *)

LEMMA Mine ==
  ASSUME RowsInv, NEW c \in Clients
  PROVE  /\ caller[c] \in RowCall /\ CallOK(caller[c], db, added, clock)
         /\ TablesOK(db, added, clock) /\ InputsOK(db, added) /\ PointsOK(db, added)
         /\ AddedOK(added)
         /\ InputIds = DOMAIN added /\ clock \in Nat
BY DEF RowsInv, CallsOK, TablesOK, Inputs, InputIds

\* A call that shares no input leaves nothing to the others.
LEMMA NotSharing ==
  ASSUME NEW me, me.at \in {"idle", "inputs", "store"}
  PROVE  \A id, k : ~Due(me, id, k) /\ ~Marking(me, id)
BY DEF Due, Marking

LEMMA HandedIs ==
  ASSUME NEW d, NEW a, NEW t, TablesOK(d, a, t), NEW id \in DOMAIN a, NEW row,
         FitsAdded(a, id, row), row.split => Inputs(d)[id].split,
         NEW me \in RowCall, me.todo # <<>>
  PROVE  /\ CallOK(Handed(me, id, row), d, a, t)
         /\ Handed(me, id, row).id = id
         /\ ~row.split /\ Chunks(row.content) # 0 =>
              Handed(me, id, row).at = "split" /\ Handed(me, id, row).k = 1
         /\ ~row.split /\ Chunks(row.content) = 0 => Handed(me, id, row).at = "mark"
<1> DEFINE n == Chunks(row.content)
           got == Handed(me, id, row)
<1>1. n \in Nat /\ row \in RowKind /\ id \in InputId /\ (n # 0 => n = Size(a, id))
  BY FitsChunks, SizeType
<1>2. row.split \in BOOLEAN
  BY <1>1 DEF RowKind
<1>3. CASE row.split
  <2>1. got = [me EXCEPT !.id = id, !.copy = row, !.at = "count", !.read = row, !.k = n + 1]
    BY <1>3 DEF Handed
  <2>5. n + 1 \in Nat
    BY <1>1
  <2> HIDE DEF got, n
  <2>2. got \in RowCall
    <3> DEFINE next == n + 1
    <3>1. got = [me EXCEPT !.id = id, !.copy = row, !.at = "count", !.read = row, !.k = next]
      BY <2>1
    <3>2. next \in Nat
      BY <2>5
    <3> HIDE DEF next
    <3> QED
      BY <1>1, <3>1, <3>2 DEF RowCall, RowSteps
  <2>3. got.at = "count" /\ got.id = id /\ got.copy = row /\ got.read = row /\ got.k = n + 1
        /\ got.todo = me.todo
    BY <2>1 DEF RowCall
  <2>4. n + 1 \in 1..(n + 1) /\ ~(n + 1 <= n)
    BY <1>1
  <2>6. SharingOK(got, d, a)
    BY <1>3, <2>3, <2>4 DEF SharingOK, n
  <2> QED
    BY <1>3, <2>2, <2>3, <2>6 DEF CallOK, got
<1>4. CASE ~row.split /\ n = 0
  <2>1. got = [me EXCEPT !.id = id, !.copy = row, !.at = "mark"]
    BY <1>4 DEF Handed
  <2> HIDE DEF got
  <2>2. got \in RowCall
    BY <1>1, <2>1 DEF RowCall, RowSteps
  <2>3. got.at = "mark" /\ got.id = id /\ got.copy = row /\ got.todo = me.todo
    BY <2>1 DEF RowCall
  <2>4. SharingOK(got, d, a)
    BY <1>4, <2>3 DEF SharingOK
  <2> QED
    BY <1>4, <2>2, <2>3, <2>4 DEF CallOK, got
<1>5. CASE ~row.split /\ n # 0
  <2>1. got = [me EXCEPT !.id = id, !.copy = row, !.at = "split", !.k = 1]
    BY <1>5 DEF Handed
  <2> HIDE DEF got, n
  <2>2. got \in RowCall
    BY <1>1, <2>1 DEF RowCall, RowSteps
  <2>3. got.at = "split" /\ got.id = id /\ got.copy = row /\ got.k = 1 /\ got.todo = me.todo
    BY <2>1 DEF RowCall
  <2>4. 1 \in 1..n /\ 1..(1 - 1) = {}
    BY <1>1, <1>5
  <2>5. SharingOK(got, d, a)
    BY <2>3, <2>4 DEF SharingOK, n
  <2> QED
    BY <1>5, <2>2, <2>3, <2>5 DEF CallOK, got, n
<1> QED
  BY <1>2, <1>3, <1>4, <1>5

LEMMA QueryHits ==
  ASSUME NEW d, NEW a, NEW t, TablesOK(d, a, t), NEW u \in R!Table, NEW q,
         NEW f \in R!QueryFromTable(d, u, q)
  PROVE  /\ \E i \in DOMAIN d[u] : f = [id |-> i, row |-> d[u][i]]
         /\ f.id \in DOMAIN d[u] /\ f.row = d[u][f.id]
         /\ f.row \in RowKind /\ f.row.created <= t
         /\ q.text # NoRow => f.row.content = q.text
<1>1. PICK i \in DOMAIN d[u] : /\ f = [id |-> i, row |-> d[u][i]]
                               /\ q.text = NoRow \/ d[u][i].content = q.text
  BY DEF R!QueryFromTable
<1> QED
  BY <1>1 DEF TablesOK

LEMMA OffersText ==
  ASSUME NEW offer \in RowOffer
  PROVE  offer.content # Blank
<1>1. PICK n \in DOMAIN PartsOf : offer.content = <<n, 0>>
  BY ContentOfOffer
<1>2. n # ""
  BY RowsAssumption
<1>3. offer.content[1] # Blank[1]
  <2>1. Blank[1] = "" /\ offer.content[1] = n
    BY <1>1 DEF Blank
  <2> QED
    BY <1>2, <2>1
<1> QED
  BY <1>3

LEMMA SearchText ==
  ASSUME NEW offer \in RowOffer
  PROVE  SameContent(offer).text = offer.content /\ offer.content # NoRow
BY RowsAssumption, ContentOfOffer DEF SameContent

LEMMA LooksUpInv ==
  ASSUME RowsInv, NEW c \in Clients, LooksUp(c)
  PROVE  RowsInv'
<1> DEFINE seen == R!QueryFromTable(db, "datapoints", SameContent(Offer(c)))
           me2 == [caller[c] EXCEPT !.at = "inputs", !.known = InputIds, !.seen = seen]
<1>1. /\ caller[c].at = "idle" /\ caller[c].todo # <<>> /\ Offer(c) # ById
      /\ caller' = [caller EXCEPT ![c] = me2] /\ db' = db /\ clock' = clock /\ added' = added
  BY DEF LooksUp, IsAt, Moves
<1>2. /\ caller[c] \in RowCall /\ TablesOK(db, added, clock) /\ PointsOK(db, added)
      /\ InputIds = DOMAIN added
  BY Mine
<1>3. Offer(c) = Head(caller[c].todo) /\ Offer(c) \in RowOffer
  <2>1. caller[c].todo \in Seq(RowOffer \cup {ById})
    BY <1>2 DEF RowCall
  <2>2. Head(caller[c].todo) \in RowOffer \cup {ById}
    BY <1>1, <2>1
  <2> QED
    BY <1>1, <2>2 DEF Offer
<1>4. ASSUME NEW f \in seen
      PROVE  /\ f \in [id : Nat \X Nat, row : RowKind]
             /\ ~f.row.isInput /\ f.row.created <= clock
             /\ f.row.content = Offer(c).content /\ Chunks(f.row.content) = 1
  <2>1. PICK i \in DOMAIN Points(db) : f = [id |-> i, row |-> Points(db)[i]]
    BY <1>2, QueryHits, TableNames DEF Points
  <2>2. f.row \in RowKind /\ f.row.created <= clock /\ f.row = Points(db)[i]
    BY <1>2, <2>1, QueryHits, TableNames
  <2>9. PICK id \in DOMAIN added : \E k \in 1..Size(added, id) :
          /\ i = ChunkId(id, k) /\ ~Points(db)[i].isInput
          /\ Points(db)[i].content = ChunkContent(added[id].offer.content, k)
    BY <1>2, <2>1 DEF PointsOK
  <2>3. PICK k \in 1..Size(added, id) :
          /\ i = ChunkId(id, k) /\ ~Points(db)[i].isInput
          /\ Points(db)[i].content = ChunkContent(added[id].offer.content, k)
    BY <2>9
  <2>4. added[id].offer \in RowOffer /\ Size(added, id) \in Nat /\ id \in InputId
    BY <1>2, SizeType
  <2>5. k \in Nat /\ k \in 1..Chunks(added[id].offer.content)
    BY <2>4 DEF Size
  <2>6. i \in Nat \X Nat
    BY <2>3, <2>4, <2>5, ChunkIds
  <2>7. f.row.content = Offer(c).content => Chunks(Offer(c).content) = 1
    BY <1>3, <2>2, <2>3, <2>4, <2>5, ChunkContentType
  <2>8. f.row.content = Offer(c).content
    BY <1>2, <1>3, QueryHits, SearchText, TableNames
  <2> QED
    BY <2>1, <2>2, <2>3, <2>6, <2>7, <2>8
<1>5. me2 \in RowCall
  <2>1. seen \in SUBSET [id : Nat \X Nat, row : RowKind]
    BY <1>4
  <2>2. InputIds \in SUBSET InputId
    BY <1>2, SizeType
  <2> HIDE DEF seen
  <2> QED
    BY <1>2, <2>1, <2>2 DEF RowCall, RowSteps
<1> HIDE DEF seen
<1>6. /\ me2.at = "inputs" /\ me2.todo = caller[c].todo /\ me2.known = InputIds
      /\ me2.seen = seen
  BY <1>2 DEF RowCall
<1> HIDE DEF me2
<1>7. CallOK(me2, db, added, clock')
  <2>1. SeenOK(me2, clock)
    BY <1>3, <1>4, <1>6 DEF SeenOK
  <2> QED
    BY <1>1, <1>2, <1>3, <1>5, <1>6, <2>1 DEF CallOK
<1>8. \A id, k : ~Due(caller[c], id, k) /\ ~Marking(caller[c], id)
  BY <1>1, NotSharing
<1> QED
  BY <1>1, <1>7, <1>8, ReadingStep

\* When Add has found no row of its tier, every input that it knew of and that
\* was added for the same is excused.
LEMMA NotFoundExcused ==
  ASSUME NEW d, NEW a, NEW t, TablesOK(d, a, t), InputsOK(d, a),
         NEW seen, NEW offer \in RowOffer,
         \A f \in seen : /\ f.row \in RowKind /\ f.row.created <= t
                         /\ f.row.content = offer.content /\ Chunks(f.row.content) = 1,
         \A f \in R!NewestOf(seen \cup R!QueryFromTable(d, "input_datapoints", SameContent(offer))) :
           ~Repeats(f.row, offer),
         NEW known, known \subseteq DOMAIN a
  PROVE  Excused(a, offer, known)
<1> SUFFICES ASSUME NEW old \in known, a[old].offer = offer,
                    Chunks(offer.content) # 1, ~a[old].byId
             PROVE  \E other \in DOMAIN a : /\ a[other].offer.content = offer.content
                                            /\ a[other].offer.tier # offer.tier
  BY DEF Excused
<1> DEFINE rows == R!QueryFromTable(d, "input_datapoints", SameContent(offer))
           found == seen \cup rows
<1>1. old \in DOMAIN d["input_datapoints"]
  BY DEF TablesOK, Inputs
<1>2. FitsAdded(a, old, d["input_datapoints"][old])
  BY <1>1 DEF InputsOK, Inputs
<1>3. SameAs(d["input_datapoints"][old], offer)
  BY <1>2 DEF FitsAdded
<1>4. [id |-> old, row |-> d["input_datapoints"][old]] \in rows
  BY <1>1, <1>3 DEF R!QueryFromTable, SameContent, SameAs
<1>5. t \in Nat
  BY DEF TablesOK
<1>6. \A f \in found : f.row.created \in Nat /\ f.row.created <= t
  BY QueryHits, TableNames DEF RowKind
<1>7. PICK f \in found : f \in R!NewestOf(found)
  <2>1. found # {}
    BY <1>4
  <2> HIDE DEF found
  <2> QED
    BY <1>5, <1>6, <2>1, NewestExists
<1>8. ~Repeats(f.row, offer)
  BY <1>7
<1>9. f \in rows
  BY <1>7
<1>10. PICK other \in DOMAIN a : f.row = d["input_datapoints"][other]
  <2>1. f.id \in DOMAIN d["input_datapoints"] /\ f.row = d["input_datapoints"][f.id]
    BY <1>9, QueryHits, TableNames
  <2> QED
    BY <2>1 DEF TablesOK, Inputs
<1>11. FitsAdded(a, other, f.row)
  BY <1>10 DEF InputsOK, Inputs
<1>12. f.row.content = offer.content
  BY <1>9, QueryHits, SearchText, TableNames
<1>13. f.row.isInput
  <2>1. offer.content # Blank
    BY OffersText
  <2> QED
    BY <1>11, <1>12, <2>1 DEF FitsAdded
<1> QED
  BY <1>8, <1>11, <1>12, <1>13 DEF FitsAdded, SameAs, Repeats

\* What the row is made of that Add is about to store.
LEMMA InputRowIs ==
  ASSUME NEW offer \in RowOffer, clock \in Nat
  PROVE  /\ InputRow(offer) \in RowKind /\ InputRow(offer).created = clock
         /\ SameAs(InputRow(offer), offer) /\ InputRow(offer).isInput /\ ~InputRow(offer).split
<1>1. /\ offer.content \in {Blank} \cup ((DOMAIN PartsOf) \X Nat)
      /\ offer.session \in Word /\ offer.tier \in Word
  BY ContentOfOffer
<1> QED
  BY <1>1 DEF InputRow, RowKind, RowStatus, SameAs

LEMMA LooksUpInputsInv ==
  ASSUME RowsInv, NEW c \in Clients, LooksUpInputs(c)
  PROVE  RowsInv'
<1> DEFINE rows == R!QueryFromTable(db, "input_datapoints", SameContent(Offer(c)))
           found == R!NewestOf(caller[c].seen \cup rows)
           repeated == {f \in found : Repeats(f.row, Offer(c))}
           me == [caller[c] EXCEPT !.seen = {}]
<1>1. /\ caller[c].at = "inputs" /\ db' = db /\ added' = added
      /\ \/ \E f \in repeated : caller' = [caller EXCEPT ![c] = Handed(me, f.id, f.row)]
                                /\ clock' = clock
         \/ /\ repeated = {}
            /\ caller' = [caller EXCEPT ![c] = [me EXCEPT !.at = "store", !.copy = InputRow(Offer(c))]]
            /\ clock' = clock + 1
  BY DEF LooksUpInputs, IsAt, Moves
<1>2. /\ caller[c] \in RowCall /\ TablesOK(db, added, clock) /\ InputsOK(db, added)
      /\ InputIds = DOMAIN added /\ clock \in Nat /\ CallOK(caller[c], db, added, clock)
  BY Mine
<1>3. /\ caller[c].todo # <<>> /\ caller[c].known \subseteq DOMAIN added
      /\ Head(caller[c].todo) # ById /\ SeenOK(caller[c], clock)
  BY <1>1, <1>2 DEF CallOK
<1>4. Offer(c) = Head(caller[c].todo) /\ Offer(c) \in RowOffer
  <2>1. caller[c].todo \in Seq(RowOffer \cup {ById})
    BY <1>2 DEF RowCall
  <2>2. Head(caller[c].todo) \in RowOffer \cup {ById}
    BY <1>3, <2>1
  <2> QED
    BY <1>3, <2>2 DEF Offer
<1>5. /\ me \in RowCall /\ me.todo = caller[c].todo /\ me.known = caller[c].known
  BY <1>2 DEF RowCall
<1>6. \A id, k : ~Due(caller[c], id, k) /\ ~Marking(caller[c], id)
  BY <1>1, NotSharing
<1>7. ASSUME NEW f \in repeated, caller' = [caller EXCEPT ![c] = Handed(me, f.id, f.row)],
             clock' = clock
      PROVE  RowsInv'
  <2>1. f \in caller[c].seen \cup rows /\ f.row.isInput
    BY DEF R!NewestOf, Repeats
  <2>2. f \in rows
    BY <1>3, <2>1 DEF SeenOK
  <2>3. f.id \in DOMAIN db["input_datapoints"] /\ f.row = db["input_datapoints"][f.id]
    BY <1>2, <2>2, QueryHits, TableNames
  <2>4. f.id \in DOMAIN added /\ f.row = Inputs(db)[f.id]
    BY <1>2, <2>3 DEF InputIds, Inputs
  <2>5. FitsAdded(added, f.id, f.row)
    BY <1>2, <2>4 DEF InputsOK
  <2> HIDE DEF me
  <2>6. CallOK(Handed(me, f.id, f.row), db, added, clock)
    BY <1>2, <1>3, <1>5, <2>4, <2>5, HandedIs
  <2> QED
    BY <1>1, <1>6, <1>7, <2>6, ReadingStep
<1>8. ASSUME repeated = {}, clock' = clock + 1,
             caller' = [caller EXCEPT ![c] = [me EXCEPT !.at = "store", !.copy = InputRow(Offer(c))]]
      PROVE  RowsInv'
  <2> DEFINE me2 == [me EXCEPT !.at = "store", !.copy = InputRow(Offer(c))]
             row == InputRow(Offer(c))
  <2>1. /\ row \in RowKind /\ row.created = clock
        /\ SameAs(row, Offer(c)) /\ row.isInput /\ ~row.split
    BY <1>2, <1>4, InputRowIs
  <2>2. \A f \in caller[c].seen : /\ f.row \in RowKind /\ f.row.created <= clock
                                  /\ f.row.content = Offer(c).content /\ Chunks(f.row.content) = 1
    BY <1>2, <1>3, <1>4 DEF SeenOK, RowCall
  <2>3. \A f \in found : ~Repeats(f.row, Offer(c))
    BY <1>8
  <2>4. Excused(added, Offer(c), caller[c].known)
    BY <1>2, <1>3, <1>4, <2>2, <2>3, NotFoundExcused
  <2> HIDE DEF row, me, repeated, found
  <2>5. me2 = [me EXCEPT !.at = "store", !.copy = row]
    BY DEF row
  <2>6. me2 \in RowCall
    BY <1>5, <2>1, <2>5 DEF RowCall, RowSteps
  <2>7. /\ me2.at = "store" /\ me2.copy = row /\ me2.todo = caller[c].todo
        /\ me2.known = caller[c].known
    BY <1>5, <2>5 DEF RowCall
  <2> HIDE DEF me2
  <2>8. row.created <= clock'
    BY <1>2, <1>8, <2>1
  <2>9. CallOK(me2, db, added, clock')
    BY <1>3, <1>4, <2>1, <2>4, <2>6, <2>7, <2>8 DEF CallOK
  <2>10. caller' = [caller EXCEPT ![c] = me2]
    BY <1>8 DEF me2
  <2> QED
    BY <1>1, <1>6, <1>8, <2>9, <2>10, ReadingStep
<1> QED
  BY <1>1, <1>7, <1>8

-----------------------------------------------------------------------------
(* An input is handed over: added, or named by its id.                     *)

\* A bare row is what an input has that was cognified by its id.
LEMMA BareRowIs ==
  ASSUME clock \in Nat
  PROVE  /\ BareRow \in RowKind /\ BareRow.content = Blank /\ ~BareRow.isInput
         /\ ~BareRow.split
<1> DEFINE none == [content |-> Blank, session |-> "", tier |-> "general"]
           row == InputRow(none)
<1>1. row = [content |-> Blank, session |-> "", tier |-> "general", isInput |-> TRUE,
             split |-> FALSE, parent |-> NoRow, status |-> "pending", created |-> clock]
  BY DEF InputRow
<1>2. BareRow = [row EXCEPT !.isInput = FALSE]
  BY DEF BareRow
<1> HIDE DEF row
<1>3. "" \in Word /\ "general" \in Word /\ "pending" \in RowStatus
  BY DEF RowStatus, Word
<1>4. row \in RowKind
  BY <1>1, <1>3 DEF RowKind
<1> QED
  BY <1>1, <1>2, <1>4 DEF RowKind

LEMMA CognifiesByIdInv ==
  ASSUME RowsInv, NEW c \in Clients, CognifiesById(c)
  PROVE  RowsInv'
<1>1. /\ caller[c].at = "idle" /\ caller[c].todo # <<>> /\ db' = db /\ clock' = clock
  BY DEF CognifiesById, IsAt
<1>2. PICK id \in InputIds : /\ caller' = [caller EXCEPT ![c] = Handed(caller[c], id, BareRow)]
                             /\ added' = [added EXCEPT ![id].byId = TRUE]
  BY DEF CognifiesById, Moves
<1>3. /\ caller[c] \in RowCall /\ TablesOK(db, added, clock) /\ InputsOK(db, added)
      /\ PointsOK(db, added) /\ AddedOK(added) /\ InputIds = DOMAIN added /\ clock \in Nat
  BY Mine
<1>4. added \in [DOMAIN added -> InputEntry] /\ id \in DOMAIN added
  BY <1>2, <1>3 DEF TablesOK
<1>5. /\ added' \in [DOMAIN added -> InputEntry] /\ DOMAIN added' = DOMAIN added
      /\ added'[id].byId
      /\ \A i \in DOMAIN added : /\ added'[i].offer = added[i].offer
                                 /\ added'[i].known = added[i].known
                                 /\ added[i].byId => added'[i].byId
  <2>1. added[id] \in InputEntry
    BY <1>4
  <2>2. [added[id] EXCEPT !.byId = TRUE] \in InputEntry
        /\ [added[id] EXCEPT !.byId = TRUE].byId
        /\ [added[id] EXCEPT !.byId = TRUE].offer = added[id].offer
        /\ [added[id] EXCEPT !.byId = TRUE].known = added[id].known
    BY <2>1 DEF InputEntry
  <2>3. added' = [added EXCEPT ![id] = [added[id] EXCEPT !.byId = TRUE]]
    BY <1>2
  <2> DEFINE new == [added[id] EXCEPT !.byId = TRUE]
  <2> HIDE DEF new
  <2>4. added'[id] = new /\ DOMAIN added' = DOMAIN added
        /\ \A i \in DOMAIN added : i # id => added'[i] = added[i]
    BY <1>4, <2>3 DEF new
  <2>5. new \in InputEntry /\ new.byId /\ new.offer = added[id].offer /\ new.known = added[id].known
    BY <2>2 DEF new
  <2>6. added' \in [DOMAIN added -> InputEntry]
    BY <1>4, <2>3, <2>5 DEF new
  <2> QED
    BY <1>4, <2>4, <2>5, <2>6
<1>6. Grew(db, added, clock, db', added', clock')
  BY <1>1, <1>3, <1>5 DEF Grew
<1>7. TablesOK(db', added', clock')
  BY <1>1, <1>3, <1>5 DEF TablesOK
<1>8. InputsOK(db', added')
  BY <1>1, <1>3, <1>5, <1>6, FitsStay DEF InputsOK
<1>9. \A i \in DOMAIN added : Size(added', i) = Size(added, i)
  BY <1>6, SizesStay
<1>10. PointsOK(db', added')
  <2> SUFFICES ASSUME NEW i \in DOMAIN Points(db)
               PROVE  \E p \in DOMAIN added' : \E k \in 1..Size(added', p) :
                        /\ i = ChunkId(p, k)
                        /\ Points(db)[i].parent = p
                        /\ ~Points(db)[i].isInput
                        /\ Points(db)[i].content = ChunkContent(added'[p].offer.content, k)
    BY <1>1 DEF PointsOK
  <2>1. PICK p \in DOMAIN added : \E k \in 1..Size(added, p) :
                        /\ i = ChunkId(p, k)
                        /\ Points(db)[i].parent = p
                        /\ ~Points(db)[i].isInput
                        /\ Points(db)[i].content = ChunkContent(added[p].offer.content, k)
    BY <1>3 DEF PointsOK
  <2> QED
    BY <2>1, <1>5, <1>9
<1>11. AddedOK(added')
  <2>1. \A i \in DOMAIN added : added[i].known \subseteq DOMAIN added
    BY <1>3 DEF TablesOK
  <2>2. ASSUME NEW i \in DOMAIN added
        PROVE  Excused(added', added[i].offer, added[i].known)
    BY <1>3, <1>6, <2>1, ExcusesStay DEF AddedOK
  <2> QED
    BY <1>5, <2>2 DEF AddedOK
<1> DEFINE me2 == Handed(caller[c], id, BareRow)
<1>12. BareRow \in RowKind /\ BareRow.content = Blank /\ ~BareRow.isInput /\ ~BareRow.split
  BY <1>3, BareRowIs
<1>13. FitsAdded(added', id, BareRow)
  BY <1>5, <1>12 DEF FitsAdded
<1>14. CallOK(me2, db', added', clock') /\ me2.id = id /\ me2.at = "mark"
  <2>1. id \in DOMAIN added'
    BY <1>4, <1>5
  <2> QED
    BY <1>1, <1>3, <1>7, <1>12, <1>13, <2>1, HandedIs, ChunksOfBlank
<1>15. \A i, k : ~Due(caller[c], i, k) /\ ~Marking(caller[c], i)
  BY <1>1, NotSharing
<1> HIDE DEF me2
<1>16. caller' = [caller EXCEPT ![c] = me2]
  BY <1>2 DEF me2
<1> QED
  BY <1>1, <1>5, <1>6, <1>7, <1>8, <1>10, <1>11, <1>14, <1>15, <1>16, StepInv

\* The ids of inputs are counted.
LEMMA FreshId ==
  ASSUME NEW a, NEW m \in Nat, DOMAIN a = {<<n, 0>> : n \in 1..m}
  PROVE  /\ Cardinality(DOMAIN a) = m
         /\ <<m + 1, 0>> \notin DOMAIN a
         /\ DOMAIN a \cup {<<m + 1, 0>>} = {<<n, 0>> : n \in 1..(m + 1)}
<1> DEFINE f == [n \in 1..m |-> <<n, 0>>]
<1>1. f \in Bijection(1..m, DOMAIN a)
  <2>1. f \in [1..m -> DOMAIN a]
    OBVIOUS
  <2>2. \A i, j \in 1..m : f[i] = f[j] => i = j
    OBVIOUS
  <2>3. \A i \in DOMAIN a : \E n \in 1..m : f[n] = i
    OBVIOUS
  <2> QED
    BY <2>1, <2>2, <2>3 DEF Bijection, Injection, Surjection, IsInjective
<1>2. IsFiniteSet(1..m) /\ Cardinality(1..m) = m
  BY FS_Interval
<1>3. Cardinality(DOMAIN a) = m
  BY <1>1, <1>2, FS_Bijection DEF ExistsBijection
<1>4. 1..(m + 1) = (1..m) \cup {m + 1} /\ m + 1 \notin 1..m
  OBVIOUS
<1> QED
  BY <1>3, <1>4

LEMMA StoresInputInv ==
  ASSUME RowsInv, NEW c \in Clients, StoresInput(c)
  PROVE  RowsInv'
<1> DEFINE id == <<Cardinality(InputIds) + 1, 0>>
           me == [caller[c] EXCEPT !.known = {}]
           row == caller[c].copy
           entry == [offer |-> Offer(c), known |-> caller[c].known, byId |-> FALSE]
           me2 == Handed(me, id, row)
<1>1. /\ caller[c].at = "store" /\ clock' = clock
      /\ db' = R!StoreDataPoint(db, id, row)
      /\ added' = [i \in DOMAIN added \cup {id} |-> IF i # id THEN added[i] ELSE entry]
      /\ caller' = [caller EXCEPT ![c] = me2]
  BY DEF StoresInput, IsAt, Moves
<1>2. /\ caller[c] \in RowCall /\ TablesOK(db, added, clock) /\ InputsOK(db, added)
      /\ PointsOK(db, added) /\ AddedOK(added)
      /\ InputIds = DOMAIN added /\ clock \in Nat /\ CallOK(caller[c], db, added, clock)
  BY Mine
<1>3. /\ caller[c].todo # <<>> /\ caller[c].known \subseteq DOMAIN added
      /\ Head(caller[c].todo) # ById
      /\ row \in RowKind /\ row.created <= clock
      /\ SameAs(row, Head(caller[c].todo)) /\ row.isInput /\ ~row.split
      /\ Excused(added, Head(caller[c].todo), caller[c].known)
  BY <1>1, <1>2 DEF CallOK
<1>4. Offer(c) = Head(caller[c].todo) /\ Offer(c) \in RowOffer
  <2>1. caller[c].todo \in Seq(RowOffer \cup {ById})
    BY <1>2 DEF RowCall
  <2>2. Head(caller[c].todo) \in RowOffer \cup {ById}
    BY <1>3, <2>1
  <2> QED
    BY <1>3, <2>2 DEF Offer
<1>5. PICK m \in Nat : DOMAIN added = {<<n, 0>> : n \in 1..m}
  BY <1>2 DEF TablesOK
<1>6. /\ id \notin DOMAIN added /\ id = <<m + 1, 0>>
      /\ DOMAIN added \cup {id} = {<<n, 0>> : n \in 1..(m + 1)}
  BY <1>2, <1>5, FreshId
<1>7. me \in RowCall /\ me.todo = caller[c].todo
  <2>1. {} \in SUBSET InputId
    OBVIOUS
  <2> QED
    BY <1>2, <2>1 DEF RowCall
<1>8. entry \in InputEntry /\ entry.offer = Offer(c) /\ entry.known = caller[c].known
      /\ ~entry.byId
  BY <1>2, <1>4 DEF InputEntry, RowCall
<1> HIDE DEF id, me, row, entry
<1>9. /\ DOMAIN added' = DOMAIN added \cup {id} /\ added'[id] = entry
      /\ \A i \in DOMAIN added : added'[i] = added[i]
  BY <1>1, <1>6
<1>10. RowWrote(db, db', clock, "input_datapoints", id, row)
  BY <1>1, <1>2, <1>3, StoreWrites
<1>11. /\ Points(db') = Points(db)
       /\ DOMAIN Inputs(db') = DOMAIN added \cup {id}
       /\ Inputs(db') \in [DOMAIN Inputs(db') -> RowKind]
       /\ \A j \in DOMAIN added : Inputs(db')[j] = Inputs(db)[j]
       /\ RowsKept(Inputs(db')[id], row, clock)
  <2>1. DOMAIN Inputs(db) = DOMAIN added /\ id \notin DOMAIN added
    BY <1>2, <1>6 DEF TablesOK
  <2>2. /\ Points(db') = Points(db)
        /\ DOMAIN Inputs(db') = DOMAIN Inputs(db) \cup {id}
        /\ Inputs(db') \in [DOMAIN Inputs(db') -> RowKind]
        /\ \A j \in DOMAIN Inputs(db) : j # id => Inputs(db')[j] = Inputs(db)[j]
        /\ RowsKept(Inputs(db')[id], row, clock)
    BY <1>10, WroteInput
  <2> QED
    BY <2>1, <2>2
<1>12. TablesOK(db', added', clock')
  <2>1. \A i \in DOMAIN Inputs(db') : Inputs(db')[i].created <= clock
    BY <1>2, <1>11, TableNames DEF TablesOK, RowsKept, Inputs
  <2>2. \A u \in R!Table : /\ db'[u] \in [DOMAIN db'[u] -> RowKind]
                           /\ \A i \in DOMAIN db'[u] : db'[u][i].created <= clock
    BY <1>2, <1>11, <2>1, TableNames DEF TablesOK, Inputs, Points
  <2>3. db' = [u \in R!Table |-> db'[u]]
    BY <1>10 DEF RowWrote
  <2>4. added' \in [DOMAIN added' -> InputEntry]
    <3>1. added \in [DOMAIN added -> InputEntry]
      BY <1>2 DEF TablesOK
    <3> QED
      BY <1>1, <1>8, <1>9, <3>1
  <2>5. \A i \in DOMAIN added' : added'[i].known \subseteq DOMAIN added'
    <3>1. \A i \in DOMAIN added : added[i].known \subseteq DOMAIN added
      BY <1>2 DEF TablesOK
    <3> QED
      BY <1>3, <1>8, <1>9, <3>1
  <2>6. \E n \in Nat : DOMAIN added' = {<<j, 0>> : j \in 1..n}
    <3>1. m + 1 \in Nat /\ DOMAIN added' = {<<j, 0>> : j \in 1..(m + 1)}
      BY <1>6, <1>9
    <3> QED
      BY <3>1
  <2> QED
    BY <1>1, <1>2, <1>9, <1>11, <2>2, <2>3, <2>4, <2>5, <2>6 DEF TablesOK
<1>13. Grew(db, added, clock, db', added', clock')
  <2>1. \A i \in DOMAIN added : added'[i].offer = added[i].offer
                                /\ (added[i].byId => added'[i].byId)
    BY <1>9
  <2> QED
    BY <1>1, <1>2, <1>9, <1>11, <2>1 DEF Grew
<1>14. FitsAdded(added', id, row)
  BY <1>3, <1>4, <1>8, <1>9 DEF FitsAdded
<1>15. InputsOK(db', added')
  <2>1. FitsAdded(added', id, Inputs(db')[id])
    BY <1>11, <1>14, KeptFits
  <2>2. \A i \in DOMAIN added : FitsAdded(added', i, Inputs(db')[i])
    BY <1>2, <1>11, <1>13, FitsStay DEF InputsOK
  <2> QED
    BY <1>9, <2>1, <2>2 DEF InputsOK
<1>16. \A i \in DOMAIN added : Size(added', i) = Size(added, i)
  BY <1>13, SizesStay
<1>17. PointsOK(db', added')
  <2> SUFFICES ASSUME NEW i \in DOMAIN Points(db)
               PROVE  \E p \in DOMAIN added' : \E k \in 1..Size(added', p) :
                        /\ i = ChunkId(p, k)
                        /\ Points(db)[i].parent = p
                        /\ ~Points(db)[i].isInput
                        /\ Points(db)[i].content = ChunkContent(added'[p].offer.content, k)
    BY <1>11 DEF PointsOK
  <2>1. PICK p \in DOMAIN added : \E k \in 1..Size(added, p) :
                        /\ i = ChunkId(p, k)
                        /\ Points(db)[i].parent = p
                        /\ ~Points(db)[i].isInput
                        /\ Points(db)[i].content = ChunkContent(added[p].offer.content, k)
    BY <1>2 DEF PointsOK
  <2> QED
    BY <2>1, <1>9, <1>16
<1>18. AddedOK(added')
  <2>1. \A i \in DOMAIN added : added[i].known \subseteq DOMAIN added
    BY <1>2 DEF TablesOK
  <2>2. ASSUME NEW i \in DOMAIN added
        PROVE  Excused(added', added'[i].offer, added'[i].known)
    BY <1>2, <1>9, <1>13, <2>1, ExcusesStay DEF AddedOK
  <2>3. Excused(added', Offer(c), caller[c].known)
    BY <1>3, <1>4, <1>13, ExcusesStay
  <2> QED
    BY <1>8, <1>9, <2>2, <2>3 DEF AddedOK
<1>19. /\ CallOK(me2, db', added', clock') /\ me2.id = id
       /\ Chunks(row.content) # 0 => me2.at = "split" /\ me2.k = 1
       /\ Chunks(row.content) = 0 => me2.at = "mark"
  BY <1>3, <1>7, <1>9, <1>12, <1>14, HandedIs
<1>20. \A i, k : ~Due(caller[c], i, k) /\ ~Marking(caller[c], i)
  BY <1>1, NotSharing
<1> HIDE DEF me2
<1>21. ASSUME NEW k \in 1..Size(added', id)
       PROVE  Due(me2, id, k)
  <2>1. Size(added', id) = Chunks(row.content) /\ Chunks(row.content) \in Nat
    <3>1. row.content = Offer(c).content
      BY <1>3, <1>4 DEF SameAs
    <3> QED
      BY <1>4, <1>8, <1>9, <3>1, ContentOfOffer, ChunksType DEF Size
  <2>2. Chunks(row.content) # 0 /\ k \in Nat /\ 1 <= k
    BY <2>1
  <2> QED
    BY <1>19, <2>2 DEF Due
<1>22. Marking(me2, id)
  BY <1>19 DEF Marking
<1>23. \A i, k : Done(db, i, k) => Done(db', i, k)
  BY <1>11 DEF Done, There
<1>24. \A i \in DOMAIN added' : \A k \in 1..Size(added', i) :
         \/ Done(db', i, k) \/ Due(me2, i, k)
         \/ i \in DOMAIN added /\ ~Due(caller[c], i, k) /\ (Done(db, i, k) => Done(db', i, k))
  BY <1>9, <1>20, <1>21, <1>23
<1>25. \A i \in DOMAIN added' :
         \/ Inputs(db')[i].split \/ Marking(me2, i)
         \/ i \in DOMAIN added /\ ~Marking(caller[c], i)
  BY <1>9, <1>20, <1>22
<1> QED
  BY <1>1, <1>12, <1>13, <1>15, <1>17, <1>18, <1>19, <1>24, <1>25, StepInv

-----------------------------------------------------------------------------
(* A chunk is written.                                                     *)

LEMMA TablesLater ==
  ASSUME NEW d, NEW a, NEW t, NEW t2 \in Nat, TablesOK(d, a, t), t <= t2
  PROVE  TablesOK(d, a, t2)
<1>1. ASSUME NEW u \in R!Table, NEW i \in DOMAIN d[u]
      PROVE  d[u][i].created <= t2
  <2>1. d[u][i] \in RowKind /\ d[u][i].created <= t /\ t \in Nat
    BY DEF TablesOK
  <2> QED
    BY <2>1 DEF RowKind
<1> QED
  BY <1>1 DEF TablesOK

LEMMA ChunkRowIs ==
  ASSUME NEW id \in InputId, NEW o \in RowOffer, NEW row \in RowKind,
         row.content = o.content, NEW k \in 1..Chunks(o.content),
         NEW status \in RowStatus, clock \in Nat
  PROVE  /\ ChunkRow(id, row, k, status) \in RowKind
         /\ ChunkRow(id, row, k, status).parent = id
         /\ ~ChunkRow(id, row, k, status).isInput
         /\ ChunkRow(id, row, k, status).content = ChunkContent(o.content, k)
         /\ ChunkRow(id, row, k, status).status = status
         /\ ChunkRow(id, row, k, status).created = clock
<1> DEFINE part == ChunkContent(row.content, k)
           new == ChunkRow(id, row, k, status)
<1>1. part \in {Blank} \cup ((DOMAIN PartsOf) \X Nat)
  BY ChunkContentType
<1>2. new = [row EXCEPT !.content = part, !.isInput = FALSE, !.split = FALSE,
                        !.parent = id, !.status = status, !.created = clock]
  BY DEF ChunkRow
<1>3. part = ChunkContent(o.content, k)
  OBVIOUS
<1> HIDE DEF part, new
<1>4. new \in RowKind
  BY <1>1, <1>2 DEF RowKind
<1>5. new.parent = id /\ ~new.isInput /\ new.content = part /\ new.status = status
      /\ new.created = clock
  BY <1>2 DEF RowKind
<1> QED
  BY <1>3, <1>4, <1>5 DEF new

LEMMA PointWritten ==
  ASSUME NEW d, NEW a, NEW t, TablesOK(d, a, t), InputsOK(d, a), PointsOK(d, a),
         NEW id \in DOMAIN a, NEW k \in 1..Size(a, id), NEW d2, NEW row,
         RowWrote(d, d2, t, "datapoints", ChunkId(id, k), row),
         row.parent = id, ~row.isInput, row.content = ChunkContent(a[id].offer.content, k)
  PROVE  /\ TablesOK(d2, a, t) /\ InputsOK(d2, a) /\ PointsOK(d2, a)
         /\ Inputs(d2) = Inputs(d) /\ DOMAIN Points(d) \subseteq DOMAIN Points(d2)
         /\ There(d2, id, k) /\ (row.status = "completed" => Done(d2, id, k))
         /\ \A p \in DOMAIN a : \A j \in 1..Size(a, p) :
              (p # id \/ j # k) /\ Done(d, p, j) => Done(d2, p, j)
<1> DEFINE i == ChunkId(id, k)
<1>1. /\ Inputs(d2) = Inputs(d)
      /\ DOMAIN Points(d2) = DOMAIN Points(d) \cup {i}
      /\ Points(d2) \in [DOMAIN Points(d2) -> RowKind]
      /\ \A j \in DOMAIN Points(d) : j # i => Points(d2)[j] = Points(d)[j]
      /\ RowsKept(Points(d2)[i], row, t)
  BY WrotePoint
<1>2. TablesOK(d2, a, t)
  <2>1. \A j \in DOMAIN Points(d2) : Points(d2)[j].created <= t
    BY <1>1, TableNames DEF TablesOK, RowsKept, Points
  <2>2. \A u \in R!Table : /\ d2[u] \in [DOMAIN d2[u] -> RowKind]
                           /\ \A j \in DOMAIN d2[u] : d2[u][j].created <= t
    BY <1>1, <2>1, TableNames DEF TablesOK, Inputs, Points
  <2>3. d2 = [u \in R!Table |-> d2[u]]
    BY DEF RowWrote
  <2> QED
    BY <1>1, <2>2, <2>3 DEF TablesOK
<1>3. InputsOK(d2, a)
  BY <1>1 DEF InputsOK
<1>4. PointsOK(d2, a)
  <2> SUFFICES ASSUME NEW j \in DOMAIN Points(d2)
               PROVE  \E p \in DOMAIN a : \E n \in 1..Size(a, p) :
                        /\ j = ChunkId(p, n)
                        /\ Points(d2)[j].parent = p
                        /\ ~Points(d2)[j].isInput
                        /\ Points(d2)[j].content = ChunkContent(a[p].offer.content, n)
    BY DEF PointsOK
  <2>1. CASE j = i
    <3>1. /\ Points(d2)[i].parent = id /\ ~Points(d2)[i].isInput
          /\ Points(d2)[i].content = ChunkContent(a[id].offer.content, k)
      BY <1>1 DEF RowsKept
    <3> QED
      BY <2>1, <3>1
  <2>2. CASE j # i
    <3>1. j \in DOMAIN Points(d) /\ Points(d2)[j] = Points(d)[j]
      BY <1>1, <2>2
    <3> QED
      BY <3>1 DEF PointsOK
  <2> QED
    BY <2>1, <2>2
<1>5. There(d2, id, k) /\ (row.status = "completed" => Done(d2, id, k))
  BY <1>1 DEF There, Done, RowsKept
<1>6. ASSUME NEW p \in DOMAIN a, NEW j \in 1..Size(a, p), p # id \/ j # k, Done(d, p, j)
      PROVE  Done(d2, p, j)
  <2>1. /\ p \in InputId /\ id \in InputId /\ Size(a, p) \in Nat /\ Size(a, id) \in Nat
    BY SizeType
  <2>2. j \in Nat /\ k \in Nat
    BY <2>1
  <2>3. ChunkId(p, j) # i
    BY <1>6, <2>1, <2>2, ChunkIds
  <2> QED
    BY <1>1, <1>6, <2>3 DEF Done, There
<1> QED
  BY <1>1, <1>2, <1>3, <1>4, <1>5, <1>6

\* A client at work on chunk k of its input.
LEMMA AtWork ==
  ASSUME RowsInv, NEW c \in Clients,
         caller[c].at \in {"split", "begin", "draft", "finish", "parent"}
  PROVE  /\ caller[c].id \in DOMAIN added /\ caller[c].copy \in RowKind
         /\ added[caller[c].id].offer \in RowOffer /\ caller[c].id \in InputId
         /\ caller[c].copy.content = added[caller[c].id].offer.content
         /\ Parts(c) = Chunks(caller[c].copy.content)
         /\ Parts(c) = Size(added, caller[c].id) /\ Parts(c) \in Nat
         /\ caller[c].k \in 1..Parts(c) /\ caller[c].k \in Nat
         /\ SharingOK(caller[c], db, added) /\ caller[c].todo # <<>>
<1>1. CallOK(caller[c], db, added, clock) /\ TablesOK(db, added, clock)
  BY Mine
<1>2. SharingOK(caller[c], db, added) /\ caller[c].todo # <<>>
  BY <1>1 DEF CallOK
<1>3. caller[c].id \in DOMAIN added /\ FitsAdded(added, caller[c].id, caller[c].copy)
  BY <1>2 DEF SharingOK
<1>4. Parts(c) = Chunks(caller[c].copy.content) /\ Parts(c) \in Nat
  BY <1>3, FitsChunks DEF Parts
<1>5. caller[c].k \in 1..Parts(c)
  <2>1. CASE caller[c].at = "split"
    BY <1>2, <1>4, <2>1 DEF SharingOK
  <2>2. CASE caller[c].at # "split"
    <3>1. caller[c].k \in 1..(Parts(c) + 1) /\ caller[c].k <= Parts(c)
      BY <1>2, <1>4, <2>2 DEF SharingOK
    <3> QED
      BY <1>4, <3>1
  <2> QED
    BY <2>1, <2>2
<1>6. Parts(c) # 0 /\ caller[c].k \in Nat
  BY <1>4, <1>5
<1> QED
  BY <1>1, <1>2, <1>3, <1>4, <1>5, <1>6, FitsChunks, SizeType

LEMMA StoresChunkInv ==
  ASSUME RowsInv, NEW c \in Clients, StoresChunk(c)
  PROVE  RowsInv'
<1> DEFINE id == caller[c].id
           k == caller[c].k
           row == ChunkRow(id, caller[c].copy, k, "pending")
           me2 == IF k = Parts(c) THEN [caller[c] EXCEPT !.at = "mark"]
                                  ELSE [caller[c] EXCEPT !.k = k + 1]
<1>1. /\ caller[c].at = "split" /\ added' = added
      /\ db' = R!StoreDataPoint(db, ChunkId(id, k), row)
      /\ clock' \in {clock, clock + 1}
      /\ caller' = [caller EXCEPT ![c] = me2]
  BY DEF StoresChunk, IsAt, Moves, SplitId
<1>2. /\ caller[c] \in RowCall /\ TablesOK(db, added, clock) /\ InputsOK(db, added)
      /\ PointsOK(db, added) /\ AddedOK(added) /\ clock \in Nat
  BY Mine
<1>3. /\ id \in DOMAIN added /\ caller[c].copy \in RowKind
      /\ added[id].offer \in RowOffer /\ id \in InputId
      /\ caller[c].copy.content = added[id].offer.content
      /\ Parts(c) = Chunks(caller[c].copy.content)
      /\ Parts(c) = Size(added, id) /\ Parts(c) \in Nat
      /\ k \in 1..Parts(c) /\ k \in Nat
      /\ SharingOK(caller[c], db, added) /\ caller[c].todo # <<>>
  BY <1>1, AtWork
<1>4. /\ row \in RowKind /\ row.parent = id /\ ~row.isInput /\ row.created = clock
      /\ row.content = ChunkContent(added[id].offer.content, k)
  <2>1. "pending" \in RowStatus
    BY DEF RowStatus
  <2>2. k \in 1..Chunks(added[id].offer.content)
    BY <1>3 DEF Size
  <2> DEFINE offer == added[id].offer
             copy == caller[c].copy
  <2>3. offer \in RowOffer /\ copy \in RowKind /\ copy.content = offer.content
        /\ k \in 1..Chunks(offer.content) /\ id \in InputId /\ clock \in Nat
    BY <1>2, <1>3, <2>2
  <2>4. row = ChunkRow(id, copy, k, "pending")
    OBVIOUS
  <2>5. \/ ~(offer \in RowOffer) \/ ChunkContent(offer.content, k) = ChunkContent(added[id].offer.content, k)
    OBVIOUS
  <2> HIDE DEF offer, copy, id, k, row
  <2> QED
    BY <2>1, <2>3, <2>4, <2>5, ChunkRowIs
<1> HIDE DEF row
<1>5. RowWrote(db, db', clock, "datapoints", ChunkId(id, k), row)
  <2>1. row.created <= clock
    BY <1>2, <1>4
  <2> QED
    BY <1>1, <1>2, <1>4, <2>1, StoreWrites
<1>6. /\ TablesOK(db', added, clock) /\ InputsOK(db', added) /\ PointsOK(db', added)
      /\ Inputs(db') = Inputs(db) /\ DOMAIN Points(db) \subseteq DOMAIN Points(db')
      /\ There(db', id, k)
      /\ \A p \in DOMAIN added : \A j \in 1..Size(added, p) :
           (p # id \/ j # k) /\ Done(db, p, j) => Done(db', p, j)
  <2>1. k \in 1..Size(added, id)
    BY <1>3
  <2> HIDE DEF id, k
  <2> QED
    BY <1>2, <1>3, <1>4, <1>5, <2>1, PointWritten
<1>7. clock' \in Nat /\ clock <= clock'
  BY <1>1, <1>2
<1>8. TablesOK(db', added', clock')
  BY <1>1, <1>6, <1>7, TablesLater
<1>9. Grew(db, added, clock, db', added', clock')
  BY <1>1, <1>2, <1>6, <1>7 DEF Grew
<1>10. FitsAdded(added, id, caller[c].copy)
  BY <1>3 DEF SharingOK
<1>11. \A j \in 1..k : There(db', id, j)
  <2>1. \A j \in 1..(k - 1) : There(db, id, j)
    BY <1>1, <1>3 DEF SharingOK
  <2>2. \A j \in 1..(k - 1) : There(db', id, j)
    BY <1>6, <2>1 DEF There
  <2>3. \A j \in 1..k : j = k \/ j \in 1..(k - 1)
    BY <1>3
  <2> QED
    BY <1>6, <2>2, <2>3
<1>12. /\ me2 \in RowCall /\ me2.id = id /\ me2.copy = caller[c].copy /\ me2.todo = caller[c].todo
       /\ k = Parts(c) => me2.at = "mark"
       /\ k # Parts(c) => me2.at = "split" /\ me2.k = k + 1
  <2>1. CASE k = Parts(c)
    <3>1. me2 = [caller[c] EXCEPT !.at = "mark"]
      BY <2>1
    <3> HIDE DEF me2
    <3> QED
      BY <1>2, <2>1, <3>1 DEF RowCall, RowSteps
  <2>2. CASE k # Parts(c)
    <3> DEFINE next == k + 1
    <3>1. next \in Nat
      BY <1>3
    <3>2. me2 = [caller[c] EXCEPT !.k = next]
      BY <2>2
    <3> HIDE DEF me2, next
    <3>3. /\ me2 \in RowCall /\ me2.id = id /\ me2.copy = caller[c].copy
          /\ me2.todo = caller[c].todo /\ me2.at = caller[c].at /\ me2.k = next
      BY <1>2, <3>1, <3>2 DEF RowCall
    <3> QED
      BY <1>1, <2>2, <3>3 DEF next
  <2> QED
    BY <2>1, <2>2
<1> HIDE DEF me2
<1>13. CallOK(me2, db', added', clock')
  <2>1. CASE k = Parts(c)
    <3>1. AllThere(db', added, id)
      BY <1>3, <1>11, <2>1 DEF AllThere
    <3>2. SharingOK(me2, db', added')
      BY <1>1, <1>3, <1>10, <1>12, <2>1, <3>1 DEF SharingOK
    <3> QED
      BY <1>3, <1>12, <2>1, <3>2 DEF CallOK
  <2>2. CASE k # Parts(c)
    <3>1. k + 1 \in 1..Parts(c) /\ (k + 1) - 1 = k
      BY <1>3, <2>2
    <3>2. SharingOK(me2, db', added')
      BY <1>1, <1>3, <1>10, <1>11, <1>12, <2>2, <3>1 DEF SharingOK
    <3> QED
      BY <1>3, <1>12, <2>2, <3>2 DEF CallOK
  <2> QED
    BY <2>1, <2>2
<1>14. Marking(me2, id)
  BY <1>12 DEF Marking
<1>15. \A j : Due(me2, id, j)
  <2>1. Parts(c) # 0
    BY <1>3
  <2>2. Chunks(me2.copy.content) # 0
    BY <1>3, <1>12, <2>1
  <2> QED
    BY <1>12, <2>2 DEF Due
<1>16. \A p, j : p # id => ~Due(caller[c], p, j)
                          /\ ~Marking(caller[c], p)
  BY DEF Due, Marking
<1>17. \A p \in DOMAIN added' : \A j \in 1..Size(added', p) :
         \/ Done(db', p, j) \/ Due(me2, p, j)
         \/ p \in DOMAIN added /\ ~Due(caller[c], p, j) /\ (Done(db, p, j) => Done(db', p, j))
  BY <1>1, <1>6, <1>15, <1>16
<1>18. \A p \in DOMAIN added' :
         \/ Inputs(db')[p].split \/ Marking(me2, p)
         \/ p \in DOMAIN added /\ ~Marking(caller[c], p)
  BY <1>1, <1>14, <1>16
<1>19. InputsOK(db', added') /\ PointsOK(db', added') /\ AddedOK(added')
  BY <1>1, <1>2, <1>6
<1> QED
  BY <1>1, <1>8, <1>9, <1>13, <1>17, <1>18, <1>19, StepInv

LEMMA WritesChunkInv ==
  ASSUME RowsInv, NEW c \in Clients, NEW step, NEW status \in RowStatus, NEW next,
         WritesChunk(c, step, status, next),
         \/ step = "begin" /\ next = "draft"
         \/ step = "draft" /\ next = "finish"
         \/ step = "finish" /\ next = "parent" /\ status = "completed"
  PROVE  RowsInv'
<1> DEFINE id == caller[c].id
           k == caller[c].k
           copy == caller[c].copy
           offer == added[id].offer
           row == ChunkRow(id, copy, k, status)
           me2 == [caller[c] EXCEPT !.at = next]
<1>1. /\ caller[c].at = step /\ added' = added /\ clock' = clock
      /\ db' = R!UpdateDataPoint(db, ChunkId(id, k), row)
      /\ caller' = [caller EXCEPT ![c] = me2]
  BY DEF WritesChunk, IsAt, Moves, SplitId
<1>2. /\ caller[c] \in RowCall /\ TablesOK(db, added, clock) /\ InputsOK(db, added)
      /\ PointsOK(db, added) /\ AddedOK(added) /\ clock \in Nat
  BY Mine
<1>3. /\ id \in DOMAIN added /\ copy \in RowKind
      /\ offer \in RowOffer /\ id \in InputId
      /\ copy.content = offer.content
      /\ Parts(c) = Chunks(copy.content)
      /\ Parts(c) = Size(added, id) /\ Parts(c) \in Nat
      /\ k \in 1..Parts(c) /\ k \in Nat
      /\ SharingOK(caller[c], db, added) /\ caller[c].todo # <<>>
  BY <1>1, AtWork
<1>4. k \in 1..Size(added, id) /\ k \in 1..Chunks(offer.content) /\ k <= Chunks(copy.content)
  BY <1>3 DEF Size
<1>5. caller[c].at \in {"begin", "draft", "finish"}
  BY <1>1
<1>6. /\ AllThere(db, added, id) /\ FitsAdded(added, id, copy)
      /\ copy.split /\ Inputs(db)[id].split /\ k \in 1..(Chunks(copy.content) + 1)
  BY <1>3, <1>4, <1>5 DEF SharingOK
<1>7. /\ row \in RowKind /\ row.parent = id /\ ~row.isInput /\ row.status = status
      /\ row.content = ChunkContent(offer.content, k)
  <2>1. row = ChunkRow(id, copy, k, status)
    OBVIOUS
  <2>2. offer \in RowOffer /\ copy \in RowKind /\ copy.content = offer.content
        /\ k \in 1..Chunks(offer.content) /\ id \in InputId /\ clock \in Nat
    BY <1>2, <1>3, <1>4
  <2> HIDE DEF offer, copy, id, k, row
  <2> QED
    BY <2>1, <2>2, ChunkRowIs
<1>8. ChunkId(id, k) \in DOMAIN Points(db)
  BY <1>4, <1>6 DEF AllThere, There
<1>9. /\ me2 \in RowCall /\ me2.id = id /\ me2.copy = copy /\ me2.todo = caller[c].todo
      /\ me2.k = k /\ me2.at = next
  BY <1>2 DEF RowCall, RowSteps
<1>10. offer = added[id].offer /\ me2 = [caller[c] EXCEPT !.at = next]
  OBVIOUS
<1> HIDE DEF row, id, k, offer, copy, me2
<1>11. RowWrote(db, db', clock, "datapoints", ChunkId(id, k), row)
  BY <1>1, <1>2, <1>7, <1>8, UpdatePoint
<1>12. /\ TablesOK(db', added, clock) /\ InputsOK(db', added) /\ PointsOK(db', added)
       /\ Inputs(db') = Inputs(db) /\ DOMAIN Points(db) \subseteq DOMAIN Points(db')
       /\ (row.status = "completed" => Done(db', id, k))
       /\ \A p \in DOMAIN added : \A j \in 1..Size(added, p) :
            (p # id \/ j # k) /\ Done(db, p, j) => Done(db', p, j)
  BY <1>2, <1>3, <1>4, <1>7, <1>10, <1>11, PointWritten
<1>13. Grew(db, added, clock, db', added', clock')
  BY <1>1, <1>2, <1>12 DEF Grew
<1>14. AllThere(db', added, id)
  BY <1>1, <1>3, <1>6, <1>13, SizesStay
<1>15. CallOK(me2, db', added', clock')
  <2>1. SharingOK(me2, db', added')
    BY <1>1, <1>3, <1>4, <1>6, <1>9, <1>12, <1>14 DEF SharingOK
  <2> QED
    BY <1>3, <1>9, <2>1 DEF CallOK
<1>16. caller[c].id = id /\ caller[c].k = k
  BY DEF id, k
<1>17. \A p, j : ~Marking(caller[c], p)
                  /\ (p # id => ~Due(caller[c], p, j))
  BY <1>5, <1>16 DEF Marking, Due
<1>18. \A j \in 1..Size(added, id) :
         \/ Done(db', id, j) \/ Due(me2, id, j)
         \/ ~Due(caller[c], id, j) /\ (Done(db, id, j) => Done(db', id, j))
  <2> TAKE j \in 1..Size(added, id)
  <2>1. j \in Nat
    BY <1>3
  <2>2. CASE j < k
    <3>1. ~(k <= j) /\ j # k
      BY <1>3, <2>1, <2>2
    <3>2. ~Due(caller[c], id, j)
      BY <1>5, <1>16, <3>1 DEF Due
    <3> QED
      BY <1>3, <1>12, <3>1, <3>2
  <2>3. CASE k < j
    <3>1. k <= j /\ j <= Parts(c)
      BY <1>3, <2>1, <2>3
    <3> QED
      BY <1>3, <1>9, <2>3, <3>1 DEF Due
  <2>4. CASE j = k
    <3>1. CASE step = "finish"
      BY <1>7, <1>12, <2>4, <3>1
    <3>2. CASE next \in {"draft", "finish"}
      <4>1. k <= k
        BY <1>3
      <4> QED
        BY <1>9, <2>4, <3>2, <4>1 DEF Due
    <3> QED
      BY <3>1, <3>2
  <2> QED
    BY <1>3, <2>1, <2>2, <2>3, <2>4
<1>19. \A p \in DOMAIN added' : \A j \in 1..Size(added', p) :
         \/ Done(db', p, j) \/ Due(me2, p, j)
         \/ p \in DOMAIN added /\ ~Due(caller[c], p, j) /\ (Done(db, p, j) => Done(db', p, j))
  BY <1>1, <1>12, <1>17, <1>18
<1>20. \A p \in DOMAIN added' :
         \/ Inputs(db')[p].split \/ Marking(me2, p)
         \/ p \in DOMAIN added /\ ~Marking(caller[c], p)
  BY <1>1, <1>17
<1>21. InputsOK(db', added') /\ PointsOK(db', added') /\ AddedOK(added') /\ TablesOK(db', added', clock')
  BY <1>1, <1>2, <1>12
<1>22. caller' = [caller EXCEPT ![c] = me2]
  BY <1>1, <1>10
<1> QED
  BY <1>13, <1>15, <1>19, <1>20, <1>21, <1>22, StepInv

-----------------------------------------------------------------------------
(* The row of the input is written.                                        *)

LEMMA InputWritten ==
  ASSUME NEW d, NEW a, NEW t, TablesOK(d, a, t), InputsOK(d, a), PointsOK(d, a),
         NEW id \in DOMAIN a, NEW d2, NEW row,
         RowWrote(d, d2, t, "input_datapoints", id, row), FitsAdded(a, id, row), row.split
  PROVE  /\ TablesOK(d2, a, t) /\ InputsOK(d2, a) /\ PointsOK(d2, a)
         /\ Points(d2) = Points(d) /\ Inputs(d2)[id].split
         /\ Grew(d, a, t, d2, a, t)
<1>1. /\ Points(d2) = Points(d)
      /\ DOMAIN Inputs(d2) = DOMAIN Inputs(d) \cup {id}
      /\ Inputs(d2) \in [DOMAIN Inputs(d2) -> RowKind]
      /\ \A j \in DOMAIN Inputs(d) : j # id => Inputs(d2)[j] = Inputs(d)[j]
      /\ RowsKept(Inputs(d2)[id], row, t)
  BY WroteInput
<1>2. DOMAIN Inputs(d) = DOMAIN a /\ t \in Nat
  BY DEF TablesOK
<1>3. DOMAIN Inputs(d2) = DOMAIN Inputs(d)
  BY <1>1, <1>2
<1>4. TablesOK(d2, a, t)
  <2>1. \A j \in DOMAIN Inputs(d2) : Inputs(d2)[j].created <= t
    BY <1>1, TableNames DEF TablesOK, RowsKept, Inputs
  <2>2. \A u \in R!Table : /\ d2[u] \in [DOMAIN d2[u] -> RowKind]
                           /\ \A j \in DOMAIN d2[u] : d2[u][j].created <= t
    BY <1>1, <2>1, TableNames DEF TablesOK, Inputs, Points
  <2>3. d2 = [u \in R!Table |-> d2[u]]
    BY DEF RowWrote
  <2> QED
    BY <1>3, <2>2, <2>3 DEF TablesOK
<1>5. InputsOK(d2, a)
  <2>1. FitsAdded(a, id, Inputs(d2)[id])
    BY <1>1, KeptFits
  <2> QED
    BY <1>1, <1>2, <2>1 DEF InputsOK
<1>6. PointsOK(d2, a)
  BY <1>1 DEF PointsOK
<1>7. Inputs(d2)[id].split
  BY <1>1 DEF RowsKept
<1>8. Grew(d, a, t, d2, a, t)
  <2>1. \A i \in DOMAIN a : Inputs(d)[i].split => Inputs(d2)[i].split
    BY <1>1, <1>2, <1>7
  <2>2. t <= t
    BY <1>2
  <2> QED
    BY <1>1, <1>2, <2>1, <2>2 DEF Grew
<1> QED
  BY <1>1, <1>4, <1>5, <1>6, <1>7, <1>8

\* A call that has returned.
LEMMA RestingOK ==
  ASSUME NEW me \in RowCall, me.todo # <<>>, NEW d, NEW a, NEW t
  PROVE  /\ CallOK(Resting(Tail(me.todo)), d, a, t)
         /\ Resting(Tail(me.todo)).at = "idle"
<1> DEFINE rest == Tail(me.todo)
           none == Resting(rest)
<1>1. rest \in Seq(RowOffer \cup {ById})
  BY DEF RowCall
<1>2. none = [todo |-> rest, at |-> "idle", seen |-> {}, known |-> {}, id |-> NoRow,
              copy |-> NoRow, k |-> 0, read |-> NoRow]
  BY DEF Resting
<1> HIDE DEF rest, none
<1>3. none.at = "idle"
  BY <1>2
<1>4. none \in RowCall
  BY <1>1, <1>2 DEF RowCall, RowSteps
<1> QED
  BY <1>3, <1>4 DEF CallOK, none, rest

\* A client that has split its input, if need be.
LEMMA Sharing ==
  ASSUME RowsInv, NEW c \in Clients, caller[c].at \notin {"idle", "inputs", "store"}
  PROVE  /\ SharingOK(caller[c], db, added) /\ caller[c].todo # <<>>
         /\ caller[c].id \in DOMAIN added /\ caller[c].id \in InputId
         /\ FitsAdded(added, caller[c].id, caller[c].copy) /\ caller[c].copy \in RowKind
         /\ Parts(c) = Chunks(caller[c].copy.content) /\ Parts(c) \in Nat
         /\ (Parts(c) # 0 => Parts(c) = Size(added, caller[c].id))
<1>1. CallOK(caller[c], db, added, clock) /\ TablesOK(db, added, clock)
  BY Mine
<1>2. SharingOK(caller[c], db, added) /\ caller[c].todo # <<>>
  BY <1>1 DEF CallOK
<1>3. caller[c].id \in DOMAIN added /\ FitsAdded(added, caller[c].id, caller[c].copy)
  BY <1>2 DEF SharingOK
<1> QED
  BY <1>1, <1>2, <1>3, FitsChunks, SizeType DEF Parts

LEMMA MarksInv ==
  ASSUME RowsInv, NEW c \in Clients, Marks(c)
  PROVE  RowsInv'
<1> DEFINE id == caller[c].id
           copy == caller[c].copy
           row == [copy EXCEPT !.split = TRUE, !.status = "processing"]
           begun == [caller[c] EXCEPT !.copy = row, !.at = "begin", !.k = 1]
           me2 == IF Parts(c) = 0 THEN Resting(Tail(caller[c].todo)) ELSE begun
<1>1. /\ caller[c].at = "mark" /\ added' = added /\ clock' = clock
      /\ db' = R!UpdateDataPoint(db, id, row)
      /\ caller' = [caller EXCEPT ![c] = me2]
  BY DEF Marks, IsAt, Moves
<1>2. /\ caller[c] \in RowCall /\ TablesOK(db, added, clock) /\ InputsOK(db, added)
      /\ PointsOK(db, added) /\ AddedOK(added) /\ clock \in Nat
  BY Mine
<1>3. /\ SharingOK(caller[c], db, added) /\ caller[c].todo # <<>>
      /\ id \in DOMAIN added /\ id \in InputId
      /\ FitsAdded(added, id, copy) /\ copy \in RowKind
      /\ Parts(c) = Chunks(copy.content) /\ Parts(c) \in Nat
      /\ (Parts(c) # 0 => Parts(c) = Size(added, id))
  BY <1>1, Sharing
<1>4. Parts(c) # 0 => AllThere(db, added, id)
  BY <1>1, <1>3 DEF SharingOK
<1>5. caller[c].id = id
  OBVIOUS
<1> HIDE DEF id, copy
<1>6. /\ row \in RowKind /\ row.split /\ row.content = copy.content
      /\ row.session = copy.session /\ row.tier = copy.tier /\ row.isInput = copy.isInput
  BY <1>3 DEF RowKind, RowStatus
<1> HIDE DEF row
<1>7. FitsAdded(added, id, row)
  BY <1>3, <1>6 DEF FitsAdded, SameAs
<1>8. RowWrote(db, db', clock, "input_datapoints", id, row)
  BY <1>1, <1>2, <1>3, <1>6, UpdateInput
<1>9. /\ TablesOK(db', added, clock) /\ InputsOK(db', added) /\ PointsOK(db', added)
      /\ Points(db') = Points(db) /\ Inputs(db')[id].split
      /\ Grew(db, added, clock, db', added, clock)
  BY <1>2, <1>3, <1>6, <1>7, <1>8, InputWritten
<1>10. \A p, j : p # id => ~Marking(caller[c], p) /\ ~Due(caller[c], p, j)
  BY <1>1, <1>5 DEF Marking, Due
<1>11. /\ begun \in RowCall /\ begun.at = "begin" /\ begun.k = 1 /\ begun.id = id
       /\ begun.copy = row /\ begun.todo = caller[c].todo
  BY <1>2, <1>5, <1>6 DEF RowCall, RowSteps
<1> HIDE DEF begun
<1>12. CallOK(me2, db', added, clock)
  <2>1. CASE Parts(c) = 0
    BY <1>2, <1>3, <2>1, RestingOK
  <2>2. CASE Parts(c) # 0
    <3>1. AllThere(db', added, id)
      BY <1>3, <1>4, <1>9, <2>2, SizesStay
    <3>2. 1 \in 1..(Parts(c) + 1) /\ 1 <= Parts(c) /\ Chunks(row.content) = Parts(c)
      BY <1>3, <1>6, <2>2
    <3>3. SharingOK(begun, db', added)
      BY <1>3, <1>6, <1>7, <1>9, <1>11, <3>1, <3>2 DEF SharingOK
    <3> QED
      BY <1>3, <1>11, <2>2, <3>3 DEF CallOK
  <2> QED
    BY <2>1, <2>2
<1>13. \A j \in 1..Size(added, id) : Due(me2, id, j) \/ ~Due(caller[c], id, j)
  <2> TAKE j \in 1..Size(added, id)
  <2>1. CASE Parts(c) = 0
    <3>1. ~Due(caller[c], id, j)
      BY <1>1, <1>3, <2>1 DEF Due, copy
    <3> QED
      BY <3>1
  <2>2. CASE Parts(c) # 0
    <3>1. 1 <= j
      BY <1>3, <2>2
    <3> QED
      BY <1>11, <2>2, <3>1 DEF Due
  <2> QED
    BY <2>1, <2>2
<1> HIDE DEF me2
<1>14. \A p, j : Done(db, p, j) => Done(db', p, j)
  BY <1>9 DEF Done, There
<1>15. \A p \in DOMAIN added' : \A j \in 1..Size(added', p) :
         \/ Done(db', p, j) \/ Due(me2, p, j)
         \/ p \in DOMAIN added /\ ~Due(caller[c], p, j) /\ (Done(db, p, j) => Done(db', p, j))
  BY <1>1, <1>10, <1>13, <1>14
<1>16. \A p \in DOMAIN added' :
         \/ Inputs(db')[p].split \/ Marking(me2, p)
         \/ p \in DOMAIN added /\ ~Marking(caller[c], p)
  BY <1>1, <1>9, <1>10
<1>17. /\ InputsOK(db', added') /\ PointsOK(db', added') /\ AddedOK(added')
       /\ TablesOK(db', added', clock') /\ Grew(db, added, clock, db', added', clock')
       /\ CallOK(me2, db', added', clock')
  BY <1>1, <1>2, <1>9, <1>12
<1> QED
  BY <1>1, <1>15, <1>16, <1>17, StepInv

LEMMA ReadsParentInv ==
  ASSUME RowsInv, NEW c \in Clients, ReadsParent(c)
  PROVE  RowsInv'
<1> DEFINE id == caller[c].id
           got == R!GetDataPoint(db, id)
           me2 == [caller[c] EXCEPT !.at = "count", !.read = got]
<1>1. /\ caller[c].at = "parent" /\ added' = added /\ clock' = clock /\ db' = db
      /\ caller' = [caller EXCEPT ![c] = me2]
  BY DEF ReadsParent, IsAt, Moves
<1>2. /\ caller[c] \in RowCall /\ TablesOK(db, added, clock) /\ InputsOK(db, added)
      /\ PointsOK(db, added)
  BY Mine
<1>3. SharingOK(caller[c], db, added) /\ caller[c].todo # <<>> /\ id \in DOMAIN added
  BY <1>1, Sharing
<1>4. got = Inputs(db)[id]
  <2>1. id \in DOMAIN db["input_datapoints"] /\ id \notin DOMAIN db["datapoints"]
    BY <1>2, <1>3, TablesApart DEF Points, Inputs
  <2> QED
    BY <2>1 DEF R!GetDataPoint, R!Has, Inputs
<1>5. FitsAdded(added, id, got) /\ got \in RowKind /\ got.split
  BY <1>1, <1>2, <1>3, <1>4 DEF InputsOK, SharingOK, FitsAdded
<1> HIDE DEF got
<1>6. /\ me2 \in RowCall /\ me2.at = "count" /\ me2.read = got /\ me2.id = id
      /\ me2.k = caller[c].k /\ me2.copy = caller[c].copy /\ me2.todo = caller[c].todo
  BY <1>2, <1>5 DEF RowCall, RowSteps
<1> HIDE DEF me2
<1>7. CallOK(me2, db, added, clock')
  <2>1. SharingOK(me2, db, added)
    BY <1>1, <1>3, <1>5, <1>6 DEF SharingOK
  <2> QED
    BY <1>3, <1>6, <2>1 DEF CallOK
<1>8. \A p, j : /\ Due(caller[c], p, j) => Due(me2, p, j)
                /\ Marking(caller[c], p) => Marking(me2, p)
  BY <1>1, <1>6 DEF Due, Marking
<1> QED
  BY <1>1, <1>7, <1>8, ReadingStep

LEMMA CountsInv ==
  ASSUME RowsInv, NEW c \in Clients, Counts(c)
  PROVE  RowsInv'
<1>1. PICK status \in RowStatus :
        /\ caller[c].at = "count" /\ added' = added /\ clock' = clock /\ db' = db
        /\ caller' = [caller EXCEPT ![c] =
             [caller[c] EXCEPT !.at = "write", !.read.status = status]]
  BY DEF Counts, IsAt, Moves, RowStatus
<1> DEFINE id == caller[c].id
           old == caller[c].read
           new == [old EXCEPT !.status = status]
           me2 == [caller[c] EXCEPT !.at = "write", !.read = new]
<1>2. caller[c] \in RowCall /\ caller' = [caller EXCEPT ![c] = me2]
  BY <1>1, Mine
<1>3. SharingOK(caller[c], db, added) /\ caller[c].todo # <<>>
  BY <1>1, Sharing
<1>4. FitsAdded(added, id, old) /\ old.split
  BY <1>1, <1>3 DEF SharingOK
<1> HIDE DEF old
<1>5. /\ new \in RowKind /\ new.split /\ new.content = old.content /\ new.session = old.session
      /\ new.tier = old.tier /\ new.isInput = old.isInput
  BY <1>4 DEF FitsAdded, RowKind
<1> HIDE DEF new
<1>6. FitsAdded(added, id, new)
  BY <1>4, <1>5 DEF FitsAdded, SameAs
<1>7. /\ me2 \in RowCall /\ me2.at = "write" /\ me2.read = new /\ me2.id = id
      /\ me2.k = caller[c].k /\ me2.copy = caller[c].copy /\ me2.todo = caller[c].todo
  BY <1>2, <1>5 DEF RowCall, RowSteps
<1> HIDE DEF me2
<1>8. CallOK(me2, db, added, clock')
  <2>1. SharingOK(me2, db, added)
    BY <1>1, <1>3, <1>5, <1>6, <1>7 DEF SharingOK
  <2> QED
    BY <1>3, <1>7, <2>1 DEF CallOK
<1>9. \A p, j : /\ Due(caller[c], p, j) => Due(me2, p, j)
                /\ Marking(caller[c], p) => Marking(me2, p)
  BY <1>1, <1>7 DEF Due, Marking
<1> QED
  BY <1>1, <1>2, <1>8, <1>9, ReadingStep

LEMMA WritesParentInv ==
  ASSUME RowsInv, NEW c \in Clients, WritesParent(c)
  PROVE  RowsInv'
<1> DEFINE id == caller[c].id
           k == caller[c].k
           next == k + 1
           copy == caller[c].copy
           row == caller[c].read
           me == [caller[c] EXCEPT !.k = next]
           me2 == CASE me.k <= Parts(c) -> [me EXCEPT !.at = "begin", !.read = NoRow]
                    [] me.k = Parts(c) + 1 -> [me EXCEPT !.at = "count", !.read = me.copy]
                    [] OTHER -> Resting(Tail(me.todo))
<1>1. /\ caller[c].at = "write" /\ added' = added /\ clock' = clock
      /\ db' = R!UpdateDataPoint(db, me.id, me.read)
      /\ caller' = [caller EXCEPT ![c] = me2]
  BY DEF WritesParent, IsAt, Moves
<1>2. /\ caller[c] \in RowCall /\ TablesOK(db, added, clock) /\ InputsOK(db, added)
      /\ PointsOK(db, added) /\ AddedOK(added) /\ clock \in Nat
  BY Mine
<1>3. /\ SharingOK(caller[c], db, added) /\ caller[c].todo # <<>>
      /\ id \in DOMAIN added /\ id \in InputId
      /\ FitsAdded(added, id, copy) /\ copy \in RowKind
      /\ Parts(c) = Chunks(copy.content) /\ Parts(c) \in Nat
      /\ (Parts(c) # 0 => Parts(c) = Size(added, id))
  BY <1>1, Sharing
<1>4. /\ FitsAdded(added, id, row) /\ row.split /\ copy.split
      /\ k \in 1..(Parts(c) + 1) /\ (k <= Parts(c) => AllThere(db, added, id))
  BY <1>1, <1>3 DEF SharingOK
<1>5. k \in Nat /\ next \in Nat /\ next = k + 1 /\ row \in RowKind
  BY <1>3, <1>4 DEF FitsAdded
<1>6. \A p, j : /\ ~Marking(caller[c], p)
                /\ Due(caller[c], p, j) => p = id /\ k < j /\ j <= Parts(c)
  BY <1>1, <1>3 DEF Marking, Due
<1> HIDE DEF next
<1>7. /\ me \in RowCall /\ me.k = next /\ me.id = id /\ me.copy = copy /\ me.read = row
      /\ me.todo = caller[c].todo
  BY <1>2, <1>5 DEF RowCall
<1> HIDE DEF me, id, k, copy, row
<1>8. RowWrote(db, db', clock, "input_datapoints", id, row)
  BY <1>1, <1>2, <1>3, <1>5, <1>7, UpdateInput
<1>9. /\ TablesOK(db', added, clock) /\ InputsOK(db', added) /\ PointsOK(db', added)
      /\ Points(db') = Points(db) /\ Inputs(db')[id].split
      /\ Grew(db, added, clock, db', added, clock)
  BY <1>2, <1>3, <1>4, <1>8, InputWritten
<1>10. /\ CallOK(me2, db', added, clock)
       /\ \A j \in Nat : k < j /\ j <= Parts(c) => Due(me2, id, j)
  <2>1. CASE next <= Parts(c)
    <3>1. next # Parts(c) + 1
      BY <1>3, <2>1
    <3>2. me2 = [me EXCEPT !.at = "begin", !.read = NoRow]
      BY <1>7, <2>1, <3>1
    <3> HIDE DEF me2
    <3>3. /\ me2 \in RowCall /\ me2.at = "begin" /\ me2.id = id /\ me2.copy = copy
          /\ me2.k = next /\ me2.todo = caller[c].todo
      BY <1>7, <3>2 DEF RowCall, RowSteps
    <3>4. next \in 1..(Parts(c) + 1) /\ k <= Parts(c)
      BY <1>3, <1>5, <2>1
    <3>5. AllThere(db', added, id)
      BY <1>3, <1>4, <1>9, <3>4, SizesStay
    <3>6. SharingOK(me2, db', added)
      BY <1>3, <1>4, <1>9, <2>1, <3>3, <3>4, <3>5 DEF SharingOK
    <3>7. \A j \in Nat : k < j => next <= j
      BY <1>5
    <3> QED
      BY <1>3, <3>3, <3>6, <3>7 DEF CallOK, Due
  <2>2. CASE next = Parts(c) + 1
    <3>1. ~(next <= Parts(c))
      BY <1>3, <2>2
    <3>2. me2 = [me EXCEPT !.at = "count", !.read = copy]
      BY <1>7, <2>2, <3>1
    <3> HIDE DEF me2
    <3>3. /\ me2 \in RowCall /\ me2.at = "count" /\ me2.id = id /\ me2.copy = copy
          /\ me2.k = next /\ me2.todo = caller[c].todo /\ me2.read = copy
      BY <1>3, <1>7, <3>2 DEF RowCall, RowSteps
    <3>4. next \in 1..(Parts(c) + 1)
      BY <1>3, <1>5, <2>2
    <3>5. SharingOK(me2, db', added)
      BY <1>3, <1>4, <1>9, <3>1, <3>3, <3>4 DEF SharingOK
    <3>6. \A j \in Nat : ~(k < j /\ j <= Parts(c))
      BY <1>3, <1>5, <2>2
    <3> QED
      BY <1>3, <3>3, <3>5, <3>6 DEF CallOK
  <2>3. CASE ~(next <= Parts(c)) /\ next # Parts(c) + 1
    <3>1. me2 = Resting(Tail(me.todo))
      BY <1>7, <2>3
    <3> HIDE DEF me2
    <3>2. CallOK(me2, db', added, clock)
      BY <1>3, <1>7, <3>1, RestingOK
    <3>3. \A j \in Nat : ~(k < j /\ j <= Parts(c))
      BY <1>3, <1>4, <1>5, <2>3
    <3> QED
      BY <3>2, <3>3
  <2> QED
    BY <2>1, <2>2, <2>3
<1> HIDE DEF me2
<1>11. \A p \in DOMAIN added : \A j \in 1..Size(added, p) :
         Due(me2, p, j) \/ ~Due(caller[c], p, j)
  <2> SUFFICES ASSUME NEW p \in DOMAIN added, NEW j \in 1..Size(added, p),
                      Due(caller[c], p, j)
               PROVE  Due(me2, p, j)
    OBVIOUS
  <2>1. p = id /\ k < j /\ j <= Parts(c)
    BY <1>6
  <2>2. j \in Nat
    BY <1>2, SizeType
  <2> QED
    BY <1>10, <2>1, <2>2
<1>12. \A p, j : Done(db, p, j) => Done(db', p, j)
  BY <1>9 DEF Done, There
<1>13. \A p \in DOMAIN added' : \A j \in 1..Size(added', p) :
         \/ Done(db', p, j) \/ Due(me2, p, j)
         \/ p \in DOMAIN added /\ ~Due(caller[c], p, j) /\ (Done(db, p, j) => Done(db', p, j))
  BY <1>1, <1>11, <1>12
<1>14. \A p \in DOMAIN added' :
         \/ Inputs(db')[p].split \/ Marking(me2, p)
         \/ p \in DOMAIN added /\ ~Marking(caller[c], p)
  BY <1>1, <1>6
<1>15. /\ InputsOK(db', added') /\ PointsOK(db', added') /\ AddedOK(added')
       /\ TablesOK(db', added', clock') /\ Grew(db, added, clock, db', added', clock')
       /\ CallOK(me2, db', added', clock')
  BY <1>1, <1>2, <1>9, <1>10
<1> QED
  BY <1>1, <1>13, <1>14, <1>15, StepInv

-----------------------------------------------------------------------------
(* The invariant holds.                                                    *)

LEMMA InitRows ==
  ASSUME NEW plan, \A c \in Clients : plan[c] \in Seq(RowOffer \cup {ById}), RowsInit(plan)
  PROVE  RowsInv
<1>1. /\ db = [u \in R!Table |-> <<>>] /\ clock = 1 /\ added = <<>>
      /\ caller = [c \in Clients |-> Resting(plan[c])]
  BY DEF RowsInit, R!Empty
<1>2. DOMAIN added = {} /\ \A u \in R!Table : DOMAIN db[u] = {}
  BY <1>1
<1>3. TablesOK(db, added, clock)
  <2>1. 0 \in Nat /\ DOMAIN added = {<<n, 0>> : n \in 1..0}
    BY <1>2
  <2>2. DOMAIN Inputs(db) = DOMAIN added
    BY <1>2, TableNames DEF Inputs
  <2>3. db = [u \in R!Table |-> db[u]]
    BY <1>1
  <2>4. \A u \in R!Table : db[u] \in [DOMAIN db[u] -> RowKind]
    BY <1>1
  <2>5. added \in [DOMAIN added -> InputEntry]
    BY <1>1
  <2>6. \E m \in Nat : DOMAIN added = {<<n, 0>> : n \in 1..m}
    BY <2>1
  <2> QED
    BY <1>1, <1>2, <2>2, <2>3, <2>4, <2>5, <2>6 DEF TablesOK
<1>4. InputsOK(db, added) /\ AddedOK(added)
      /\ DueOK(caller, db, added) /\ MarkedOK(caller, db, added)
  BY <1>2 DEF InputsOK, AddedOK, DueOK, MarkedOK
<1>5. PointsOK(db, added)
  BY <1>2, TableNames DEF PointsOK, Points
<1>6. ASSUME NEW c \in Clients
      PROVE  caller[c] \in RowCall /\ CallOK(caller[c], db, added, clock)
  <2> DEFINE todo == plan[c]
             me == caller[c]
  <2>1. todo \in Seq(RowOffer \cup {ById})
    OBVIOUS
  <2>2. me = [todo |-> todo, at |-> "idle", seen |-> {}, known |-> {}, id |-> NoRow,
              copy |-> NoRow, k |-> 0, read |-> NoRow]
    BY <1>1 DEF Resting
  <2> HIDE DEF todo, me
  <2>3. me \in RowCall /\ me.at = "idle"
    BY <2>1, <2>2 DEF RowCall, RowSteps
  <2> QED
    BY <2>3 DEF CallOK, me
<1>7. CallsOK(caller, db, added, clock)
  BY <1>1, <1>6 DEF CallsOK
<1> QED
  BY <1>3, <1>4, <1>5, <1>7 DEF RowsInv

LEMMA StepRows ==
  ASSUME RowsInv, [RowsNext]_rowVars
  PROVE  RowsInv'
<1>1. CASE UNCHANGED rowVars
  BY <1>1, Zenon DEF rowVars, RowsInv
<1>2. ASSUME NEW c \in Clients, CallerStep(c)
      PROVE  RowsInv'
  <2>1. CASE LooksUp(c)
    BY <2>1, LooksUpInv
  <2>2. CASE LooksUpInputs(c)
    BY <2>2, LooksUpInputsInv
  <2>3. CASE StoresInput(c)
    BY <2>3, StoresInputInv
  <2>4. CASE CognifiesById(c)
    BY <2>4, CognifiesByIdInv
  <2>5. CASE StoresChunk(c)
    BY <2>5, StoresChunkInv
  <2>6. CASE Marks(c)
    BY <2>6, MarksInv
  <2>7. CASE WritesChunk(c, "begin", "processing", "draft")
    BY <2>7, WritesChunkInv DEF RowStatus
  <2>8. CASE WritesChunk(c, "draft", "cognified", "finish")
    BY <2>8, WritesChunkInv DEF RowStatus
  <2>9. CASE WritesChunk(c, "finish", "completed", "parent")
    BY <2>9, WritesChunkInv DEF RowStatus
  <2>10. CASE ReadsParent(c)
    BY <2>10, ReadsParentInv
  <2>11. CASE Counts(c)
    BY <2>11, CountsInv
  <2>12. CASE WritesParent(c)
    BY <2>12, WritesParentInv
  <2> QED
    BY <1>2, <2>1, <2>2, <2>3, <2>4, <2>5, <2>6, <2>7, <2>8, <2>9, <2>10, <2>11, <2>12
       DEF CallerStep
<1> QED
  BY <1>1, <1>2 DEF RowsNext

LEMMA RowsAlways == RowsSpec => []RowsInv
<1>1. (\E plan \in RowPlans : RowsInit(plan)) => RowsInv
  BY InitRows, RowsAssumption
<1>2. RowsInv /\ [RowsNext]_rowVars => RowsInv'
  BY StepRows
<1> QED
  BY <1>1, <1>2, PTL DEF RowsSpec

-----------------------------------------------------------------------------
(* What it says.                                                           *)

LEMMA TypedRows == RowsInv => RowsTypeOK
<1> SUFFICES ASSUME RowsInv PROVE RowsTypeOK
  OBVIOUS
<1>1. TablesOK(db, added, clock) /\ PointsOK(db, added)
  BY DEF RowsInv
<1>2. DOMAIN Points(db) \cap DOMAIN Inputs(db) = {} /\ DOMAIN Inputs(db) = DOMAIN added
  BY <1>1, TablesApart
<1>3. \A i \in DOMAIN Points(db) : ~Points(db)[i].isInput
  BY <1>1 DEF PointsOK
<1>4. ASSUME NEW u \in R!Table, NEW i \in DOMAIN db[u]
      PROVE  db[u][i].status \in {"pending", "processing", "cognified", "completed"}
  <2>1. db[u][i] \in RowKind
    BY <1>1 DEF TablesOK
  <2> QED
    BY <2>1 DEF RowKind, RowStatus
<1> QED
  BY <1>2, <1>3, <1>4 DEF RowsTypeOK, Points, Inputs, InputIds

\* The tables are sound, whatever the copies say that rows are written back
\* from: no id is in both, and a row of "datapoints" is never an input.
THEOREM RowsTyped == RowsSpec => []RowsTypeOK
BY TypedRows, RowsAlways, PTL

LEMMA EarlierRows == RowsInv => AddsFindEarlier
<1> SUFFICES ASSUME RowsInv PROVE AddsFindEarlier
  OBVIOUS
<1>1. InputIds = DOMAIN added /\ AddedOK(added)
  BY DEF RowsInv, TablesOK, Inputs, InputIds
<1> QED
  BY <1>1 DEF AddsFindEarlier, AddedOK, Excused

\* An Add finds what was stored before it began, but for the reasons that
\* AddsFindEarlier lists: however many clients add and cognify meanwhile.
THEOREM FoundEarlier == RowsSpec => []AddsFindEarlier
BY EarlierRows, RowsAlways, PTL

LEMMA SharedRowsDone == RowsInv => HandedTwiceDone
<1> SUFFICES ASSUME RowsInv, NEW id \in InputIds, \A c \in Clients : caller[c].id # id
             PROVE  LET chunks == {d \in DOMAIN db["datapoints"] : db["datapoints"][d].parent = id}
                    IN  /\ chunks = {ChunkId(id, k) : k \in 1..Chunks(added[id].offer.content)}
                        /\ \A d \in chunks : db["datapoints"][d].status = "completed"
                        /\ db["input_datapoints"][id].split
  BY DEF HandedTwiceDone
<1> DEFINE chunks == {d \in DOMAIN Points(db) : Points(db)[d].parent = id}
           parts == {ChunkId(id, k) : k \in 1..Size(added, id)}
<1>1. id \in DOMAIN added /\ TablesOK(db, added, clock) /\ PointsOK(db, added)
  BY DEF RowsInv, TablesOK, Inputs, InputIds
<1>2. \A k \in 1..Size(added, id) : Done(db, id, k)
  BY <1>1 DEF RowsInv, DueOK, Due
<1>3. Inputs(db)[id].split
  BY <1>1 DEF RowsInv, MarkedOK
<1>4. ASSUME NEW i \in chunks
      PROVE  i \in parts
  BY <1>1 DEF PointsOK
<1>5. ASSUME NEW k \in 1..Size(added, id)
      PROVE  ChunkId(id, k) \in chunks /\ Points(db)[ChunkId(id, k)].status = "completed"
  <2>1. ChunkId(id, k) \in DOMAIN Points(db)
    BY <1>2 DEF Done, There
  <2>2. PICK p \in DOMAIN added : \E j \in 1..Size(added, p) :
          ChunkId(id, k) = ChunkId(p, j) /\ Points(db)[ChunkId(id, k)].parent = p
    BY <1>1, <2>1 DEF PointsOK
  <2>3. PICK j \in 1..Size(added, p) : ChunkId(id, k) = ChunkId(p, j)
    BY <2>2
  <2>4. Size(added, p) \in Nat /\ Size(added, id) \in Nat /\ p \in InputId /\ id \in InputId
    BY <1>1, SizeType
  <2>5. p = id
    BY <2>3, <2>4, ChunkIds
  <2> QED
    BY <1>2, <2>1, <2>2, <2>5 DEF Done
<1>6. chunks = parts /\ \A i \in chunks : Points(db)[i].status = "completed"
  BY <1>4, <1>5
<1> QED
  BY <1>3, <1>6 DEF Points, Inputs, Size

\* An input that any number of clients cognify, in turn or at the same time,
\* has every chunk once and completed when the last of them is through.
THEOREM SharedCompletes == RowsSpec => []HandedTwiceDone
BY SharedRowsDone, RowsAlways, PTL

-----------------------------------------------------------------------------
(* The calls of a language model.                                          *)

AttemptsOf(kind, op) == IF kind \in Retrying /\ op # "health" THEN MaxAttempts ELSE 1

IsCall(t) ==
  t \in [op : {t.op}, at : {t.at}, model : {t.model}, to : {t.to}, last : {t.last},
         over : {t.over}, late : {t.late}, out : {t.out}]

\* The record of a call, with the names the object had during it.
CallShape(t, names, kind) ==
  /\ IsCall(t)
  /\ t.to \in Seq(names) /\ Len(t.to) <= AttemptsOf(kind, t.op)
  /\ t.over \in BOOLEAN /\ t.late \in {0, 1}
  /\ t.last \in Failure \cup {Unanswered("none"), Unanswered("cancelled")}

\* Where it is.
CallPlace(t, names, kind, model) ==
  /\ t.at = "idle" => t = Quiet
  /\ t.at # "idle" => model \in names
  /\ t.at \in {"setmodel", "renamed"} => t.op = "setmodel"
  /\ t.at # "return" => t.out = "none"
  /\ t.at \in {"setmodel", "renamed", "request"} => t.to = <<>>
  /\ t.at \notin {"failed", "return"} => t.late = 0
  /\ t.at \in {"send", "failed", "backoff"} => t.model \in names
  /\ t.at \in {"send", "backoff"} => Len(t.to) < AttemptsOf(kind, t.op)
  /\ t.at = "failed" => t.to # <<>> /\ (t.late = 1 => t.last = Unanswered("cancelled"))

\* What came of it.
CallResult(t, kind) ==
  /\ t.late = 1 => t.out # "answer"
  /\ kind # "gemini" => \A k \in DOMAIN t.to : t.to[k] = t.model
  /\ t.out \in {"answer", "unparsed"} /\ t.op # "setmodel" =>
       t.to # <<>> /\ t.to[Len(t.to)] # Mixed
  /\ t.out = "failed" /\ t.to # <<>> /\ Len(t.to) < AttemptsOf(kind, t.op) =>
       /\ t.last.status # "reset" /\ ~t.last.names
       /\ kind = "deepseek" => t.last.status # "server"
TalkOK(t, names, kind, model) ==
  CallShape(t, names, kind) /\ CallPlace(t, names, kind, model) /\ CallResult(t, kind)

TalkInv ==
  /\ llm = [kind |-> llm.kind, model |-> llm.model]
  /\ talk = [c \in Speaker |-> talk[c]] /\ held = [c \in Speaker |-> held[c]]
  /\ \A c \in Speaker : TalkOK(talk[c], held[c], llm.kind, llm.model)

LEMMA AttemptsType == \A kind, op : AttemptsOf(kind, op) \in Nat \ {0} /\ AttemptsOf(kind, op) <= MaxAttempts
BY ModelClientsAssumption DEF AttemptsOf

\* A call outlasts what the others do: the object's name is one of its own.
LEMMA CallOutlasts ==
  ASSUME NEW t, NEW names, NEW more, NEW kind, NEW model, NEW next,
         TalkOK(t, names, kind, model), names \subseteq more, next \in more
  PROVE  TalkOK(t, more, kind, next)
<1>1. t.to \in Seq(more)
  BY DEF TalkOK, CallShape, CallPlace, CallResult
<1> QED
  BY <1>1 DEF TalkOK, CallShape, CallPlace

LEMMA InitTalk ==
  ASSUME NEW plan, TalkInit(plan)
  PROVE  TalkInv
<1>1. Quiet.to \in Seq({}) /\ Len(Quiet.to) = 0
  BY DEF Quiet
<1>2. TalkOK(Quiet, {}, llm.kind, llm.model)
  <2>1. CallShape(Quiet, {}, llm.kind)
    BY <1>1, AttemptsType DEF CallShape, IsCall, Unanswered, Quiet
  <2>2. CallPlace(Quiet, {}, llm.kind, llm.model)
    BY <1>1, AttemptsType DEF CallPlace, Unanswered, Quiet
  <2>3. CallResult(Quiet, llm.kind)
    BY <1>1, AttemptsType DEF CallResult, Unanswered, Quiet
  <2> QED
    BY <2>1, <2>2, <2>3 DEF TalkOK
<1> QED
  BY <1>2 DEF TalkInit, TalkInv

\* A step that only changes a call, of a speaker who is in it.
LEMMA TalkOn ==
  ASSUME TalkInv, NEW c \in Speaker, NEW state, NEW names, NEW kind, NEW model,
         Talking(c, state), llm.kind = kind, llm' = [kind |-> kind, model |-> model],
         held' = [s \in Speaker |-> held[s] \cup {model}], held'[c] = names,
         TalkOK(state, names, kind, model)
  PROVE  TalkInv'
<1>1. talk' = [s \in Speaker |-> IF s = c THEN state ELSE talk[s]]
  BY DEF TalkInv, Talking
<1>2. llm'.kind = llm.kind
  OBVIOUS
<1>3. ASSUME NEW s \in Speaker
      PROVE  TalkOK(talk'[s], held'[s], llm'.kind, llm'.model)
  <2>1. CASE s = c
    BY <1>1, <1>2, <2>1
  <2>2. CASE s # c
    <3>1. talk'[s] = talk[s] /\ held[s] \subseteq held'[s] /\ llm'.model \in held'[s]
      BY <1>1, <2>2
    <3>2. TalkOK(talk[s], held[s], llm.kind, llm.model)
      BY DEF TalkInv
    <3>3. PICK t, ns, more, k, m, next :
             /\ t = talk[s] /\ ns = held[s] /\ more = held'[s] /\ k = llm.kind
             /\ m = llm.model /\ next = llm'.model
      OBVIOUS
    <3>4. TalkOK(t, more, k, next)
      BY <3>1, <3>2, <3>3, CallOutlasts
    <3> QED
      BY <1>2, <3>1, <3>3, <3>4
  <2> QED
    BY <2>1, <2>2
<1> QED
  BY <1>1, <1>2, <1>3 DEF TalkInv

\* What a call is from its first attempt on, written out.
LEMMA StepTalk ==
  ASSUME TalkInv, [TalkNext]_talkVars
  PROVE  TalkInv'
<1>1. CASE UNCHANGED talkVars
  BY <1>1 DEF talkVars, TalkInv
<1>2. ASSUME NEW c \in Speaker, TalkBegins(c)
      PROVE  TalkInv'
  <2> DEFINE next == Head(said.calls[c])
             state == [Quiet EXCEPT !.op = next.op, !.model = next.model,
                         !.at = IF next.op = "setmodel" THEN "setmodel" ELSE "request"]
  <2>1. /\ talk' = [s \in Speaker |-> IF s = c THEN state ELSE talk[s]]
        /\ held' = [s \in Speaker |-> IF s = c THEN {llm.model} ELSE held[s]]
        /\ llm' = llm
    BY <1>2 DEF TalkBegins, Talking, TalkInv
  <2>2. <<>> \in Seq({llm.model}) /\ Len(<<>>) = 0
    OBVIOUS
  <2>s. /\ IsCall(state)
        /\ state.op = next.op /\ state.at = (IF next.op = "setmodel" THEN "setmodel" ELSE "request") /\ state.model = next.model
        /\ state.to = <<>> /\ state.last = Unanswered("none") /\ state.over = FALSE
        /\ state.late = 0 /\ state.out = "none"
    BY DEF Quiet, IsCall
  <2> HIDE DEF state
  <2>3. TalkOK(state, {llm.model}, llm.kind, llm.model)
    <3>1. CallShape(state, {llm.model}, llm.kind)
      <4>1. state.to \in Seq({llm.model}) /\ Len(state.to) = 0
        BY <2>s, <2>2
      <4>2. PICK k, o : k = llm.kind /\ o = state.op
        OBVIOUS
      <4>3. 0 <= AttemptsOf(k, o)
        BY AttemptsType
      <4>4. state.last \in Failure \cup {Unanswered("none"), Unanswered("cancelled")}
        BY <2>s
      <4>5. IsCall(state) /\ state.over \in BOOLEAN /\ state.late \in {0, 1}
        BY <2>s
      <4> QED
        BY <4>1, <4>2, <4>3, <4>4, <4>5 DEF CallShape
    <3>2. CallPlace(state, {llm.model}, llm.kind, llm.model)
      BY <2>s, <2>2, AttemptsType DEF CallPlace, Unanswered, Quiet
    <3>3. CallResult(state, llm.kind)
      BY <2>s, <2>2, AttemptsType DEF CallResult, Unanswered, Quiet
    <3> QED
      BY <3>1, <3>2, <3>3 DEF TalkOK
  <2>4. \A s \in Speaker : TalkOK(talk'[s], held'[s], llm.kind, llm.model)
    BY <2>1, <2>3 DEF TalkInv
  <2> QED
    BY <2>1, <2>4 DEF TalkInv
<1>3. ASSUME NEW c \in Speaker, TalkReturns(c)
      PROVE  TalkInv'
  <2>1. /\ talk' = [s \in Speaker |-> IF s = c THEN Quiet ELSE talk[s]]
        /\ held' = held /\ llm' = llm
    BY <1>3 DEF TalkReturns, Talking, TalkInv
  <2>2. Quiet.to \in Seq(held[c]) /\ Len(Quiet.to) = 0
    BY DEF Quiet
  <2>3. TalkOK(Quiet, held[c], llm.kind, llm.model)
    <3>1. CallShape(Quiet, held[c], llm.kind)
      BY <2>2, AttemptsType DEF CallShape, IsCall, Unanswered, Quiet
    <3>2. CallPlace(Quiet, held[c], llm.kind, llm.model)
      BY <2>2, AttemptsType DEF CallPlace, Unanswered, Quiet
    <3>3. CallResult(Quiet, llm.kind)
      BY <2>2, AttemptsType DEF CallResult, Unanswered, Quiet
    <3> QED
      BY <3>1, <3>2, <3>3 DEF TalkOK
  <2>4. \A s \in Speaker : TalkOK(talk'[s], held'[s], llm.kind, llm.model)
    BY <2>1, <2>3 DEF TalkInv
  <2> QED
    BY <2>1, <2>4 DEF TalkInv
<1>4. ASSUME NEW c \in Speaker, ContextEnds(c)
      PROVE  TalkInv'
  <2>1. PICK t, names : t = talk[c] /\ names = held[c]
    OBVIOUS
  <2> DEFINE state == [t EXCEPT !.over = TRUE]
  <2>2. /\ talk' = [s \in Speaker |-> IF s = c THEN state ELSE talk[s]]
        /\ held' = held /\ llm' = llm /\ t.at \notin {"idle", "return"}
    BY <1>4, <2>1 DEF ContextEnds, Talking, TalkInv
  <2>3. TalkOK(t, names, llm.kind, llm.model)
    BY <2>1 DEF TalkInv
  <2>r. IsCall(t)
    BY <2>3 DEF TalkOK, CallShape
  <2>s. /\ IsCall(state)
        /\ state.op = t.op /\ state.at = t.at /\ state.model = t.model
        /\ state.to = t.to /\ state.last = t.last /\ state.over = TRUE
        /\ state.late = t.late /\ state.out = t.out
    BY <2>r DEF IsCall
  <2> HIDE DEF state
  <2>4. TalkOK(state, names, llm.kind, llm.model)
    <3>1. CallShape(state, names, llm.kind)
      BY <2>s, <2>2, <2>3 DEF TalkOK, CallShape, CallPlace
    <3>2. CallPlace(state, names, llm.kind, llm.model)
      BY <2>s, <2>2, <2>3 DEF TalkOK, CallShape, CallPlace
    <3>3. CallResult(state, llm.kind)
      BY <2>s, <2>2, <2>3 DEF TalkOK, CallShape, CallPlace, CallResult
    <3> QED
      BY <3>1, <3>2, <3>3 DEF TalkOK
  <2>5. \A s \in Speaker : TalkOK(talk'[s], held'[s], llm.kind, llm.model)
    BY <2>1, <2>2, <2>4 DEF TalkInv
  <2> QED
    BY <2>2, <2>5 DEF TalkInv
<1>5. ASSUME NEW c \in Speaker,
             Requests(c) \/ Sends(c) \/ Retries(c) \/ WaitsOut(c) \/ RenamesHalf(c) \/ Renames(c),
             held' = [s \in Speaker |-> held[s] \cup {llm'.model}]
      PROVE  TalkInv'
  <2>1. /\ llm = [kind |-> llm.kind, model |-> llm.model]
        /\ TalkOK(talk[c], held[c], llm.kind, llm.model)
    BY DEF TalkInv
  <2>2. PICK t, names, kind, model :
          t = talk[c] /\ names = held[c] /\ kind = llm.kind /\ model = llm.model
    OBVIOUS
  <2>3. TalkOK(t, names, kind, model)
    BY <2>1, <2>2
  <2>r. IsCall(t)
    BY <2>3 DEF TalkOK, CallShape
  <2>a. Attempts(c) = AttemptsOf(kind, t.op)
    BY <2>2 DEF Attempts, AttemptsOf
  <2>b. AttemptsOf(kind, t.op) \in Nat \ {0}
    BY AttemptsType
  <2>4. CASE Requests(c)
    <3>1. llm' = llm /\ held'[c] = names \cup {model} /\ t.at = "request"
      BY <1>5, <2>2, <2>4 DEF Requests, TalksAt
    <3>2. names \cup {model} = names
      BY <2>3, <3>1 DEF TalkOK, CallShape, CallPlace
    <3>3. CASE Lacks(llm.kind, talk[c].op)
      <4> DEFINE state == [t EXCEPT !.at = "return", !.out = "failed"]
      <4>1. Talking(c, state)
        BY <2>2, <2>4, <3>3 DEF Requests, Hears
      <4>s. /\ IsCall(state)
            /\ state.op = t.op /\ state.at = "return" /\ state.model = t.model
            /\ state.to = t.to /\ state.last = t.last /\ state.over = t.over
            /\ state.late = t.late /\ state.out = "failed"
        BY <2>r DEF IsCall
      <4> HIDE DEF state
      <4>2. TalkOK(state, names, kind, model)
        <5>1. CallShape(state, names, kind)
          BY <4>s, <2>3, <3>1 DEF TalkOK, CallShape, CallPlace
        <5>2. CallPlace(state, names, kind, model)
          BY <4>s, <2>3, <3>1 DEF TalkOK, CallShape, CallPlace
        <5>3. CallResult(state, kind)
          BY <4>s, <2>3, <3>1 DEF TalkOK, CallShape, CallPlace, CallResult
        <5> QED
          BY <5>1, <5>2, <5>3 DEF TalkOK
      <4> QED
        BY <1>5, <2>1, <2>2, <3>1, <3>2, <4>1, <4>2, TalkOn
    <3>4. CASE ~Lacks(llm.kind, talk[c].op)
      <4> DEFINE state == [t EXCEPT !.model = model, !.at = "send"]
      <4>1. Talking(c, state)
        BY <2>2, <2>4, <3>4 DEF Requests
      <4>s. /\ IsCall(state)
            /\ state.op = t.op /\ state.at = "send" /\ state.model = model
            /\ state.to = t.to /\ state.last = t.last /\ state.over = t.over
            /\ state.late = t.late /\ state.out = t.out
        BY <2>r DEF IsCall
      <4> HIDE DEF state
      <4>2. TalkOK(state, names, kind, model)
        <5>1. CallShape(state, names, kind)
          BY <4>s, <2>3, <2>b, <3>1 DEF TalkOK, CallShape, CallPlace
        <5>2. CallPlace(state, names, kind, model)
          BY <4>s, <2>3, <2>b, <3>1 DEF TalkOK, CallShape, CallPlace
        <5>3. CallResult(state, kind)
          BY <4>s, <2>3, <2>b, <3>1 DEF TalkOK, CallShape, CallPlace, CallResult
        <5> QED
          BY <5>1, <5>2, <5>3 DEF TalkOK
      <4> QED
        BY <1>5, <2>1, <2>2, <3>1, <3>2, <4>1, <4>2, TalkOn
    <3> QED
      BY <3>3, <3>4
  <2>5. CASE Sends(c)
    <3> DEFINE addressee == IF kind = "gemini" THEN model ELSE t.model
    <3>1. llm' = llm /\ held'[c] = names \cup {model} /\ t.at = "send" /\ Addressee(c) = addressee
      BY <1>5, <2>2, <2>5 DEF Sends, TalksAt, Addressee
    <3>2. names \cup {model} = names /\ addressee \in names
      BY <2>3, <3>1 DEF TalkOK, CallShape, CallPlace
    <3> DEFINE sent == Append(t.to, addressee)
               late == IF t.over THEN t.late + 1 ELSE t.late
    <3>3. /\ t.to \in Seq(names) /\ Len(t.to) < AttemptsOf(kind, t.op) /\ t.late = 0
          /\ t.over \in BOOLEAN /\ (kind # "gemini" => \A k \in DOMAIN t.to : t.to[k] = t.model)
      BY <2>3, <3>1 DEF TalkOK, CallShape, CallPlace, CallResult
    <3>4. /\ sent \in Seq(names) /\ Len(sent) = Len(t.to) + 1 /\ sent[Len(sent)] = addressee
          /\ \A k \in 1..Len(t.to) : sent[k] = t.to[k]
      BY <3>2, <3>3, AppendProperties
    <3>5. /\ sent # <<>> /\ Len(sent) <= AttemptsOf(kind, t.op) 
          /\ kind # "gemini" => \A k \in DOMAIN sent : sent[k] = t.model
      <4>1. sent # <<>>
        <5>1. Len(t.to) \in Nat
          BY <3>3
        <5> HIDE DEF sent
        <5> QED
          BY <3>4, <5>1
      <4>2. Len(sent) <= AttemptsOf(kind, t.op)
        BY <2>b, <3>3, <3>4
      <4>3. ASSUME kind # "gemini", NEW k \in DOMAIN sent PROVE sent[k] = t.model
        <5>1. k \in 1..(Len(t.to) + 1)
          BY <3>4, <4>3
        <5>2. CASE k = Len(t.to) + 1
          BY <3>4, <4>3, <5>2
        <5>3. CASE k \in 1..Len(t.to)
          BY <3>3, <3>4, <4>3, <5>3
        <5> QED
          BY <3>3, <5>1, <5>2, <5>3
      <4> QED
        BY <4>1, <4>2, <4>3
    <3>6. late \in {0, 1} /\ (late = 1 <=> t.over)
      BY <3>3
    <3> HIDE DEF sent, late
    <3>7. CASE /\ ~talk[c].over /\ Addressee(c) # Mixed
               /\ \E parses \in {TRUE, talk[c].op \notin Structured} :
                    Talking(c, [t EXCEPT !.to = sent, !.late = late,
                                  !.at = "return", !.out = IF parses THEN "answer" ELSE "unparsed"])
      <4>1. PICK parses \in BOOLEAN :
              Talking(c, [t EXCEPT !.to = sent, !.late = late,
                            !.at = "return", !.out = IF parses THEN "answer" ELSE "unparsed"])
        BY <3>7
      <4> DEFINE state == [t EXCEPT !.to = sent, !.late = late,
                             !.at = "return", !.out = IF parses THEN "answer" ELSE "unparsed"]
      <4>2. ~t.over /\ addressee # Mixed
        BY <2>2, <3>1, <3>7
      <4>s. /\ IsCall(state)
            /\ state.op = t.op /\ state.at = "return" /\ state.model = t.model
            /\ state.to = sent /\ state.last = t.last /\ state.over = t.over
            /\ state.late = late /\ state.out = (IF parses THEN "answer" ELSE "unparsed")
        BY <2>r DEF IsCall
      <4> HIDE DEF state
      <4>3. TalkOK(state, names, kind, model)
        <5>1. CallShape(state, names, kind)
          BY <4>s, <2>3, <3>1, <3>2, <3>4, <3>5, <3>6, <4>2 DEF TalkOK, CallShape, CallPlace
        <5>2. CallPlace(state, names, kind, model)
          BY <4>s, <2>3, <3>1, <3>2, <3>4, <3>5, <3>6, <4>2 DEF TalkOK, CallShape, CallPlace
        <5>3. CallResult(state, kind)
          BY <4>s, <2>3, <3>1, <3>2, <3>4, <3>5, <3>6, <4>2 DEF TalkOK, CallShape, CallPlace, CallResult
        <5> QED
          BY <5>1, <5>2, <5>3 DEF TalkOK
      <4> QED
        BY <1>5, <2>1, <2>2, <3>1, <3>2, <4>1, <4>3, TalkOn DEF state
    <3>8. CASE \E failure \in IF talk[c].over THEN {Unanswered("cancelled")} ELSE Failure :
                 Talking(c, [t EXCEPT !.to = sent, !.late = late, !.last = failure, !.at = "failed"])
      <4>1. PICK failure \in IF t.over THEN {Unanswered("cancelled")} ELSE Failure :
              Talking(c, [t EXCEPT !.to = sent, !.late = late, !.last = failure, !.at = "failed"])
        BY <2>2, <3>8
      <4> DEFINE state == [t EXCEPT !.to = sent, !.late = late, !.last = failure, !.at = "failed"]
      <4>2. /\ failure \in Failure \cup {Unanswered("none"), Unanswered("cancelled")}
            /\ late = 1 => failure = Unanswered("cancelled")
        BY <3>6
      <4>s. /\ IsCall(state)
            /\ state.op = t.op /\ state.at = "failed" /\ state.model = t.model
            /\ state.to = sent /\ state.last = failure /\ state.over = t.over
            /\ state.late = late /\ state.out = t.out
        BY <2>r DEF IsCall
      <4> HIDE DEF state
      <4>3. TalkOK(state, names, kind, model)
        <5>1. CallShape(state, names, kind)
          BY <4>s, <2>3, <3>1, <3>2, <3>4, <3>5, <3>6, <4>2 DEF TalkOK, CallShape, CallPlace
        <5>2. CallPlace(state, names, kind, model)
          BY <4>s, <2>3, <3>1, <3>2, <3>4, <3>5, <3>6, <4>2 DEF TalkOK, CallShape, CallPlace
        <5>3. CallResult(state, kind)
          BY <4>s, <2>3, <3>1, <3>2, <3>4, <3>5, <3>6, <4>2 DEF TalkOK, CallShape, CallPlace, CallResult
        <5> QED
          BY <5>1, <5>2, <5>3 DEF TalkOK
      <4> QED
        BY <1>5, <2>1, <2>2, <3>1, <3>2, <4>1, <4>3, TalkOn DEF state
    <3> QED
      <4>1. [talk[c] EXCEPT !.to = Append(@, Addressee(c)), !.late = IF talk[c].over THEN @ + 1 ELSE @]
              = [t EXCEPT !.to = sent, !.late = late]
        BY <2>2, <2>3, <3>1 DEF sent, late, TalkOK, CallShape
      <4> QED
        BY <2>2, <2>5, <3>7, <3>8, <4>1 DEF Sends
  <2>6. CASE Retries(c)
    <3>1. llm' = llm /\ held'[c] = names \cup {model} /\ t.at = "failed"
      BY <1>5, <2>2, <2>6 DEF Retries, TalksAt
    <3>2. names \cup {model} = names
      BY <2>3, <3>1 DEF TalkOK, CallShape, CallPlace
    <3>3. CASE IsRetryable(kind, t.last) /\ Len(t.to) < Attempts(c)
      <4> DEFINE state == [t EXCEPT !.at = "backoff"]
      <4>1. Talking(c, state)
        BY <2>2, <2>6, <3>3 DEF Retries
      <4>2. t.last # Unanswered("cancelled")
        BY <3>3 DEF IsRetryable, Unanswered
      <4>3. t.late = 0
        BY <2>3, <3>1, <4>2 DEF TalkOK, CallShape, CallPlace
      <4>s. /\ IsCall(state)
            /\ state.op = t.op /\ state.at = "backoff" /\ state.model = t.model
            /\ state.to = t.to /\ state.last = t.last /\ state.over = t.over
            /\ state.late = t.late /\ state.out = t.out
        BY <2>r DEF IsCall
      <4> HIDE DEF state
      <4>4. TalkOK(state, names, kind, model)
        <5>1. CallShape(state, names, kind)
          BY <4>s, <2>3, <2>a, <3>1, <3>3, <4>3 DEF TalkOK, CallShape, CallPlace
        <5>2. CallPlace(state, names, kind, model)
          BY <4>s, <2>3, <2>a, <3>1, <3>3, <4>3 DEF TalkOK, CallShape, CallPlace
        <5>3. CallResult(state, kind)
          BY <4>s, <2>3, <2>a, <3>1, <3>3, <4>3 DEF TalkOK, CallShape, CallPlace, CallResult
        <5> QED
          BY <5>1, <5>2, <5>3 DEF TalkOK
      <4> QED
        BY <1>5, <2>1, <2>2, <3>1, <3>2, <4>1, <4>4, TalkOn
    <3>4. CASE ~(IsRetryable(kind, t.last) /\ Len(t.to) < Attempts(c))
      <4> DEFINE state == [t EXCEPT !.at = "return", !.out = "failed"]
      <4>1. Talking(c, state)
        BY <2>2, <2>6, <3>4 DEF Retries, Hears
      <4>2. Len(t.to) < AttemptsOf(kind, t.op) =>
              /\ t.last.status # "reset" /\ ~t.last.names
              /\ kind = "deepseek" => t.last.status # "server"
        BY <2>a, <3>4 DEF IsRetryable, ShowsStatus
      <4>s. /\ IsCall(state)
            /\ state.op = t.op /\ state.at = "return" /\ state.model = t.model
            /\ state.to = t.to /\ state.last = t.last /\ state.over = t.over
            /\ state.late = t.late /\ state.out = "failed"
        BY <2>r DEF IsCall
      <4> HIDE DEF state
      <4>3. TalkOK(state, names, kind, model)
        <5>1. CallShape(state, names, kind)
          BY <4>s, <2>3, <3>1, <4>2 DEF TalkOK, CallShape, CallPlace
        <5>2. CallPlace(state, names, kind, model)
          BY <4>s, <2>3, <3>1, <4>2 DEF TalkOK, CallShape, CallPlace
        <5>3. CallResult(state, kind)
          BY <4>s, <2>3, <3>1, <4>2 DEF TalkOK, CallShape, CallPlace, CallResult
        <5> QED
          BY <5>1, <5>2, <5>3 DEF TalkOK
      <4> QED
        BY <1>5, <2>1, <2>2, <3>1, <3>2, <4>1, <4>3, TalkOn
    <3> QED
      BY <3>3, <3>4
  <2>7. CASE WaitsOut(c)
    <3>1. llm' = llm /\ held'[c] = names \cup {model} /\ t.at = "backoff"
      BY <1>5, <2>2, <2>7 DEF WaitsOut, TalksAt
    <3>2. names \cup {model} = names
      BY <2>3, <3>1 DEF TalkOK, CallShape, CallPlace
    <3>3. CASE Talking(c, [t EXCEPT !.at = "send", !.last = Unanswered("none")])
      <4> DEFINE state == [t EXCEPT !.at = "send", !.last = Unanswered("none")]
      <4>s. /\ IsCall(state)
            /\ state.op = t.op /\ state.at = "send" /\ state.model = t.model
            /\ state.to = t.to /\ state.last = Unanswered("none") /\ state.over = t.over
            /\ state.late = t.late /\ state.out = t.out
        BY <2>r DEF IsCall
      <4> HIDE DEF state
      <4>1. TalkOK(state, names, kind, model)
        <5>1. CallShape(state, names, kind)
          BY <4>s, <2>3, <3>1 DEF TalkOK, CallShape, CallPlace
        <5>2. CallPlace(state, names, kind, model)
          BY <4>s, <2>3, <3>1 DEF TalkOK, CallShape, CallPlace
        <5>3. CallResult(state, kind)
          BY <4>s, <2>3, <3>1 DEF TalkOK, CallShape, CallPlace, CallResult
        <5> QED
          BY <5>1, <5>2, <5>3 DEF TalkOK
      <4> QED
        BY <1>5, <2>1, <2>2, <3>1, <3>2, <3>3, <4>1, TalkOn DEF state
    <3>4. CASE Talking(c, [t EXCEPT !.at = "return", !.out = "cancelled"])
      <4> DEFINE state == [t EXCEPT !.at = "return", !.out = "cancelled"]
      <4>s. /\ IsCall(state)
            /\ state.op = t.op /\ state.at = "return" /\ state.model = t.model
            /\ state.to = t.to /\ state.last = t.last /\ state.over = t.over
            /\ state.late = t.late /\ state.out = "cancelled"
        BY <2>r DEF IsCall
      <4> HIDE DEF state
      <4>1. TalkOK(state, names, kind, model)
        <5>1. CallShape(state, names, kind)
          BY <4>s, <2>3, <3>1 DEF TalkOK, CallShape, CallPlace
        <5>2. CallPlace(state, names, kind, model)
          BY <4>s, <2>3, <3>1 DEF TalkOK, CallShape, CallPlace
        <5>3. CallResult(state, kind)
          BY <4>s, <2>3, <3>1 DEF TalkOK, CallShape, CallPlace, CallResult
        <5> QED
          BY <5>1, <5>2, <5>3 DEF TalkOK
      <4> QED
        BY <1>5, <2>1, <2>2, <3>1, <3>2, <3>4, <4>1, TalkOn DEF state
    <3> QED
      BY <2>2, <2>7, <3>3, <3>4 DEF WaitsOut, Hears
  <2>8. CASE RenamesHalf(c)
    <3> DEFINE state == [t EXCEPT !.at = "renamed"]
    <3>1. /\ llm' = [kind |-> kind, model |-> Mixed] /\ t.at = "setmodel"
          /\ held'[c] = names \cup {Mixed} /\ Talking(c, state)
      BY <1>5, <2>1, <2>2, <2>8 DEF RenamesHalf, TalksAt
    <3>2. PICK more : more = names \cup {Mixed}
      OBVIOUS
    <3>3. names \subseteq more /\ Mixed \in more
      BY <3>2
    <3>4. TalkOK(t, more, kind, Mixed)
      BY <2>3, <3>3, CallOutlasts
    <3>s. /\ IsCall(state)
          /\ state.op = t.op /\ state.at = "renamed" /\ state.model = t.model
          /\ state.to = t.to /\ state.last = t.last /\ state.over = t.over
          /\ state.late = t.late /\ state.out = t.out
      BY <2>r DEF IsCall
    <3> HIDE DEF state
    <3>5. TalkOK(state, more, kind, Mixed)
      <4>1. CallShape(state, more, kind)
        BY <3>s, <3>1, <3>3, <3>4 DEF TalkOK, CallShape, CallPlace
      <4>2. CallPlace(state, more, kind, Mixed)
        BY <3>s, <3>1, <3>3, <3>4 DEF TalkOK, CallShape, CallPlace
      <4>3. CallResult(state, kind)
        BY <3>s, <3>1, <3>3, <3>4 DEF TalkOK, CallShape, CallPlace, CallResult
      <4> QED
        BY <4>1, <4>2, <4>3 DEF TalkOK
    <3> QED
      BY <1>5, <2>1, <2>2, <3>1, <3>2, <3>5, TalkOn
  <2>9. CASE Renames(c)
    <3> DEFINE state == [t EXCEPT !.at = "return", !.out = "answer"]
    <3>1. /\ llm' = [kind |-> kind, model |-> t.model] /\ t.at = "renamed"
          /\ held'[c] = names \cup {t.model} /\ Talking(c, state)
      BY <1>5, <2>1, <2>2, <2>9 DEF Renames, TalksAt, Hears
    <3>2. PICK more, new : more = names \cup {t.model} /\ new = t.model
      OBVIOUS
    <3>3. names \subseteq more /\ new \in more
      BY <3>2
    <3>4. TalkOK(t, more, kind, new)
      BY <2>3, <3>3, CallOutlasts
    <3>s. /\ IsCall(state)
          /\ state.op = t.op /\ state.at = "return" /\ state.model = t.model
          /\ state.to = t.to /\ state.last = t.last /\ state.over = t.over
          /\ state.late = t.late /\ state.out = "answer"
      BY <2>r DEF IsCall
    <3> HIDE DEF state
    <3>5. TalkOK(state, more, kind, new)
      <4>1. CallShape(state, more, kind)
        BY <3>s, <3>1, <3>3, <3>4 DEF TalkOK, CallShape, CallPlace
      <4>2. CallPlace(state, more, kind, new)
        BY <3>s, <3>1, <3>3, <3>4 DEF TalkOK, CallShape, CallPlace
      <4>3. CallResult(state, kind)
        BY <3>s, <3>1, <3>3, <3>4 DEF TalkOK, CallShape, CallPlace, CallResult
      <4> QED
        BY <4>1, <4>2, <4>3 DEF TalkOK
    <3> QED
      BY <1>5, <2>1, <2>2, <3>1, <3>2, <3>5, TalkOn
  <2> QED
    BY <1>5, <2>4, <2>5, <2>6, <2>7, <2>8, <2>9
<1> QED
  BY <1>1, <1>2, <1>3, <1>4, <1>5 DEF TalkNext, TalkStep

\* What a call promises its caller.
LEMMA SoundTalk == TalkInv => AnswersAreOwn /\ GivesUpForCause /\ StopsWhenOver
<1> SUFFICES ASSUME TalkInv, NEW c \in Speaker
             PROVE  /\ talk[c].out \in {"answer", "unparsed"} /\ talk[c].op # "setmodel" =>
                         talk[c].to[Len(talk[c].to)] \in held[c] \ {Mixed}
                    /\ llm.kind # "gemini" => \A k \in DOMAIN talk[c].to : talk[c].to[k] = talk[c].model
                    /\ Len(talk[c].to) <= MaxAttempts
                    /\ talk[c].out = "failed" /\ talk[c].to # <<>> /\ Len(talk[c].to) < Attempts(c) =>
                         /\ talk[c].last.status # "reset" /\ ~talk[c].last.names
                         /\ llm.kind = "deepseek" => talk[c].last.status # "server"
                    /\ talk[c].late <= 1 /\ (talk[c].late = 1 => talk[c].out # "answer")
  BY DEF AnswersAreOwn, GivesUpForCause, StopsWhenOver
<1>1. PICK t, names, kind, model :
        /\ t = talk[c] /\ names = held[c] /\ kind = llm.kind /\ model = llm.model
        /\ TalkOK(t, names, kind, model)
  BY DEF TalkInv
<1>2. Attempts(c) = AttemptsOf(kind, t.op) /\ AttemptsOf(kind, t.op) <= MaxAttempts
      /\ AttemptsOf(kind, t.op) \in Nat /\ MaxAttempts \in Nat
  BY <1>1, AttemptsType, ModelClientsAssumption DEF Attempts, AttemptsOf
<1>3. t.to \in Seq(names) /\ Len(t.to) \in Nat /\ Len(t.to) <= MaxAttempts
  BY <1>1, <1>2 DEF TalkOK, CallShape, CallPlace
<1>4. t.to # <<>> => t.to[Len(t.to)] \in names
  BY <1>3, LenProperties
<1> QED
  BY <1>1, <1>2, <1>3, <1>4 DEF TalkOK, CallShape, CallPlace, CallResult, CallShape, CallPlace

-----------------------------------------------------------------------------
(* The calls of one that embeds.                                           *)

IsAsk(a) ==
  a \in [op : {a.op}, at : {a.at}, texts : {a.texts}, dims : {a.dims}, model : {a.model},
         saved : {a.saved}, built : {a.built}, got : {a.got}, out : {a.out}]
AskOrder(a) == IF a.op = "dedup" THEN Uniques(a.texts) ELSE a.texts
TextsOf(a) == {AskOrder(a)[k] : k \in DOMAIN AskOrder(a)}

\* The requests a call has built and the vectors it got: every length is one
\* that anybody asked for, or that of a model.
RequestsOf(a, known) ==
  {r \in [of : TextsOf(a), model : EmbedModel, dims : Nat] : r.dims \in known \cup {0} /\ Native(r.model) \in known}
VectorsOf(a, known) ==
  {v \in [of : TextsOf(a), model : EmbedModel, dims : Nat] : v.dims \in known}

AskShape(a, known) ==
  /\ IsAsk(a) /\ a.texts \in Seq(Phrase) /\ a.dims \in Nat /\ a.saved \in Nat
  /\ a.built \in Seq(RequestsOf(a, known)) /\ a.got \in Seq(VectorsOf(a, known))

\* Where it is.
AskPlace(a, known) ==
  /\ a.at = "idle" => a = Silence
  /\ a.at # "idle" => a.model \in EmbedModel /\ a.dims \in known
  /\ a.op \in Embeds => a.at \in {"save", "length", "build", "send", "restore", "return"}
  /\ a.op \notin Embeds => a.built = <<>> /\ a.got = <<>> /\ a.saved = 0
  /\ a.op \notin Embeds /\ a.at # "idle" =>
       Native(a.model) \in known /\ a.at \in {"setmodel", "configure", "setdims", "resize", "return"}
  /\ a.at = "resize" => a.dims > 0
  /\ a.at \in {"save", "length"} => a.dims > 0 /\ a.built = <<>> /\ a.got = <<>>
  /\ a.at = "save" => a.saved = 0
  /\ a.saved > 0 => a.dims > 0 /\ a.saved \in known
  /\ a.at \in {"length", "restore"} => a.saved > 0
  /\ a.op \in Embeds /\ a.dims > 0 /\ a.at # "save" => a.saved > 0
  /\ a.out # "none" <=> a.at \in {"restore", "return"}

\* How far it is.
AskCourse(a, kind) ==
  /\ \A k \in DOMAIN a.built : a.built[k].of = AskOrder(a)[k]
  /\ \A k \in DOMAIN a.got : a.got[k].of = AskOrder(a)[k]
  /\ Len(a.built) <= Len(AskOrder(a)) /\ Len(a.got) <= Len(a.built)
  /\ a.at = "build" =>
       a.got = <<>> /\ (kind = "openai" => a.built = <<>>) /\ (a.built = <<>> \/ Len(a.built) < Len(AskOrder(a)))
  /\ a.at = "send" =>
       /\ Len(a.built) = Len(AskOrder(a)) /\ Len(a.got) < Len(a.built) /\ (kind = "openai" => a.got = <<>>)
  /\ a.out = "ok" /\ a.op \in Embeds => Len(a.got) = Len(AskOrder(a))
  /\ kind = "openai" =>
       /\ \A j, k \in DOMAIN a.built : a.built[j].dims = a.built[k].dims /\ a.built[j].model = a.built[k].model
       /\ \A j, k \in DOMAIN a.got : a.got[j].dims = a.got[k].dims /\ a.got[j].model = a.got[k].model

AskOK(a, kind, known) == AskShape(a, known) /\ AskPlace(a, known) /\ AskCourse(a, kind)

\* The object.
ObjectOK(e, known) ==
  /\ e \in [kind : {e.kind}, model : EmbedModel, dims : known \ {0}, config : [model : EmbedModel, dims : Nat]]
  /\ Native(e.model) \in known

\* An embedding that is counted as under way.
Counted(a) == a.op \in Embeds /\ a.built # <<>> /\ a.out = "none"
UsageOK ==
  /\ usage \in [total : Nat, ok : Nat, failed : Nat]
  /\ usage.total = usage.ok + usage.failed + Cardinality({u \in User : Counted(asks[u])})

\* As long as nobody writes model or length during another call: the length
\* that a call has written is to be written back, alone, and what the calls
\* have built and got is what the object says.
Lends(a) == a.saved > 0 /\ a.at \in {"build", "send", "restore"}
WantOf(a, e) == IF a.dims > 0 THEN a.dims ELSE e.dims
LengthAsked(a, e) ==
  IF e.kind = "openai" THEN (IF e.model \in Resizable("openai") THEN WantOf(a, e) ELSE 0)
                       ELSE (IF a.op # "embed" /\ WantOf(a, e) = 768 THEN 0 ELSE WantOf(a, e))
AsAsked(a, e) ==
  /\ \A k \in DOMAIN a.built : a.built[k].model = e.model /\ a.built[k].dims = LengthAsked(a, e)
  /\ \A k \in DOMAIN a.got :
       a.got[k].dims = IF LengthAsked(a, e) = 0 THEN Native(e.model) ELSE LengthAsked(a, e)
Undisturbed ==
  /\ (\A u \in User : ~Lends(asks[u])) => emb.config.dims \in {0, emb.dims}
  /\ \A u \in User : Lends(asks[u]) =>
       /\ \A v \in User \ {u} : asks[v].at = "idle"
       /\ emb.dims = asks[u].dims /\ emb.config.dims \in {0, asks[u].saved}
  /\ \A u \in User : asks[u].at = "length" => asks[u].saved = emb.dims
  /\ \A u \in User : AsAsked(asks[u], emb)

EmbedInv ==
  /\ ObjectOK(emb, lengths) /\ lengths \subseteq Nat /\ clash \in BOOLEAN
  /\ asks = [u \in User |-> asks[u]] /\ asked \in [User -> Seq(EmbedCall)]
  /\ \A u \in User : AskOK(asks[u], emb.kind, lengths)
  /\ UsageOK
  /\ ~clash => Undisturbed

-----------------------------------------------------------------------------
LEMMA NativeType == \A model : Native(model) \in Nat \ {0}
BY DEF Native

\* The texts of a call are a sequence, each text once or as they were given.
LEMMA OrderIsSequence ==
  ASSUME NEW a, a.texts \in Seq(Phrase)
  PROVE  AskOrder(a) \in Seq(TextsOf(a))
<1>1. CASE a.op # "dedup"
  BY <1>1 DEF AskOrder, TextsOf
<1>2. CASE a.op = "dedup"
  <2> DEFINE n == Cardinality(Firsts(a.texts))
  <2>1. n \in Nat
    <3>1. Firsts(a.texts) \subseteq 1..Len(a.texts)
      BY DEF Firsts
    <3>2. IsFiniteSet(1..Len(a.texts))
      BY FS_Interval
    <3> QED
      BY <3>1, <3>2, FS_Subset, FS_CardinalityType
  <2>2. AskOrder(a) = [k \in 1..n |-> AskOrder(a)[k]]
    BY <1>2 DEF AskOrder, Uniques
  <2> HIDE DEF n
  <2>3. DOMAIN AskOrder(a) = 1..n
    BY <2>2
  <2>4. \A k \in 1..n : AskOrder(a)[k] \in TextsOf(a)
    BY <2>3 DEF TextsOf
  <2> QED
    BY <2>1, <2>2, <2>4
<1> QED
  BY <1>1, <1>2

LEMMA SilenceOK ==
  ASSUME NEW kind, NEW known
  PROVE  AskOK(Silence, kind, known)
<1>1. <<>> \in Seq(Phrase) /\ Len(<<>>) = 0 /\ DOMAIN <<>> = {}
  OBVIOUS
<1>2. AskShape(Silence, known)
  <2>1. <<>> \in Seq(RequestsOf(Silence, known)) /\ <<>> \in Seq(VectorsOf(Silence, known))
    OBVIOUS
  <2> QED
    BY <1>1, <2>1 DEF AskShape, IsAsk, Silence
<1>3. AskPlace(Silence, known)
  BY DEF AskPlace, Silence, Embeds
<1>4. AskCourse(Silence, kind)
  BY <1>1 DEF AskCourse, Silence, AskOrder
<1> QED
  BY <1>2, <1>3, <1>4 DEF AskOK

\* A call stays what it is when a length more is known.
LEMMA AskOutlasts ==
  ASSUME NEW a, NEW kind, NEW known, NEW more, AskOK(a, kind, known), known \subseteq more
  PROVE  AskOK(a, kind, more)
<1>1. RequestsOf(a, known) \subseteq RequestsOf(a, more) /\ VectorsOf(a, known) \subseteq VectorsOf(a, more)
  BY DEF RequestsOf, VectorsOf
<1>2. a.built \in Seq(RequestsOf(a, more)) /\ a.got \in Seq(VectorsOf(a, more))
  BY <1>1 DEF AskOK, AskShape
<1>3. AskShape(a, more)
  BY <1>2 DEF AskOK, AskShape
<1>4. AskPlace(a, more)
  BY DEF AskOK, AskPlace
<1> QED
  BY <1>3, <1>4 DEF AskOK

LEMMA InitEmbed ==
  ASSUME NEW plan \in EmbedPlans, EmbedInit(plan)
  PROVE  EmbedInv
<1>1. plan.model \in EmbedModel /\ asked \in [User -> Seq(EmbedCall)] /\ IsFiniteSet(User)
  BY EmbeddingClientsAssumption DEF EmbedInit
<1>2. PICK native : native = Native(plan.model) /\ native \in Nat \ {0}
  BY NativeType
<1>3. ObjectOK(emb, lengths) /\ lengths \subseteq Nat /\ clash \in BOOLEAN
  BY <1>1, <1>2 DEF EmbedInit, ObjectOK
<1>4. asks = [u \in User |-> asks[u]] /\ \A u \in User : asks[u] = Silence
  BY DEF EmbedInit
<1>5. \A u \in User : AskOK(asks[u], emb.kind, lengths)
  BY <1>4, SilenceOK
<1>6. UsageOK
  <2>1. {u \in User : Counted(asks[u])} = {}
    BY <1>4 DEF Counted, Silence
  <2> QED
    BY <2>1, FS_EmptySet DEF UsageOK, EmbedInit
<1>7. Undisturbed
  <2>1. \A u \in User : ~Lends(asks[u]) /\ asks[u].at # "length"
    BY <1>4 DEF Lends, Silence
  <2>2. \A u \in User : AsAsked(asks[u], emb)
    BY <1>4 DEF AsAsked, Silence
  <2>3. emb.config.dims \in {0, emb.dims}
    BY DEF EmbedInit
  <2> QED
    BY <2>1, <2>2, <2>3 DEF Undisturbed
<1> QED
  BY <1>1, <1>3, <1>4, <1>5, <1>6, <1>7 DEF EmbedInv

\* A call's change, and what it does to the counters.
Tally(a, b) ==
  \/ usage' = usage /\ (Counted(a) <=> Counted(b))
  \/ ~Counted(a) /\ Counted(b) /\ usage' = [usage EXCEPT !.total = @ + 1]
  \/ Counted(a) /\ ~Counted(b) /\ usage' \in {[usage EXCEPT !.ok = @ + 1], [usage EXCEPT !.failed = @ + 1]}

LEMMA CountsOn ==
  ASSUME EmbedInv, NEW u \in User, NEW state, Becoming(u, state), Tally(asks[u], state)
  PROVE  UsageOK'
<1> DEFINE old == {v \in User : Counted(asks[v])}
           new == {v \in User : Counted(asks'[v])}
<1>1. asks' = [v \in User |-> IF v = u THEN state ELSE asks[v]]
  BY DEF EmbedInv, Becoming
<1>2. /\ usage \in [total : Nat, ok : Nat, failed : Nat]
      /\ usage.total = usage.ok + usage.failed + Cardinality(old)
  BY DEF EmbedInv, UsageOK
<1>3. IsFiniteSet(old) /\ IsFiniteSet(new)
  BY EmbeddingClientsAssumption, FS_Subset
<1>4. Cardinality(old) \in Nat /\ Cardinality(new) \in Nat
  BY <1>3, FS_CardinalityType
<1>5. CASE usage' = usage /\ (Counted(asks[u]) <=> Counted(state))
  <2>1. new = old
    BY <1>1, <1>5
  <2> QED
    BY <1>2, <1>5, <2>1 DEF UsageOK
<1>6. CASE ~Counted(asks[u]) /\ Counted(state) /\ usage' = [usage EXCEPT !.total = @ + 1]
  <2>1. new = old \cup {u} /\ u \notin old
    BY <1>1, <1>6
  <2>2. Cardinality(new) = Cardinality(old) + 1
    BY <1>3, <2>1, FS_AddElement
  <2> HIDE DEF old
  <2>3. /\ usage' \in [total : Nat, ok : Nat, failed : Nat]
        /\ usage'.total = usage'.ok + usage'.failed + Cardinality(new)
    BY <1>2, <1>4, <1>6, <2>2
  <2> QED
    BY <2>3 DEF UsageOK
<1>7. CASE /\ Counted(asks[u]) /\ ~Counted(state)
           /\ usage' \in {[usage EXCEPT !.ok = @ + 1], [usage EXCEPT !.failed = @ + 1]}
  <2>1. new = old \ {u} /\ u \in old
    BY <1>1, <1>7
  <2>2. Cardinality(new) = Cardinality(old) - 1
    BY <1>3, <2>1, FS_RemoveElement
  <2> HIDE DEF old
  <2>3. /\ usage' \in [total : Nat, ok : Nat, failed : Nat]
        /\ usage'.total = usage'.ok + usage'.failed + Cardinality(new)
    BY <1>2, <1>4, <1>7, <2>2
  <2> QED
    BY <2>3 DEF UsageOK
<1> QED
  BY <1>5, <1>6, <1>7 DEF Tally

\* A step of a call that only reads the object.
LEMMA ReadsOn ==
  ASSUME EmbedInv, NEW u \in User, NEW state, Becoming(u, state), Reads, lengths' = lengths, asked' = asked,
         asks[u].at # "idle", AskOK(state, emb.kind, lengths), Tally(asks[u], state),
         Lends(state) <=> Lends(asks[u]),
         Lends(state) => state.dims = asks[u].dims /\ state.saved = asks[u].saved,
         ~clash /\ Undisturbed => (state.at = "length" => state.saved = emb.dims) /\ AsAsked(state, emb)
  PROVE  EmbedInv'
<1>1. asks' = [v \in User |-> IF v = u THEN state ELSE asks[v]]
  BY DEF EmbedInv, Becoming
<1>2. \A v \in User : AskOK(asks'[v], emb.kind, lengths)
  BY <1>1 DEF EmbedInv
<1>3. UsageOK'
  BY CountsOn
<1>4. ASSUME ~clash PROVE Undisturbed'
  <2>1. Undisturbed
    BY <1>4 DEF EmbedInv
  <2>2. emb' = emb /\ \A v \in User : Lends(asks'[v]) <=> Lends(asks[v])
    BY <1>1 DEF Reads
  <2>3. \A v \in User : asks[v].at = "idle" => v # u /\ asks'[v] = asks[v]
    BY <1>1
  <2>4. \A v \in User : Lends(asks'[v]) => asks'[v].dims = asks[v].dims /\ asks'[v].saved = asks[v].saved
    BY <1>1
  <2>5. (\A v \in User : ~Lends(asks'[v])) => emb.config.dims \in {0, emb.dims}
    BY <2>1, <2>2 DEF Undisturbed
  <2>6. \A v \in User : Lends(asks'[v]) =>
          /\ \A w \in User \ {v} : asks'[w].at = "idle"
          /\ emb.dims = asks'[v].dims /\ emb.config.dims \in {0, asks'[v].saved}
    BY <2>1, <2>2, <2>3, <2>4 DEF Undisturbed
  <2>7. \A v \in User : asks'[v].at = "length" => asks'[v].saved = emb.dims
    BY <1>1, <1>4, <2>1 DEF Undisturbed
  <2>8. \A v \in User : AsAsked(asks'[v], emb)
    BY <1>1, <1>4, <2>1 DEF Undisturbed
  <2> QED
    BY <2>2, <2>5, <2>6, <2>7, <2>8 DEF Undisturbed
<1> QED
  BY <1>1, <1>2, <1>3, <1>4 DEF EmbedInv, Reads

\* A step that writes the object: whoever else is in a call is disturbed.
LEMMA WritesOn ==
  ASSUME EmbedInv, NEW u \in User, NEW state, NEW next, Becoming(u, state), Writes(u, next),
         lengths' = lengths, asked' = asked,
         next.kind = emb.kind, ObjectOK(next, lengths),
         AskOK(state, emb.kind, lengths), Tally(asks[u], state), state.at # "length",
         ~clash /\ Undisturbed /\ (\A v \in User \ {u} : asks[v].at = "idle") =>
           /\ Lends(state) => next.dims = state.dims /\ next.config.dims \in {0, state.saved}
           /\ ~Lends(state) => next.config.dims \in {0, next.dims}
           /\ AsAsked(state, next)
  PROVE  EmbedInv'
<1>1. asks' = [v \in User |-> IF v = u THEN state ELSE asks[v]]
  BY DEF EmbedInv, Becoming
<1>2. \A v \in User : AskOK(asks'[v], emb.kind, lengths)
  BY <1>1 DEF EmbedInv
<1>3. UsageOK'
  BY CountsOn
<1>4. clash' \in BOOLEAN /\ emb' = next
  BY DEF Writes, EmbedInv
<1>5. ASSUME ~clash' PROVE Undisturbed'
  <2>1. ~clash /\ \A v \in User \ {u} : asks[v].at = "idle"
    BY <1>5 DEF Writes, AsksAt, EmbedInv
  <2>2. Undisturbed
    BY <2>1 DEF EmbedInv
  <2>3. \A v \in User \ {u} : asks'[v] = Silence
    BY <1>1, <2>1 DEF EmbedInv, AskOK, AskPlace
  <2>4. /\ ~Lends(Silence) /\ Silence.at = "idle" /\ AsAsked(Silence, next)
    BY DEF Silence, Lends, AsAsked
  <2>5. /\ Lends(state) => next.dims = state.dims /\ next.config.dims \in {0, state.saved}
        /\ ~Lends(state) => next.config.dims \in {0, next.dims}
        /\ AsAsked(state, next)
    BY <2>1, <2>2
  <2>6. asks'[u] = state
    BY <1>1
  <2> QED
    BY <1>4, <2>3, <2>4, <2>5, <2>6 DEF Undisturbed
<1> QED
  BY <1>1, <1>2, <1>3, <1>4, <1>5 DEF EmbedInv

LEMMA SameOrder ==
  ASSUME NEW a, NEW b, b.op = a.op, b.texts = a.texts
  PROVE  /\ AskOrder(b) = AskOrder(a) /\ TextsOf(b) = TextsOf(a)
         /\ \A known : RequestsOf(b, known) = RequestsOf(a, known) /\ VectorsOf(b, known) = VectorsOf(a, known)
<1>1. AskOrder(b) = AskOrder(a)
  BY DEF AskOrder
<1>2. TextsOf(b) = TextsOf(a)
  BY <1>1 DEF TextsOf
<1> QED
  BY <1>1, <1>2 DEF RequestsOf, VectorsOf

\* A call that goes on as it is: its texts, requests and vectors stay.
SameAsk(b, a) ==
  /\ b.op = a.op /\ b.texts = a.texts /\ b.dims = a.dims /\ b.model = a.model
  /\ b.built = a.built /\ b.got = a.got
LEMMA AskGoesOn ==
  ASSUME NEW a, NEW b, NEW kind, NEW known, AskOK(a, kind, known), IsAsk(b), SameAsk(b, a), b.saved \in Nat,
         AskPlace(b, known),
         b.at = "build" =>
           a.got = <<>> /\ (kind = "openai" => a.built = <<>>) /\ (a.built = <<>> \/ Len(a.built) < Len(AskOrder(a))),
         b.at # "send",
         b.out = "ok" /\ b.op \in Embeds => Len(b.got) = Len(AskOrder(a))
  PROVE  AskOK(b, kind, known) /\ \A e : AsAsked(a, e) => AsAsked(b, e)
<1>1. /\ AskOrder(b) = AskOrder(a)
      /\ RequestsOf(b, known) = RequestsOf(a, known) /\ VectorsOf(b, known) = VectorsOf(a, known)
  BY SameOrder DEF SameAsk
<1>2. AskShape(b, known)
  BY <1>1 DEF AskOK, AskShape, SameAsk
<1>3. AskCourse(b, kind)
  BY <1>1 DEF AskOK, AskCourse, SameAsk
<1>4. \A e : AsAsked(a, e) => AsAsked(b, e)
  <2>1. \A e : LengthAsked(b, e) = LengthAsked(a, e)
    BY DEF LengthAsked, WantOf, SameAsk
  <2> QED
    BY <2>1 DEF AsAsked, SameAsk
<1> QED
  BY <1>2, <1>3, <1>4 DEF AskOK

LEMMA SavesLengthInv ==
  ASSUME EmbedInv, NEW u \in User, SavesLength(u), lengths' = lengths, asked' = asked
  PROVE  EmbedInv'
<1>1. PICK a, e, known : a = asks[u] /\ e = emb /\ known = lengths
  OBVIOUS
<1>2. AskOK(a, e.kind, known) /\ ObjectOK(e, known) /\ known \subseteq Nat
  BY <1>1 DEF EmbedInv
<1> DEFINE state == [a EXCEPT !.saved = e.dims, !.at = "length"]
<1>3. Becoming(u, state) /\ Reads /\ usage' = usage /\ a.at = "save"
  BY <1>1 DEF SavesLength, AsksAt
<1>4. /\ IsAsk(state) /\ state.op = a.op /\ state.at = "length" /\ state.texts = a.texts
      /\ state.dims = a.dims /\ state.model = a.model /\ state.saved = e.dims
      /\ state.built = a.built /\ state.got = a.got /\ state.out = a.out
  BY <1>2 DEF AskOK, AskShape, IsAsk
<1> HIDE DEF state
<1>5. e.dims \in known \ {0} /\ e.dims \in Nat
  BY <1>2 DEF ObjectOK
<1>6. AskPlace(state, known)
  BY <1>2, <1>3, <1>4, <1>5 DEF AskOK, AskPlace
<1>7. state.out # "ok"
  BY <1>2, <1>3, <1>4 DEF AskOK, AskPlace
<1>8. AskOK(state, e.kind, known) /\ \A o : AsAsked(a, o) => AsAsked(state, o)
  BY <1>2, <1>4, <1>5, <1>6, <1>7, AskGoesOn DEF SameAsk
<1>9. Tally(a, state) /\ ~Lends(state) /\ ~Lends(a)
  BY <1>3, <1>4 DEF Tally, Counted, Lends
<1>10. Undisturbed => AsAsked(a, e)
  BY <1>1 DEF Undisturbed
<1> QED
  BY <1>1, <1>3, <1>4, <1>8, <1>9, <1>10, ReadsOn

LEMMA WritesLengthInv ==
  ASSUME EmbedInv, NEW u \in User, WritesLength(u), lengths' = lengths, asked' = asked
  PROVE  EmbedInv'
<1>1. PICK a, e, known : a = asks[u] /\ e = emb /\ known = lengths
  OBVIOUS
<1>2. AskOK(a, e.kind, known) /\ ObjectOK(e, known) /\ known \subseteq Nat
  BY <1>1 DEF EmbedInv
<1> DEFINE state == [a EXCEPT !.at = "build"]
           next == [e EXCEPT !.dims = a.dims]
<1>3. Becoming(u, state) /\ Writes(u, next) /\ usage' = usage /\ a.at = "length"
  BY <1>1 DEF WritesLength, AsksNext, AsksAt
<1>4. /\ IsAsk(state) /\ state.op = a.op /\ state.at = "build" /\ state.texts = a.texts
      /\ state.dims = a.dims /\ state.model = a.model /\ state.saved = a.saved
      /\ state.built = a.built /\ state.got = a.got /\ state.out = a.out
  BY <1>2 DEF AskOK, AskShape, IsAsk
<1>5. /\ a.saved \in Nat /\ a.dims \in known \ {0} /\ a.saved > 0 /\ a.built = <<>> /\ a.got = <<>>
      /\ a.out = "none" /\ a.op \in Embeds
  BY <1>2, <1>3 DEF AskOK, AskShape, AskPlace
<1>6. ObjectOK(next, known) /\ next.kind = e.kind /\ next.dims = a.dims /\ next.config.dims = e.config.dims
  BY <1>2, <1>5 DEF ObjectOK
<1> HIDE DEF state, next
<1>7. AskPlace(state, known)
  BY <1>2, <1>3, <1>4, <1>5 DEF AskOK, AskPlace
<1>8. AskOK(state, e.kind, known)
  BY <1>2, <1>4, <1>5, <1>7, AskGoesOn DEF SameAsk
<1>9. Tally(a, state) /\ Lends(state)
  BY <1>3, <1>4, <1>5 DEF Tally, Counted, Lends
<1>10. AsAsked(state, next)
  BY <1>4, <1>5 DEF AsAsked
<1>11. Undisturbed /\ (\A v \in User \ {u} : asks[v].at = "idle") => next.config.dims \in {0, state.saved}
  <2>1. ~Lends(a) /\ \A v \in User : asks[v].at = "idle" => ~Lends(asks[v])
    BY <1>3 DEF Lends
  <2> QED
    BY <1>1, <1>3, <1>4, <1>6, <2>1 DEF Undisturbed
<1> QED
  BY <1>1, <1>3, <1>4, <1>6, <1>8, <1>9, <1>10, <1>11, WritesOn

LEMMA RestoresLengthInv ==
  ASSUME EmbedInv, NEW u \in User, RestoresLength(u), lengths' = lengths, asked' = asked
  PROVE  EmbedInv'
<1>1. PICK a, e, known : a = asks[u] /\ e = emb /\ known = lengths
  OBVIOUS
<1>2. AskOK(a, e.kind, known) /\ ObjectOK(e, known) /\ known \subseteq Nat
  BY <1>1 DEF EmbedInv
<1> DEFINE state == [a EXCEPT !.at = "return"]
           next == [e EXCEPT !.dims = a.saved]
<1>3. Becoming(u, state) /\ Writes(u, next) /\ usage' = usage /\ a.at = "restore"
  BY <1>1 DEF RestoresLength, AsksNext, AsksAt
<1>4. /\ IsAsk(state) /\ state.op = a.op /\ state.at = "return" /\ state.texts = a.texts
      /\ state.dims = a.dims /\ state.model = a.model /\ state.saved = a.saved
      /\ state.built = a.built /\ state.got = a.got /\ state.out = a.out
  BY <1>2 DEF AskOK, AskShape, IsAsk
<1>5. a.saved \in Nat /\ a.saved \in known \ {0} /\ a.dims \in Nat /\ a.dims > 0 /\ a.out # "none"
  BY <1>2, <1>3 DEF AskOK, AskShape, AskPlace
<1>6. /\ ObjectOK(next, known) /\ next.kind = e.kind /\ next.model = e.model
      /\ next.dims = a.saved /\ next.config.dims = e.config.dims
  BY <1>2, <1>5 DEF ObjectOK
<1> HIDE DEF state, next
<1>7. AskPlace(state, known)
  BY <1>2, <1>3, <1>4, <1>5 DEF AskOK, AskPlace
<1>8. state.out = "ok" /\ state.op \in Embeds => Len(state.got) = Len(AskOrder(a))
  BY <1>2, <1>4 DEF AskOK, AskCourse
<1>9. AskOK(state, e.kind, known) /\ \A o : AsAsked(a, o) => AsAsked(state, o)
  BY <1>2, <1>4, <1>5, <1>7, <1>8, AskGoesOn DEF SameAsk
<1>10. Tally(a, state) /\ ~Lends(state) /\ Lends(a)
  BY <1>3, <1>4, <1>5 DEF Tally, Counted, Lends
<1>11. AsAsked(a, e) => AsAsked(a, next)
  <2>1. LengthAsked(a, next) = LengthAsked(a, e)
    BY <1>5, <1>6 DEF LengthAsked, WantOf
  <2> QED
    BY <1>6, <2>1 DEF AsAsked
<1>12. Undisturbed => AsAsked(a, e) /\ e.config.dims \in {0, a.saved}
  BY <1>1, <1>10 DEF Undisturbed
<1> QED
  BY <1>1, <1>3, <1>4, <1>6, <1>9, <1>10, <1>11, <1>12, WritesOn

\* A call that sets the object up has neither requests nor vectors.
Setting(a, known) ==
  /\ a.op \notin Embeds /\ a.built = <<>> /\ a.got = <<>> /\ a.saved = 0 /\ a.out = "none"
  /\ a.model \in EmbedModel /\ a.dims \in known /\ Native(a.model) \in known
LEMMA SettingCalls ==
  ASSUME NEW a, NEW kind, NEW known, AskOK(a, kind, known),
         a.at \in {"setmodel", "configure", "setdims", "resize"}
  PROVE  Setting(a, known)
BY DEF AskOK, AskPlace, Setting

\* It goes on, or is over.
LEMMA SettingGoesOn ==
  ASSUME NEW a, NEW b, NEW kind, NEW known, AskOK(a, kind, known), Setting(a, known),
         IsAsk(b), SameAsk(b, a), b.saved = a.saved,
         \/ b.at = "return" /\ b.out \in {"ok", "refused"}
         \/ b.at = "resize" /\ b.out = a.out /\ b.dims > 0
  PROVE  /\ AskOK(b, kind, known) /\ ~Lends(a) /\ ~Lends(b) /\ ~Counted(a) /\ ~Counted(b)
         /\ \A e : AsAsked(b, e)
<1>1. AskPlace(b, known)
  BY DEF AskOK, AskPlace, Setting, SameAsk
<1>2. AskOK(b, kind, known)
  BY <1>1, AskGoesOn DEF Setting, SameAsk
<1>3. ~Lends(a) /\ ~Lends(b) /\ ~Counted(a) /\ ~Counted(b)
  BY DEF Lends, Counted, Setting, SameAsk
<1>4. \A e : AsAsked(b, e)
  BY DEF AsAsked, Setting, SameAsk
<1> QED
  BY <1>2, <1>3, <1>4

LEMMA FinishesState ==
  ASSUME NEW a, NEW out, IsAsk(a)
  PROVE  LET state == [a EXCEPT !.at = "return", !.out = out] IN
         /\ IsAsk(state) /\ SameAsk(state, a) /\ state.saved = a.saved /\ state.at = "return" /\ state.out = out
BY DEF IsAsk, SameAsk

LEMMA SetsModelInv ==
  ASSUME EmbedInv, NEW u \in User, SetsModel(u), lengths' = lengths, asked' = asked
  PROVE  EmbedInv'
<1>1. PICK a, e, known : a = asks[u] /\ e = emb /\ known = lengths
  OBVIOUS
<1>2. AskOK(a, e.kind, known) /\ ObjectOK(e, known) /\ known \subseteq Nat
  BY <1>1 DEF EmbedInv
<1>3. usage' = usage /\ a.at = "setmodel"
  BY <1>1 DEF SetsModel, AsksAt
<1>4. Setting(a, known)
  BY <1>2, <1>3, SettingCalls
<1>5. IsAsk(a)
  BY <1>2 DEF AskOK, AskShape
<1>6. CASE a.model \in KnownModels(e.kind)
  <2> DEFINE next == [e EXCEPT !.model = a.model, !.dims = Native(a.model),
                         !.config = [model |-> a.model, dims |-> Native(a.model)]]
             state == [a EXCEPT !.at = "return", !.out = "ok"]
  <2>1. Becoming(u, state) /\ Writes(u, next)
    BY <1>1, <1>6 DEF SetsModel, Finishes
  <2>2. PICK native : native = Native(a.model) /\ native \in Nat \ {0} /\ native \in known
    BY <1>4, NativeType DEF Setting
  <2>3. /\ ObjectOK(next, known) /\ next.kind = e.kind /\ next.dims = native /\ next.config.dims = native
    BY <1>2, <1>4, <2>2 DEF ObjectOK, Setting
  <2>4. IsAsk(state) /\ SameAsk(state, a) /\ state.saved = a.saved /\ state.at = "return" /\ state.out = "ok"
    BY <1>5, FinishesState
  <2> HIDE DEF state, next
  <2>5. /\ AskOK(state, e.kind, known) /\ ~Lends(state) /\ ~Counted(a) /\ ~Counted(state)
        /\ \A o : AsAsked(state, o)
    BY <1>2, <1>4, <2>4, SettingGoesOn
  <2>6. Tally(a, state)
    BY <1>3, <2>5 DEF Tally
  <2> QED
    BY <1>1, <2>1, <2>3, <2>4, <2>5, <2>6, WritesOn
<1>7. CASE a.model \notin KnownModels(e.kind)
  <2> DEFINE state == [a EXCEPT !.at = "return", !.out = "refused"]
  <2>1. Becoming(u, state) /\ Reads
    BY <1>1, <1>7 DEF SetsModel, Finishes
  <2>2. IsAsk(state) /\ SameAsk(state, a) /\ state.saved = a.saved /\ state.at = "return" /\ state.out = "refused"
    BY <1>5, FinishesState
  <2> HIDE DEF state
  <2>3. /\ AskOK(state, e.kind, known) /\ ~Lends(a) /\ ~Lends(state) /\ ~Counted(a) /\ ~Counted(state)
        /\ \A o : AsAsked(state, o)
    BY <1>2, <1>4, <2>2, SettingGoesOn
  <2>4. Tally(a, state)
    BY <1>3, <2>3 DEF Tally
  <2> QED
    BY <1>1, <1>3, <2>1, <2>2, <2>3, <2>4, ReadsOn
<1> QED
  BY <1>6, <1>7

LEMMA ConfiguresInv ==
  ASSUME EmbedInv, NEW u \in User, Configures(u), lengths' = lengths, asked' = asked
  PROVE  EmbedInv'
<1>1. PICK a, e, known : a = asks[u] /\ e = emb /\ known = lengths
  OBVIOUS
<1>2. AskOK(a, e.kind, known) /\ ObjectOK(e, known) /\ known \subseteq Nat
  BY <1>1 DEF EmbedInv
<1> DEFINE dims == IF a.dims > 0 THEN a.dims ELSE e.dims
           next == [e EXCEPT !.model = a.model, !.dims = dims, !.config = [model |-> a.model, dims |-> a.dims]]
           state == [a EXCEPT !.at = "return", !.out = "ok"]
<1>3. a.at = "configure" /\ usage' = usage /\ Becoming(u, state)
  BY <1>1 DEF Configures, AsksAt, Finishes
<1>4. Setting(a, known)
  BY <1>2, <1>3, SettingCalls
<1>5. IsAsk(a) /\ a.dims \in Nat
  BY <1>2 DEF AskOK, AskShape
<1>6. Writes(u, next)
  <2>1. [e EXCEPT !.model = a.model, !.dims = IF a.dims > 0 THEN a.dims ELSE @,
                  !.config = [model |-> a.model, dims |-> a.dims]] = next
    BY <1>2 DEF ObjectOK
  <2> QED
    BY <1>1, <2>1 DEF Configures
<1>7. dims \in known \ {0} /\ (a.dims = 0 \/ a.dims = dims)
  BY <1>2, <1>4, <1>5 DEF ObjectOK, Setting
<1> HIDE DEF dims
<1>8. /\ ObjectOK(next, known) /\ next.kind = e.kind /\ next.dims = dims /\ next.config.dims = a.dims
  BY <1>2, <1>4, <1>5, <1>7 DEF ObjectOK, Setting
<1>9. IsAsk(state) /\ SameAsk(state, a) /\ state.saved = a.saved /\ state.at = "return" /\ state.out = "ok"
  BY <1>5, FinishesState
<1> HIDE DEF state, next
<1>10. /\ AskOK(state, e.kind, known) /\ ~Lends(state) /\ ~Counted(a) /\ ~Counted(state)
       /\ \A o : AsAsked(state, o)
  BY <1>2, <1>4, <1>9, SettingGoesOn
<1>11. Tally(a, state)
  BY <1>3, <1>10 DEF Tally
<1> QED
  BY <1>1, <1>3, <1>6, <1>7, <1>8, <1>9, <1>10, <1>11, WritesOn

LEMMA ChecksLengthInv ==
  ASSUME EmbedInv, NEW u \in User, ChecksLength(u), lengths' = lengths, asked' = asked
  PROVE  EmbedInv'
<1>1. PICK a, e, known : a = asks[u] /\ e = emb /\ known = lengths
  OBVIOUS
<1>2. AskOK(a, e.kind, known)
  BY <1>1 DEF EmbedInv
<1>3. usage' = usage /\ a.at = "setdims" /\ Reads
  BY <1>1 DEF ChecksLength, AsksAt
<1>4. Setting(a, known)
  BY <1>2, <1>3, SettingCalls
<1>5. IsAsk(a)
  BY <1>2 DEF AskOK, AskShape
<1>6. PICK state : /\ Becoming(u, state)
                   /\ IsAsk(state) /\ SameAsk(state, a) /\ state.saved = a.saved
                   /\ \/ state.at = "return" /\ state.out \in {"ok", "refused"}
                      \/ state.at = "resize" /\ state.out = a.out /\ state.dims > 0
  <2>1. CASE e.model \in Resizable(e.kind) /\ a.dims \in 1..Native(e.model)
    <3> DEFINE resize == [a EXCEPT !.at = "resize"]
    <3>1. Becoming(u, resize)
      BY <1>1, <2>1 DEF ChecksLength, AsksNext
    <3>2. /\ IsAsk(resize) /\ SameAsk(resize, a) /\ resize.saved = a.saved /\ resize.at = "resize"
          /\ resize.out = a.out /\ resize.dims = a.dims
      BY <1>5 DEF IsAsk, SameAsk
    <3>3. a.dims > 0
      BY <2>1, NativeType
    <3> QED
      BY <3>1, <3>2, <3>3
  <2>2. CASE ~(e.model \in Resizable(e.kind) /\ a.dims \in 1..Native(e.model))
    <3> DEFINE refused == [a EXCEPT !.at = "return", !.out = "refused"]
    <3>1. Becoming(u, refused)
      BY <1>1, <2>2 DEF ChecksLength, Finishes
    <3> QED
      BY <1>5, <3>1, FinishesState
  <2> QED
    BY <2>1, <2>2
<1>7. /\ AskOK(state, e.kind, known) /\ ~Lends(a) /\ ~Lends(state) /\ ~Counted(a) /\ ~Counted(state)
      /\ \A o : AsAsked(state, o)
  BY <1>2, <1>4, <1>6, SettingGoesOn
<1>8. Tally(a, state)
  BY <1>3, <1>7 DEF Tally
<1> QED
  BY <1>1, <1>3, <1>6, <1>7, <1>8, ReadsOn

LEMMA ResizesInv ==
  ASSUME EmbedInv, NEW u \in User, Resizes(u), lengths' = lengths, asked' = asked
  PROVE  EmbedInv'
<1>1. PICK a, e, known : a = asks[u] /\ e = emb /\ known = lengths
  OBVIOUS
<1>2. AskOK(a, e.kind, known) /\ ObjectOK(e, known) /\ known \subseteq Nat
  BY <1>1 DEF EmbedInv
<1> DEFINE next == [e EXCEPT !.dims = a.dims, !.config.dims = a.dims]
           state == [a EXCEPT !.at = "return", !.out = "ok"]
<1>3. a.at = "resize" /\ usage' = usage /\ Becoming(u, state) /\ Writes(u, next)
  BY <1>1 DEF Resizes, AsksAt, Finishes
<1>4. Setting(a, known)
  BY <1>2, <1>3, SettingCalls
<1>5. IsAsk(a) /\ a.dims \in Nat /\ a.dims > 0
  BY <1>2, <1>3 DEF AskOK, AskShape, AskPlace
<1>6. /\ ObjectOK(next, known) /\ next.kind = e.kind /\ next.dims = a.dims /\ next.config.dims = a.dims
  <2>1. /\ e \in [kind : {e.kind}, model : EmbedModel, dims : known \ {0}, config : [model : EmbedModel, dims : Nat]]
        /\ Native(e.model) \in known /\ a.dims \in known \ {0}
    BY <1>2, <1>4, <1>5 DEF ObjectOK, Setting
  <2>2. PICK config : config = [e.config EXCEPT !.dims = a.dims]
    OBVIOUS
  <2>3. config \in [model : EmbedModel, dims : Nat] /\ config.dims = a.dims
    BY <1>5, <2>1, <2>2
  <2>4. next = [e EXCEPT !.dims = a.dims, !.config = config]
    BY <2>1, <2>2
  <2> HIDE DEF next
  <2>5. /\ next \in [kind : {e.kind}, model : EmbedModel, dims : known \ {0}, config : [model : EmbedModel, dims : Nat]]
        /\ next.kind = e.kind /\ next.model = e.model /\ next.dims = a.dims /\ next.config = config
    BY <2>1, <2>3, <2>4
  <2> QED
    BY <2>1, <2>3, <2>5 DEF ObjectOK
<1>7. IsAsk(state) /\ SameAsk(state, a) /\ state.saved = a.saved /\ state.at = "return" /\ state.out = "ok"
  BY <1>5, FinishesState
<1> HIDE DEF state, next
<1>8. /\ AskOK(state, e.kind, known) /\ ~Lends(state) /\ ~Counted(a) /\ ~Counted(state)
      /\ \A o : AsAsked(state, o)
  BY <1>2, <1>4, <1>7, SettingGoesOn
<1>9. Tally(a, state)
  BY <1>3, <1>8 DEF Tally
<1> QED
  BY <1>1, <1>3, <1>6, <1>7, <1>8, <1>9, WritesOn

LEMMA SilenceQuiet == ~Lends(Silence) /\ ~Counted(Silence) /\ Silence.at = "idle" /\ \A e : AsAsked(Silence, e)
BY DEF Lends, Counted, Silence, AsAsked

LEMMA EmbedReturnsInv ==
  ASSUME EmbedInv, NEW u \in User, EmbedReturns(u)
  PROVE  EmbedInv'
<1>1. PICK a, e, known, state : a = asks[u] /\ e = emb /\ known = lengths /\ state = Silence
  OBVIOUS
<1>2. AskOK(a, e.kind, known)
  BY <1>1 DEF EmbedInv
<1>3. a.at = "return" /\ usage' = usage /\ Becoming(u, state) /\ Reads /\ lengths' = lengths /\ asked' = asked
  BY <1>1 DEF EmbedReturns, AsksAt, Reads
<1>4. ~Counted(a) /\ ~Lends(a)
  BY <1>2, <1>3 DEF AskOK, AskPlace, Counted, Lends
<1>5. Tally(a, state)
  BY <1>1, <1>3, <1>4, SilenceQuiet DEF Tally
<1>6. AskOK(state, e.kind, known)
  BY <1>1, SilenceOK
<1> QED
  BY <1>1, <1>3, <1>4, <1>5, <1>6, SilenceQuiet, ReadsOn

LEMMA EmbedBeginsInv ==
  ASSUME EmbedInv, NEW u \in User, EmbedBegins(u)
  PROVE  EmbedInv'
<1>1. PICK known, more, next : known = lengths /\ more = lengths' /\ next = Head(asked[u])
  OBVIOUS
<1> DEFINE at == IF next.op \notin Embeds THEN next.op ELSE IF next.dims > 0 THEN "save" ELSE "build"
           state == [Silence EXCEPT !.op = next.op, !.texts = next.texts, !.dims = next.dims,
                       !.model = next.model, !.at = at]
<1>2. /\ asked[u] # <<>> /\ asked[u] \in Seq(EmbedCall)
      /\ Becoming(u, state) /\ emb' = emb /\ usage' = usage
      /\ more = known \cup {next.dims} \cup (IF next.op \in Embeds THEN {} ELSE {Native(next.model)})
      /\ clash' = (clash \/ \E v \in User : asks[v].saved > 0 \/ asks[v].at = "length")
      /\ asked' = [asked EXCEPT ![u] = Tail(@)] /\ asks[u].at = "idle"
  BY <1>1 DEF EmbedBegins, EmbedInv, AsksAt
<1>3. next \in EmbedCall /\ asked' \in [User -> Seq(EmbedCall)]
  <2>1. Tail(asked[u]) \in Seq(EmbedCall)
    BY <1>2
  <2> QED
    BY <1>1, <1>2, <2>1 DEF EmbedInv
<1>4. /\ next.op \in Embeds \cup {"setmodel", "configure", "setdims"} /\ next.texts \in Seq(Phrase)
      /\ next.dims \in Nat /\ next.model \in EmbedModel
  BY <1>3 DEF EmbedCall
<1>5. more \subseteq Nat /\ known \subseteq more /\ next.dims \in more
      /\ (next.op \notin Embeds => Native(next.model) \in more)
  BY <1>1, <1>2, <1>4, NativeType DEF EmbedInv
<1>6. /\ IsAsk(state) /\ state.op = next.op /\ state.at = at /\ state.texts = next.texts
      /\ state.dims = next.dims /\ state.model = next.model /\ state.saved = 0
      /\ state.built = <<>> /\ state.got = <<>> /\ state.out = "none"
  BY DEF Silence, IsAsk
<1>7. /\ next.op \in Embeds => at \in {"save", "build"} /\ (at = "save" <=> next.dims > 0)
      /\ next.op \notin Embeds => at \in {"setmodel", "configure", "setdims"}
  BY <1>4 DEF Embeds
<1> HIDE DEF state, at
<1>8. AskOK(state, emb.kind, more)
  <2>1. <<>> \in Seq(RequestsOf(state, more)) /\ <<>> \in Seq(VectorsOf(state, more))
    OBVIOUS
  <2>2. AskShape(state, more)
    BY <1>4, <1>6, <2>1 DEF AskShape
  <2>3. AskPlace(state, more)
    BY <1>4, <1>5, <1>6, <1>7 DEF AskPlace
  <2>4. AskOrder(state) \in Seq(TextsOf(state))
    BY <1>4, <1>6, OrderIsSequence
  <2>5. AskCourse(state, emb.kind)
    <3>1. Len(AskOrder(state)) \in Nat
      BY <2>4
    <3>2. Len(<<>>) = 0 /\ DOMAIN <<>> = {}
      OBVIOUS
    <3>3. at # "send"
      BY <1>4, <1>7
    <3> QED
      BY <1>6, <3>1, <3>2, <3>3 DEF AskCourse
  <2> QED
    BY <2>2, <2>3, <2>5 DEF AskOK
<1>9. asks' = [v \in User |-> IF v = u THEN state ELSE asks[v]]
  BY <1>2 DEF EmbedInv, Becoming
<1>10. \A v \in User : AskOK(asks'[v], emb.kind, more)
  <2> SUFFICES ASSUME NEW v \in User
               PROVE  AskOK(asks'[v], emb.kind, more)
    OBVIOUS
  <2>1. CASE v = u
    BY <1>8, <1>9, <2>1
  <2>2. CASE v # u
    <3>1. PICK a, kind : a = asks[v] /\ kind = emb.kind
      OBVIOUS
    <3>2. AskOK(a, kind, known)
      BY <1>1, <3>1 DEF EmbedInv
    <3>3. AskOK(a, kind, more)
      BY <1>5, <3>2, AskOutlasts
    <3> QED
      BY <1>9, <2>2, <3>1, <3>3
  <2> QED
    BY <2>1, <2>2
<1>11. asks[u] = Silence
  BY <1>2 DEF EmbedInv, AskOK, AskPlace
<1>12. UsageOK'
  <2>1. Tally(asks[u], state)
    BY <1>2, <1>6, <1>11, SilenceQuiet DEF Tally, Counted
  <2> QED
    BY <1>2, <2>1, CountsOn
<1>13. ObjectOK(emb, more)
  <2>1. ObjectOK(emb, known) /\ known \subseteq more
    BY <1>1, <1>5 DEF EmbedInv
  <2> QED
    BY <2>1 DEF ObjectOK
<1>14. ASSUME ~clash' PROVE Undisturbed'
  <2>1. ~clash /\ \A v \in User : ~(asks[v].saved > 0) /\ asks[v].at # "length"
    BY <1>2, <1>14 DEF EmbedInv
  <2>2. \A v \in User : ~Lends(asks[v])
    BY <2>1 DEF Lends
  <2>3. Undisturbed
    BY <2>1 DEF EmbedInv
  <2>4. ~Lends(state) /\ state.at # "length" /\ AsAsked(state, emb)
    BY <1>4, <1>6, <1>7 DEF Lends, AsAsked
  <2>5. \A v \in User : ~Lends(asks'[v]) /\ asks'[v].at # "length" /\ AsAsked(asks'[v], emb)
    BY <1>9, <2>1, <2>2, <2>3, <2>4 DEF Undisturbed
  <2> QED
    BY <1>2, <2>2, <2>3, <2>5 DEF Undisturbed
<1> QED
  BY <1>1, <1>2, <1>3, <1>5, <1>9, <1>10, <1>12, <1>13, <1>14 DEF EmbedInv

LEMMA BuildsNothing ==
  ASSUME EmbedInv, NEW u \in User, Builds(u), Order(u) = <<>>, lengths' = lengths, asked' = asked
  PROVE  EmbedInv'
<1>1. PICK a, e, known : a = asks[u] /\ e = emb /\ known = lengths
  OBVIOUS
<1>2. AskOK(a, e.kind, known)
  BY <1>1 DEF EmbedInv
<1> DEFINE at == IF a.saved > 0 THEN "restore" ELSE "return"
           state == [a EXCEPT !.at = at, !.out = "ok"]
<1>3. a.at = "build" /\ Reads /\ usage' = usage /\ Becoming(u, state) /\ AskOrder(a) = <<>>
  BY <1>1 DEF Builds, AsksAt, Order, AskOrder
<1>4. /\ a.built \in Seq(RequestsOf(a, known)) /\ a.built = <<>> /\ a.got = <<>> /\ a.op \in Embeds
      /\ a.saved \in Nat /\ Len(<<>>) = 0
  BY <1>2, <1>3 DEF AskOK, AskShape, AskPlace, AskCourse
<1>5. /\ IsAsk(state) /\ SameAsk(state, a) /\ state.saved = a.saved /\ state.at = at /\ state.out = "ok"
  BY <1>2 DEF AskOK, AskShape, IsAsk, SameAsk
<1>6. at \in {"restore", "return"} /\ (a.saved > 0 <=> at = "restore")
  OBVIOUS
<1> HIDE DEF state, at
<1>7. AskPlace(state, known)
  BY <1>2, <1>3, <1>4, <1>5, <1>6 DEF AskOK, AskPlace, SameAsk
<1>8. AskOK(state, e.kind, known) /\ \A o : AsAsked(a, o) => AsAsked(state, o)
  BY <1>2, <1>3, <1>4, <1>5, <1>6, <1>7, AskGoesOn DEF SameAsk
<1>9. Tally(a, state) /\ (Lends(state) <=> Lends(a))
  BY <1>3, <1>4, <1>5, <1>6 DEF Tally, Counted, Lends, SameAsk
<1>10. Undisturbed => AsAsked(a, e)
  BY <1>1 DEF Undisturbed
<1> QED
  BY <1>1, <1>3, <1>5, <1>6, <1>8, <1>9, <1>10, ReadsOn DEF SameAsk

\* What is built next, one request or all of them.
LEMMA BuildsMore ==
  ASSUME EmbedInv, NEW u \in User, NEW built, NEW at, Reads, lengths' = lengths, asked' = asked,
         asks[u].at = "build", at \in {"build", "send"},
         Becoming(u, [asks[u] EXCEPT !.built = built, !.at = at]),
         usage' = IF asks[u].built = <<>> THEN [usage EXCEPT !.total = @ + 1] ELSE usage,
         built \in Seq(RequestsOf(asks[u], lengths)), built # <<>>, Len(built) <= Len(AskOrder(asks[u])),
         \A k \in DOMAIN built : built[k].of = AskOrder(asks[u])[k],
         emb.kind = "openai" => at = "send" /\
           \A j, k \in DOMAIN built : built[j].dims = built[k].dims /\ built[j].model = built[k].model,
         IF at = "send" THEN Len(built) = Len(AskOrder(asks[u])) ELSE Len(built) < Len(AskOrder(asks[u])),
         ~clash /\ Undisturbed =>
           \A k \in DOMAIN built : built[k].model = emb.model /\ built[k].dims = LengthAsked(asks[u], emb)
  PROVE  EmbedInv'
<1>1. PICK a, e, known : a = asks[u] /\ e = emb /\ known = lengths
  OBVIOUS
<1>2. AskOK(a, e.kind, known)
  BY <1>1 DEF EmbedInv
<1> DEFINE state == [a EXCEPT !.built = built, !.at = at]
<1>3. /\ IsAsk(state) /\ state.op = a.op /\ state.at = at /\ state.texts = a.texts
      /\ state.dims = a.dims /\ state.model = a.model /\ state.saved = a.saved
      /\ state.built = built /\ state.got = a.got /\ state.out = a.out
  BY <1>2 DEF AskOK, AskShape, IsAsk
<1>4. Becoming(u, state)
  BY <1>1
<1> HIDE DEF state
<1>5. /\ AskOrder(state) = AskOrder(a)
      /\ RequestsOf(state, known) = RequestsOf(a, known) /\ VectorsOf(state, known) = VectorsOf(a, known)
  BY <1>3, SameOrder
<1>6. /\ a.op \in Embeds /\ a.out = "none" /\ a.got = <<>> /\ a.saved \in Nat
      /\ Len(<<>>) = 0 /\ DOMAIN <<>> = {} /\ Len(built) \in Nat /\ Len(built) > 0
  BY <1>1, <1>2 DEF AskOK, AskShape, AskPlace, AskCourse
<1>7. AskShape(state, known)
  BY <1>1, <1>2, <1>3, <1>5 DEF AskOK, AskShape
<1>8. AskPlace(state, known)
  BY <1>1, <1>2, <1>3, <1>6 DEF AskOK, AskPlace
<1>9. AskCourse(state, e.kind)
  BY <1>1, <1>3, <1>5, <1>6 DEF AskCourse
<1>10. AskOK(state, e.kind, known)
  BY <1>7, <1>8, <1>9 DEF AskOK
<1>11. Tally(a, state)
  BY <1>1, <1>3, <1>6 DEF Tally, Counted
<1>12. Lends(state) <=> Lends(a)
  BY <1>1, <1>3 DEF Lends
<1>13. ~clash /\ Undisturbed => AsAsked(state, e)
  <2>1. LengthAsked(state, e) = LengthAsked(a, e)
    BY <1>3 DEF LengthAsked, WantOf
  <2> QED
    BY <1>1, <1>3, <1>6, <2>1 DEF AsAsked
<1> QED
  BY <1>1, <1>3, <1>4, <1>10, <1>11, <1>12, <1>13, ReadsOn

LEMMA BuildsInv ==
  ASSUME EmbedInv, NEW u \in User, Builds(u), lengths' = lengths, asked' = asked
  PROVE  EmbedInv'
<1>1. PICK a, e, known, order : a = asks[u] /\ e = emb /\ known = lengths /\ order = AskOrder(a)
  OBVIOUS
<1>2. AskOK(a, e.kind, known) /\ ObjectOK(e, known) /\ known \subseteq Nat
  BY <1>1 DEF EmbedInv
<1>3. Order(u) = order /\ a.at = "build" /\ Reads
  BY <1>1 DEF Order, AskOrder, Builds, AsksAt
<1>4. order \in Seq(TextsOf(a))
  BY <1>1, <1>2, OrderIsSequence DEF AskOK, AskShape
<1>5. /\ a.built \in Seq(RequestsOf(a, known)) /\ a.op \in Embeds /\ a.saved \in Nat /\ a.dims \in Nat
      /\ a.dims > 0 => a.saved > 0
  BY <1>2, <1>3 DEF AskOK, AskShape, AskPlace
<1>6. e.model \in EmbedModel /\ e.dims \in known \ {0} /\ e.dims \in Nat /\ Native(e.model) \in known
  BY <1>2 DEF ObjectOK
\* The length the object has is the one that is wanted.
<1>7. Undisturbed => WantOf(a, e) = e.dims
  <2>1. a.dims > 0 => Lends(a)
    BY <1>3, <1>5 DEF Lends
  <2> QED
    BY <1>1, <2>1 DEF Undisturbed, WantOf
<1>8. CASE order = <<>>
  BY <1>3, <1>8, BuildsNothing
<1>9. CASE order # <<>>
  <2>1. /\ BuildsOne(u) \/ BuildsEach(u)
        /\ usage' = IF a.built = <<>> THEN [usage EXCEPT !.total = @ + 1] ELSE usage
    BY <1>1, <1>3, <1>9 DEF Builds
  <2>2. CASE BuildsOne(u)
    <3> DEFINE dims == IF e.model \in Resizable("openai") THEN e.dims ELSE 0
               built == [k \in DOMAIN order |-> [of |-> order[k], model |-> e.model, dims |-> dims]]
    <3>1. e.kind = "openai" /\ Becoming(u, [a EXCEPT !.built = built, !.at = "send"])
      <4>1. OpenAILength = dims
        BY <1>1 DEF OpenAILength
      <4>2. emb.kind = "openai" /\ Becoming(u, [a EXCEPT !.at = "send", !.built = built])
        BY <1>1, <1>3, <2>2, <4>1 DEF BuildsOne
      <4>3. [a EXCEPT !.at = "send", !.built = built] = [a EXCEPT !.built = built, !.at = "send"]
        BY <1>2 DEF AskOK, AskShape, IsAsk
      <4> QED
        BY <1>1, <4>2, <4>3
    <3>2. dims \in known \cup {0} /\ dims \in Nat
      BY <1>6
    <3>3. Undisturbed => dims = LengthAsked(a, e)
      BY <1>7, <3>1 DEF LengthAsked
    <3> HIDE DEF dims
    <3>4. \A k \in DOMAIN order : order[k] \in TextsOf(a)
      BY <1>1 DEF TextsOf
    <3>5. \A k \in DOMAIN order : [of |-> order[k], model |-> e.model, dims |-> dims] \in RequestsOf(a, known)
      BY <1>6, <3>2, <3>4 DEF RequestsOf
    <3>6. DOMAIN order = 1..Len(order) /\ Len(order) \in Nat /\ Len(order) > 0
      BY <1>4, <1>9
    <3>7. built \in Seq(RequestsOf(a, known)) /\ Len(built) = Len(order)
      BY <3>5, <3>6
    <3>8. /\ DOMAIN built = DOMAIN order
          /\ \A k \in DOMAIN built : built[k].of = order[k] /\ built[k].model = e.model /\ built[k].dims = dims
      OBVIOUS
    <3>9. built # <<>>
      BY <3>6, <3>7
    <3> HIDE DEF built
    <3>10. PICK at : at = "send"
      OBVIOUS
    <3>11. \A j, k \in DOMAIN built : built[j].dims = built[k].dims /\ built[j].model = built[k].model
      BY <3>8
    <3>12. Becoming(u, [a EXCEPT !.built = built, !.at = at])
      BY <3>1, <3>10
    <3>13. ~clash /\ Undisturbed =>
             \A k \in DOMAIN built : built[k].model = e.model /\ built[k].dims = LengthAsked(a, e)
      BY <3>3, <3>8
    <3>14. Len(built) <= Len(order) /\ IF at = "send" THEN Len(built) = Len(order) ELSE Len(built) < Len(order)
      BY <3>6, <3>7, <3>10
    <3>15. at \in {"build", "send"} /\ \A k \in DOMAIN built : built[k].of = order[k]
      BY <3>8, <3>10
    <3>16. PICK all : all = built
      OBVIOUS
    <3>17. /\ asks[u].at = "build" /\ at \in {"build", "send"} /\ Reads
           /\ Becoming(u, [asks[u] EXCEPT !.built = all, !.at = at])
           /\ usage' = IF asks[u].built = <<>> THEN [usage EXCEPT !.total = @ + 1] ELSE usage
           /\ all \in Seq(RequestsOf(asks[u], lengths)) /\ all # <<>> /\ Len(all) <= Len(AskOrder(asks[u]))
           /\ \A k \in DOMAIN all : all[k].of = AskOrder(asks[u])[k]
      BY <1>1, <1>3, <2>1, <3>7, <3>9, <3>12, <3>14, <3>15, <3>16
    <3>18. /\ emb.kind = "openai" =>
                at = "send" /\ \A j, k \in DOMAIN all : all[j].dims = all[k].dims /\ all[j].model = all[k].model
           /\ IF at = "send" THEN Len(all) = Len(AskOrder(asks[u])) ELSE Len(all) < Len(AskOrder(asks[u]))
           /\ ~clash /\ Undisturbed =>
                \A k \in DOMAIN all : all[k].model = emb.model /\ all[k].dims = LengthAsked(asks[u], emb)
      BY <1>1, <3>10, <3>11, <3>13, <3>14, <3>16
    <3> QED
      BY <3>17, <3>18, BuildsMore
  <2>3. CASE BuildsEach(u)
    <3>1. PICK dims : dims = GeminiLength(a.op)
      OBVIOUS
    <3>2. dims \in known \cup {0} /\ dims \in Nat
      BY <1>1, <1>6, <3>1 DEF GeminiLength
    <3>3. PICK n : n = Len(a.built) + 1
      OBVIOUS
    <3> DEFINE request == [of |-> order[n], model |-> e.model, dims |-> dims]
               built == Append(a.built, request)
               at == IF Len(built) = Len(order) THEN "send" ELSE "build"
    <3>4. e.kind = "gemini" /\ Becoming(u, [a EXCEPT !.built = built, !.at = at])
      BY <1>1, <1>3, <2>3, <3>1, <3>3 DEF BuildsEach
    <3>5. Undisturbed => dims = LengthAsked(a, e)
      BY <1>1, <1>7, <3>1, <3>4 DEF LengthAsked, GeminiLength
    <3>6. /\ Len(a.built) \in Nat /\ Len(order) \in Nat /\ Len(a.built) < Len(order)
          /\ \A k \in DOMAIN a.built : a.built[k].of = order[k]
      <4>1. Len(<<>>) = 0
        OBVIOUS
      <4> QED
        BY <1>1, <1>2, <1>3, <1>4, <1>5, <1>9, <4>1 DEF AskOK, AskCourse
    <3>7. n \in DOMAIN order
      BY <1>4, <3>3, <3>6
    <3>8. request \in RequestsOf(a, known)
      BY <1>1, <1>6, <3>2, <3>7 DEF RequestsOf, TextsOf
    <3>9. /\ request.of = order[n] /\ request.model = e.model /\ request.dims = dims
      OBVIOUS
    <3> HIDE DEF request
    <3>10. /\ built \in Seq(RequestsOf(a, known)) /\ Len(built) = n /\ built[n] = request
           /\ \A k \in 1..Len(a.built) : built[k] = a.built[k]
      BY <1>5, <3>3, <3>8, AppendProperties
    <3> HIDE DEF built
    <3>11. DOMAIN built = 1..n /\ DOMAIN a.built = 1..Len(a.built)
      BY <1>5, <3>10
    <3>12. \A k \in DOMAIN built : k = n \/ k \in DOMAIN a.built
      BY <3>3, <3>6, <3>11
    <3>13. \A k \in DOMAIN built : built[k].of = order[k]
      BY <3>6, <3>9, <3>10, <3>11, <3>12
    <3>14. ~clash /\ Undisturbed =>
             \A k \in DOMAIN built : built[k].model = e.model /\ built[k].dims = LengthAsked(a, e)
      <4>1. Undisturbed => \A k \in DOMAIN a.built : a.built[k].model = e.model /\ a.built[k].dims = LengthAsked(a, e)
        BY <1>1 DEF Undisturbed, AsAsked
      <4> QED
        BY <3>5, <3>9, <3>10, <3>11, <3>12, <4>1
    <3>15. built # <<>> /\ Len(built) <= Len(order)
      <4>1. Len(<<>>) = 0
        OBVIOUS
      <4> QED
        BY <3>3, <3>6, <3>10, <4>1
    <3>16. IF at = "send" THEN Len(built) = Len(order) ELSE Len(built) < Len(order)
      BY <3>3, <3>6, <3>10
    <3>17. at \in {"build", "send"}
      OBVIOUS
    <3> HIDE DEF at
    <3> QED
      BY <1>1, <1>3, <2>1, <3>4, <3>10, <3>13, <3>14, <3>15, <3>16, <3>17, BuildsMore
  <2> QED
    BY <2>1, <2>2, <2>3
<1> QED
  BY <1>8, <1>9

\* The vectors a call has got of those it asked for.
Got(got, a, e, known) ==
  /\ got \in Seq(VectorsOf(a, known)) /\ Len(got) <= Len(a.built)
  /\ \A k \in DOMAIN got : got[k].of = AskOrder(a)[k]
  /\ e.kind = "openai" => \A j, k \in DOMAIN got : got[j].dims = got[k].dims /\ got[j].model = got[k].model
GotFits(got, a, e) ==
  \A k \in DOMAIN got : got[k].dims = IF LengthAsked(a, e) = 0 THEN Native(e.model) ELSE LengthAsked(a, e)
\* The same call with other vectors.
AnsweredAsk(b, a, got) ==
  /\ IsAsk(b) /\ b.op = a.op /\ b.at = a.at /\ b.texts = a.texts /\ b.dims = a.dims /\ b.model = a.model
  /\ b.saved = a.saved /\ b.built = a.built /\ b.got = got /\ b.out = a.out

LEMMA SendsAt ==
  ASSUME EmbedInv, NEW u \in User, asks[u].at = "send"
  PROVE  /\ Got(asks[u].got, asks[u], emb, lengths) /\ AnsweredAsk(asks[u], asks[u], asks[u].got)
         /\ ~clash => Undisturbed /\ GotFits(asks[u].got, asks[u], emb)
<1>1. PICK a, e, known : a = asks[u] /\ e = emb /\ known = lengths
  OBVIOUS
<1>2. AskOK(a, e.kind, known)
  BY <1>1 DEF EmbedInv
<1>3. Got(a.got, a, e, known)
  BY <1>2 DEF Got, AskOK, AskShape, AskCourse
<1>4. AnsweredAsk(a, a, a.got)
  BY <1>2 DEF AnsweredAsk, AskOK, AskShape
<1>5. ~clash => Undisturbed /\ GotFits(a.got, a, e)
  BY <1>1 DEF EmbedInv, Undisturbed, AsAsked, GotFits
<1> QED
  BY <1>1, <1>3, <1>4, <1>5

LEMMA SettlesOn ==
  ASSUME EmbedInv, NEW u \in User, NEW b, NEW got, NEW out \in {"failed", "short", "ok"},
         asks[u].at = "send", Reads, lengths' = lengths, asked' = asked, Settles(u, b, out),
         AnsweredAsk(b, asks[u], got), Got(got, asks[u], emb, lengths),
         out = "ok" => Len(got) = Len(asks[u].built),
         ~clash => GotFits(got, asks[u], emb)
  PROVE  EmbedInv'
<1>1. PICK a, e, known : a = asks[u] /\ e = emb /\ known = lengths
  OBVIOUS
<1>2. AskOK(a, e.kind, known)
  BY <1>1 DEF EmbedInv
<1> DEFINE at == IF b.saved > 0 THEN "restore" ELSE "return"
           state == [b EXCEPT !.at = at, !.out = out]
<1>3. Becoming(u, state)
  BY DEF Settles
<1>4. /\ IsAsk(state) /\ state.op = a.op /\ state.at = at /\ state.texts = a.texts
      /\ state.dims = a.dims /\ state.model = a.model /\ state.saved = a.saved
      /\ state.built = a.built /\ state.got = got /\ state.out = out
  BY <1>1 DEF AnsweredAsk, IsAsk
<1>5. at \in {"restore", "return"} /\ (at = "restore" <=> a.saved > 0)
  BY <1>1 DEF AnsweredAsk
<1> HIDE DEF state, at
<1>6. /\ AskOrder(state) = AskOrder(a)
      /\ RequestsOf(state, known) = RequestsOf(a, known) /\ VectorsOf(state, known) = VectorsOf(a, known)
  BY <1>4, SameOrder
<1>7. /\ a.at = "send" /\ a.op \in Embeds /\ a.out = "none" /\ a.saved \in Nat
      /\ Len(a.built) = Len(AskOrder(a)) /\ a.built # <<>>
  <2>1. Len(<<>>) = 0 /\ Len(a.got) \in Nat /\ Len(a.got) < Len(a.built)
    BY <1>1, <1>2 DEF AskOK, AskShape, AskCourse
  <2> QED
    BY <1>1, <1>2, <2>1 DEF AskOK, AskShape, AskPlace, AskCourse
<1>8. AskShape(state, known)
  BY <1>1, <1>2, <1>4, <1>6 DEF AskOK, AskShape, Got
<1>9. AskPlace(state, known)
  BY <1>2, <1>4, <1>5, <1>7 DEF AskOK, AskPlace
<1>10. AskCourse(state, e.kind)
  BY <1>1, <1>2, <1>4, <1>5, <1>6, <1>7 DEF AskOK, AskCourse, Got
<1>11. AskOK(state, e.kind, known)
  BY <1>8, <1>9, <1>10 DEF AskOK
<1>12. Tally(a, state)
  <2>1. Counted(a) /\ ~Counted(state)
    BY <1>4, <1>7 DEF Counted
  <2> QED
    BY <2>1 DEF Tally, Settles
<1>13. Lends(state) <=> Lends(a)
  BY <1>4, <1>5, <1>7 DEF Lends
<1>14. ~clash /\ Undisturbed => AsAsked(state, e)
  <2>1. LengthAsked(state, e) = LengthAsked(a, e)
    BY <1>4 DEF LengthAsked, WantOf
  <2>2. Undisturbed => AsAsked(a, e)
    BY <1>1 DEF Undisturbed
  <2> QED
    BY <1>1, <1>4, <2>1, <2>2 DEF AsAsked, GotFits
<1>15. state.at # "length"
  BY <1>4, <1>5
<1> QED
  BY <1>1, <1>3, <1>4, <1>7, <1>11, <1>12, <1>13, <1>14, <1>15, ReadsOn

LEMMA SendsOneInv ==
  ASSUME EmbedInv, NEW u \in User, SendsOne(u), lengths' = lengths, asked' = asked
  PROVE  EmbedInv'
<1>1. PICK a, e, known : a = asks[u] /\ e = emb /\ known = lengths
  OBVIOUS
<1>2. AskOK(a, e.kind, known) /\ known \subseteq Nat /\ (~clash => Undisturbed)
  BY <1>1 DEF EmbedInv
<1>3. a.at = "send" /\ e.kind = "openai" /\ Reads
  BY <1>1 DEF SendsOne, AsksAt
<1>4. /\ Got(a.got, a, e, known) /\ AnsweredAsk(a, a, a.got) /\ (~clash => GotFits(a.got, a, e))
  BY <1>1, <1>3, SendsAt
<1>5. CASE Settles(u, a, "failed")
  <2>1. PICK out \in {"failed", "short", "ok"} : out = "failed"
    OBVIOUS
  <2> QED
    BY <1>1, <1>3, <1>4, <1>5, <2>1, SettlesOn
<1>6. CASE Settles(u, a, "short")
  <2>1. PICK out \in {"failed", "short", "ok"} : out = "short"
    OBVIOUS
  <2> QED
    BY <1>1, <1>3, <1>4, <1>6, <2>1, SettlesOn
<1> DEFINE got == [k \in DOMAIN a.built |-> Vector(a.built[k], a.built[k].model)]
           b == [a EXCEPT !.got = got]
<1>7. CASE Settles(u, b, "ok")
  <2>1. PICK out \in {"failed", "short", "ok"} : out = "ok"
    OBVIOUS
  <2>2. AnsweredAsk(b, a, got)
    BY <1>2 DEF AnsweredAsk, AskOK, AskShape, IsAsk
  <2> HIDE DEF b
  <2>3. /\ a.built \in Seq(RequestsOf(a, known)) /\ Len(a.built) = Len(AskOrder(a))
        /\ \A k \in DOMAIN a.built : a.built[k].of = AskOrder(a)[k]
        /\ \A j, k \in DOMAIN a.built : a.built[j].dims = a.built[k].dims /\ a.built[j].model = a.built[k].model
    BY <1>2, <1>3 DEF AskOK, AskShape, AskCourse
  <2>4. \A k \in DOMAIN a.built : a.built[k] \in RequestsOf(a, known)
    BY <2>3
  <2>5. \A k \in DOMAIN a.built :
          /\ got[k] = Vector(a.built[k], a.built[k].model)
          /\ got[k].of = a.built[k].of /\ got[k].model = a.built[k].model
          /\ got[k].dims = IF a.built[k].dims = 0 THEN Native(a.built[k].model) ELSE a.built[k].dims
    BY DEF Vector
  <2>6. \A k \in DOMAIN a.built : got[k] \in VectorsOf(a, known)
    BY <1>2, <2>4, NativeType DEF Vector, RequestsOf, VectorsOf
  <2>7. DOMAIN a.built = 1..Len(a.built) /\ Len(a.built) \in Nat
    BY <2>3
  <2>8. got \in Seq(VectorsOf(a, known)) /\ Len(got) = Len(a.built) /\ DOMAIN got = DOMAIN a.built
    <3>1. got = [k \in 1..Len(a.built) |-> got[k]]
      BY <2>7
    <3>2. PICK n \in Nat : n = Len(a.built)
      BY <2>7
    <3> HIDE DEF got
    <3>3. got \in [1..n -> VectorsOf(a, known)]
      BY <2>6, <2>7, <3>1, <3>2
    <3> QED
      BY <2>7, <3>2, <3>3
  <2>9. Got(got, a, e, known)
    <3> HIDE DEF got
    <3> QED
      BY <2>3, <2>5, <2>7, <2>8 DEF Got
  <2>10. ~clash => GotFits(got, a, e)
    <3>1. ~clash => AsAsked(a, e)
      BY <1>1, <1>2 DEF Undisturbed
    <3> HIDE DEF got
    <3> QED
      BY <2>5, <2>8, <3>1 DEF AsAsked, GotFits
  <2>11. PICK all : all = got
    OBVIOUS
  <2> HIDE DEF got
  <2> QED
    BY <1>1, <1>3, <1>7, <2>1, <2>2, <2>8, <2>9, <2>10, <2>11, SettlesOn
<1> QED
  BY <1>1, <1>5, <1>6, <1>7 DEF SendsOne

LEMMA SendsEachInv ==
  ASSUME EmbedInv, NEW u \in User, SendsEach(u), lengths' = lengths, asked' = asked
  PROVE  EmbedInv'
<1>1. PICK a, e, known, k : a = asks[u] /\ e = emb /\ known = lengths /\ k = Len(a.got) + 1
  OBVIOUS
<1>2. AskOK(a, e.kind, known) /\ ObjectOK(e, known) /\ known \subseteq Nat /\ (~clash => Undisturbed)
  BY <1>1 DEF EmbedInv
<1>3. a.at = "send" /\ e.kind = "gemini" /\ Reads
  BY <1>1 DEF SendsEach, AsksAt
<1>4. /\ Got(a.got, a, e, known) /\ AnsweredAsk(a, a, a.got) /\ (~clash => GotFits(a.got, a, e))
  BY <1>1, <1>3, SendsAt
<1> DEFINE vector == Vector(a.built[k], e.model)
           got == Append(a.got, vector)
           b == [a EXCEPT !.got = got]
<1>5. CASE Settles(u, a, "failed")
  <2>1. PICK out \in {"failed", "short", "ok"} : out = "failed"
    OBVIOUS
  <2> QED
    BY <1>1, <1>3, <1>4, <1>5, <2>1, SettlesOn
<1>6. /\ a.built \in Seq(RequestsOf(a, known)) /\ a.got \in Seq(VectorsOf(a, known))
      /\ Len(a.got) \in Nat /\ Len(a.built) \in Nat /\ Len(a.got) < Len(a.built)
      /\ Len(a.built) = Len(AskOrder(a)) /\ a.op \in Embeds /\ a.out = "none"
      /\ \A n \in DOMAIN a.built : a.built[n].of = AskOrder(a)[n]
      /\ \A n \in DOMAIN a.got : a.got[n].of = AskOrder(a)[n]
  BY <1>2, <1>3 DEF AskOK, AskShape, AskPlace, AskCourse
<1>7. k \in DOMAIN a.built /\ a.built[k] \in RequestsOf(a, known)
  BY <1>1, <1>6
<1>8. e.model \in EmbedModel /\ Native(e.model) \in known /\ Native(e.model) \in Nat
  BY <1>2, NativeType DEF ObjectOK
<1>9. /\ vector.of = AskOrder(a)[k] /\ vector.model = e.model
      /\ vector.dims = (IF a.built[k].dims = 0 THEN Native(e.model) ELSE a.built[k].dims)
  BY <1>6, <1>7 DEF Vector
<1>10. vector \in VectorsOf(a, known)
  BY <1>7, <1>8 DEF Vector, RequestsOf, VectorsOf
<1>11. AnsweredAsk(b, a, got)
  BY <1>2 DEF AnsweredAsk, AskOK, AskShape, IsAsk
<1> HIDE DEF vector, b
<1>12. /\ got \in Seq(VectorsOf(a, known)) /\ Len(got) = k /\ got[k] = vector
       /\ \A n \in 1..Len(a.got) : got[n] = a.got[n]
  BY <1>1, <1>6, <1>10, AppendProperties
<1> HIDE DEF got
<1>13. \A n \in DOMAIN got : n = k \/ n \in DOMAIN a.got
  BY <1>1, <1>6, <1>12
<1>14. DOMAIN a.got = 1..Len(a.got)
  BY <1>6
<1>15. \A n \in DOMAIN got : got[n].of = AskOrder(a)[n]
  BY <1>6, <1>9, <1>12, <1>13, <1>14
<1>16. Got(got, a, e, known)
  BY <1>1, <1>3, <1>6, <1>12, <1>15 DEF Got
<1>17. ~clash => GotFits(got, a, e)
  <2>1. ~clash => GotFits(a.got, a, e) /\ AsAsked(a, e)
    BY <1>1, <1>2 DEF Undisturbed, AsAsked, GotFits
  <2> QED
    BY <1>7, <1>9, <1>12, <1>13, <1>14, <2>1 DEF AsAsked, GotFits
<1>18. PICK all : all = got
  OBVIOUS
<1>19. CASE k = Len(a.built) /\ Settles(u, b, "ok")
  <2>1. PICK out \in {"failed", "short", "ok"} : out = "ok"
    OBVIOUS
  <2> QED
    BY <1>1, <1>3, <1>11, <1>12, <1>16, <1>17, <1>18, <1>19, <2>1, SettlesOn
<1>20. CASE k # Len(a.built) /\ Becoming(u, b) /\ usage' = usage
  <2>1. /\ IsAsk(b) /\ b.op = a.op /\ b.at = "send" /\ b.texts = a.texts /\ b.dims = a.dims /\ b.model = a.model
        /\ b.saved = a.saved /\ b.built = a.built /\ b.got = got /\ b.out = a.out
    BY <1>3, <1>11 DEF AnsweredAsk
  <2>2. /\ AskOrder(b) = AskOrder(a)
        /\ RequestsOf(b, known) = RequestsOf(a, known) /\ VectorsOf(b, known) = VectorsOf(a, known)
    BY <2>1, SameOrder
  <2>3. AskShape(b, known)
    BY <1>2, <1>12, <2>1, <2>2 DEF AskOK, AskShape
  <2>4. AskPlace(b, known)
    BY <1>2, <1>3, <1>6, <2>1 DEF AskOK, AskPlace
  <2>5. AskCourse(b, e.kind)
    BY <1>1, <1>3, <1>6, <1>12, <1>15, <1>20, <2>1, <2>2 DEF AskCourse
  <2>6. AskOK(b, e.kind, known)
    BY <2>3, <2>4, <2>5 DEF AskOK
  <2>7. Tally(a, b) /\ (Lends(b) <=> Lends(a))
    BY <1>3, <1>20, <2>1 DEF Tally, Counted, Lends
  <2>8. ~clash /\ Undisturbed => AsAsked(b, e)
    <3>1. LengthAsked(b, e) = LengthAsked(a, e)
      BY <2>1 DEF LengthAsked, WantOf
    <3>2. Undisturbed => AsAsked(a, e)
      BY <1>1 DEF Undisturbed
    <3> QED
      BY <1>17, <2>1, <3>1, <3>2 DEF AsAsked, GotFits
  <2> QED
    BY <1>1, <1>3, <1>20, <2>1, <2>6, <2>7, <2>8, ReadsOn
<1>21. \/ Settles(u, a, "failed")
       \/ IF k = Len(a.built) THEN Settles(u, b, "ok") ELSE Becoming(u, b) /\ usage' = usage
  <2>1. [a EXCEPT !.got = Append(@, vector)] = b
    BY <1>2 DEF b, got, AskOK, AskShape, IsAsk
  <2> QED
    BY <1>1, <2>1 DEF SendsEach, vector
<1> QED
  BY <1>5, <1>19, <1>20, <1>21

LEMMA StepEmbed ==
  ASSUME EmbedInv, [EmbedNext]_embedVars
  PROVE  EmbedInv'
<1>1. CASE UNCHANGED embedVars
  BY <1>1 DEF embedVars, EmbedInv, UsageOK, Undisturbed
<1>2. CASE EmbedNext
  BY <1>2, EmbedBeginsInv, EmbedReturnsInv, SavesLengthInv, WritesLengthInv, BuildsInv, SendsOneInv, SendsEachInv,
     RestoresLengthInv, SetsModelInv, ConfiguresInv, ChecksLengthInv, ResizesInv DEF EmbedNext, EmbedStep
<1> QED
  BY <1>1, <1>2

LEMMA OwnLengths == EmbedInv => LengthsAsAsked
<1> SUFFICES ASSUME EmbedInv, ~clash
             PROVE  /\ (\A u \in User : asks[u].at \in {"idle", "return"}) => emb.config.dims \in {0, emb.dims}
                    /\ \A u \in User : asks[u].out = "ok" /\ asks[u].op \in Embeds =>
                         LET want == IF asks[u].dims > 0 THEN asks[u].dims ELSE IF emb.config.dims > 0 THEN emb.config.dims ELSE emb.dims
                         IN  \A k \in DOMAIN asks[u].got :
                               asks[u].got[k].dims = IF IF emb.kind = "openai" THEN emb.model \notin Resizable("openai")
                                                                               ELSE asks[u].op # "embed" /\ want = 768
                                                     THEN Native(emb.model) ELSE want
  BY DEF LengthsAsAsked
<1>1. Undisturbed
  BY DEF EmbedInv
<1>2. ASSUME \A u \in User : asks[u].at \in {"idle", "return"} PROVE emb.config.dims \in {0, emb.dims}
  BY <1>1, <1>2 DEF Undisturbed, Lends
<1>3. ASSUME NEW u \in User, asks[u].out = "ok", asks[u].op \in Embeds, NEW k \in DOMAIN asks[u].got
      PROVE  LET want == IF asks[u].dims > 0 THEN asks[u].dims ELSE IF emb.config.dims > 0 THEN emb.config.dims ELSE emb.dims
             IN  asks[u].got[k].dims = IF IF emb.kind = "openai" THEN emb.model \notin Resizable("openai")
                                                                 ELSE asks[u].op # "embed" /\ want = 768
                                       THEN Native(emb.model) ELSE want
  <2>1. PICK a, e : a = asks[u] /\ e = emb
    OBVIOUS
  <2>2. AskOK(a, e.kind, lengths) /\ ObjectOK(e, lengths) /\ lengths \subseteq Nat /\ AsAsked(a, e)
    BY <1>1, <2>1 DEF EmbedInv, Undisturbed
  <2>3. a.at \in {"restore", "return"} /\ a.dims \in Nat /\ a.saved \in Nat /\ a.at # "idle"
        /\ (a.at = "restore" => a.saved > 0) /\ (a.saved > 0 => a.dims > 0)
    BY <1>3, <2>1, <2>2 DEF AskOK, AskShape, AskPlace
  <2>4. e.dims \in Nat /\ e.dims > 0 /\ e.config.dims \in Nat
    BY <2>2 DEF ObjectOK
  <2>5. a.dims = 0 => e.config.dims \in {0, e.dims}
    <3>1. ASSUME a.dims = 0, NEW v \in User PROVE ~Lends(asks[v])
      BY <1>1, <2>1, <2>3, <3>1 DEF Undisturbed, Lends
    <3> QED
      BY <1>1, <2>1, <3>1 DEF Undisturbed
  <2>6. WantOf(a, e) = IF a.dims > 0 THEN a.dims ELSE IF e.config.dims > 0 THEN e.config.dims ELSE e.dims
    BY <2>3, <2>4, <2>5 DEF WantOf
  <2>7. WantOf(a, e) > 0 /\ WantOf(a, e) \in Nat
    BY <2>3, <2>4 DEF WantOf
  <2>8. a.got[k].dims = IF LengthAsked(a, e) = 0 THEN Native(e.model) ELSE LengthAsked(a, e)
    BY <1>3, <2>1, <2>2 DEF AsAsked
  <2> QED
    BY <2>1, <2>6, <2>7, <2>8 DEF LengthAsked
<1> QED
  BY <1>2, <1>3

LEMMA OwnEmbeddings == EmbedInv => OwnVectors /\ CountsAddUp
<1>1. ASSUME EmbedInv PROVE CountsAddUp
  <2>1. {u \in User : asks[u].op \in Embeds /\ asks[u].built # <<>> /\ asks[u].out = "none"}
          = {u \in User : Counted(asks[u])}
    BY DEF Counted
  <2> QED
    BY <1>1, <2>1 DEF CountsAddUp, EmbedInv, UsageOK
<1>2. ASSUME EmbedInv, NEW u \in User
      PROVE  /\ asks[u].out = "ok" /\ asks[u].op \in Embeds =>
                  [k \in DOMAIN asks[u].got |-> asks[u].got[k].of] = Order(u)
             /\ emb.kind = "openai" => \A j, k \in DOMAIN asks[u].got :
                  asks[u].got[j].dims = asks[u].got[k].dims /\ asks[u].got[j].model = asks[u].got[k].model
             /\ \A k \in DOMAIN asks[u].got : asks[u].got[k].dims \in lengths
  <2>1. PICK a, kind, known, order : a = asks[u] /\ kind = emb.kind /\ known = lengths /\ order = AskOrder(a)
    OBVIOUS
  <2>2. AskOK(a, kind, known)
    BY <1>2, <2>1 DEF EmbedInv
  <2>3. a.got \in Seq(VectorsOf(a, known)) /\ order \in Seq(TextsOf(a))
    BY <2>1, <2>2, OrderIsSequence DEF AskOK, AskShape
  <2>4. ASSUME a.out = "ok", a.op \in Embeds PROVE [k \in DOMAIN a.got |-> a.got[k].of] = order
    <3>1. Len(a.got) = Len(order) /\ \A k \in DOMAIN a.got : a.got[k].of = order[k]
      BY <2>1, <2>2, <2>4 DEF AskOK, AskCourse
    <3>2. DOMAIN a.got = DOMAIN order /\ order = [k \in DOMAIN order |-> order[k]]
      BY <2>3, <3>1
    <3> QED
      BY <3>1, <3>2
  <2>5. Order(u) = order
    BY <2>1 DEF Order, AskOrder
  <2>6. \A k \in DOMAIN a.got : a.got[k].dims \in known
    BY <2>3 DEF VectorsOf
  <2> QED
    BY <2>1, <2>2, <2>4, <2>5, <2>6 DEF AskOK, AskCourse
<1> QED
  BY <1>1, <1>2 DEF OwnVectors
=============================================================================
