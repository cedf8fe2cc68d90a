----------------------------- MODULE SharedRows -----------------------------
(***************************************************************************)
(* Clients of one relational store that add and cognify (Add followed by a *)
(* Cognify that waits: the commands "add" and "cognify --id", the tool of  *)
(* the MCP server), each a process or a request of its own.  Add looks for *)
(* the same content and stores a row in separate calls, so an input may be *)
(* stored twice; and an Add that finds a row hands it to Cognify again, so *)
(* an input may be split by two clients at a time, each with its own copy  *)
(* of the row.                                                             *)
(*                                                                         *)
(* A content is <<name, 0>>, its chunks are <<name, 1>> and so on, but for *)
(* a text of one chunk, whose chunk has the same content.  An input is     *)
(* <<n, 0>>, its chunks are <<n, 1>> and so on.  Rows are never deleted    *)
(* here and no call fails: MemoryEngine and CognifyPipeline do that.       *)
(***************************************************************************)
EXTENDS Naturals, Sequences, FiniteSets

CONSTANTS
  Clients,
  RowPlans,   \* what the clients are to do: client -> sequence of Offer or ById
  ById,       \* the command cognify --id
  PartsOf,    \* name of a text -> how many chunks it has
  NoRow

\* What Add is called with: the whole of a text, its session and its tier.
RowOffer == [content : {<<n, 0>> : n \in DOMAIN PartsOf}, session : STRING, tier : STRING]

ASSUME RowsAssumption ==
  /\ \A n \in DOMAIN PartsOf : PartsOf[n] \in Nat \ {0}
  /\ "" \notin DOMAIN PartsOf
  /\ \A plan \in RowPlans : plan \in [Clients -> Seq(RowOffer \cup {ById})]
  /\ ById \notin RowOffer
  /\ \A n \in DOMAIN PartsOf : NoRow # <<n, 0>>

R == INSTANCE RowTables

VARIABLES
  db,      \* the tables: see RowTables
  caller,  \* client -> its call under way: see Resting
  clock,   \* what created_at is taken from
  added    \* input -> the offer it was added for, the inputs stored before its
           \* Add began, and whether it was ever cognified by its id
rowVars == <<db, caller, clock, added>>

Blank == <<"", 0>>
Chunks(content) == IF content = Blank THEN 0 ELSE PartsOf[content[1]]
ChunkId(id, k) == <<id[1], k>>
ChunkContent(content, k) == IF Chunks(content) = 1 THEN content ELSE <<content[1], k>>

InputRow(offer) ==
  [content |-> offer.content, session |-> offer.session, tier |-> offer.tier, isInput |-> TRUE,
   split |-> FALSE, parent |-> NoRow, status |-> "pending", created |-> clock]

\* What "cognify --id" hands over: a datapoint with nothing but the id.
BareRow ==
  [InputRow([content |-> Blank, session |-> "", tier |-> "general"]) EXCEPT !.isInput = FALSE]

ChunkRow(id, row, k, status) ==
  [row EXCEPT !.content = ChunkContent(@, k), !.isInput = FALSE, !.split = FALSE,
              !.parent = id, !.status = status, !.created = clock]

\* at: the next call of the store.  copy: the row handed to Cognify.  k: the
\* chunk it is at.  read: the copy a sync will write back.
Resting(todo) ==
  [todo |-> todo, at |-> "idle", seen |-> {}, known |-> {}, id |-> NoRow,
   copy |-> NoRow, k |-> 0, read |-> NoRow]

RowsInit(plan) ==
  /\ db = R!Empty /\ clock = 1 /\ added = <<>>
  /\ caller = [c \in Clients |-> Resting(plan[c])]

-----------------------------------------------------------------------------
IsAt(c, step) == caller[c].at = step
Moves(c, next) == caller' = [caller EXCEPT ![c] = next]
Offer(c) == Head(caller[c].todo)
Parts(c) == Chunks(caller[c].copy.content)
InputIds == DOMAIN db["input_datapoints"]
SameContent(offer) == [unscoped |-> offer.session = "", session |-> offer.session, text |-> offer.content]

\* A row that was split is only synchronised; the last sync of a Cognify is the
\* one after its last chunk.
Handed(me, id, row) ==
  LET got == [me EXCEPT !.id = id, !.copy = row]
  IN  CASE row.split -> [got EXCEPT !.at = "count", !.read = row, !.k = Chunks(row.content) + 1]
        [] ~row.split /\ Chunks(row.content) = 0 -> [got EXCEPT !.at = "mark"]
        [] OTHER -> [got EXCEPT !.at = "split", !.k = 1]

\* The lookup of Add: one statement for each table.
LooksUp(c) ==
  /\ IsAt(c, "idle") /\ caller[c].todo # <<>> /\ Offer(c) # ById
  /\ Moves(c, [caller[c] EXCEPT !.at = "inputs", !.known = InputIds,
                 !.seen = R!QueryFromTable(db, "datapoints", SameContent(Offer(c)))])
  /\ UNCHANGED <<db, clock, added>>

\* Mutant of Repeats: an input that was split already is not found.
RepeatsUnsplit(row, offer) == row.isInput /\ row.tier = offer.tier /\ ~row.split

\* The limit is one row: the newest, which may be a chunk.
Repeats(row, offer) == row.isInput /\ row.tier = offer.tier

LooksUpInputs(c) ==
  LET found == R!NewestOf(caller[c].seen \cup
                 R!QueryFromTable(db, "input_datapoints", SameContent(Offer(c))))
      repeated == {f \in found : Repeats(f.row, Offer(c))}
      me == [caller[c] EXCEPT !.seen = {}]
  IN  /\ IsAt(c, "inputs")
      /\ \/ \E f \in repeated : Moves(c, Handed(me, f.id, f.row)) /\ UNCHANGED clock
         \/ /\ repeated = {}
            /\ Moves(c, [me EXCEPT !.at = "store", !.copy = InputRow(Offer(c))])
            /\ clock' = clock + 1
      /\ UNCHANGED <<db, added>>

StoresInput(c) ==
  LET id == <<Cardinality(InputIds) + 1, 0>>
  IN  /\ IsAt(c, "store")
      /\ db' = R!StoreDataPoint(db, id, caller[c].copy)
      /\ added' = [i \in DOMAIN added \cup {id} |-> IF i # id THEN added[i]
                     ELSE [offer |-> Offer(c), known |-> caller[c].known, byId |-> FALSE]]
      /\ Moves(c, Handed([caller[c] EXCEPT !.known = {}], id, caller[c].copy))
      /\ UNCHANGED clock

CognifiesById(c) ==
  /\ IsAt(c, "idle") /\ caller[c].todo # <<>> /\ Offer(c) = ById
  /\ \E id \in InputIds : /\ Moves(c, Handed(caller[c], id, BareRow))
                          /\ added' = [added EXCEPT ![id].byId = TRUE]
  /\ UNCHANGED <<db, clock>>

\* Mutant of SplitId: every split gives its chunks ids of their own.
FreshSplitId(c, k) == <<caller[c].id[1], k, c>>

\* The id of a chunk is made of its input's and its number.
SplitId(c, k) == ChunkId(caller[c].id, k)

StoresChunk(c) ==
  LET k == caller[c].k
      id == SplitId(c, k)
  IN  /\ IsAt(c, "split")
      /\ db' = R!StoreDataPoint(db, id, ChunkRow(caller[c].id, caller[c].copy, k, "pending"))
      /\ clock' = IF R!GetDataPoint(db, id) = NoRow THEN clock + 1 ELSE clock
      /\ Moves(c, IF k = Parts(c) THEN [caller[c] EXCEPT !.at = "mark"]
                                  ELSE [caller[c] EXCEPT !.k = k + 1])
      /\ UNCHANGED added

\* A text without chunks is left as processing.
Marks(c) ==
  LET row == [caller[c].copy EXCEPT !.split = TRUE, !.status = "processing"]
  IN  /\ IsAt(c, "mark")
      /\ db' = R!UpdateDataPoint(db, caller[c].id, row)
      /\ Moves(c, IF Parts(c) = 0 THEN Resting(Tail(caller[c].todo))
                  ELSE [caller[c] EXCEPT !.copy = row, !.at = "begin", !.k = 1])
      /\ UNCHANGED <<clock, added>>

\* The chunk at hand is cognified and memified; its row is written three times.
WritesChunk(c, step, status, next) ==
  /\ IsAt(c, step)
  /\ db' = R!UpdateDataPoint(db, SplitId(c, caller[c].k),
             ChunkRow(caller[c].id, caller[c].copy, caller[c].k, status))
  /\ Moves(c, [caller[c] EXCEPT !.at = next])
  /\ UNCHANGED <<clock, added>>

ReadsParent(c) ==
  /\ IsAt(c, "parent")
  /\ Moves(c, [caller[c] EXCEPT !.at = "count", !.read = R!GetDataPoint(db, caller[c].id)])
  /\ UNCHANGED <<db, clock, added>>

\* The sync looks for the chunks among the rows of the session; an input has no
\* parent, so that the second table does not matter.
Counts(c) ==
  LET rows == R!QueryFromTable(db, "datapoints",
                [unscoped |-> FALSE, session |-> caller[c].read.session, text |-> NoRow])
      chunks == {r \in rows : r.row.parent = caller[c].id}
      done == chunks # {} /\ \A r \in chunks : r.row.status = "completed"
  IN  /\ IsAt(c, "count")
      /\ Moves(c, [caller[c] EXCEPT !.at = "write",
                     !.read.status = IF done THEN "completed" ELSE "processing"])
      /\ UNCHANGED <<db, clock, added>>

\* After the last chunk the copy that was handed over is synchronised as well.
WritesParent(c) ==
  LET me == [caller[c] EXCEPT !.k = @ + 1]
  IN  /\ IsAt(c, "write")
      /\ db' = R!UpdateDataPoint(db, me.id, me.read)
      /\ Moves(c, CASE me.k <= Parts(c) -> [me EXCEPT !.at = "begin", !.read = NoRow]
                    [] me.k = Parts(c) + 1 -> [me EXCEPT !.at = "count", !.read = me.copy]
                    [] OTHER -> Resting(Tail(me.todo)))
      /\ UNCHANGED <<clock, added>>

CallerStep(c) ==
  \/ LooksUp(c) \/ LooksUpInputs(c) \/ StoresInput(c) \/ CognifiesById(c)
  \/ StoresChunk(c) \/ Marks(c)
  \/ WritesChunk(c, "begin", "processing", "draft")
  \/ WritesChunk(c, "draft", "cognified", "finish")
  \/ WritesChunk(c, "finish", "completed", "parent")
  \/ ReadsParent(c) \/ Counts(c) \/ WritesParent(c)

RowsNext == \E c \in Clients : CallerStep(c)

RowsSpec == (\E plan \in RowPlans : RowsInit(plan)) /\ [][RowsNext]_rowVars

-----------------------------------------------------------------------------
\* No id is in both tables, whatever a copy says that a row is written back from.
RowsTypeOK ==
  /\ DOMAIN db["datapoints"] \cap InputIds = {}
  /\ DOMAIN added = InputIds
  /\ \A id \in DOMAIN db["datapoints"] : ~db["datapoints"][id].isInput
  /\ \A t \in R!Table : \A id \in DOMAIN db[t] :
       db[t][id].status \in {"pending", "processing", "cognified", "completed"}

\* An input is stored a second time only by Adds that overlapped: one that
\* began when the first was stored finds it, unless the newest row with the
\* content is another one, the chunk of a short text or an input of another
\* tier (or cognify --id was given the first, which blanks its row for a while).
AddsFindEarlier ==
  \A new \in InputIds : \A old \in added[new].known :
    LET offer == added[new].offer
    IN  (added[old].offer = offer) =>
          \/ Chunks(offer.content) = 1
          \/ added[old].byId
          \/ \E other \in InputIds : /\ added[other].offer.content = offer.content
                                     /\ added[other].offer.tier # offer.tier

\* However many Cognify calls share an input, one behind the other or at the
\* same time, with fresh, stale or bare copies: when the last of them has
\* returned, each chunk of its text is there once and is completed.  (The
\* input's own row may be left behind: CognifyPipeline!InputCatchesUp.)
HandedTwiceDone ==
  \A id \in InputIds :
    LET chunks == {d \in DOMAIN db["datapoints"] : db["datapoints"][d].parent = id}
    IN  (\A c \in Clients : caller[c].id # id) =>
          /\ chunks = {ChunkId(id, k) : k \in 1..Chunks(added[id].offer.content)}
          /\ \A d \in chunks : db["datapoints"][d].status = "completed"
          /\ db["input_datapoints"][id].split
=============================================================================
