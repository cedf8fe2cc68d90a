------------------------ MODULE PooledStorageProofs ------------------------
(***************************************************************************)
(* Proofs about the connection pool, by itself and under its manager.      *)
(*                                                                         *)
(* The inductive invariant says where every connection is.  A connection   *)
(* is idle in the channel, in a slice of the maintenance goroutine or in   *)
(* the frame of one client, and an open one is in one of them; the label   *)
(* of each goroutine tells what it holds and whether that is open; and     *)
(* the counter TotalConnections covers the open connections and the slots  *)
(* reserved.  What the manager's goroutines do to the pool is what clients *)
(* of a pool may do, so this is an invariant of the manager too, and its   *)
(* Close keeps the health monitor out of a pool that is being closed.      *)
(***************************************************************************)
EXTENDS PooledStorage, TLAPS, FiniteSetTheorems, SequenceTheorems

Elems(s) == {s[i] : i \in 1..Len(s)}
Distinct(s) == \A i, j \in 1..Len(s) : s[i] = s[j] => i = j

Channel == Elems(connections)
Hold == Elems(maint.hold)
Keep == Elems(maint.keep)

-----------------------------------------------------------------------------
(* What a goroutine holds at each label.                                   *)

EmptyHanded == {"out", "select", "reserve", "wait", "create", "putCount"}
\* A client that no Put, Close or validation can have closed the connection of.
Sure == {"counted", "validate", "track", "putBack"}
InUse == {"holding", "untrack"}
Early == {"none", "stop", "drain", "active"}

CallShape ==
  \A t \in Client : (call[t].pc \in EmptyHanded) = (call[t].conn = Nil)

MaintShape ==
  /\ maint.pc \in {"tick", "minimum", "check", "create", "exited", "send", "return"}
       => maint.hold = <<>>
  /\ maint.pc \in {"tick", "minimum", "check", "create", "exited", "collect",
                   "discard", "sample"}
       => maint.keep = <<>>
  /\ maint.pc \in {"back", "send"} => Len(maint.keep) = 1

CloserShape ==
  /\ closed = (closer # "none")
  /\ shut = (closer \notin {"none", "stop"})
  /\ maint.pc = "exited" => closer # "none"
  /\ shut => maint.pc = "exited"
  /\ closer \in {"active", "reset", "done"} => connections = <<>>

ShapeOK == CallShape /\ MaintShape /\ CloserShape

\* Which of the connections held are open.
HeldOpen ==
  /\ Channel \subseteq open /\ Hold \subseteq open /\ Keep \subseteq open
  /\ \A t \in Client :
       \/ call[t].pc \in Sure
       \/ call[t].pc \in InUse /\ closer \in Early
       => call[t].conn \in open

\* Close closes the connections in the map: an open one there is in use.
ActiveInUse ==
  \A c \in active \cap open :
    \E t \in Client : call[t].pc \in InUse /\ call[t].conn = c

OpenOK == HeldOpen /\ ActiveInUse

\* Nobody holds a connection that another holds as well.
Apart ==
  /\ Distinct(connections) /\ Distinct(maint.hold) /\ Distinct(maint.keep)
  /\ Channel \cap Hold = {} /\ Channel \cap Keep = {} /\ Hold \cap Keep = {}
  /\ \A t \in Client : call[t].conn \notin Channel \cup Hold \cup Keep
  /\ \A t, u \in Client :
       call[t].conn = call[u].conn /\ call[t].conn # Nil => t = u

\* An open connection is held; none is held or tracked that is not yet made.
Kept ==
  /\ \A c \in open : \/ c \in Channel \cup Hold \cup Keep
                     \/ \E t \in Client : call[t].conn = c
  /\ open \subseteq 1..born /\ active \subseteq 1..born
  /\ \A t \in Client : call[t].conn \in 0..born

CustodyOK == Apart /\ Kept

CountsOK ==
  /\ Cardinality(open) + Reserved <= total
  /\ total <= MaxConnections + 1
  /\ maint.pc = "create" => total <= MaxConnections

PoolInv == PoolTypeOK /\ ShapeOK /\ OpenOK /\ CustodyOK /\ CountsOK

-----------------------------------------------------------------------------
(* Sequences without repetition, by their elements.                        *)

\* A receive takes the head and nothing else out of the elements.
LEMMA TailElems ==
  ASSUME NEW S, NEW s \in Seq(S), s # <<>>, Distinct(s)
  PROVE  /\ Head(s) \in Elems(s)
         /\ Elems(Tail(s)) = Elems(s) \ {Head(s)}
         /\ Distinct(Tail(s))
<1>1. /\ Len(s) \in Nat \ {0} /\ Tail(s) \in Seq(S) /\ Len(Tail(s)) = Len(s) - 1
      /\ Head(s) = s[1] /\ \A i \in 1..Len(Tail(s)) : Tail(s)[i] = s[i + 1]
  BY HeadTailProperties, EmptySeq, LenProperties
<1>2. Head(s) \in Elems(s)
  BY <1>1 DEF Elems
<1>3. ASSUME NEW x \in Elems(Tail(s)) PROVE x \in Elems(s) \ {Head(s)}
  BY <1>1 DEF Elems, Distinct
<1>4. ASSUME NEW x \in Elems(s), x # Head(s) PROVE x \in Elems(Tail(s))
  <2>1. PICK i \in 1..Len(s) : s[i] = x
    BY DEF Elems
  <2>2. i - 1 \in 1..Len(Tail(s)) /\ Tail(s)[i - 1] = x
    BY <2>1, <1>1, <1>4
  <2>3. QED
    BY <2>2 DEF Elems
<1>5. Distinct(Tail(s))
  BY <1>1 DEF Distinct
<1>6. QED
  BY <1>2, <1>3, <1>4, <1>5

\* A send adds one element.
LEMMA AppendElems ==
  ASSUME NEW S, NEW s \in Seq(S), NEW c \in S
  PROVE  /\ Elems(Append(s, c)) = Elems(s) \cup {c}
         /\ Distinct(s) /\ c \notin Elems(s) => Distinct(Append(s, c))
<1>1. /\ Len(s) \in Nat /\ Append(s, c) \in Seq(S)
      /\ Len(Append(s, c)) = Len(s) + 1 /\ Append(s, c)[Len(s) + 1] = c
      /\ \A i \in 1..Len(s) : Append(s, c)[i] = s[i]
  BY AppendProperties, LenProperties
<1>2. ASSUME NEW x \in Elems(Append(s, c)) PROVE x \in Elems(s) \cup {c}
  BY <1>1 DEF Elems
<1>3. ASSUME NEW x \in Elems(s) PROVE x \in Elems(Append(s, c))
  BY <1>1 DEF Elems
<1>4. c \in Elems(Append(s, c))
  BY <1>1 DEF Elems
<1>5. ASSUME Distinct(s), c \notin Elems(s) PROVE Distinct(Append(s, c))
  <2> SUFFICES ASSUME NEW i \in 1..Len(s) + 1, NEW j \in 1..Len(s) + 1,
                      Append(s, c)[i] = Append(s, c)[j]
               PROVE  i = j
    BY <1>1 DEF Distinct
  <2>1. \A k \in 1..Len(s) : s[k] # c
    BY <1>5 DEF Elems
  <2>2. QED
    BY <2>1, <1>1, <1>5 DEF Distinct
<1>6. QED
  BY <1>2, <1>3, <1>4, <1>5

LEMMA EmptyElems == Elems(<<>>) = {} /\ Distinct(<<>>)
  BY DEF Elems, Distinct

LEMMA ElemsType ==
  ASSUME NEW S, NEW s \in Seq(S)
  PROVE  Elems(s) \subseteq S /\ (Elems(s) = {} => s = <<>>)
<1>1. Elems(s) \subseteq S
  BY ElementOfSeq DEF Elems
<1>2. ASSUME s # <<>> PROVE s[1] \in Elems(s)
  BY <1>2, EmptySeq DEF Elems
<1>3. QED
  BY <1>1, <1>2

\* A slice of one connection, and what putting it at the end of another does.
LEMMA SingletonElems ==
  ASSUME NEW S, NEW s \in Seq(S), Len(s) = 1
  PROVE  /\ s = <<Head(s)>> /\ Head(s) \in S /\ Tail(s) = <<>>
         /\ Elems(s) = {Head(s)}
         /\ \A r \in Seq(S) : r \o s = Append(r, Head(s))
<1>1. s # <<>>
  BY EmptySeq
<1>2. Head(s) \in S /\ Head(s) = s[1] /\ Tail(s) \in Seq(S) /\ Len(Tail(s)) = 0
  BY <1>1, HeadTailProperties
<1>3. Tail(s) = <<>>
  BY <1>2, EmptySeq
<1>4. s = <<Head(s)>>
  BY <1>2
<1>5. Elems(s) = {Head(s)}
  BY <1>2 DEF Elems
<1>6. \A r \in Seq(S) : r \o s = Append(r, Head(s))
  BY <1>2, <1>4, AppendIsConcat
<1>7. QED
  BY <1>2, <1>3, <1>4, <1>5, <1>6

\* The slice that has just been filled with one connection.
LEMMA OneElem ==
  ASSUME NEW S, NEW c \in S
  PROVE  /\ <<c>> \in Seq(S) /\ Len(<<c>>) = 1
         /\ Elems(<<c>>) = {c} /\ Distinct(<<c>>)
  BY DEF Elems, Distinct
-----------------------------------------------------------------------------
(* Moves of a client.                                                      *)

Moved(t, label, c) ==
  /\ call' \in [Client -> Call]
  /\ call'[t].pc = label /\ call'[t].conn = c
  /\ \A u \in Client : u # t => call'[u] = call[u]

LEMMA GotoMoves ==
  ASSUME PoolTypeOK
  PROVE  \A t \in Client, n \in ClientPC : Goto(t, n) => Moved(t, n, call[t].conn)
<1> SUFFICES ASSUME NEW t \in Client, NEW n \in ClientPC, Goto(t, n)
             PROVE  Moved(t, n, call[t].conn)
  OBVIOUS
<1>1. [call[t] EXCEPT !.pc = n] \in Call
  BY DEF PoolTypeOK, Call
<1>2. call \in [Client -> Call] /\ call' = [call EXCEPT ![t] = [call[t] EXCEPT !.pc = n]]
  BY DEF PoolTypeOK, Goto
<1>3. call' \in [Client -> Call]
  BY <1>1, <1>2
<1>4. /\ call'[t] = [call[t] EXCEPT !.pc = n]
      /\ \A u \in Client : u # t => call'[u] = call[u]
  BY <1>2
<1>5. call'[t].pc = n /\ call'[t].conn = call[t].conn
  BY <1>4, <1>2 DEF Call
<1>6. QED
  BY <1>3, <1>4, <1>5 DEF Moved

LEMMA CarryMoves ==
  ASSUME PoolTypeOK
  PROVE  \A t \in Client, n \in ClientPC, c \in Conn \cup {Nil} :
           Carry(t, n, c, FALSE) \/ Carry(t, n, c, TRUE) => Moved(t, n, c)
<1> SUFFICES ASSUME NEW t \in Client, NEW n \in ClientPC, NEW c \in Conn \cup {Nil},
                    NEW w \in BOOLEAN, Carry(t, n, c, w)
             PROVE  Moved(t, n, c)
  OBVIOUS
<1>1. QED
  BY DEF PoolTypeOK, Carry, Call, Moved

LEMMA DropMoves ==
  ASSUME PoolTypeOK
  PROVE  \A t \in Client :
           /\ \A n \in ClientPC : Drop(t, n) => Moved(t, n, Nil)
           /\ Return(t) => Moved(t, "out", Nil)
  BY CarryMoves DEF Drop, Return, ClientPC

\* A receive takes the head of the channel into the frame of the client.
LEMMA ReceiveMoves ==
  ASSUME PoolTypeOK
  PROVE  \A t \in Client, n \in ClientPC :
           Receive(t, n, FALSE) \/ Receive(t, n, TRUE) =>
             /\ connections # <<>> /\ connections' = Tail(connections)
             /\ Moved(t, n, Head(connections)) /\ panicked' = panicked
<1>1. connections # <<>> => Head(connections) \in Conn
  BY HeadTailProperties DEF PoolTypeOK
<1>2. QED
  BY <1>1, CarryMoves DEF Receive
-----------------------------------------------------------------------------
(* Types, and what is held at each label.                                  *)

LEMMA InitTypes == PoolInit => PoolTypeOK /\ ShapeOK
<1> SUFFICES ASSUME PoolInit PROVE PoolTypeOK /\ ShapeOK
  OBVIOUS
<1>1. /\ MaxConnections \in Nat /\ MinIdle \in Nat /\ Created \in Nat
      /\ MinIdle <= MaxConnections /\ MinIdle <= Created
  BY PoolAssumption
<1>2. connections \in Seq(Conn) /\ Len(connections) = MinIdle
  <2>1. \A i \in 1..MinIdle : i \in Conn
    BY <1>1 DEF Conn
  <2>2. QED
    BY <2>1, <1>1 DEF PoolInit
<1>3. NoCall \in Call /\ Ticking \in Maint
  BY EmptySeq DEF NoCall, Call, ClientPC, Nil, Ticking, Maint, MaintPC
<1>4. PoolTypeOK
  <2>1. call \in [Client -> Call] /\ maint \in Maint
    BY <1>3 DEF PoolInit
  <2>2. open \in SUBSET Conn /\ total \in Int /\ idleCount \in Int /\ born \in 0..Created
    BY <1>1 DEF PoolInit, Conn
  <2>3. activeCount \in Int /\ active \in SUBSET Conn /\ closer \in CloserPC
    BY DEF PoolInit, CloserPC
  <2>4. shut \in BOOLEAN /\ closed \in BOOLEAN /\ panicked \in BOOLEAN
    BY DEF PoolInit
  <2>5. QED
    BY <1>1, <1>2, <2>1, <2>2, <2>3, <2>4 DEF PoolTypeOK
<1>5. CallShape
  BY DEF PoolInit, CallShape, NoCall, EmptyHanded, Nil
<1>6. MaintShape /\ CloserShape
  BY DEF PoolInit, MaintShape, CloserShape, Ticking
<1>7. QED
  BY <1>4, <1>5, <1>6 DEF ShapeOK

\* The head of a sequence of connections, and the rest.
LEMMA HeadOfConns ==
  ASSUME NEW s \in Seq(Conn), s # <<>>
  PROVE  /\ Head(s) \in Conn /\ Head(s) # Nil
         /\ Tail(s) \in Seq(Conn) /\ Len(Tail(s)) = Len(s) - 1
         /\ Len(s) \in Nat
<1>1. 0 \notin Conn
  BY DEF Conn
<1>2. QED
  BY <1>1, HeadTailProperties, LenProperties DEF Nil

\* Where the step of a client leaves the client, and what it does to the
\* channel, to the open connections and to the connection in its frame.
Stays(t) ==
  /\ \E n \in ClientPC : Moved(t, n, call[t].conn)
  /\ UNCHANGED <<connections, open, born>>

Takes(t) ==
  /\ \E n \in ClientPC : Moved(t, n, Head(connections))
  /\ call[t].conn = Nil
  /\ connections # <<>> /\ connections' = Tail(connections)
  /\ UNCHANGED <<open, born>>

Sheds(t) ==
  /\ \E n \in ClientPC : Moved(t, n, Nil)
  /\ open' = open \ {call[t].conn}
  /\ UNCHANGED <<connections, born>>

Makes(t) ==
  /\ Moved(t, "track", born + 1)
  /\ call[t].conn = Nil
  /\ born < Created /\ born' = born + 1
  /\ open' = open \cup {born + 1}
  /\ UNCHANGED connections

Gives(t) ==
  /\ Moved(t, "putCount", Nil)
  /\ call[t].pc = "putBack" /\ call[t].conn \in Conn
  /\ ~shut /\ Len(connections) < MaxConnections
  /\ connections' = Append(connections, call[t].conn)
  /\ UNCHANGED <<open, born>>

Panics == UNCHANGED <<connections, open, born, call>>

ClientStep(t) == Get(t) \/ Put(t) \/ Inside(t)

LEMMA ClientKinds ==
  ASSUME PoolTypeOK, ShapeOK, NEW t \in Client, ClientStep(t)
  PROVE  /\ Stays(t) \/ Takes(t) \/ Sheds(t) \/ Makes(t) \/ Gives(t) \/ Panics
         /\ CallShape'
         /\ UNCHANGED <<maint, closer, closed, shut>>
<1>1. /\ call[t] \in Call /\ (call[t].pc \in EmptyHanded) = (call[t].conn = Nil)
      /\ call[t].conn \in Conn \cup {Nil} /\ born + 1 \in Int
  BY DEF PoolTypeOK, Call, ShapeOK, CallShape
<1>2. ASSUME NEW n \in ClientPC, NEW c, Moved(t, n, c), (n \in EmptyHanded) = (c = Nil)
      PROVE  CallShape'
  BY <1>2 DEF Moved, ShapeOK, CallShape
<1>3. connections # <<>> => Head(connections) # Nil
  BY HeadOfConns DEF PoolTypeOK
<1>4. born < Created => born + 1 \in Conn /\ born + 1 # Nil
  BY PoolAssumption DEF PoolTypeOK, Conn, Nil
<1>5. ASSUME Panics PROVE CallShape'
  BY <1>5 DEF Panics, ShapeOK, CallShape
<1> HIDE DEF PoolTypeOK
<1>6. CASE Get(t)
  BY <1>6, <1>1, <1>2, GotoMoves DEF Get, At, Stays, ClientPC, EmptyHanded, channel
<1>7. CASE GetSelect(t)
  <2>1. /\ call[t].conn = Nil
        /\ UNCHANGED <<maint, closer, closed, shut, open, born>>
    BY <1>7, <1>1 DEF GetSelect, At, EmptyHanded
  <2>2. CASE Receive(t, "counted", FALSE)
    <3>1. /\ connections # <<>> /\ connections' = Tail(connections)
          /\ Moved(t, "counted", Head(connections))
      BY <2>2, ReceiveMoves DEF ClientPC
    <3>2. CallShape'
      BY <3>1, <1>2, <1>3 DEF ClientPC, EmptyHanded
    <3>3. Takes(t)
      BY <2>1, <3>1 DEF Takes, ClientPC
    <3>4. QED
      BY <2>1, <3>2, <3>3
  <2>3. CASE Goto(t, "reserve") /\ UNCHANGED connections
    BY <2>1, <2>3, <1>2, GotoMoves DEF Stays, ClientPC, EmptyHanded
  <2>4. CASE UNCHANGED <<connections, call>>
    BY <2>1, <2>4, <1>5 DEF Panics
  <2>5. QED
    BY <1>7, <2>2, <2>3, <2>4 DEF GetSelect, ReceiveNil
<1>8. CASE CountOut(t)
  BY <1>8, <1>1, <1>2, GotoMoves DEF CountOut, At, Stays, ClientPC, EmptyHanded, channel
<1>9. CASE Validate(t)
  BY <1>9, <1>1, <1>2, GotoMoves, DropMoves DEF Validate, At, Stays, Sheds, ClientPC, EmptyHanded, channel
<1>10. CASE Track(t)
  BY <1>10, <1>1, <1>2, GotoMoves DEF Track, At, Stays, ClientPC, EmptyHanded, channel
<1>11. CASE Reserve(t)
  BY <1>11, <1>1, <1>2, GotoMoves DEF Reserve, At, Stays, ClientPC, EmptyHanded, channel
<1>12. CASE Wait(t)
  <2>1. /\ call[t].conn = Nil
        /\ UNCHANGED <<maint, closer, closed, shut, open, born>>
    BY <1>12, <1>1 DEF Wait, At, EmptyHanded
  <2>2. CASE Receive(t, "counted", TRUE)
    <3>1. /\ connections # <<>> /\ connections' = Tail(connections)
          /\ Moved(t, "counted", Head(connections))
      BY <2>2, ReceiveMoves DEF ClientPC
    <3>2. CallShape'
      BY <3>1, <1>2, <1>3 DEF ClientPC, EmptyHanded
    <3>3. Takes(t)
      BY <2>1, <3>1 DEF Takes, ClientPC
    <3>4. QED
      BY <2>1, <3>2, <3>3
  <2>3. CASE Return(t) /\ UNCHANGED connections
    BY <2>1, <2>3, <1>2, DropMoves DEF Stays, ClientPC, EmptyHanded
  <2>4. CASE UNCHANGED <<connections, call>>
    BY <2>1, <2>4, <1>5 DEF Panics
  <2>5. QED
    BY <1>12, <2>2, <2>3, <2>4 DEF Wait, ReceiveNil
<1>13. CASE Create(t)
  <2>1. /\ call[t].conn = Nil
        /\ UNCHANGED <<maint, closer, closed, shut, connections>>
    BY <1>13, <1>1 DEF Create, At, EmptyHanded, channel
  <2>2. CASE Return(t) /\ UNCHANGED <<born, open>>
    BY <2>1, <2>2, <1>2, DropMoves DEF Stays, ClientPC, EmptyHanded
  <2>3. CASE /\ born < Created /\ born' = born + 1 /\ open' = open \cup {born + 1}
             /\ Carry(t, "track", born + 1, FALSE)
    <3>1. Moved(t, "track", born + 1)
      BY <2>3, <1>4, CarryMoves DEF ClientPC
    <3>2. CallShape'
      BY <3>1, <2>3, <1>2, <1>4 DEF ClientPC, EmptyHanded
    <3>3. QED
      BY <2>1, <2>3, <3>1, <3>2 DEF Makes
  <2>4. QED
    BY <1>13, <2>2, <2>3 DEF Create
<1>14. CASE Put(t)
  BY <1>14, <1>1, <1>2, GotoMoves, DropMoves DEF Put, At, Stays, Sheds, ClientPC, EmptyHanded, channel
<1>15. CASE Untrack(t)
  BY <1>15, <1>1, <1>2, GotoMoves DEF Untrack, At, Stays, ClientPC, EmptyHanded, channel
<1>16. CASE Inspect(t)
  BY <1>16, <1>1, <1>2, GotoMoves, DropMoves DEF Inspect, At, Discard, Stays, Sheds, ClientPC, EmptyHanded, channel
<1>17. CASE PutBack(t)
  BY <1>17, <1>1, <1>2, DropMoves, <1>5 DEF PutBack, At, Discard, Gives, Sheds, Panics, ClientPC, EmptyHanded
<1>18. CASE PutCount(t)
  BY <1>18, <1>1, <1>2, DropMoves DEF PutCount, At, Stays, ClientPC, EmptyHanded, channel
<1>19. QED
  BY <1>6, <1>7, <1>8, <1>9, <1>10, <1>11, <1>12, <1>13, <1>14, <1>15, <1>16,
     <1>17, <1>18 DEF ClientStep, Inside
LEMMA ClientTypes ==
  ASSUME PoolTypeOK, ShapeOK, NEW t \in Client, ClientStep(t)
  PROVE  PoolTypeOK' /\ ShapeOK'
<1>1. /\ MaxConnections \in Nat /\ Created \in Nat /\ Len(connections) \in Nat
      /\ connections \in Seq(Conn) /\ Len(connections) <= MaxConnections
      /\ born \in 0..Created /\ open \subseteq Conn /\ call[t].conn \in Conn \cup {Nil}
  BY PoolAssumption, LenProperties DEF PoolTypeOK, Call
<1>2. /\ call' \in [Client -> Call] /\ open' \in SUBSET Conn /\ born' \in 0..Created
      /\ connections' \in Seq(Conn) /\ Len(connections') <= MaxConnections
      /\ connections' # connections => connections # <<>> \/ ~shut
  <2>1. CASE Stays(t)
    BY <2>1, <1>1 DEF Stays, Moved
  <2>2. CASE Takes(t)
    BY <2>2, <1>1, HeadOfConns DEF Takes, Moved
  <2>3. CASE Sheds(t)
    BY <2>3, <1>1 DEF Sheds, Moved
  <2>4. CASE Makes(t)
    <3>1. born + 1 \in Conn /\ born + 1 \in 0..Created
      BY <2>4, <1>1 DEF Makes, Conn
    <3>2. QED
      BY <2>4, <1>1, <3>1 DEF Makes, Moved
  <2>5. CASE Gives(t)
    BY <2>5, <1>1, AppendProperties DEF Gives, Moved
  <2>6. CASE Panics
    BY <2>6, <1>1 DEF Panics, PoolTypeOK
  <2>7. QED
    BY <2>1, <2>2, <2>3, <2>4, <2>5, <2>6, ClientKinds
<1>3. /\ active' \in SUBSET Conn /\ activeCount' \in Int
  <2>1. CASE Track(t)
    BY <2>1, <1>1 DEF Track, At, PoolTypeOK, ShapeOK, CallShape, EmptyHanded
  <2>2. CASE Untrack(t)
    BY <2>2 DEF Untrack, PoolTypeOK
  <2>3. CASE ~Track(t) /\ ~Untrack(t)
    <3>1. active' = active /\ activeCount' = activeCount
      BY <2>3 DEF ClientStep, Inside, Get, Put, GetSelect, CountOut, Validate,
           Reserve, Wait, Create, Inspect, PutBack, PutCount, counters
    <3>2. QED
      BY <3>1 DEF PoolTypeOK
  <2>4. QED
    BY <2>1, <2>2, <2>3
<1>4. total' \in {total - 1, total, total + 1}
  BY DEF ClientStep, Inside, Get, Put, GetSelect, CountOut, Validate, Track,
     Untrack, Reserve, Wait, Create, Inspect, PutBack, PutCount, counters
<1>5. idleCount' \in {idleCount - 1, idleCount, idleCount + 1}
  BY DEF ClientStep, Inside, Get, Put, GetSelect, CountOut, Validate, Track,
     Untrack, Reserve, Wait, Create, Inspect, PutBack, PutCount, counters
<1>6. panicked' \in BOOLEAN
  <2>1. panicked' = panicked \/ panicked' = TRUE
    BY ReceiveMoves DEF ClientStep, Inside, Get, Put, GetSelect, CountOut, Validate, Track,
       Untrack, Reserve, Wait, Create, Inspect, PutBack, PutCount, Receive, ReceiveNil
  <2>2. QED
    BY <2>1 DEF PoolTypeOK
<1>7. PoolTypeOK'
  <2>1. total' \in Int /\ idleCount' \in Int
    BY <1>4, <1>5 DEF PoolTypeOK
  <2>2. UNCHANGED <<maint, closer, closed, shut>>
    BY ClientKinds
  <2>3. QED
    BY <1>2, <1>3, <1>6, <2>1, <2>2 DEF PoolTypeOK
<1>8. ShapeOK'
  BY <1>2, ClientKinds DEF ShapeOK, MaintShape, CloserShape
<1>9. QED
  BY <1>7, <1>8

-----------------------------------------------------------------------------
(* Nobody shares a connection, and no open connection is lost.             *)

\* What the goroutines other than the clients hold has been made.
LEMMA HeldMade ==
  ASSUME PoolTypeOK, HeldOpen, CustodyOK
  PROVE  /\ Channel \subseteq 1..born /\ Hold \subseteq 1..born /\ Keep \subseteq 1..born
         /\ Nil \notin Channel \cup Hold \cup Keep
         /\ born \in Nat
  BY PoolAssumption DEF PoolTypeOK, HeldOpen, CustodyOK, Kept, Nil

LEMMA ClientCustody ==
  ASSUME PoolTypeOK, ShapeOK, HeldOpen, CustodyOK, NEW t \in Client, ClientStep(t)
  PROVE  CustodyOK'
<1>1. /\ Hold' = Hold /\ Keep' = Keep /\ maint' = maint
      /\ Stays(t) \/ Takes(t) \/ Sheds(t) \/ Makes(t) \/ Gives(t) \/ Panics
  BY ClientKinds DEF Hold, Keep
<1>2. active' \subseteq 1..born'
  <2>1. born' = born \/ born' = born + 1
    BY <1>1 DEF Stays, Takes, Sheds, Makes, Gives, Panics
  <2>2. active \subseteq 1..born'
    BY <2>1, HeldMade DEF CustodyOK, Kept
  <2>3. CASE Track(t)
    <3>1. active' = active \cup {call[t].conn} /\ born' = born
      BY <2>3 DEF Track
    <3>2. call[t].conn \in 0..born /\ call[t].conn # 0
      BY <2>3 DEF Track, At, CustodyOK, Kept, ShapeOK, CallShape, EmptyHanded, Nil
    <3>3. born \in Nat
      BY HeldMade
    <3>4. call[t].conn \in 1..born'
      BY <3>1, <3>2, <3>3
    <3>5. QED
      BY <2>2, <3>1, <3>4
  <2>4. CASE ~Track(t)
    <3>1. active' \subseteq active
      BY <2>4 DEF ClientStep, Inside, Get, Put, GetSelect, CountOut, Validate,
           Untrack, Reserve, Wait, Create, Inspect, PutBack, PutCount
    <3>2. QED
      BY <2>2, <3>1
  <2>5. QED
    BY <2>3, <2>4
<1>3. /\ connections \in Seq(Conn) /\ call[t].conn \in Conn \cup {Nil}
      /\ \A u \in Client : call[u].conn \in 0..born
      /\ open \subseteq 1..born
  BY DEF PoolTypeOK, Call, CustodyOK, Kept
<1>4. CASE Stays(t)
  <2>1. Channel' = Channel /\ Distinct(connections)' = Distinct(connections)
    BY <1>4 DEF Stays, Channel
  <2>2. \A u \in Client : call'[u].conn = call[u].conn
    BY <1>4 DEF Stays, Moved
  <2>3. QED
    BY <1>1, <1>2, <1>4, <2>1, <2>2 DEF Stays, CustodyOK, Apart, Kept
<1>5. CASE Takes(t)
  <2> DEFINE c == Head(connections)
  <2>1. /\ c \in Channel /\ Channel' = Channel \ {c} /\ Distinct(connections')
        /\ c \in 1..born
    BY <1>3, <1>5, TailElems, HeldMade DEF Takes, Channel, CustodyOK, Apart
  <2>2. /\ call'[t].conn = c /\ call[t].conn = Nil
        /\ \A u \in Client : u # t => call'[u].conn = call[u].conn
    BY <1>5 DEF Takes, Moved
  <2>3. open' = open /\ born' = born
    BY <1>5 DEF Takes
  <2> HIDE DEF c
  <2>4. Apart'
    BY <1>1, <2>1, <2>2 DEF CustodyOK, Apart
  <2>5. Kept'
    <3>1. ASSUME NEW d \in open'
          PROVE  d \in (Channel \cup Hold \cup Keep)' \/ \E u \in Client : call'[u].conn = d
      <4>1. d # Nil
        BY <3>1, <2>3, <1>3, HeldMade DEF Nil
      <4>2. d \in Channel \cup Hold \cup Keep \/ \E u \in Client : call[u].conn = d
        BY <3>1, <2>3 DEF CustodyOK, Kept
      <4>3. QED
        BY <4>1, <4>2, <1>1, <2>1, <2>2
    <3>2. \A u \in Client : call'[u].conn \in 0..born'
      BY <1>3, <2>1, <2>2, <2>3, HeldMade
    <3>3. QED
      BY <1>2, <1>3, <2>3, <3>1, <3>2 DEF Kept
  <2>6. QED
    BY <2>4, <2>5 DEF CustodyOK
<1>6. CASE Sheds(t)
  <2>1. Channel' = Channel /\ Distinct(connections)' = Distinct(connections) /\ born' = born
    BY <1>6 DEF Sheds, Channel
  <2>2. /\ call'[t].conn = Nil /\ open' = open \ {call[t].conn}
        /\ \A u \in Client : u # t => call'[u].conn = call[u].conn
    BY <1>6 DEF Sheds, Moved
  <2>3. Apart'
    BY <1>1, <2>1, <2>2, HeldMade DEF CustodyOK, Apart
  <2>4. Kept'
    <3>1. ASSUME NEW d \in open'
          PROVE  d \in (Channel \cup Hold \cup Keep)' \/ \E u \in Client : call'[u].conn = d
      BY <3>1, <1>1, <2>1, <2>2 DEF CustodyOK, Kept
    <3>2. \A u \in Client : call'[u].conn \in 0..born'
      BY <1>3, <2>1, <2>2, HeldMade DEF Nil
    <3>3. QED
      BY <1>2, <1>3, <2>1, <2>2, <3>1, <3>2 DEF Kept
  <2>5. QED
    BY <2>3, <2>4 DEF CustodyOK
<1>7. CASE Makes(t)
  <2>1. Channel' = Channel /\ Distinct(connections)' = Distinct(connections)
    BY <1>7 DEF Makes, Channel
  <2>2. /\ call'[t].conn = born + 1 /\ open' = open \cup {born + 1} /\ born' = born + 1
        /\ \A u \in Client : u # t => call'[u].conn = call[u].conn
    BY <1>7 DEF Makes, Moved
  <2>3. Apart'
    BY <1>1, <1>3, <2>1, <2>2, HeldMade DEF CustodyOK, Apart
  <2>4. Kept'
    <3>1. ASSUME NEW d \in open'
          PROVE  d \in (Channel \cup Hold \cup Keep)' \/ \E u \in Client : call'[u].conn = d
      <4>1. CASE d = born + 1
        BY <4>1, <2>2
      <4>2. CASE d \in open
        <5>1. d # Nil /\ call[t].conn = Nil
          BY <4>2, <1>3, <1>7, HeldMade DEF Makes, Nil
        <5>2. d \in Channel \cup Hold \cup Keep \/ \E u \in Client : call[u].conn = d
          BY <4>2 DEF CustodyOK, Kept
        <5>3. QED
          BY <5>1, <5>2, <1>1, <2>1, <2>2
      <4>3. QED
        BY <3>1, <4>1, <4>2, <2>2
    <3>2. \A u \in Client : call'[u].conn \in 0..born'
      BY <1>3, <2>2, HeldMade
    <3>3. open' \subseteq 1..born'
      <4>1. born \in Nat
        BY HeldMade
      <4>2. \A d \in 1..born : d \in 1..(born + 1)
        BY <4>1
      <4>3. born + 1 \in 1..(born + 1)
        BY <4>1
      <4>4. QED
        BY <4>2, <4>3, <2>2, <1>3
    <3>4. QED
      BY <1>2, <3>1, <3>2, <3>3 DEF Kept
  <2>5. QED
    BY <2>3, <2>4 DEF CustodyOK
<1>8. CASE Gives(t)
  <2> DEFINE c == call[t].conn
  <2>1. /\ c \in Conn /\ c # Nil /\ c \notin Channel
        /\ Channel' = Channel \cup {c} /\ Distinct(connections')
    <3>1. c \in Conn /\ connections' = Append(connections, c)
      BY <1>8 DEF Gives
    <3>2. c \notin Elems(connections) /\ Distinct(connections)
      BY DEF CustodyOK, Apart, Channel
    <3>3. c # Nil
      BY <3>1 DEF Conn, Nil
    <3> HIDE DEF c
    <3>4. QED
      BY <1>3, <3>1, <3>2, <3>3, AppendElems DEF Channel
  <2>2. /\ call'[t].conn = Nil /\ open' = open /\ born' = born
        /\ \A u \in Client : u # t => call'[u].conn = call[u].conn
    BY <1>8 DEF Gives, Moved
  <2>3. Apart'
    BY <1>1, <2>1, <2>2, HeldMade DEF CustodyOK, Apart
  <2>4. Kept'
    BY <1>1, <1>2, <2>1, <2>2, HeldMade DEF CustodyOK, Kept, Nil
  <2>5. QED
    BY <2>3, <2>4 DEF CustodyOK
<1>9. CASE Panics
  BY <1>1, <1>2, <1>9 DEF Panics, CustodyOK, Apart, Kept, Channel, Hold, Keep
<1>10. QED
  BY <1>1, <1>4, <1>5, <1>6, <1>7, <1>8, <1>9
-----------------------------------------------------------------------------
(* Which connections are open, and which of those are in the map.          *)

\* A label of the client promises an open connection.
Promised(f) ==
  \/ f.pc \in Sure
  \/ f.pc \in InUse /\ closer \in Early

\* The step of a client keeps the promise of the label it comes to, and takes
\* a connection in use out of the map or closes it when it stops using it.
LEMMA ClientPromise ==
  ASSUME PoolTypeOK, ShapeOK, HeldOpen, NEW t \in Client, ClientStep(t)
  PROVE  /\ Promised(call[t])' => call'[t].conn \in open'
         /\ call[t].pc \in InUse /\ call[t].conn \in active' \cap open'
              => call'[t].pc \in InUse /\ call'[t].conn = call[t].conn
         /\ \/ active' \subseteq active
            \/ /\ active' = active \cup {call'[t].conn}
               /\ call'[t].pc \in InUse
<1>1. /\ Promised(call[t]) => call[t].conn \in open
      /\ closer' = closer
      /\ connections # <<>> => Head(connections) \in open
  <2>1. ASSUME connections # <<>> PROVE Head(connections) \in Elems(connections)
    BY <2>1, HeadTailProperties, EmptySeq DEF PoolTypeOK, Elems
  <2>2. QED
    BY <2>1, ClientKinds DEF HeldOpen, Promised, Channel
<1>2. CASE Get(t)
  <2>1. Moved(t, "select", call[t].conn) /\ active' = active /\ call[t].pc = "out"
    BY <1>2, GotoMoves DEF Get, At, ClientPC
  <2>2. QED
    BY <2>1 DEF Moved, Promised, Sure, InUse
<1>3. CASE GetSelect(t)
  <2>1. active' = active /\ open' = open /\ call[t].pc = "select"
    BY <1>3 DEF GetSelect, At
  <2>2. CASE Receive(t, "counted", FALSE)
    <3>1. connections # <<>> /\ Moved(t, "counted", Head(connections))
      BY <2>2, ReceiveMoves DEF ClientPC
    <3>2. QED
      BY <2>1, <3>1, <1>1 DEF Moved, Promised, Sure, InUse
  <2>3. CASE Goto(t, "reserve")
    <3>1. Moved(t, "reserve", call[t].conn)
      BY <2>3, GotoMoves DEF ClientPC
    <3>2. QED
      BY <2>1, <3>1 DEF Moved, Promised, Sure, InUse
  <2>4. CASE call' = call
    BY <2>1, <2>4 DEF Promised, Sure, InUse
  <2>5. QED
    BY <1>3, <2>2, <2>3, <2>4 DEF GetSelect
<1>4. CASE CountOut(t)
  <2>1. /\ Moved(t, "validate", call[t].conn) /\ active' = active /\ open' = open
        /\ call[t].pc = "counted"
    BY <1>4, GotoMoves DEF CountOut, At, ClientPC
  <2>2. QED
    BY <2>1, <1>1 DEF Moved, Promised, Sure, InUse
<1>5. CASE Validate(t)
  <2>1. active' = active /\ call[t].pc = "validate"
    BY <1>5 DEF Validate, At
  <2>2. CASE call[t].conn \in open /\ Goto(t, "track") /\ open' = open
    <3>1. Moved(t, "track", call[t].conn)
      BY <2>2, GotoMoves DEF ClientPC
    <3>2. QED
      BY <2>1, <2>2, <3>1 DEF Moved, Promised, Sure, InUse
  <2>3. CASE Drop(t, "reserve")
    <3>1. Moved(t, "reserve", Nil)
      BY <2>3, DropMoves DEF ClientPC
    <3>2. QED
      BY <2>1, <3>1 DEF Moved, Promised, Sure, InUse
  <2>4. QED
    BY <1>5, <2>2, <2>3 DEF Validate
<1>6. CASE Track(t)
  <2>1. /\ Moved(t, "holding", call[t].conn) /\ open' = open /\ call[t].pc = "track"
        /\ active' = active \cup {call[t].conn}
    BY <1>6, GotoMoves DEF Track, At, ClientPC
  <2>2. QED
    BY <2>1, <1>1 DEF Moved, Promised, Sure, InUse
<1>7. CASE Reserve(t)
  <2>1. /\ \E n \in {"wait", "create"} : Moved(t, n, call[t].conn)
        /\ active' = active /\ call[t].pc = "reserve"
    BY <1>7, GotoMoves DEF Reserve, At, ClientPC
  <2>2. QED
    BY <2>1 DEF Moved, Promised, Sure, InUse
<1>8. CASE Wait(t)
  <2>1. active' = active /\ open' = open /\ call[t].pc = "wait"
    BY <1>8 DEF Wait, At
  <2>2. CASE Receive(t, "counted", TRUE)
    <3>1. connections # <<>> /\ Moved(t, "counted", Head(connections))
      BY <2>2, ReceiveMoves DEF ClientPC
    <3>2. QED
      BY <2>1, <3>1, <1>1 DEF Moved, Promised, Sure, InUse
  <2>3. CASE Return(t)
    <3>1. Moved(t, "out", Nil)
      BY <2>3, DropMoves
    <3>2. QED
      BY <2>1, <3>1 DEF Moved, Promised, Sure, InUse
  <2>4. CASE call' = call
    BY <2>1, <2>4 DEF Promised, Sure, InUse
  <2>5. QED
    BY <1>8, <2>2, <2>3, <2>4 DEF Wait
<1>9. CASE Create(t)
  <2>1. active' = active /\ call[t].pc = "create"
    BY <1>9 DEF Create, At
  <2>2. CASE Carry(t, "track", born + 1, FALSE) /\ born < Created /\ open' = open \cup {born + 1}
    <3>1. born + 1 \in Conn
      BY <2>2, PoolAssumption DEF PoolTypeOK, Conn
    <3>2. Moved(t, "track", born + 1)
      BY <2>2, <3>1, CarryMoves DEF ClientPC
    <3>3. QED
      BY <2>1, <2>2, <3>2 DEF Moved, Promised, Sure, InUse
  <2>3. CASE Return(t)
    <3>1. Moved(t, "out", Nil)
      BY <2>3, DropMoves
    <3>2. QED
      BY <2>1, <3>1 DEF Moved, Promised, Sure, InUse
  <2>4. QED
    BY <1>9, <2>2, <2>3 DEF Create
<1>10. CASE Put(t)
  <2>1. active' = active /\ call[t].pc = "holding"
    BY <1>10 DEF Put, At
  <2>2. CASE Goto(t, "untrack") /\ open' = open
    <3>1. Moved(t, "untrack", call[t].conn)
      BY <2>2, GotoMoves DEF ClientPC
    <3>2. QED
      BY <2>1, <2>2, <3>1, <1>1 DEF Moved, Promised, Sure, InUse
  <2>3. CASE open' = open \ {call[t].conn} /\ Return(t)
    <3>1. Moved(t, "out", Nil)
      BY <2>3, DropMoves
    <3>2. QED
      BY <2>1, <2>3, <3>1 DEF Moved, Promised, Sure, InUse
  <2>4. QED
    BY <1>10, <2>2, <2>3 DEF Put
<1>11. CASE Untrack(t)
  <2>1. /\ Moved(t, "inspect", call[t].conn) /\ active' = active \ {call[t].conn}
    BY <1>11, GotoMoves DEF Untrack, ClientPC
  <2>2. QED
    BY <2>1 DEF Moved, Promised, Sure, InUse
<1>12. CASE Inspect(t)
  <2>1. active' = active /\ call[t].pc = "inspect"
    BY <1>12 DEF Inspect, At
  <2>2. CASE call[t].conn \in open /\ Goto(t, "putBack") /\ open' = open
    <3>1. Moved(t, "putBack", call[t].conn)
      BY <2>2, GotoMoves DEF ClientPC
    <3>2. QED
      BY <2>1, <2>2, <3>1 DEF Moved, Promised, Sure, InUse
  <2>3. CASE Return(t)
    <3>1. Moved(t, "out", Nil)
      BY <2>3, DropMoves
    <3>2. QED
      BY <2>1, <3>1 DEF Moved, Promised, Sure, InUse
  <2>4. QED
    BY <1>12, <2>2, <2>3 DEF Inspect, Discard
<1>13. CASE PutBack(t)
  <2>1. active' = active /\ call[t].pc = "putBack"
    BY <1>13 DEF PutBack, At
  <2>2. CASE call' = call /\ open' = open
    BY <2>1, <2>2, <1>1 DEF Promised, Sure, InUse
  <2>3. CASE Drop(t, "putCount") \/ Return(t)
    <3>1. \E n \in {"putCount", "out"} : Moved(t, n, Nil)
      BY <2>3, DropMoves DEF ClientPC
    <3>2. QED
      BY <2>1, <3>1 DEF Moved, Promised, Sure, InUse
  <2>4. QED
    BY <1>13, <2>2, <2>3 DEF PutBack, Discard
<1>14. CASE PutCount(t)
  <2>1. Moved(t, "out", Nil) /\ active' = active /\ call[t].pc = "putCount"
    BY <1>14, DropMoves DEF PutCount, At
  <2>2. QED
    BY <2>1 DEF Moved, Promised, Sure, InUse
<1>15. QED
  BY <1>2, <1>3, <1>4, <1>5, <1>6, <1>7, <1>8, <1>9, <1>10, <1>11, <1>12,
     <1>13, <1>14 DEF ClientStep, Inside

LEMMA ClientOpen ==
  ASSUME PoolTypeOK, ShapeOK, OpenOK, CustodyOK, NEW t \in Client, ClientStep(t)
  PROVE  OpenOK'
<1>1. /\ Hold' = Hold /\ Keep' = Keep /\ closer' = closer
      /\ Stays(t) \/ Takes(t) \/ Sheds(t) \/ Makes(t) \/ Gives(t) \/ Panics
  BY ClientKinds DEF Hold, Keep
<1>2. /\ Promised(call[t])' => call'[t].conn \in open'
      /\ call[t].pc \in InUse /\ call[t].conn \in active' \cap open'
           => call'[t].pc \in InUse /\ call'[t].conn = call[t].conn
      /\ \/ active' \subseteq active
         \/ /\ active' = active \cup {call'[t].conn}
            /\ call'[t].pc \in InUse
  BY ClientPromise DEF OpenOK
<1>3. \A u \in Client : u # t => call'[u] = call[u]
  BY <1>1 DEF Stays, Takes, Sheds, Makes, Gives, Panics, Moved
<1>4. /\ Channel \subseteq open /\ Hold \subseteq open /\ Keep \subseteq open
      /\ \A u \in Client : Promised(call[u]) => call[u].conn \in open
  BY DEF OpenOK, HeldOpen, Promised
<1>5. /\ open \subseteq 1..born /\ active \subseteq 1..born /\ born \in Nat
      /\ Nil \notin open
      /\ call[t].conn \notin Channel \cup Hold \cup Keep
      /\ \A u \in Client : call[u].conn = call[t].conn /\ call[u].conn # Nil => u = t
  BY HeldMade DEF OpenOK, CustodyOK, Apart, Kept, Nil
\* What stays open, and what is new.
<1>6. /\ \A d \in open : d \in open' \/ d = call[t].conn
      /\ \A d \in open' : d \in open \/ d = born + 1
  BY <1>1 DEF Stays, Takes, Sheds, Makes, Gives, Panics
<1>7. Hold' \subseteq open' /\ Keep' \subseteq open'
  BY <1>1, <1>4, <1>5, <1>6
<1>8. Channel' \subseteq open'
  <2>1. CASE Takes(t)
    <3>1. Channel' \subseteq Channel /\ open' = open
      BY <2>1, TailElems DEF Takes, Channel, PoolTypeOK, CustodyOK, Apart
    <3>2. QED
      BY <3>1, <1>4
  <2>2. CASE Gives(t)
    <3>1. Channel' = Channel \cup {call[t].conn} /\ open' = open
      BY <2>2, AppendElems DEF Gives, Channel, PoolTypeOK
    <3>2. call[t].conn \in open
      BY <2>2, <1>4 DEF Gives, Promised, Sure
    <3>3. QED
      BY <3>1, <3>2, <1>4
  <2>3. CASE connections' = connections
    BY <2>3, <1>4, <1>5, <1>6 DEF Channel
  <2>4. QED
    BY <1>1, <2>1, <2>2, <2>3 DEF Stays, Sheds, Makes, Panics
<1>9. ASSUME NEW u \in Client, Promised(call[u])' PROVE call'[u].conn \in open'
  <2>1. CASE u = t
    BY <2>1, <1>2, <1>9
  <2>2. CASE u # t
    <3>1. Promised(call[u]) /\ call'[u] = call[u]
      BY <1>9, <2>2, <1>1, <1>3 DEF Promised
    <3>2. call[u].conn \in open /\ call[u].conn # call[t].conn
      BY <3>1, <2>2, <1>4, <1>5
    <3>3. QED
      BY <3>1, <3>2, <1>6
  <2>3. QED
    BY <2>1, <2>2
<1>10. HeldOpen'
  BY <1>7, <1>8, <1>9 DEF HeldOpen, Promised
<1>11. ActiveInUse'
  <2> SUFFICES ASSUME NEW c \in active' \cap open'
               PROVE  \E u \in Client : call'[u].pc \in InUse /\ call'[u].conn = c
    BY DEF ActiveInUse
  <2>1. CASE c \in active
    <3>1. c \in open
      BY <2>1, <1>5, <1>6
    <3>2. PICK u \in Client : call[u].pc \in InUse /\ call[u].conn = c
      BY <2>1, <3>1 DEF OpenOK, ActiveInUse
    <3>3. QED
      BY <3>2, <1>2, <1>3
  <2>2. CASE c \notin active
    BY <2>2, <1>2
  <2>3. QED
    BY <2>1, <2>2
<1>12. QED
  BY <1>10, <1>11 DEF OpenOK

-----------------------------------------------------------------------------
(* The counter of connections.                                             *)

Creating == {t \in Client : call[t].pc = "create"}

\* The cardinalities are of finite sets.
LEMMA CountsType ==
  ASSUME PoolTypeOK
  PROVE  /\ IsFiniteSet(open) /\ IsFiniteSet(Creating)
         /\ Cardinality(open) \in Nat /\ Reserved \in Nat /\ total \in Int
         /\ Reserved = Cardinality(Creating)
         /\ MaxConnections \in Nat
<1>1. IsFiniteSet(open)
  <2>1. Created \in Int /\ open \in SUBSET (1..Created)
    BY PoolAssumption DEF PoolTypeOK, Conn
  <2>2. IsFiniteSet(1..Created)
    BY <2>1, FS_Interval
  <2>3. QED
    BY <2>1, <2>2, FS_Subset
<1>2. IsFiniteSet(Creating)
  BY PoolAssumption, FS_Subset DEF Creating
<1>3. Reserved = Cardinality(Creating)
  BY DEF Reserved, Creating
<1>4. Cardinality(open) \in Nat /\ Cardinality(Creating) \in Nat
  BY <1>1, <1>2, FS_CardinalityType
<1>5. MaxConnections \in Nat /\ total \in Int
  BY PoolAssumption DEF PoolTypeOK
<1>6. QED
  BY <1>1, <1>2, <1>3, <1>4, <1>5

\* Only the step of Reserve enters Create, and only Create leaves it.
LEMMA ClientCounts ==
  ASSUME PoolTypeOK, ShapeOK, OpenOK, CustodyOK, CountsOK, NEW t \in Client, ClientStep(t)
  PROVE  CountsOK'
<1>1. /\ IsFiniteSet(open) /\ IsFiniteSet(Creating)
      /\ Cardinality(open) \in Nat /\ Reserved \in Nat /\ total \in Int
      /\ Reserved = Cardinality(Creating) /\ Reserved' = Cardinality(Creating')
      /\ MaxConnections \in Nat
      /\ Cardinality(open) + Reserved <= total /\ total <= MaxConnections + 1
      /\ maint.pc = "create" => total <= MaxConnections
  BY CountsType DEF CountsOK, Reserved, Creating
<1>2. maint' = maint
  BY ClientKinds
<1>3. CASE Reserve(t)
  <2>1. open' = open
    BY <1>3 DEF Reserve
  <2>2. CASE Goto(t, "wait") /\ total' = total
    <3>1. Moved(t, "wait", call[t].conn) /\ call[t].pc = "reserve"
      BY <1>3, <2>2, GotoMoves DEF ClientPC, Reserve, At
    <3>2. Creating' = Creating
      BY <3>1 DEF Moved, Creating
    <3>3. QED
      BY <1>1, <1>2, <2>1, <2>2, <3>2 DEF CountsOK
  <2>3. CASE Goto(t, "create") /\ total < MaxConnections /\ total' = total + 1
    <3>1. Moved(t, "create", call[t].conn) /\ call[t].pc = "reserve"
      BY <1>3, <2>3, GotoMoves DEF ClientPC, Reserve, At
    <3>2. Creating' = Creating \cup {t} /\ t \notin Creating
      BY <3>1 DEF Moved, Creating
    <3>3. Cardinality(Creating') = Cardinality(Creating) + 1
      BY <3>2, <1>1, FS_AddElement
    <3>4. QED
      BY <1>1, <1>2, <2>1, <2>3, <3>3 DEF CountsOK
  <2>4. QED
    BY <1>3, <2>2, <2>3 DEF Reserve
<1>4. CASE Create(t)
  <2>1. call[t].pc = "create"
    BY <1>4 DEF Create, At
  <2>2. ASSUME NEW n \in ClientPC, NEW c, Moved(t, n, c), n # "create"
        PROVE  Cardinality(Creating') = Cardinality(Creating) - 1
    <3>1. Creating' = Creating \ {t} /\ t \in Creating
      BY <2>1, <2>2 DEF Moved, Creating
    <3>2. QED
      BY <3>1, <1>1, FS_RemoveElement
  <2>3. CASE /\ born < Created /\ open' = open \cup {born + 1} /\ total' = total
             /\ Carry(t, "track", born + 1, FALSE)
    <3>1. born + 1 \in Conn
      BY <2>3, PoolAssumption DEF PoolTypeOK, Conn
    <3>2. Moved(t, "track", born + 1)
      BY <2>3, <3>1, CarryMoves DEF ClientPC
    <3>3. Cardinality(open') = Cardinality(open) + 1 \/ Cardinality(open') = Cardinality(open)
      BY <2>3, <1>1, FS_AddElement
    <3>4. Cardinality(Creating') = Cardinality(Creating) - 1
      BY <3>2, <2>2 DEF ClientPC
    <3>5. QED
      BY <1>1, <1>2, <2>3, <3>3, <3>4 DEF CountsOK
  <2>4. CASE Return(t) /\ open' = open /\ total' = total - 1
    <3>1. Moved(t, "out", Nil)
      BY <2>4, DropMoves
    <3>2. Cardinality(Creating') = Cardinality(Creating) - 1
      BY <3>1, <2>2 DEF ClientPC
    <3>3. QED
      BY <1>1, <1>2, <2>4, <3>2 DEF CountsOK
  <2>5. QED
    BY <1>4, <2>3, <2>4 DEF Create
<1>5. CASE Validate(t)
  <2>1. Creating' = Creating
    <3>1. \E n \in {"track", "reserve"}, c \in Conn \cup {Nil} : Moved(t, n, c) /\ call[t].pc = "validate"
      BY <1>5, GotoMoves, DropMoves DEF Validate, At, ClientPC, PoolTypeOK, Call
    <3>2. QED
      BY <3>1 DEF Moved, Creating
  <2>2. CASE open' = open /\ total' = total
    BY <1>1, <1>2, <2>1, <2>2 DEF CountsOK
  <2>3. CASE open' = open \ {call[t].conn} /\ total' \in {total, total - 1}
    <3>1. call[t].conn \in open
      BY <1>5 DEF Validate, At, OpenOK, HeldOpen, Sure
    <3>2. Cardinality(open') = Cardinality(open) - 1
      BY <2>3, <3>1, <1>1, FS_RemoveElement
    <3>3. QED
      BY <1>1, <1>2, <2>1, <2>3, <3>2 DEF CountsOK
  <2>4. QED
    BY <1>5, <2>2, <2>3 DEF Validate
<1>6. CASE ~Reserve(t) /\ ~Create(t) /\ ~Validate(t)
  <2>1. total' = total /\ open' \subseteq open
    BY <1>6 DEF ClientStep, Inside, Get, Put, GetSelect, CountOut, Track, Wait,
           Untrack, Inspect, PutBack, PutCount, Discard, counters
  <2>2. Creating' \subseteq Creating
    <3>1. CASE call' = call
      BY <3>1 DEF Creating
    <3>2. CASE \E n \in ClientPC, c \in Conn \cup {Nil} : Moved(t, n, c) /\ n # "create"
      BY <3>2 DEF Moved, Creating
    <3>3. call[t].conn \in Conn \cup {Nil} /\ (connections # <<>> => Head(connections) \in Conn)
      BY HeadOfConns DEF PoolTypeOK, Call
    <3>4. QED
      BY <1>6, <3>1, <3>2, <3>3, GotoMoves, DropMoves, ReceiveMoves
         DEF ClientStep, Inside, Get, Put, GetSelect, CountOut, Track, Wait,
           Untrack, Inspect, PutBack, PutCount, Discard, ReceiveNil, ClientPC
  <2>3. Cardinality(open') <= Cardinality(open) /\ Cardinality(open') \in Nat
    BY <2>1, <1>1, FS_Subset, FS_CardinalityType
  <2>4. Cardinality(Creating') <= Cardinality(Creating) /\ Cardinality(Creating') \in Nat
    BY <2>2, <1>1, FS_Subset, FS_CardinalityType
  <2>5. QED
    BY <1>1, <1>2, <2>1, <2>3, <2>4 DEF CountsOK
<1>7. QED
  BY <1>3, <1>4, <1>5, <1>6

-----------------------------------------------------------------------------
(* The maintenance goroutine.                                              *)

\* The record of the goroutine, field by field.
MaintIs(label, hold, keep) ==
  /\ maint' \in Maint
  /\ maint'.pc = label /\ maint'.hold = hold /\ maint'.keep = keep

LEMMA MaintFields ==
  ASSUME PoolTypeOK
  PROVE  /\ maint.pc \in MaintPC /\ maint.hold \in Seq(Conn) /\ maint.keep \in Seq(Conn)
         /\ maint.need \in Nat
         /\ connections \in Seq(Conn) /\ Len(connections) \in Nat
         /\ Len(connections) <= MaxConnections
         /\ MaxConnections \in Nat /\ Created \in Nat /\ MinIdle \in Nat /\ <<>> \in Seq(Conn)
         /\ total \in Int /\ idleCount \in Int /\ born \in Nat /\ born <= Created
         /\ open \subseteq Conn
<1>1. MaxConnections \in Nat /\ Created \in Nat /\ MinIdle \in Nat
  BY PoolAssumption
<1>2. QED
  BY <1>1, LenProperties, EmptySeq DEF PoolTypeOK, Maint

\* What is common to the types after every step of the maintenance.
LEMMA MaintFrame ==
  ASSUME PoolTypeOK, ShapeOK, MaintStep
  PROVE  /\ UNCHANGED clientSide
         /\ ~shut /\ closer \in {"none", "stop"}
         /\ maint.pc # "exited"
         /\ \A label, hold, keep :
              /\ MaintIs(label, hold, keep)
              /\ connections' \in Seq(Conn) /\ Len(connections') <= MaxConnections
              /\ total' \in Int /\ idleCount' \in Int /\ born' \in 0..Created
              /\ open' \subseteq Conn
              /\ label = "exited" => closer # "none"
              /\ label \in {"tick", "minimum", "check", "create", "exited", "send", "return"}
                   => hold = <<>>
              /\ label \in {"tick", "minimum", "check", "create", "exited", "collect",
                            "discard", "sample"}
                   => keep = <<>>
              /\ label \in {"back", "send"} => Len(keep) = 1
              => PoolTypeOK' /\ ShapeOK'
<1>1. maint.pc # "exited" /\ UNCHANGED clientSide
  BY DEF MaintStep, MaintAt, Tick, Collect, CollectBack, DiscardExpired, Minimum,
         MinimumCheck, MinimumCreate, MinimumSend, Sample, Test, ReturnSample
<1>2. ~shut
  BY <1>1 DEF ShapeOK, CloserShape
<1>3. closer \in {"none", "stop"}
  BY <1>2 DEF ShapeOK, CloserShape
<1> SUFFICES ASSUME NEW label, NEW hold, NEW keep,
                    MaintIs(label, hold, keep),
                    connections' \in Seq(Conn), Len(connections') <= MaxConnections,
                    total' \in Int, idleCount' \in Int, born' \in 0..Created,
                    open' \subseteq Conn,
                    label = "exited" => closer # "none",
                    label \in {"tick", "minimum", "check", "create", "exited", "send", "return"}
                      => hold = <<>>,
                    label \in {"tick", "minimum", "check", "create", "exited", "collect",
                               "discard", "sample"}
                      => keep = <<>>,
                    label \in {"back", "send"} => Len(keep) = 1
             PROVE  PoolTypeOK' /\ ShapeOK'
  BY <1>1, <1>2, <1>3
<1>4. PoolTypeOK'
  BY <1>1 DEF clientSide, PoolTypeOK, MaintIs
<1>5. CallShape'
  BY <1>1 DEF clientSide, ShapeOK, CallShape
<1>6. MaintShape'
  BY DEF MaintShape, MaintIs
<1>7. CloserShape'
  BY <1>1, <1>2, <1>3 DEF clientSide, ShapeOK, CloserShape, MaintIs
<1>8. QED
  BY <1>4, <1>5, <1>6, <1>7 DEF ShapeOK

Store == Channel \cup Hold \cup Keep

Separate ==
  /\ Distinct(connections) /\ Distinct(maint.hold) /\ Distinct(maint.keep)
  /\ Channel \cap Hold = {} /\ Channel \cap Keep = {} /\ Hold \cap Keep = {}

\* A step rearranges what is in store, closes one of it, or adds a new one.
Rearranged ==
  /\ Separate' /\ Store' = Store
  /\ UNCHANGED <<open, born, total>>
  /\ maint'.pc = "create" => total < MaxConnections

ClosesOne ==
  /\ Separate'
  /\ \E c \in Store : Store' = Store \ {c} /\ open' = open \ {c}
  /\ total' = total - 1 /\ born' = born /\ maint'.pc # "create"

AddsOne ==
  /\ Separate' /\ Store' = Store \cup {born + 1}
  /\ open' = open \cup {born + 1} /\ born' = born + 1
  /\ born < Created /\ maint.pc = "create"
  /\ total' = total + 1 /\ maint'.pc # "create"

Effect == Rearranged \/ ClosesOne \/ AddsOne

\* Facts about the stored sequences that the lemmas below share.
LEMMA SeparateNow ==
  ASSUME CustodyOK
  PROVE  Separate
  BY DEF CustodyOK, Apart, Separate

LEMMA TickEffect ==
  ASSUME PoolTypeOK, ShapeOK, Separate, Tick
  PROVE  Effect /\ PoolTypeOK' /\ ShapeOK'
<1>1. /\ maint.pc = "tick" /\ maint.hold = <<>> /\ maint.keep = <<>>
      /\ UNCHANGED <<connections, total, idleCount, open, born>>
  BY DEF Tick, MaintAt, ShapeOK, MaintShape
<1>2. \E n \in {"exited", "collect", "sample"} :
        MaintIs(n, <<>>, <<>>) /\ (n = "exited" => closer # "none")
  <2>1. CASE maint' = [maint EXCEPT !.pc = "exited"] /\ closer # "none"
    BY <1>1, <2>1, MaintFields DEF PoolTypeOK, MaintIs, Maint, MaintPC
  <2>2. CASE maint' = [Ticking EXCEPT !.pc = "collect"]
    BY <2>2, MaintFields DEF Ticking, MaintIs, Maint, MaintPC
  <2>3. CASE maint' = [Ticking EXCEPT !.pc = "sample", !.need = 3]
    BY <2>3, MaintFields DEF Ticking, MaintIs, Maint, MaintPC
  <2>4. QED
    BY <2>1, <2>2, <2>3 DEF Tick
<1>3. maint'.hold = maint.hold /\ maint'.keep = maint.keep /\ maint'.pc # "create"
  BY <1>1, <1>2 DEF MaintIs
<1>4. Rearranged
  BY <1>1, <1>3 DEF Rearranged, Separate, Store, Channel, Hold, Keep
<1>5. PoolTypeOK' /\ ShapeOK'
  BY <1>1, <1>2, MaintFields, MaintFrame DEF MaintStep
<1>6. QED
  BY <1>4, <1>5 DEF Effect

LEMMA CollectEffect ==
  ASSUME PoolTypeOK, ShapeOK, Separate, Collect
  PROVE  Effect /\ PoolTypeOK' /\ ShapeOK'
<1> DEFINE c == Head(connections)
<1>1. /\ maint.pc = "collect" /\ maint.keep = <<>>
      /\ UNCHANGED <<total, open, born>>
      /\ idleCount' \in {idleCount, idleCount - 1}
  BY DEF Collect, MaintAt, ShapeOK, MaintShape
<1>2. CASE connections = <<>> /\ connections' = connections /\ maint' = [maint EXCEPT !.pc = "discard"]
  <2>1. MaintIs("discard", maint.hold, <<>>)
    BY <1>1, <1>2, MaintFields DEF PoolTypeOK, MaintIs, Maint, MaintPC
  <2>2. Rearranged
    BY <1>1, <1>2, <2>1 DEF Rearranged, Separate, Store, Channel, Hold, Keep, MaintIs
  <2>3. QED
    BY <1>1, <1>2, <2>1, <2>2, MaintFields, MaintFrame DEF MaintStep, Effect
<1>3. CASE connections # <<>> /\ connections' = Tail(connections)
  <2>1. /\ c \in Conn /\ c \in Channel /\ Channel' = Channel \ {c} /\ Distinct(connections')
        /\ connections' \in Seq(Conn) /\ Len(connections') <= MaxConnections
        /\ c \notin Hold
    BY <1>3, MaintFields, TailElems, HeadOfConns DEF Separate, Channel
  <2> HIDE DEF c
  <2>2. CASE maint' = [maint EXCEPT !.hold = Append(@, c)]
    <3>1. /\ MaintIs("collect", Append(maint.hold, c), <<>>)
      BY <1>1, <2>1, <2>2, MaintFields, AppendProperties DEF PoolTypeOK, MaintIs, Maint
    <3>2. Hold' = Hold \cup {c} /\ Distinct(maint'.hold)
      BY <2>1, <3>1, MaintFields, AppendElems DEF Hold, Separate, MaintIs
    <3>3. Keep' = Keep /\ Distinct(maint'.keep)
      BY <1>1, <3>1 DEF Keep, MaintIs, Separate
    <3>4. Separate' /\ Store' = Store
      BY <2>1, <3>2, <3>3 DEF Separate, Store
    <3>5. Rearranged
      BY <1>1, <3>1, <3>4 DEF Rearranged, MaintIs
    <3>6. QED
      BY <1>1, <2>1, <3>1, <3>5, MaintFields, MaintFrame DEF MaintStep, Effect
  <2>3. CASE maint' = [maint EXCEPT !.pc = "back", !.keep = <<c>>]
    <3>1. <<c>> \in Seq(Conn) /\ Len(<<c>>) = 1 /\ Elems(<<c>>) = {c} /\ Distinct(<<c>>)
      BY <2>1, OneElem
    <3>2. /\ MaintIs("back", maint.hold, <<c>>)
      BY <1>1, <2>1, <2>3, <3>1, MaintFields DEF PoolTypeOK, MaintIs, Maint, MaintPC
    <3>3. Hold' = Hold /\ Distinct(maint'.hold)
      BY <3>2 DEF Hold, Separate, MaintIs
    <3>4. Keep' = {c} /\ Distinct(maint'.keep) /\ Keep = {}
      BY <1>1, <3>1, <3>2, EmptyElems DEF Keep, MaintIs
    <3>5. Separate' /\ Store' = Store
      BY <2>1, <3>3, <3>4 DEF Separate, Store
    <3>6. Rearranged
      BY <1>1, <3>2, <3>5 DEF Rearranged, MaintIs
    <3>7. QED
      BY <1>1, <2>1, <3>1, <3>2, <3>6, MaintFields, MaintFrame DEF MaintStep, Effect
  <2>4. QED
    BY <1>3, <2>2, <2>3 DEF Collect, c
<1>4. QED
  BY <1>2, <1>3 DEF Collect

LEMMA CollectBackEffect ==
  ASSUME PoolTypeOK, ShapeOK, Separate, CollectBack
  PROVE  Effect /\ PoolTypeOK' /\ ShapeOK'
<1> DEFINE c == Head(maint.keep)
<1>1. /\ maint.pc = "back" /\ Len(maint.keep) = 1
      /\ UNCHANGED <<total, open, born>>
      /\ idleCount' \in {idleCount, idleCount - 1}
  BY DEF CollectBack, MaintAt, ShapeOK, MaintShape
<1>2. /\ c \in Conn /\ Keep = {c}
      /\ \A r \in Seq(Conn) : r \o maint.keep = Append(r, c)
  BY <1>1, MaintFields, SingletonElems DEF Keep
<1>3. c \notin Channel /\ c \notin Hold
  BY <1>2 DEF Separate
<1> HIDE DEF c
<1>4. ASSUME maint'.keep = <<>> PROVE Keep' = {} /\ Distinct(maint'.keep)
  BY <1>4, EmptyElems DEF Keep
<1>5. CASE /\ Len(connections) < MaxConnections
           /\ connections' = connections \o maint.keep
           /\ maint' = [maint EXCEPT !.pc = "discard", !.keep = <<>>]
  <2>1. MaintIs("discard", maint.hold, <<>>)
    BY <1>5, MaintFields DEF PoolTypeOK, MaintIs, Maint, MaintPC
  <2>2. connections' = Append(connections, c)
    BY <1>2, <1>5, MaintFields
  <2>3. /\ connections' \in Seq(Conn) /\ Len(connections') <= MaxConnections
    BY <1>2, <1>5, <2>2, MaintFields, AppendProperties
  <2>4. Channel' = Channel \cup {c} /\ Distinct(connections')
    BY <1>2, <1>3, <2>2, MaintFields, AppendElems DEF Channel, Separate
  <2>5. Separate' /\ Store' = Store
    BY <1>2, <1>3, <1>4, <2>1, <2>4 DEF Separate, Store, Hold, MaintIs
  <2>6. Rearranged
    BY <1>1, <2>1, <2>5 DEF Rearranged, MaintIs
  <2>7. QED
    BY SMTT(20), <1>1, <2>1, <2>3, <2>6, MaintFields, MaintFrame DEF MaintStep, Effect
<1>6. CASE /\ connections' = connections
           /\ maint' = [maint EXCEPT !.pc = "discard", !.keep = <<>>,
                                     !.hold = @ \o maint.keep]
  <2>1. maint.hold \o maint.keep = Append(maint.hold, c)
    BY <1>2, MaintFields
  <2>2. Append(maint.hold, c) \in Seq(Conn)
    BY <1>2, MaintFields, AppendProperties
  <2>3. MaintIs("discard", Append(maint.hold, c), <<>>)
    BY <1>6, <2>1, <2>2, MaintFields DEF PoolTypeOK, MaintIs, Maint, MaintPC
  <2>4. Hold' = Hold \cup {c} /\ Distinct(maint'.hold)
    BY <1>2, <1>3, <2>3, MaintFields, AppendElems DEF Hold, Separate, MaintIs
  <2>5. Separate' /\ Store' = Store
    BY <1>2, <1>3, <1>4, <1>6, <2>3, <2>4 DEF Separate, Store, Channel, MaintIs
  <2>6. Rearranged
    BY <1>1, <2>3, <2>5 DEF Rearranged, MaintIs
  <2>7. QED
    BY <1>1, <1>6, <2>3, <2>6, MaintFields, MaintFrame DEF MaintStep, Effect
<1>7. QED
  BY <1>5, <1>6 DEF CollectBack

\* Closing the head of the slice, in three places of the maintenance.
LEMMA CloseHeadEffect ==
  ASSUME PoolTypeOK, ShapeOK, Separate, MaintStep,
         maint.hold # <<>>,
         maint.pc \in {"discard", "test"},
         maint' = [maint EXCEPT !.hold = Tail(@)],
         open' = open \ {Head(maint.hold)}, total' = total - 1,
         UNCHANGED <<connections, idleCount, born>>
  PROVE  Effect /\ PoolTypeOK' /\ ShapeOK'
<1> DEFINE c == Head(maint.hold)
<1>1. /\ c \in Conn /\ c \in Hold /\ Elems(Tail(maint.hold)) = Hold \ {c}
      /\ Distinct(Tail(maint.hold)) /\ Tail(maint.hold) \in Seq(Conn)
  BY MaintFields, HeadOfConns, TailElems DEF Separate, Hold
<1>2. MaintIs(maint.pc, Tail(maint.hold), maint.keep)
  BY <1>1, MaintFields DEF PoolTypeOK, MaintIs, Maint, MaintPC
<1>3. open' = open \ {c}
  OBVIOUS
<1> HIDE DEF c
<1>4. Hold' = Hold \ {c} /\ Distinct(maint'.hold) /\ Keep' = Keep /\ maint'.keep = maint.keep
  BY <1>1, <1>2 DEF Hold, Keep, MaintIs
<1>5. Channel' = Channel
  BY DEF Channel
<1>6. Separate' /\ Store' = Store \ {c} /\ c \in Store
  BY <1>1, <1>4, <1>5 DEF Separate, Store
<1>7. ClosesOne
  BY <1>2, <1>3, <1>6 DEF ClosesOne, MaintIs
<1>8. maint.pc = "discard" => maint.keep = <<>>
  BY DEF ShapeOK, MaintShape
<1>9. PoolTypeOK' /\ ShapeOK'
  BY SMTT(20), <1>2, <1>8, MaintFields, MaintFrame
<1>10. QED
  BY <1>7, <1>9 DEF Effect

LEMMA DiscardExpiredEffect ==
  ASSUME PoolTypeOK, ShapeOK, Separate, DiscardExpired
  PROVE  Effect /\ PoolTypeOK' /\ ShapeOK'
<1>1. maint.pc = "discard" /\ UNCHANGED <<connections, idleCount, born>> /\ maint.keep = <<>>
  BY DEF DiscardExpired, MaintAt, ShapeOK, MaintShape
<1>2. CASE maint.hold = <<>> /\ maint' = [maint EXCEPT !.pc = "minimum"] /\ UNCHANGED <<open, total>>
  <2>1. MaintIs("minimum", <<>>, <<>>)
    BY <1>1, <1>2, MaintFields DEF PoolTypeOK, MaintIs, Maint, MaintPC
  <2>2. Rearranged
    BY <1>1, <1>2, <2>1 DEF Rearranged, Separate, Store, Channel, Hold, Keep, MaintIs
  <2>3. QED
    BY <1>1, <1>2, <2>1, <2>2, MaintFields, MaintFrame DEF MaintStep, Effect
<1>3. QED
  BY <1>1, <1>2, CloseHeadEffect DEF DiscardExpired, MaintStep

LEMMA MinimumEffect ==
  ASSUME PoolTypeOK, ShapeOK, Separate, Minimum \/ MinimumCheck
  PROVE  Effect /\ PoolTypeOK' /\ ShapeOK'
<1>1. /\ maint.hold = <<>> /\ maint.keep = <<>>
      /\ UNCHANGED <<connections, total, idleCount, open, born>>
  BY DEF Minimum, MinimumCheck, MaintAt, ShapeOK, MaintShape
<1>2. \E n \in {"tick", "check", "create"} :
        MaintIs(n, <<>>, <<>>) /\ (n = "create" => total < MaxConnections)
  <2>1. CASE maint' = Ticking
    BY <2>1, MaintFields DEF Ticking, MaintIs, Maint, MaintPC
  <2>2. CASE MinIdle > idleCount /\ maint' = [Ticking EXCEPT !.pc = "check", !.need = MinIdle - idleCount]
    <3>1. MinIdle - idleCount \in Nat
      BY <2>2, MaintFields
    <3>2. QED
      BY <2>2, <3>1, MaintFields DEF Ticking, MaintIs, Maint, MaintPC
  <2>3. CASE maint.need # 0 /\ total < MaxConnections /\ maint' = [maint EXCEPT !.pc = "create", !.need = @ - 1]
    <3>1. maint.need - 1 \in Nat
      BY <2>3, MaintFields
    <3>2. QED
      BY <1>1, <2>3, <3>1, MaintFields DEF PoolTypeOK, MaintIs, Maint, MaintPC
  <2>4. QED
    BY <2>1, <2>2, <2>3, MaintFields DEF Minimum, MinimumCheck
<1>3. Rearranged
  BY <1>1, <1>2 DEF Rearranged, Separate, Store, Channel, Hold, Keep, MaintIs
<1>4. PoolTypeOK' /\ ShapeOK'
  BY <1>1, <1>2, MaintFields, MaintFrame DEF MaintStep
<1>5. QED
  BY <1>3, <1>4 DEF Effect

LEMMA MinimumCreateEffect ==
  ASSUME PoolTypeOK, ShapeOK, Separate, Store \subseteq 1..born, MinimumCreate
  PROVE  Effect /\ PoolTypeOK' /\ ShapeOK'
<1>1. /\ maint.pc = "create" /\ maint.hold = <<>> /\ maint.keep = <<>>
      /\ UNCHANGED <<connections, idleCount>>
  BY DEF MinimumCreate, MaintAt, ShapeOK, MaintShape
<1>2. CASE maint' = Ticking /\ UNCHANGED <<born, open, total>>
  <2>1. MaintIs("tick", <<>>, <<>>)
    BY <1>2, MaintFields DEF Ticking, MaintIs, Maint, MaintPC
  <2>2. Rearranged
    BY <1>1, <1>2, <2>1 DEF Rearranged, Separate, Store, Channel, Hold, Keep, MaintIs
  <2>3. QED
    BY <1>1, <1>2, <2>1, <2>2, MaintFields, MaintFrame DEF MaintStep, Effect
<1>3. CASE /\ born < Created /\ born' = born + 1 /\ open' = open \cup {born + 1}
           /\ total' = total + 1
           /\ maint' = [maint EXCEPT !.pc = "send", !.keep = <<born + 1>>]
  <2>1. born + 1 \in Conn /\ born + 1 \in 0..Created /\ born + 1 \notin Store
    BY <1>3, MaintFields DEF Conn
  <2>2. /\ <<born + 1>> \in Seq(Conn) /\ Len(<<born + 1>>) = 1
        /\ Elems(<<born + 1>>) = {born + 1} /\ Distinct(<<born + 1>>)
    BY <2>1, OneElem
  <2>3. MaintIs("send", <<>>, <<born + 1>>)
    BY <1>1, <1>3, <2>2, MaintFields DEF PoolTypeOK, MaintIs, Maint, MaintPC
  <2>4. Keep' = {born + 1} /\ Distinct(maint'.keep) /\ Hold' = Hold /\ maint'.hold = maint.hold
        /\ Keep = {} /\ Channel' = Channel
    BY <1>1, <2>2, <2>3, EmptyElems DEF Keep, Hold, Channel, MaintIs
  <2>5. Separate' /\ Store' = Store \cup {born + 1}
    BY <1>1, <2>1, <2>4 DEF Separate, Store
  <2>6. AddsOne
    BY <1>1, <1>3, <2>3, <2>5 DEF AddsOne, MaintIs
  <2>7. open' \subseteq Conn
    BY <1>3, <2>1, MaintFields
  <2>8. PoolTypeOK' /\ ShapeOK'
    BY SMTT(20), <1>1, <1>3, <2>1, <2>2, <2>3, <2>7, MaintFields, MaintFrame DEF MaintStep
  <2>9. QED
    BY <2>6, <2>8 DEF Effect
<1>4. QED
  BY <1>2, <1>3 DEF MinimumCreate

LEMMA SendBackEffect ==
  ASSUME PoolTypeOK, ShapeOK, Separate, MaintStep, NEW label \in {"check", "return"},
         maint.keep # <<>>, maint.hold = <<>>, maint.pc # "create",
         label = "check" => Len(maint.keep) = 1,
         SendBack(label), born' = born
  PROVE  Effect /\ PoolTypeOK' /\ ShapeOK'
<1> DEFINE c == Head(maint.keep)
<1>1. /\ c \in Conn /\ c \in Keep /\ Elems(Tail(maint.keep)) = Keep \ {c}
      /\ Distinct(Tail(maint.keep)) /\ Tail(maint.keep) \in Seq(Conn)
      /\ label = "check" => Tail(maint.keep) = <<>>
  BY MaintFields, HeadOfConns, TailElems, SingletonElems DEF Separate, Keep
<1>2. MaintIs(label, <<>>, Tail(maint.keep))
  BY <1>1, MaintFields DEF PoolTypeOK, SendBack, MaintIs, Maint, MaintPC
<1>3. \/ /\ Len(connections) < MaxConnections
         /\ connections' = Append(connections, c) /\ idleCount' = idleCount + 1
         /\ open' = open /\ total' = total
      \/ /\ connections' = connections /\ idleCount' = idleCount
         /\ open' = open \ {c} /\ total' = total - 1
  BY DEF SendBack
<1> HIDE DEF c
<1>4. /\ Keep' = Keep \ {c} /\ Distinct(maint'.keep) /\ Hold' = Hold /\ maint'.hold = maint.hold
      /\ c \notin Channel
  BY <1>1, <1>2 DEF Hold, Keep, MaintIs, Separate
<1>5. CASE /\ Len(connections) < MaxConnections
           /\ connections' = Append(connections, c) /\ idleCount' = idleCount + 1
           /\ open' = open /\ total' = total
  <2>1. connections' \in Seq(Conn) /\ Len(connections') <= MaxConnections
    BY <1>1, <1>5, MaintFields, AppendProperties
  <2>2. Channel' = Channel \cup {c} /\ Distinct(connections')
    BY <1>1, <1>4, <1>5, MaintFields, AppendElems DEF Channel, Separate
  <2>3. Separate' /\ Store' = Store
    BY <1>1, <1>4, <2>2 DEF Separate, Store
  <2>4. Rearranged
    BY <1>2, <1>5, <2>3 DEF Rearranged, MaintIs
  <2>5. PoolTypeOK' /\ ShapeOK'
    <3>1. total' \in Int /\ idleCount' \in Int /\ born' \in 0..Created /\ open' \subseteq Conn
      BY <1>5, MaintFields
    <3>2. CASE label = "check"
      BY <1>1, <1>2, <2>1, <3>1, <3>2, MaintFrame
    <3>3. CASE label = "return"
      BY <1>2, <2>1, <3>1, <3>3, MaintFrame
    <3>4. QED
      BY <3>2, <3>3
  <2>6. QED
    BY <2>4, <2>5 DEF Effect
<1>6. CASE /\ connections' = connections /\ idleCount' = idleCount
           /\ open' = open \ {c} /\ total' = total - 1
  <2>1. Channel' = Channel
    BY <1>6 DEF Channel
  <2>2. Separate' /\ Store' = Store \ {c} /\ c \in Store
    BY <1>1, <1>4, <1>6, <2>1 DEF Separate, Store
  <2>3. ClosesOne
    BY <1>2, <1>6, <2>2 DEF ClosesOne, MaintIs
  <2>4. PoolTypeOK' /\ ShapeOK'
    <3>1. /\ total' \in Int /\ idleCount' \in Int /\ born' \in 0..Created /\ open' \subseteq Conn
          /\ connections' \in Seq(Conn) /\ Len(connections') <= MaxConnections
      BY <1>6, MaintFields
    <3>2. CASE label = "check"
      BY <1>1, <1>2, <3>1, <3>2, MaintFrame
    <3>3. CASE label = "return"
      BY <1>2, <3>1, <3>3, MaintFrame
    <3>4. QED
      BY <3>2, <3>3
  <2>5. QED
    BY <2>3, <2>4 DEF Effect
<1>7. QED
  BY <1>3, <1>5, <1>6

LEMMA MinimumSendEffect ==
  ASSUME PoolTypeOK, ShapeOK, Separate, MinimumSend
  PROVE  Effect /\ PoolTypeOK' /\ ShapeOK'
<1>1. maint.pc = "send" /\ maint.hold = <<>> /\ Len(maint.keep) = 1 /\ maint.keep # <<>>
  BY EmptySeq DEF MinimumSend, MaintAt, ShapeOK, MaintShape
<1>2. QED
  BY <1>1, SendBackEffect DEF MinimumSend, MaintStep

LEMMA ReturnSampleEffect ==
  ASSUME PoolTypeOK, ShapeOK, Separate, ReturnSample
  PROVE  Effect /\ PoolTypeOK' /\ ShapeOK'
<1>1. maint.pc = "return" /\ maint.hold = <<>> /\ born' = born
  BY DEF ReturnSample, MaintAt, ShapeOK, MaintShape
<1>2. CASE maint.keep = <<>> /\ maint' = Ticking /\ UNCHANGED <<connections, idleCount, open, total>>
  <2>1. MaintIs("tick", <<>>, <<>>)
    BY <1>2, MaintFields DEF Ticking, MaintIs, Maint, MaintPC
  <2>2. Rearranged
    BY <1>1, <1>2, <2>1 DEF Rearranged, Separate, Store, Channel, Hold, Keep, MaintIs
  <2>3. QED
    BY <1>1, <1>2, <2>1, <2>2, MaintFields, MaintFrame DEF MaintStep, Effect
<1>3. CASE maint.keep # <<>> /\ SendBack("return")
  BY <1>1, <1>3, SendBackEffect DEF MaintStep
<1>4. QED
  BY <1>2, <1>3 DEF ReturnSample

LEMMA SampleEffect ==
  ASSUME PoolTypeOK, ShapeOK, Separate, Sample
  PROVE  Effect /\ PoolTypeOK' /\ ShapeOK'
<1> DEFINE c == Head(connections)
<1>1. /\ maint.pc = "sample" /\ maint.keep = <<>>
      /\ UNCHANGED <<total, open, born>>
      /\ idleCount' \in {idleCount, idleCount - 1}
  BY DEF Sample, MaintAt, ShapeOK, MaintShape
<1>2. CASE /\ connections' = connections
           /\ \/ maint' = [maint EXCEPT !.pc = "test"]
              \/ maint.need > 0 /\ maint' = [maint EXCEPT !.need = @ - 1]
  <2>1. \E n \in {"test", "sample"} : MaintIs(n, maint.hold, <<>>)
    <3>1. CASE maint' = [maint EXCEPT !.pc = "test"]
      BY <1>1, <3>1, MaintFields DEF PoolTypeOK, MaintIs, Maint, MaintPC
    <3>2. CASE maint.need > 0 /\ maint' = [maint EXCEPT !.need = @ - 1]
      <4>1. maint.need - 1 \in Nat
        BY <3>2, MaintFields
      <4>2. QED
        BY <1>1, <3>2, <4>1, MaintFields DEF PoolTypeOK, MaintIs, Maint, MaintPC
    <3>3. QED
      BY <1>2, <3>1, <3>2
  <2>2. Rearranged
    BY <1>1, <1>2, <2>1 DEF Rearranged, Separate, Store, Channel, Hold, Keep, MaintIs
  <2>3. QED
    BY <1>1, <1>2, <2>1, <2>2, MaintFields, MaintFrame DEF MaintStep, Effect
<1>3. CASE /\ maint.need > 0 /\ connections # <<>> /\ connections' = Tail(connections)
           /\ maint' = [maint EXCEPT !.need = @ - 1, !.hold = Append(@, c)]
  <2>1. /\ c \in Conn /\ c \in Channel /\ Channel' = Channel \ {c} /\ Distinct(connections')
        /\ connections' \in Seq(Conn) /\ Len(connections') <= MaxConnections
        /\ c \notin Hold /\ maint.need - 1 \in Nat
    BY SMTT(20), <1>3, MaintFields, TailElems, HeadOfConns DEF Separate, Channel
  <2> HIDE DEF c
  <2>2. MaintIs("sample", Append(maint.hold, c), <<>>)
    BY <1>1, <1>3, <2>1, MaintFields, AppendProperties DEF PoolTypeOK, MaintIs, Maint
  <2>3. Hold' = Hold \cup {c} /\ Distinct(maint'.hold)
    BY <2>1, <2>2, MaintFields, AppendElems DEF Hold, Separate, MaintIs
  <2>4. Keep' = Keep /\ Distinct(maint'.keep)
    BY <1>1, <2>2 DEF Keep, MaintIs, Separate
  <2>5. Separate' /\ Store' = Store
    BY <2>1, <2>3, <2>4 DEF Separate, Store
  <2>6. Rearranged
    BY <1>1, <2>2, <2>5 DEF Rearranged, MaintIs
  <2>7. QED
    BY SMTT(20), <1>1, <2>1, <2>2, <2>6, MaintFields, MaintFrame DEF MaintStep, Effect
<1>4. QED
  BY <1>2, <1>3, MaintFields DEF Sample

LEMMA TestEffect ==
  ASSUME PoolTypeOK, ShapeOK, Separate, Test
  PROVE  Effect /\ PoolTypeOK' /\ ShapeOK'
<1> DEFINE c == Head(maint.hold)
<1>1. maint.pc = "test" /\ UNCHANGED <<connections, idleCount, born>>
  BY DEF Test, MaintAt
<1>2. CASE maint.hold = <<>> /\ maint' = [maint EXCEPT !.pc = "return"] /\ UNCHANGED <<open, total>>
  <2>1. MaintIs("return", <<>>, maint.keep)
    BY <1>1, <1>2, MaintFields DEF PoolTypeOK, MaintIs, Maint, MaintPC
  <2>2. Rearranged
    BY <1>1, <1>2, <2>1 DEF Rearranged, Separate, Store, Channel, Hold, Keep, MaintIs
  <2>3. QED
    BY <1>1, <1>2, <2>1, <2>2, MaintFields, MaintFrame DEF MaintStep, Effect
<1>3. CASE /\ maint.hold # <<>> /\ UNCHANGED <<open, total>>
           /\ maint' = [maint EXCEPT !.hold = Tail(@), !.keep = Append(@, c)]
  <2>1. /\ c \in Conn /\ c \in Hold /\ Elems(Tail(maint.hold)) = Hold \ {c}
        /\ Distinct(Tail(maint.hold)) /\ Tail(maint.hold) \in Seq(Conn)
        /\ c \notin Keep
    BY <1>3, MaintFields, HeadOfConns, TailElems DEF Separate, Hold
  <2> HIDE DEF c
  <2>2. MaintIs("test", Tail(maint.hold), Append(maint.keep, c))
    BY <1>1, <1>3, <2>1, MaintFields, AppendProperties DEF PoolTypeOK, MaintIs, Maint
  <2>3. Keep' = Keep \cup {c} /\ Distinct(maint'.keep)
    BY <2>1, <2>2, MaintFields, AppendElems DEF Keep, Separate, MaintIs
  <2>4. Hold' = Hold \ {c} /\ Distinct(maint'.hold) /\ Channel' = Channel
    BY <1>1, <2>1, <2>2 DEF Hold, Channel, MaintIs
  <2>5. Separate' /\ Store' = Store
    BY <1>1, <2>1, <2>3, <2>4 DEF Separate, Store
  <2>6. Rearranged
    BY <1>1, <1>3, <2>2, <2>5 DEF Rearranged, MaintIs
  <2>7. QED
    BY SMTT(20), <1>1, <1>3, <2>2, <2>6, MaintFields, MaintFrame DEF MaintStep, Effect
<1>4. CASE /\ maint.hold # <<>> /\ open' = open \ {c} /\ total' = total - 1
           /\ maint' = [maint EXCEPT !.hold = Tail(@)]
  BY <1>1, <1>4, CloseHeadEffect DEF MaintStep
<1>5. QED
  BY <1>1, <1>2, <1>3, <1>4 DEF Test

\* Every step of the maintenance rearranges, closes one or adds one.
LEMMA MaintEffect ==
  ASSUME PoolTypeOK, ShapeOK, OpenOK, CustodyOK, MaintStep
  PROVE  Effect /\ PoolTypeOK' /\ ShapeOK'
<1>1. Separate /\ Store \subseteq 1..born
  BY SeparateNow, HeldMade DEF OpenOK, Store
<1>2. QED
  BY <1>1, TickEffect, CollectEffect, CollectBackEffect, DiscardExpiredEffect, MinimumEffect,
     MinimumCreateEffect, MinimumSendEffect, SampleEffect, TestEffect, ReturnSampleEffect
     DEF MaintStep

LEMMA MaintKeeps ==
  ASSUME PoolInv, MaintStep
  PROVE  PoolInv'
<1>1. /\ Effect /\ PoolTypeOK' /\ ShapeOK'
      /\ UNCHANGED <<active, call, closer>>
      /\ Reserved' = Reserved
  BY MaintEffect, MaintFrame DEF PoolInv, clientSide, Reserved
<1>2. /\ Store \subseteq open
      /\ \A t \in Client : Promised(call[t]) => call[t].conn \in open
      /\ \A c \in active \cap open : \E t \in Client : call[t].pc \in InUse /\ call[t].conn = c
      /\ \A t \in Client : call[t].conn \notin Store
      /\ \A t, u \in Client : call[t].conn = call[u].conn /\ call[t].conn # Nil => t = u
      /\ \A c \in open : c \in Store \/ \E t \in Client : call[t].conn = c
      /\ open \subseteq 1..born /\ active \subseteq 1..born /\ born \in Nat
      /\ \A t \in Client : call[t].conn \in 0..born
  BY HeldMade DEF PoolInv, OpenOK, HeldOpen, ActiveInUse, CustodyOK, Apart, Kept, Store, Promised
<1>3. ASSUME Separate', Store' \subseteq open',
             \A t \in Client : Promised(call[t]) => call[t].conn \in open',
             \A c \in active \cap open' : c \in open,
             \A t \in Client : call[t].conn \notin Store',
             \A c \in open' : c \in Store' \/ \E t \in Client : call[t].conn = c,
             open' \subseteq 1..born', active \subseteq 1..born',
             \A t \in Client : call[t].conn \in 0..born'
      PROVE  OpenOK' /\ CustodyOK'
  <2>1. HeldOpen'
    BY <1>1, <1>3 DEF HeldOpen, Promised, Store
  <2>2. ActiveInUse'
    BY <1>1, <1>2, <1>3 DEF ActiveInUse
  <2>3. Apart'
    BY <1>1, <1>2, <1>3 DEF Apart, Separate, Store
  <2>4. Kept'
    BY <1>1, <1>3 DEF Kept, Store
  <2>5. QED
    BY <2>1, <2>2, <2>3, <2>4 DEF OpenOK, CustodyOK
<1>4. /\ IsFiniteSet(open) /\ Cardinality(open) \in Nat /\ Reserved \in Nat /\ total \in Int
      /\ MaxConnections \in Nat
      /\ Cardinality(open) + Reserved <= total /\ total <= MaxConnections + 1
      /\ maint.pc = "create" => total <= MaxConnections
  BY CountsType DEF PoolInv, CountsOK
<1>5. CASE Rearranged
  <2>1. OpenOK' /\ CustodyOK'
    BY <1>2, <1>3, <1>5 DEF Rearranged
  <2>2. CountsOK'
    BY <1>1, <1>4, <1>5 DEF Rearranged, CountsOK
  <2>3. QED
    BY <1>1, <2>1, <2>2 DEF PoolInv
<1>6. CASE ClosesOne
  <2>1. PICK c \in Store : Store' = Store \ {c} /\ open' = open \ {c}
    BY <1>6 DEF ClosesOne
  <2>2. OpenOK' /\ CustodyOK'
    BY <1>2, <1>3, <1>6, <2>1 DEF ClosesOne
  <2>3. Cardinality(open') = Cardinality(open) - 1
    BY <1>2, <1>4, <2>1, FS_RemoveElement
  <2>4. CountsOK'
    BY <1>1, <1>4, <1>6, <2>3 DEF ClosesOne, CountsOK
  <2>5. QED
    BY <1>1, <2>2, <2>4 DEF PoolInv
<1>7. CASE AddsOne
  <2>1. /\ Store' = Store \cup {born + 1} /\ open' = open \cup {born + 1}
        /\ born' = born + 1 /\ Separate'
    BY <1>7 DEF AddsOne
  <2>2. /\ \A d \in 1..born : d \in 1..born' /\ d # born + 1
        /\ \A d \in 0..born : d \in 0..born' /\ d # born + 1
        /\ born + 1 \in 1..born'
    BY <1>2, <2>1
  <2>3. OpenOK' /\ CustodyOK'
    <3>1. Store' \subseteq open' /\ open' \subseteq 1..born' /\ active \subseteq 1..born'
      BY <1>2, <2>1, <2>2
    <3>2. \A t \in Client : call[t].conn \notin Store' /\ call[t].conn \in 0..born'
      BY <1>2, <2>1, <2>2
    <3>3. QED
      BY <1>2, <1>3, <2>1, <2>2, <3>1, <3>2
  <2>4. Cardinality(open') = Cardinality(open) + 1
    BY <1>2, <1>4, <2>1, <2>2, FS_AddElement
  <2>5. CountsOK'
    BY <1>1, <1>4, <1>7, <2>4 DEF AddsOne, CountsOK
  <2>6. QED
    BY <1>1, <2>3, <2>5 DEF PoolInv
<1>8. QED
  BY <1>1, <1>5, <1>6, <1>7 DEF Effect

-----------------------------------------------------------------------------
(* Close.                                                                  *)

\* A step of Close does not touch the clients and the maintenance, and opens
\* nothing.
LEMMA CloseFrame ==
  ASSUME PoolInv, CloseStart \/ CloseStep
  PROVE  /\ UNCHANGED <<born, call, maint, total>>
         /\ open' \subseteq open /\ active' \subseteq active
         /\ Hold' = Hold /\ Keep' = Keep /\ CallShape' /\ MaintShape' /\ CountsOK'
<1>1. UNCHANGED <<born, call, maint, total>>
  BY DEF CloseStart, CloseStep, CloseChannel, Drain, CloseActive, CloseReset, maintSide, counters
<1>2. open' \subseteq open /\ active' \subseteq active
  BY DEF CloseStart, CloseStep, CloseChannel, Drain, CloseActive, CloseReset
<1>3. Cardinality(open') <= Cardinality(open) /\ Cardinality(open') \in Nat
  BY <1>2, CountsType, FS_Subset, FS_CardinalityType DEF PoolInv
<1>4. CountsOK'
  BY <1>1, <1>3, CountsType DEF PoolInv, CountsOK, Reserved
<1>5. QED
  BY <1>1, <1>2, <1>4 DEF PoolInv, ShapeOK, CallShape, MaintShape, Hold, Keep

LEMMA CloseTypes ==
  ASSUME PoolInv, CloseStart \/ CloseStep
  PROVE  PoolTypeOK' /\ ShapeOK'
<1>1. connections' \in Seq(Conn) /\ Len(connections') <= MaxConnections
  <2>1. \/ connections' = connections
        \/ connections # <<>> /\ connections' = Tail(connections)
    BY DEF CloseStart, CloseStep, CloseChannel, Drain, CloseActive, CloseReset, channel
  <2>2. connections \in Seq(Conn) /\ Len(connections) <= MaxConnections /\ MaxConnections \in Nat
    BY MaintFields DEF PoolInv
  <2>3. QED
    BY <2>1, <2>2, HeadOfConns
<1>2. /\ shut' \in {shut, TRUE} /\ closed' \in {closed, TRUE} /\ panicked' = panicked
      /\ idleCount' \in {idleCount, 0} /\ activeCount' \in {activeCount, 0}
      /\ closer' \in {closer, "stop", "drain", "active", "reset", "done"}
  BY DEF CloseStart, CloseStep, CloseChannel, Drain, CloseActive, CloseReset, channel, counters
<1>3. PoolTypeOK'
  <2>1. PoolTypeOK /\ UNCHANGED <<born, call, maint, total>>
    BY CloseFrame DEF PoolInv
  <2>2. open' \in SUBSET Conn /\ active' \in SUBSET Conn
    BY <2>1, CloseFrame DEF PoolTypeOK
  <2>3. shut' \in BOOLEAN /\ closed' \in BOOLEAN /\ panicked' \in BOOLEAN
    BY <1>2, <2>1, Zenon DEF PoolTypeOK
  <2>4. idleCount' \in Int /\ activeCount' \in Int /\ closer' \in CloserPC
    BY <1>2, <2>1 DEF PoolTypeOK, CloserPC
  <2>5. QED
    BY <1>1, <2>1, <2>2, <2>3, <2>4 DEF PoolTypeOK
<1>4. CloserShape'
  BY DEF CloseStart, CloseStep, CloseChannel, Drain, CloseActive, CloseReset, channel,
         maintSide, PoolInv, ShapeOK, CloserShape
<1>5. QED
  BY <1>3, <1>4, CloseFrame DEF ShapeOK

\* The one step that closes connections in use leaves those of the other
\* clients alone, because the open connections in the map are all in use.
LEMMA CloseOpen ==
  ASSUME PoolInv, CloseStart \/ CloseStep
  PROVE  OpenOK' /\ CustodyOK'
<1>1. /\ UNCHANGED <<born, call, maint>> /\ Hold' = Hold /\ Keep' = Keep
      /\ open' \subseteq open /\ active' \subseteq active
  BY CloseFrame
<1>2. /\ Channel \subseteq open /\ Hold \subseteq open /\ Keep \subseteq open
      /\ \A t \in Client : Promised(call[t]) => call[t].conn \in open
      /\ \A c \in active \cap open : \E t \in Client : call[t].pc \in InUse /\ call[t].conn = c
      /\ Apart /\ Kept
      /\ CloserShape /\ MaintShape
  BY DEF PoolInv, OpenOK, HeldOpen, ActiveInUse, CustodyOK, Promised, ShapeOK
<1>3. Nil \notin open
  BY <1>2 DEF Kept, Nil
<1>4. ActiveInUse'
  BY <1>1, <1>2 DEF ActiveInUse
<1>5. CASE Drain /\ connections # <<>>
  <2> DEFINE c == Head(connections)
  <2>1. /\ c \in Channel /\ Channel' = Channel \ {c} /\ Distinct(connections')
        /\ open' = open \ {c} /\ UNCHANGED <<closer, active>>
    BY ZenonT(40), <1>2, <1>5, TailElems, MaintFields DEF PoolInv, Drain, Channel, Apart
  <2> HIDE DEF c
  <2>2. HeldOpen'
    BY <1>1, <1>2, <2>1 DEF HeldOpen, Promised, Apart
  <2>3. CustodyOK'
    BY <1>1, <1>2, <2>1 DEF CustodyOK, Apart, Kept
  <2>4. QED
    BY <1>4, <2>2, <2>3 DEF OpenOK
<1>6. CASE CloseActive
  <2>1. /\ closer = "active" /\ closer' = "reset" /\ connections = <<>> /\ connections' = <<>>
        /\ open' = open \ active /\ active' = {}
        /\ maint.hold = <<>> /\ maint.keep = <<>>
    BY <1>2, <1>6 DEF CloseActive, CloserShape, MaintShape, channel
  <2>2. Channel = {} /\ Channel' = {} /\ Hold = {} /\ Keep = {} /\ Distinct(connections')
    BY <2>1, EmptyElems DEF Channel, Hold, Keep
  <2>3. ASSUME NEW t \in Client, call[t].pc \in Sure PROVE call[t].conn \in open'
    <3>1. call[t].conn \in open /\ call[t].pc \notin InUse
      BY <2>3, <1>2 DEF Promised, Sure, InUse
    <3>2. ASSUME call[t].conn \in active PROVE FALSE
      <4>1. PICK u \in Client : call[u].pc \in InUse /\ call[u].conn = call[t].conn
        BY <1>2, <3>1, <3>2
      <4>2. u = t
        BY <4>1, <1>2, <1>3, <3>1 DEF Apart
      <4>3. QED
        BY <3>1, <4>1, <4>2
    <3>3. QED
      BY <2>1, <3>1, <3>2
  <2>4. HeldOpen'
    BY <1>1, <2>1, <2>2, <2>3 DEF HeldOpen, Early
  <2>5. CustodyOK'
    BY <1>1, <1>2, <2>1, <2>2 DEF CustodyOK, Apart, Kept
  <2>6. QED
    BY <1>4, <2>4, <2>5 DEF OpenOK
<1>7. CASE UNCHANGED <<connections, open, active>>
  <2>1. Channel' = Channel /\ Distinct(connections)' = Distinct(connections)
    BY <1>7 DEF Channel
  <2>2. closer' \in Early => closer \in Early
    BY DEF CloseStart, CloseStep, CloseChannel, Drain, CloseActive, CloseReset, Early
  <2>3. HeldOpen'
    BY <1>1, <1>2, <1>7, <2>1, <2>2 DEF HeldOpen, Promised
  <2>4. CustodyOK'
    BY <1>1, <1>2, <1>7, <2>1 DEF CustodyOK, Apart, Kept
  <2>5. QED
    BY <1>4, <2>3, <2>4 DEF OpenOK
<1>8. QED
  BY <1>5, <1>6, <1>7 DEF CloseStart, CloseStep, CloseChannel, Drain, CloseReset, channel

-----------------------------------------------------------------------------
(* The invariant.                                                          *)

LEMMA InitInv == PoolInit => PoolInv
<1> SUFFICES ASSUME PoolInit PROVE PoolInv
  OBVIOUS
<1>1. MinIdle \in Nat /\ MaxConnections \in Nat /\ MinIdle <= MaxConnections
  BY PoolAssumption
<1>2. /\ Len(connections) = MinIdle /\ \A i \in 1..MinIdle : connections[i] = i
      /\ maint.hold = <<>> /\ maint.keep = <<>> /\ maint.pc = "tick"
      /\ \A t \in Client : call[t].pc = "out" /\ call[t].conn = Nil
      /\ open = 1..MinIdle /\ born = MinIdle /\ active = {} /\ total = MinIdle
  BY <1>1 DEF PoolInit, Ticking, NoCall
<1>3. Channel = 1..MinIdle /\ Distinct(connections)
  BY <1>2 DEF Channel, Elems, Distinct
<1>4. Hold = {} /\ Keep = {} /\ Distinct(maint.hold) /\ Distinct(maint.keep)
  BY <1>2, EmptyElems DEF Hold, Keep
<1>5. OpenOK
  BY <1>2, <1>3, <1>4 DEF OpenOK, HeldOpen, ActiveInUse, Sure, InUse
<1>6. CustodyOK
  BY <1>1, <1>2, <1>3, <1>4 DEF CustodyOK, Apart, Kept, Nil
<1>7. CountsOK
  <2>1. Cardinality(open) = MinIdle
    BY <1>1, <1>2, FS_Interval
  <2>2. {t \in Client : call[t].pc = "create"} = {}
    BY <1>2
  <2>3. Reserved = 0
    BY <2>2, FS_EmptySet DEF Reserved
  <2>4. QED
    BY <1>1, <1>2, <2>1, <2>3 DEF CountsOK
<1>8. QED
  BY <1>5, <1>6, <1>7, InitTypes DEF PoolInv

LEMMA NextInv == PoolInv /\ [PoolNext]_poolVars => PoolInv'
<1> SUFFICES ASSUME PoolInv, [PoolNext]_poolVars PROVE PoolInv'
  OBVIOUS
<1>1. ASSUME NEW t \in Client, ClientStep(t) PROVE PoolInv'
  BY <1>1, ClientTypes, ClientOpen, ClientCustody, ClientCounts DEF PoolInv, OpenOK
<1>2. CASE MaintStep
  BY <1>2, MaintKeeps
<1>3. CASE CloseStart \/ CloseStep
  BY <1>3, CloseTypes, CloseOpen, CloseFrame DEF PoolInv
<1>4. CASE UNCHANGED poolVars
  BY <1>4 DEF poolVars, channel, counters, PoolInv, PoolTypeOK, ShapeOK, CallShape, MaintShape,
     CloserShape, OpenOK, HeldOpen, ActiveInUse, CustodyOK, Apart, Kept, CountsOK, Reserved,
     Channel, Hold, Keep
<1>5. QED
  BY <1>1, <1>2, <1>3, <1>4 DEF PoolNext, ClientStep

\* Where every connection is, at any moment of the life of a pool.
THEOREM PoolInvariant == PoolSpec => []PoolInv
<1>1. QED
  BY InitInv, NextInv, PTL DEF PoolSpec

-----------------------------------------------------------------------------
(* What the invariant says about owners, slots and Close.                  *)

LEMMA OccurrencesCount ==
  ASSUME NEW S, NEW s \in Seq(S), Distinct(s), NEW c
  PROVE  Cardinality(Occurrences(c, s)) = IF c \in Elems(s) THEN 1 ELSE 0
<1>1. DOMAIN s = 1..Len(s)
  BY LenProperties
<1>2. CASE c \in Elems(s)
  <2>1. PICK i \in 1..Len(s) : s[i] = c
    BY <1>2 DEF Elems
  <2>2. Occurrences(c, s) = {i}
    BY <1>1, <2>1 DEF Occurrences, Distinct
  <2>3. QED
    BY <1>2, <2>2, FS_Singleton
<1>3. CASE c \notin Elems(s)
  <2>1. Occurrences(c, s) = {}
    BY <1>1, <1>3 DEF Occurrences, Elems
  <2>2. QED
    BY <1>3, <2>1, FS_EmptySet
<1>4. QED
  BY <1>2, <1>3

LEMMA FramesCount ==
  ASSUME Apart, NEW c, c # Nil
  PROVE  Cardinality({t \in Client : call[t].conn = c})
           = IF \E t \in Client : call[t].conn = c THEN 1 ELSE 0
<1>1. CASE \E t \in Client : call[t].conn = c
  <2>1. PICK t \in Client : call[t].conn = c
    BY <1>1
  <2>2. {u \in Client : call[u].conn = c} = {t}
    BY <2>1 DEF Apart
  <2>3. QED
    BY <1>1, <2>2, FS_Singleton
<1>2. CASE ~\E t \in Client : call[t].conn = c
  <2>1. {u \in Client : call[u].conn = c} = {}
    BY <1>2
  <2>2. QED
    BY <1>2, <2>1, FS_EmptySet
<1>3. QED
  BY <1>1, <1>2

LEMMA InvOneOwner == PoolInv => OneOwner
<1> SUFFICES ASSUME PoolInv PROVE OneOwner
  OBVIOUS
<1>1. ASSUME NEW c \in Conn
      PROVE  Holders(c) <= 1 /\ (c \in open => Holders(c) = 1)
  <2>1. c # Nil
    BY DEF Conn, Nil
  <2>2. /\ Cardinality(Occurrences(c, connections)) = IF c \in Channel THEN 1 ELSE 0
        /\ Cardinality(Occurrences(c, maint.hold)) = IF c \in Hold THEN 1 ELSE 0
        /\ Cardinality(Occurrences(c, maint.keep)) = IF c \in Keep THEN 1 ELSE 0
    BY OccurrencesCount, MaintFields DEF PoolInv, CustodyOK, Apart, Channel, Hold, Keep
  <2>3. Cardinality({t \in Client : call[t].conn = c})
          = IF \E t \in Client : call[t].conn = c THEN 1 ELSE 0
    BY <2>1, FramesCount DEF PoolInv, CustodyOK
  <2>4. /\ Channel \cap Hold = {} /\ Channel \cap Keep = {} /\ Hold \cap Keep = {}
        /\ \A t \in Client : call[t].conn \notin Channel \cup Hold \cup Keep
    BY DEF PoolInv, CustodyOK, Apart
  <2>5. c \in open => c \in Channel \cup Hold \cup Keep \/ \E t \in Client : call[t].conn = c
    BY DEF PoolInv, CustodyOK, Kept
  <2>6. Holders(c) = (IF c \in Channel THEN 1 ELSE 0)
                     + (IF \E t \in Client : call[t].conn = c THEN 1 ELSE 0)
                     + (IF c \in Hold THEN 1 ELSE 0) + (IF c \in Keep THEN 1 ELSE 0)
    BY <2>2, <2>3 DEF Holders
  <2>7. CASE \E t \in Client : call[t].conn = c
    BY <2>4, <2>6, <2>7
  <2>8. CASE ~\E t \in Client : call[t].conn = c
    BY <2>4, <2>5, <2>6, <2>8
  <2>9. QED
    BY <2>7, <2>8
<1>2. \A t \in Client :
        call[t].pc = "holding" /\ closer \in {"none", "stop", "drain", "active"}
          => call[t].conn \in open
  BY DEF PoolInv, OpenOK, HeldOpen, InUse, Early
<1>3. QED
  BY <1>1, <1>2 DEF OneOwner

LEMMA InvSlotsCovered == PoolInv => SlotsCovered
  BY DEF PoolInv, CountsOK, SlotsCovered

LEMMA InvClosedLeavesNothing == PoolInv => ClosedLeavesNothing
<1> SUFFICES ASSUME PoolInv, closer = "done", \A t \in Client : call[t].pc = "out"
             PROVE  open = {} /\ connections = <<>>
  BY DEF ClosedLeavesNothing
<1>1. connections = <<>> /\ maint.hold = <<>> /\ maint.keep = <<>>
  BY DEF PoolInv, ShapeOK, CloserShape, MaintShape
<1>2. Channel = {} /\ Hold = {} /\ Keep = {}
  BY <1>1, EmptyElems DEF Channel, Hold, Keep
<1>3. \A t \in Client : call[t].conn = Nil
  BY DEF PoolInv, ShapeOK, CallShape, EmptyHanded
<1>4. \A c \in open : c # Nil
  BY DEF PoolInv, CustodyOK, Kept, Nil
<1>5. open = {}
  BY <1>2, <1>3, <1>4 DEF PoolInv, CustodyOK, Kept
<1>6. QED
  BY <1>1, <1>5

\* Whatever the clients, the maintenance and Close do, a connection is with
\* one owner, and an open one always has one.
THEOREM PoolOwners == PoolSpec => []OneOwner
  BY PoolInvariant, InvOneOwner, PTL

\* TotalConnections covers the open connections and the reserved slots, and
\* exceeds the limit by one at most.
THEOREM PoolSlots == PoolSpec => []SlotsCovered
  BY PoolInvariant, InvSlotsCovered, PTL

\* A closed pool without callers has no open connection.
THEOREM PoolCloses == PoolSpec => []ClosedLeavesNothing
  BY PoolInvariant, InvClosedLeavesNothing, PTL

-----------------------------------------------------------------------------
(* The manager implements the pool.                                        *)

\* Every step of the manager, of its monitor and of the users is a step of the
\* pool or leaves the pool alone.
LEMMA NextIsPoolNext == [Next]_vars => [PoolNext]_poolVars
<1> SUFFICES ASSUME [Next]_vars PROVE [PoolNext]_poolVars
  OBVIOUS
<1>1. CASE \E t \in Client : Use(t) \/ Inside(t)
  BY <1>1 DEF Use, PoolNext
<1>2. CASE MaintStep \/ CloseStep
  BY <1>2 DEF PoolNext
<1>3. CASE CheckStep
  <2>1. UNCHANGED poolVars \/ Get(Monitor) \/ Put(Monitor)
    BY <1>3 DEF CheckStep, Attempt, Ping, HealthReturns, Again, Rate
  <2>2. QED
    BY <2>1, MonitorAssumption DEF PoolNext
<1>4. CASE MonitorTick \/ ManagerClose \/ ManagerClosed
  BY <1>4 DEF MonitorTick, ManagerClose, ManagerClosed
<1>5. CASE MonitorStopped
  BY <1>5 DEF MonitorStopped, PoolNext
<1>6. CASE UNCHANGED vars
  BY <1>6 DEF vars
<1>7. QED
  BY <1>1, <1>2, <1>3, <1>4, <1>5, <1>6 DEF Next

\* The pool of a manager is a pool: what is proved of every pool holds of it.
THEOREM ManagedPool == Spec => PoolSpec
<1>1. Init => PoolInit
  BY DEF Init
<1>2. QED
  BY <1>1, NextIsPoolNext, PTL DEF Spec, PoolSpec

\* A connection of the manager's pool has one owner.
THEOREM ManagedOwners == Spec => []OneOwner
  BY ManagedPool, PoolOwners, PTL

\* The counter of the manager's pool covers its connections.
THEOREM ManagedSlots == Spec => []SlotsCovered
  BY ManagedPool, PoolSlots, PTL

\* The closed pool of a manager leaves nothing open.
THEOREM ManagedCloses == Spec => []ClosedLeavesNothing
  BY ManagedPool, PoolCloses, PTL

-----------------------------------------------------------------------------
(* The monitor and the Close of the manager.                               *)

\* Where the monitor is outside of the pool.
Outside == {"attempt", "rate", "again", "ticker", "exited"}

\* The labels of the monitor, the manager and Close of the pool agree.
MonitorInv ==
  /\ monitor \in MonitorPC /\ manager \in {"open", "stopping", "pools", "closed"}
  /\ tries \in 0..(MaxRetries + 1)
  /\ monitor = "attempt" => tries <= MaxRetries
  /\ monitor = "ticker" => tries = 0
  /\ monitor \in Outside => call[Monitor].pc = "out"
  /\ manager \in {"pools", "closed"} => monitor = "exited"
  /\ closed => manager \in {"pools", "closed"}

LEMMA InitMonitor == Init => MonitorInv
<1>1. MaxRetries \in Nat /\ Monitor \in Client
  BY MonitorAssumption
<1>2. QED
  BY <1>1 DEF Init, PoolInit, NoCall, MonitorInv, MonitorPC, Outside

\* A step of the pool that is not the monitor's own leaves its frame alone.
LEMMA OthersKeep ==
  ASSUME PoolInv, MonitorInv, NEW t \in Client, ClientStep(t), t # Monitor
  PROVE  call'[Monitor] = call[Monitor]
  BY ClientKinds, MonitorAssumption
     DEF PoolInv, Stays, Takes, Sheds, Makes, Gives, Panics, Moved

LEMMA NextMonitor == PoolInv /\ MonitorInv /\ [Next]_vars => MonitorInv'
<1> SUFFICES ASSUME PoolInv, MonitorInv, [Next]_vars PROVE MonitorInv'
  OBVIOUS
<1>1. MaxRetries \in Nat /\ Monitor \in Client
  BY MonitorAssumption
<1>2. ASSUME NEW t \in Client, Use(t) \/ Inside(t), UNCHANGED healthVars PROVE MonitorInv'
  <2>1. closed' = closed
    BY <1>2, ClientKinds DEF Use, ClientStep, PoolInv
  <2>2. CASE t # Monitor
    <3>1. call'[Monitor] = call[Monitor]
      BY <1>2, <2>2, OthersKeep DEF Use, ClientStep
    <3>2. QED
      BY <1>2, <2>1, <3>1 DEF healthVars, MonitorInv
  <2>3. CASE t = Monitor
    <3>1. call[Monitor].pc # "out"
      BY <1>2, <2>3 DEF Use, Inside, GetSelect, CountOut, Validate, Track, Reserve, Wait,
           Create, Untrack, Inspect, PutBack, PutCount, At
    <3>2. monitor \notin Outside
      BY <3>1 DEF MonitorInv
    <3>3. QED
      BY <1>2, <2>1, <3>2 DEF healthVars, MonitorInv
  <2>4. QED
    BY <2>2, <2>3
<1>3. CASE MaintStep /\ UNCHANGED healthVars
  <2>1. call' = call /\ closed' = closed
    BY <1>3, MaintFrame DEF PoolInv, clientSide
  <2>2. QED
    BY <1>3, <2>1 DEF healthVars, MonitorInv
<1>4. CASE CloseStep /\ UNCHANGED healthVars
  <2>1. call' = call /\ closed' = closed
    BY <1>4 DEF CloseStep, CloseChannel, Drain, CloseActive, CloseReset, maintSide
  <2>2. QED
    BY <1>4, <2>1 DEF healthVars, MonitorInv
\* The attempts are counted at their start, and one more is started only
\* while no more than MaxRetries have been made.
<1>5. CASE CheckStep
  <2>1. CASE Attempt
    <3>1. tries' = tries + 1 /\ tries <= MaxRetries /\ monitor = "attempt" /\ manager' = manager
      BY <2>1 DEF Attempt, MonitorAt, MonitorInv
    <3>2. tries' \in 0..(MaxRetries + 1)
      BY <1>1, <3>1 DEF MonitorInv
    <3>3. CASE monitor' = "again" /\ UNCHANGED poolVars
      BY <3>1, <3>2, <3>3 DEF poolVars, MonitorInv, MonitorPC, Outside
    <3>4. CASE Get(Monitor) /\ monitor' = "get"
      BY <3>1, <3>2, <3>4 DEF Get, MonitorInv, MonitorPC, Outside
    <3>5. QED
      BY <2>1, <3>3, <3>4 DEF Attempt
  <2>2. CASE Ping
    BY <2>2 DEF Ping, MonitorAt, Put, MonitorInv, MonitorPC, Outside
  <2>3. CASE HealthReturns
    BY <2>3 DEF HealthReturns, Idle, poolVars, MonitorInv, MonitorPC, Outside
  <2>4. CASE Again \/ Rate
    <3>1. /\ UNCHANGED poolVars /\ manager' = manager /\ monitor \in {"again", "rate"}
          /\ NotHealthy \/ Report
      BY <2>4 DEF Again, Rate, MonitorAt
    <3>2. CASE Report
      BY <1>1, <3>1, <3>2 DEF Report, poolVars, MonitorInv, MonitorPC, Outside
    <3>3. CASE tries <= MaxRetries /\ monitor' = "attempt" /\ UNCHANGED tries
      BY <1>1, <3>1, <3>3 DEF poolVars, MonitorInv, MonitorPC, Outside
    <3>4. QED
      BY <3>1, <3>2, <3>3 DEF NotHealthy
  <2>5. QED
    BY <1>5, <2>1, <2>2, <2>3, <2>4 DEF CheckStep
<1>6. CASE MonitorTick
  BY <1>1, <1>6 DEF MonitorTick, MonitorAt, poolVars, MonitorInv, MonitorPC, Outside
<1>7. CASE ManagerClose \/ ManagerClosed
  BY <1>7 DEF ManagerClose, ManagerClosed, poolVars, MonitorInv
<1>8. CASE MonitorStopped
  BY <1>8 DEF MonitorStopped, CloseStart, maintSide, MonitorInv
<1>9. CASE UNCHANGED vars
  BY <1>9 DEF vars, poolVars, healthVars, MonitorInv
<1>10. QED
  BY <1>2, <1>3, <1>4, <1>5, <1>6, <1>7, <1>8, <1>9 DEF Next

\* The labels agree, and the pool is as proved, at every moment.
LEMMA ManagedInvariant == Spec => [](PoolInv /\ MonitorInv)
<1>1. Init => PoolInit
  BY DEF Init
<1>2. QED
  BY <1>1, InitInv, InitMonitor, NextInv, NextMonitor, NextIsPoolNext, PTL DEF Spec

\* Every variable of the manager and of its pool has its type.
THEOREM ManagedTypes == Spec => []TypeOK
<1>1. PoolInv /\ MonitorInv => TypeOK
  BY DEF PoolInv, MonitorInv, TypeOK
<1>2. QED
  BY <1>1, ManagedInvariant, PTL

\* Close of the manager has waited for the monitor before it closes the pool.
THEOREM MonitorStaysOut == Spec => []MonitorOutOfClose
<1>1. MonitorInv => MonitorOutOfClose
  BY DEF MonitorInv, MonitorOutOfClose, Outside
<1>2. QED
  BY <1>1, ManagedInvariant, PTL
=============================================================================
