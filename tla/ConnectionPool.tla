-------------------------- MODULE ConnectionPool --------------------------
(***************************************************************************)
(* GenericConnectionPool (storage/connection_pool.go): a buffered channel  *)
(* of idle connections, a map of the connections in use, three counters    *)
(* that are changed with atomics apart from both, a maintenance goroutine  *)
(* and a Close that may come at any moment.                                *)
(*                                                                         *)
(* A step of a goroutine is the code up to its next operation on something *)
(* that others see: the channel, a counter, the closed flag, the map under *)
(* its lock.  Whether a connection that is open is found expired or does   *)
(* not answer a ping is not determined by anything in the pool, so a       *)
(* validation of an open connection may go either way; a closed connection *)
(* is never valid (storage/connections.go).                                *)
(***************************************************************************)
EXTENDS Integers, Sequences, FiniteSets

CONSTANTS
  Client,          \* goroutines that call Get and Put
  MaxConnections,  \* capacity of the channel and limit on connections
  MinIdle,         \* MinIdleConnections
  Created          \* bound: how many connections a behaviour may create

ASSUME PoolAssumption ==
  /\ IsFiniteSet(Client)
  /\ MaxConnections \in Nat \ {0}
  /\ MinIdle \in 0..MaxConnections
  /\ Created \in Nat /\ Created >= MinIdle

VARIABLES
  connections,  \* the channel of idle connections
  shut,         \* the channel has been closed
  active,       \* the connections in the map of active ones
  total,        \* stats.TotalConnections
  idleCount,    \* stats.IdleConnections
  activeCount,  \* stats.ActiveConnections
  closed,       \* the flag that Close sets first
  open,         \* connections created and not closed
  born,         \* how many connections have been created
  call,         \* what each client is doing
  maint,        \* what the maintenance goroutine is doing
  closer,       \* how far Close has come
  panicked      \* a goroutine has panicked, which ends the process

channel == <<connections, shut>>
counters == <<total, idleCount, activeCount>>
poolVars == <<connections, shut, active, total, idleCount, activeCount,
              closed, open, born, call, maint, closer, panicked>>

-----------------------------------------------------------------------------
Conn == 1..Created
Nil == 0

\* select .. track are the steps of Get, untrack .. putCount those of Put.
\* waited: the connection came from the blocking receive in
\* createAndTrackConnection, not from the first attempt of Get.
ClientPC == {"out", "select", "counted", "validate", "reserve", "wait",
             "create", "track", "holding", "untrack", "inspect", "putBack",
             "putCount"}
Call == [pc : ClientPC, conn : Conn \cup {Nil}, waited : BOOLEAN]

\* hold and keep are the local slices of connections, need the creations left.
MaintPC == {"tick", "collect", "back", "discard", "minimum", "check",
            "create", "send", "sample", "test", "return", "exited"}
Maint == [pc : MaintPC, hold : Seq(Conn), keep : Seq(Conn), need : Nat]

CloserPC == {"none", "stop", "drain", "active", "reset", "done"}

PoolTypeOK ==
  /\ connections \in Seq(Conn) /\ Len(connections) <= MaxConnections
  /\ active \in SUBSET Conn /\ open \in SUBSET Conn
  /\ total \in Int /\ idleCount \in Int /\ activeCount \in Int
  /\ shut \in BOOLEAN /\ closed \in BOOLEAN /\ panicked \in BOOLEAN
  /\ born \in 0..Created
  /\ call \in [Client -> Call]
  /\ maint \in Maint
  /\ closer \in CloserPC

NoCall == [pc |-> "out", conn |-> Nil, waited |-> FALSE]
Ticking == [pc |-> "tick", hold |-> <<>>, keep |-> <<>>, need |-> 0]

\* NewGenericConnectionPool has filled the channel with MinIdle connections.
PoolInit ==
  /\ connections = [i \in 1..MinIdle |-> i] /\ shut = FALSE
  /\ active = {}
  /\ total = MinIdle /\ idleCount = MinIdle /\ activeCount = 0
  /\ closed = FALSE /\ panicked = FALSE
  /\ open = 1..MinIdle /\ born = MinIdle
  /\ call = [t \in Client |-> NoCall]
  /\ maint = Ticking
  /\ closer = "none"

-----------------------------------------------------------------------------
At(t, label) == call[t].pc = label /\ ~panicked
Goto(t, label) == call' = [call EXCEPT ![t].pc = label]
\* Going on with connection c in the frame, or with none.
Carry(t, label, c, late) ==
  call' = [call EXCEPT ![t] = [pc |-> label, conn |-> c, waited |-> late]]
Drop(t, label) == Carry(t, label, Nil, FALSE)
Return(t) == Drop(t, "out")

\* A receive: of a connection, of nil from the closed and drained channel.
Receive(t, label, late) ==
  /\ connections # <<>>
  /\ connections' = Tail(connections)
  /\ Carry(t, label, Head(connections), late)
  /\ UNCHANGED panicked

\* Validating the nil connection received from a closed channel panics.
ReceiveNil == connections = <<>> /\ shut /\ panicked' = TRUE

\* Get: the closed check, then a receive that does not block.  A Get of a
\* closed pool returns an error and changes nothing.
Get(t) ==
  /\ At(t, "out") /\ ~closed
  /\ Goto(t, "select")
  /\ UNCHANGED <<channel, active, counters, closed, open, born, maint, closer, panicked>>

GetSelect(t) ==
  /\ At(t, "select")
  /\ \/ Receive(t, "counted", FALSE)
     \/ ReceiveNil /\ UNCHANGED <<connections, call>>
     \/ /\ connections = <<>> /\ ~shut
        /\ Goto(t, "reserve")
        /\ UNCHANGED <<connections, panicked>>
  /\ UNCHANGED <<shut, active, counters, closed, open, born, maint, closer>>

CountOut(t) ==
  /\ At(t, "counted")
  /\ idleCount' = idleCount - 1
  /\ Goto(t, "validate")
  /\ UNCHANGED <<channel, active, total, activeCount, closed, open, born, maint, closer, panicked>>

\* An invalid connection is closed.  Only the blocking path gives its slot
\* back; Get itself goes on to reserve another one.
Validate(t) ==
  /\ At(t, "validate")
  /\ \/ /\ call[t].conn \in open
        /\ Goto(t, "track")
        /\ UNCHANGED <<open, total>>
     \/ /\ open' = open \ {call[t].conn}
        /\ total' = IF call[t].waited THEN total - 1 ELSE total
        /\ Drop(t, "reserve")
  /\ UNCHANGED <<channel, active, idleCount, activeCount, closed, born, maint, closer, panicked>>

Track(t) ==
  /\ At(t, "track")
  /\ active' = active \cup {call[t].conn}
  /\ activeCount' = activeCount + 1
  /\ Goto(t, "holding")
  /\ UNCHANGED <<channel, total, idleCount, closed, open, born, maint, closer, panicked>>

\* Mutant of Reserve: the limit is checked but no slot is taken.
ReserveNothing(t) ==
  /\ At(t, "reserve")
  /\ Goto(t, IF total >= MaxConnections THEN "wait" ELSE "create")
  /\ UNCHANGED <<channel, active, counters, closed, open, born, maint, closer, panicked>>

\* The loop around the compare-and-swap: it ends either in the wait or with
\* TotalConnections one higher than the value that was below the limit.
Reserve(t) ==
  /\ At(t, "reserve")
  /\ \/ /\ total >= MaxConnections
        /\ Goto(t, "wait")
        /\ UNCHANGED total
     \/ /\ total < MaxConnections
        /\ total' = total + 1
        /\ Goto(t, "create")
  /\ UNCHANGED <<channel, active, idleCount, activeCount, closed, open, born, maint, closer, panicked>>

\* Mutant of Wait: a receive that no context ends.
WaitForEver(t) ==
  /\ At(t, "wait")
  /\ Receive(t, "counted", TRUE)
  /\ UNCHANGED <<shut, active, counters, closed, open, born, maint, closer>>

\* The blocking receive, which the caller's context ends.
Wait(t) ==
  /\ At(t, "wait")
  /\ \/ Receive(t, "counted", TRUE)
     \/ ReceiveNil /\ UNCHANGED <<connections, call>>
     \/ Return(t) /\ UNCHANGED <<connections, panicked>>
  /\ UNCHANGED <<shut, active, counters, closed, open, born, maint, closer>>

\* factory.CreateConnection in the slot that has been reserved.
Create(t) ==
  /\ At(t, "create")
  /\ \/ /\ born < Created
        /\ born' = born + 1
        /\ open' = open \cup {born + 1}
        /\ Carry(t, "track", born + 1, FALSE)
        /\ UNCHANGED total
     \/ /\ total' = total - 1
        /\ Return(t)
        /\ UNCHANGED <<born, open>>
  /\ UNCHANGED <<channel, active, idleCount, activeCount, closed, maint, closer, panicked>>

\* Put: on a closed pool the connection is closed and stays in the map.
Put(t) ==
  /\ At(t, "holding")
  /\ \/ ~closed /\ Goto(t, "untrack") /\ UNCHANGED open
     \/ closed /\ open' = open \ {call[t].conn} /\ Return(t)
  /\ UNCHANGED <<channel, active, counters, closed, born, maint, closer, panicked>>

Untrack(t) ==
  /\ At(t, "untrack")
  /\ active' = active \ {call[t].conn}
  /\ activeCount' = activeCount - 1
  /\ Goto(t, "inspect")
  /\ UNCHANGED <<channel, total, idleCount, closed, open, born, maint, closer, panicked>>

\* Put closes a connection it does not keep and leaves TotalConnections alone.
Discard(t) == open' = open \ {call[t].conn} /\ Return(t)

Inspect(t) ==
  /\ At(t, "inspect")
  /\ \/ call[t].conn \in open /\ Goto(t, "putBack") /\ UNCHANGED open
     \/ Discard(t)
  /\ UNCHANGED <<channel, active, counters, closed, born, maint, closer, panicked>>

\* Mutant of PutBack: the connection goes back and the caller keeps it.
PutBackKeeping(t) ==
  /\ At(t, "putBack")
  /\ ~shut /\ Len(connections) < MaxConnections
  /\ connections' = Append(connections, call[t].conn)
  /\ Goto(t, "holding")
  /\ UNCHANGED <<shut, active, counters, closed, open, born, maint, closer, panicked>>

\* Mutant of PutBack: the send does not look at the room in the channel.
PutBackAnyway(t) ==
  /\ At(t, "putBack") /\ ~shut
  /\ connections' = Append(connections, call[t].conn)
  /\ Drop(t, "putCount")
  /\ UNCHANGED <<shut, active, counters, closed, open, born, maint, closer, panicked>>

\* The send that does not block; on the closed channel it panics.
PutBack(t) ==
  /\ At(t, "putBack")
  /\ \/ /\ shut /\ panicked' = TRUE
        /\ UNCHANGED <<connections, call, open>>
     \/ /\ ~shut /\ Len(connections) < MaxConnections
        /\ connections' = Append(connections, call[t].conn)
        /\ Drop(t, "putCount")
        /\ UNCHANGED <<open, panicked>>
     \/ /\ ~shut /\ Len(connections) = MaxConnections
        /\ Discard(t)
        /\ UNCHANGED <<connections, panicked>>
  /\ UNCHANGED <<shut, active, counters, closed, born, maint, closer>>

PutCount(t) ==
  /\ At(t, "putCount")
  /\ idleCount' = idleCount + 1
  /\ Return(t)
  /\ UNCHANGED <<channel, active, total, activeCount, closed, open, born, maint, closer, panicked>>

-----------------------------------------------------------------------------
(* maintenanceLoop.  Its own changes of IdleConnections are made in the    *)
(* step of the channel operation: no other goroutine reads that counter.   *)

MaintAt(label) == maint.pc = label /\ ~panicked
clientSide == <<shut, active, activeCount, closed, call, closer, panicked>>

\* The select of the loop; when the stop and a tick are ready either wins.
Tick ==
  /\ MaintAt("tick")
  /\ \/ closer # "none" /\ maint' = [maint EXCEPT !.pc = "exited"]
     \/ maint' = [Ticking EXCEPT !.pc = "collect"]
     \/ maint' = [Ticking EXCEPT !.pc = "sample", !.need = 3]
  /\ UNCHANGED <<connections, total, idleCount, open, born, clientSide>>

\* Mutant of CollectBack: a connection that is put back is closed all the same.
CollectBackToo ==
  /\ MaintAt("back") /\ Len(connections) < MaxConnections
  /\ connections' = connections \o maint.keep
  /\ maint' = [maint EXCEPT !.pc = "discard", !.keep = <<>>,
                            !.hold = @ \o maint.keep]
  /\ UNCHANGED <<total, idleCount, open, born, clientSide>>

\* cleanupIdleConnections: expired connections are collected up to the first
\* that is still valid, which is put back.
Collect ==
  /\ MaintAt("collect")
  /\ \/ /\ connections = <<>>
        /\ maint' = [maint EXCEPT !.pc = "discard"]
        /\ UNCHANGED <<connections, idleCount>>
     \/ /\ connections # <<>>
        /\ connections' = Tail(connections)
        /\ \/ /\ maint' = [maint EXCEPT !.hold = Append(@, Head(connections))]
              /\ idleCount' = idleCount - 1
           \/ /\ Head(connections) \in open
              /\ maint' = [maint EXCEPT !.pc = "back",
                                        !.keep = <<Head(connections)>>]
              /\ UNCHANGED idleCount
  /\ UNCHANGED <<total, open, born, clientSide>>

CollectBack ==
  /\ MaintAt("back")
  /\ \/ /\ Len(connections) < MaxConnections
        /\ connections' = connections \o maint.keep
        /\ maint' = [maint EXCEPT !.pc = "discard", !.keep = <<>>]
        /\ UNCHANGED idleCount
     \/ /\ Len(connections) = MaxConnections
        /\ maint' = [maint EXCEPT !.pc = "discard", !.keep = <<>>,
                                  !.hold = @ \o maint.keep]
        /\ idleCount' = idleCount - 1
        /\ UNCHANGED connections
  /\ UNCHANGED <<total, open, born, clientSide>>

\* One round of the loop that closes what was collected.
DiscardExpired ==
  /\ MaintAt("discard")
  /\ \/ /\ maint.hold = <<>>
        /\ maint' = [maint EXCEPT !.pc = "minimum"]
        /\ UNCHANGED <<open, total>>
     \/ /\ maint.hold # <<>>
        /\ open' = open \ {Head(maint.hold)}
        /\ total' = total - 1
        /\ maint' = [maint EXCEPT !.hold = Tail(@)]
  /\ UNCHANGED <<connections, idleCount, born, clientSide>>

\* ensureMinimumIdleConnections: the shortage is computed once ...
Minimum ==
  /\ MaintAt("minimum")
  /\ maint' = IF MinIdle > idleCount
              THEN [Ticking EXCEPT !.pc = "check", !.need = MinIdle - idleCount]
              ELSE Ticking
  /\ UNCHANGED <<connections, total, idleCount, open, born, clientSide>>

\* Mutant of MinimumCheck: the limit is not compared.
MinimumUnlimited ==
  /\ MaintAt("check")
  /\ maint' = IF maint.need = 0 THEN Ticking
              ELSE [maint EXCEPT !.pc = "create", !.need = @ - 1]
  /\ UNCHANGED <<connections, total, idleCount, open, born, clientSide>>

\* ... the limit is compared in one step and the connection made in another.
MinimumCheck ==
  /\ MaintAt("check")
  /\ maint' = IF maint.need = 0 \/ total >= MaxConnections THEN Ticking
              ELSE [maint EXCEPT !.pc = "create", !.need = @ - 1]
  /\ UNCHANGED <<connections, total, idleCount, open, born, clientSide>>

MinimumCreate ==
  /\ MaintAt("create")
  /\ \/ /\ born < Created
        /\ born' = born + 1
        /\ open' = open \cup {born + 1}
        /\ total' = total + 1
        /\ maint' = [maint EXCEPT !.pc = "send", !.keep = <<born + 1>>]
     \/ maint' = Ticking /\ UNCHANGED <<born, open, total>>
  /\ UNCHANGED <<connections, idleCount, clientSide>>

\* Returning the first kept connection, or closing it when the channel is full.
SendBack(label) ==
  /\ maint' = [maint EXCEPT !.pc = label, !.keep = Tail(@)]
  /\ \/ /\ Len(connections) < MaxConnections
        /\ connections' = Append(connections, Head(maint.keep))
        /\ idleCount' = idleCount + 1
        /\ UNCHANGED <<open, total>>
     \/ /\ Len(connections) = MaxConnections
        /\ open' = open \ {Head(maint.keep)}
        /\ total' = total - 1
        /\ UNCHANGED <<connections, idleCount>>

\* The break after a full channel leaves the select only: the loop goes on.
MinimumSend ==
  /\ MaintAt("send")
  /\ SendBack("check")
  /\ UNCHANGED <<born, clientSide>>

\* performHealthCheck: up to three receives (its break, too, leaves only the
\* select), a validation of each, and the return of those that passed.
Sample ==
  /\ MaintAt("sample")
  /\ \/ /\ maint.need = 0
        /\ maint' = [maint EXCEPT !.pc = "test"]
        /\ UNCHANGED <<connections, idleCount>>
     \/ /\ maint.need > 0 /\ connections = <<>>
        /\ maint' = [maint EXCEPT !.need = @ - 1]
        /\ UNCHANGED <<connections, idleCount>>
     \/ /\ maint.need > 0 /\ connections # <<>>
        /\ connections' = Tail(connections)
        /\ idleCount' = idleCount - 1
        /\ maint' = [maint EXCEPT !.need = @ - 1,
                                  !.hold = Append(@, Head(connections))]
  /\ UNCHANGED <<total, open, born, clientSide>>

Test ==
  /\ MaintAt("test")
  /\ \/ /\ maint.hold = <<>>
        /\ maint' = [maint EXCEPT !.pc = "return"]
        /\ UNCHANGED <<open, total>>
     \/ /\ maint.hold # <<>> /\ Head(maint.hold) \in open
        /\ maint' = [maint EXCEPT !.hold = Tail(@),
                                  !.keep = Append(@, Head(maint.hold))]
        /\ UNCHANGED <<open, total>>
     \/ /\ maint.hold # <<>>
        /\ open' = open \ {Head(maint.hold)}
        /\ total' = total - 1
        /\ maint' = [maint EXCEPT !.hold = Tail(@)]
  /\ UNCHANGED <<connections, idleCount, born, clientSide>>

ReturnSample ==
  /\ MaintAt("return")
  /\ \/ /\ maint.keep = <<>>
        /\ maint' = Ticking
        /\ UNCHANGED <<connections, idleCount, open, total>>
     \/ maint.keep # <<>> /\ SendBack("return")
  /\ UNCHANGED <<born, clientSide>>

MaintStep ==
  \/ Tick \/ Collect \/ CollectBack \/ DiscardExpired \/ Minimum
  \/ MinimumCheck \/ MinimumCreate \/ MinimumSend
  \/ Sample \/ Test \/ ReturnSample

-----------------------------------------------------------------------------
(* Close.                                                                  *)

maintSide == <<born, call, maint>>

\* The compare-and-swap of the flag and the close of stopChan.
CloseStart ==
  /\ ~panicked /\ closer = "none"
  /\ closed' = TRUE
  /\ closer' = "stop"
  /\ UNCHANGED <<channel, active, counters, open, panicked, maintSide>>

\* wg.Wait returns, and the channel is closed.
CloseChannel ==
  /\ ~panicked /\ closer = "stop" /\ maint.pc = "exited"
  /\ shut' = TRUE
  /\ closer' = "drain"
  /\ UNCHANGED <<connections, active, counters, closed, open, panicked, maintSide>>

\* Mutant of Drain: what is left in the channel is not closed.
DrainNothing ==
  /\ ~panicked /\ closer = "drain"
  /\ closer' = "active"
  /\ UNCHANGED <<channel, active, open, counters, closed, panicked, maintSide>>

\* One round of the range over the channel, which a Get may be receiving from.
Drain ==
  /\ ~panicked /\ closer = "drain"
  /\ \/ /\ connections # <<>>
        /\ connections' = Tail(connections)
        /\ open' = open \ {Head(connections)}
        /\ UNCHANGED closer
     \/ /\ connections = <<>>
        /\ closer' = "active"
        /\ UNCHANGED <<connections, open>>
  /\ UNCHANGED <<shut, active, counters, closed, panicked, maintSide>>

CloseActive ==
  /\ ~panicked /\ closer = "active"
  /\ open' = open \ active
  /\ active' = {}
  /\ closer' = "reset"
  /\ UNCHANGED <<channel, counters, closed, panicked, maintSide>>

CloseReset ==
  /\ ~panicked /\ closer = "reset"
  /\ activeCount' = 0 /\ idleCount' = 0
  /\ closer' = "done"
  /\ UNCHANGED <<channel, active, total, closed, open, panicked, maintSide>>

CloseStep == CloseChannel \/ Drain \/ CloseActive \/ CloseReset

-----------------------------------------------------------------------------
\* What a client does on its own once it has called Get or Put.
Inside(t) ==
  \/ GetSelect(t) \/ CountOut(t) \/ Validate(t) \/ Track(t) \/ Reserve(t)
  \/ Wait(t) \/ Create(t) \/ Untrack(t) \/ Inspect(t) \/ PutBack(t)
  \/ PutCount(t)

PoolNext ==
  \/ \E t \in Client : Get(t) \/ Put(t) \/ Inside(t)
  \/ MaintStep
  \/ CloseStart \/ CloseStep

PoolSpec == PoolInit /\ [][PoolNext]_poolVars

-----------------------------------------------------------------------------
(* Properties.                                                             *)

Occurrences(c, s) == {i \in DOMAIN s : s[i] = c}

\* How many places hold connection c: the channel, the frame of a client, the
\* local slices of the maintenance goroutine.
Holders(c) ==
  Cardinality(Occurrences(c, connections))
  + Cardinality({t \in Client : call[t].conn = c})
  + Cardinality(Occurrences(c, maint.hold)) + Cardinality(Occurrences(c, maint.keep))

\* A connection is never with two owners at once, and one that is open is
\* never with nobody: whatever path Get, Put, the maintenance or Close takes,
\* it hands the connection on or closes it.  What a client has got stays open
\* until the client puts it back or the pool is closed.
OneOwner ==
  /\ \A c \in Conn : Holders(c) <= 1 /\ (c \in open => Holders(c) = 1)
  /\ \A t \in Client :
       call[t].pc = "holding" /\ closer \in {"none", "stop", "drain", "active"}
         => call[t].conn \in open

\* Slots taken for connections that do not exist yet.
Reserved == Cardinality({t \in Client : call[t].pc = "create"})

\* TotalConnections never understates what is open: a connection gives its
\* slot back once, when it is closed, and no earlier.  It overruns the limit by
\* one at most, the connection that ensureMinimumIdleConnections makes after it
\* has compared the counter.
SlotsCovered ==
  /\ Cardinality(open) + Reserved <= total
  /\ total <= MaxConnections + 1

\* Once Close has returned and no client is between Get and Put, every
\* connection ever created is closed.
ClosedLeavesNothing ==
  closer = "done" /\ ~panicked /\ (\A t \in Client : call[t].pc = "out")
    => open = {} /\ connections = <<>>
=============================================================================
