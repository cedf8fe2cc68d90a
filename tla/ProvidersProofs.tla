-------------------------- MODULE ProvidersProofs --------------------------
(***************************************************************************)
(* FailoversAreSound of the provider managers and of AutoEmbedder, for any *)
(* number of clients, names, registrations, retries, embedders and texts.  *)
(*                                                                         *)
(* The invariant says what a call still has to visit: the entries that     *)
(* could be used all along (steady) have been asked, are at hand, or are   *)
(* in what is left of the list; and no entry that is left is better than   *)
(* the one at hand.  Likewise the embedders (lasting) that could be        *)
(* reached all along are among the fallbacks still to be tried.            *)
(***************************************************************************)
EXTENDS Providers, FiniteSetTheorems, TLAPS

Partial(D, R) == UNION {[S -> R] : S \in SUBSET D}

-----------------------------------------------------------------------------
\* The types of the state.
Listed == [name : Name, is : Instance]
Todos == Seq(Instance) \cup Seq(Name) \cup Seq(Listed)
CallType ==
  [op : Managing \cup {"none"},
   at : {"idle", "return", "register", "unregister", "list", "health", "record", "failover", "once",
         "visit", "ask", "mark", "execute", "next", "try", "backoff", "check", "checking",
         "start", "spawn", "stop", "join"},
   of : Name \cup {"none"},
   todo : Todos, who : Instance \cup {None}, asked : SUBSET Instance, tries : 0..MaxRetries,
   good : BOOLEAN, result : {"none", "ok", "failed", "cancelled"}]

RequestType ==
  [op : {"none", "embed", "batch"},
   at : {"idle", "return", "lookup", "primary", "fallbacks", "try", "keep", "scan", "batch", "fill"},
   texts : Seq(Text), got : Partial(Nat, Embedding), left : Seq(Nat), one : Nat,
   tries : Seq(Embedder), by : Embedder \cup {"none"}, error : {"none", "all failed", "no primary"}]

ManagerTyped ==
  /\ providers \in [Name -> Instance \cup {None}]
  /\ healthy \in SUBSET Instance /\ answering \in SUBSET Instance /\ failed \in SUBSET Instance
  /\ check \in [by : Client \cup {NoClient, Checker}, left : SUBSET Instance]
  /\ checker \in [enabled : BOOLEAN, closed : BOOLEAN, waiting : Nat, joining : Client \cup {NoClient}]
  /\ registered \in [Name -> Instance \cup {None}] /\ reported \in SUBSET Instance
  /\ made \in Seq(Name) /\ Len(made) <= MaxInstances

CallsTyped ==
  /\ call \in [Client -> CallType] /\ plan \in Workloads
  /\ steady \in [Client -> SUBSET Instance]

EmbedderTyped ==
  /\ embedders \in SUBSET Embedder /\ primary \in Embedder /\ fallbacks \in Seq(Embedder)
  /\ cache \in Partial(Text, Embedding) /\ reachable \in SUBSET Embedder
  /\ request \in [Client -> RequestType] /\ lasting \in [Client -> SUBSET Embedder]

-----------------------------------------------------------------------------
\* An entry, and a record of the registry, is one that was made for its name.
Named ==
  /\ failed \subseteq DOMAIN made
  /\ \A n \in Name :
       /\ providers[n] # None => providers[n] \in DOMAIN made /\ made[providers[n]] = n
       /\ registered[n] # None => registered[n] \in DOMAIN made /\ made[registered[n]] = n

\* A check has its entries while it has the lock.
CheckInv == check.left \subseteq Entries /\ (Unlocked => check.left = {})

-----------------------------------------------------------------------------
Few == Cardinality(ToSet(made)) <= 2
Rank(i) == plan.priority[made[i]]

LabelsOK(c) ==
  /\ call[c].at \in {"register", "unregister"} => call[c].of \in Name
  /\ call[c].at \in {"failover", "once", "visit", "ask", "mark"} => call[c].op = "failover"
  /\ call[c].at \in {"execute", "next", "try", "backoff"} => call[c].op = "execute"
  /\ call[c].at \in {"register", "unregister", "list", "health", "record", "check", "checking",
                     "start", "spawn", "stop", "join"} => call[c].op \notin {"failover", "execute"}
  /\ call[c].at = "once" => ~plan.failover /\ call[c].who \in DOMAIN made
  /\ call[c].result # "none" => call[c].at = "return"

\* The registry's check knows the names of what it asks.
RecordsOK(c) ==
  call[c].at \in {"health", "record"} =>
    /\ call[c].todo \in Seq(Listed)
    /\ \A k \in DOMAIN call[c].todo :
         call[c].todo[k].is \in DOMAIN made /\ made[call[c].todo[k].is] = call[c].todo[k].name
    /\ call[c].at = "record" =>
         call[c].todo # <<>> /\ (~call[c].good => call[c].todo[1].is \in failed)

\* What a failover has not visited yet.
VisitsOK(c) ==
  call[c].at \in {"visit", "ask", "mark"} =>
    /\ call[c].todo \in Seq(Instance)
    /\ \A k \in DOMAIN call[c].todo : call[c].todo[k] \in DOMAIN made
    /\ \A k, m \in DOMAIN call[c].todo : k < m => Rank(call[c].todo[k]) <= Rank(call[c].todo[m])
    /\ call[c].at \in {"ask", "mark"} => call[c].who \in DOMAIN made
    /\ call[c].at = "ask" => \A k \in DOMAIN call[c].todo : Rank(call[c].who) <= Rank(call[c].todo[k])
    /\ call[c].at = "mark" => call[c].who \in call[c].asked
    /\ \A i \in steady[c] :
         i \in call[c].asked \/ i \in ToSet(call[c].todo) \/ (call[c].at = "ask" /\ i = call[c].who)

\* The names an ExecuteWithFailover has not looked up yet.
TriesOK(c) ==
  call[c].at \in {"next", "try", "backoff"} =>
    /\ call[c].todo \in Seq(Name)
    /\ steady[c] \subseteq DOMAIN made
    /\ \A i \in steady[c] :
         i \in call[c].asked \/ made[i] \in ToSet(call[c].todo) \/ (call[c].at = "try" /\ i = call[c].who)
    /\ call[c].at \in {"try", "backoff"} => call[c].who \in DOMAIN made
    /\ call[c].at = "backoff" => call[c].who \in call[c].asked
    /\ Few =>
         /\ \A k, m \in DOMAIN call[c].todo :
              k < m => plan.priority[call[c].todo[k]] <= plan.priority[call[c].todo[m]]
         /\ call[c].at \in {"try", "backoff"} =>
              \A k \in DOMAIN call[c].todo : Rank(call[c].who) <= plan.priority[call[c].todo[k]]

FailedOK(c) ==
  call[c].result = "failed" /\ (call[c].op = "execute" \/ (call[c].op = "failover" /\ plan.failover))
    => steady[c] \subseteq call[c].asked

CallOK(c) ==
  /\ call[c].asked \subseteq failed
  /\ LabelsOK(c) /\ RecordsOK(c) /\ VisitsOK(c) /\ TriesOK(c) /\ FailedOK(c)

\* Since its first step, only what can be used is steady.
SteadyOK(c) ==
  call[c].at \in {"visit", "ask", "mark", "next", "try", "backoff"} => steady[c] \subseteq Usables(c)

-----------------------------------------------------------------------------
CacheOK == \A t \in DOMAIN cache : cache[t].of = t /\ cache[t].by \in embedders

\* What an embedding was got for, and the indices it is still to be got for.
GotOK(c) ==
  \A k \in DOMAIN request[c].got :
    k \in DOMAIN request[c].texts /\ request[c].got[k].of = request[c].texts[k]
                                  /\ request[c].got[k].by \in embedders
LeftOK(c) ==
  /\ ToSet(request[c].left) \subseteq DOMAIN request[c].texts
  /\ request[c].at \in {"lookup", "primary", "fallbacks", "try", "keep", "scan"} =>
       request[c].one \in DOMAIN request[c].texts
  /\ request[c].at \in {"lookup", "primary", "fallbacks", "try", "keep"} =>
       /\ \A k \in DOMAIN request[c].texts :
            k \in DOMAIN request[c].got \/ k = request[c].one \/ k \in ToSet(request[c].left)
       /\ request[c].left # <<>> => Head(request[c].left) = request[c].one
  /\ request[c].at = "scan" =>
       \A k \in DOMAIN request[c].texts :
         k < request[c].one => k \in DOMAIN request[c].got \/ k \in ToSet(request[c].left)
  /\ request[c].at \in {"batch", "fill"} =>
       /\ request[c].left # <<>>
       /\ \A k \in DOMAIN request[c].texts : k \in DOMAIN request[c].got \/ k \in ToSet(request[c].left)
  /\ request[c].at = "return" /\ request[c].error = "none" =>
       DOMAIN request[c].texts \subseteq DOMAIN request[c].got
  /\ request[c].at \in {"keep", "fill"} => request[c].by \in embedders
  /\ request[c].error # "none" => request[c].at = "return"

\* The embedders that could be reached all along are still to be tried.
LastingOK(c) ==
  /\ request[c].at # "idle" => lasting[c] \subseteq Reachables
  /\ request[c].at = "fallbacks" => lasting[c] \subseteq ToSet(fallbacks)
  /\ request[c].at = "try" => lasting[c] \subseteq ToSet(request[c].tries)
  /\ request[c].at = "return" /\ request[c].error = "all failed" => lasting[c] = {}

RequestOK(c) == GotOK(c) /\ LeftOK(c) /\ LastingOK(c)

-----------------------------------------------------------------------------
ManagerPart == ManagerTyped /\ Named /\ CheckInv /\ MarkedForCause
CallsPart == CallsTyped /\ \A c \in Client : CallOK(c) /\ SteadyOK(c)
EmbedderPart == EmbedderTyped /\ CacheOK /\ \A c \in Client : RequestOK(c)

FailoverInv == ManagerPart /\ CallsPart /\ EmbedderPart
-----------------------------------------------------------------------------
\* A set of natural numbers that is not empty has a least one.
LEMMA LeastNat ==
  ASSUME NEW S, S \subseteq Nat, S # {}
  PROVE  \E n \in S : \A m \in S : n <= m
<1> DEFINE R == {ss \in Nat \X Nat : ss[1] < ss[2]}
<1>1. IsWellFoundedOn(R, Nat)
  BY NatLessThanWellFounded DEF OpToRel
<1>2. PICK x \in S : \A y \in S : <<y, x>> \notin R
  <2> HIDE DEF R
  <2> QED  BY <1>1, WFMin
<1>3. ASSUME NEW y \in S
      PROVE  x <= y
  <2>1. ~(y < x)
    BY <1>2
  <2> QED  BY <2>1
<1> QED  BY <1>3

\* A listing of a finite set has each of its members, and only those.
LEMMA Listing ==
  ASSUME NEW S, IsFiniteSet(S), NEW order \in SetToSeqs(S)
  PROVE  /\ order \in Seq(S) /\ Len(order) = Cardinality(S)
         /\ ToSet(order) = S
<1> DEFINE D == 1..Cardinality(S)
<1>1. Cardinality(S) \in Nat
  BY FS_CardinalityType
<1>2. order \in [D -> S] /\ \A i, j \in D : i # j => order[i] # order[j]
  BY DEF SetToSeqs
<1>3. order \in Seq(S) /\ Len(order) = Cardinality(S) /\ DOMAIN order = D
  BY <1>1, <1>2
<1>4. ASSUME NEW x \in S
      PROVE  x \in ToSet(order)
  <2>1. SUFFICES ASSUME x \notin ToSet(order)
                 PROVE  FALSE
    OBVIOUS
  <2>2. order \in [D -> S \ {x}]
    BY <2>1, <1>2, <1>3 DEF ToSet
  <2>3. IsFiniteSet(S \ {x}) /\ Cardinality(S \ {x}) = Cardinality(S) - 1
    BY FS_RemoveElement
  <2>4. IsFiniteSet(D) /\ Cardinality(D) = Cardinality(S)
    BY <1>1, FS_Interval
  <2>5. PICK i, j \in D : i # j /\ order[i] = order[j]
    BY <2>2, <2>3, <2>4, <1>1, FS_PigeonHole
  <2> QED  BY <2>5, <1>2
<1>5. ToSet(order) \subseteq S
  BY <1>2, <1>3 DEF ToSet
<1> QED  BY <1>3, <1>4, <1>5

\* Neighbours in order are an order of all.
LEMMA AllInOrder ==
  ASSUME NEW f, NEW n \in Nat, \A k \in 1..n : f[k] \in Int,
         \A k \in 1..(n - 1) : f[k] <= f[k + 1]
  PROVE  \A k, m \in 1..n : k < m => f[k] <= f[m]
<1> SUFFICES ASSUME NEW k \in 1..n
             PROVE  \A m \in 1..n : k < m => f[k] <= f[m]
  OBVIOUS
<1> DEFINE Wrong == {m \in 1..n : k < m /\ ~(f[k] <= f[m])}
<1>1. SUFFICES ASSUME Wrong # {}
               PROVE  FALSE
  OBVIOUS
<1>2. PICK m \in Wrong : \A j \in Wrong : m <= j
  <2>1. Wrong \subseteq Nat
    OBVIOUS
  <2> HIDE DEF Wrong
  <2> QED  BY <1>1, <2>1, LeastNat
<1>3. m \in 1..n /\ k < m /\ f[m] < f[k]
  OBVIOUS
<1>4. m - 1 \in 1..(n - 1) /\ m - 1 \in 1..n /\ f[m - 1] <= f[m]
  BY <1>3
<1>5. CASE m - 1 = k
  BY <1>3, <1>4, <1>5
<1>6. CASE m - 1 # k
  <2>1. m - 1 \notin Wrong
    BY <1>2, <1>3
  <2>2. f[k] <= f[m - 1]
    BY <2>1, <1>3, <1>4, <1>6
  <2> QED  BY <2>2, <1>3, <1>4
<1> QED  BY <1>5, <1>6

-----------------------------------------------------------------------------
\* The sort of ExecuteWithFailover: a step of it moves a name to the front of
\* some others, and loses none.
Descends(j, k, Priority, listed) ==
  \A m \in (j + 1)..k : Priority[listed[m]] < Priority[listed[m - 1]]
Moved(order, k, to) ==
  [m \in 1..Len(order) |-> IF m < to THEN order[m] ELSE IF m = to THEN order[k]
                           ELSE IF m <= k THEN order[m - 1] ELSE order[m]]

\* A step of the sort takes the k-th name to the place of its descent.
LEMMA SinkMoves ==
  ASSUME NEW S, NEW order \in Seq(S), NEW k \in 1..Len(order), NEW Priority, NEW listed
  PROVE  \E to \in 1..k :
           /\ Descends(to, k, Priority, listed)
           /\ \A j \in 1..k : Descends(j, k, Priority, listed) => to <= j
           /\ Sink(order, k, Priority, listed) = Moved(order, k, to)
<1> DEFINE Places == {j \in 1..k : \A m \in (j + 1)..k : Priority[listed[m]] < Priority[listed[m - 1]]}
           to == Min(Places)
<1>1. Places \subseteq Nat /\ k \in Places
  BY Z3
<1>2. to \in Places /\ \A j \in Places : to <= j
  <2> HIDE DEF Places
  <2> QED  BY <1>1, LeastNat DEF Min
<1>3. to \in 1..k
  BY <1>2
<1> HIDE DEF to
<1> DEFINE front == SubSeq(order, 1, to - 1)
           middle == SubSeq(order, to, k - 1)
           back == SubSeq(order, k + 1, Len(order))
<1>4. front \in Seq(S) /\ Len(front) = to - 1 /\ \A m \in 1..(to - 1) : front[m] = order[m]
  BY <1>3
<1>5. middle \in Seq(S) /\ Len(middle) = k - to /\ \A m \in 1..(k - to) : middle[m] = order[to + m - 1]
  BY <1>3
<1>6. back \in Seq(S) /\ Len(back) = Len(order) - k /\ \A m \in 1..(Len(order) - k) : back[m] = order[k + m]
  BY <1>3
<1>7. Sink(order, k, Priority, listed) = front \o <<order[k]>> \o middle \o back
  BY DEF Sink, to
<1> HIDE DEF front, middle, back
<1> DEFINE sunk == front \o <<order[k]>> \o middle \o back
           moved == [m \in 1..Len(order) |-> IF m < to THEN order[m] ELSE IF m = to THEN order[k]
                                         ELSE IF m <= k THEN order[m - 1] ELSE order[m]]
<1>8. <<order[k]>> \in Seq(S) /\ Len(<<order[k]>>) = 1 /\ <<order[k]>>[1] = order[k]
  OBVIOUS
<1>9. sunk \in Seq(S) /\ Len(sunk) = Len(order)
  BY <1>3, <1>4, <1>5, <1>6, <1>8
<1>10. ASSUME NEW m \in 1..Len(order)
       PROVE  sunk[m] = moved[m]
  <2> DEFINE two == front \o <<order[k]>>
             three == two \o middle
  <2>1. two \in Seq(S) /\ Len(two) = to /\ two[to] = order[k] /\ \A j \in 1..(to - 1) : two[j] = order[j]
    BY <1>3, <1>4, <1>8
  <2> HIDE DEF two
  <2>2. /\ three \in Seq(S) /\ Len(three) = k
        /\ \A j \in 1..to : three[j] = two[j]
        /\ \A j \in (to + 1)..k : three[j] = middle[j - to]
    <3>1. three \in Seq(S) /\ Len(three) = k
      <4>1. two \in Seq(S) /\ middle \in Seq(S)
        BY <1>5, <2>1
      <4>2. three \in Seq(S) /\ Len(three) = Len(two) + Len(middle)
        BY <4>1
      <4>3. Len(two) = to /\ Len(middle) = k - to
        BY <1>5, <2>1
      <4> QED  BY <4>2, <4>3, <1>3
    <3>2. ASSUME NEW j \in 1..to
          PROVE  three[j] = two[j]
      BY <1>3, <1>5, <2>1
    <3>3. ASSUME NEW j \in (to + 1)..k
          PROVE  three[j] = middle[j - to]
      <4>1. j \in 1..(Len(two) + Len(middle)) /\ ~(j <= Len(two))
        BY <1>3, <1>5, <2>1
      <4>2. three[j] = middle[j - Len(two)]
        BY SMTT(20), <4>1, <1>5, <2>1
      <4> QED  BY <4>2, <2>1
    <3> QED  BY <3>1, <3>2, <3>3
  <2>3. \A j \in (to + 1)..k : three[j] = order[j - 1]
    BY <1>3, <1>5, <2>2
  <2> HIDE DEF three
  <2>4. sunk = three \o back
    BY DEF two, three
  <2> HIDE DEF sunk
  <2>5. /\ \A j \in 1..k : sunk[j] = three[j]
        /\ \A j \in (k + 1)..Len(order) : sunk[j] = back[j - k]
    BY <1>3, <1>6, <2>2, <2>4
  <2>6. CASE m <= k
    BY <1>3, <2>1, <2>2, <2>3, <2>5, <2>6
  <2>7. CASE m > k
    <3>1. sunk[m] = back[m - k] /\ m - k \in 1..(Len(order) - k)
      BY <2>5, <2>7
    <3> QED  BY <3>1, <1>3, <1>6, <2>7
  <2> QED  BY <2>6, <2>7
<1>11. sunk = moved
  <2> HIDE DEF sunk
  <2>1. DOMAIN sunk = 1..Len(order) /\ sunk = [m \in 1..Len(order) |-> sunk[m]]
    BY <1>9
  <2> QED  BY <2>1, <1>10
<1> QED  BY <1>2, <1>3, <1>7, <1>11 DEF Descends, Moved

\* It loses no name and makes up none.
LEMMA SinkKeeps ==
  ASSUME NEW S, NEW order \in Seq(S), NEW k \in 1..Len(order), NEW Priority, NEW listed
  PROVE  /\ Sink(order, k, Priority, listed) \in Seq(S)
         /\ Len(Sink(order, k, Priority, listed)) = Len(order)
         /\ ToSet(Sink(order, k, Priority, listed)) = ToSet(order)
<1> DEFINE sunk == Sink(order, k, Priority, listed)
<1>0. PICK to \in 1..k : sunk = Moved(order, k, to)
  BY SinkMoves
<1> HIDE DEF sunk
<1>1. sunk = [m \in 1..Len(order) |-> IF m < to THEN order[m] ELSE IF m = to THEN order[k]
                                      ELSE IF m <= k THEN order[m - 1] ELSE order[m]]
  BY <1>0 DEF Moved
<1>2. DOMAIN sunk = 1..Len(order) /\ \A m \in 1..Len(order) : sunk[m] \in S
  BY <1>1
<1>3. sunk \in Seq(S) /\ Len(sunk) = Len(order)
  BY <1>1, <1>2
<1>4. ASSUME NEW m \in 1..Len(order)
      PROVE  order[m] \in ToSet(sunk) /\ sunk[m] \in ToSet(order)
  <2>1. sunk[m] \in {order[m], order[k]} \/ (m - 1 \in 1..Len(order) /\ sunk[m] = order[m - 1])
    BY <1>1
  <2>2. sunk[m] \in ToSet(order)
    BY <2>1 DEF ToSet
  <2>3. CASE m < to \/ m > k
    <3>1. sunk[m] = order[m] /\ m \in DOMAIN sunk
      BY <2>3, <1>1, <1>2
    <3> QED  BY <3>1, <2>2 DEF ToSet
  <2>4. CASE m = k
    <3>1. sunk[to] = order[m] /\ to \in DOMAIN sunk
      BY <2>4, <1>1, <1>2
    <3> QED  BY <3>1, <2>2 DEF ToSet
  <2>5. CASE m >= to /\ m < k
    <3>1. sunk[m + 1] = order[m] /\ m + 1 \in DOMAIN sunk
      BY <2>5, <1>1, <1>2
    <3> QED  BY <3>1, <2>2 DEF ToSet
  <2> QED  BY <2>3, <2>4, <2>5
<1>5. ToSet(sunk) = ToSet(order)
  BY <1>2, <1>4 DEF ToSet
<1> QED  BY <1>3, <1>5 DEF sunk

\* SortedNames has the orders that its definition says: each step sinks a name
\* in the order before it.
Sorts(order, listed, Priority) ==
  /\ order[0] = listed
  /\ \A k \in 1..Len(listed) : order[k] = Sink(order[k - 1], k, Priority, listed)
  /\ SortedNames(listed, Priority) = order[Len(listed)]

\* SortedNames is the last of such steps.
LEMMA SortedInSteps ==
  ASSUME NEW listed \in Seq(Name), NEW Priority
  PROVE  \E order \in [0..Len(listed) -> Seq(Name)] :
           /\ Sorts(order, listed, Priority)
           /\ Len(order[Len(listed)]) = Len(listed)
           /\ ToSet(order[Len(listed)]) = ToSet(listed)
<1> DEFINE N == Len(listed)
           Good(f, n) == /\ f \in [0..n -> Seq(Name)]
                         /\ f[0] = listed
                         /\ \A k \in 1..n : f[k] = Sink(f[k - 1], k, Priority, listed)
                         /\ \A k \in 0..n : Len(f[k]) = N /\ ToSet(f[k]) = ToSet(listed)
           Bad == {n \in 0..N : ~\E f : Good(f, n)}
<1>1. N \in Nat
  OBVIOUS
<1>2. Bad = {}
  <2>1. SUFFICES ASSUME Bad # {}
                 PROVE  FALSE
    OBVIOUS
  <2>2. PICK n \in Bad : \A m \in Bad : n <= m
    <3>1. Bad \subseteq Nat
      BY <1>1
    <3> HIDE DEF Bad
    <3> QED  BY <2>1, <3>1, LeastNat
  <2>3. CASE n = 0
    <3>1. Good([k \in 0..0 |-> listed], 0)
      OBVIOUS
    <3> HIDE DEF Good
    <3> QED  BY <2>3, <3>1
  <2>4. CASE n # 0
    <3>1. n - 1 \in 0..N /\ n - 1 \notin Bad /\ n \in 1..N
      <4>1. n \in 0..N
        OBVIOUS
      <4> HIDE DEF Bad
      <4>2. n - 1 \in 0..N /\ n \in 1..N
        BY <4>1, <2>4, <1>1
      <4>3. n - 1 \notin Bad
        BY <4>1, <4>2, <2>2
      <4> QED  BY <4>2, <4>3
    <3>2. PICK f : Good(f, n - 1)
      <4> HIDE DEF Good
      <4> QED  BY <3>1
    <3> DEFINE sunk == Sink(f[n - 1], n, Priority, listed)
               g == [k \in 0..n |-> IF k = n THEN sunk ELSE f[k]]
    <3>3. f[n - 1] \in Seq(Name) /\ Len(f[n - 1]) = N /\ ToSet(f[n - 1]) = ToSet(listed)
      BY <3>1, <3>2
    <3>4. sunk \in Seq(Name) /\ Len(sunk) = N /\ ToSet(sunk) = ToSet(listed)
      BY <3>1, <3>3, SinkKeeps
    <3>5. g \in [0..n -> Seq(Name)] /\ g[0] = listed
      <4> HIDE DEF sunk
      <4> QED  BY <3>1, <3>2, <3>4
    <3>6. \A k \in 1..n : g[k] = Sink(g[k - 1], k, Priority, listed)
      BY <3>1, <3>2
    <3>7. \A k \in 0..n : Len(g[k]) = N /\ ToSet(g[k]) = ToSet(listed)
      <4> HIDE DEF sunk
      <4> QED  BY <3>1, <3>2, <3>4
    <3>8. Good(g, n)
      BY <3>5, <3>6, <3>7
    <3> HIDE DEF Good, g
    <3> QED  BY <3>8
  <2> QED  BY <2>3, <2>4
<1>3. PICK f : Good(f, N)
  <2>1. N \in 0..N
    BY <1>1
  <2> HIDE DEF Good, N
  <2> QED  BY <2>1, <1>2
<1> DEFINE Steps(h) == h = [k \in 0..N |-> IF k = 0 THEN listed ELSE Sink(h[k - 1], k, Priority, listed)]
           order == CHOOSE h : Steps(h)
<1>4. Steps(f)
  BY <1>1, <1>3
<1>5. Steps(order)
  <2> HIDE DEF Steps
  <2> QED  BY <1>4
<1>6. SortedNames(listed, Priority) = order[N]
  BY DEF SortedNames
<1> HIDE DEF order
<1>7. \A k \in 0..N : order[k] = f[k]
  <2> DEFINE Off == {k \in 0..N : order[k] # f[k]}
  <2>1. SUFFICES ASSUME Off # {}
                 PROVE  FALSE
    OBVIOUS
  <2>2. PICK n \in Off : \A m \in Off : n <= m
    <3>1. Off \subseteq Nat
      BY <1>1
    <3> HIDE DEF Off
    <3> QED  BY <2>1, <3>1, LeastNat
  <2>3. n # 0
    BY <1>3, <1>5, <2>2
  <2>4. n - 1 \in 0..N /\ n - 1 \notin Off /\ n \in 1..N
    BY <1>1, <2>2, <2>3
  <2>5. order[n] = Sink(order[n - 1], n, Priority, listed)
    BY <1>5, <2>4
  <2>6. f[n] = Sink(f[n - 1], n, Priority, listed)
    BY <1>3, <2>4
  <2> QED  BY <2>2, <2>4, <2>5, <2>6
<1>8. Sorts(f, listed, Priority)
  BY <1>1, <1>3, <1>6, <1>7 DEF Sorts
<1>9. f \in [0..N -> Seq(Name)] /\ Len(f[N]) = N /\ ToSet(f[N]) = ToSet(listed)
  BY <1>1, <1>3
<1> QED  BY <1>8, <1>9

\* Of two places at most, one comes before the other.
LEMMA TwoOfTwo ==
  ASSUME NEW n \in Nat, n <= 2, NEW k \in 1..n, NEW m \in 1..n, k < m
  PROVE  n = 2 /\ k = 1 /\ m = 2
OBVIOUS

\* So it loses no name; and two names it sorts.
LEMMA SortedNamesAre ==
  ASSUME NEW listed \in Seq(Name), NEW Priority \in [Name -> Int]
  PROVE  /\ SortedNames(listed, Priority) \in Seq(Name)
         /\ ToSet(SortedNames(listed, Priority)) = ToSet(listed)
         /\ Len(listed) <= 2 =>
              \A k, m \in DOMAIN SortedNames(listed, Priority) :
                k < m => Priority[SortedNames(listed, Priority)[k]] <= Priority[SortedNames(listed, Priority)[m]]
<1> DEFINE N == Len(listed)
           sorted == SortedNames(listed, Priority)
<1>1. PICK order \in [0..N -> Seq(Name)] :
        Sorts(order, listed, Priority) /\ Len(order[N]) = N /\ ToSet(order[N]) = ToSet(listed)
  BY SortedInSteps
<1>0. /\ order[0] = listed /\ sorted = order[N]
      /\ \A k \in 1..N : order[k] = Sink(order[k - 1], k, Priority, listed)
  BY <1>1 DEF Sorts
<1> HIDE DEF sorted
<1>2. N \in Nat /\ sorted \in Seq(Name) /\ DOMAIN sorted = 1..N /\ ToSet(sorted) = ToSet(listed)
  BY <1>0, <1>1
<1>3. ASSUME N <= 2, NEW k \in 1..N, NEW m \in 1..N, k < m
      PROVE  Priority[sorted[k]] <= Priority[sorted[m]]
  <2>1. N = 2 /\ k = 1 /\ m = 2
    <3>1. k < m /\ N <= 2
      BY <1>3
    <3> QED  BY <3>1, <1>2, TwoOfTwo
  <2>2. /\ order[0] = listed /\ sorted = order[2]
        /\ order[1] = Sink(order[0], 1, Priority, listed)
        /\ order[2] = Sink(order[1], 2, Priority, listed)
    <3>1. 1 \in 1..N /\ 2 \in 1..N /\ 1 - 1 = 0 /\ 2 - 1 = 1
      BY <2>1
    <3>2. /\ order[1] = Sink(order[1 - 1], 1, Priority, listed)
          /\ order[2] = Sink(order[2 - 1], 2, Priority, listed)
      BY <3>1, <1>0
    <3> QED  BY <3>1, <3>2, <2>1, <1>0
  <2>3. order[1] = listed
    <3>1. 1 \in 1..Len(listed)
      BY <2>1
    <3>2. PICK to \in 1..1 : Sink(listed, 1, Priority, listed) = Moved(listed, 1, to)
      BY <3>1, SinkMoves
    <3>3. order[1] = [j \in 1..2 |-> listed[j]]
      BY <3>2, <2>1, <2>2 DEF Moved
    <3>4. listed = [j \in 1..2 |-> listed[j]]
      BY <2>1
    <3> QED  BY <3>3, <3>4
  <2>4. PICK to \in 1..2 :
          /\ Descends(to, 2, Priority, listed)
          /\ \A j \in 1..2 : Descends(j, 2, Priority, listed) => to <= j
          /\ sorted = Moved(listed, 2, to)
    <3>1. sorted = Sink(listed, 2, Priority, listed) /\ 2 \in 1..Len(listed)
      BY <2>1, <2>2, <2>3
    <3> QED  BY <3>1, SinkMoves
  <2>5. Priority[listed[1]] \in Int /\ Priority[listed[2]] \in Int
    <3>1. listed[1] \in Name /\ listed[2] \in Name
      <4>1. \A j \in 1..Len(listed) : listed[j] \in Name
        OBVIOUS
      <4> QED  BY <4>1, <2>1
    <3> QED  BY <3>1
  <2>6. CASE to = 1
    <3>1. Priority[listed[2]] < Priority[listed[1]]
      BY <2>4, <2>6 DEF Descends
    <3>2. sorted[1] = listed[2] /\ sorted[2] = listed[1]
      BY <2>1, <2>4, <2>6 DEF Moved
    <3> QED  BY <3>1, <3>2, <2>1, <2>5
  <2>7. CASE to = 2
    <3>1. ~(Priority[listed[2]] < Priority[listed[1]])
      <4>1. ~Descends(1, 2, Priority, listed)
        BY <2>4, <2>7
      <4> QED  BY <4>1 DEF Descends
    <3>2. sorted[1] = listed[1] /\ sorted[2] = listed[2]
      BY <2>1, <2>4, <2>7 DEF Moved
    <3> QED  BY <3>1, <3>2, <2>1, <2>5
  <2> QED  BY <2>6, <2>7
<1> QED  BY <1>2, <1>3 DEF sorted

-----------------------------------------------------------------------------
\* An entry is found under the name it was made for.
LEMMA NameOfEntry ==
  ASSUME ManagerTyped, Named, NEW i \in Entries
  PROVE  i \in Instance /\ i \in DOMAIN made /\ made[i] \in Name /\ NameOf(i) = made[i] /\ providers[made[i]] = i
<1>1. PICK n \in Name : providers[n] = i /\ i # None
  BY DEF Entries
<1>2. i \in DOMAIN made /\ made[i] = n /\ i \in Instance
  BY <1>1 DEF Named, ManagerTyped
<1>3. \A m \in Name : providers[m] = i => m = n
  BY <1>1, <1>2 DEF Named
<1>4. NameOf(i) = n
  BY <1>1, <1>3 DEF NameOf
<1> QED  BY <1>1, <1>2, <1>4

\* A failover lists every entry, the best ones first.
LEMMA ByPriorityIs ==
  ASSUME ManagerTyped, Named, NEW Priority \in [Name -> Int], NEW order \in ByPriority(Priority)
  PROVE  /\ order \in Seq(Instance) /\ ToSet(order) = Entries
         /\ \A k \in DOMAIN order : order[k] \in DOMAIN made
         /\ \A k, m \in DOMAIN order : k < m => Priority[made[order[k]]] <= Priority[made[order[m]]]
<1>1. Entries \subseteq Instance
  BY NameOfEntry
<1>2. IsFiniteSet(Entries)
  <2>1. IsFiniteSet(Instance)
    BY FS_Interval, ManagerAssumption DEF Instance
  <2> QED  BY <1>1, <2>1, FS_Subset
<1>3. /\ order \in SetToSeqs(Entries)
      /\ \A k \in 1..(Len(order) - 1) : Priority[NameOf(order[k])] <= Priority[NameOf(order[k + 1])]
  BY DEF ByPriority
<1>4. order \in Seq(Entries) /\ ToSet(order) = Entries
  BY <1>2, <1>3, Listing
<1>5. Len(order) \in Nat /\ DOMAIN order = 1..Len(order) /\ order \in Seq(Instance)
  BY <1>1, <1>4
<1>6. \A k \in 1..Len(order) : order[k] \in Entries
  BY <1>4
<1>7. \A k \in 1..Len(order) :
        order[k] \in DOMAIN made /\ NameOf(order[k]) = made[order[k]] /\ made[order[k]] \in Name
  BY <1>6, NameOfEntry
<1> DEFINE f == [k \in 1..Len(order) |-> Priority[made[order[k]]]]
<1>8. \A k \in 1..Len(order) : f[k] \in Int
  BY <1>7
<1>9. \A k \in 1..(Len(order) - 1) : f[k] <= f[k + 1]
  BY <1>3, <1>5, <1>7
<1>10. \A k, m \in 1..Len(order) : k < m => f[k] <= f[m]
  <2> HIDE DEF f
  <2> QED  BY <1>5, <1>8, <1>9, AllInOrder
<1> QED  BY <1>4, <1>5, <1>7, <1>10

\* An ExecuteWithFailover lists the name of every entry.
LEMMA NamesListed ==
  ASSUME ManagerTyped, Named, NEW listed \in NamesInMapOrder
  PROVE  /\ listed \in Seq(Name)
         /\ \A i \in Entries : made[i] \in ToSet(listed)
         /\ Few => Len(listed) <= 2
<1> DEFINE S == {n \in Name : providers[n] # None}
<1>1. IsFiniteSet(S)
  BY FS_Subset, ProvidersAssumption
<1>2. listed \in Seq(S) /\ Len(listed) = Cardinality(S) /\ ToSet(listed) = S
  BY <1>1, Listing DEF NamesInMapOrder
<1>3. listed \in Seq(Name)
  BY <1>2
<1>4. \A i \in Entries : made[i] \in S
  <2>1. TAKE i \in Entries
  <2>2. made[i] \in Name /\ providers[made[i]] = i /\ i # None
    BY NameOfEntry DEF Entries
  <2> QED  BY <2>2
<1>5. ASSUME Few
      PROVE  Len(listed) <= 2
  <2>1. S \subseteq ToSet(made)
    BY DEF Named, ToSet
  <2>2. IsFiniteSet(ToSet(made))
    <3>1. ToSet(made) \subseteq Name
      BY DEF ManagerTyped, ToSet
    <3> QED  BY <3>1, FS_Subset, ProvidersAssumption
  <2>3. Cardinality(S) <= Cardinality(ToSet(made)) /\ Cardinality(ToSet(made)) \in Nat /\ Cardinality(S) \in Nat
    BY <2>1, <2>2, <1>1, FS_Subset, FS_CardinalityType
  <2> QED  BY <2>3, <1>2, <1>5 DEF Few
<1> QED  BY <1>2, <1>3, <1>4, <1>5

-----------------------------------------------------------------------------
\* What is left of a list without its first.
LEMMA TailIs ==
  ASSUME NEW S, NEW s \in Seq(S), s # <<>>
  PROVE  /\ 1 \in DOMAIN s /\ Head(s) = s[1] /\ Head(s) \in S /\ Tail(s) \in Seq(S)
         /\ \A k \in DOMAIN Tail(s) : k \in Nat /\ 1 < k + 1 /\ k + 1 \in DOMAIN s /\ Tail(s)[k] = s[k + 1]
         /\ \A x \in ToSet(s) : x = Head(s) \/ x \in ToSet(Tail(s))
<1>1. /\ 1 \in DOMAIN s /\ Head(s) = s[1] /\ Head(s) \in S /\ Tail(s) \in Seq(S)
      /\ Len(s) \in Nat /\ Len(s) > 0 /\ DOMAIN s = 1..Len(s)
      /\ DOMAIN Tail(s) = 1..(Len(s) - 1) /\ \A k \in DOMAIN Tail(s) : Tail(s)[k] = s[k + 1]
  OBVIOUS
<1>2. ASSUME NEW k \in DOMAIN s
      PROVE  s[k] = Head(s) \/ s[k] \in ToSet(Tail(s))
  <2>1. CASE k = 1
    BY <1>1, <2>1
  <2>2. CASE k # 1
    <3>1. k - 1 \in DOMAIN Tail(s) /\ Tail(s)[k - 1] = s[k]
      BY <1>1, <2>2
    <3> QED  BY <3>1 DEF ToSet
  <2> QED  BY <2>1, <2>2
<1> QED  BY <1>1, <1>2 DEF ToSet

\* What is asked was made.
LEMMA MadeIs ==
  ASSUME ManagerTyped, NEW i \in DOMAIN made
  PROVE  i \in Instance /\ made[i] \in Name /\ i # None
<1>1. made \in Seq(Name) /\ Len(made) <= MaxInstances
  BY DEF ManagerTyped
<1>2. i \in 1..Len(made) /\ Len(made) \in Nat /\ made[i] \in Name
  BY <1>1
<1> QED  BY <1>1, <1>2, ManagerAssumption DEF Instance, None

-----------------------------------------------------------------------------
\* What any step does: failures and registrations add up, the plan keeps its
\* settings, and what is steady is remembered.
Grown ==
  /\ failed \subseteq failed'
  /\ made' \in Seq(Name) /\ \A k \in DOMAIN made : k \in DOMAIN made' /\ made'[k] = made[k]
  /\ plan'.priority = plan.priority /\ plan'.failover = plan.failover

\* Where there are few names now, there were before.
LEMMA FewBefore ==
  ASSUME Grown, Few'
  PROVE  Few
<1>1. ToSet(made) \subseteq ToSet(made')
  BY DEF Grown, ToSet
<1>2. IsFiniteSet(ToSet(made'))
  <2>1. ToSet(made') \subseteq Name
    BY DEF Grown, ToSet
  <2> QED  BY <2>1, FS_Subset, ProvidersAssumption
<1>3. /\ Cardinality(ToSet(made)) <= Cardinality(ToSet(made'))
      /\ Cardinality(ToSet(made)) \in Nat /\ Cardinality(ToSet(made')) \in Nat
  BY <1>1, <1>2, FS_Subset, FS_CardinalityType
<1> QED  BY <1>3 DEF Few

\* An entry that is steady was so before, and can be used now.
LEMMA Remembers ==
  ASSUME CallsTyped, History
  PROVE  /\ steady' \in [Client -> SUBSET Instance]
         /\ \A d \in Client :
              call[d].at # "idle" /\ call'[d].at # "idle" =>
                steady'[d] \subseteq steady[d] /\ steady'[d] \subseteq Usables(d)'
         /\ \A d \in Client : call[d].at = "idle" \/ call'[d].at = "idle" => steady'[d] = Instance
<1>1. \A d \in Client :
        steady'[d] = IF call[d].at = "idle" \/ call'[d].at = "idle" THEN Instance
                     ELSE steady[d] \cap Usables(d)' \cap Usables(d)
  BY DEF History
<1>2. \A d \in Client : steady'[d] \subseteq Instance
  BY <1>1 DEF CallsTyped
<1>3. steady' \in [Client -> SUBSET Instance]
  BY <1>2 DEF History
<1> QED  BY <1>1, <1>3

\* So steady entries of a call that goes on are usable.
LEMMA SteadyStep ==
  ASSUME CallsTyped, History, NEW d \in Client,
         call[d].at # "idle" \/ call'[d].at \notin {"visit", "ask", "mark", "next", "try", "backoff"}
  PROVE  SteadyOK(d)'
BY Remembers DEF SteadyOK

\* The call of a client that does not move stays as it is.
LEMMA OthersKept ==
  ASSUME CallsTyped, made \in Seq(Name), Grown, NEW d \in Client, CallOK(d), call'[d] = call[d],
         steady'[d] \subseteq steady[d] \/ call[d].at = "idle"
  PROVE  CallOK(d)'
<1>1. call[d] \in CallType
  BY DEF CallsTyped
<1>2. \A k \in DOMAIN made : k \in DOMAIN made' /\ made'[k] = made[k] /\ Rank(k)' = Rank(k)
  BY DEF Grown, Rank
<1>3. call[d].asked \subseteq failed' /\ LabelsOK(d)' /\ RecordsOK(d)'
  BY <1>2 DEF CallOK, LabelsOK, RecordsOK, Grown
<1>4. VisitsOK(d)'
  <2>1. SUFFICES ASSUME call[d].at \in {"visit", "ask", "mark"}
                 PROVE  VisitsOK(d)'
    BY DEF VisitsOK
  <2>2. steady'[d] \subseteq steady[d] /\ VisitsOK(d)
    BY <2>1 DEF CallOK
  <2> QED  BY <2>1, <2>2, <1>2 DEF VisitsOK
<1>5. TriesOK(d)'
  <2>1. SUFFICES ASSUME call[d].at \in {"next", "try", "backoff"}
                 PROVE  TriesOK(d)'
    BY DEF TriesOK
  <2>2. steady'[d] \subseteq steady[d] /\ TriesOK(d)
    BY <2>1 DEF CallOK
  <2>3. plan'.priority = plan.priority
    BY DEF Grown
  <2> QED  BY <2>1, <2>2, <2>3, <1>2, FewBefore DEF TriesOK
<1>6. FailedOK(d)'
  <2>1. SUFFICES ASSUME call[d].result = "failed"
                 PROVE  FailedOK(d)'
    BY DEF FailedOK
  <2>2. steady'[d] \subseteq steady[d]
    BY <2>1 DEF CallOK, LabelsOK
  <2> QED  BY <2>2 DEF CallOK, FailedOK, Grown
<1> QED  BY <1>3, <1>4, <1>5, <1>6 DEF CallOK

\* A call becomes another.
LEMMA CallUpdate ==
  ASSUME CallsTyped, NEW c \in Client, NEW state \in CallType, Goes(c, state)
  PROVE  /\ call' \in [Client -> CallType] /\ call'[c] = state
         /\ \A d \in Client \ {c} : call'[d] = call[d]
BY DEF CallsTyped, Goes

\* A call ends; if it fails, whatever could be used has been asked.
LEMMA EndsOK ==
  ASSUME CallsTyped, Grown, History, NEW c \in Client, CallOK(c), call[c].at # "idle",
         NEW result \in {"ok", "failed", "cancelled"}, Ends(c, result),
         result = "failed" /\ (call[c].op = "execute" \/ (call[c].op = "failover" /\ plan.failover))
           => steady[c] \subseteq call[c].asked
  PROVE  /\ call' \in [Client -> CallType] /\ CallOK(c)'
         /\ \A d \in Client \ {c} : call'[d] = call[d]
<1> DEFINE state == [call[c] EXCEPT !.at = "return", !.result = result]
<1>1. call[c] \in CallType
  BY DEF CallsTyped
<1>2. /\ state \in CallType /\ state.at = "return" /\ state.result = result
      /\ state.op = call[c].op /\ state.asked = call[c].asked
  BY <1>1 DEF CallType
<1>3. Goes(c, state)
  BY DEF Ends
<1> HIDE DEF state
<1>4. /\ call' \in [Client -> CallType] /\ call'[c] = state
      /\ \A d \in Client \ {c} : call'[d] = call[d]
  BY <1>2, <1>3, CallUpdate
<1>5. call[c].asked \subseteq failed' /\ plan'.failover = plan.failover
  BY DEF CallOK, Grown
<1>6. steady'[c] \subseteq steady[c]
  BY <1>2, <1>4, Remembers
<1> QED  BY <1>2, <1>4, <1>5, <1>6 DEF CallOK, LabelsOK, RecordsOK, VisitsOK, TriesOK, FailedOK

\* A call that is no failover goes on.
LEMMA PlainOK ==
  ASSUME CallsTyped, Grown, NEW c \in Client, CallOK(c), call[c].result = "none",
         call[c].op \notin {"failover", "execute"},
         NEW label \in {"checking", "spawn", "join"}, GoesTo(c, label)
  PROVE  /\ call' \in [Client -> CallType] /\ CallOK(c)' /\ call'[c].at = label
         /\ \A d \in Client \ {c} : call'[d] = call[d]
<1> DEFINE state == [call[c] EXCEPT !.at = label]
<1>1. call[c] \in CallType
  BY DEF CallsTyped
<1>2. /\ state \in CallType /\ state.at = label /\ state.result = "none"
      /\ state.op = call[c].op /\ state.asked = call[c].asked
  BY <1>1 DEF CallType
<1>3. Goes(c, state)
  BY DEF GoesTo
<1> HIDE DEF state
<1>4. /\ call' \in [Client -> CallType] /\ call'[c] = state
      /\ \A d \in Client \ {c} : call'[d] = call[d]
  BY <1>2, <1>3, CallUpdate
<1>5. call[c].asked \subseteq failed'
  BY DEF CallOK, Grown
<1> QED  BY <1>2, <1>4, <1>5 DEF CallOK, LabelsOK, RecordsOK, VisitsOK, TriesOK, FailedOK

-----------------------------------------------------------------------------
\* The manager: nothing happens; a provider fails; a provider is made.
LEMMA ManagerKept ==
  ASSUME ManagerPart, UNCHANGED <<managerVars, registered, reported, made>>
  PROVE  ManagerPart'
<1>1. Entries' = Entries
  BY DEF managerVars, Entries
<1> QED  BY <1>1 DEF ManagerPart, ManagerTyped, Named, CheckInv, MarkedForCause, managerVars, Unlocked

\* A provider that was made is noted as failed.
LEMMA ManagerFails ==
  ASSUME ManagerPart, NEW i \in DOMAIN made, Fails(i),
         UNCHANGED <<providers, healthy, check, checker, answering, registered, reported, made>>
  PROVE  ManagerPart'
<1>1. Entries' = Entries
  BY DEF Entries
<1>2. ManagerTyped'
  <2>1. i \in Instance
    BY MadeIs DEF ManagerPart
  <2> QED  BY <2>1 DEF ManagerPart, ManagerTyped, Fails
<1>3. Named' /\ CheckInv'
  BY <1>1 DEF ManagerPart, Named, CheckInv, Unlocked, Fails
<1>4. MarkedForCause'
  BY <1>1 DEF ManagerPart, MarkedForCause, Fails
<1> QED  BY <1>2, <1>3, <1>4 DEF ManagerPart

-----------------------------------------------------------------------------
\* The steps of a client's call to the managers, one after the other.
StepOK(c) ==
  /\ ManagerPart' /\ Grown
  /\ call[c].at # "idle" /\ call' \in [Client -> CallType] /\ CallOK(c)'
  /\ \A d \in Client \ {c} : call'[d] = call[d]

\* A step that makes and fails nothing adds nothing.
LEMMA GrownKept ==
  ASSUME ManagerPart, UNCHANGED <<failed, made, plan>>
  PROVE  Grown
BY DEF Grown, ManagerPart, ManagerTyped

\* A call that has not returned has no result.
LEMMA InCall ==
  ASSUME CallsPart, NEW c \in Client, call[c].at \notin {"idle", "return"}
  PROVE  call[c] \in CallType /\ CallOK(c) /\ call[c].result = "none"
BY DEF CallsPart, CallsTyped, CallOK, LabelsOK

\* RegisterLLMProvider: the new instance is of its name, in the manager and the registry.
LEMMA RegistersOK ==
  ASSUME ManagerPart, CallsPart, NEW c \in Client, Registers(c), UNCHANGED plan, History
  PROVE  StepOK(c)
<1> DEFINE n == call[c].of
           i == Len(made')
<1>1. call[c] \in CallType /\ CallOK(c) /\ call[c].at = "register" /\ n \in Name
  BY InCall DEF Registers, At, CallOK, LabelsOK
<1>2. /\ made' \in Seq(Name) /\ i = Len(made) + 1 /\ DOMAIN made' = 1..i /\ made'[i] = n
      /\ Len(made) \in Nat /\ DOMAIN made = 1..Len(made)
      /\ \A k \in DOMAIN made : k \in DOMAIN made' /\ made'[k] = made[k]
  BY <1>1 DEF Registers, ManagerPart, ManagerTyped
<1>3. i \in Instance /\ i # None /\ i \notin DOMAIN made /\ i <= MaxInstances
  BY <1>2, ManagerAssumption DEF Registers, Instance, None
<1>4. Grown
  BY <1>2 DEF Registers, AddProvider, Grown
<1>5. /\ providers' = [providers EXCEPT ![n] = i] /\ registered' = [registered EXCEPT ![n] = i]
      /\ healthy' = healthy \cup {i} /\ reported' = reported \cup {i}
      /\ check' = check /\ checker' = checker /\ answering' = answering /\ failed' = failed
      /\ check.left = {}
  BY DEF Registers, AddProvider, ManagerPart, CheckInv
<1> HIDE DEF i, n
<1>6. ManagerTyped'
  BY <1>1, <1>2, <1>3, <1>5 DEF ManagerPart, ManagerTyped
<1>7. Named'
  BY <1>1, <1>2, <1>3, <1>5 DEF ManagerPart, ManagerTyped, Named
<1>8. Entries' \subseteq Entries \cup {i}
  BY <1>1, <1>5 DEF Entries, ManagerPart, ManagerTyped
<1>9. CheckInv'
  BY <1>5 DEF CheckInv
<1>10. MarkedForCause'
  <2>1. Entries' \ healthy' \subseteq failed'
    BY <1>5, <1>8 DEF ManagerPart, MarkedForCause
  <2>2. ASSUME NEW m \in Name, registered'[m] \in Instance \ reported'
        PROVE  \E j \in failed' : made'[j] = m
    <3>1. m # n /\ registered[m] \in Instance \ reported
      BY <2>2, <1>1, <1>3, <1>5 DEF ManagerPart, ManagerTyped
    <3>2. PICK j \in failed : made[j] = m
      BY <3>1 DEF ManagerPart, MarkedForCause
    <3> QED  BY <3>2, <1>2, <1>5 DEF ManagerPart, Named
  <2> QED  BY <2>1, <2>2 DEF MarkedForCause
<1>11. ManagerPart'
  BY <1>6, <1>7, <1>9, <1>10 DEF ManagerPart
<1>12. call[c].op \notin {"failover", "execute"} /\ Ends(c, "ok") /\ CallsTyped
  BY <1>1 DEF CallOK, LabelsOK, Registers, CallsPart
<1> QED  BY <1>1, <1>4, <1>11, <1>12, EndsOK DEF StepOK

\* UnregisterLLMProvider: both forget, or neither knew the name.
LEMMA UnregistersOK ==
  ASSUME ManagerPart, CallsPart, NEW c \in Client, Unregisters(c), UNCHANGED plan, History
  PROVE  StepOK(c)
<1> DEFINE n == call[c].of
<1>1. call[c] \in CallType /\ CallOK(c) /\ call[c].at = "unregister" /\ n \in Name /\ CallsTyped
  BY InCall DEF Unregisters, At, CallOK, LabelsOK, CallsPart
<1>2. call[c].op \notin {"failover", "execute"}
  BY <1>1 DEF CallOK, LabelsOK
<1>3. CASE registered[n] = None
  <2>1. Ends(c, "failed") /\ Unmanaged /\ Recorded
    BY <1>3 DEF Unregisters
  <2>2. ManagerPart' /\ Grown
    BY <2>1, ManagerKept, GrownKept DEF Unmanaged, Recorded, managerVars
  <2> QED  BY <1>1, <1>2, <2>1, <2>2, EndsOK DEF StepOK
<1>4. CASE registered[n] # None
  <2>1. /\ providers' = [providers EXCEPT ![n] = None] /\ registered' = [registered EXCEPT ![n] = None]
        /\ UNCHANGED <<healthy, check, checker, answering, failed, reported, made>>
        /\ check.left = {} /\ Ends(c, "ok")
    BY <1>4 DEF Unregisters, RemoveProvider, ManagerPart, CheckInv
  <2>2. Grown
    BY <2>1, GrownKept
  <2>3. ManagerTyped'
    BY <1>1, <2>1 DEF ManagerPart, ManagerTyped
  <2>4. Named'
    BY <1>1, <2>1 DEF ManagerPart, ManagerTyped, Named
  <2>5. Entries' \subseteq Entries
    BY <1>1, <2>1 DEF Entries, ManagerPart, ManagerTyped
  <2>6. CheckInv'
    BY <2>1 DEF CheckInv
  <2>7. MarkedForCause'
    <3>1. Entries' \ healthy' \subseteq failed'
      BY <2>1, <2>5 DEF ManagerPart, MarkedForCause
    <3>2. ASSUME NEW m \in Name, registered'[m] \in Instance \ reported'
          PROVE  \E j \in failed' : made'[j] = m
      <4>1. m # n /\ registered[m] \in Instance \ reported
        BY <3>2, <1>1, <2>1 DEF ManagerPart, ManagerTyped, Instance, None
      <4> QED  BY <4>1, <2>1 DEF ManagerPart, MarkedForCause
    <3> QED  BY <3>1, <3>2 DEF MarkedForCause
  <2>8. ManagerPart'
    BY <2>3, <2>4, <2>6, <2>7 DEF ManagerPart
  <2> QED  BY <1>1, <1>2, <2>1, <2>2, <2>8, EndsOK DEF StepOK
<1> QED  BY <1>3, <1>4

\* The registry's check: what is listed is known by the name it was made for.
LEMMA ListsOK ==
  ASSUME ManagerPart, CallsPart, NEW c \in Client, Lists(c), UNCHANGED plan, History
  PROVE  StepOK(c)
<1> DEFINE S == {n \in Name : registered[n] # None}
<1>1. /\ call[c] \in CallType /\ CallOK(c) /\ call[c].result = "none"
      /\ call[c].at = "list" /\ CallsTyped /\ call[c].op \notin {"failover", "execute"}
  BY InCall DEF Lists, At, CallOK, LabelsOK, CallsPart
<1>2. ManagerPart' /\ Grown
  BY ManagerKept, GrownKept DEF Lists, Unmanaged, Recorded, managerVars
<1>3. PICK names \in SetToSeqs(S) :
        Goes(c, [call[c] EXCEPT !.todo = [k \in DOMAIN names |-> [name |-> names[k], is |-> registered[names[k]]]],
                   !.at = "health"])
  BY DEF Lists
<1>4. names \in Seq(S)
  <2>1. IsFiniteSet(S)
    BY FS_Subset, ProvidersAssumption
  <2> QED  BY <2>1, Listing
<1> DEFINE list == [k \in DOMAIN names |-> [name |-> names[k], is |-> registered[names[k]]]]
           state == [call[c] EXCEPT !.todo = list, !.at = "health"]
<1>5. /\ \A k \in DOMAIN names : names[k] \in Name /\ registered[names[k]] \in Instance
      /\ \A k \in DOMAIN names : registered[names[k]] \in DOMAIN made /\ made[registered[names[k]]] = names[k]
  BY <1>4 DEF ManagerPart, ManagerTyped, Named
<1>6. /\ list \in Seq(Listed) /\ DOMAIN list = DOMAIN names
      /\ \A k \in DOMAIN list : list[k].name = names[k] /\ list[k].is = registered[names[k]]
  <2>1. Len(names) \in Nat /\ DOMAIN names = 1..Len(names)
    BY <1>4
  <2>2. list \in [1..Len(names) -> Listed]
    BY <1>5, <2>1 DEF Listed
  <2>3. \A k \in DOMAIN names : list[k] = [name |-> names[k], is |-> registered[names[k]]]
    OBVIOUS
  <2> HIDE DEF list
  <2>4. list \in Seq(Listed) /\ DOMAIN list = DOMAIN names
    BY <2>1, <2>2
  <2> QED  BY <2>3, <2>4
<1> HIDE DEF list
<1>7. /\ state \in CallType /\ state.at = "health" /\ state.todo = list /\ state.result = "none"
      /\ state.op = call[c].op /\ state.asked = call[c].asked
  BY <1>1, <1>6 DEF CallType, Todos
<1> HIDE DEF state
<1>8. /\ call' \in [Client -> CallType] /\ call'[c] = state
      /\ \A d \in Client \ {c} : call'[d] = call[d]
  BY <1>1, <1>3, <1>7, CallUpdate DEF state, list
<1>9. RecordsOK(c)'
  <2>1. made' = made /\ failed' = failed
    BY DEF Lists, Unmanaged, managerVars, Recorded
  <2> QED  BY <1>5, <1>6, <1>7, <1>8, <2>1 DEF RecordsOK
<1>10. call[c].asked \subseteq failed'
  BY <1>1, <1>2 DEF CallOK, Grown
<1>11. CallOK(c)'
  BY <1>1, <1>7, <1>8, <1>9, <1>10 DEF CallOK, LabelsOK, VisitsOK, TriesOK, FailedOK
<1> QED  BY <1>1, <1>2, <1>8, <1>11 DEF StepOK

\* The answer is kept until it is written.
LEMMA AsksHealthOK ==
  ASSUME ManagerPart, CallsPart, NEW c \in Client, AsksHealth(c), UNCHANGED plan, History
  PROVE  StepOK(c)
<1>1. /\ call[c] \in CallType /\ CallOK(c) /\ call[c].result = "none"
      /\ call[c].at = "health" /\ CallsTyped /\ call[c].op \notin {"failover", "execute"}
  BY InCall DEF AsksHealth, At, CallOK, LabelsOK, CallsPart
<1>2. CASE call[c].todo = <<>>
  <2>1. Ends(c, "ok") /\ Unmanaged /\ Recorded
    BY <1>2 DEF AsksHealth
  <2>2. ManagerPart' /\ Grown
    BY <2>1, ManagerKept, GrownKept DEF Unmanaged, Recorded, managerVars
  <2> QED  BY <1>1, <2>1, <2>2, EndsOK DEF StepOK
<1>3. CASE call[c].todo # <<>>
  <2> DEFINE i == Head(call[c].todo).is
             state == [call[c] EXCEPT !.good = Answers(i), !.at = "record"]
  <2>1. /\ Goes(c, state) /\ UNCHANGED <<registered, reported, made>>
        /\ IF Answers(i) THEN UNCHANGED managerVars
           ELSE Fails(i) /\ UNCHANGED <<providers, healthy, check, checker, answering>>
    BY <1>3 DEF AsksHealth, Unmanaged, Recorded
  <2>2. /\ call[c].todo \in Seq(Listed)
        /\ \A k \in DOMAIN call[c].todo :
             call[c].todo[k].is \in DOMAIN made /\ made[call[c].todo[k].is] = call[c].todo[k].name
    BY <1>1 DEF CallOK, RecordsOK
  <2>3. i = call[c].todo[1].is /\ i \in DOMAIN made
    BY <1>3, <2>2
  <2> HIDE DEF i
  <2>4. ManagerPart' /\ Grown /\ made' = made
    <3>1. CASE Answers(i)
      BY <2>1, <3>1, ManagerKept, GrownKept DEF managerVars
    <3>2. CASE ~Answers(i)
      <4>1. ManagerPart'
        BY <2>1, <2>3, <3>2, ManagerFails
      <4>2. Grown
        BY <2>1, <3>2 DEF Grown, Fails, ManagerPart, ManagerTyped
      <4> QED  BY <4>1, <4>2, <2>1
    <3> QED  BY <3>1, <3>2
  <2>5. /\ state \in CallType /\ state.at = "record" /\ state.todo = call[c].todo /\ state.result = "none"
        /\ state.op = call[c].op /\ state.asked = call[c].asked /\ state.good = Answers(i)
    <3>1. Answers(i) \in BOOLEAN
      BY DEF Answers
    <3> HIDE DEF i
    <3> QED  BY <1>1, <3>1 DEF CallType
  <2> HIDE DEF state
  <2>6. /\ call' \in [Client -> CallType] /\ call'[c] = state
        /\ \A d \in Client \ {c} : call'[d] = call[d]
    BY <1>1, <2>1, <2>5, CallUpdate
  <2>7. ~Answers(i) => i \in failed'
    BY <2>1 DEF Fails
  <2>8. RecordsOK(c)'
    BY <1>3, <2>2, <2>3, <2>4, <2>5, <2>6, <2>7 DEF RecordsOK
  <2>9. call[c].asked \subseteq failed'
    BY <1>1, <2>4 DEF CallOK, Grown
  <2>10. CallOK(c)'
    BY <1>1, <2>5, <2>6, <2>8, <2>9 DEF CallOK, LabelsOK, VisitsOK, TriesOK, FailedOK
  <2> QED  BY <1>1, <2>4, <2>6, <2>10 DEF StepOK
<1> QED  BY <1>2, <1>3

\* It is written to the record that has the name by now, which is of that name.
LEMMA RecordsStepOK ==
  ASSUME ManagerPart, CallsPart, NEW c \in Client, Records(c), UNCHANGED plan, History
  PROVE  StepOK(c)
<1> DEFINE entry == call[c].todo[1]
           i == registered[entry.name]
           state == [call[c] EXCEPT !.todo = Tail(@), !.at = "health"]
<1>1. /\ call[c] \in CallType /\ CallOK(c) /\ call[c].result = "none"
      /\ call[c].at = "record" /\ CallsTyped /\ call[c].op \notin {"failover", "execute"}
  BY InCall DEF Records, At, CallOK, LabelsOK, CallsPart
<1>2. /\ call[c].todo \in Seq(Listed) /\ call[c].todo # <<>>
      /\ \A k \in DOMAIN call[c].todo :
           call[c].todo[k].is \in DOMAIN made /\ made[call[c].todo[k].is] = call[c].todo[k].name
      /\ ~call[c].good => entry.is \in failed
  BY <1>1 DEF CallOK, RecordsOK
<1>3. entry = Head(call[c].todo) /\ entry.name \in Name /\ made[entry.is] = entry.name
  <2>1. 1 \in DOMAIN call[c].todo /\ entry = Head(call[c].todo)
    BY <1>2
  <2>2. entry \in Listed
    BY <1>2, <2>1
  <2> QED  BY <1>2, <2>1, <2>2 DEF Listed
<1>4. /\ reported' = IF i = None THEN reported
                     ELSE IF call[c].good THEN reported \cup {i} ELSE reported \ {i}
      /\ Goes(c, state) /\ UNCHANGED <<managerVars, registered, made>>
  BY <1>3 DEF Records, Unmanaged
<1>5. Grown
  BY <1>4, GrownKept DEF managerVars
<1>6. ManagerPart'
  <2>1. Entries' = Entries
    BY <1>4 DEF Entries, managerVars
  <2>2. ManagerTyped'
    BY <1>3, <1>4 DEF ManagerPart, ManagerTyped, managerVars, None
  <2>3. Named' /\ CheckInv'
    BY <1>4, <2>1 DEF ManagerPart, Named, CheckInv, Unlocked, managerVars
  <2>4. MarkedForCause'
    <3>1. Entries' \ healthy' \subseteq failed'
      BY <1>4, <2>1 DEF ManagerPart, MarkedForCause, managerVars
    <3>2. ASSUME NEW m \in Name, registered'[m] \in Instance \ reported'
          PROVE  \E j \in failed' : made'[j] = m
      <4>1. CASE registered[m] \in Instance \ reported
        BY <4>1, <1>4 DEF ManagerPart, MarkedForCause, managerVars
      <4>2. CASE registered[m] \notin Instance \ reported
        <5>1. registered[m] = i /\ i # None /\ ~call[c].good
          BY <4>2, <3>2, <1>4
        <5>2. m = entry.name
          BY <5>1, <1>3 DEF ManagerPart, Named
        <5> QED  BY <5>1, <5>2, <1>2, <1>3, <1>4 DEF managerVars
      <4> QED  BY <4>1, <4>2
    <3> QED  BY <3>1, <3>2 DEF MarkedForCause
  <2> QED  BY <2>2, <2>3, <2>4 DEF ManagerPart
<1>7. /\ Tail(call[c].todo) \in Seq(Listed)
      /\ \A k \in DOMAIN Tail(call[c].todo) :
           k + 1 \in DOMAIN call[c].todo /\ Tail(call[c].todo)[k] = call[c].todo[k + 1]
  BY <1>2
<1>8. /\ state \in CallType /\ state.at = "health" /\ state.todo = Tail(call[c].todo)
      /\ state.result = "none" /\ state.op = call[c].op /\ state.asked = call[c].asked
  BY <1>1, <1>7 DEF CallType, Todos
<1> HIDE DEF state
<1>9. /\ call' \in [Client -> CallType] /\ call'[c] = state
      /\ \A d \in Client \ {c} : call'[d] = call[d]
  BY <1>1, <1>4, <1>8, CallUpdate
<1>10. RecordsOK(c)'
  <2>1. made' = made
    BY <1>4
  <2>2. \A k \in DOMAIN Tail(call[c].todo) :
          /\ Tail(call[c].todo)[k].is \in DOMAIN made
          /\ made[Tail(call[c].todo)[k].is] = Tail(call[c].todo)[k].name
    BY <1>2, <1>7
  <2> QED  BY <1>7, <1>8, <1>9, <2>1, <2>2 DEF RecordsOK
<1>11. call[c].asked \subseteq failed'
  BY <1>1, <1>5 DEF CallOK, Grown
<1>12. CallOK(c)'
  BY <1>1, <1>8, <1>9, <1>10, <1>11 DEF CallOK, LabelsOK, VisitsOK, TriesOK, FailedOK
<1> QED  BY <1>1, <1>5, <1>6, <1>9, <1>12 DEF StepOK

-----------------------------------------------------------------------------
\* The steps of a failover.
LEMMA PlanTyped ==
  ASSUME CallsTyped
  PROVE  plan \in Workloads /\ plan.priority \in [Name -> Int] /\ plan.failover \in BOOLEAN
BY DEF CallsTyped, Workloads

\* It lists every entry, or takes a best one, or fails for want of one.
LEMMA BeginsFailoverOK ==
  ASSUME ManagerPart, CallsPart, NEW c \in Client, BeginsFailover(c), UNCHANGED plan, History
  PROVE  StepOK(c)
<1>1. /\ call[c] \in CallType /\ CallOK(c) /\ call[c].result = "none"
      /\ call[c].at = "failover" /\ CallsTyped /\ call[c].op = "failover"
  BY InCall DEF BeginsFailover, At, CallOK, LabelsOK, CallsPart
<1>2. UNCHANGED <<managerVars, registered, reported, made>>
  BY DEF BeginsFailover, Unmanaged, Recorded
<1>3. ManagerPart' /\ Grown
  BY <1>2, ManagerKept, GrownKept DEF managerVars
<1>4. call[c].asked \subseteq failed' /\ made' = made
  BY <1>1, <1>2, <1>3 DEF CallOK, Grown
<1>5. CASE plan.failover
  <2>1. PICK order \in ByPriority(plan.priority) : Goes(c, [call[c] EXCEPT !.todo = order, !.at = "visit"])
    BY <1>5 DEF BeginsFailover
  <2> DEFINE state == [call[c] EXCEPT !.todo = order, !.at = "visit"]
  <2>2. /\ order \in Seq(Instance) /\ ToSet(order) = Entries
        /\ \A k \in DOMAIN order : order[k] \in DOMAIN made
        /\ \A k, m \in DOMAIN order : k < m => Rank(order[k]) <= Rank(order[m])
    BY <1>1, ByPriorityIs, PlanTyped DEF ManagerPart, Rank
  <2>3. /\ state \in CallType /\ state.at = "visit" /\ state.todo = order
        /\ state.result = "none" /\ state.op = "failover" /\ state.asked = call[c].asked
    BY <1>1, <2>2 DEF CallType, Todos
  <2>4. Goes(c, state)
    BY <2>1
  <2> HIDE DEF state
  <2>5. /\ call' \in [Client -> CallType] /\ call'[c] = state
        /\ \A d \in Client \ {c} : call'[d] = call[d]
    BY <1>1, <2>3, <2>4, CallUpdate
  <2>6. steady'[c] \subseteq Entries
    <3>1. steady'[c] \subseteq Usables(c)' /\ Entries' = Entries
      BY <1>1, <1>2, <2>3, <2>5, Remembers DEF Entries, managerVars
    <3> QED  BY <3>1, <2>3, <2>5 DEF Usables
  <2>7. VisitsOK(c)'
    <3>1. \A k \in Instance : Rank(k)' = Rank(k)
      BY <1>4 DEF Rank
    <3>2. \A k, m \in DOMAIN order : k < m => Rank(order[k])' <= Rank(order[m])'
      BY <2>2, <1>4 DEF Rank
    <3> QED  BY <1>4, <2>2, <2>3, <2>5, <2>6, <3>2 DEF VisitsOK, Rank
  <2>8. CallOK(c)'
    BY <1>4, <2>3, <2>5, <2>7 DEF CallOK, LabelsOK, RecordsOK, TriesOK, FailedOK
  <2> QED  BY <1>1, <1>3, <2>5, <2>8 DEF StepOK
<1>6. CASE ~plan.failover /\ Ends(c, "failed")
  BY <1>1, <1>3, <1>6, EndsOK DEF StepOK
<1>7. CASE ~plan.failover /\ \E i \in BestProviders(plan.balancing, plan.priority) :
             Goes(c, [call[c] EXCEPT !.who = i, !.at = "once"])
  <2>1. PICK i \in BestProviders(plan.balancing, plan.priority) :
          Goes(c, [call[c] EXCEPT !.who = i, !.at = "once"])
    BY <1>7
  <2> DEFINE state == [call[c] EXCEPT !.who = i, !.at = "once"]
  <2>2. i \in Entries
    BY DEF BestProviders, Preferred
  <2>3. i \in Instance /\ i \in DOMAIN made
    BY <2>2, NameOfEntry DEF ManagerPart
  <2>4. /\ state \in CallType /\ state.at = "once" /\ state.who = i
        /\ state.result = "none" /\ state.op = "failover" /\ state.asked = call[c].asked
    BY <1>1, <2>3 DEF CallType
  <2>5. Goes(c, state)
    BY <2>1
  <2> HIDE DEF state
  <2>6. /\ call' \in [Client -> CallType] /\ call'[c] = state
        /\ \A d \in Client \ {c} : call'[d] = call[d]
    BY <1>1, <2>4, <2>5, CallUpdate
  <2>7. CallOK(c)'
    BY <1>4, <1>7, <2>3, <2>4, <2>6 DEF CallOK, LabelsOK, RecordsOK, VisitsOK, TriesOK, FailedOK
  <2> QED  BY <1>1, <1>3, <2>6, <2>7 DEF StepOK
<1> QED  BY <1>5, <1>6, <1>7 DEF BeginsFailover

\* A provider is asked: it answers, and the call ends; or it is noted that it
\* failed.
LEMMA AskOfIs ==
  ASSUME ManagerPart, CallsPart, NEW c \in Client, NEW i \in DOMAIN made, NEW next, AskOf(c, i, next),
         UNCHANGED <<plan, registered, reported, made>>, History, call[c].at \notin {"idle", "return"}
  PROVE  \/ StepOK(c)
         \/ /\ ManagerPart' /\ Grown /\ i \in failed' /\ Goes(c, [next EXCEPT !.asked = @ \cup {i}])
            /\ call[c].asked \subseteq failed'
<1>1. call[c] \in CallType /\ CallOK(c) /\ call[c].result = "none" /\ CallsTyped
  BY InCall DEF CallsPart
<1>2. CASE Answers(i)
  <2>1. Ends(c, "ok") /\ UNCHANGED managerVars
    BY <1>2 DEF AskOf, Unmanaged
  <2>2. ManagerPart' /\ Grown
    BY <2>1, ManagerKept, GrownKept DEF managerVars
  <2> QED  BY <1>1, <2>1, <2>2, EndsOK DEF StepOK
<1>3. CASE ~Answers(i)
  <2>1. /\ Fails(i) /\ UNCHANGED <<providers, healthy, check, checker, answering>>
        /\ Goes(c, [next EXCEPT !.asked = @ \cup {i}])
    BY <1>3 DEF AskOf
  <2>2. ManagerPart'
    BY <2>1, ManagerFails
  <2>3. Grown /\ i \in failed'
    BY <2>1 DEF Grown, Fails, ManagerPart, ManagerTyped
  <2> QED  BY <1>1, <2>1, <2>2, <2>3 DEF CallOK, Grown
<1> QED  BY <1>2, <1>3

\* With the failover off one is asked.
LEMMA AsksOnceOK ==
  ASSUME ManagerPart, CallsPart, NEW c \in Client, AsksOnce(c), UNCHANGED plan, History
  PROVE  StepOK(c)
<1> DEFINE i == call[c].who
           next == [call[c] EXCEPT !.at = "return", !.result = "failed"]
           state == [next EXCEPT !.asked = @ \cup {i}]
<1>1. /\ call[c] \in CallType /\ CallOK(c) /\ call[c].at = "once" /\ CallsTyped
      /\ ~plan.failover /\ call[c].op = "failover" /\ i \in DOMAIN made
  BY InCall DEF AsksOnce, At, CallOK, LabelsOK, CallsPart
<1>2. AskOf(c, i, next) /\ UNCHANGED <<plan, registered, reported, made>>
  BY DEF AsksOnce, Recorded
<1>3. \/ StepOK(c)
      \/ /\ ManagerPart' /\ Grown /\ i \in failed' /\ Goes(c, state)
         /\ call[c].asked \subseteq failed'
  <2> HIDE DEF next
  <2> QED  BY <1>1, <1>2, AskOfIs
<1>4. SUFFICES ASSUME ManagerPart', Grown, i \in failed', Goes(c, state), call[c].asked \subseteq failed'
               PROVE  StepOK(c)
  BY <1>3
<1>5. i \in Instance
  BY <1>1, MadeIs DEF ManagerPart
<1>6. /\ next \in CallType /\ next.at = "return" /\ next.result = "failed"
      /\ next.op = "failover" /\ next.asked = call[c].asked
  BY <1>1 DEF CallType
<1> HIDE DEF next
<1>7. /\ state \in CallType /\ state.at = "return" /\ state.result = "failed"
      /\ state.op = "failover" /\ state.asked = call[c].asked \cup {i}
  BY <1>5, <1>6 DEF CallType
<1> HIDE DEF state
<1>8. /\ call' \in [Client -> CallType] /\ call'[c] = state
      /\ \A d \in Client \ {c} : call'[d] = call[d]
  BY <1>1, <1>4, <1>7, CallUpdate
<1>9. CallOK(c)'
  BY <1>1, <1>4, <1>7, <1>8 DEF CallOK, LabelsOK, RecordsOK, VisitsOK, TriesOK, FailedOK, Grown
<1> QED  BY <1>1, <1>4, <1>8, <1>9 DEF StepOK

\* An entry that is passed over is marked, so not steady.
LEMMA VisitsStepOK ==
  ASSUME ManagerPart, CallsPart, NEW c \in Client, Visits(c), UNCHANGED plan, History
  PROVE  StepOK(c)
<1>1. /\ call[c] \in CallType /\ CallOK(c) /\ call[c].result = "none"
      /\ call[c].at = "visit" /\ CallsTyped /\ call[c].op = "failover" /\ VisitsOK(c)
  BY InCall DEF Visits, At, CallOK, LabelsOK, CallsPart
<1>2. UNCHANGED <<managerVars, registered, reported, made>>
  BY DEF Visits, Unmanaged, Recorded
<1>3. ManagerPart' /\ Grown
  BY <1>2, ManagerKept, GrownKept DEF managerVars
<1>4. CASE call[c].todo = <<>>
  <2>1. Ends(c, "failed")
    BY <1>4 DEF Visits
  <2>2. steady[c] \subseteq call[c].asked
    BY <1>1, <1>4 DEF VisitsOK, ToSet
  <2> QED  BY <1>1, <1>3, <2>1, <2>2, EndsOK DEF StepOK
<1>5. CASE call[c].todo # <<>>
  <2> DEFINE i == Head(call[c].todo)
             left == Tail(call[c].todo)
             next == [call[c] EXCEPT !.todo = Tail(@)]
             state == IF i \in healthy THEN [next EXCEPT !.who = i, !.at = "ask"] ELSE next
  <2>1. Goes(c, state)
    BY <1>5 DEF Visits
  <2>2. /\ call[c].todo \in Seq(Instance)
        /\ \A k \in DOMAIN call[c].todo : call[c].todo[k] \in DOMAIN made
        /\ \A k, m \in DOMAIN call[c].todo : k < m => Rank(call[c].todo[k]) <= Rank(call[c].todo[m])
    BY <1>1 DEF VisitsOK
  <2>3. /\ 1 \in DOMAIN call[c].todo /\ i = call[c].todo[1] /\ i \in Instance /\ left \in Seq(Instance)
        /\ \A k \in DOMAIN left : k \in Nat /\ 1 < k + 1 /\ k + 1 \in DOMAIN call[c].todo
                                  /\ left[k] = call[c].todo[k + 1]
        /\ \A j \in ToSet(call[c].todo) : j = i \/ j \in ToSet(left)
    BY <1>5, <2>2, TailIs
  <2> HIDE DEF i, left
  <2>31. i \in DOMAIN made /\ \A k \in DOMAIN left : left[k] \in DOMAIN made /\ Rank(i) <= Rank(left[k])
    BY <2>2, <2>3
  <2>32. ASSUME NEW k \in DOMAIN left, NEW m \in DOMAIN left, k < m
         PROVE  Rank(left[k]) <= Rank(left[m])
    <3>1. k + 1 < m + 1 /\ k + 1 \in DOMAIN call[c].todo /\ m + 1 \in DOMAIN call[c].todo
      BY <2>3, <2>32
    <3> QED  BY <3>1, <2>2, <2>3
  <2>4. /\ next \in CallType /\ next.at = "visit" /\ next.todo = left
        /\ next.result = "none" /\ next.op = "failover" /\ next.asked = call[c].asked
    BY <1>1, <2>3 DEF CallType, Todos, left
  <2> HIDE DEF next
  <2>5. /\ state \in CallType /\ state.todo = left
        /\ state.result = "none" /\ state.op = "failover" /\ state.asked = call[c].asked
        /\ i \in healthy => state.at = "ask" /\ state.who = i
        /\ i \notin healthy => state.at = "visit"
    BY <2>3, <2>4 DEF CallType
  <2>6. Goes(c, state)
    BY <2>1 DEF i, next
  <2> HIDE DEF state
  <2>7. /\ call' \in [Client -> CallType] /\ call'[c] = state
        /\ \A d \in Client \ {c} : call'[d] = call[d]
    BY <1>1, <2>5, <2>6, CallUpdate
  <2>8. steady'[c] \subseteq steady[c] /\ (i \notin healthy => i \notin steady'[c])
    <3>1. steady'[c] \subseteq steady[c] /\ steady'[c] \subseteq Usables(c)'
      BY <1>1, <2>5, <2>7, Remembers
    <3>2. Usables(c)' \subseteq healthy
      BY <1>2, <2>5, <2>7 DEF Usables, managerVars
    <3> QED  BY <3>1, <3>2
  <2>9. made' = made /\ failed' = failed
    BY <1>2 DEF managerVars
  <2>10. VisitsOK(c)'
    <3>1. \A j : Rank(j)' = Rank(j)
      BY <2>9 DEF Rank
    <3>2. \A j \in steady[c] : j \in call[c].asked \/ j \in ToSet(call[c].todo)
      BY <1>1 DEF VisitsOK
    <3>3. \A j \in steady'[c] : j \in call[c].asked \/ j \in ToSet(left) \/ (i \in healthy /\ j = i)
      BY <2>3, <2>8, <3>2
    <3> QED  BY <2>3, <2>31, <2>32, <2>5, <2>7, <2>9, <3>1, <3>3 DEF VisitsOK
  <2>11. CallOK(c)'
    BY <1>1, <2>5, <2>7, <2>9, <2>10 DEF CallOK, LabelsOK, RecordsOK, TriesOK, FailedOK
  <2> QED  BY <1>1, <1>3, <2>7, <2>11 DEF StepOK
<1> QED  BY <1>4, <1>5

\* One that does not answer has been asked.
LEMMA AsksOK ==
  ASSUME ManagerPart, CallsPart, NEW c \in Client, Asks(c), UNCHANGED plan, History
  PROVE  StepOK(c)
<1> DEFINE i == call[c].who
           next == [call[c] EXCEPT !.at = "mark"]
           state == [next EXCEPT !.asked = @ \cup {i}]
<1>1. /\ call[c] \in CallType /\ CallOK(c) /\ call[c].at = "ask" /\ CallsTyped
      /\ call[c].op = "failover" /\ i \in DOMAIN made /\ VisitsOK(c) /\ call[c].result = "none"
  BY InCall DEF Asks, At, CallOK, LabelsOK, CallsPart, VisitsOK
<1>2. AskOf(c, i, next) /\ UNCHANGED <<plan, registered, reported, made>>
  BY DEF Asks, Recorded
<1>3. \/ StepOK(c)
      \/ /\ ManagerPart' /\ Grown /\ i \in failed' /\ Goes(c, state)
         /\ call[c].asked \subseteq failed'
  <2> HIDE DEF next
  <2> QED  BY <1>1, <1>2, AskOfIs
<1>4. SUFFICES ASSUME ManagerPart', Grown, i \in failed', Goes(c, state), call[c].asked \subseteq failed'
               PROVE  StepOK(c)
  BY <1>3
<1>5. i \in Instance
  BY <1>1, MadeIs DEF ManagerPart
<1>6. /\ next \in CallType /\ next.at = "mark" /\ next.result = "none" /\ next.who = i
      /\ next.op = "failover" /\ next.asked = call[c].asked /\ next.todo = call[c].todo
  BY <1>1 DEF CallType
<1> HIDE DEF next
<1>7. /\ state \in CallType /\ state.at = "mark" /\ state.result = "none" /\ state.who = i
      /\ state.op = "failover" /\ state.asked = call[c].asked \cup {i} /\ state.todo = call[c].todo
  BY <1>5, <1>6 DEF CallType
<1> HIDE DEF state
<1>8. /\ call' \in [Client -> CallType] /\ call'[c] = state
      /\ \A d \in Client \ {c} : call'[d] = call[d]
  BY <1>1, <1>4, <1>7, CallUpdate
<1>9. steady'[c] \subseteq steady[c]
  BY <1>1, <1>7, <1>8, Remembers
<1>10. VisitsOK(c)'
  <2>1. \A j : Rank(j)' = Rank(j)
    BY <1>2 DEF Rank
  <2> QED  BY <1>1, <1>2, <1>7, <1>8, <1>9, <2>1 DEF VisitsOK
<1>11. CallOK(c)'
  BY <1>1, <1>4, <1>7, <1>8, <1>10 DEF CallOK, LabelsOK, RecordsOK, TriesOK, FailedOK
<1> QED  BY <1>1, <1>4, <1>8, <1>11 DEF StepOK

\* It is marked for that.
LEMMA MarksOK ==
  ASSUME ManagerPart, CallsPart, NEW c \in Client, Marks(c), UNCHANGED plan, History
  PROVE  StepOK(c)
<1> DEFINE i == call[c].who
           state == [call[c] EXCEPT !.at = "visit"]
<1>1. /\ call[c] \in CallType /\ CallOK(c) /\ call[c].at = "mark" /\ CallsTyped
      /\ call[c].op = "failover" /\ i \in call[c].asked /\ VisitsOK(c) /\ call[c].result = "none"
      /\ i \in failed /\ call[c].asked \subseteq failed
  BY InCall DEF Marks, At, CallOK, LabelsOK, CallsPart, VisitsOK
<1>2. /\ healthy' = healthy \ {i} /\ Goes(c, state)
      /\ UNCHANGED <<providers, check, checker, answering, failed, registered, reported, made, plan>>
  BY DEF Marks, MarkUnhealthy, GoesTo, Recorded
<1>3. Grown
  BY <1>2, GrownKept
<1>4. ManagerPart'
  <2>1. Entries' = Entries
    BY <1>2 DEF Entries
  <2>2. ManagerTyped'
    BY <1>2 DEF ManagerPart, ManagerTyped
  <2>3. Named' /\ CheckInv'
    BY <1>2, <2>1 DEF ManagerPart, Named, CheckInv, Unlocked
  <2>4. MarkedForCause'
    BY <1>1, <1>2, <2>1 DEF ManagerPart, MarkedForCause
  <2> QED  BY <2>2, <2>3, <2>4 DEF ManagerPart
<1>5. /\ state \in CallType /\ state.at = "visit" /\ state.result = "none"
      /\ state.op = "failover" /\ state.asked = call[c].asked /\ state.todo = call[c].todo
  BY <1>1 DEF CallType
<1> HIDE DEF state
<1>6. /\ call' \in [Client -> CallType] /\ call'[c] = state
      /\ \A d \in Client \ {c} : call'[d] = call[d]
  BY <1>1, <1>2, <1>5, CallUpdate
<1>7. steady'[c] \subseteq steady[c]
  BY <1>1, <1>5, <1>6, Remembers
<1>8. VisitsOK(c)'
  <2>1. \A j : Rank(j)' = Rank(j)
    BY <1>2 DEF Rank
  <2> QED  BY <1>1, <1>2, <1>5, <1>6, <1>7, <2>1 DEF VisitsOK
<1>9. CallOK(c)'
  BY <1>1, <1>2, <1>5, <1>6, <1>8 DEF CallOK, LabelsOK, RecordsOK, TriesOK, FailedOK
<1> QED  BY <1>1, <1>3, <1>4, <1>6, <1>9 DEF StepOK

-----------------------------------------------------------------------------
\* The steps of ExecuteWithFailover.
LEMMA BeginsExecuteOK ==
  ASSUME ManagerPart, CallsPart, NEW c \in Client, BeginsExecute(c), UNCHANGED plan, History
  PROVE  StepOK(c)
<1>1. /\ call[c] \in CallType /\ CallOK(c) /\ call[c].result = "none"
      /\ call[c].at = "execute" /\ CallsTyped /\ call[c].op = "execute"
  BY InCall DEF BeginsExecute, At, CallOK, LabelsOK, CallsPart
<1>2. UNCHANGED <<managerVars, registered, reported, made>>
  BY DEF BeginsExecute, Unmanaged, Recorded
<1>3. ManagerPart' /\ Grown /\ made' = made
  BY <1>2, ManagerKept, GrownKept DEF managerVars
<1>4. PICK listed \in NamesInMapOrder :
        Goes(c, [call[c] EXCEPT !.todo = SortedNames(listed, plan.priority), !.at = "next"])
  BY DEF BeginsExecute
<1> DEFINE names == SortedNames(listed, plan.priority)
           state == [call[c] EXCEPT !.todo = names, !.at = "next"]
<1>5. /\ listed \in Seq(Name) /\ \A i \in Entries : made[i] \in ToSet(listed)
      /\ Few => Len(listed) <= 2
  BY NamesListed DEF ManagerPart
<1>6. /\ names \in Seq(Name) /\ ToSet(names) = ToSet(listed)
      /\ Few => \A k, m \in DOMAIN names : k < m => plan.priority[names[k]] <= plan.priority[names[m]]
  BY <1>1, <1>5, PlanTyped, SortedNamesAre
<1> HIDE DEF names
<1>7. /\ state \in CallType /\ state.at = "next" /\ state.todo = names
      /\ state.result = "none" /\ state.op = "execute" /\ state.asked = call[c].asked
  BY <1>1, <1>6 DEF CallType, Todos
<1>8. Goes(c, state)
  BY <1>4 DEF names
<1> HIDE DEF state
<1>9. /\ call' \in [Client -> CallType] /\ call'[c] = state
      /\ \A d \in Client \ {c} : call'[d] = call[d]
  BY <1>1, <1>7, <1>8, CallUpdate
<1>10. steady'[c] \subseteq Entries
  <2>1. steady'[c] \subseteq Usables(c)' /\ Entries' = Entries
    BY <1>1, <1>2, <1>7, <1>9, Remembers DEF Entries, managerVars
  <2> QED  BY <2>1, <1>7, <1>9 DEF Usables
<1>11. TriesOK(c)'
  <2>1. Entries \subseteq DOMAIN made /\ \A i \in Entries : made[i] \in ToSet(names)
    BY <1>5, <1>6, NameOfEntry DEF ManagerPart
  <2>2. Few' => Few
    BY <1>3, FewBefore
  <2> QED  BY <1>3, <1>6, <1>7, <1>9, <1>10, <2>1, <2>2 DEF TriesOK
<1>12. call[c].asked \subseteq failed'
  BY <1>1, <1>3 DEF CallOK, Grown
<1>13. CallOK(c)'
  BY <1>7, <1>9, <1>11, <1>12 DEF CallOK, LabelsOK, RecordsOK, VisitsOK, FailedOK
<1> QED  BY <1>1, <1>3, <1>9, <1>13 DEF StepOK

\* The call with an entry at hand.
LEMMA TriedIs ==
  ASSUME NEW next \in CallType, NEW i \in Instance \cup {None}
  PROVE  LET tried == [next EXCEPT !.who = i, !.tries = 0, !.at = "try"]
         IN  /\ tried \in CallType /\ tried.todo = next.todo /\ tried.at = "try" /\ tried.who = i
             /\ tried.result = next.result /\ tried.op = next.op /\ tried.asked = next.asked
<1> DEFINE mid == [next EXCEPT !.who = i, !.at = "try"]
           tried == [next EXCEPT !.who = i, !.tries = 0, !.at = "try"]
<1>1. 0 \in 0..MaxRetries
  BY ProvidersAssumption
<1>2. /\ mid \in CallType /\ mid.todo = next.todo /\ mid.at = "try" /\ mid.who = i
      /\ mid.result = next.result /\ mid.op = next.op /\ mid.asked = next.asked
  BY DEF CallType
<1>3. tried = [mid EXCEPT !.tries = 0]
  BY DEF CallType
<1> HIDE DEF mid, tried
<1>4. /\ tried \in CallType /\ tried.todo = next.todo /\ tried.at = "try" /\ tried.who = i
      /\ tried.result = next.result /\ tried.op = next.op /\ tried.asked = next.asked
  BY <1>1, <1>2, <1>3 DEF CallType
<1> QED  BY <1>4 DEF tried

\* A name that is gone has no steady entry; one that is there has the entry at hand.
LEMMA LooksUpNextOK ==
  ASSUME ManagerPart, CallsPart, NEW c \in Client, LooksUpNext(c), UNCHANGED plan, History
  PROVE  StepOK(c)
<1>1. /\ call[c] \in CallType /\ CallOK(c) /\ call[c].result = "none"
      /\ call[c].at = "next" /\ CallsTyped /\ call[c].op = "execute" /\ TriesOK(c)
  BY InCall DEF LooksUpNext, At, CallOK, LabelsOK, CallsPart
<1>2. UNCHANGED <<managerVars, registered, reported, made>>
  BY DEF LooksUpNext, Unmanaged, Recorded
<1>3. ManagerPart' /\ Grown
  BY <1>2, ManagerKept, GrownKept DEF managerVars
<1>4. CASE call[c].todo = <<>>
  <2>1. Ends(c, "failed")
    BY <1>4 DEF LooksUpNext
  <2>2. steady[c] \subseteq call[c].asked
    BY <1>1, <1>4 DEF TriesOK, ToSet
  <2> QED  BY <1>1, <1>3, <2>1, <2>2, EndsOK DEF StepOK
<1>5. CASE call[c].todo # <<>>
  <2> DEFINE n == Head(call[c].todo)
             i == providers[n]
             left == Tail(call[c].todo)
             next == [call[c] EXCEPT !.todo = Tail(@)]
             state == IF i = None THEN next ELSE [next EXCEPT !.who = i, !.tries = 0, !.at = "try"]
  <2>1. Goes(c, state)
    BY <1>5 DEF LooksUpNext
  <2>2. /\ call[c].todo \in Seq(Name)
        /\ steady[c] \subseteq DOMAIN made
        /\ \A j \in steady[c] : j \in call[c].asked \/ made[j] \in ToSet(call[c].todo)
        /\ Few => \A k, m \in DOMAIN call[c].todo :
                    k < m => plan.priority[call[c].todo[k]] <= plan.priority[call[c].todo[m]]
    BY <1>1 DEF TriesOK
  <2>3. /\ 1 \in DOMAIN call[c].todo /\ n = call[c].todo[1] /\ n \in Name /\ left \in Seq(Name)
        /\ \A k \in DOMAIN left : k \in Nat /\ 1 < k + 1 /\ k + 1 \in DOMAIN call[c].todo
                                  /\ left[k] = call[c].todo[k + 1]
        /\ \A x \in ToSet(call[c].todo) : x = n \/ x \in ToSet(left)
    BY <1>5, <2>2, TailIs
  <2> HIDE DEF n, left
  <2>4. /\ i \in Instance \cup {None} /\ (i # None => i \in Instance /\ i \in DOMAIN made /\ made[i] = n)
    BY <2>3 DEF ManagerPart, ManagerTyped, Named
  <2>5. Few => \A k \in DOMAIN left : plan.priority[n] <= plan.priority[left[k]]
    BY <2>2, <2>3
  <2>6. ASSUME Few, NEW k \in DOMAIN left, NEW m \in DOMAIN left, k < m
        PROVE  plan.priority[left[k]] <= plan.priority[left[m]]
    <3>1. k + 1 < m + 1 /\ k + 1 \in DOMAIN call[c].todo /\ m + 1 \in DOMAIN call[c].todo
      BY <2>3, <2>6
    <3> QED  BY <3>1, <2>2, <2>3, <2>6
  <2>7. /\ next \in CallType /\ next.at = "next" /\ next.todo = left
        /\ next.result = "none" /\ next.op = "execute" /\ next.asked = call[c].asked
    BY <1>1, <2>3 DEF CallType, Todos, left
  <2>8. Goes(c, state)
    BY <2>1 DEF n
  <2> HIDE DEF next, i
  <2>9. /\ state \in CallType /\ state.todo = left
        /\ state.result = "none" /\ state.op = "execute" /\ state.asked = call[c].asked
        /\ i # None => state.at = "try" /\ state.who = i
        /\ i = None => state.at = "next"
    <3> DEFINE tried == [next EXCEPT !.who = i, !.tries = 0, !.at = "try"]
    <3>3. /\ tried \in CallType /\ tried.todo = next.todo /\ tried.at = "try" /\ tried.who = i
          /\ tried.result = next.result /\ tried.op = next.op /\ tried.asked = next.asked
      BY <2>4, <2>7, TriedIs
    <3>4. state = IF i = None THEN next ELSE tried
      OBVIOUS
    <3> HIDE DEF tried, state
    <3> QED  BY <2>7, <3>3, <3>4
  <2> HIDE DEF state
  <2>10. /\ call' \in [Client -> CallType] /\ call'[c] = state
         /\ \A d \in Client \ {c} : call'[d] = call[d]
    BY <1>1, <2>8, <2>9, CallUpdate
  <2>11. steady'[c] \subseteq steady[c] /\ steady'[c] \subseteq Entries
    <3>1. steady'[c] \subseteq steady[c] /\ steady'[c] \subseteq Usables(c)' /\ Entries' = Entries
      BY <1>1, <1>2, <2>9, <2>10, Remembers DEF Entries, managerVars
    <3> QED  BY <3>1, <2>9, <2>10 DEF Usables
  <2>12. \A j \in steady'[c] : j \in call[c].asked \/ made[j] \in ToSet(left) \/ (i # None /\ j = i)
    <3>1. TAKE j \in steady'[c]
    <3>2. j \in call[c].asked \/ made[j] = n \/ made[j] \in ToSet(left)
      BY <2>2, <2>3, <2>11
    <3>3. providers[made[j]] = j /\ j # None
      BY <2>11, NameOfEntry, MadeIs DEF ManagerPart
    <3> QED  BY <3>2, <3>3 DEF i
  <2>13. made' = made /\ failed' = failed /\ plan' = plan
    BY <1>2 DEF managerVars
  <2>14. TriesOK(c)'
    <3>1. Few' => Few
      BY <1>3, FewBefore
    <3>2. \A j : Rank(j)' = Rank(j)
      BY <2>13 DEF Rank
    <3>3. i # None => Rank(i) = plan.priority[n]
      BY <2>4 DEF Rank
    <3>4. state.at \in {"next", "try"}
      BY <2>9
    <3>5. Few' => \A k, m \in DOMAIN left : k < m => plan.priority[left[k]] <= plan.priority[left[m]]
      BY <3>1, <2>6
    <3>6. Few' /\ i # None => \A k \in DOMAIN left : Rank(i) <= plan.priority[left[k]]
      BY <3>1, <3>3, <2>5
    <3> QED  BY <2>2, <2>3, <2>4, <2>9, <2>10, <2>11, <2>12, <2>13, <3>2, <3>4, <3>5, <3>6 DEF TriesOK
  <2>15. CallOK(c)'
    BY <1>1, <2>9, <2>10, <2>13, <2>14 DEF CallOK, LabelsOK, RecordsOK, VisitsOK, FailedOK
  <2> QED  BY <1>1, <1>3, <2>10, <2>15 DEF StepOK
<1> QED  BY <1>4, <1>5

\* An attempt that fails is repeated, or the next name's turn comes.
LEMMA TriesStepOK ==
  ASSUME ManagerPart, CallsPart, NEW c \in Client, Tries(c), UNCHANGED plan, History
  PROVE  StepOK(c)
<1> DEFINE i == call[c].who
           over == [call[c] EXCEPT !.at = "next"]
           again == [call[c] EXCEPT !.tries = @ + 1, !.at = "backoff"]
<1>1. /\ call[c] \in CallType /\ CallOK(c) /\ call[c].at = "try" /\ CallsTyped /\ call[c].result = "none"
      /\ call[c].op = "execute" /\ i \in DOMAIN made /\ TriesOK(c) /\ call[c].at \notin {"idle", "return"}
  BY InCall DEF Tries, At, CallOK, LabelsOK, CallsPart, TriesOK
<1>2. \/ AskOf(c, i, over)
      \/ call[c].tries # MaxRetries /\ AskOf(c, i, again)
  BY DEF Tries
<1>3. UNCHANGED <<plan, registered, reported, made>>
  BY DEF Tries, Recorded
<1>4. i \in Instance
  BY <1>1, MadeIs DEF ManagerPart
<1>5. /\ over \in CallType /\ over.at = "next" /\ over.result = "none" /\ over.who = i
      /\ over.op = "execute" /\ over.asked = call[c].asked /\ over.todo = call[c].todo
  BY <1>1 DEF CallType
<1>6. ASSUME call[c].tries # MaxRetries
      PROVE  /\ again \in CallType /\ again.at = "backoff" /\ again.result = "none" /\ again.who = i
             /\ again.op = "execute" /\ again.asked = call[c].asked /\ again.todo = call[c].todo
  <2>1. call[c].tries + 1 \in 0..MaxRetries
    BY <1>1, <1>6, ProvidersAssumption DEF CallType
  <2> QED  BY <1>1, <2>1 DEF CallType
<1> HIDE DEF over, again
<1>7. PICK next \in CallType :
        /\ next.at \in {"next", "backoff"} /\ next.result = "none" /\ next.who = i
        /\ next.op = "execute" /\ next.asked = call[c].asked /\ next.todo = call[c].todo
        /\ AskOf(c, i, next)
  BY <1>2, <1>5, <1>6
<1> DEFINE state == [next EXCEPT !.asked = @ \cup {i}]
<1>8. \/ StepOK(c)
      \/ /\ ManagerPart' /\ Grown /\ i \in failed' /\ Goes(c, state)
         /\ call[c].asked \subseteq failed'
  BY <1>1, <1>3, <1>7, AskOfIs
<1>9. SUFFICES ASSUME ManagerPart', Grown, i \in failed', Goes(c, state), call[c].asked \subseteq failed'
               PROVE  StepOK(c)
  BY <1>8
<1>10. /\ state \in CallType /\ state.at \in {"next", "backoff"} /\ state.result = "none" /\ state.who = i
       /\ state.op = "execute" /\ state.asked = call[c].asked \cup {i} /\ state.todo = call[c].todo
  BY <1>4, <1>7 DEF CallType
<1> HIDE DEF state
<1>11. /\ call' \in [Client -> CallType] /\ call'[c] = state
       /\ \A d \in Client \ {c} : call'[d] = call[d]
  BY <1>1, <1>9, <1>10, CallUpdate
<1>12. steady'[c] \subseteq steady[c]
  BY <1>1, <1>10, <1>11, Remembers
<1>13. TriesOK(c)'
  <2>1. \A j : Rank(j)' = Rank(j)
    BY <1>3 DEF Rank
  <2>2. Few' => Few
    BY <1>9, FewBefore
  <2> QED  BY <1>1, <1>3, <1>10, <1>11, <1>12, <2>1, <2>2 DEF TriesOK
<1>14. CallOK(c)'
  BY <1>1, <1>9, <1>10, <1>11, <1>13 DEF CallOK, LabelsOK, RecordsOK, VisitsOK, FailedOK
<1> QED  BY <1>1, <1>9, <1>11, <1>14 DEF StepOK

\* After a backoff the same entry is asked again.
LEMMA BacksOffOK ==
  ASSUME ManagerPart, CallsPart, NEW c \in Client, BacksOff(c), UNCHANGED plan, History
  PROVE  StepOK(c)
<1> DEFINE state == [call[c] EXCEPT !.at = "try"]
<1>1. /\ call[c] \in CallType /\ CallOK(c) /\ call[c].at = "backoff" /\ CallsTyped
      /\ call[c].op = "execute" /\ TriesOK(c) /\ call[c].result = "none"
  BY InCall DEF BacksOff, At, CallOK, LabelsOK, CallsPart
<1>2. Goes(c, state) /\ UNCHANGED <<managerVars, registered, reported, made, plan>>
  BY DEF BacksOff, GoesTo, Unmanaged, Recorded
<1>3. ManagerPart' /\ Grown
  BY <1>2, ManagerKept, GrownKept DEF managerVars
<1>4. /\ state \in CallType /\ state.at = "try" /\ state.result = "none" /\ state.who = call[c].who
      /\ state.op = "execute" /\ state.asked = call[c].asked /\ state.todo = call[c].todo
  BY <1>1 DEF CallType
<1> HIDE DEF state
<1>5. /\ call' \in [Client -> CallType] /\ call'[c] = state
      /\ \A d \in Client \ {c} : call'[d] = call[d]
  BY <1>1, <1>2, <1>4, CallUpdate
<1>6. steady'[c] \subseteq steady[c]
  BY <1>1, <1>4, <1>5, Remembers
<1>7. TriesOK(c)'
  <2>1. \A j : Rank(j)' = Rank(j)
    BY <1>2 DEF Rank
  <2>2. Few' => Few
    BY <1>3, FewBefore
  <2> QED  BY <1>1, <1>2, <1>4, <1>5, <1>6, <2>1, <2>2 DEF TriesOK
<1>8. call[c].asked \subseteq failed'
  BY <1>1, <1>3 DEF CallOK, Grown
<1>9. CallOK(c)'
  BY <1>4, <1>5, <1>7, <1>8 DEF CallOK, LabelsOK, RecordsOK, VisitsOK, FailedOK
<1> QED  BY <1>1, <1>3, <1>5, <1>9 DEF StepOK

-----------------------------------------------------------------------------
\* The health checks of the manager.  A check has the lock until it ends.
HealthCheckers == [enabled : BOOLEAN, closed : BOOLEAN, waiting : Nat, joining : Client \cup {NoClient}]

\* It takes the lock, with every entry to ask.
LEMMA CheckBeginsOK ==
  ASSUME ManagerPart, NEW by \in Client \cup {Checker}, CheckBegins(by), checker' \in HealthCheckers,
         UNCHANGED <<registered, reported, made>>
  PROVE  ManagerPart' /\ failed' = failed
<1>1. /\ check' = [by |-> by, left |-> Entries]
      /\ UNCHANGED <<providers, healthy, answering, failed, registered, reported, made>>
  BY DEF CheckBegins
<1>2. Entries' = Entries /\ by # NoClient
  BY <1>1, ManagerAssumption DEF Entries
<1>3. Entries \subseteq Instance
  BY NameOfEntry DEF ManagerPart
<1>4. ManagerTyped'
  BY <1>1, <1>3 DEF ManagerPart, ManagerTyped, HealthCheckers
<1>5. CheckInv'
  BY <1>1, <1>2 DEF CheckInv, Unlocked
<1>6. Named' /\ MarkedForCause'
  BY <1>1, <1>2 DEF ManagerPart, Named, MarkedForCause
<1> QED  BY <1>1, <1>4, <1>5, <1>6 DEF ManagerPart

\* It marks an entry as it answers, and no other.
LEMMA CheckAsksOK ==
  ASSUME ManagerPart, NEW by \in Client \cup {Checker}, CheckAsks(by),
         UNCHANGED <<registered, reported, made>>
  PROVE  ManagerPart' /\ failed \subseteq failed'
<1>1. PICK i \in check.left :
        /\ check' = [check EXCEPT !.left = @ \ {i}]
        /\ IF Answers(i) THEN healthy' = healthy \cup {i} /\ failed' = failed
           ELSE healthy' = healthy \ {i} /\ failed' = failed \cup {i}
  BY DEF CheckAsks, Fails
<1>2. UNCHANGED <<providers, checker, answering, registered, reported, made>> /\ check.by = by
  BY DEF CheckAsks
<1>3. /\ i \in Instance /\ i \in DOMAIN made /\ Entries' = Entries
      /\ check \in [by : Client \cup {NoClient, Checker}, left : SUBSET Instance]
  BY <1>2, NameOfEntry DEF ManagerPart, CheckInv, Entries, ManagerTyped
<1>4. /\ check'.by = by /\ check'.left = check.left \ {i}
      /\ check' \in [by : Client \cup {NoClient, Checker}, left : SUBSET Instance]
  BY <1>1, <1>2, <1>3
<1>5. healthy' \in SUBSET Instance /\ failed' \in SUBSET Instance /\ failed \subseteq failed'
      /\ failed' \subseteq DOMAIN made
  BY <1>1, <1>3 DEF ManagerPart, ManagerTyped, Named
<1>6. ManagerTyped'
  BY <1>2, <1>4, <1>5 DEF ManagerPart, ManagerTyped
<1>7. Named'
  BY <1>2, <1>5 DEF ManagerPart, Named
<1>8. CheckInv'
  BY <1>2, <1>3, <1>4, ManagerAssumption DEF ManagerPart, CheckInv, Unlocked
<1>9. MarkedForCause'
  <2>1. Entries' \ healthy' \subseteq failed'
    BY <1>1, <1>3 DEF ManagerPart, MarkedForCause
  <2> QED  BY <1>2, <1>5, <2>1 DEF ManagerPart, MarkedForCause
<1> QED  BY <1>5, <1>6, <1>7, <1>8, <1>9 DEF ManagerPart

\* It gives the lock back.
LEMMA CheckEndsOK ==
  ASSUME ManagerPart, NEW by, CheckEnds(by), checker' \in HealthCheckers,
         UNCHANGED <<registered, reported, made>>
  PROVE  ManagerPart' /\ failed' = failed
<1>1. /\ check' = [by |-> NoClient, left |-> {}]
      /\ UNCHANGED <<providers, healthy, answering, failed, registered, reported, made>>
  BY DEF CheckEnds, NoCheck
<1>2. Entries' = Entries
  BY <1>1 DEF Entries
<1>3. ManagerTyped'
  BY <1>1 DEF ManagerPart, ManagerTyped, HealthCheckers
<1>4. CheckInv'
  BY <1>1 DEF CheckInv, Unlocked
<1>5. Named' /\ MarkedForCause'
  BY <1>1, <1>2 DEF ManagerPart, Named, MarkedForCause
<1> QED  BY <1>1, <1>3, <1>4, <1>5 DEF ManagerPart

\* The checker, or a provider outside, moves.
LEMMA OutsideMoves ==
  ASSUME ManagerPart, checker' \in HealthCheckers, answering' \in SUBSET Instance,
         UNCHANGED <<providers, healthy, check, failed, registered, reported, made>>
  PROVE  ManagerPart'
<1>1. Entries' = Entries
  BY DEF Entries
<1>2. ManagerTyped'
  BY DEF ManagerPart, ManagerTyped, HealthCheckers
<1> QED  BY <1>1, <1>2 DEF ManagerPart, Named, CheckInv, MarkedForCause, Unlocked

-----------------------------------------------------------------------------
\* HealthCheck by a client.
LEMMA ChecksOK ==
  ASSUME ManagerPart, CallsPart, NEW c \in Client, Checks(c), UNCHANGED plan, History
  PROVE  StepOK(c)
<1>1. call[c].at \in {"check", "checking"} /\ UNCHANGED <<registered, reported, made, plan>>
  BY DEF Checks, At, Recorded
<1>2. /\ call[c] \in CallType /\ CallOK(c) /\ call[c].result = "none"
      /\ CallsTyped /\ call[c].op \notin {"failover", "execute"}
  BY <1>1, InCall DEF CallOK, LabelsOK, CallsPart
<1>3. checker \in HealthCheckers /\ made \in Seq(Name)
  BY DEF ManagerPart, ManagerTyped, HealthCheckers
<1>4. CASE CheckBegins(c) /\ GoesTo(c, "checking") /\ UNCHANGED checker
  <2>1. ManagerPart' /\ failed' = failed
    BY <1>1, <1>3, <1>4, CheckBeginsOK
  <2>2. Grown
    BY <1>1, <2>1, GrownKept
  <2> QED  BY <1>1, <1>2, <1>4, <2>1, <2>2, PlainOK DEF StepOK
<1>5. CASE CheckAsks(c) /\ UNCHANGED call
  <2>1. ManagerPart' /\ failed \subseteq failed'
    BY <1>1, <1>5, CheckAsksOK
  <2>2. Grown
    BY <1>1, <1>3, <2>1 DEF Grown
  <2>3. steady'[c] \subseteq steady[c]
    BY <1>1, <1>2, <1>5, Remembers
  <2>4. CallOK(c)'
    BY <1>2, <1>3, <1>5, <2>2, <2>3, OthersKept
  <2> QED  BY <1>1, <1>2, <1>5, <2>1, <2>2, <2>4 DEF StepOK, CallsTyped
<1>6. CASE CheckEnds(c) /\ Ends(c, "ok") /\ UNCHANGED checker
  <2>1. ManagerPart' /\ failed' = failed
    BY <1>1, <1>3, <1>6, CheckEndsOK
  <2>2. Grown
    BY <1>1, <2>1, GrownKept
  <2> QED  BY <1>1, <1>2, <1>6, <2>1, <2>2, EndsOK DEF StepOK
<1> QED  BY <1>4, <1>5, <1>6 DEF Checks

\* StartHealthChecks.
LEMMA StartsChecksOK ==
  ASSUME ManagerPart, CallsPart, NEW c \in Client, StartsChecks(c), UNCHANGED plan, History
  PROVE  StepOK(c)
<1>1. call[c].at \in {"start", "spawn"} /\ UNCHANGED <<registered, reported, made, plan>>
  BY DEF StartsChecks, At, Recorded
<1>2. /\ call[c] \in CallType /\ CallOK(c) /\ call[c].result = "none"
      /\ CallsTyped /\ call[c].op \notin {"failover", "execute"}
  BY <1>1, InCall DEF CallOK, LabelsOK, CallsPart
<1>3. ManagerPart' /\ failed' = failed
  <2>1. CASE Unmanaged
    BY <1>1, <2>1, ManagerKept DEF Unmanaged, managerVars
  <2>2. CASE StartSpawns
    <3>1. /\ checker' = [checker EXCEPT !.waiting = @ + 1]
          /\ UNCHANGED <<providers, healthy, check, answering, failed>>
      BY <2>2 DEF StartSpawns
    <3>2. checker' \in HealthCheckers /\ answering' \in SUBSET Instance
      BY <3>1 DEF ManagerPart, ManagerTyped, HealthCheckers
    <3> QED  BY <1>1, <3>1, <3>2, OutsideMoves
  <2> QED  BY <2>1, <2>2 DEF StartsChecks
<1>4. Grown
  BY <1>1, <1>3, GrownKept
<1>5. GoesTo(c, "spawn") \/ Ends(c, "ok")
  BY DEF StartsChecks
<1> QED  BY <1>1, <1>2, <1>3, <1>4, <1>5, PlainOK, EndsOK DEF StepOK

\* StopHealthChecks, which may wait for the goroutine.
LEMMA StopsChecksOK ==
  ASSUME ManagerPart, CallsPart, NEW c \in Client, StopsChecks(c), UNCHANGED plan, History
  PROVE  StepOK(c)
<1>1. call[c].at \in {"stop", "join"} /\ UNCHANGED <<registered, reported, made, plan>>
  BY DEF StopsChecks, At, Recorded
<1>2. /\ call[c] \in CallType /\ CallOK(c) /\ call[c].result = "none"
      /\ CallsTyped /\ call[c].op \notin {"failover", "execute"}
  BY <1>1, InCall DEF CallOK, LabelsOK, CallsPart
<1>3. ManagerPart' /\ failed' = failed
  <2>1. /\ \/ checker' = [checker EXCEPT !.closed = TRUE, !.enabled = FALSE, !.joining = c]
           \/ checker' = checker
           \/ checker' = [checker EXCEPT !.joining = NoClient]
        /\ UNCHANGED <<providers, healthy, check, answering, failed>>
    BY DEF StopsChecks, StopCloses, StopJoins
  <2>2. checker \in HealthCheckers
    BY DEF ManagerPart, ManagerTyped, HealthCheckers
  <2>3. checker' \in HealthCheckers
    BY <2>1, <2>2 DEF HealthCheckers
  <2>4. answering' \in SUBSET Instance
    BY <2>1 DEF ManagerPart, ManagerTyped
  <2> QED  BY <1>1, <2>1, <2>3, <2>4, OutsideMoves
<1>4. Grown
  BY <1>1, <1>3, GrownKept
<1>5. GoesTo(c, "join") \/ Ends(c, "ok")
  BY DEF StopsChecks
<1> QED  BY <1>1, <1>2, <1>3, <1>4, <1>5, PlainOK, EndsOK DEF StepOK

\* A plan with one turn less, whatever the turn, is a plan.
LEMMA PlanLess ==
  ASSUME plan \in Workloads,
         \/ plan.cancels > 0 /\ plan' = [plan EXCEPT !.cancels = @ - 1]
         \/ plan.turns > 0 /\ plan' = [plan EXCEPT !.turns = @ - 1]
         \/ plan.reaches > 0 /\ plan' = [plan EXCEPT !.reaches = @ - 1]
         \/ plan.expiries > 0 /\ plan' = [plan EXCEPT !.expiries = @ - 1]
  PROVE  plan' \in Workloads /\ plan'.priority = plan.priority /\ plan'.failover = plan.failover
<1>1. /\ plan.cancels > 0 => plan.cancels - 1 \in Nat
      /\ plan.turns > 0 => plan.turns - 1 \in Nat
      /\ plan.reaches > 0 => plan.reaches - 1 \in Nat
      /\ plan.expiries > 0 => plan.expiries - 1 \in Nat
  <2>1. plan.cancels \in Nat /\ plan.turns \in Nat /\ plan.reaches \in Nat /\ plan.expiries \in Nat
    BY DEF Workloads
  <2> QED  BY <2>1
<1>2. CASE plan.cancels > 0 /\ plan' = [plan EXCEPT !.cancels = @ - 1]
  <2>1. PICK n \in Nat : plan' = [plan EXCEPT !.cancels = n]
    BY <1>1, <1>2
  <2> QED  BY <2>1 DEF Workloads
<1>3. CASE plan.turns > 0 /\ plan' = [plan EXCEPT !.turns = @ - 1]
  <2>1. PICK n \in Nat : plan' = [plan EXCEPT !.turns = n]
    BY <1>1, <1>3
  <2> QED  BY <2>1 DEF Workloads
<1>4. CASE plan.reaches > 0 /\ plan' = [plan EXCEPT !.reaches = @ - 1]
  <2>1. PICK n \in Nat : plan' = [plan EXCEPT !.reaches = n]
    BY <1>1, <1>4
  <2> QED  BY <2>1 DEF Workloads
<1>5. CASE plan.expiries > 0 /\ plan' = [plan EXCEPT !.expiries = @ - 1]
  <2>1. PICK n \in Nat : plan' = [plan EXCEPT !.expiries = n]
    BY <1>1, <1>5
  <2> QED  BY <2>1 DEF Workloads
<1> QED  BY <1>2, <1>3, <1>4, <1>5

\* A call cancelled in a backoff has not failed for want of an entry.
LEMMA CancelsOK ==
  ASSUME ManagerPart, CallsPart, NEW c \in Client, Cancels(c)
  PROVE  StepOK(c) /\ plan' \in Workloads
<1>1. /\ call[c].at = "backoff" /\ plan.cancels > 0
      /\ plan' = [plan EXCEPT !.cancels = @ - 1] /\ Ends(c, "cancelled") /\ History
      /\ UNCHANGED <<managerVars, registered, reported, made>>
  BY DEF Cancels, At, Unmanaged, Recorded
<1>2. call[c] \in CallType /\ CallOK(c) /\ CallsTyped
  BY <1>1, InCall DEF CallsPart
<1>3. plan' \in Workloads /\ plan'.priority = plan.priority /\ plan'.failover = plan.failover
  <2>1. plan \in Workloads
    BY <1>2 DEF CallsTyped
  <2> QED  BY <1>1, <2>1, PlanLess
<1>4. ManagerPart' /\ Grown
  <2>1. ManagerPart' /\ failed' = failed /\ made' = made /\ made \in Seq(Name)
    BY <1>1, ManagerKept DEF managerVars, ManagerPart, ManagerTyped
  <2> QED  BY <1>3, <2>1 DEF Grown
<1> QED  BY <1>1, <1>2, <1>3, <1>4, EndsOK DEF StepOK

-----------------------------------------------------------------------------
\* The other clients' calls stay sound when one moves, and all do when none
\* does.
LEMMA OneMoves ==
  ASSUME ManagerPart, CallsPart, History, Grown, plan' \in Workloads, NEW c \in Client,
         call' \in [Client -> CallType], CallOK(c)',
         call[c].at # "idle" \/ call'[c].at \notin {"visit", "ask", "mark", "next", "try", "backoff"},
         \A d \in Client \ {c} : call'[d] = call[d]
  PROVE  CallsPart'
<1>1. CallsTyped /\ made \in Seq(Name)
  BY DEF CallsPart, ManagerPart, ManagerTyped
<1>2. CallsTyped'
  BY <1>1, Remembers DEF CallsTyped
<1>3. ASSUME NEW d \in Client \ {c}
      PROVE  CallOK(d)' /\ SteadyOK(d)'
  <2>1. call'[d] = call[d] /\ CallOK(d)
    BY <1>3 DEF CallsPart
  <2>2. steady'[d] \subseteq steady[d] \/ call[d].at = "idle"
    BY <1>1, <2>1, Remembers
  <2>3. CallOK(d)'
    BY <1>1, <2>1, <2>2, OthersKept
  <2>4. SteadyOK(d)'
    BY <1>1, <2>1, SteadyStep
  <2> QED  BY <2>3, <2>4
<1>4. SteadyOK(c)'
  BY <1>1, SteadyStep
<1> QED  BY <1>2, <1>3, <1>4 DEF CallsPart

\* When the managers' calls stand still the histories move.
LEMMA NoneMoves ==
  ASSUME ManagerPart, CallsPart, History, Grown, plan' \in Workloads, call' = call
  PROVE  CallsPart'
<1>1. CallsTyped /\ made \in Seq(Name)
  BY DEF CallsPart, ManagerPart, ManagerTyped
<1>2. CallsTyped'
  BY <1>1, Remembers DEF CallsTyped
<1>3. ASSUME NEW d \in Client
      PROVE  CallOK(d)' /\ SteadyOK(d)'
  <2>1. call'[d] = call[d] /\ CallOK(d)
    BY DEF CallsPart
  <2>2. steady'[d] \subseteq steady[d] \/ call[d].at = "idle"
    BY <1>1, <2>1, Remembers
  <2>3. CallOK(d)'
    BY <1>1, <2>1, <2>2, OthersKept
  <2>4. SteadyOK(d)'
    BY <1>1, <2>1, SteadyStep
  <2> QED  BY <2>3, <2>4
<1> QED  BY <1>2, <1>3 DEF CallsPart

\* A step of a call, with its histories.
LEMMA StepsFollow ==
  ASSUME ManagerPart, CallsPart, History, plan' \in Workloads, NEW c \in Client, StepOK(c)
  PROVE  ManagerPart' /\ CallsPart'
BY OneMoves DEF StepOK

-----------------------------------------------------------------------------
\* A client makes its next call, or returns from one.
LEMMA NextCall ==
  ASSUME CallsTyped, NEW c \in Client, Free(c), Taken(c)
  PROVE  /\ Head(plan.calls[c]) \in Calls /\ plan' \in Workloads
         /\ plan'.priority = plan.priority /\ plan'.failover = plan.failover
<1>1. plan \in Workloads /\ plan.calls \in [Client -> Seq(Calls)]
  BY DEF CallsTyped, Workloads
<1>2. plan.calls[c] \in Seq(Calls) /\ plan.calls[c] # <<>>
  BY <1>1 DEF Free
<1>3. Head(plan.calls[c]) \in Calls /\ Tail(plan.calls[c]) \in Seq(Calls)
  <2> DEFINE s == plan.calls[c]
  <2>1. s \in Seq(Calls) /\ s # <<>>
    BY <1>2
  <2> HIDE DEF s
  <2>2. Head(s) \in Calls /\ Tail(s) \in Seq(Calls)
    BY <2>1
  <2> QED  BY <2>2 DEF s
<1> DEFINE calls == [plan.calls EXCEPT ![c] = Tail(@)]
<1>4. calls \in [Client -> Seq(Calls)]
  BY <1>1, <1>3
<1>5. plan' = [plan EXCEPT !.calls = calls]
  BY DEF Taken
<1> HIDE DEF calls
<1>6. plan' \in Workloads /\ plan'.priority = plan.priority /\ plan'.failover = plan.failover
  BY <1>1, <1>4, <1>5 DEF Workloads
<1> QED  BY <1>3, <1>6

Begun(op, at, of) == [Idle EXCEPT !.op = op, !.at = at, !.of = of]

\* What a call begins with.
LEMMA FromIdle ==
  ASSUME NEW op \in Managing, NEW of \in Name \cup {"none"},
         NEW at \in {"register", "unregister", "list", "failover", "execute", "check", "start", "stop"}
  PROVE  LET state == Begun(op, at, of)
         IN  /\ state \in CallType /\ state.at = at /\ state.op = op /\ state.of = of
             /\ state.asked = {} /\ state.result = "none"
<1> DEFINE mid == [Idle EXCEPT !.op = op, !.at = at]
           state == [Idle EXCEPT !.op = op, !.at = at, !.of = of]
<1>1. Idle \in CallType /\ Idle.asked = {} /\ Idle.result = "none"
  <2>1. <<>> \in Todos /\ 0 \in 0..MaxRetries
    BY ProvidersAssumption DEF Todos
  <2> QED  BY <2>1 DEF Idle, CallType
<1>2. mid \in CallType /\ mid.at = at /\ mid.op = op /\ mid.asked = {} /\ mid.result = "none"
  BY <1>1 DEF CallType
<1>3. state = [mid EXCEPT !.of = of]
  BY <1>1 DEF CallType
<1> HIDE DEF mid, state
<1>4. /\ state \in CallType /\ state.at = at /\ state.op = op /\ state.of = of
      /\ state.asked = {} /\ state.result = "none"
  BY <1>2, <1>3 DEF CallType
<1> QED  BY <1>4 DEF state, Begun

\* A call to the managers begins at its first step.
LEMMA CallsManagerOK ==
  ASSUME ManagerPart, CallsPart, NEW c \in Client, CallsManager(c), History
  PROVE  ManagerPart' /\ CallsPart'
<1> DEFINE next == Head(plan.calls[c])
           state == [Idle EXCEPT !.op = next.op, !.at = First[next.op], !.of = next.of]
<1>1. /\ call[c].at = "idle" /\ next.op \in Managing /\ Goes(c, state) /\ CallsTyped
      /\ Free(c) /\ Taken(c) /\ UNCHANGED <<managerVars, registered, reported, made>>
  BY DEF CallsManager, Free, At, CallsPart, Unmanaged, Recorded
<1>2. /\ next \in Calls /\ plan' \in Workloads
      /\ plan'.priority = plan.priority /\ plan'.failover = plan.failover
  BY <1>1, NextCall
<1>3. ManagerPart' /\ Grown
  <2>1. ManagerPart' /\ failed' = failed /\ made' = made /\ made \in Seq(Name)
    BY <1>1, ManagerKept DEF managerVars, ManagerPart, ManagerTyped
  <2> QED  BY <1>2, <2>1 DEF Grown
<1>4. /\ next.of \in Name \cup {"none"}
      /\ next.op \in {"register", "unregister"} => next.of \in Name
  BY <1>1, <1>2 DEF Calls, Managing
<1>5. /\ First[next.op] \in {"register", "unregister", "list", "failover", "execute", "check", "start", "stop"}
      /\ First[next.op] \in {"register", "unregister"} => next.op \in {"register", "unregister"}
      /\ First[next.op] = "failover" => next.op = "failover"
      /\ First[next.op] = "execute" => next.op = "execute"
      /\ First[next.op] \notin {"failover", "execute"} => next.op \notin {"failover", "execute"}
  <2>1. /\ First["register"] = "register" /\ First["unregister"] = "unregister"
        /\ First["regcheck"] = "list" /\ First["failover"] = "failover" /\ First["execute"] = "execute"
        /\ First["check"] = "check" /\ First["start"] = "start" /\ First["stop"] = "stop"
    BY DEF First
  <2> DEFINE op == next.op
  <2>2. op \in {"register", "unregister", "regcheck", "failover", "execute", "check", "start", "stop"}
    BY <1>1 DEF Managing
  <2> HIDE DEF op
  <2> QED  BY <2>1, <2>2 DEF op
<1> HIDE DEF next
<1>8. /\ state \in CallType /\ state.at = First[next.op] /\ state.op = next.op /\ state.of = next.of
      /\ state.asked = {} /\ state.result = "none"
  <2> DEFINE op == next.op
             of == next.of
             at == First[next.op]
             begun == Begun(op, at, of)
  <2>1. /\ op \in Managing /\ of \in Name \cup {"none"}
        /\ at \in {"register", "unregister", "list", "failover", "execute", "check", "start", "stop"}
    BY <1>1, <1>4, <1>5
  <2>2. begun = state
    BY DEF Begun
  <2> HIDE DEF op, of, at, state
  <2>3. /\ begun \in CallType /\ begun.at = at /\ begun.op = op /\ begun.of = of
        /\ begun.asked = {} /\ begun.result = "none"
    BY <2>1, FromIdle
  <2> HIDE DEF begun
  <2> QED  BY <2>2, <2>3 DEF op, of, at
<1> HIDE DEF state
<1>9. /\ call' \in [Client -> CallType] /\ call'[c] = state
      /\ \A d \in Client \ {c} : call'[d] = call[d]
  BY <1>1, <1>8, CallUpdate
<1>10. CallOK(c)'
  BY <1>4, <1>5, <1>8, <1>9 DEF CallOK, LabelsOK, RecordsOK, VisitsOK, TriesOK, FailedOK
<1>11. call'[c].at \notin {"visit", "ask", "mark", "next", "try", "backoff"}
  BY <1>5, <1>8, <1>9
<1> QED  BY <1>2, <1>3, <1>9, <1>10, <1>11, OneMoves

\* A call to the embedder leaves the managers alone.
LEMMA OtherCallsOK ==
  ASSUME ManagerPart, CallsPart, NEW c \in Client, CallsEmbedder(c) \/ SetsUp(c), History
  PROVE  ManagerPart' /\ CallsPart'
<1>1. /\ CallsTyped /\ Free(c) /\ Taken(c) /\ call' = call
      /\ UNCHANGED <<managerVars, registered, reported, made>>
  BY DEF CallsEmbedder, SetsUp, CallsPart, Unmanaged, Recorded
<1>2. plan' \in Workloads /\ plan'.priority = plan.priority /\ plan'.failover = plan.failover
  BY <1>1, NextCall
<1>3. ManagerPart' /\ failed' = failed /\ made' = made /\ made \in Seq(Name)
  BY <1>1, ManagerKept DEF managerVars, ManagerPart, ManagerTyped
<1>4. Grown
  BY <1>2, <1>3 DEF Grown
<1> QED  BY <1>1, <1>2, <1>3, <1>4, NoneMoves

\* A call that returns leaves nothing behind.
LEMMA ReturnsOK ==
  ASSUME ManagerPart, CallsPart, NEW c \in Client, Returns(c), History
  PROVE  ManagerPart' /\ CallsPart'
<1>1. /\ CallsTyped /\ plan' = plan /\ plan' \in Workloads
      /\ UNCHANGED <<managerVars, registered, reported, made>>
  BY DEF Returns, CallsPart, CallsTyped, Unmanaged, Recorded
<1>2. ManagerPart' /\ Grown
  BY <1>1, ManagerKept, GrownKept DEF managerVars
<1>3. CASE call' = call
  BY <1>1, <1>2, <1>3, NoneMoves
<1>4. CASE Goes(c, Idle)
  <2>1. /\ Idle \in CallType /\ Idle.at = "idle" /\ Idle.asked = {} /\ Idle.result = "none"
    <3>1. <<>> \in Todos /\ 0 \in 0..MaxRetries
      BY ProvidersAssumption DEF Todos
    <3> QED  BY <3>1 DEF Idle, CallType
  <2>2. /\ call' \in [Client -> CallType] /\ call'[c] = Idle
        /\ \A d \in Client \ {c} : call'[d] = call[d]
    BY <1>1, <1>4, <2>1, CallUpdate
  <2>3. CallOK(c)'
    BY <2>1, <2>2 DEF CallOK, LabelsOK, RecordsOK, VisitsOK, TriesOK, FailedOK
  <2> QED  BY <1>1, <1>2, <2>1, <2>2, <2>3, OneMoves
<1> QED  BY <1>3, <1>4 DEF Returns

-----------------------------------------------------------------------------
\* The goroutine of the checker, and the world.
LEMMA CheckersOK ==
  ASSUME ManagerPart, CallsPart, Ticks \/ CheckerStep \/ Exit
  PROVE  ManagerPart' /\ CallsPart'
<1>1. UNCHANGED <<registered, reported, made, call, plan>> /\ History
  BY DEF Ticks, CheckerStep, Exit
<1>2. /\ checker \in HealthCheckers /\ made \in Seq(Name) /\ plan' \in Workloads
      /\ answering \in SUBSET Instance
  BY <1>1 DEF ManagerPart, ManagerTyped, HealthCheckers, CallsPart, CallsTyped
<1>3. \A n \in Nat : [checker EXCEPT !.waiting = n] \in HealthCheckers
  BY <1>2 DEF HealthCheckers
<1>4. checker.waiting \in Nat /\ (checker.waiting > 0 => checker.waiting - 1 \in Nat)
  <2>1. checker.waiting \in Nat
    BY <1>2 DEF HealthCheckers
  <2> QED  BY <2>1
<1>5. ManagerPart' /\ failed \subseteq failed'
  <2>1. CASE Ticks
    <3>1. /\ CheckBegins(Checker) /\ checker.waiting > 0
          /\ checker' = [checker EXCEPT !.waiting = @ - 1]
      BY <2>1 DEF Ticks, CheckerTicks
    <3>2. checker' \in HealthCheckers
      BY <3>1, <1>3, <1>4
    <3> QED  BY <1>1, <3>1, <3>2, CheckBeginsOK
  <2>2. CASE CheckAsks(Checker)
    BY <1>1, <2>2, CheckAsksOK
  <2>3. CASE CheckerReturns
    <3>1. CheckEnds(Checker) /\ checker' = [checker EXCEPT !.waiting = @ + 1]
      BY <2>3 DEF CheckerReturns
    <3>2. checker' \in HealthCheckers
      BY <3>1, <1>3, <1>4
    <3> QED  BY <1>1, <3>1, <3>2, CheckEndsOK
  <2>4. CASE Exit
    <3>1. /\ checker.waiting > 0 /\ checker' = [checker EXCEPT !.waiting = @ - 1]
          /\ UNCHANGED <<providers, healthy, check, answering, failed>>
      BY <2>4 DEF Exit, CheckerExits
    <3>2. checker' \in HealthCheckers
      BY <3>1, <1>3, <1>4
    <3> QED  BY <1>1, <1>2, <3>1, <3>2, OutsideMoves
  <2> QED  BY <2>1, <2>2, <2>3, <2>4 DEF CheckerStep
<1>6. Grown
  BY <1>1, <1>2, <1>5 DEF Grown
<1> QED  BY <1>1, <1>2, <1>5, <1>6, NoneMoves

\* A provider turns, or something outside the managers does.
LEMMA WorldOK ==
  ASSUME ManagerPart, CallsPart, World
  PROVE  ManagerPart' /\ CallsPart'
<1>1. UNCHANGED <<registered, reported, made, call>> /\ History
  BY DEF World
<1>2. /\ plan \in Workloads /\ made \in Seq(Name)
      /\ checker \in HealthCheckers /\ answering \in SUBSET Instance
  BY DEF CallsPart, CallsTyped, ManagerPart, ManagerTyped, HealthCheckers
<1>3. plan' \in Workloads /\ plan'.priority = plan.priority /\ plan'.failover = plan.failover
  BY <1>2, PlanLess DEF World
<1>4. ManagerPart' /\ failed' = failed
  <2>1. CASE UNCHANGED managerVars
    BY <1>1, <2>1, ManagerKept DEF managerVars
  <2>2. CASE \E i \in DOMAIN made : Turns(i)
    <3>1. PICK i \in DOMAIN made : Turns(i)
      BY <2>2
    <3>2. i \in Instance
      BY <3>1, MadeIs DEF ManagerPart
    <3>3. /\ answering' \in SUBSET Instance
          /\ UNCHANGED <<providers, healthy, check, checker, failed>>
      BY <1>2, <3>1, <3>2 DEF Turns
    <3> QED  BY <1>1, <1>2, <3>3, OutsideMoves
  <2> QED  BY <2>1, <2>2 DEF World, Unmanaged
<1>5. Grown
  BY <1>1, <1>2, <1>3, <1>4 DEF Grown
<1> QED  BY <1>1, <1>3, <1>4, <1>5, NoneMoves

-----------------------------------------------------------------------------
\* What the embedder does leaves the managers as they are.
LEMMA EmbedderAside ==
  ASSUME ManagerPart, CallsPart, History,
         UNCHANGED <<call, plan, managerVars, registered, reported, made>>
  PROVE  ManagerPart' /\ CallsPart'
<1>1. plan' \in Workloads
  BY DEF CallsPart, CallsTyped
<1>2. ManagerPart' /\ Grown
  BY ManagerKept, GrownKept DEF managerVars
<1> QED  BY <1>1, <1>2, NoneMoves

\* A stutter.
LEMMA NothingMoves ==
  ASSUME ManagerPart, CallsPart, UNCHANGED vars
  PROVE  ManagerPart' /\ CallsPart'
<1>1. UNCHANGED <<managerVars, registered, reported, made, call, plan, steady>>
  BY DEF vars
<1>2. ManagerPart' /\ Grown
  BY <1>1, ManagerKept, GrownKept DEF managerVars
<1>3. CallsTyped /\ CallsTyped' /\ made \in Seq(Name)
  BY <1>1 DEF CallsPart, CallsTyped, ManagerPart, ManagerTyped
<1>4. ASSUME NEW d \in Client
      PROVE  CallOK(d)' /\ SteadyOK(d)'
  <2>1. CallOK(d) /\ call'[d] = call[d] /\ steady'[d] = steady[d]
    BY <1>1 DEF CallsPart
  <2>2. CallOK(d)'
    BY <1>2, <1>3, <2>1, OthersKept
  <2>3. SteadyOK(d)'
    <3>1. SteadyOK(d)
      BY DEF CallsPart
    <3> QED  BY <3>1, <1>1 DEF SteadyOK, Usables, Entries, managerVars
  <2> QED  BY <2>2, <2>3
<1> QED  BY <1>2, <1>3, <1>4 DEF CallsPart

\* Every step keeps the managers and their calls sound.
LEMMA ManagersKept ==
  ASSUME ManagerPart, CallsPart, [Next]_vars
  PROVE  ManagerPart' /\ CallsPart'
<1>1. CASE UNCHANGED vars
  BY <1>1, NothingMoves
<1>2. ASSUME NEW c \in Client, ClientStep(c)
      PROVE  ManagerPart' /\ CallsPart'
  <2>1. History /\ plan \in Workloads
    BY <1>2 DEF ClientStep, CallsPart, CallsTyped
  <2>2. CASE CallsManager(c)
    BY <2>1, <2>2, CallsManagerOK
  <2>3. CASE CallsEmbedder(c) \/ SetsUp(c)
    BY <2>1, <2>3, OtherCallsOK
  <2>4. CASE Returns(c)
    BY <2>1, <2>4, ReturnsOK
  <2>5. CASE /\ \/ Registers(c) \/ Unregisters(c) \/ Lists(c) \/ AsksHealth(c) \/ Records(c)
                \/ BeginsFailover(c) \/ AsksOnce(c) \/ Visits(c) \/ Asks(c) \/ Marks(c)
                \/ BeginsExecute(c) \/ LooksUpNext(c) \/ Tries(c) \/ BacksOff(c)
                \/ Checks(c) \/ StartsChecks(c) \/ StopsChecks(c)
             /\ UNCHANGED plan
    <3>1. StepOK(c)
      BY <2>1, <2>5, RegistersOK, UnregistersOK, ListsOK, AsksHealthOK, RecordsStepOK, BeginsFailoverOK,
         AsksOnceOK, VisitsStepOK, AsksOK, MarksOK, BeginsExecuteOK, LooksUpNextOK, TriesStepOK, BacksOffOK,
         ChecksOK, StartsChecksOK, StopsChecksOK
    <3> QED  BY <2>1, <2>5, <3>1, StepsFollow
  <2>6. CASE EmbedderStep(c) /\ UNCHANGED <<call, plan>> /\ Unmanaged /\ Recorded
    BY <2>1, <2>6, EmbedderAside DEF Unmanaged, Recorded
  <2> QED  BY <1>2, <2>2, <2>3, <2>4, <2>5, <2>6 DEF ClientStep
<1>3. ASSUME NEW c \in Client, Cancels(c)
      PROVE  ManagerPart' /\ CallsPart'
  BY <1>3, CancelsOK, StepsFollow DEF Cancels
<1>4. CASE Ticks \/ CheckerStep \/ Exit
  BY <1>4, CheckersOK
<1>5. CASE World
  BY <1>5, WorldOK
<1> QED  BY <1>1, <1>2, <1>3, <1>4, <1>5 DEF Next, Done

-----------------------------------------------------------------------------
\* The embedder.  An embedding more: in the cache, in the result.
LEMMA CacheWith ==
  ASSUME NEW f \in Partial(Text, Embedding), NEW x \in Text, NEW v \in Embedding
  PROVE  /\ With(f, x, v) \in Partial(Text, Embedding) /\ DOMAIN With(f, x, v) = DOMAIN f \cup {x}
         /\ With(f, x, v)[x] = v
         /\ \A y \in DOMAIN f : y # x => With(f, x, v)[y] = f[y]
<1>1. PICK S \in SUBSET Text : f \in [S -> Embedding]
  BY DEF Partial
<1>2. With(f, x, v) \in [S \cup {x} -> Embedding]
  BY <1>1 DEF With
<1>3. S \cup {x} \in SUBSET Text
  BY <1>1
<1> QED  BY <1>1, <1>2, <1>3 DEF With, Partial

\* The same of what a request has got.
LEMMA GotWith ==
  ASSUME NEW f \in Partial(Nat, Embedding), NEW x \in Nat, NEW v \in Embedding
  PROVE  /\ With(f, x, v) \in Partial(Nat, Embedding) /\ DOMAIN With(f, x, v) = DOMAIN f \cup {x}
         /\ With(f, x, v)[x] = v
         /\ \A y \in DOMAIN f : y # x => With(f, x, v)[y] = f[y]
<1>1. PICK S \in SUBSET Nat : f \in [S -> Embedding]
  BY DEF Partial
<1>2. With(f, x, v) \in [S \cup {x} -> Embedding]
  BY <1>1 DEF With
<1>3. S \cup {x} \in SUBSET Nat
  BY <1>1
<1> QED  BY <1>1, <1>2, <1>3 DEF With, Partial

\* The values of such a function.
LEMMA PartialIs ==
  ASSUME NEW D, NEW R, NEW f \in Partial(D, R)
  PROVE  DOMAIN f \subseteq D /\ \A x \in DOMAIN f : f[x] \in R
BY DEF Partial

\* What any step does: embedders and fallbacks add up.
EmbeddersGrow ==
  /\ embedders \subseteq embedders' /\ embedders' \in SUBSET Embedder
  /\ primary' \in Embedder
  /\ fallbacks' \in Seq(Embedder) /\ ToSet(fallbacks) \subseteq ToSet(fallbacks')
  /\ reachable' \in SUBSET Embedder

\* A step that leaves the configuration alone.
LEMMA EmbeddersStay ==
  ASSUME EmbedderTyped, UNCHANGED <<embedders, primary, fallbacks, reachable>>
  PROVE  EmbeddersGrow
BY DEF EmbedderTyped, EmbeddersGrow

\* An embedder that lasts did so before, and can be reached before and now.
LEMMA Lasts ==
  ASSUME EmbedderTyped, History
  PROVE  /\ lasting' \in [Client -> SUBSET Embedder]
         /\ \A d \in Client :
              request'[d].at # "idle" =>
                /\ lasting'[d] \subseteq lasting[d]
                /\ lasting'[d] \subseteq Reachables' /\ lasting'[d] \subseteq Reachables
<1>1. \A d \in Client :
        lasting'[d] = IF request'[d].at = "idle" THEN Embedder
                      ELSE lasting[d] \cap Reachables' \cap Reachables
  BY DEF History
<1>2. \A d \in Client : lasting'[d] \subseteq Embedder
  BY <1>1 DEF EmbedderTyped
<1>3. lasting' \in [Client -> SUBSET Embedder]
  BY <1>2 DEF History
<1> QED  BY <1>1, <1>3

\* The request of a client that does not move stays sound.
LEMMA RequestKept ==
  ASSUME EmbedderTyped, History, EmbeddersGrow, NEW d \in Client, RequestOK(d), request'[d] = request[d]
  PROVE  RequestOK(d)'
<1>1. GotOK(d)' /\ LeftOK(d)'
  BY DEF RequestOK, GotOK, LeftOK, EmbeddersGrow
<1>2. LastingOK(d)'
  <2>1. SUFFICES ASSUME request[d].at # "idle"
                 PROVE  LastingOK(d)'
    BY DEF LastingOK
  <2>2. lasting'[d] \subseteq lasting[d] /\ lasting'[d] \subseteq Reachables'
    BY <2>1, Lasts
  <2> QED  BY <2>1, <2>2 DEF RequestOK, LastingOK, EmbeddersGrow
<1> QED  BY <1>1, <1>2 DEF RequestOK

\* A request becomes another.
LEMMA RequestUpdate ==
  ASSUME EmbedderTyped, NEW c \in Client, NEW state \in RequestType, Becomes(c, state)
  PROVE  /\ request' \in [Client -> RequestType] /\ request'[c] = state
         /\ \A d \in Client \ {c} : request'[d] = request[d]
BY DEF EmbedderTyped, Becomes

\* The other requests stay sound when one moves.
LEMMA OneRequestMoves ==
  ASSUME EmbedderPart, History, EmbeddersGrow, cache' \in Partial(Text, Embedding), CacheOK',
         NEW c \in Client, NEW state \in RequestType, Becomes(c, state), RequestOK(c)'
  PROVE  EmbedderPart'
<1>1. EmbedderTyped
  BY DEF EmbedderPart
<1>2. /\ request' \in [Client -> RequestType]
      /\ \A d \in Client \ {c} : request'[d] = request[d]
  BY <1>1, RequestUpdate
<1>3. EmbedderTyped'
  BY <1>1, <1>2, Lasts DEF EmbedderTyped, EmbeddersGrow
<1>4. \A d \in Client \ {c} : RequestOK(d)'
  BY <1>1, <1>2, RequestKept DEF EmbedderPart
<1> QED  BY <1>3, <1>4 DEF EmbedderPart

\* All do when none moves.
LEMMA NoRequestMoves ==
  ASSUME EmbedderPart, History, EmbeddersGrow, cache' \in Partial(Text, Embedding), CacheOK', request' = request
  PROVE  EmbedderPart'
<1>1. EmbedderTyped
  BY DEF EmbedderPart
<1>2. EmbedderTyped'
  BY <1>1, Lasts DEF EmbedderTyped, EmbeddersGrow
<1>3. \A d \in Client : RequestOK(d)'
  BY <1>1, RequestKept DEF EmbedderPart
<1> QED  BY <1>2, <1>3 DEF EmbedderPart

\* A cache that stays is of its texts.
LEMMA CacheStays ==
  ASSUME EmbedderPart, cache' = cache, embedders' = embedders
  PROVE  cache' \in Partial(Text, Embedding) /\ CacheOK'
BY DEF EmbedderPart, EmbedderTyped, CacheOK

\* What is cached is of its text.
LEMMA CacheGrows ==
  ASSUME EmbedderPart, NEW t \in Text, NEW v \in Embedding, v.of = t, v.by \in embedders,
         cache' = With(cache, t, v), embedders' = embedders
  PROVE  cache' \in Partial(Text, Embedding) /\ CacheOK'
<1>1. cache \in Partial(Text, Embedding) /\ CacheOK
  BY DEF EmbedderPart, EmbedderTyped
<1>2. /\ cache' \in Partial(Text, Embedding) /\ DOMAIN cache' = DOMAIN cache \cup {t}
      /\ cache'[t] = v /\ \A u \in DOMAIN cache : u # t => cache'[u] = cache[u]
  <2> DEFINE more == With(cache, t, v)
  <2>1. /\ more \in Partial(Text, Embedding) /\ DOMAIN more = DOMAIN cache \cup {t}
        /\ more[t] = v /\ \A u \in DOMAIN cache : u # t => more[u] = cache[u]
    BY <1>1, CacheWith
  <2> HIDE DEF more
  <2>2. cache' = more
    BY DEF more
  <2> QED  BY <2>1, <2>2
<1> QED  BY <1>1, <1>2 DEF CacheOK

-----------------------------------------------------------------------------
\* A request on its way has a text at hand and no error.
LEMMA InRequest ==
  ASSUME EmbedderPart, NEW c \in Client
  PROVE  /\ request[c] \in RequestType /\ EmbedderTyped /\ GotOK(c) /\ LeftOK(c) /\ LastingOK(c)
         /\ request[c].at # "return" => request[c].error = "none"
         /\ request[c].at \in {"lookup", "primary", "fallbacks", "try", "keep", "scan"} =>
              request[c].one \in DOMAIN request[c].texts /\ TheText(c) \in Text
<1>1. request[c] \in RequestType /\ EmbedderTyped /\ GotOK(c) /\ LeftOK(c) /\ LastingOK(c)
  BY DEF EmbedderPart, EmbedderTyped, RequestOK
<1>2. request[c].texts \in Seq(Text)
  BY <1>1 DEF RequestType
<1> QED  BY <1>1, <1>2 DEF LeftOK, TheText

\* A request becomes one that is sound, and the rest stays.
LEMMA RequestMoves ==
  ASSUME EmbedderPart, History, Settled, cache' \in Partial(Text, Embedding), CacheOK',
         NEW c \in Client, NEW state \in RequestType, Becomes(c, state),
         request'[c] = state => GotOK(c)' /\ LeftOK(c)' /\ LastingOK(c)'
  PROVE  EmbedderPart'
<1>1. EmbedderTyped /\ EmbeddersGrow
  BY EmbeddersStay DEF EmbedderPart, Settled
<1>2. request'[c] = state
  BY <1>1, RequestUpdate
<1>3. RequestOK(c)'
  BY <1>2 DEF RequestOK
<1> QED  BY <1>1, <1>3, OneRequestMoves

\* On to the text that comes next, or to the end.
LEMMA NextTextIs ==
  ASSUME NEW r \in RequestType
  PROVE  LET state == NextText(r)
             left == IF r.left = <<>> THEN <<>> ELSE Tail(r.left)
         IN  /\ state \in RequestType /\ state.left = left /\ state.texts = r.texts /\ state.got = r.got
             /\ state.by = r.by /\ state.error = r.error /\ state.tries = r.tries
             /\ left = <<>> => state.at = "return"
             /\ left # <<>> => state.at = "lookup" /\ state.one = Head(left)
<1> DEFINE state == NextText(r)
           left == IF r.left = <<>> THEN <<>> ELSE Tail(r.left)
           mid == [r EXCEPT !.left = left]
<1>1. left \in Seq(Nat) /\ (left # <<>> => Head(left) \in Nat)
  <2>1. r.left \in Seq(Nat)
    BY DEF RequestType
  <2>2. left \in Seq(Nat)
    BY <2>1
  <2> HIDE DEF left
  <2> QED  BY <2>2
<1>2. state = IF left = <<>> THEN [r EXCEPT !.left = left, !.at = "return"]
              ELSE [r EXCEPT !.left = left, !.one = Head(left), !.at = "lookup"]
  BY DEF NextText
<1> HIDE DEF left, state
<1>3. /\ mid \in RequestType /\ mid.left = left /\ mid.texts = r.texts /\ mid.got = r.got
      /\ mid.by = r.by /\ mid.error = r.error /\ mid.tries = r.tries
  BY <1>1 DEF RequestType
<1>4. /\ [r EXCEPT !.left = left, !.at = "return"] = [mid EXCEPT !.at = "return"]
      /\ [r EXCEPT !.left = left, !.one = Head(left), !.at = "lookup"]
           = [mid EXCEPT !.one = Head(left), !.at = "lookup"]
  BY DEF RequestType
<1> HIDE DEF mid
<1>5. CASE left = <<>>
  <2>1. state = [mid EXCEPT !.at = "return"]
    BY <1>2, <1>4, <1>5
  <2>2. /\ state \in RequestType /\ state.left = left /\ state.texts = r.texts /\ state.got = r.got
        /\ state.by = r.by /\ state.error = r.error /\ state.tries = r.tries /\ state.at = "return"
    BY <1>3, <2>1 DEF RequestType
  <2> QED  BY <1>5, <2>2 DEF state, left
<1>6. CASE left # <<>>
  <2>1. state = [mid EXCEPT !.one = Head(left), !.at = "lookup"]
    BY <1>2, <1>4, <1>6
  <2>2. /\ state \in RequestType /\ state.left = left /\ state.texts = r.texts /\ state.got = r.got
        /\ state.by = r.by /\ state.error = r.error /\ state.tries = r.tries
        /\ state.at = "lookup" /\ state.one = Head(left)
    BY <1>1, <1>3, <1>6, <2>1 DEF RequestType
  <2> QED  BY <1>6, <2>2 DEF state, left
<1> QED  BY <1>5, <1>6

\* The text at hand has its embedding, and the call goes on to the next one.
LEMMA GoesOnOK ==
  ASSUME EmbedderPart, History, Settled, cache' \in Partial(Text, Embedding), CacheOK',
         NEW c \in Client, request[c].at \in {"lookup", "keep"},
         NEW v \in Embedding, v.of = TheText(c), v.by \in embedders,
         Becomes(c, NextText(Got(c, request[c].one, v)))
  PROVE  EmbedderPart'
<1> DEFINE k == request[c].one
           more == Got(c, k, v)
           left == IF more.left = <<>> THEN <<>> ELSE Tail(more.left)
           state == NextText(more)
<1>1. /\ request[c] \in RequestType /\ EmbedderTyped /\ GotOK(c) /\ LeftOK(c)
      /\ request[c].error = "none" /\ k \in DOMAIN request[c].texts /\ k \in Nat
  BY InRequest DEF RequestType
<1>2. request[c].got \in Partial(Nat, Embedding) /\ request[c].left \in Seq(Nat)
  BY <1>1 DEF RequestType
<1> DEFINE got == With(request[c].got, k, v)
<1>3. /\ got \in Partial(Nat, Embedding) /\ DOMAIN got = DOMAIN request[c].got \cup {k}
      /\ got[k] = v /\ \A y \in DOMAIN request[c].got : y # k => got[y] = request[c].got[y]
  BY <1>1, <1>2, GotWith
<1>4. more = [request[c] EXCEPT !.got = got]
  BY DEF Got
<1>5. Becomes(c, state)
  OBVIOUS
<1> HIDE DEF got, more, k
<1>6. /\ more \in RequestType /\ more.got = got /\ more.left = request[c].left
      /\ more.texts = request[c].texts /\ more.error = "none" /\ more.by = request[c].by
  BY <1>1, <1>3, <1>4 DEF RequestType
<1>7. /\ state \in RequestType /\ state.left = left /\ state.texts = request[c].texts /\ state.got = got
      /\ state.error = "none"
      /\ left = <<>> => state.at = "return"
      /\ left # <<>> => state.at = "lookup" /\ state.one = Head(left)
  BY <1>6, NextTextIs
<1> HIDE DEF state
<1>8. /\ \A x \in ToSet(request[c].left) : x = k \/ x \in ToSet(left)
      /\ ToSet(left) \subseteq ToSet(request[c].left)
      /\ left # <<>> => Head(left) \in ToSet(left)
  <2>1. CASE request[c].left = <<>>
    BY <1>6, <2>1 DEF ToSet
  <2>2. CASE request[c].left # <<>>
    <3>1. left = Tail(request[c].left) /\ Head(request[c].left) = k
      BY <1>1, <1>6, <2>2 DEF LeftOK, k
    <3> DEFINE rest == Tail(request[c].left)
    <3>4. /\ rest \in Seq(Nat) /\ \A x \in ToSet(request[c].left) : x = Head(request[c].left) \/ x \in ToSet(rest)
          /\ \A m \in DOMAIN rest : m + 1 \in DOMAIN request[c].left /\ rest[m] = request[c].left[m + 1]
      BY <1>2, <2>2, TailIs
    <3> HIDE DEF rest
    <3>2. /\ left \in Seq(Nat) /\ \A x \in ToSet(request[c].left) : x = k \/ x \in ToSet(left)
          /\ \A m \in DOMAIN left : m + 1 \in DOMAIN request[c].left /\ left[m] = request[c].left[m + 1]
      <4>1. left = rest
        BY <3>1 DEF rest
      <4> HIDE DEF left
      <4> QED  BY <3>1, <3>4, <4>1
    <3> HIDE DEF left
    <3>3. left # <<>> => Head(left) \in ToSet(left)
      BY <3>2, TailIs DEF ToSet
    <3> QED  BY <3>2, <3>3 DEF ToSet
  <2> QED  BY <2>1, <2>2
<1> HIDE DEF left
<1>9. SUFFICES ASSUME request'[c] = state
               PROVE  GotOK(c)' /\ LeftOK(c)' /\ LastingOK(c)'
  BY <1>5, <1>7, RequestMoves
<1>10. GotOK(c)'
  BY <1>1, <1>3, <1>7, <1>9 DEF GotOK, Settled, TheText, k
<1>11. LeftOK(c)'
  <2>1. \A j \in DOMAIN request[c].texts : j \in DOMAIN got \/ j \in ToSet(left)
    BY <1>1, <1>3, <1>8 DEF LeftOK, k
  <2>2. ToSet(left) \subseteq DOMAIN request[c].texts
    BY <1>1, <1>8 DEF LeftOK
  <2>3. left = <<>> => ToSet(left) = {}
    BY DEF ToSet
  <2> QED  BY <1>7, <1>8, <1>9, <2>1, <2>2, <2>3 DEF LeftOK
<1>12. LastingOK(c)'
  <2>1. state.at \in {"return", "lookup"}
    BY <1>7
  <2> QED  BY <1>1, <1>7, <1>9, <2>1, Lasts DEF LastingOK
<1> QED  BY <1>10, <1>11, <1>12

-----------------------------------------------------------------------------
\* The steps of GenerateEmbedding.
LEMMA LooksOK ==
  ASSUME EmbedderPart, History, NEW c \in Client, Looks(c)
  PROVE  EmbedderPart'
<1>1. /\ request[c].at = "lookup" /\ Settled /\ cache' = cache /\ TheText(c) \in Text
      /\ request[c] \in RequestType /\ GotOK(c) /\ LeftOK(c) /\ LastingOK(c) /\ EmbedderTyped
      /\ request[c].error = "none"
  BY InRequest DEF Looks, Is
<1>2. cache' \in Partial(Text, Embedding) /\ CacheOK'
  BY <1>1, CacheStays DEF Settled
<1>3. CASE TheText(c) \in DOMAIN cache
  <2> DEFINE v == cache[TheText(c)]
  <2>1. v \in Embedding /\ v.of = TheText(c) /\ v.by \in embedders
    <3>1. cache \in Partial(Text, Embedding) /\ CacheOK
      BY DEF EmbedderPart, EmbedderTyped
    <3> QED  BY <1>3, <3>1, PartialIs DEF CacheOK
  <2>2. Becomes(c, NextText(Got(c, request[c].one, v)))
    BY <1>3 DEF Looks
  <2> HIDE DEF v
  <2> QED  BY <1>1, <1>2, <2>1, <2>2, GoesOnOK
<1>4. CASE TheText(c) \notin DOMAIN cache
  <2> DEFINE state == [request[c] EXCEPT !.at = "primary"]
  <2>1. Becomes(c, state)
    BY <1>4 DEF Looks
  <2>2. /\ state \in RequestType /\ state.at = "primary" /\ state.error = "none"
        /\ state.texts = request[c].texts /\ state.got = request[c].got
        /\ state.left = request[c].left /\ state.one = request[c].one
    BY <1>1 DEF RequestType
  <2> HIDE DEF state
  <2>3. SUFFICES ASSUME request'[c] = state
                 PROVE  GotOK(c)' /\ LeftOK(c)' /\ LastingOK(c)'
    BY <1>1, <1>2, <2>1, <2>2, RequestMoves
  <2>4. GotOK(c)' /\ LeftOK(c)'
    BY <1>1, <2>2, <2>3 DEF GotOK, LeftOK, Settled
  <2>5. LastingOK(c)'
    BY <1>1, <2>2, <2>3, Lasts DEF LastingOK
  <2> QED  BY <2>4, <2>5
<1> QED  BY <1>3, <1>4

\* A primary that cannot be used is not among those that last.
LEMMA AsksPrimaryOK ==
  ASSUME EmbedderPart, History, NEW c \in Client, AsksPrimary(c)
  PROVE  EmbedderPart'
<1>1. /\ request[c].at = "primary" /\ Settled /\ cache' = cache
      /\ request[c] \in RequestType /\ GotOK(c) /\ LeftOK(c) /\ LastingOK(c) /\ EmbedderTyped
      /\ request[c].error = "none" /\ primary \in Embedder
  BY InRequest DEF AsksPrimary, Is, EmbedderTyped
<1>2. cache' \in Partial(Text, Embedding) /\ CacheOK'
  BY <1>1, CacheStays DEF Settled
<1> DEFINE state == IF Usable(primary) THEN [request[c] EXCEPT !.by = primary, !.at = "keep"]
                    ELSE [request[c] EXCEPT !.at = "fallbacks"]
<1>3. Becomes(c, state)
  BY DEF AsksPrimary
<1>4. /\ state \in RequestType /\ state.error = "none"
      /\ state.texts = request[c].texts /\ state.got = request[c].got
      /\ state.left = request[c].left /\ state.one = request[c].one
      /\ Usable(primary) => state.at = "keep" /\ state.by = primary
      /\ ~Usable(primary) => state.at = "fallbacks"
  BY <1>1 DEF RequestType
<1> HIDE DEF state
<1>5. SUFFICES ASSUME request'[c] = state
               PROVE  GotOK(c)' /\ LeftOK(c)' /\ LastingOK(c)'
  BY <1>1, <1>2, <1>3, <1>4, RequestMoves
<1>6. state.at \in {"keep", "fallbacks"}
  BY <1>4
<1>7. GotOK(c)'
  BY <1>1, <1>4, <1>5 DEF GotOK, Settled
<1>8. LeftOK(c)'
  <2>1. state.at = "keep" => state.by \in embedders
    BY <1>4 DEF Usable
  <2> QED  BY <1>1, <1>4, <1>5, <1>6, <2>1 DEF LeftOK, Settled
<1>9. LastingOK(c)'
  <2>1. lasting'[c] \subseteq Reachables /\ lasting'[c] \subseteq Reachables'
    BY <1>1, <1>5, <1>6, Lasts
  <2>2. ~Usable(primary) => Reachables \subseteq ToSet(fallbacks)
    BY DEF Reachables, Configured, Usable
  <2> QED  BY <1>1, <1>4, <1>5, <1>6, <2>1, <2>2 DEF LastingOK, Settled
<1> QED  BY <1>7, <1>8, <1>9

\* All fallbacks of this moment are to be tried.
LEMMA ReadsFallbacksOK ==
  ASSUME EmbedderPart, History, NEW c \in Client, ReadsFallbacks(c)
  PROVE  EmbedderPart'
<1>1. /\ request[c].at = "fallbacks" /\ Settled /\ cache' = cache
      /\ request[c] \in RequestType /\ GotOK(c) /\ LeftOK(c) /\ LastingOK(c) /\ EmbedderTyped
      /\ request[c].error = "none" /\ fallbacks \in Seq(Embedder)
  BY InRequest DEF ReadsFallbacks, Is, EmbedderTyped
<1>2. cache' \in Partial(Text, Embedding) /\ CacheOK'
  BY <1>1, CacheStays DEF Settled
<1> DEFINE state == [request[c] EXCEPT !.tries = fallbacks, !.at = "try"]
<1>3. Becomes(c, state)
  BY DEF ReadsFallbacks
<1>4. /\ state \in RequestType /\ state.error = "none" /\ state.at = "try"
      /\ state.texts = request[c].texts /\ state.got = request[c].got
      /\ state.left = request[c].left /\ state.one = request[c].one /\ state.tries = fallbacks
  BY <1>1 DEF RequestType
<1> HIDE DEF state
<1>5. SUFFICES ASSUME request'[c] = state
               PROVE  GotOK(c)' /\ LeftOK(c)' /\ LastingOK(c)'
  BY <1>1, <1>2, <1>3, <1>4, RequestMoves
<1>6. GotOK(c)' /\ LeftOK(c)'
  BY <1>1, <1>4, <1>5 DEF GotOK, LeftOK, Settled
<1>7. LastingOK(c)'
  BY <1>1, <1>4, <1>5, Lasts DEF LastingOK
<1> QED  BY <1>6, <1>7

\* When no fallback is left to try, none could be reached all along.
LEMMA TriesFallbackOK ==
  ASSUME EmbedderPart, History, NEW c \in Client, TriesFallback(c)
  PROVE  EmbedderPart'
<1> DEFINE tries == request[c].tries
           p == Head(tries)
<1>1. /\ request[c].at = "try" /\ Settled /\ cache' = cache
      /\ request[c] \in RequestType /\ GotOK(c) /\ LeftOK(c) /\ LastingOK(c) /\ EmbedderTyped
      /\ request[c].error = "none" /\ lasting[c] \subseteq ToSet(tries)
  BY InRequest DEF TriesFallback, Is, LastingOK
<1>2. cache' \in Partial(Text, Embedding) /\ CacheOK'
  BY <1>1, CacheStays DEF Settled
<1>3. tries \in Seq(Embedder)
  BY <1>1 DEF RequestType
<1>4. CASE tries = <<>>
  <2> DEFINE state == [request[c] EXCEPT !.error = "all failed", !.at = "return"]
  <2>1. Becomes(c, state)
    BY <1>4 DEF TriesFallback
  <2>2. /\ state \in RequestType /\ state.at = "return" /\ state.error = "all failed"
        /\ state.texts = request[c].texts /\ state.got = request[c].got
        /\ state.left = request[c].left
    BY <1>1 DEF RequestType
  <2> HIDE DEF state
  <2>3. SUFFICES ASSUME request'[c] = state
                 PROVE  GotOK(c)' /\ LeftOK(c)' /\ LastingOK(c)'
    BY <1>1, <1>2, <2>1, <2>2, RequestMoves
  <2>4. GotOK(c)' /\ LeftOK(c)'
    BY <1>1, <2>2, <2>3 DEF GotOK, LeftOK, Settled
  <2>5. lasting[c] = {}
    BY <1>1, <1>4 DEF ToSet
  <2>6. LastingOK(c)'
    BY <1>1, <2>2, <2>3, <2>5, Lasts DEF LastingOK
  <2> QED  BY <2>4, <2>6
<1>5. CASE tries # <<>> /\ Usable(p)
  <2> DEFINE mid == [request[c] EXCEPT !.by = p, !.at = "keep"]
             state == [request[c] EXCEPT !.by = p, !.tries = <<>>, !.at = "keep"]
  <2>1. Becomes(c, state)
    BY <1>5 DEF TriesFallback
  <2>2. p \in Embedder
    BY <1>3, <1>5
  <2> HIDE DEF p
  <2>3. /\ mid \in RequestType /\ mid.error = "none" /\ mid.by = p /\ mid.at = "keep"
        /\ mid.texts = request[c].texts /\ mid.got = request[c].got
        /\ mid.left = request[c].left /\ mid.one = request[c].one
    BY <1>1, <2>2 DEF RequestType
  <2>9. <<>> \in Seq(Embedder)
    OBVIOUS
  <2>4. state = [mid EXCEPT !.tries = <<>>]
    BY <1>1 DEF RequestType
  <2> HIDE DEF mid, state
  <2>5. /\ state \in RequestType /\ state.at = "keep" /\ state.error = "none" /\ state.by = p
        /\ state.texts = request[c].texts /\ state.got = request[c].got
        /\ state.left = request[c].left /\ state.one = request[c].one
    BY <2>3, <2>4, <2>9 DEF RequestType
  <2>6. SUFFICES ASSUME request'[c] = state
                 PROVE  GotOK(c)' /\ LeftOK(c)' /\ LastingOK(c)'
    BY <1>1, <1>2, <2>1, <2>5, RequestMoves DEF state, p
  <2>7. GotOK(c)' /\ LeftOK(c)'
    BY <1>1, <1>5, <2>5, <2>6 DEF GotOK, LeftOK, Settled, Usable
  <2>8. LastingOK(c)'
    BY <1>1, <2>5, <2>6, Lasts DEF LastingOK
  <2> QED  BY <2>7, <2>8
<1>6. CASE tries # <<>> /\ ~Usable(p)
  <2> DEFINE rest == Tail(tries)
             state == [request[c] EXCEPT !.tries = Tail(@)]
  <2>1. Becomes(c, state)
    BY <1>6 DEF TriesFallback
  <2>2. rest \in Seq(Embedder) /\ \A x \in ToSet(tries) : x = p \/ x \in ToSet(rest)
    BY <1>3, <1>6, TailIs
  <2>3. state = [request[c] EXCEPT !.tries = rest]
    BY <1>1 DEF RequestType
  <2> HIDE DEF rest, state
  <2>4. /\ state \in RequestType /\ state.at = "try" /\ state.error = "none" /\ state.tries = rest
        /\ state.texts = request[c].texts /\ state.got = request[c].got
        /\ state.left = request[c].left /\ state.one = request[c].one
    BY <1>1, <2>2, <2>3 DEF RequestType
  <2>5. SUFFICES ASSUME request'[c] = state
                 PROVE  GotOK(c)' /\ LeftOK(c)' /\ LastingOK(c)'
    BY <1>1, <1>2, <2>1, <2>4, RequestMoves
  <2>6. GotOK(c)' /\ LeftOK(c)'
    BY <1>1, <2>4, <2>5 DEF GotOK, LeftOK, Settled
  <2>7. lasting'[c] \subseteq lasting[c] /\ lasting'[c] \subseteq Reachables /\ lasting'[c] \subseteq Reachables'
    BY <1>1, <2>4, <2>5, Lasts
  <2>8. p \notin Reachables
    BY <1>6 DEF Reachables, Usable
  <2>9. lasting'[c] \subseteq ToSet(rest)
    BY <1>1, <2>2, <2>7, <2>8
  <2> QED  BY <2>4, <2>5, <2>6, <2>7, <2>9 DEF LastingOK
<1> QED  BY <1>4, <1>5, <1>6

\* The embedding that was made is kept for its text.
LEMMA KeepsOK ==
  ASSUME EmbedderPart, History, NEW c \in Client, Keeps(c)
  PROVE  EmbedderPart'
<1> DEFINE v == [of |-> TheText(c), by |-> request[c].by]
<1>1. /\ request[c].at = "keep" /\ Settled /\ TheText(c) \in Text /\ LeftOK(c) /\ EmbedderTyped
      /\ cache' = With(cache, TheText(c), v) /\ Becomes(c, NextText(Got(c, request[c].one, v)))
  BY InRequest DEF Keeps, Is
<1>2. request[c].by \in embedders /\ request[c].by \in Embedder
  BY <1>1 DEF LeftOK, EmbedderTyped
<1>3. v \in Embedding /\ v.of = TheText(c) /\ v.by \in embedders
  BY <1>1, <1>2 DEF Embedding
<1> HIDE DEF v
<1>4. cache' \in Partial(Text, Embedding) /\ CacheOK'
  BY <1>1, <1>3, CacheGrows DEF Settled
<1> QED  BY <1>1, <1>3, <1>4, GoesOnOK

-----------------------------------------------------------------------------
\* What is left without the first, and with one more.
LEMMA RestOf ==
  ASSUME NEW s \in Seq(Nat), s # <<>>
  PROVE  /\ Head(s) \in Nat /\ Head(s) \in ToSet(s) /\ Tail(s) \in Seq(Nat)
         /\ ToSet(Tail(s)) \subseteq ToSet(s)
         /\ \A x \in ToSet(s) : x = Head(s) \/ x \in ToSet(Tail(s))
<1>1. /\ 1 \in DOMAIN s /\ Head(s) = s[1] /\ Head(s) \in Nat /\ Tail(s) \in Seq(Nat)
      /\ \A k \in DOMAIN Tail(s) : k + 1 \in DOMAIN s /\ Tail(s)[k] = s[k + 1]
      /\ \A x \in ToSet(s) : x = Head(s) \/ x \in ToSet(Tail(s))
  BY TailIs
<1> QED  BY <1>1 DEF ToSet

\* The list with one index more.
LEMMA OneMore ==
  ASSUME NEW s \in Seq(Nat), NEW k \in Nat
  PROVE  Append(s, k) \in Seq(Nat) /\ ToSet(Append(s, k)) = ToSet(s) \cup {k}
<1> DEFINE more == Append(s, k)
<1>1. /\ Len(s) \in Nat /\ DOMAIN s = 1..Len(s) /\ more \in Seq(Nat) /\ DOMAIN more = 1..(Len(s) + 1)
      /\ more[Len(s) + 1] = k /\ \A j \in 1..Len(s) : more[j] = s[j]
  OBVIOUS
<1> HIDE DEF more
<1>2. DOMAIN more = DOMAIN s \cup {Len(s) + 1}
  BY <1>1
<1>3. ToSet(more) = ToSet(s) \cup {k}
  BY SMTT(20), <1>1, <1>2 DEF ToSet
<1> QED  BY <1>1, <1>3 DEF more

\* The steps of GenerateBatchEmbeddings.
LEMMA ScansOK ==
  ASSUME EmbedderPart, History, NEW c \in Client, Scans(c)
  PROVE  EmbedderPart'
<1> DEFINE k == request[c].one
           seen == IF TheText(c) \in DOMAIN cache THEN Got(c, k, cache[TheText(c)])
                   ELSE [request[c] EXCEPT !.left = Append(@, k)]
           state == IF k < Len(request[c].texts) THEN [seen EXCEPT !.one = k + 1]
                    ELSE [seen EXCEPT !.at = IF seen.left = <<>> THEN "return" ELSE "batch"]
<1>1. /\ request[c].at = "scan" /\ Settled /\ cache' = cache /\ Becomes(c, state)
      /\ TheText(c) \in Text /\ k \in DOMAIN request[c].texts
      /\ request[c] \in RequestType /\ GotOK(c) /\ LeftOK(c) /\ LastingOK(c) /\ EmbedderTyped
      /\ request[c].error = "none"
  BY InRequest DEF Scans, Is
<1>2. cache' \in Partial(Text, Embedding) /\ CacheOK'
  BY <1>1, CacheStays DEF Settled
<1>3. /\ request[c].texts \in Seq(Text) /\ request[c].got \in Partial(Nat, Embedding)
      /\ request[c].left \in Seq(Nat) /\ k \in Nat
  BY <1>1 DEF RequestType
<1>4. k \in 1..Len(request[c].texts) /\ Len(request[c].texts) \in Nat
      /\ DOMAIN request[c].texts = 1..Len(request[c].texts)
  BY <1>1, <1>3
\* What is cached is got; what is not is left.
<1>5. /\ seen \in RequestType /\ seen.at = "scan" /\ seen.error = "none" /\ seen.texts = request[c].texts
      /\ ToSet(seen.left) \subseteq DOMAIN request[c].texts
      /\ \A j \in DOMAIN request[c].texts :
           j <= k => j \in DOMAIN seen.got \/ j \in ToSet(seen.left)
      /\ \A j \in DOMAIN seen.got :
           j \in DOMAIN request[c].texts /\ seen.got[j].of = request[c].texts[j]
                                         /\ seen.got[j].by \in embedders
  <2>1. /\ ToSet(request[c].left) \subseteq DOMAIN request[c].texts
        /\ \A j \in DOMAIN request[c].texts :
             j < k => j \in DOMAIN request[c].got \/ j \in ToSet(request[c].left)
    BY <1>1 DEF LeftOK
  <2>2. \A j \in DOMAIN request[c].texts : j <= k => j = k \/ j < k
    BY <1>3, <1>4
  <2>3. CASE TheText(c) \in DOMAIN cache
    <3> DEFINE v == cache[TheText(c)]
               got == With(request[c].got, k, v)
    <3>1. v \in Embedding /\ v.of = TheText(c) /\ v.by \in embedders
      <4>1. cache \in Partial(Text, Embedding) /\ CacheOK
        BY DEF EmbedderPart, EmbedderTyped
      <4> QED  BY <2>3, <4>1, PartialIs DEF CacheOK
    <3>2. seen = [request[c] EXCEPT !.got = got]
      BY <2>3 DEF Got
    <3> HIDE DEF v, seen
    <3>3. /\ got \in Partial(Nat, Embedding) /\ DOMAIN got = DOMAIN request[c].got \cup {k}
          /\ got[k] = v /\ \A y \in DOMAIN request[c].got : y # k => got[y] = request[c].got[y]
      BY ZenonT(40), <1>3, <3>1, GotWith
    <3> HIDE DEF got
    <3>4. /\ seen \in RequestType /\ seen.at = "scan" /\ seen.error = "none" /\ seen.texts = request[c].texts
          /\ seen.left = request[c].left /\ seen.got = got
      BY <1>1, <3>2, <3>3 DEF RequestType
    <3>5. \A j \in DOMAIN got :
            j \in DOMAIN request[c].texts /\ got[j].of = request[c].texts[j] /\ got[j].by \in embedders
      BY <1>1, <3>1, <3>3 DEF GotOK, TheText
    <3> QED  BY <2>1, <2>2, <3>3, <3>4, <3>5
  <2>4. CASE TheText(c) \notin DOMAIN cache
    <3> DEFINE left == Append(request[c].left, k)
    <3>1. left \in Seq(Nat) /\ ToSet(left) = ToSet(request[c].left) \cup {k}
      BY <1>3, OneMore
    <3>2. seen = [request[c] EXCEPT !.left = left]
      BY <1>1, <2>4 DEF RequestType
    <3> HIDE DEF left, seen
    <3>3. /\ seen \in RequestType /\ seen.at = "scan" /\ seen.error = "none" /\ seen.texts = request[c].texts
          /\ seen.left = left /\ seen.got = request[c].got
      BY <1>1, <3>1, <3>2 DEF RequestType
    <3> QED  BY <1>1, <2>1, <2>2, <3>1, <3>3 DEF GotOK
  <2> QED  BY <2>3, <2>4
<1> HIDE DEF seen
<1>6. CASE k < Len(request[c].texts)
  <2>1. k + 1 \in Nat /\ k + 1 \in DOMAIN request[c].texts
        /\ \A j \in DOMAIN request[c].texts : j < k + 1 => j <= k
    BY <1>3, <1>4, <1>6
  <2>2. state = [seen EXCEPT !.one = k + 1]
    BY <1>6
  <2> HIDE DEF k, state
  <2>3. /\ state \in RequestType /\ state.at = "scan" /\ state.error = "none" /\ state.texts = request[c].texts
        /\ state.left = seen.left /\ state.got = seen.got /\ state.one = k + 1
    BY <1>5, <2>1, <2>2 DEF RequestType
  <2>4. SUFFICES ASSUME request'[c] = state
                 PROVE  GotOK(c)' /\ LeftOK(c)' /\ LastingOK(c)'
    BY <1>1, <1>2, <2>3, RequestMoves
  <2>5. GotOK(c)'
    BY <1>1, <1>5, <2>3, <2>4 DEF GotOK, Settled
  <2>6. LeftOK(c)'
    BY <1>5, <2>1, <2>3, <2>4 DEF LeftOK
  <2>7. LastingOK(c)'
    BY <1>1, <2>3, <2>4, Lasts DEF LastingOK
  <2> QED  BY <2>5, <2>6, <2>7
<1>7. CASE ~(k < Len(request[c].texts))
  <2>1. \A j \in DOMAIN request[c].texts : j <= k
    BY <1>3, <1>4, <1>7
  <2>2. state = [seen EXCEPT !.at = IF seen.left = <<>> THEN "return" ELSE "batch"]
    BY <1>7
  <2> HIDE DEF k, state
  <2>3. /\ state \in RequestType /\ state.error = "none" /\ state.texts = request[c].texts
        /\ state.left = seen.left /\ state.got = seen.got
        /\ state.at = IF seen.left = <<>> THEN "return" ELSE "batch"
    BY <1>5, <2>2 DEF RequestType
  <2>4. SUFFICES ASSUME request'[c] = state
                 PROVE  GotOK(c)' /\ LeftOK(c)' /\ LastingOK(c)'
    BY <1>1, <1>2, <2>3, RequestMoves
  <2>5. GotOK(c)'
    BY <1>1, <1>5, <2>3, <2>4 DEF GotOK, Settled
  <2>6. LeftOK(c)'
    <3>1. \A j \in DOMAIN request[c].texts : j \in DOMAIN seen.got \/ j \in ToSet(seen.left)
      BY <1>5, <2>1
    <3>2. seen.left = <<>> => ToSet(seen.left) = {}
      BY DEF ToSet
    <3> QED  BY <1>5, <2>3, <2>4, <3>1, <3>2 DEF LeftOK
  <2>7. LastingOK(c)'
    BY <1>1, <2>3, <2>4, Lasts DEF LastingOK
  <2> QED  BY <2>5, <2>6, <2>7
<1> QED  BY <1>6, <1>7

\* All at once, one by one, or the error of a primary never added.
LEMMA AsksForAllOK ==
  ASSUME EmbedderPart, History, NEW c \in Client, AsksForAll(c)
  PROVE  EmbedderPart'
<1>1. /\ request[c].at = "batch" /\ Settled /\ cache' = cache
      /\ request[c] \in RequestType /\ GotOK(c) /\ LeftOK(c) /\ LastingOK(c) /\ EmbedderTyped
      /\ request[c].error = "none" /\ primary \in Embedder
  BY InRequest DEF AsksForAll, Is, EmbedderTyped
<1>2. cache' \in Partial(Text, Embedding) /\ CacheOK'
  BY <1>1, CacheStays DEF Settled
<1>3. /\ request[c].left \in Seq(Nat) /\ request[c].left # <<>>
      /\ ToSet(request[c].left) \subseteq DOMAIN request[c].texts
      /\ \A k \in DOMAIN request[c].texts : k \in DOMAIN request[c].got \/ k \in ToSet(request[c].left)
  BY <1>1 DEF RequestType, LeftOK
<1> DEFINE first == Head(request[c].left)
           failing == [request[c] EXCEPT !.error = "no primary", !.at = "return"]
           filling == [request[c] EXCEPT !.by = primary, !.at = "fill"]
           looking == [request[c] EXCEPT !.one = Head(request[c].left), !.at = "lookup"]
           state == IF primary \notin embedders THEN failing ELSE IF Usable(primary) THEN filling ELSE looking
<1>4. Becomes(c, state)
  BY DEF AsksForAll
<1>5. first \in Nat /\ first \in ToSet(request[c].left)
  BY <1>3, TailIs DEF ToSet
<1>6. /\ failing \in RequestType /\ failing.error = "no primary" /\ failing.at = "return"
      /\ failing.texts = request[c].texts /\ failing.got = request[c].got /\ failing.left = request[c].left
  BY <1>1 DEF RequestType
<1>7. /\ filling \in RequestType /\ filling.error = "none" /\ filling.at = "fill" /\ filling.by = primary
      /\ filling.texts = request[c].texts /\ filling.got = request[c].got /\ filling.left = request[c].left
  BY <1>1 DEF RequestType
<1>8. /\ looking \in RequestType /\ looking.error = "none" /\ looking.at = "lookup" /\ looking.one = first
      /\ looking.texts = request[c].texts /\ looking.got = request[c].got /\ looking.left = request[c].left
  BY <1>1, <1>5 DEF RequestType
<1>9. /\ state \in RequestType /\ state.texts = request[c].texts /\ state.got = request[c].got
      /\ state.left = request[c].left
      /\ \/ state.error = "no primary" /\ state.at = "return"
         \/ state.error = "none" /\ state.at = "fill" /\ state.by \in embedders
         \/ state.error = "none" /\ state.at = "lookup" /\ state.one = first
  <2> HIDE DEF failing, filling, looking
  <2> QED  BY <1>6, <1>7, <1>8 DEF Usable
<1> HIDE DEF state
<1>10. SUFFICES ASSUME request'[c] = state
                PROVE  GotOK(c)' /\ LeftOK(c)' /\ LastingOK(c)'
  BY <1>1, <1>2, <1>4, <1>9, RequestMoves
<1>11. GotOK(c)'
  BY <1>1, <1>9, <1>10 DEF GotOK, Settled
<1>12. LeftOK(c)'
  BY <1>1, <1>3, <1>5, <1>9, <1>10 DEF LeftOK, Settled
<1>13. LastingOK(c)'
  BY <1>1, <1>9, <1>10, Lasts DEF LastingOK
<1> QED  BY <1>11, <1>12, <1>13

\* Each answer goes to the index its text came from.
LEMMA FillsOK ==
  ASSUME EmbedderPart, History, NEW c \in Client, Fills(c)
  PROVE  EmbedderPart'
<1> DEFINE k == Head(request[c].left)
           v == [of |-> request[c].texts[k], by |-> request[c].by]
           left == Tail(request[c].left)
           got == With(request[c].got, k, v)
           state == [Got(c, k, v) EXCEPT !.left = left, !.at = IF left = <<>> THEN "return" ELSE "fill"]
<1>1. /\ request[c].at = "fill" /\ Settled
      /\ cache' = With(cache, request[c].texts[k], v) /\ Becomes(c, state)
      /\ request[c] \in RequestType /\ GotOK(c) /\ LeftOK(c) /\ LastingOK(c) /\ EmbedderTyped
      /\ request[c].error = "none"
  BY InRequest DEF Fills, Is
<1>2. /\ request[c].left \in Seq(Nat) /\ request[c].left # <<>>
      /\ request[c].texts \in Seq(Text) /\ request[c].got \in Partial(Nat, Embedding)
      /\ ToSet(request[c].left) \subseteq DOMAIN request[c].texts
      /\ \A j \in DOMAIN request[c].texts : j \in DOMAIN request[c].got \/ j \in ToSet(request[c].left)
      /\ request[c].by \in embedders /\ request[c].by \in Embedder
  BY <1>1 DEF RequestType, LeftOK, EmbedderTyped
<1>3. /\ k \in Nat /\ k \in ToSet(request[c].left) /\ left \in Seq(Nat)
      /\ ToSet(left) \subseteq ToSet(request[c].left)
      /\ \A x \in ToSet(request[c].left) : x = k \/ x \in ToSet(left)
  BY <1>2, RestOf
<1>4. k \in DOMAIN request[c].texts /\ request[c].texts[k] \in Text
  BY <1>2, <1>3
<1> HIDE DEF k, left
<1>5. v \in Embedding /\ v.of = request[c].texts[k] /\ v.by \in embedders
  BY <1>2, <1>4 DEF Embedding
<1> HIDE DEF v
<1>6. cache' \in Partial(Text, Embedding) /\ CacheOK'
  BY <1>1, <1>4, <1>5, CacheGrows DEF Settled
<1>7. /\ got \in Partial(Nat, Embedding) /\ DOMAIN got = DOMAIN request[c].got \cup {k}
      /\ got[k] = v /\ \A y \in DOMAIN request[c].got : y # k => got[y] = request[c].got[y]
  BY <1>2, <1>3, <1>5, GotWith
<1> DEFINE mid == [request[c] EXCEPT !.got = got]
<1>8. state = [mid EXCEPT !.left = left, !.at = IF left = <<>> THEN "return" ELSE "fill"]
  BY DEF Got
<1> HIDE DEF got, state
<1>9. /\ mid \in RequestType /\ mid.got = got /\ mid.texts = request[c].texts
      /\ mid.error = "none" /\ mid.by = request[c].by
  BY <1>1, <1>7 DEF RequestType
<1> HIDE DEF mid
<1>10. /\ state \in RequestType /\ state.got = got /\ state.texts = request[c].texts
       /\ state.error = "none" /\ state.by = request[c].by /\ state.left = left
       /\ state.at = IF left = <<>> THEN "return" ELSE "fill"
  BY <1>3, <1>8, <1>9 DEF RequestType
<1>11. SUFFICES ASSUME request'[c] = state
                PROVE  GotOK(c)' /\ LeftOK(c)' /\ LastingOK(c)'
  BY <1>1, <1>6, <1>10, RequestMoves
<1>12. GotOK(c)'
  BY <1>1, <1>4, <1>5, <1>7, <1>10, <1>11 DEF GotOK, Settled
<1>13. LeftOK(c)'
  <2>1. \A j \in DOMAIN request[c].texts : j \in DOMAIN got \/ j \in ToSet(left)
    BY <1>2, <1>3, <1>7
  <2>2. left = <<>> => ToSet(left) = {}
    BY DEF ToSet
  <2> QED  BY <1>1, <1>2, <1>3, <1>10, <1>11, <2>1, <2>2 DEF LeftOK, Settled
<1>14. LastingOK(c)'
  BY <1>1, <1>10, <1>11, Lasts DEF LastingOK
<1> QED  BY <1>12, <1>13, <1>14

-----------------------------------------------------------------------------
\* The providers are set up, the world moves, and the managers work.
LEMMA AddEmbedderOK ==
  ASSUME EmbedderPart, History, NEW p \in Embedder, AddEmbedder(p)
  PROVE  EmbedderPart'
<1>1. /\ EmbedderTyped /\ CacheOK /\ embedders' = embedders \cup {p}
      /\ UNCHANGED <<primary, fallbacks, cache, reachable, request>>
  BY DEF EmbedderPart, AddEmbedder
<1>2. EmbeddersGrow
  BY <1>1 DEF EmbedderTyped, EmbeddersGrow
<1>3. cache' \in Partial(Text, Embedding) /\ CacheOK'
  BY <1>1 DEF EmbedderTyped, CacheOK
<1> QED  BY <1>1, <1>2, <1>3, NoRequestMoves

\* SetPrimaryProvider.
LEMMA SetPrimaryOK ==
  ASSUME EmbedderPart, History, NEW p \in Embedder, SetPrimary(p)
  PROVE  EmbedderPart'
<1>1. /\ EmbedderTyped /\ primary' \in Embedder
      /\ UNCHANGED <<embedders, fallbacks, cache, reachable, request>>
  BY DEF EmbedderPart, EmbedderTyped, SetPrimary
<1>2. EmbeddersGrow
  BY <1>1 DEF EmbedderTyped, EmbeddersGrow
<1> QED  BY <1>1, <1>2, CacheStays, NoRequestMoves

\* AddFallbackProvider: the list only grows.
LEMMA AddFallbackOK ==
  ASSUME EmbedderPart, History, NEW p \in Embedder, AddFallback(p)
  PROVE  EmbedderPart'
<1>1. /\ EmbedderTyped /\ fallbacks' = IF p \in embedders THEN Append(fallbacks, p) ELSE fallbacks
      /\ UNCHANGED <<embedders, primary, cache, reachable, request>> /\ fallbacks \in Seq(Embedder)
  BY DEF EmbedderPart, EmbedderTyped, AddFallback
<1>2. fallbacks' \in Seq(Embedder) /\ ToSet(fallbacks) \subseteq ToSet(fallbacks')
  <2> DEFINE more == Append(fallbacks, p)
  <2>1. /\ more \in Seq(Embedder) /\ \A k \in DOMAIN fallbacks : k \in DOMAIN more /\ more[k] = fallbacks[k]
    BY <1>1
  <2>2. fallbacks' = more \/ fallbacks' = fallbacks
    BY <1>1
  <2> HIDE DEF more
  <2> QED  BY <1>1, <2>1, <2>2 DEF ToSet
<1>3. EmbeddersGrow
  BY <1>1, <1>2 DEF EmbedderTyped, EmbeddersGrow
<1> QED  BY <1>1, <1>3, CacheStays, NoRequestMoves

\* An entry of the cache grows old.
LEMMA ExpiresOK ==
  ASSUME EmbedderPart, History, NEW t \in Text, CacheExpires(t)
  PROVE  EmbedderPart'
<1>1. /\ EmbedderTyped /\ CacheOK /\ cache' = [u \in DOMAIN cache \ {t} |-> cache[u]]
      /\ UNCHANGED <<embedders, primary, fallbacks, reachable, request>>
  BY DEF EmbedderPart, CacheExpires, Settled
<1>2. cache' \in Partial(Text, Embedding)
  <2>1. cache \in Partial(Text, Embedding)
    BY <1>1 DEF EmbedderTyped
  <2>2. PICK S \in SUBSET Text : cache \in [S -> Embedding]
    BY <2>1 DEF Partial
  <2>3. cache' \in [S \ {t} -> Embedding]
    BY <1>1, <2>2
  <2>4. S \ {t} \in SUBSET Text
    BY <2>2
  <2> QED  BY <2>3, <2>4 DEF Partial
<1>3. CacheOK'
  BY <1>1 DEF CacheOK
<1> QED  BY <1>1, <1>2, <1>3, EmbeddersStay, NoRequestMoves

\* A provider stops answering, or answers again.
LEMMA ReachesOK ==
  ASSUME EmbedderPart, History, NEW p \in Embedder, Reaches(p)
  PROVE  EmbedderPart'
<1>1. /\ EmbedderTyped /\ reachable' \in SUBSET Embedder
      /\ UNCHANGED <<embedders, primary, fallbacks, cache, request>>
  BY DEF EmbedderPart, EmbedderTyped, Reaches
<1>2. EmbeddersGrow
  BY <1>1 DEF EmbedderTyped, EmbeddersGrow
<1> QED  BY <1>1, <1>2, CacheStays, NoRequestMoves

\* What the managers do leaves the embedder as it is.
LEMMA ManagersAside ==
  ASSUME EmbedderPart, History, UNCHANGED embedderVars
  PROVE  EmbedderPart'
<1>1. EmbedderTyped /\ UNCHANGED <<embedders, primary, fallbacks, cache, reachable, request>>
  BY DEF EmbedderPart, embedderVars
<1> QED  BY <1>1, EmbeddersStay, CacheStays, NoRequestMoves

-----------------------------------------------------------------------------
\* A client asks for an embedding, or for some.
Batches == Seq(Text)
Wanted(op, at, texts) == [NoRequest EXCEPT !.op = op, !.at = at, !.texts = texts]

\* No request.
LEMMA NothingWanted ==
  /\ NoRequest \in RequestType /\ NoRequest.at = "idle" /\ NoRequest.error = "none"
  /\ DOMAIN NoRequest.got = {} /\ ToSet(NoRequest.left) = {} /\ NoRequest.one = 1
<1>1. <<>> \in Partial(Nat, Embedding) /\ DOMAIN <<>> = {}
  <2>1. <<>> \in [{} -> Embedding] /\ DOMAIN <<>> = {}
    OBVIOUS
  <2> QED  BY <2>1 DEF Partial
<1>2. <<>> \in Seq(Text) /\ <<>> \in Seq(Nat) /\ <<>> \in Seq(Embedder)
  OBVIOUS
<1>3. ToSet(<<>>) = {}
  BY DEF ToSet
<1>4. NoRequest \in RequestType
  BY <1>1, <1>2 DEF NoRequest, RequestType
<1> QED  BY <1>1, <1>3, <1>4 DEF NoRequest

\* What a request begins with.
LEMMA WantedIs ==
  ASSUME NEW op \in {"embed", "batch"}, NEW at \in {"lookup", "scan"}, NEW texts \in Batches,
         NEW state, state = Wanted(op, at, texts)
  PROVE  /\ state \in RequestType /\ state.at = at /\ state.texts = texts /\ state.error = "none"
         /\ DOMAIN state.got = {} /\ ToSet(state.left) = {} /\ state.left = <<>> /\ state.one = 1
<1> DEFINE mid == [NoRequest EXCEPT !.op = op, !.at = at]
<1>1. /\ NoRequest \in RequestType /\ NoRequest.error = "none" /\ NoRequest.left = <<>>
      /\ DOMAIN NoRequest.got = {} /\ ToSet(NoRequest.left) = {} /\ NoRequest.one = 1
  BY NothingWanted DEF NoRequest
<1>2. /\ mid \in RequestType /\ mid.at = at /\ mid.error = "none" /\ mid.left = NoRequest.left
      /\ mid.got = NoRequest.got /\ mid.one = 1
  BY <1>1 DEF RequestType
<1>3. state = [mid EXCEPT !.texts = texts]
  BY <1>1 DEF RequestType, Wanted
<1> HIDE DEF mid
<1>4. /\ state \in RequestType /\ state.at = at /\ state.texts = texts /\ state.error = "none"
      /\ state.got = NoRequest.got /\ state.left = NoRequest.left /\ state.one = 1
  BY <1>2, <1>3 DEF RequestType, Batches
<1> QED  BY <1>1, <1>4

\* A request begins at the first of its texts.
LEMMA CallsEmbedderOK ==
  ASSUME EmbedderPart, CallsTyped, History, NEW c \in Client, CallsEmbedder(c)
  PROVE  EmbedderPart'
<1> DEFINE next == Head(plan.calls[c])
           op == next.op
           at == First[op]
           texts == next.texts
           state == Wanted(op, at, texts)
<1>1. /\ next \in Calls /\ op \in {"embed", "batch"} /\ Settled /\ cache' = cache /\ EmbedderTyped
  BY NextCall DEF CallsEmbedder, EmbedderPart
<1>2. Becomes(c, state)
  BY DEF CallsEmbedder, Wanted
<1>3. /\ texts \in Seq(Text) /\ texts # <<>>
      /\ op = "embed" => DOMAIN texts = {1}
  <2> HIDE DEF next
  <2>1. CASE op = "embed"
    <3>1. PICK t \in Text : texts = <<t>>
      BY <1>1, <2>1 DEF Calls, Managing
    <3> QED  BY <2>1, <3>1
  <2>2. CASE op = "batch"
    BY <1>1, <2>2 DEF Calls, Managing
  <2> QED  BY <1>1, <2>1, <2>2
<1>4. (op = "embed" => at = "lookup") /\ (op = "batch" => at = "scan")
  BY DEF First
<1> HIDE DEF next, op, at, texts
<1>5. at \in {"lookup", "scan"}
  BY <1>1, <1>4
<1>6. /\ state \in RequestType /\ state.at = at /\ state.texts = texts /\ state.error = "none"
      /\ DOMAIN state.got = {} /\ ToSet(state.left) = {} /\ state.left = <<>> /\ state.one = 1
  <2>1. op \in {"embed", "batch"} /\ at \in {"lookup", "scan"} /\ texts \in Batches
    BY <1>1, <1>3, <1>5 DEF Batches
  <2>2. state = Wanted(op, at, texts)
    OBVIOUS
  <2> HIDE DEF state
  <2> QED  BY <2>1, <2>2, WantedIs
<1> HIDE DEF state
<1>7. cache' \in Partial(Text, Embedding) /\ CacheOK'
  BY <1>1, CacheStays DEF Settled
<1>8. SUFFICES ASSUME request'[c] = state
               PROVE  GotOK(c)' /\ LeftOK(c)' /\ LastingOK(c)'
  BY <1>1, <1>2, <1>6, <1>7, RequestMoves
<1>9. GotOK(c)'
  BY <1>6, <1>8 DEF GotOK
<1>10. LeftOK(c)'
  <2>1. 1 \in DOMAIN texts /\ (at = "lookup" => \A k \in DOMAIN texts : k = 1)
    BY <1>1, <1>3, <1>4
  <2>2. at = "scan" => \A k \in DOMAIN texts : ~(k < 1)
    BY <1>3
  <2> QED  BY <1>5, <1>6, <1>8, <2>1, <2>2 DEF LeftOK
<1>11. LastingOK(c)'
  BY <1>1, <1>5, <1>6, <1>8, Lasts DEF LastingOK
<1> QED  BY <1>9, <1>10, <1>11

\* A request that returns leaves nothing behind.
LEMMA RequestEndsOK ==
  ASSUME EmbedderPart, History, NEW c \in Client, Becomes(c, NoRequest), Settled, cache' = cache
  PROVE  EmbedderPart'
<1>1. cache' \in Partial(Text, Embedding) /\ CacheOK'
  BY CacheStays DEF Settled
<1>2. SUFFICES ASSUME request'[c] = NoRequest
               PROVE  GotOK(c)' /\ LeftOK(c)' /\ LastingOK(c)'
  BY <1>1, NothingWanted, RequestMoves
<1> QED  BY <1>2, NothingWanted DEF GotOK, LeftOK, LastingOK

-----------------------------------------------------------------------------
\* Every step keeps the embedder and its calls sound.
LEMMA EmbeddersKept ==
  ASSUME EmbedderPart, CallsTyped, [Next]_vars
  PROVE  EmbedderPart'
<1>1. CASE UNCHANGED vars
  <2>1. UNCHANGED <<embedders, primary, fallbacks, cache, reachable, request, lasting>>
    BY <1>1 DEF vars, embedderVars
  <2>2. EmbedderTyped' /\ CacheOK'
    BY <2>1 DEF EmbedderPart, EmbedderTyped, CacheOK
  <2>3. Reachables' = Reachables
    BY <2>1 DEF Reachables, Configured
  <2>4. \A d \in Client : RequestOK(d)'
    BY ZenonT(40), <2>1, <2>3 DEF EmbedderPart, RequestOK, GotOK, LeftOK, LastingOK
  <2> QED  BY <2>2, <2>4 DEF EmbedderPart
<1>2. ASSUME NEW c \in Client, ClientStep(c)
      PROVE  EmbedderPart'
  <2>1. History
    BY <1>2 DEF ClientStep
  <2>2. CASE UNCHANGED embedderVars
    BY <2>1, <2>2, ManagersAside
  <2>3. CASE CallsEmbedder(c)
    BY <2>1, <2>3, CallsEmbedderOK
  <2>4. CASE SetsUp(c)
    <3> DEFINE next == Head(plan.calls[c])
    <3>1. next \in Calls
      BY <2>4, NextCall DEF SetsUp
    <3>2. \/ next.op = "add" /\ AddEmbedder(next.of)
          \/ next.op = "primary" /\ SetPrimary(next.of)
          \/ next.op = "fallback" /\ AddFallback(next.of)
      BY <2>4 DEF SetsUp
    <3> HIDE DEF next
    <3>3. next.of \in Embedder
      BY <3>1, <3>2 DEF Calls, Managing
    <3> QED  BY <2>1, <3>2, <3>3, AddEmbedderOK, SetPrimaryOK, AddFallbackOK
  <2>5. CASE Becomes(c, NoRequest) /\ Settled /\ UNCHANGED <<cache, call>>
    BY <2>1, <2>5, RequestEndsOK
  <2>6. CASE EmbedderStep(c)
    BY <2>1, <2>6, LooksOK, AsksPrimaryOK, ReadsFallbacksOK, TriesFallbackOK, KeepsOK, ScansOK,
       AsksForAllOK, FillsOK DEF EmbedderStep
  <2> QED  BY <1>2, <2>2, <2>3, <2>4, <2>5, <2>6 DEF ClientStep, CallsManager, Returns
<1>3. ASSUME NEW c \in Client, Cancels(c)
      PROVE  EmbedderPart'
  BY <1>3, ManagersAside DEF Cancels
<1>4. CASE Ticks \/ CheckerStep \/ Exit
  BY <1>4, ManagersAside DEF Ticks, CheckerStep, Exit
<1>5. CASE World
  <2>1. History
    BY <1>5 DEF World
  <2>2. CASE UNCHANGED embedderVars
    BY <2>1, <2>2, ManagersAside
  <2>3. CASE \E p \in embedders : Reaches(p)
    <3>1. embedders \subseteq Embedder
      BY DEF EmbedderPart, EmbedderTyped
    <3> QED  BY <2>1, <2>3, <3>1, ReachesOK
  <2>4. CASE \E t \in Text : CacheExpires(t)
    BY <2>1, <2>4, ExpiresOK
  <2> QED  BY <1>5, <2>2, <2>3, <2>4 DEF World
<1> QED  BY <1>1, <1>2, <1>3, <1>4, <1>5 DEF Next, Done

-----------------------------------------------------------------------------
\* The invariant holds at first.
LEMMA FailoverStarts == Init => FailoverInv
<1> SUFFICES ASSUME Init
             PROVE  FailoverInv
  OBVIOUS
<1>1. /\ providers = [n \in Name |-> None] /\ healthy = {} /\ check = [by |-> NoClient, left |-> {}]
      /\ checker = [enabled |-> TRUE, closed |-> FALSE, waiting |-> 0, joining |-> NoClient]
      /\ answering = Instance /\ failed = {}
      /\ registered = [n \in Name |-> None] /\ reported = {} /\ made = <<>>
  BY DEF Init, ManagerInit, NoCheck
<1>2. /\ embedders = {} /\ primary \in Embedder /\ fallbacks = <<>> /\ cache = <<>> /\ reachable = Embedder
      /\ request = [c \in Client |-> NoRequest] /\ lasting = [c \in Client |-> Embedder]
  BY ProvidersAssumption DEF Init, EmbedderInit
<1>3. /\ call = [c \in Client |-> Idle] /\ plan \in Workloads /\ steady = [c \in Client |-> Instance]
  BY PlansAssumption DEF Init
<1>4. Entries = {}
  BY <1>1 DEF Entries
<1>5. ManagerTyped
  <2>1. made \in Seq(Name) /\ Len(made) = 0 /\ 0 <= MaxInstances
    BY <1>1, ManagerAssumption
  <2> QED  BY <1>1, <2>1 DEF ManagerTyped
<1>6. Named /\ CheckInv /\ MarkedForCause
  BY <1>1, <1>4 DEF Named, CheckInv, MarkedForCause, Instance, None
<1>7. CallsPart
  <2>1. /\ Idle \in CallType /\ Idle.at = "idle" /\ Idle.asked = {} /\ Idle.result = "none"
    <3>1. <<>> \in Todos /\ 0 \in 0..MaxRetries
      BY ProvidersAssumption DEF Todos
    <3> QED  BY <3>1 DEF Idle, CallType
  <2>2. CallsTyped
    BY <1>3, <2>1 DEF CallsTyped
  <2>3. \A c \in Client : call[c] = Idle
    BY <1>3
  <2>4. \A c \in Client : CallOK(c) /\ SteadyOK(c)
    BY <2>1, <2>3 DEF CallOK, LabelsOK, RecordsOK, VisitsOK, TriesOK, FailedOK, SteadyOK
  <2> QED  BY <2>2, <2>4 DEF CallsPart
<1>8. EmbedderPart
  <2>1. fallbacks \in Seq(Embedder) /\ cache \in Partial(Text, Embedding) /\ DOMAIN cache = {}
    <3>1. <<>> \in [{} -> Embedding] /\ DOMAIN <<>> = {} /\ <<>> \in Seq(Embedder)
      OBVIOUS
    <3> QED  BY <1>2, <3>1 DEF Partial
  <2>2. EmbedderTyped /\ CacheOK
    BY <1>2, <2>1, NothingWanted DEF EmbedderTyped, CacheOK
  <2>3. \A c \in Client : request[c] = NoRequest
    BY <1>2
  <2>4. \A c \in Client : RequestOK(c)
    BY <2>3, NothingWanted DEF RequestOK, GotOK, LeftOK, LastingOK
  <2> QED  BY <2>2, <2>4 DEF EmbedderPart
<1> QED  BY <1>5, <1>6, <1>7, <1>8 DEF FailoverInv, ManagerPart

\* Every step keeps it.
LEMMA FailoverKept == FailoverInv /\ [Next]_vars => FailoverInv'
<1> SUFFICES ASSUME ManagerPart, CallsPart, EmbedderPart, [Next]_vars
             PROVE  FailoverInv'
  BY DEF FailoverInv
<1>1. ManagerPart' /\ CallsPart'
  BY ManagersKept
<1>2. EmbedderPart'
  BY EmbeddersKept DEF CallsPart
<1> QED  BY <1>1, <1>2 DEF FailoverInv

\* What the invariant says of the calls, in the words of the properties.
LEMMA BestComeFirst ==
  ASSUME ManagerPart, CallsPart
  PROVE  BestFirst
<1> SUFFICES ASSUME NEW c \in Client, call[c].at \in {"ask", "try"}, call[c].who \in Entries,
                    call[c].op = "failover" \/ Few,
                    NEW i \in steady[c], plan.priority[NameOf(i)] < plan.priority[NameOf(call[c].who)]
             PROVE  i \in call[c].asked
  BY DEF BestFirst, Few
<1> DEFINE w == call[c].who
<1>1. CallOK(c) /\ SteadyOK(c) /\ CallsTyped /\ ManagerTyped /\ Named
  BY DEF CallsPart, ManagerPart
<1>2. i \in Entries
  BY <1>1 DEF SteadyOK, Usables
<1>3. /\ NameOf(i) = made[i] /\ made[i] \in Name /\ NameOf(w) = made[w] /\ made[w] \in Name
  BY <1>1, <1>2, NameOfEntry
<1>4. Rank(i) \in Int /\ Rank(w) \in Int /\ Rank(i) < Rank(w) /\ ~(Rank(w) <= Rank(i)) /\ i # w
  <2>1. plan.priority \in [Name -> Int]
    BY <1>1, PlanTyped
  <2>2. Rank(i) \in Int /\ Rank(w) \in Int /\ Rank(i) < Rank(w)
    BY <1>3, <2>1 DEF Rank
  <2> QED  BY <2>2
<1>5. CASE call[c].at = "ask"
  <2>1. /\ i \in call[c].asked \/ i \in ToSet(call[c].todo) \/ i = w
        /\ \A k \in DOMAIN call[c].todo : Rank(w) <= Rank(call[c].todo[k])
    BY <1>1, <1>5 DEF CallOK, VisitsOK
  <2>2. i \notin ToSet(call[c].todo)
    BY <1>4, <2>1 DEF ToSet
  <2> QED  BY <1>4, <2>1, <2>2
<1>6. CASE call[c].at = "try"
  <2>1. Few
    BY <1>1, <1>6 DEF CallOK, LabelsOK
  <2>2. /\ i \in call[c].asked \/ made[i] \in ToSet(call[c].todo) \/ i = w
        /\ \A k \in DOMAIN call[c].todo : Rank(w) <= plan.priority[call[c].todo[k]]
    BY <1>1, <1>6, <2>1 DEF CallOK, TriesOK
  <2>3. made[i] \notin ToSet(call[c].todo)
    BY <1>4, <2>2 DEF ToSet, Rank
  <2> QED  BY <1>4, <2>2, <2>3
<1> QED  BY <1>5, <1>6

\* The types are part of it.
LEMMA TypesFollow ==
  ASSUME FailoverInv
  PROVE  ProvidersTypeOK
<1>1. ManagerTyped /\ CheckInv /\ CallsPart /\ EmbedderPart
  BY DEF FailoverInv, ManagerPart
<1>2. ManagerTypeOK
  BY <1>1 DEF ManagerTyped, CheckInv, ManagerTypeOK
<1>3. EmbedderTypeOK
  <2>1. DOMAIN cache \subseteq Text /\ \A t \in DOMAIN cache : cache[t] \in Embedding
    <3>1. cache \in Partial(Text, Embedding)
      BY <1>1 DEF EmbedderPart, EmbedderTyped
    <3> QED  BY <3>1, PartialIs
  <2>2. \A c \in Caller : DOMAIN request[c].got \subseteq DOMAIN request[c].texts
    BY <1>1, ProvidersAssumption DEF EmbedderPart, RequestOK, GotOK
  <2> QED  BY <1>1, <2>1, <2>2 DEF EmbedderTypeOK, EmbedderPart, EmbedderTyped
<1>4. \A c \in Client : call[c].asked \subseteq failed /\ call[c].tries \in 0..MaxRetries
  <2>1. TAKE c \in Client
  <2>2. call[c] \in CallType /\ CallOK(c)
    BY <1>1 DEF CallsPart, CallsTyped
  <2> QED  BY <2>2 DEF CallType, CallOK
<1> QED  BY <1>1, <1>2, <1>3, <1>4 DEF ProvidersTypeOK, ManagerTyped

\* It implies the property.
LEMMA FailoverMeans == FailoverInv => FailoversAreSound
<1> SUFFICES ASSUME FailoverInv
             PROVE  FailoversAreSound
  OBVIOUS
<1>1. ManagerPart /\ CallsPart /\ EmbedderPart
  BY DEF FailoverInv
<1>2. FailsOnlyAfterAll
  BY <1>1 DEF CallsPart, CallOK, FailedOK, FailsOnlyAfterAll
<1>3. ServedIsOwn
  <2>1. SUFFICES ASSUME NEW c \in Client, request[c].at = "return"
                 PROVE  IF request[c].error # "none"
                        THEN lasting[c] = {} \/ request[c].error = "no primary"
                        ELSE \A k \in DOMAIN request[c].texts :
                               k \in DOMAIN request[c].got
                               /\ request[c].got[k].of = request[c].texts[k]
                               /\ request[c].got[k].by \in embedders
    BY DEF ServedIsOwn, Is
  <2>2. RequestOK(c) /\ request[c] \in RequestType
    BY <1>1 DEF EmbedderPart, EmbedderTyped
  <2>3. request[c].error \in {"none", "all failed", "no primary"}
    BY <2>2 DEF RequestType
  <2> QED  BY <2>1, <2>2, <2>3 DEF RequestOK, GotOK, LeftOK, LastingOK
<1> QED  BY <1>1, <1>2, <1>3, TypesFollow, BestComeFirst DEF FailoversAreSound, ManagerPart

\* For any clients, names, plans and registrations: a failover fails only when
\* every entry that could be used during all of it was asked and failed, asks
\* the better ones first (ExecuteWithFailover for two names), marks an entry
\* only for its own failure, and AutoEmbedder serves each text its own
\* embedding, or fails because nothing could be reached.
THEOREM FailoversHold == Spec => []FailoversAreSound
<1>1. Init => FailoverInv
  BY FailoverStarts
<1>2. FailoverInv /\ [Next]_vars => FailoverInv'
  BY FailoverKept
<1>3. FailoverInv => FailoversAreSound
  BY FailoverMeans
<1> QED  BY <1>1, <1>2, <1>3, PTL DEF Spec
=============================================================================
