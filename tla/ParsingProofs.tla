--------------------------- MODULE ParsingProofs ---------------------------
(***************************************************************************)
(* Proofs about the callers of the parser over the parsing cache and the   *)
(* worker pool.                                                            *)
(*                                                                         *)
(* The inductive invariant has a part for each.  Of the cache: the list    *)
(* and the counters follow the entries, and an entry without a race has the*)
(* text of its file, or once it has a path one not older than the time     *)
(* that went with it.  Of the pool: only what was started is in use, and a *)
(* result is of its task.  Of a call: where each of its sources is, step by*)
(* step; and, for a batch, that its tasks with the pool and the results in *)
(* its channel are no more than it awaits.  If they are as many, each file *)
(* is in one of them or was taken already; and while the generation it gave*)
(* them to runs, they are as many.                                         *)
(*                                                                         *)
(* The cache and the pool are proved to keep their parts first, each with  *)
(* what a step of it leaves to the calls: CacheMoves and PoolMoves.        *)
(***************************************************************************)
EXTENDS Parsing, FiniteSetTheorems, TLAPS

Partial(D, R) == UNION {[S -> R] : S \in SUBSET D}

-----------------------------------------------------------------------------
\* The cache.
CacheTyped ==
  /\ file \in [Source -> Version]
  /\ entries \in Partial(CacheKey, Entry) /\ disk \in Partial(CacheKey, Entry)
  /\ lru \in Seq(CacheKey) /\ revived \in SUBSET CacheKey
  /\ totalEntries \in Nat /\ memoryUsage \in Nat
  /\ mu \in Client \cup {NoClient}
  /\ deletes \in [CacheKey -> Nat]

\* The list and the counters follow the entries.
ListFollows ==
  /\ IsInjective(lru)
  /\ ToSet(lru) = DOMAIN entries \cup revived
  /\ DOMAIN entries \cap revived = {}
  /\ totalEntries >= Cardinality(DOMAIN entries)
  /\ memoryUsage >= SizeOf(DOMAIN entries)

\* An entry without a race has the text of its source; once it has a path, the
\* file may have changed, but not before the time that went with the path.
Sound(some) ==
  \A k \in DOMAIN some :
    ~some[k].raced =>
      IF some[k].path THEN some[k].text >= some[k].mtime ELSE some[k].text = file[k.of]

CacheInv == CacheTyped /\ ListFollows /\ Sound(entries) /\ Sound(disk)

-----------------------------------------------------------------------------
\* The pool.
TaskType == [of : Source, for : Client \cup {NoClient}, id : Nat]
ResultType == [of : Source, ok : BOOLEAN, text : Version]
ChanType ==
  [tasks : Seq(TaskType), open : BOOLEAN, done : BOOLEAN, results : Seq(ResultType), drained : BOOLEAN]
WorkerType ==
  [at : {"none", "loop", "select", "parse", "share", "reply"}, on : 0..MaxGenerations,
   task : TaskType \cup {<<>>}, attempt : Nat, result : ResultType \cup {<<>>}]

PoolTyped ==
  /\ generation \in 0..MaxGenerations /\ started \in BOOLEAN
  /\ chan \in [0..MaxGenerations -> ChanType]
  /\ worker \in [Worker -> WorkerType]

Busy(w) == worker[w].at \in {"parse", "share", "reply"}

\* Only what has been started is in use, and a result is of its task.
PoolInv ==
  /\ PoolTyped
  /\ \A g \in 0..MaxGenerations :
       /\ Len(chan[g].tasks) <= QueueSize /\ Len(chan[g].results) <= QueueSize
       /\ g > generation => chan[g].tasks = <<>>
  /\ \A w \in Worker :
       /\ worker[w].on <= generation
       /\ w[1] > generation => worker[w] = NotRunning
       /\ Busy(w) => worker[w].task \in TaskType
       /\ worker[w].at \in {"share", "reply"} =>
            worker[w].result \in ResultType /\ worker[w].result.of = worker[w].task.of

-----------------------------------------------------------------------------
\* The calls.
CallType ==
  [op : {"none", "file", "batch", "parallel", "stop", "close", "invalidate"},
   at : {"idle", "return", "lookup", "touch", "parse", "healthy", "start", "submit", "collect",
         "stat", "set", "path", "invalidate", "stop", "cancel", "queue", "wait", "tickers",
         "persist", "clear"},
   ask : SUBSET Source, since : Partial(Source, Version), todo : Seq(Source), rest : Seq(Source),
   store : SUBSET Source, got : Partial(Source, Version), key : CacheKey \cup {<<>>},
   mtime : Version, out : Nat, box : Seq(ResultType), in : 0..MaxGenerations, id : Nat,
   failed : BOOLEAN, stale : SUBSET Source]

CallsTyped ==
  /\ call \in [Client -> CallType] /\ plan \in Workload
  /\ tickers \in BOOLEAN /\ alive \in BOOLEAN

Fetches(c) == call[c].op \in {"file", "batch"}
In(c, labels) == call[c].at \in labels

\* A Set has the lock only between its evictions, and what it is about to give
\* a path is not older than the file was when it was looked at.
SettingOK(c) ==
  /\ mu = c => In(c, {"set"}) /\ ~Blank(c)
  /\ In(c, {"set", "path"}) =>
       call[c].key \in CacheKey /\ call[c].key.of \in call[c].store /\ call[c].mtime <= file[call[c].key.of]
  /\ In(c, {"path"}) /\ call[c].key \in DOMAIN entries /\ ~entries[call[c].key].raced =>
       entries[call[c].key].text >= call[c].mtime

\* Where the sources of a call are, step by step.
AskOK(c) ==
  /\ call[c].since \in [call[c].ask -> Version]
  /\ \A s \in call[c].ask : call[c].since[s] <= file[s]
  /\ In(c, {"idle"}) => call[c] = Idle
  /\ In(c, {"lookup", "touch"}) =>
       /\ Fetches(c) /\ ~call[c].failed /\ call[c].store = {}
       /\ call[c].ask = DOMAIN call[c].got \cup ToSet(call[c].todo) \cup ToSet(call[c].rest)
       /\ call[c].op = "file" =>
            call[c].rest = <<>> /\ Len(call[c].todo) <= 1 /\ (call[c].todo # <<>> => DOMAIN call[c].got = {})
  /\ In(c, {"lookup"}) => call[c].todo # <<>>
  /\ In(c, {"touch"}) => call[c].key \in CacheKey
  /\ In(c, {"parse"}) =>
       call[c].op = "file" /\ ~call[c].failed /\ Len(call[c].rest) = 1 /\ call[c].ask = {call[c].rest[1]}
  /\ In(c, {"healthy", "start", "submit"}) =>
       call[c].op \in {"batch", "parallel"} /\ call[c].rest # <<>>
  /\ In(c, {"healthy", "start"}) => ~call[c].failed
  /\ In(c, {"healthy", "start", "submit"}) /\ call[c].op = "batch" =>
       call[c].ask = DOMAIN call[c].got \cup ToSet(call[c].rest) \cup call[c].store
  /\ In(c, {"collect"}) => call[c].op \in {"batch", "parallel"}
  /\ In(c, {"collect"}) /\ call[c].op = "batch" => call[c].ask = DOMAIN call[c].got \cup call[c].store
  /\ In(c, {"stat", "set", "path"}) =>
       Fetches(c) /\ ~call[c].failed /\ call[c].ask = DOMAIN call[c].got /\ call[c].store \subseteq call[c].ask
  /\ In(c, {"return"}) /\ Fetches(c) /\ ~call[c].failed => call[c].ask = DOMAIN call[c].got
  /\ In(c, {"invalidate", "stop", "cancel", "queue", "wait", "tickers", "persist", "clear"}) =>
       call[c].op \in {"stop", "close", "invalidate"}

\* What was got is not older than the call, unless its entry had a race.
GotOK(c) ==
  Fetches(c) =>
    /\ DOMAIN call[c].got \subseteq call[c].ask
    /\ \A s \in DOMAIN call[c].got : call[c].got[s] >= call[c].since[s] \/ s \in call[c].stale

-----------------------------------------------------------------------------
\* The tasks of a call with the pool: queued or with a worker.
Queued(c, i) ==
  {p \in (0..MaxGenerations) \X (1..QueueSize) :
     /\ p[2] <= Len(chan[p[1]].tasks)
     /\ chan[p[1]].tasks[p[2]].for = c /\ chan[p[1]].tasks[p[2]].id = i}
Handled(c, i) == {w \in Worker : Busy(w) /\ worker[w].task.for = c /\ worker[w].task.id = i}
Flying(c, i) == Cardinality(Queued(c, i)) + Cardinality(Handled(c, i))
Carried(c, i) ==
  {chan[p[1]].tasks[p[2]].of : p \in Queued(c, i)} \cup {worker[w].task.of : w \in Handled(c, i)}

Timely(result, c) ==
  result.of \in call[c].ask /\ (result.ok => result.text >= call[c].since[result.of])

\* A call has an id of its own, and its tasks are of its sources.
TasksOK(c) ==
  /\ call[c].in <= generation
  /\ ~In(c, {"idle"}) => call[c].id = Len(plan.calls[c]) + 1
  /\ \A g \in 0..MaxGenerations : \A task \in ToSet(chan[g].tasks) :
       task.for = c =>
         /\ task.id > Len(plan.calls[c])
         /\ task.id = call[c].id => call[c].op = "batch" /\ g >= call[c].in /\ task.of \in call[c].ask
  /\ \A w \in Worker :
       Busy(w) /\ worker[w].task.for = c =>
         /\ worker[w].task.id > Len(plan.calls[c])
         /\ worker[w].task.id = call[c].id =>
              /\ call[c].op = "batch" /\ worker[w].task.of \in call[c].ask
              /\ ~(worker[w].at = "parse") => Timely(worker[w].result, c)
  /\ \A k \in DOMAIN call[c].box : call[c].op = "batch" /\ Timely(call[c].box[k], c)

\* No more results come than are awaited; if as many, every source is on its
\* way or there; and they are as many while the pool runs.
Counted(k, on, done, flying, carried) ==
  /\ flying + Len(k.box) <= k.out
  /\ k.at \in {"lookup", "touch", "healthy", "start"} => k.out = 0 /\ k.store = {}
  /\ k.at \in {"submit", "collect"} /\ k.op = "batch" /\ flying + Len(k.box) = k.out =>
       \A s \in k.store :
         \/ s \in DOMAIN k.got \/ k.failed
         \/ s \in carried \/ \E j \in DOMAIN k.box : k.box[j].of = s
  /\ k.at \in {"submit", "collect"} /\ k.op = "batch" /\ k.in = on /\ ~done => flying + Len(k.box) = k.out
CountOK(c) == Counted(call[c], generation, Current.done, Flying(c, call[c].id), Carried(c, call[c].id))

ClientOK(c) == SettingOK(c) /\ AskOK(c) /\ GotOK(c) /\ TasksOK(c) /\ CountOK(c)
ParsingInv == CacheInv /\ PoolInv /\ CallsTyped /\ \A c \in Client : ClientOK(c)

\* A set of natural numbers that is not empty has a least one.
LEMMA LeastNat ==
  ASSUME NEW S, S \subseteq Nat, S # {}
  PROVE  \E n \in S : \A m \in S : n <= m
<1> DEFINE R == {ss \in Nat \X Nat : ss[1] < ss[2]}
<1>1. IsWellFoundedOn(R, Nat)
  BY NatLessThanWellFounded DEF OpToRel
<1>2. PICK x \in S : \A y \in S : <<y, x>> \notin R
  <2> HIDE DEF R
  <2> QED  BY <1>1, WFMin
<1>3. ASSUME NEW y \in S
      PROVE  x <= y
  <2>1. ~(y < x)
    BY <1>2
  <2> QED  BY <2>1
<1> QED  BY <1>3

\* A listing of a finite set has each of its members, once.
LEMMA Listing ==
  ASSUME NEW S, IsFiniteSet(S), NEW order \in SetToSeqs(S)
  PROVE  order \in Seq(S) /\ ToSet(order) = S /\ IsInjective(order)
<1> DEFINE D == 1..Cardinality(S)
<1>1. Cardinality(S) \in Nat
  BY FS_CardinalityType
<1>2. order \in [D -> S] /\ \A i, j \in D : i # j => order[i] # order[j]
  BY DEF SetToSeqs
<1>3. order \in Seq(S) /\ Len(order) = Cardinality(S) /\ DOMAIN order = D
  BY <1>1, <1>2
<1>4. ASSUME NEW x \in S
      PROVE  x \in ToSet(order)
  <2>1. SUFFICES ASSUME x \notin ToSet(order)
                 PROVE  FALSE
    OBVIOUS
  <2>2. order \in [D -> S \ {x}]
    BY <2>1, <1>2, <1>3 DEF ToSet
  <2>3. IsFiniteSet(S \ {x}) /\ Cardinality(S \ {x}) = Cardinality(S) - 1
    BY FS_RemoveElement
  <2>4. IsFiniteSet(D) /\ Cardinality(D) = Cardinality(S)
    BY <1>1, FS_Interval
  <2>5. PICK i, j \in D : i # j /\ order[i] = order[j]
    BY <2>2, <2>3, <2>4, <1>1, FS_PigeonHole
  <2> QED  BY <2>5, <1>2
<1>5. ToSet(order) \subseteq S
  BY <1>2, <1>3 DEF ToSet
<1>6. IsInjective(order)
  BY <1>2, <1>3 DEF IsInjective
<1> QED  BY <1>3, <1>4, <1>5, <1>6

\* A list without some keys has the others, each as often as before.
LEMMA WithoutIs ==
  ASSUME NEW S, NEW order \in Seq(S), NEW K
  PROVE  /\ Without(order, K) \in Seq(S)
         /\ ToSet(Without(order, K)) = ToSet(order) \ K
         /\ IsInjective(order) => IsInjective(Without(order, K))
<1> DEFINE N == Len(order)
           Seen(n) == {order[i] : i \in 1..n}
           Members(some) == {some[i] : i \in 1..Len(some)}
           Grown(before, k) == IF order[k] \in K THEN before ELSE Append(before, order[k])
           Good(f, n) == /\ f \in [0..n -> Seq(S)]
                         /\ f[0] = <<>>
                         /\ \A k \in 1..n : f[k] = Grown(f[k - 1], k)
                         /\ \A k \in 0..n : /\ Members(f[k]) = Seen(k) \ K
                                            /\ IsInjective(order) => IsInjective(f[k])
           Bad == {n \in 0..N : ~\E f : Good(f, n)}
<1>1. N \in Nat /\ \A i \in 1..N : order[i] \in S
  OBVIOUS
<1>2. Bad = {}
  <2>1. SUFFICES ASSUME Bad # {}
                 PROVE  FALSE
    OBVIOUS
  <2>2. PICK n \in Bad : \A m \in Bad : n <= m
    <3>1. Bad \subseteq Nat
      BY <1>1
    <3> HIDE DEF Bad
    <3> QED  BY <2>1, <3>1, LeastNat
  <2>3. CASE n = 0
    <3>1. Good([k \in 0..0 |-> <<>>], 0)
      BY DEF IsInjective
    <3> HIDE DEF Good
    <3> QED  BY <2>3, <3>1
  <2>4. CASE n # 0
    <3>1. n - 1 \in 0..N /\ n - 1 \notin Bad /\ n \in 1..N
      <4>1. n \in 0..N
        OBVIOUS
      <4> HIDE DEF Bad
      <4>2. n - 1 \in 0..N /\ n \in 1..N
        BY <4>1, <2>4, <1>1
      <4>3. n - 1 \notin Bad
        BY <4>1, <4>2, <2>2
      <4> QED  BY <4>2, <4>3
    <3>2. PICK f : Good(f, n - 1)
      <4> HIDE DEF Good
      <4> QED  BY <3>1
    <3> DEFINE before == f[n - 1]
               after == Grown(before, n)
               g == [k \in 0..n |-> IF k = n THEN after ELSE f[k]]
    <3>3. /\ before \in Seq(S) /\ Members(before) = Seen(n - 1) \ K
          /\ IsInjective(order) => IsInjective(before)
      <4>1. n - 1 \in 0..(n - 1)
        BY <3>1
      <4>2. /\ f \in [0..(n - 1) -> Seq(S)]
            /\ \A k \in 0..(n - 1) : /\ Members(f[k]) = Seen(k) \ K
                                    /\ IsInjective(order) => IsInjective(f[k])
        BY <3>2
      <4> HIDE DEF Seen, Members, Grown
      <4> QED  BY <4>1, <4>2
    <3>4. Seen(n) = Seen(n - 1) \cup {order[n]}
      BY <3>1
    <3>5. after \in Seq(S)
      BY <3>1, <3>3, <1>1
    <3>6. Members(after) = Seen(n) \ K
      <4>1. CASE order[n] \in K
        BY <4>1, <3>3, <3>4
      <4>2. CASE order[n] \notin K
        <5>1. /\ Len(after) = Len(before) + 1 /\ after[Len(before) + 1] = order[n]
              /\ \A i \in 1..Len(before) : after[i] = before[i]
          BY <4>2, <3>3, <1>1, <3>1
        <5> HIDE DEF after
        <5>2. Len(before) \in Nat
          BY <3>3
        <5> HIDE DEF before
        <5>3. {after[i] : i \in 1..Len(after)} = {before[i] : i \in 1..Len(before)} \cup {order[n]}
          BY <5>1, <5>2
        <5> QED  BY <5>3, <4>2, <3>3, <3>4
      <4> QED  BY <4>1, <4>2
    <3>7. ASSUME IsInjective(order)
          PROVE  IsInjective(after)
      <4>1. CASE order[n] \in K
        BY <4>1, <3>3, <3>7
      <4>2. CASE order[n] \notin K
        <5>1. order[n] \notin Seen(n - 1)
          BY <3>1, <3>7, <1>1 DEF IsInjective
        <5>2. \A i \in 1..Len(before) : before[i] # order[n]
          BY <5>1, <3>3
        <5>3. /\ Len(after) = Len(before) + 1 /\ after[Len(before) + 1] = order[n]
              /\ \A i \in 1..Len(before) : after[i] = before[i]
          BY <4>2, <3>3, <1>1, <3>1
        <5>4. Len(before) \in Nat /\ DOMAIN before = 1..Len(before) /\ DOMAIN after = 1..Len(after)
          BY <3>3, <3>5
        <5>5. IsInjective(before)
          BY <3>3, <3>7
        <5> HIDE DEF after, before
        <5> QED  BY <5>2, <5>3, <5>4, <5>5 DEF IsInjective
      <4> QED  BY <4>1, <4>2
    <3>8. Good(g, n)
      <4> HIDE DEF after, Seen, Grown, Members
      <4>1. g \in [0..n -> Seq(S)] /\ g[0] = <<>>
        <5>1. f \in [0..(n - 1) -> Seq(S)] /\ f[0] = <<>> /\ 0 \in 0..(n - 1) /\ n # 0
          BY <3>1, <3>2
        <5>2. \A k \in 0..n : k = n \/ k \in 0..(n - 1)
          BY <3>1
        <5> QED  BY <5>1, <5>2, <3>5
      <4>2. ASSUME NEW k \in 1..n
            PROVE  g[k] = Grown(g[k - 1], k)
        <5>1. CASE k = n
          <6>1. g[k] = after /\ g[k - 1] = before
            BY <5>1, <3>1
          <6> QED  BY <6>1, <5>1 DEF after
        <5>2. CASE k # n
          <6>1. k \in 1..(n - 1) /\ g[k] = f[k] /\ g[k - 1] = f[k - 1]
            BY <5>2, <3>1, SMTT(30)
          <6> QED  BY <6>1, <3>2
        <5> QED  BY <5>1, <5>2
      <4>3. ASSUME NEW k \in 0..n
            PROVE  /\ Members(g[k]) = Seen(k) \ K
                   /\ IsInjective(order) => IsInjective(g[k])
        <5>1. CASE k = n
          <6>1. g[k] = after
            BY <5>1
          <6> QED  BY <6>1, <5>1, <3>6, <3>7
        <5>2. CASE k # n
          <6>1. k \in 0..(n - 1) /\ g[k] = f[k]
            BY <5>2, <3>1
          <6> QED  BY <6>1, <3>2
        <5> QED  BY <5>1, <5>2
      <4> QED  BY <4>1, <4>2, <4>3
    <3> HIDE DEF Good, g
    <3> QED  BY <3>8
  <2> QED  BY <2>3, <2>4
<1>3. PICK f : Good(f, N)
  <2>1. N \in 0..N
    BY <1>1
  <2> HIDE DEF Good, N
  <2> QED  BY <2>1, <1>2
<1> DEFINE Steps(h) == h = [k \in 0..N |-> IF k = 0 THEN <<>> ELSE Grown(h[k - 1], k)]
           left == CHOOSE h : Steps(h)
<1>4. Steps(f)
  <2>1. f \in [0..N -> Seq(S)] /\ f[0] = <<>> /\ \A k \in 1..N : f[k] = Grown(f[k - 1], k)
    BY <1>3
  <2> HIDE DEF Grown, N
  <2> QED  BY <2>1, <1>1
<1>5. Steps(left)
  <2> HIDE DEF Steps
  <2> QED  BY <1>4
<1>6. Without(order, K) = left[N]
  BY DEF Without
<1> HIDE DEF left
<1>11. \A k \in 1..N : left[k] = Grown(left[k - 1], k) /\ f[k] = Grown(f[k - 1], k)
  <2>1. left = [k \in 0..N |-> IF k = 0 THEN <<>> ELSE Grown(left[k - 1], k)]
    BY <1>5
  <2>2. \A k \in 1..N : f[k] = Grown(f[k - 1], k)
    BY <1>3
  <2> HIDE DEF Grown, N
  <2> QED  BY <2>1, <2>2, <1>1
<1>12. left[0] = <<>> /\ f[0] = <<>>
  BY <1>1, <1>3, <1>5
<1>7. \A k \in 0..N : left[k] = f[k]
  <2> DEFINE Off == {k \in 0..N : left[k] # f[k]}
  <2>1. SUFFICES ASSUME Off # {}
                 PROVE  FALSE
    OBVIOUS
  <2>2. PICK n \in Off : \A m \in Off : n <= m
    <3>1. Off \subseteq Nat
      BY <1>1
    <3> HIDE DEF Off
    <3> QED  BY <2>1, <3>1, LeastNat
  <2>3. n # 0
    BY <1>12, <2>2
  <2>4. n - 1 \in 0..N /\ n - 1 \notin Off /\ n \in 1..N
    BY <1>1, <2>2, <2>3
  <2>5. left[n - 1] = f[n - 1] /\ left[n] # f[n]
    BY <2>2, <2>4
  <2> HIDE DEF Grown
  <2> QED  BY <1>11, <2>4, <2>5
<1>8. /\ f[N] \in Seq(S) /\ Members(f[N]) = Seen(N) \ K
      /\ IsInjective(order) => IsInjective(f[N])
  BY <1>1, <1>3
<1>9. Without(order, K) = f[N]
  BY <1>1, <1>6, <1>7
<1>10. ToSet(order) = Seen(N) /\ ToSet(f[N]) = Members(f[N])
  BY <1>1, <1>8 DEF ToSet
<1> HIDE DEF Good, Seen, Members
<1> QED  BY <1>8, <1>9, <1>10

\* One that is taken to the front is there once.
LEMMA FrontIs ==
  ASSUME NEW S, NEW order \in Seq(S), NEW key \in S, IsInjective(order)
  PROVE  /\ <<key>> \o Without(order, {key}) \in Seq(S)
         /\ ToSet(<<key>> \o Without(order, {key})) = ToSet(order) \cup {key}
         /\ IsInjective(<<key>> \o Without(order, {key}))
<1> DEFINE others == Without(order, {key})
           front == <<key>> \o others
<1>1. others \in Seq(S) /\ ToSet(others) = ToSet(order) \ {key} /\ IsInjective(others)
  BY WithoutIs
<1> HIDE DEF others
<1>2. /\ front \in Seq(S) /\ Len(front) = Len(others) + 1 /\ front[1] = key
      /\ \A i \in 2..Len(front) : front[i] = others[i - 1]
  BY <1>1
<1> HIDE DEF front
<1>3. /\ Len(others) \in Nat /\ DOMAIN front = 1..(Len(others) + 1) /\ DOMAIN others = 1..Len(others)
      /\ \A i \in 1..Len(others) : front[i + 1] = others[i]
  BY <1>1, <1>2
<1>4. \A i \in DOMAIN others : others[i] # key
  BY <1>1 DEF ToSet
<1>5. ToSet(front) = ToSet(others) \cup {key}
  <2>1. \A i \in DOMAIN front : i = 1 \/ (i - 1 \in DOMAIN others /\ front[i] = others[i - 1])
    BY <1>2, <1>3
  <2>2. 1 \in DOMAIN front /\ \A i \in DOMAIN others : i + 1 \in DOMAIN front /\ front[i + 1] = others[i]
    BY <1>3
  <2> QED  BY <2>1, <2>2, <1>2 DEF ToSet
<1>6. IsInjective(front)
  <2>1. SUFFICES ASSUME NEW a \in DOMAIN front, NEW b \in DOMAIN front, front[a] = front[b]
                 PROVE  a = b
    BY DEF IsInjective
  <2>2. CASE a = 1 \/ b = 1
    <3>1. \A i \in DOMAIN front : i # 1 => front[i] # key
      <4>1. \A i \in DOMAIN front : i = 1 \/ (i - 1 \in DOMAIN others /\ front[i] = others[i - 1])
        BY <1>2, <1>3
      <4> QED  BY <4>1, <1>4
    <3> QED  BY <3>1, <2>1, <2>2, <1>2
  <2>3. CASE a # 1 /\ b # 1
    <3>1. /\ a - 1 \in DOMAIN others /\ b - 1 \in DOMAIN others
          /\ front[a] = others[a - 1] /\ front[b] = others[b - 1]
      BY <2>3, <1>2, <1>3
    <3>2. a - 1 = b - 1
      BY <3>1, <2>1, <1>1 DEF IsInjective
    <3> QED  BY <3>2, <1>3
  <2> QED  BY <2>2, <2>3
<1> QED  BY <1>1, <1>2, <1>5, <1>6 DEF front, others

\* A function on some of D is one on its own domain.
LEMMA PartialIs ==
  ASSUME NEW D, NEW R, NEW f \in Partial(D, R)
  PROVE  DOMAIN f \subseteq D /\ f \in [DOMAIN f -> R]
BY DEF Partial

\* And the other way round.
LEMMA IsPartial ==
  ASSUME NEW D, NEW R, NEW S, S \subseteq D, NEW f \in [S -> R]
  PROVE  f \in Partial(D, R) /\ DOMAIN f = S
BY DEF Partial

\* There are finitely many keys.
LEMMA KeysFinite == IsFiniteSet(CacheKey)
<1> DEFINE pairs == Source \X (0..(MaxVersion \div 2))
           f == [p \in pairs |-> [of |-> p[1], second |-> p[2]]]
<1>1. IsFiniteSet(pairs)
  <2>1. IsFiniteSet(0..(MaxVersion \div 2))
    BY CacheAssumption, FS_Interval
  <2> QED  BY <2>1, CacheAssumption, FS_Product
<1>2. f \in Surjection(pairs, CacheKey)
  <2>1. f \in [pairs -> CacheKey]
    BY DEF CacheKey
  <2>2. ASSUME NEW k \in CacheKey
        PROVE  \E p \in pairs : f[p] = k
    <3>1. <<k.of, k.second>> \in pairs /\ f[<<k.of, k.second>>] = k
      BY DEF CacheKey
    <3> QED  BY <3>1
  <2> QED  BY <2>1, <2>2 DEF Surjection
<1> QED  BY <1>1, <1>2, FS_Surjection

\* The entries are finitely many, for the keys are.
LEMMA SomeFinite ==
  ASSUME NEW some \in Partial(CacheKey, Entry), NEW K, K \subseteq DOMAIN some
  PROVE  IsFiniteSet(K) /\ Cardinality(K) \in Nat
<1>1. K \in SUBSET CacheKey
  BY PartialIs
<1> QED  BY <1>1, KeysFinite, FS_Subset, FS_CardinalityType

\* What entries take is finite.
LEMMA TakenFinite ==
  ASSUME NEW some \in Partial(CacheKey, Entry), NEW K, K \subseteq DOMAIN some
  PROVE  IsFiniteSet(Taken(some, K)) /\ Cardinality(Taken(some, K)) \in Nat
<1> DEFINE sets == {{k} \X (1..some[k].size) : k \in K}
           f == [k \in K |-> {k} \X (1..some[k].size)]
<1>1. ASSUME NEW k \in K
      PROVE  IsFiniteSet({k} \X (1..some[k].size))
  <2>1. some[k].size \in Nat
    <3>1. some[k] \in Entry
      BY PartialIs
    <3> QED  BY <3>1 DEF Entry
  <2>2. IsFiniteSet(1..some[k].size) /\ IsFiniteSet({k})
    <3>1. 1 \in Int /\ some[k].size \in Int
      BY <2>1
    <3> QED  BY <3>1, FS_Interval, FS_Singleton
  <2> QED  BY <2>2, FS_Product
<1>2. f \in Surjection(K, sets)
  BY DEF Surjection
<1>3. IsFiniteSet(sets)
  BY <1>2, SomeFinite, FS_Surjection
<1>4. \A T \in sets : IsFiniteSet(T)
  BY <1>1
<1>5. IsFiniteSet(UNION sets)
  BY <1>3, <1>4, FS_UNION
<1> QED  BY <1>5, FS_CardinalityType DEF Taken

\* The entries that are left take the rest.
LEMMA TakenApart ==
  ASSUME NEW some \in Partial(CacheKey, Entry), NEW K, K \subseteq DOMAIN some
  PROVE  Cardinality(Taken(some, DOMAIN some \ K)) + Cardinality(Taken(some, K)) = Cardinality(Taken(some, DOMAIN some))
<1> DEFINE A == Taken(some, DOMAIN some \ K)
           B == Taken(some, K)
<1>1. IsFiniteSet(A) /\ IsFiniteSet(B) /\ Cardinality(A) \in Nat /\ Cardinality(B) \in Nat
  BY TakenFinite
<1>2. A \cup B = Taken(some, DOMAIN some)
  BY DEF Taken
<1>3. A \cap B = {}
  BY DEF Taken
<1> HIDE DEF A, B
<1>4. Cardinality(A \cup B) = Cardinality(A) + Cardinality(B) - Cardinality(A \cap B)
  BY <1>1, FS_Union
<1>5. Cardinality(A \cap B) = 0
  BY <1>3, FS_EmptySet
<1>6. Cardinality(A) + Cardinality(B) = Cardinality(A \cup B)
  BY <1>1, <1>4, <1>5
<1>7. Cardinality(A) + Cardinality(B) = Cardinality(Taken(some, DOMAIN some))
  BY <1>2, <1>6
<1> QED  BY <1>7 DEF A, B

\* The memory of some entries depends on their sizes only.
LEMMA TakenSame ==
  ASSUME NEW some, NEW other, NEW K, \A k \in K : some[k].size = other[k].size
  PROVE  Taken(some, K) = Taken(other, K)
BY DEF Taken

\* Its parts are no larger than the whole.
LEMMA TakenLess ==
  ASSUME NEW some \in Partial(CacheKey, Entry), NEW K, K \subseteq DOMAIN some
  PROVE  Cardinality(Taken(some, K)) <= Cardinality(Taken(some, DOMAIN some))
<1>1. Taken(some, K) \in SUBSET Taken(some, DOMAIN some)
  BY DEF Taken
<1>2. IsFiniteSet(Taken(some, DOMAIN some))
  BY TakenFinite
<1> QED  BY <1>1, <1>2, FS_Subset

\* A text of an entry without a race stays, or is that of its source.
TextsKept ==
  \A k \in DOMAIN entries' :
    ~entries'[k].raced =>
      \/ k \in DOMAIN entries /\ ~entries[k].raced /\ entries'[k].text = entries[k].text
      \/ entries'[k].text = file[k.of]
FilesGrow == \A s \in Source : file[s] <= file'[s]
CacheMoves == CacheInv' /\ TextsKept /\ FilesGrow

\* Without a rewrite the files are what they were.
LEMMA FilesStay ==
  ASSUME CacheTyped, UNCHANGED file
  PROVE  FilesGrow /\ file' \in [Source -> Version]
BY CacheAssumption DEF FilesGrow, CacheTyped, Version

\* The entries stay.
LEMMA EntriesStay ==
  ASSUME CacheTyped, UNCHANGED entries
  PROVE  TextsKept
BY DEF TextsKept

\* Entries without a race stay sound when no file changes.
LEMMA SoundStays ==
  ASSUME NEW some, NEW next, Sound(some), UNCHANGED file, next = some
  PROVE  \A k \in DOMAIN next :
           ~next[k].raced =>
             IF next[k].path THEN next[k].text >= next[k].mtime ELSE next[k].text = file'[k.of]
BY DEF Sound

\* Entries leave with all that counts them.
LEMMA RemovesOK ==
  ASSUME CacheTyped, ListFollows, Sound(entries), Sound(disk), NEW K, K \subseteq DOMAIN entries,
         RemoveEntries(K), UNCHANGED <<file, disk, revived>>,
         mu' \in Client \cup {NoClient}, deletes' \in [CacheKey -> Nat]
  PROVE  CacheMoves
<1> DEFINE D == DOMAIN entries
<1>1. /\ entries \in Partial(CacheKey, Entry) /\ D \subseteq CacheKey /\ entries \in [D -> Entry]
      /\ lru \in Seq(CacheKey) /\ totalEntries \in Nat /\ memoryUsage \in Nat
  BY PartialIs DEF CacheTyped
<1>2. entries' = [k \in D \ K |-> entries[k]]
  BY DEF RemoveEntries, Restrict
<1>3. entries' \in Partial(CacheKey, Entry) /\ DOMAIN entries' = D \ K
  <2>1. D \ K \subseteq CacheKey /\ entries' \in [D \ K -> Entry]
    BY <1>1, <1>2
  <2> QED  BY <2>1, IsPartial
<1>4. /\ lru' \in Seq(CacheKey) /\ ToSet(lru') = ToSet(lru) \ K /\ IsInjective(lru')
  <2>1. lru' = Without(lru, K) /\ IsInjective(lru)
    BY DEF RemoveEntries, RemoveFromLRU, ListFollows
  <2> QED  BY <2>1, <1>1, WithoutIs
<1>5. ToSet(lru') = DOMAIN entries' \cup revived' /\ DOMAIN entries' \cap revived' = {}
  BY <1>3, <1>4 DEF ListFollows
<1>6. totalEntries' \in Nat /\ totalEntries' >= Cardinality(DOMAIN entries')
  <2>1. IsFiniteSet(D) /\ Cardinality(K) \in Nat /\ Cardinality(D) \in Nat
    BY <1>1, SomeFinite
  <2>2. Cardinality(D \ K) = Cardinality(D) - Cardinality(D \cap K) /\ Cardinality(D \ K) \in Nat
    <3>1. D \ K \subseteq D
      OBVIOUS
    <3> QED  BY <2>1, <3>1, <1>1, FS_Difference, SomeFinite
  <2>3. D \cap K = K
    OBVIOUS
  <2>4. totalEntries >= Cardinality(D) /\ totalEntries' = totalEntries - Cardinality(K)
    BY DEF ListFollows, RemoveEntries
  <2>5. Cardinality(DOMAIN entries') = Cardinality(D) - Cardinality(K) /\ Cardinality(DOMAIN entries') \in Nat
    BY <1>3, <2>2, <2>3
  <2> QED  BY <1>1, <2>1, <2>4, <2>5
<1>7. memoryUsage' \in Nat /\ memoryUsage' >= SizeOf(DOMAIN entries)'
  <2>1. SizeOf(DOMAIN entries)' = Cardinality(Taken(entries', D \ K))
    BY <1>3 DEF SizeOf
  <2>2. Taken(entries', D \ K) = Taken(entries, D \ K)
    <3>1. \A k \in D \ K : entries'[k].size = entries[k].size
      BY <1>2
    <3> QED  BY <3>1, TakenSame
  <2>3. Cardinality(Taken(entries, D \ K)) + SizeOf(K) = SizeOf(D)
    BY <1>1, TakenApart DEF SizeOf
  <2>4. SizeOf(K) \in Nat /\ SizeOf(D) \in Nat /\ Cardinality(Taken(entries, D \ K)) \in Nat
    <3>1. D \ K \subseteq DOMAIN entries
      OBVIOUS
    <3> QED  BY <1>1, <3>1, TakenFinite DEF SizeOf
  <2>5. memoryUsage >= SizeOf(D) /\ memoryUsage' = memoryUsage - SizeOf(K)
    BY DEF ListFollows, RemoveEntries
  <2> QED  BY <1>1, <2>1, <2>2, <2>3, <2>4, <2>5
<1>8. Sound(entries)' /\ Sound(disk)' /\ TextsKept
  <2>1. \A k \in DOMAIN entries' : k \in D /\ entries'[k] = entries[k]
    BY <1>2
  <2> QED  BY <2>1 DEF Sound, TextsKept
<1>9. CacheTyped'
  BY <1>3, <1>4, <1>6, <1>7 DEF CacheTyped
<1>10. ListFollows'
  BY <1>4, <1>5, <1>6, <1>7 DEF ListFollows
<1>11. FilesGrow
  BY FilesStay
<1> QED  BY <1>8, <1>9, <1>10, <1>11 DEF CacheMoves, CacheInv

\* Entries change in place, without their sizes.
LEMMA ChangesOK ==
  ASSUME CacheTyped, ListFollows, entries' \in Partial(CacheKey, Entry), DOMAIN entries' = DOMAIN entries,
         \A k \in DOMAIN entries : entries'[k].size = entries[k].size,
         UNCHANGED <<lru, totalEntries, memoryUsage, revived>>
  PROVE  ListFollows'
<1>1. SizeOf(DOMAIN entries)' = SizeOf(DOMAIN entries)
  <2>1. Taken(entries', DOMAIN entries) = Taken(entries, DOMAIN entries)
    BY TakenSame
  <2> QED  BY <2>1 DEF SizeOf
<1> QED  BY <1>1 DEF ListFollows

\* A step that leaves entries, list and files.
LEMMA AsideOK ==
  ASSUME CacheInv, UNCHANGED <<file, entries, lru, totalEntries, memoryUsage, disk, revived>>,
         mu' \in Client \cup {NoClient}, deletes' \in [CacheKey -> Nat]
  PROVE  CacheMoves
<1>1. CacheTyped'
  BY DEF CacheInv, CacheTyped
<1>2. ListFollows'
  <2>1. SizeOf(DOMAIN entries)' = SizeOf(DOMAIN entries)
    BY DEF SizeOf
  <2> QED  BY <2>1 DEF CacheInv, ListFollows
<1>3. Sound(entries)' /\ Sound(disk)'
  BY DEF CacheInv, Sound
<1>4. TextsKept /\ FilesGrow
  BY EntriesStay, FilesStay DEF CacheInv
<1> QED  BY <1>1, <1>2, <1>3, <1>4 DEF CacheMoves, CacheInv

\* The lookup of a Get changes none of the indexes.
LEMMA GetLooksUpOK ==
  ASSUME CacheInv, NEW key \in CacheKey, GetLooksUp(key)
  PROVE  CacheMoves /\ mu' = mu
<1>1. deletes' \in [CacheKey -> Nat]
  BY DEF CacheInv, CacheTyped, GetLooksUp
<1>2. mu' \in Client \cup {NoClient}
  BY DEF CacheInv, CacheTyped, GetLooksUp
<1> QED  BY <1>1, <1>2, AsideOK DEF GetLooksUp

\* A Get that moves its key to the front keeps the list and the entries
\* together, even when the key is gone.
LEMMA GetTouchesOK ==
  ASSUME CacheInv, NEW key \in CacheKey, GetTouches(key)
  PROVE  CacheMoves /\ mu' = mu
<1>1. CacheTyped /\ ListFollows
  BY DEF CacheInv
<1>2. lru' \in Seq(CacheKey) /\ ToSet(lru') = ToSet(lru) \cup {key} /\ IsInjective(lru')
  <2>1. lru' = <<key>> \o Without(lru, {key}) /\ lru \in Seq(CacheKey) /\ IsInjective(lru)
    BY <1>1 DEF GetTouches, AddToLRU, CacheTyped, ListFollows
  <2> QED  BY <2>1, FrontIs, ZenonT(60)
<1>3. CacheTyped'
  BY <1>1, <1>2 DEF CacheTyped, GetTouches
<1>4. ListFollows'
  <2>1. SizeOf(DOMAIN entries)' = SizeOf(DOMAIN entries)
    BY DEF SizeOf, GetTouches
  <2>2. /\ ToSet(lru') = DOMAIN entries' \cup revived' /\ DOMAIN entries' \cap revived' = {}
    BY <1>1, <1>2 DEF ListFollows, GetTouches
  <2> QED  BY <1>1, <1>2, <2>1, <2>2 DEF ListFollows, GetTouches
<1>5. Sound(entries)' /\ Sound(disk)'
  BY DEF CacheInv, Sound, GetTouches
<1>6. TextsKept /\ FilesGrow /\ mu' = mu
  BY <1>1, EntriesStay, FilesStay DEF GetTouches
<1> QED  BY <1>3, <1>4, <1>5, <1>6 DEF CacheMoves, CacheInv

\* An eviction removes an entry from every index, or nothing.
LEMMA EvictOneOK ==
  ASSUME CacheInv, NEW c \in Client, NEW size, NEW limits, EvictOne(c, size, limits)
  PROVE  CacheMoves /\ mu' = c
<1>1. mu' = c /\ UNCHANGED <<file, deletes, disk, revived>> /\ deletes' \in [CacheKey -> Nat]
  BY DEF EvictOne, CacheInv, CacheTyped
<1>2. CASE UNCHANGED <<entries, lru, totalEntries, memoryUsage>>
  BY <1>1, <1>2, AsideOK
<1>3. ASSUME NEW key \in DOMAIN entries, RemoveEntries({key})
      PROVE  CacheMoves
  <2>1. {key} \subseteq DOMAIN entries
    OBVIOUS
  <2> QED  BY <1>1, <1>3, <2>1, RemovesOK DEF CacheInv
<1>4. \/ UNCHANGED <<entries, lru, totalEntries, memoryUsage>>
      \/ \E key \in DOMAIN entries : RemoveEntries({key})
  BY DEF EvictOne
<1> QED  BY <1>1, <1>2, <1>3, <1>4

\* A Set puts its entry into every index; the metrics count no less than there
\* is.
LEMMA SetStoresOK ==
  ASSUME CacheInv, NEW c \in Client, NEW key \in CacheKey, NEW entry \in Entry, NEW limits,
         SetStores(c, key, entry, limits), ~entry.path, ~entry.raced => entry.text = file[key.of]
  PROVE  CacheMoves /\ mu' = NoClient /\ DOMAIN entries' = DOMAIN entries \cup {key} /\ entries'[key] = entry
<1> DEFINE D == DOMAIN entries
<1>1. /\ entries \in Partial(CacheKey, Entry) /\ D \subseteq CacheKey /\ entries \in [D -> Entry]
      /\ lru \in Seq(CacheKey) /\ totalEntries \in Nat /\ memoryUsage \in Nat
      /\ CacheTyped /\ ListFollows
  BY PartialIs DEF CacheTyped, CacheInv
<1>2. /\ entries' = [k \in D \cup {key} |-> IF k = key THEN entry ELSE entries[k]]
      /\ totalEntries' = totalEntries + 1 /\ memoryUsage' = memoryUsage + entry.size
      /\ lru' = <<key>> \o Without(lru, {key}) /\ revived' = revived \ {key} /\ mu' = NoClient
      /\ UNCHANGED <<file, deletes, disk>>
  BY DEF SetStores, AddToLRU
<1>3. /\ entries' \in Partial(CacheKey, Entry) /\ DOMAIN entries' = D \cup {key} /\ entries'[key] = entry
      /\ \A k \in D : k # key => entries'[k] = entries[k]
  <2>1. D \cup {key} \subseteq CacheKey /\ entries' \in [D \cup {key} -> Entry]
    BY <1>1, <1>2
  <2>2. entries' \in Partial(CacheKey, Entry) /\ DOMAIN entries' = D \cup {key}
    BY <2>1, IsPartial
  <2> QED  BY <1>2, <2>2
<1>4. lru' \in Seq(CacheKey) /\ ToSet(lru') = ToSet(lru) \cup {key} /\ IsInjective(lru')
  <2>1. IsInjective(lru)
    BY <1>1 DEF ListFollows
  <2> QED  BY <1>1, <1>2, <2>1, FrontIs, ZenonT(60)
<1>5. ToSet(lru') = DOMAIN entries' \cup revived' /\ DOMAIN entries' \cap revived' = {}
  BY <1>1, <1>2, <1>3, <1>4 DEF ListFollows
<1>6. totalEntries' \in Nat /\ totalEntries' >= Cardinality(DOMAIN entries')
  <2>1. IsFiniteSet(D) /\ Cardinality(D) \in Nat
    BY <1>1, SomeFinite
  <2>2. Cardinality(D \cup {key}) <= Cardinality(D) + 1 /\ Cardinality(D \cup {key}) \in Nat
    <3>1. Cardinality(D \cup {key}) = IF key \in D THEN Cardinality(D) ELSE Cardinality(D) + 1
      BY <2>1, FS_AddElement
    <3> QED  BY <2>1, <3>1
  <2>3. Cardinality(DOMAIN entries') = Cardinality(D \cup {key})
    BY <1>3
  <2>4. totalEntries >= Cardinality(D)
    BY <1>1 DEF ListFollows
  <2> HIDE DEF D
  <2> QED  BY <1>1, <1>2, <2>1, <2>2, <2>3, <2>4
<1>7. memoryUsage' \in Nat /\ memoryUsage' >= SizeOf(DOMAIN entries)'
  <2> DEFINE A == Taken(entries', D \ {key})
             B == Taken(entries', {key})
  <2>1. entry.size \in Nat
    BY DEF Entry
  <2>2. A = Taken(entries, D \ {key})
    <3>1. \A k \in D \ {key} : entries'[k].size = entries[k].size
      BY <1>3
    <3> QED  BY <3>1, TakenSame
  <2>3. Cardinality(A) <= SizeOf(D) /\ Cardinality(A) \in Nat /\ SizeOf(D) \in Nat
    <3>1. D \ {key} \subseteq DOMAIN entries
      OBVIOUS
    <3>2. /\ Cardinality(Taken(entries, D \ {key})) <= Cardinality(Taken(entries, D))
          /\ Cardinality(Taken(entries, D \ {key})) \in Nat /\ Cardinality(Taken(entries, D)) \in Nat
      BY <3>1, <1>1, TakenLess, TakenFinite
    <3> QED  BY <3>2, <2>2 DEF SizeOf
  <2>4. Cardinality(B) = entry.size
    <3>1. B = {key} \X (1..entry.size)
      BY <1>3 DEF Taken
    <3>2. IsFiniteSet({key}) /\ Cardinality({key}) = 1
      BY FS_Singleton
    <3>3. IsFiniteSet(1..entry.size) /\ Cardinality(1..entry.size) = entry.size
      <4>1. \A n \in Nat : IsFiniteSet(1..n) /\ Cardinality(1..n) = n
        BY FS_Interval
      <4> QED  BY <2>1, <4>1
    <3>4. Cardinality({key} \X (1..entry.size)) = 1 * entry.size
      BY <3>2, <3>3, FS_Product, ZenonT(60)
    <3>5. 1 * entry.size = entry.size
      BY <2>1
    <3> QED  BY <3>1, <3>4, <3>5
  <2>5. SizeOf(DOMAIN entries)' = Cardinality(A) + Cardinality(B)
    <3>1. DOMAIN entries' \ {key} = D \ {key} /\ {key} \subseteq DOMAIN entries'
      BY <1>3
    <3>2. Cardinality(Taken(entries', DOMAIN entries' \ {key})) + Cardinality(B) = Cardinality(Taken(entries', DOMAIN entries'))
      BY <1>3, <3>1, TakenApart
    <3> QED  BY <3>1, <3>2 DEF SizeOf
  <2>6. memoryUsage >= SizeOf(D)
    BY <1>1 DEF ListFollows
  <2> HIDE DEF A, B, D
  <2> QED  BY <1>1, <1>2, <2>1, <2>3, <2>4, <2>5, <2>6
<1>8. Sound(entries)' /\ Sound(disk)' /\ TextsKept
  <2>1. \A k \in DOMAIN entries' : (k = key /\ entries'[k] = entry) \/ (k \in D /\ entries'[k] = entries[k])
    BY <1>3
  <2>2. Sound(entries) /\ Sound(disk) /\ UNCHANGED <<file, disk>>
    BY <1>2 DEF CacheInv
  <2> QED  BY <2>1, <2>2 DEF Sound, TextsKept
<1>9. CacheTyped'
  BY <1>1, <1>2, <1>3, <1>4, <1>6, <1>7 DEF CacheTyped
<1>10. ListFollows'
  BY <1>4, <1>5, <1>6, <1>7 DEF ListFollows
<1>11. FilesGrow
  BY <1>1, <1>2, FilesStay
<1> QED  BY <1>2, <1>3, <1>8, <1>9, <1>10, <1>11 DEF CacheMoves, CacheInv

\* A path on an entry whose text is not older than the time that goes with it
\* keeps the entry sound.
LEMMA SetsPathOK ==
  ASSUME CacheInv, NEW key, NEW mtime \in Version, SetsPath(key, mtime),
         key \in DOMAIN entries /\ ~entries[key].raced => entries[key].text >= mtime
  PROVE  CacheMoves /\ mu' = mu
<1> DEFINE D == DOMAIN entries
<1>1. /\ entries \in Partial(CacheKey, Entry) /\ D \subseteq CacheKey /\ entries \in [D -> Entry]
      /\ CacheTyped /\ ListFollows
  BY PartialIs DEF CacheTyped, CacheInv
<1>2. /\ UNCHANGED <<file, lru, totalEntries, memoryUsage, mu, deletes, disk, revived>>
      /\ entries' = [k \in D |-> IF k = key THEN [entries[k] EXCEPT !.path = TRUE, !.mtime = mtime] ELSE entries[k]]
  BY DEF SetsPath
<1>3. ASSUME NEW k \in D
      PROVE  /\ entries'[k] \in Entry /\ entries'[k].size = entries[k].size
             /\ entries'[k].text = entries[k].text /\ entries'[k].raced = entries[k].raced
             /\ k = key => entries'[k].path /\ entries'[k].mtime = mtime
             /\ k # key => entries'[k] = entries[k]
  BY <1>1, <1>2 DEF Entry
<1>4. entries' \in Partial(CacheKey, Entry) /\ DOMAIN entries' = D
  <2>1. entries' \in [D -> Entry]
    BY <1>2, <1>3
  <2> QED  BY <1>1, <2>1, IsPartial
<1>5. ListFollows'
  BY <1>1, <1>2, <1>3, <1>4, ChangesOK
<1>6. CacheTyped'
  BY <1>1, <1>2, <1>4 DEF CacheTyped
<1>7. Sound(entries)' /\ Sound(disk)' /\ TextsKept
  <2>1. Sound(entries) /\ Sound(disk)
    BY DEF CacheInv
  <2>2. ASSUME NEW k \in D, ~entries'[k].raced
        PROVE  IF entries'[k].path THEN entries'[k].text >= entries'[k].mtime ELSE entries'[k].text = file'[k.of]
    <3>1. CASE k = key
      BY <3>1, <2>2, <1>3
    <3>2. CASE k # key
      BY <3>2, <2>1, <2>2, <1>2, <1>3 DEF Sound
    <3> QED  BY <3>1, <3>2
  <2>3. Sound(entries)'
    BY <2>2, <1>4 DEF Sound
  <2>4. Sound(disk)'
    BY <2>1, <1>2 DEF Sound
  <2>5. TextsKept
    BY <1>3, <1>4 DEF TextsKept
  <2> QED  BY <2>3, <2>4, <2>5
<1> QED  BY <1>1, <1>2, <1>5, <1>6, <1>7, FilesStay DEF CacheMoves, CacheInv

\* A Delete removes its entry from every index.
LEMMA DeleteOK ==
  ASSUME CacheInv, NEW key, Delete(key), deletes' \in [CacheKey -> Nat]
  PROVE  CacheMoves /\ mu' = mu
<1>1. mu' \in Client \cup {NoClient} /\ mu' = mu
  BY DEF Delete, CacheInv, CacheTyped
<1>2. {key} \cap DOMAIN entries \subseteq DOMAIN entries
  OBVIOUS
<1> QED  BY <1>1, <1>2, RemovesOK DEF CacheInv, Delete

\* So does the one a Get has left to a goroutine.
LEMMA BackgroundDeleteOK ==
  ASSUME CacheInv, BackgroundDelete
  PROVE  CacheMoves /\ mu' = mu
<1>1. PICK key \in CacheKey : deletes[key] > 0 /\ Delete(key) /\ deletes' = [deletes EXCEPT ![key] = @ - 1]
  BY DEF BackgroundDelete
<1>2. deletes' \in [CacheKey -> Nat]
  BY <1>1 DEF CacheInv, CacheTyped
<1> QED  BY <1>1, <1>2, DeleteOK

\* And that of a file that is to be forgotten.
LEMMA InvalidateFileOK ==
  ASSUME CacheInv, NEW s, InvalidateFile(s)
  PROVE  CacheMoves /\ mu' = mu
<1>1. deletes' \in [CacheKey -> Nat]
  BY DEF InvalidateFile, CacheInv, CacheTyped
<1> QED  BY <1>1, DeleteOK DEF InvalidateFile

\* The cleanup removes what is stale from every index.
LEMMA CleanupOK ==
  ASSUME CacheInv, Cleanup
  PROVE  CacheMoves /\ mu' = mu
<1> DEFINE K == {k \in DOMAIN entries : entries[k].expired \/ ~IsFileValid(entries[k], k.of)}
<1>1. mu' \in Client \cup {NoClient} /\ mu' = mu /\ deletes' \in [CacheKey -> Nat]
  BY DEF Cleanup, CacheInv, CacheTyped
<1>2. K \subseteq DOMAIN entries /\ RemoveEntries(K) /\ UNCHANGED <<file, disk, revived>>
  BY DEF Cleanup
<1> HIDE DEF K
<1> QED  BY <1>1, <1>2, RemovesOK DEF CacheInv

\* No entries take no memory.
LEMMA NothingTaken == \A some : Cardinality(Taken(some, {})) = 0 /\ Cardinality({}) = 0
<1>1. \A some : Taken(some, {}) = {}
  BY DEF Taken
<1> QED  BY <1>1, FS_EmptySet

\* The cache without an entry.
LEMMA EmptyCache ==
  ASSUME entries = <<>>
  PROVE  /\ entries \in Partial(CacheKey, Entry) /\ DOMAIN entries = {} /\ SizeOf(DOMAIN entries) = 0
         /\ Cardinality(DOMAIN entries) = 0 /\ Sound(entries) /\ IsInjective(<<>>) /\ ToSet(<<>>) = {}
<1>1. DOMAIN entries = {} /\ entries \in [{} -> Entry]
  OBVIOUS
<1>2. entries \in Partial(CacheKey, Entry)
  BY <1>1, IsPartial
<1>3. SizeOf(DOMAIN entries) = 0 /\ Cardinality(DOMAIN entries) = 0
  BY <1>1, NothingTaken DEF SizeOf
<1> QED  BY <1>1, <1>2, <1>3 DEF Sound, IsInjective, ToSet

\* An empty cache is well.
LEMMA EmptyOK ==
  ASSUME file \in [Source -> Version], disk \in Partial(CacheKey, Entry), Sound(disk),
         entries = <<>>, lru = <<>>, totalEntries = 0, memoryUsage = 0, revived = {},
         mu \in Client \cup {NoClient}, deletes \in [CacheKey -> Nat]
  PROVE  CacheInv
<1>1. CacheTyped
  BY EmptyCache DEF CacheTyped
<1>2. ListFollows
  BY EmptyCache DEF ListFollows
<1> QED  BY <1>1, <1>2, EmptyCache DEF CacheInv

\* It is so at the beginning.
LEMMA CacheInitOK ==
  ASSUME CacheInit
  PROVE  CacheInv /\ mu = NoClient
<1>1. file \in [Source -> Version] /\ deletes \in [CacheKey -> Nat] /\ mu = NoClient
  BY CacheAssumption DEF CacheInit, Version
<1>2. disk \in Partial(CacheKey, Entry) /\ Sound(disk)
  <2>1. DOMAIN disk = {} /\ disk \in [{} -> Entry]
    BY DEF CacheInit
  <2>2. disk \in Partial(CacheKey, Entry)
    BY <2>1, IsPartial
  <2> QED  BY <2>1, <2>2 DEF Sound
<1> QED  BY <1>1, <1>2, EmptyOK DEF CacheInit

\* Clear leaves an empty cache.
LEMMA ClearOK ==
  ASSUME CacheInv, Clear
  PROVE  CacheMoves /\ mu' = mu
<1>1. /\ entries' = <<>> /\ lru' = <<>> /\ totalEntries' = 0 /\ memoryUsage' = 0 /\ revived' = {}
      /\ UNCHANGED <<file, mu, deletes, disk>>
  BY DEF Clear
<1>2. /\ file' \in [Source -> Version] /\ disk' \in Partial(CacheKey, Entry)
      /\ mu' \in Client \cup {NoClient} /\ deletes' \in [CacheKey -> Nat]
  BY <1>1 DEF CacheInv, CacheTyped
<1>3. Sound(disk)'
  BY <1>1 DEF CacheInv, Sound
<1>4. /\ entries' \in Partial(CacheKey, Entry) /\ DOMAIN entries' = {} /\ SizeOf(DOMAIN entries)' = 0
      /\ Cardinality(DOMAIN entries') = 0 /\ IsInjective(<<>>) /\ ToSet(<<>>) = {}
  <2>1. DOMAIN entries' = {} /\ entries' \in [{} -> Entry]
    BY <1>1
  <2>2. entries' \in Partial(CacheKey, Entry)
    BY <2>1, IsPartial
  <2>3. SizeOf(DOMAIN entries)' = 0 /\ Cardinality(DOMAIN entries') = 0
    BY <2>1, NothingTaken DEF SizeOf
  <2>4. IsInjective(<<>>) /\ ToSet(<<>>) = {}
    BY DEF IsInjective, ToSet
  <2> QED  BY <2>1, <2>2, <2>3, <2>4
<1>5. CacheTyped'
  BY <1>1, <1>2, <1>4 DEF CacheTyped
<1>6. ListFollows'
  BY <1>1, <1>4 DEF ListFollows
<1>7. Sound(entries)' /\ TextsKept
  BY <1>4 DEF Sound, TextsKept
<1>8. FilesGrow
  BY <1>1, FilesStay DEF CacheInv
<1> QED  BY <1>1, <1>3, <1>5, <1>6, <1>7, <1>8 DEF CacheMoves, CacheInv

\* An entry that grows old stays where it is.
LEMMA ExpireOK ==
  ASSUME CacheInv, NEW key, Expire(key)
  PROVE  CacheMoves /\ mu' = mu
<1> DEFINE D == DOMAIN entries
<1>1. /\ entries \in Partial(CacheKey, Entry) /\ D \subseteq CacheKey /\ entries \in [D -> Entry]
      /\ CacheTyped /\ ListFollows /\ Sound(entries) /\ Sound(disk)
  BY PartialIs DEF CacheTyped, CacheInv
<1>2. /\ UNCHANGED <<file, lru, totalEntries, memoryUsage, mu, deletes, disk, revived>>
      /\ key \in D /\ entries' = [entries EXCEPT ![key].expired = TRUE]
  BY DEF Expire
<1>3. ASSUME NEW k \in D
      PROVE  /\ entries'[k] \in Entry /\ entries'[k].size = entries[k].size
             /\ entries'[k].text = entries[k].text /\ entries'[k].raced = entries[k].raced
             /\ entries'[k].path = entries[k].path /\ entries'[k].mtime = entries[k].mtime
  BY <1>1, <1>2 DEF Entry
<1>4. entries' \in Partial(CacheKey, Entry) /\ DOMAIN entries' = D
  <2>1. entries' \in [D -> Entry]
    BY <1>1, <1>2, <1>3
  <2> QED  BY <1>1, <2>1, IsPartial
<1>5. ListFollows'
  BY <1>1, <1>2, <1>3, <1>4, ChangesOK
<1>6. CacheTyped'
  BY <1>1, <1>2, <1>4 DEF CacheTyped
<1>7. Sound(entries)'
  BY <1>1, <1>2, <1>3, <1>4 DEF Sound
<1>8. Sound(disk)'
  BY <1>1, <1>2 DEF Sound
<1>9. TextsKept
  BY <1>3, <1>4 DEF TextsKept
<1> QED  BY <1>1, <1>2, <1>5, <1>6, <1>7, <1>8, <1>9, FilesStay DEF CacheMoves, CacheInv

\* A change of a file is a race with the entries that have no path.
LEMMA RaceIs ==
  ASSUME NEW some \in Partial(CacheKey, Entry), NEW f
  PROVE  /\ Race(f, some) \in Partial(CacheKey, Entry) /\ DOMAIN Race(f, some) = DOMAIN some
         /\ \A k \in DOMAIN some :
              /\ Race(f, some)[k].size = some[k].size /\ Race(f, some)[k].text = some[k].text
              /\ Race(f, some)[k].path = some[k].path /\ Race(f, some)[k].mtime = some[k].mtime
              /\ ~Race(f, some)[k].raced => ~some[k].raced /\ (k.of # f \/ some[k].path)
<1>1. DOMAIN some \subseteq CacheKey /\ some \in [DOMAIN some -> Entry]
  BY PartialIs
<1>2. \A k \in DOMAIN some :
        /\ Race(f, some)[k] \in Entry
        /\ Race(f, some)[k].size = some[k].size /\ Race(f, some)[k].text = some[k].text
        /\ Race(f, some)[k].path = some[k].path /\ Race(f, some)[k].mtime = some[k].mtime
        /\ ~Race(f, some)[k].raced => ~some[k].raced /\ (k.of # f \/ some[k].path)
  BY <1>1 DEF Race, Entry
<1>3. Race(f, some) \in [DOMAIN some -> Entry]
  BY <1>1 DEF Race, Entry
<1>4. Race(f, some) \in Partial(CacheKey, Entry) /\ DOMAIN Race(f, some) = DOMAIN some
  BY <1>1, <1>3, IsPartial
<1> QED  BY <1>2, <1>4

\* A file that changes leaves the entries sound: those without a path have had a
\* race, the others are not newer than it.
LEMMA RewriteOK ==
  ASSUME CacheInv, NEW f \in Files, Rewrite(f)
  PROVE  CacheMoves /\ mu' = mu
<1>1. /\ CacheTyped /\ ListFollows /\ Sound(entries) /\ Sound(disk)
      /\ entries \in Partial(CacheKey, Entry) /\ disk \in Partial(CacheKey, Entry)
      /\ file \in [Source -> Version] /\ f \in Source
  BY DEF CacheInv, CacheTyped, Source
<1>2. /\ file[f] < MaxVersion /\ file' = [file EXCEPT ![f] = file[f] + 1]
      /\ entries' = Race(f, entries) /\ disk' = Race(f, disk)
      /\ UNCHANGED <<lru, totalEntries, memoryUsage, mu, deletes, revived>>
  BY DEF Rewrite
<1>3. file' \in [Source -> Version] /\ \A s \in Source : file[s] <= file'[s] /\ (s # f => file'[s] = file[s])
  BY <1>1, <1>2, CacheAssumption DEF Version
<1>4. entries' \in Partial(CacheKey, Entry) /\ DOMAIN entries' = DOMAIN entries /\ disk' \in Partial(CacheKey, Entry)
  BY <1>1, <1>2, RaceIs
<1>5. CacheTyped'
  BY <1>1, <1>2, <1>3, <1>4 DEF CacheTyped
<1>6. ListFollows'
  <2>1. \A k \in DOMAIN entries : entries'[k].size = entries[k].size
    BY <1>1, <1>2, RaceIs
  <2> QED  BY <2>1, <1>1, <1>2, <1>4, ChangesOK
<1>7. ASSUME NEW some \in Partial(CacheKey, Entry), Sound(some), NEW k \in DOMAIN some, ~Race(f, some)[k].raced
      PROVE  IF Race(f, some)[k].path THEN Race(f, some)[k].text >= Race(f, some)[k].mtime
             ELSE Race(f, some)[k].text = file'[k.of]
  <2>1. /\ Race(f, some)[k].text = some[k].text
        /\ Race(f, some)[k].path = some[k].path /\ Race(f, some)[k].mtime = some[k].mtime
        /\ ~some[k].raced /\ (k.of # f \/ some[k].path)
    BY <1>7, RaceIs
  <2>2. k.of \in Source
    <3>1. k \in CacheKey
      BY PartialIs
    <3> QED  BY <3>1 DEF CacheKey
  <2> QED  BY <2>1, <2>2, <1>3, <1>7 DEF Sound
<1>8. Sound(entries)'
  BY <1>1, <1>2, <1>4, <1>7 DEF Sound
<1>9. Sound(disk)'
  <2>1. DOMAIN disk' = DOMAIN disk
    BY <1>1, <1>2, RaceIs
  <2> QED  BY <2>1, <1>1, <1>2, <1>7 DEF Sound
<1>10. TextsKept
  <2>1. ASSUME NEW k \in DOMAIN entries', ~entries'[k].raced
        PROVE  k \in DOMAIN entries /\ ~entries[k].raced /\ entries'[k].text = entries[k].text
    BY <2>1, <1>1, <1>2, <1>4, RaceIs
  <2> QED  BY <2>1 DEF TextsKept
<1> QED  BY <1>2, <1>3, <1>5, <1>6, <1>8, <1>9, <1>10 DEF CacheMoves, CacheInv, FilesGrow

\* What is persisted is as sound as the entries.
LEMMA PersistOK ==
  ASSUME CacheInv, Persist
  PROVE  CacheMoves /\ mu' = mu
<1>1. /\ disk' = entries /\ UNCHANGED <<file, entries, lru, totalEntries, memoryUsage, mu, deletes, revived>>
      /\ CacheTyped /\ ListFollows /\ Sound(entries)
  BY DEF Persist, CacheInv
<1>2. CacheTyped'
  BY <1>1 DEF CacheTyped
<1>3. ListFollows'
  <2>1. SizeOf(DOMAIN entries)' = SizeOf(DOMAIN entries)
    BY <1>1 DEF SizeOf
  <2> QED  BY <1>1, <2>1 DEF ListFollows
<1>4. Sound(entries)' /\ Sound(disk)'
  BY <1>1 DEF Sound
<1> QED  BY <1>1, <1>2, <1>3, <1>4, EntriesStay, FilesStay DEF CacheMoves, CacheInv

\* A new process lists and counts just what it loads.
LEMMA LoadOK ==
  ASSUME CacheInv, Load
  PROVE  CacheInv' /\ mu' = NoClient /\ file' = file
<1> DEFINE kept == {k \in DOMAIN disk : ~disk[k].expired}
<1>1. /\ entries' = [k \in kept |-> disk[k]] /\ lru' \in SetToSeqs(kept)
      /\ totalEntries' = Cardinality(kept) /\ memoryUsage' = Cardinality(Taken(disk, kept))
      /\ mu' = NoClient /\ deletes' = [k \in CacheKey |-> 0] /\ revived' = {} /\ UNCHANGED <<file, disk>>
  BY DEF Load, Restrict
<1>2. /\ disk \in Partial(CacheKey, Entry) /\ disk \in [DOMAIN disk -> Entry] /\ DOMAIN disk \subseteq CacheKey
      /\ kept \subseteq DOMAIN disk /\ Sound(disk) /\ CacheTyped
  BY PartialIs DEF CacheInv, CacheTyped
<1> HIDE DEF kept
<1>3. entries' \in Partial(CacheKey, Entry) /\ DOMAIN entries' = kept
  <2>1. kept \subseteq CacheKey /\ entries' \in [kept -> Entry]
    BY <1>1, <1>2
  <2> QED  BY <2>1, IsPartial
<1>4. IsFiniteSet(kept) /\ Cardinality(kept) \in Nat /\ Cardinality(Taken(disk, kept)) \in Nat
  BY <1>2, SomeFinite, TakenFinite
<1>5. lru' \in Seq(kept) /\ ToSet(lru') = kept /\ IsInjective(lru')
  BY <1>1, <1>4, Listing
<1>6. lru' \in Seq(CacheKey)
  <2>1. kept \subseteq CacheKey
    BY <1>2
  <2> QED  BY <1>5, <2>1
<1>7. CacheTyped'
  BY <1>1, <1>2, <1>3, <1>4, <1>6 DEF CacheTyped
<1>8. ListFollows'
  <2>1. SizeOf(DOMAIN entries)' = memoryUsage'
    <3>1. Taken(entries', kept) = Taken(disk, kept)
      <4>1. \A k \in kept : entries'[k].size = disk[k].size
        BY <1>1
      <4> QED  BY <4>1, TakenSame
    <3> QED  BY <3>1, <1>1, <1>3 DEF SizeOf
  <2> QED  BY <2>1, <1>1, <1>3, <1>4, <1>5 DEF ListFollows
<1>9. Sound(entries)' /\ Sound(disk)'
  BY <1>1, <1>2, <1>3 DEF Sound
<1> QED  BY <1>1, <1>7, <1>8, <1>9 DEF CacheInv

\* The invariant of the cache has its types.
LEMMA CacheIsTyped ==
  ASSUME CacheInv
  PROVE  CacheTypeOK
<1>1. CacheTyped /\ ListFollows
  BY DEF CacheInv
<1>2. ASSUME NEW e \in {entries, disk}
      PROVE  DOMAIN e \subseteq CacheKey /\ Range(e) \subseteq Entry
  <2>1. e \in Partial(CacheKey, Entry)
    BY <1>1 DEF CacheTyped
  <2>2. DOMAIN e \subseteq CacheKey /\ e \in [DOMAIN e -> Entry]
    BY <2>1, PartialIs
  <2> QED  BY <2>2 DEF Range
<1> QED  BY <1>1, <1>2 DEF CacheTypeOK, CacheTyped, ListFollows

Gens == 0..MaxGenerations

\* What a step of the pool leaves of the tasks of c.
FewerQueued(c) ==
  \A g \in Gens : \A task \in ToSet(chan'[g].tasks) : task.for = c => task \in ToSet(chan[g].tasks)
StillWork(c) ==
  \A w \in Worker :
    worker'[w].at \in {"parse", "share", "reply"} /\ worker'[w].task.for = c =>
      \/ /\ Busy(w) /\ worker'[w].task = worker[w].task
         /\ worker'[w].at # "parse" =>
              \/ worker[w].at # "parse" /\ worker'[w].result = worker[w].result
              \/ worker'[w].result.of = worker[w].task.of /\ worker'[w].result.text = file[worker[w].task.of]
      \/ worker'[w].at = "parse" /\ \E g \in Gens : worker'[w].task \in ToSet(chan[g].tasks)
SameFlight(c, i) == Flying(c, i)' = Flying(c, i) /\ Carried(c, i)' = Carried(c, i)
PoolKeeps(c, i) == FewerQueued(c) /\ StillWork(c) /\ SameFlight(c, i)

\* A generation that runs after the step did before, or is new.
NoneRevived ==
  \/ generation' = generation /\ (~chan'[generation].done => ~chan[generation].done)
  \/ generation' = generation + 1
PoolMoves == PoolInv' /\ NoneRevived /\ \A c \in Client, i \in Nat : PoolKeeps(c, i)

-----------------------------------------------------------------------------
\* The types of the pool.
LEMMA PoolIs ==
  ASSUME PoolInv
  PROVE  /\ generation \in Gens /\ MaxGenerations \in Nat /\ QueueSize \in Nat \ {0} /\ started \in BOOLEAN
         /\ chan \in [Gens -> ChanType] /\ worker \in [Worker -> WorkerType]
         /\ \A g \in Gens : /\ chan[g].tasks \in Seq(TaskType) /\ chan[g].results \in Seq(ResultType)
                            /\ Len(chan[g].tasks) <= QueueSize /\ Len(chan[g].results) <= QueueSize
BY PoolAssumption DEF PoolInv, PoolTyped, ChanType, Gens

\* The workers are finitely many.
LEMMA WorkersFinite == IsFiniteSet(Worker)
<1>1. IsFiniteSet(1..MaxGenerations) /\ IsFiniteSet(1..NumWorkers)
  <2>1. 1 \in Int /\ MaxGenerations \in Int /\ NumWorkers \in Int
    BY PoolAssumption
  <2> QED  BY <2>1, FS_Interval
<1> QED  BY <1>1, FS_Product DEF Worker, Generation

\* The tasks on their way are finitely many.
LEMMA FlyingFinite ==
  ASSUME NEW c, NEW i
  PROVE  /\ IsFiniteSet(Queued(c, i)) /\ IsFiniteSet(Handled(c, i))
         /\ Cardinality(Queued(c, i)) \in Nat /\ Cardinality(Handled(c, i)) \in Nat
         /\ Flying(c, i) \in Nat
<1> DEFINE places == (0..MaxGenerations) \X (1..QueueSize)
<1>1. IsFiniteSet(places)
  <2>1. 0 \in Int /\ 1 \in Int /\ MaxGenerations \in Int /\ QueueSize \in Int
    BY PoolAssumption
  <2>2. IsFiniteSet(0..MaxGenerations) /\ IsFiniteSet(1..QueueSize)
    BY <2>1, FS_Interval
  <2> QED  BY <2>2, FS_Product
<1>2. Queued(c, i) \in SUBSET places /\ Handled(c, i) \in SUBSET Worker
  BY DEF Queued, Handled
<1>3. IsFiniteSet(Queued(c, i)) /\ IsFiniteSet(Handled(c, i))
  BY <1>1, <1>2, WorkersFinite, FS_Subset
<1>4. Cardinality(Queued(c, i)) \in Nat /\ Cardinality(Handled(c, i)) \in Nat
  BY <1>3, FS_CardinalityType
<1> QED  BY <1>3, <1>4 DEF Flying

\* The same tasks in the same places are the same on their way.
LEMMA SameQueued ==
  ASSUME NEW c, NEW i, \A g \in Gens : chan'[g].tasks = chan[g].tasks
  PROVE  /\ Queued(c, i)' = Queued(c, i)
         /\ {chan'[p[1]].tasks[p[2]].of : p \in Queued(c, i)'} = {chan[p[1]].tasks[p[2]].of : p \in Queued(c, i)}
<1>1. Queued(c, i)' = Queued(c, i)
  BY DEF Queued, Gens
<1>2. \A p \in Queued(c, i) : chan'[p[1]].tasks[p[2]].of = chan[p[1]].tasks[p[2]].of
  BY DEF Queued, Gens
<1> QED  BY <1>1, <1>2

\* A step that takes no worker's task away leaves the tasks the workers have.
LEMMA SameHandled ==
  ASSUME NEW c, NEW i,
         \A w \in Worker : /\ worker'[w].at \in {"parse", "share", "reply"} <=> Busy(w)
                           /\ Busy(w) => worker'[w].task = worker[w].task
  PROVE  /\ Handled(c, i)' = Handled(c, i)
         /\ {worker'[w].task.of : w \in Handled(c, i)'} = {worker[w].task.of : w \in Handled(c, i)}
<1>1. Handled(c, i)' = Handled(c, i)
  BY DEF Handled, Busy
<1>2. \A w \in Handled(c, i) : worker'[w].task.of = worker[w].task.of
  BY DEF Handled
<1> QED  BY <1>1, <1>2

\* What is on its way after a step.
LEMMA FlightThen ==
  ASSUME NEW c, NEW i
  PROVE  /\ Flying(c, i)' = Cardinality(Queued(c, i)') + Cardinality(Handled(c, i)')
         /\ Carried(c, i)' = {chan'[p[1]].tasks[p[2]].of : p \in Queued(c, i)'}
                             \cup {worker'[w].task.of : w \in Handled(c, i)'}
BY DEF Flying, Carried

\* A step that neither moves a task nor ends one leaves all that is on its way.
LEMMA FlightStays ==
  ASSUME NEW c, NEW i, \A g \in Gens : chan'[g].tasks = chan[g].tasks,
         \A w \in Worker : /\ worker'[w].at \in {"parse", "share", "reply"} <=> Busy(w)
                           /\ Busy(w) => worker'[w].task = worker[w].task
  PROVE  SameFlight(c, i)
<1>1. /\ Queued(c, i)' = Queued(c, i) /\ Handled(c, i)' = Handled(c, i)
      /\ {chan'[p[1]].tasks[p[2]].of : p \in Queued(c, i)'} = {chan[p[1]].tasks[p[2]].of : p \in Queued(c, i)}
      /\ {worker'[w].task.of : w \in Handled(c, i)'} = {worker[w].task.of : w \in Handled(c, i)}
  BY SameQueued, SameHandled
<1>2. Flying(c, i)' = Flying(c, i)
  BY <1>1, FlightThen DEF Flying
<1>3. Carried(c, i)' = Carried(c, i)
  BY <1>1, FlightThen DEF Carried
<1> QED  BY <1>2, <1>3 DEF SameFlight

\* Steps that leave the tasks where they are.
LEMMA KeepsTasks ==
  ASSUME NEW c, NEW i, \A g \in Gens : chan'[g].tasks = chan[g].tasks,
         \A w \in Worker :
           /\ worker'[w].at \in {"parse", "share", "reply"} <=> Busy(w)
           /\ Busy(w) => /\ worker'[w].task = worker[w].task
                         /\ worker'[w].at # "parse" =>
                              \/ worker[w].at # "parse" /\ worker'[w].result = worker[w].result
                              \/ /\ worker'[w].result.of = worker[w].task.of
                                 /\ worker'[w].result.text = file[worker[w].task.of]
  PROVE  PoolKeeps(c, i)
<1>1. SameFlight(c, i)
  BY FlightStays
<1>2. FewerQueued(c)
  BY DEF FewerQueued
<1>3. StillWork(c)
  BY DEF StillWork
<1> QED  BY <1>1, <1>2, <1>3 DEF PoolKeeps

\* So does one that touches neither the queues nor the workers.
LEMMA KeepsAll ==
  ASSUME NEW c, NEW i, \A g \in Gens : chan'[g].tasks = chan[g].tasks, worker' = worker
  PROVE  PoolKeeps(c, i)
<1>1. \A w \in Worker :
        /\ worker'[w].at \in {"parse", "share", "reply"} <=> Busy(w)
        /\ Busy(w) => /\ worker'[w].task = worker[w].task
                      /\ worker'[w].at # "parse" => worker[w].at # "parse" /\ worker'[w].result = worker[w].result
  BY DEF Busy
<1> QED  BY <1>1, KeepsTasks

\* Queues that nobody touches keep their bounds.
LEMMA ChansKept ==
  ASSUME PoolInv, UNCHANGED chan
  PROVE  /\ chan' \in [Gens -> ChanType]
         /\ \A g \in Gens : /\ Len(chan'[g].tasks) <= QueueSize /\ Len(chan'[g].results) <= QueueSize
                            /\ g > generation => chan'[g].tasks = <<>>
BY PoolIs DEF PoolInv, Gens

\* One channel changes.
LEMMA OneChan ==
  ASSUME PoolInv, NEW g \in Gens, NEW state \in ChanType, chan' = [chan EXCEPT ![g] = state],
         Len(state.tasks) <= QueueSize, Len(state.results) <= QueueSize,
         g > generation => state.tasks = <<>>
  PROVE  /\ chan' \in [Gens -> ChanType] /\ chan'[g] = state
         /\ \A h \in Gens : /\ Len(chan'[h].tasks) <= QueueSize /\ Len(chan'[h].results) <= QueueSize
                            /\ h > generation => chan'[h].tasks = <<>>
                            /\ h # g => chan'[h] = chan[h]
<1>1. chan \in [Gens -> ChanType]
  BY PoolIs
<1>2. chan' \in [Gens -> ChanType] /\ chan'[g] = state /\ \A h \in Gens : h # g => chan'[h] = chan[h]
  BY <1>1
<1>3. \A h \in Gens : /\ Len(chan[h].tasks) <= QueueSize /\ Len(chan[h].results) <= QueueSize
                      /\ h > generation => chan[h].tasks = <<>>
  BY DEF PoolInv, Gens
<1>4. ASSUME NEW h \in Gens
      PROVE  /\ Len(chan'[h].tasks) <= QueueSize /\ Len(chan'[h].results) <= QueueSize
             /\ h > generation => chan'[h].tasks = <<>>
  <2>1. CASE h = g
    BY <2>1, <1>2
  <2>2. CASE h # g
    BY <2>2, <1>2, <1>3
  <2> QED  BY <2>1, <2>2
<1> QED  BY <1>2, <1>4

WorkerSound(state, on) ==
  /\ state.on <= on
  /\ state.at \in {"parse", "share", "reply"} => state.task \in TaskType
  /\ state.at \in {"share", "reply"} => state.result \in ResultType /\ state.result.of = state.task.of

\* The type of a worker, and what its task and result are.
LEMMA WorkersAre ==
  ASSUME PoolInv, NEW w \in Worker
  PROVE  /\ worker[w] \in WorkerType /\ WorkerSound(worker[w], generation)
         /\ worker[w].at # "none" => w[1] <= generation
<1>1. worker[w] \in WorkerType /\ generation \in Gens
  BY PoolIs
<1>2. WorkerSound(worker[w], generation)
  BY DEF PoolInv, WorkerSound, Busy
<1>3. w[1] > generation => worker[w] = NotRunning
  BY DEF PoolInv
<1>4. w[1] \in Nat
  BY DEF Worker, Generation
<1>5. worker[w].at # "none" => ~(w[1] > generation)
  BY <1>3 DEF NotRunning
<1>6. generation \in Nat
  BY <1>1 DEF Gens
<1> QED  BY <1>1, <1>2, <1>4, <1>5, <1>6

\* The pool's invariant from its parts.
LEMMA PoolFrom ==
  ASSUME generation' \in Gens, started' \in BOOLEAN,
         chan' \in [Gens -> ChanType],
         \A g \in Gens : /\ Len(chan'[g].tasks) <= QueueSize /\ Len(chan'[g].results) <= QueueSize
                         /\ g > generation' => chan'[g].tasks = <<>>,
         worker' \in [Worker -> WorkerType],
         \A w \in Worker : WorkerSound(worker'[w], generation') /\ (w[1] > generation' => worker'[w] = NotRunning)
  PROVE  PoolInv'
BY DEF PoolInv, PoolTyped, Gens, WorkerSound, Busy

\* One worker moves.
LEMMA OneWorker ==
  ASSUME PoolInv, UNCHANGED <<generation, started>>, chan' \in [Gens -> ChanType],
         \A g \in Gens : /\ Len(chan'[g].tasks) <= QueueSize /\ Len(chan'[g].results) <= QueueSize
                         /\ g > generation => chan'[g].tasks = <<>>,
         NEW w \in Worker, worker[w].at # "none", NEW state \in WorkerType, Becomes(w, state),
         WorkerSound(state, generation)
  PROVE  /\ PoolInv' /\ worker'[w] = state
         /\ \A v \in Worker : v # w => worker'[v] = worker[v]
<1>1. worker \in [Worker -> WorkerType] /\ generation \in Gens /\ started \in BOOLEAN
  BY PoolIs
<1>2. /\ worker' \in [Worker -> WorkerType] /\ worker'[w] = state
      /\ \A v \in Worker : v # w => worker'[v] = worker[v]
  BY <1>1 DEF Becomes
<1>3. ASSUME NEW v \in Worker
      PROVE  WorkerSound(worker'[v], generation') /\ (v[1] > generation' => worker'[v] = NotRunning)
  <2>1. CASE v = w
    <3>1. v[1] <= generation /\ v[1] \in Nat /\ generation \in Nat
      BY <2>1, <1>1, WorkersAre DEF Worker, Generation, Gens
    <3>2. ~(v[1] > generation)
      BY <3>1
    <3> QED  BY <2>1, <3>2, <1>2
  <2>2. CASE v # w
    <3>1. WorkerSound(worker[v], generation) /\ (v[1] > generation => worker[v] = NotRunning)
      BY WorkersAre DEF PoolInv
    <3> QED  BY <2>2, <3>1, <1>2
  <2> QED  BY <2>1, <2>2
<1>4. PoolInv'
  BY <1>1, <1>2, <1>3, PoolFrom
<1> QED  BY <1>2, <1>4

\* No worker moves.
LEMMA NoWorker ==
  ASSUME PoolInv, UNCHANGED <<generation, worker>>, started' \in BOOLEAN, chan' \in [Gens -> ChanType],
         \A g \in Gens : /\ Len(chan'[g].tasks) <= QueueSize /\ Len(chan'[g].results) <= QueueSize
                         /\ g > generation => chan'[g].tasks = <<>>
  PROVE  PoolInv'
<1>1. worker \in [Worker -> WorkerType] /\ generation \in Gens
  BY PoolIs
<1>2. \A w \in Worker : WorkerSound(worker[w], generation) /\ (w[1] > generation => worker[w] = NotRunning)
  BY WorkersAre DEF PoolInv
<1> QED  BY <1>1, <1>2, PoolFrom

-----------------------------------------------------------------------------
\* A step elsewhere.
LEMMA PoolStays ==
  ASSUME PoolInv, UNCHANGED poolVars
  PROVE  PoolMoves
<1>1. UNCHANGED <<generation, started, chan, worker>>
  BY DEF poolVars
<1>2. PoolInv'
  BY <1>1, NoWorker, ChansKept, PoolIs
<1>3. NoneRevived
  BY <1>1 DEF NoneRevived
<1> QED  BY <1>1, <1>2, <1>3, KeepsAll DEF PoolMoves

\* Stop lowers the flag.
LEMMA StopBeginsOK ==
  ASSUME PoolInv, StopBegins
  PROVE  PoolMoves
<1>1. started' \in BOOLEAN /\ UNCHANGED <<generation, chan, worker>>
  BY DEF StopBegins
<1>2. PoolInv'
  BY <1>1, NoWorker, ChansKept
<1>3. NoneRevived
  BY <1>1 DEF NoneRevived
<1> QED  BY <1>1, <1>2, <1>3, KeepsAll DEF PoolMoves

\* A step of a Stop, or the taking of a result: the queues keep their tasks.
LEMMA ChanStepOK ==
  ASSUME PoolInv, NEW g \in Gens, NEW state \in ChanType, chan' = [chan EXCEPT ![g] = state],
         state.tasks = chan[g].tasks, Len(state.results) <= QueueSize, chan[g].done => state.done,
         UNCHANGED <<generation, started, worker>>
  PROVE  PoolMoves
<1>1. /\ started' \in BOOLEAN /\ UNCHANGED <<generation, worker>> /\ generation \in Gens
      /\ Len(state.tasks) <= QueueSize /\ (g > generation => state.tasks = <<>>)
  BY PoolIs DEF PoolInv, Gens
<1>2. /\ chan' \in [Gens -> ChanType] /\ chan'[g] = state
      /\ \A h \in Gens : /\ Len(chan'[h].tasks) <= QueueSize /\ Len(chan'[h].results) <= QueueSize
                         /\ h > generation => chan'[h].tasks = <<>>
                         /\ h # g => chan'[h] = chan[h]
  BY <1>1, OneChan
<1>3. PoolInv'
  BY <1>1, <1>2, NoWorker
<1>4. \A h \in Gens : chan'[h].tasks = chan[h].tasks /\ (chan[h].done => chan'[h].done)
  BY <1>2
<1>5. NoneRevived
  BY <1>1, <1>4 DEF NoneRevived
<1> QED  BY <1>1, <1>3, <1>4, <1>5, KeepsAll DEF PoolMoves

\* Stop cancels the context of a generation, closes its queue or its results: no
\* task moves.
LEMMA StopStepsOK ==
  ASSUME PoolInv, NEW g \in Gens, StopCancels(g) \/ StopCloses(g) \/ StopEnds(g)
  PROVE  PoolMoves
<1>1. chan[g] \in ChanType /\ Len(chan[g].results) <= QueueSize /\ chan \in [Gens -> ChanType]
  BY PoolIs
<1>2. UNCHANGED <<generation, started, worker>>
  BY DEF StopCancels, StopCloses, StopEnds
<1>3. \E state \in ChanType :
        /\ chan' = [chan EXCEPT ![g] = state] /\ state.tasks = chan[g].tasks
        /\ state.results = chan[g].results /\ (chan[g].done => state.done)
  <2>1. CASE StopCancels(g)
    <3> DEFINE state == [chan[g] EXCEPT !.done = TRUE]
    <3>1. state \in ChanType /\ state.tasks = chan[g].tasks /\ state.results = chan[g].results /\ state.done
      BY <1>1 DEF ChanType
    <3>2. chan' = [chan EXCEPT ![g] = state]
      BY <2>1 DEF StopCancels
    <3> QED  BY <3>1, <3>2
  <2>2. CASE StopCloses(g)
    <3> DEFINE state == [chan[g] EXCEPT !.open = FALSE]
    <3>1. state \in ChanType /\ state.tasks = chan[g].tasks /\ state.results = chan[g].results /\ state.done = chan[g].done
      BY <1>1 DEF ChanType
    <3>2. chan' = [chan EXCEPT ![g] = state]
      BY <2>2 DEF StopCloses
    <3> QED  BY <3>1, <3>2
  <2>3. CASE StopEnds(g)
    <3> DEFINE state == [chan[g] EXCEPT !.drained = TRUE]
    <3>1. state \in ChanType /\ state.tasks = chan[g].tasks /\ state.results = chan[g].results /\ state.done = chan[g].done
      BY <1>1 DEF ChanType
    <3>2. chan' = [chan EXCEPT ![g] = state]
      BY <2>3 DEF StopEnds
    <3> QED  BY <3>1, <3>2
  <2> QED  BY <2>1, <2>2, <2>3
<1> QED  BY <1>1, <1>2, <1>3, ChanStepOK

\* A result leaves the shared queue: no task moves.
LEMMA TakeSharedOK ==
  ASSUME PoolInv, TakeShared
  PROVE  PoolMoves /\ Head(Current.results) \in ResultType
<1> DEFINE g == generation
           state == [chan[g] EXCEPT !.results = Tail(chan[g].results)]
<1>1. g \in Gens /\ chan[g] \in ChanType /\ Len(chan[g].results) <= QueueSize /\ QueueSize \in Nat
      /\ chan[g].results \in Seq(ResultType) /\ chan[g].results # <<>>
  BY PoolIs DEF TakeShared, Current
<1>2. /\ Tail(chan[g].results) \in Seq(ResultType) /\ Len(Tail(chan[g].results)) <= QueueSize
      /\ Head(chan[g].results) \in ResultType
  BY <1>1
<1>3. state \in ChanType /\ state.tasks = chan[g].tasks /\ state.done = chan[g].done
      /\ state.results = Tail(chan[g].results)
  BY <1>1, <1>2 DEF ChanType
<1>4. chan' = [chan EXCEPT ![g] = state] /\ UNCHANGED <<generation, started, worker>>
  BY DEF TakeShared
<1> HIDE DEF state, g
<1>5. PoolMoves
  BY <1>1, <1>2, <1>3, <1>4, ChanStepOK
<1> QED  BY <1>2, <1>5 DEF Current, g

\* A worker goes on without leaving or taking a task.
LEMMA WorkerStepOK ==
  ASSUME PoolInv, UNCHANGED <<generation, started>>, chan' \in [Gens -> ChanType],
         \A g \in Gens : /\ Len(chan'[g].tasks) <= QueueSize /\ Len(chan'[g].results) <= QueueSize
                         /\ g > generation => chan'[g].tasks = <<>>
                         /\ chan'[g].tasks = chan[g].tasks /\ chan'[g].done = chan[g].done,
         NEW w \in Worker, worker[w].at # "none", NEW state \in WorkerType, Becomes(w, state),
         WorkerSound(state, generation),
         state.at \in {"parse", "share", "reply"} <=> Busy(w),
         Busy(w) => /\ state.task = worker[w].task
                    /\ state.at # "parse" =>
                         \/ worker[w].at # "parse" /\ state.result = worker[w].result
                         \/ state.result.of = worker[w].task.of /\ state.result.text = file[worker[w].task.of]
  PROVE  PoolMoves
<1>1. PoolInv' /\ worker'[w] = state /\ \A v \in Worker : v # w => worker'[v] = worker[v]
  BY OneWorker
<1>2. NoneRevived
  BY PoolIs DEF NoneRevived
<1>3. ASSUME NEW v \in Worker
      PROVE  /\ worker'[v].at \in {"parse", "share", "reply"} <=> Busy(v)
             /\ Busy(v) => /\ worker'[v].task = worker[v].task
                           /\ worker'[v].at # "parse" =>
                                \/ worker[v].at # "parse" /\ worker'[v].result = worker[v].result
                                \/ /\ worker'[v].result.of = worker[v].task.of
                                   /\ worker'[v].result.text = file[worker[v].task.of]
  <2>1. CASE v = w
    BY <2>1, <1>1
  <2>2. CASE v # w
    BY <2>2, <1>1 DEF Busy
  <2> QED  BY <2>1, <2>2
<1>4. \A c \in Client, i \in Nat : PoolKeeps(c, i)
  BY <1>3, KeepsTasks
<1> QED  BY <1>1, <1>2, <1>4 DEF PoolMoves

\* A worker enters its select.
LEMMA LoopsOK ==
  ASSUME PoolInv, NEW w \in Worker, Loops(w)
  PROVE  PoolMoves
<1> DEFINE state == [worker[w] EXCEPT !.at = "select", !.on = generation]
<1>1. worker[w] \in WorkerType /\ WorkerSound(worker[w], generation) /\ generation \in Gens /\ worker[w].at = "loop"
  BY PoolIs, WorkersAre DEF Loops
<1>2. state \in WorkerType /\ state.at = "select" /\ state.on = generation
  BY <1>1 DEF WorkerType, Gens
<1>3. WorkerSound(state, generation)
  BY <1>1, <1>2 DEF WorkerSound, Gens
<1>4. Becomes(w, state) /\ UNCHANGED <<generation, started, chan>>
  BY DEF Loops
<1>5. ~Busy(w) /\ worker[w].at # "none"
  BY <1>1 DEF Busy
<1> HIDE DEF state
<1>6. /\ chan' \in [Gens -> ChanType]
      /\ \A g \in Gens : /\ Len(chan'[g].tasks) <= QueueSize /\ Len(chan'[g].results) <= QueueSize
                         /\ g > generation => chan'[g].tasks = <<>>
                         /\ chan'[g].tasks = chan[g].tasks /\ chan'[g].done = chan[g].done
  BY <1>4, ChansKept
<1> QED  BY <1>2, <1>3, <1>4, <1>5, <1>6, WorkerStepOK

\* A worker without a task.
LEMMA NotRunningIs ==
  ASSUME NEW label \in {"none", "loop"}
  PROVE  /\ [NotRunning EXCEPT !.at = label] \in WorkerType /\ [NotRunning EXCEPT !.at = label].at = label
         /\ [NotRunning EXCEPT !.at = label].on = 0
         /\ NotRunning = [NotRunning EXCEPT !.at = "none"]
BY PoolAssumption DEF NotRunning, WorkerType

\* A worker without a task holds nothing that could be wrong.
LEMMA IdleIsSound ==
  ASSUME PoolInv, NEW label \in {"none", "loop"}
  PROVE  WorkerSound([NotRunning EXCEPT !.at = label], generation)
<1>1. generation \in Nat
  BY PoolIs DEF Gens
<1> QED  BY <1>1, NotRunningIs DEF WorkerSound

\* A worker ends: it has no task.
LEMMA ExitsOK ==
  ASSUME PoolInv, NEW w \in Worker, Exits(w)
  PROVE  PoolMoves
<1> DEFINE state == [NotRunning EXCEPT !.at = "none"]
<1>1. state \in WorkerType /\ state.at = "none" /\ WorkerSound(state, generation) /\ NotRunning = state
  BY NotRunningIs, IdleIsSound
<1>2. worker[w].at = "select" /\ Becomes(w, NotRunning) /\ UNCHANGED <<generation, started, chan>>
  BY DEF Exits
<1>3. ~Busy(w) /\ worker[w].at # "none"
  BY <1>2 DEF Busy
<1> HIDE DEF state
<1>4. /\ chan' \in [Gens -> ChanType]
      /\ \A g \in Gens : /\ Len(chan'[g].tasks) <= QueueSize /\ Len(chan'[g].results) <= QueueSize
                         /\ g > generation => chan'[g].tasks = <<>>
                         /\ chan'[g].tasks = chan[g].tasks /\ chan'[g].done = chan[g].done
  BY <1>2, ChansKept
<1> QED  BY <1>1, <1>2, <1>3, <1>4, WorkerStepOK

\* An attempt at a file, the last of which is a result of that file.
LEMMA ParsesOK ==
  ASSUME PoolInv, file \in [Source -> Version], NEW w \in Worker, Parses(w, file[worker[w].task.of])
  PROVE  PoolMoves
<1> DEFINE task == worker[w].task
<1>1. /\ worker[w] \in WorkerType /\ WorkerSound(worker[w], generation) /\ generation \in Gens
      /\ worker[w].at = "parse" /\ task \in TaskType /\ UNCHANGED <<generation, started, chan>>
  BY PoolIs, WorkersAre DEF Parses, WorkerSound
<1>2. task.of \in Source /\ file[task.of] \in Version
  BY <1>1 DEF TaskType
<1>3. /\ chan' \in [Gens -> ChanType]
      /\ \A g \in Gens : /\ Len(chan'[g].tasks) <= QueueSize /\ Len(chan'[g].results) <= QueueSize
                         /\ g > generation => chan'[g].tasks = <<>>
                         /\ chan'[g].tasks = chan[g].tasks /\ chan'[g].done = chan[g].done
  BY <1>1, ChansKept
<1>4. Busy(w) /\ worker[w].at # "none"
  BY <1>1 DEF Busy
<1>5. ASSUME NEW ok \in BOOLEAN, Finishes(w, ok, file[task.of])
      PROVE  PoolMoves
  <2> DEFINE result == [of |-> task.of, ok |-> ok, text |-> file[task.of]]
             state == [worker[w] EXCEPT !.at = "share", !.result = result]
  <2>1. result \in ResultType /\ result.of = task.of /\ result.text = file[task.of]
    BY <1>2 DEF ResultType
  <2> HIDE DEF result
  <2>2. /\ state \in WorkerType /\ state.at = "share" /\ state.result = result
        /\ state.task = worker[w].task /\ state.on = worker[w].on
    BY <1>1, <2>1 DEF WorkerType
  <2>3. WorkerSound(state, generation)
    BY <1>1, <2>1, <2>2 DEF WorkerSound
  <2>4. Becomes(w, state)
    BY <1>5 DEF Finishes, result
  <2> HIDE DEF state, task
  <2>5. state.result.of = worker[w].task.of /\ state.result.text = file[worker[w].task.of]
    BY <2>1, <2>2 DEF task
  <2> QED  BY <1>1, <1>3, <1>4, <2>2, <2>3, <2>4, <2>5, WorkerStepOK
<1>6. ASSUME Becomes(w, [worker[w] EXCEPT !.attempt = @ + 1])
      PROVE  PoolMoves
  <2> DEFINE state == [worker[w] EXCEPT !.attempt = worker[w].attempt + 1]
  <2>1. /\ state \in WorkerType /\ state.at = "parse" /\ state.task = worker[w].task /\ state.on = worker[w].on
    BY <1>1 DEF WorkerType
  <2>2. WorkerSound(state, generation)
    BY <1>1, <2>1 DEF WorkerSound
  <2>3. Becomes(w, state)
    BY <1>6
  <2> HIDE DEF state, task
  <2> QED  BY <1>1, <1>3, <1>4, <2>1, <2>2, <2>3, WorkerStepOK
<1>7. \/ Finishes(w, TRUE, file[task.of]) \/ Finishes(w, FALSE, file[task.of])
      \/ Becomes(w, [worker[w] EXCEPT !.attempt = @ + 1])
  BY DEF Parses
<1> QED  BY <1>5, <1>6, <1>7

\* A result goes to the shared queue, if that has room.
LEMMA SharesOK ==
  ASSUME PoolInv, NEW w \in Worker, Shares(w)
  PROVE  PoolMoves
<1> DEFINE state == [worker[w] EXCEPT !.at = "reply"]
           fuller == [chan[generation] EXCEPT !.results = Append(@, worker[w].result)]
<1>1. /\ worker[w] \in WorkerType /\ WorkerSound(worker[w], generation) /\ generation \in Gens
      /\ worker[w].at = "share" /\ worker[w].result \in ResultType /\ UNCHANGED <<generation, started>>
  BY PoolIs, WorkersAre DEF Shares, WorkerSound
<1>2. /\ state \in WorkerType /\ state.at = "reply" /\ state.task = worker[w].task /\ state.on = worker[w].on
      /\ state.result = worker[w].result
  BY <1>1 DEF WorkerType
<1>3. WorkerSound(state, generation)
  BY <1>1, <1>2 DEF WorkerSound
<1>4. Becomes(w, state) /\ Busy(w) /\ worker[w].at # "none" /\ worker[w].at # "parse"
  BY <1>1 DEF Shares, Busy
<1> HIDE DEF state
<1>5. /\ chan' \in [Gens -> ChanType]
      /\ \A g \in Gens : /\ Len(chan'[g].tasks) <= QueueSize /\ Len(chan'[g].results) <= QueueSize
                         /\ g > generation => chan'[g].tasks = <<>>
                         /\ chan'[g].tasks = chan[g].tasks /\ chan'[g].done = chan[g].done
  <2>1. CASE Len(Current.results) < QueueSize
    <3>1. /\ chan[generation] \in ChanType /\ chan[generation].results \in Seq(ResultType)
          /\ Len(chan[generation].tasks) <= QueueSize /\ QueueSize \in Nat
      BY <1>1, PoolIs
    <3>2. /\ Append(chan[generation].results, worker[w].result) \in Seq(ResultType)
          /\ Len(Append(chan[generation].results, worker[w].result)) <= QueueSize
      BY <1>1, <2>1, <3>1 DEF Current
    <3>3. /\ fuller \in ChanType /\ fuller.tasks = chan[generation].tasks /\ fuller.done = chan[generation].done
          /\ Len(fuller.results) <= QueueSize
      BY <3>1, <3>2 DEF ChanType
    <3>4. chan' = [chan EXCEPT ![generation] = fuller]
      BY <2>1 DEF Shares
    <3> HIDE DEF fuller
    <3>5. Len(fuller.tasks) <= QueueSize /\ ~(generation > generation)
      BY <3>1, <3>3, <1>1 DEF Gens
    <3>6. /\ chan' \in [Gens -> ChanType] /\ chan'[generation] = fuller
          /\ \A h \in Gens : /\ Len(chan'[h].tasks) <= QueueSize /\ Len(chan'[h].results) <= QueueSize
                             /\ h > generation => chan'[h].tasks = <<>>
                             /\ h # generation => chan'[h] = chan[h]
      BY <1>1, <3>3, <3>4, <3>5, OneChan
    <3> QED  BY <3>3, <3>6
  <2>2. CASE ~(Len(Current.results) < QueueSize)
    <3>1. chan' = chan
      BY <2>2 DEF Shares
    <3> QED  BY <3>1, ChansKept
  <2> QED  BY <2>1, <2>2
<1> QED  BY <1>1, <1>2, <1>3, <1>4, <1>5, WorkerStepOK

\* The tasks of c in the queues, as a set of places.
LEMMA InQueued ==
  ASSUME NEW c, NEW i, NEW p
  PROVE  /\ p \in Queued(c, i) <=>
              /\ p \in Gens \X (1..QueueSize) /\ p[2] <= Len(chan[p[1]].tasks)
              /\ chan[p[1]].tasks[p[2]].for = c /\ chan[p[1]].tasks[p[2]].id = i
         /\ p \in Queued(c, i)' <=>
              /\ p \in Gens \X (1..QueueSize) /\ p[2] <= Len(chan'[p[1]].tasks)
              /\ chan'[p[1]].tasks[p[2]].for = c /\ chan'[p[1]].tasks[p[2]].id = i
BY DEF Queued, Gens

\* Taking the head of a queue moves the others up.
LEMMA QueuedUp ==
  ASSUME PoolInv, NEW g \in Gens, chan[g].tasks # <<>>, chan' \in [Gens -> ChanType],
         chan'[g].tasks = Tail(chan[g].tasks), \A h \in Gens : h # g => chan'[h].tasks = chan[h].tasks,
         NEW c, NEW i
  PROVE  /\ Cardinality(Queued(c, i)') = Cardinality(Queued(c, i) \ {<<g, 1>>})
         /\ {chan'[p[1]].tasks[p[2]].of : p \in Queued(c, i)'}
              = {chan[p[1]].tasks[p[2]].of : p \in Queued(c, i) \ {<<g, 1>>}}
<1> DEFINE before == Queued(c, i) \ {<<g, 1>>}
           after == Queued(c, i)'
           Up(p) == IF p[1] = g THEN <<p[1], p[2] - 1>> ELSE p
           f == [p \in before |-> Up(p)]
<1>1. /\ chan[g].tasks \in Seq(TaskType) /\ Len(chan[g].tasks) <= QueueSize /\ QueueSize \in Nat
      /\ Len(chan[g].tasks) \in Nat /\ chan[g].tasks # <<>>
  BY PoolIs
<1>2. /\ Len(Tail(chan[g].tasks)) = Len(chan[g].tasks) - 1
      /\ \A k \in 1..(Len(chan[g].tasks) - 1) : Tail(chan[g].tasks)[k] = chan[g].tasks[k + 1]
  BY <1>1
<1>3. ASSUME NEW p \in before
      PROVE  Up(p) \in after /\ chan'[Up(p)[1]].tasks[Up(p)[2]] = chan[p[1]].tasks[p[2]]
  <2>1. /\ p \in Gens \X (1..QueueSize) /\ p[2] <= Len(chan[p[1]].tasks) /\ p # <<g, 1>>
        /\ chan[p[1]].tasks[p[2]].for = c /\ chan[p[1]].tasks[p[2]].id = i
    BY InQueued
  <2>2. CASE p[1] = g
    <3>1. p[2] # 1 /\ p[2] - 1 \in 1..QueueSize /\ p[2] - 1 \in 1..(Len(chan[g].tasks) - 1)
      BY <2>1, <2>2, <1>1
    <3>2. Up(p) = <<g, p[2] - 1>> /\ chan'[g].tasks[p[2] - 1] = chan[g].tasks[p[2]]
      BY <3>1, <2>1, <2>2, <1>2
    <3>3. p[2] - 1 <= Len(chan'[g].tasks)
      BY <3>1, <1>1, <1>2
    <3> QED  BY <3>1, <3>2, <3>3, <2>1, <2>2, InQueued
  <2>3. CASE p[1] # g
    <3>1. p[1] \in Gens /\ Up(p) = p /\ chan'[p[1]].tasks = chan[p[1]].tasks
      BY <2>1, <2>3
    <3> QED  BY <3>1, <2>1, InQueued
  <2> QED  BY <2>2, <2>3
<1>4. ASSUME NEW q \in after
      PROVE  \E p \in before : Up(p) = q
  <2>1. /\ q \in Gens \X (1..QueueSize) /\ q[2] <= Len(chan'[q[1]].tasks)
        /\ chan'[q[1]].tasks[q[2]].for = c /\ chan'[q[1]].tasks[q[2]].id = i
    BY InQueued
  <2>2. CASE q[1] = g
    <3> DEFINE p == <<g, q[2] + 1>>
    <3>1. q[2] \in 1..(Len(chan[g].tasks) - 1) /\ q[2] + 1 \in 1..QueueSize /\ q[2] + 1 <= Len(chan[g].tasks)
      <4>1. q[2] \in 1..QueueSize /\ q[2] <= Len(chan[g].tasks) - 1
        BY <2>1, <2>2, <1>2
      <4> QED  BY <4>1, <1>1
    <3>2. chan[g].tasks[q[2] + 1] = chan'[g].tasks[q[2]]
      BY <3>1, <1>2
    <3>3. q[2] + 1 # 1 /\ q[2] + 1 - 1 = q[2]
      BY <3>1
    <3>4. p \in before
      BY <3>1, <3>2, <3>3, <2>1, <2>2, InQueued
    <3>5. Up(p) = q
      BY <2>1, <2>2, <3>3
    <3> QED  BY <3>4, <3>5
  <2>3. CASE q[1] # g
    <3>1. chan'[q[1]].tasks = chan[q[1]].tasks /\ q # <<g, 1>>
      BY <2>1, <2>3
    <3>2. q \in before
      BY <3>1, <2>1, InQueued
    <3>3. Up(q) = q
      BY <2>3
    <3> QED  BY <3>2, <3>3
  <2> QED  BY <2>2, <2>3
<1>5. ASSUME NEW p \in before, NEW q \in before, Up(p) = Up(q)
      PROVE  p = q
  <2>1. p \in Gens \X (1..QueueSize) /\ q \in Gens \X (1..QueueSize)
    BY InQueued
  <2>2. p = <<p[1], p[2]>> /\ q = <<q[1], q[2]>> /\ p[2] \in Nat /\ q[2] \in Nat
    BY <2>1
  <2>3. p[1] = q[1] /\ p[2] = q[2]
    <3>1. CASE p[1] = g /\ q[1] = g
      BY <3>1, <1>5, <2>2
    <3>2. CASE p[1] # g /\ q[1] # g
      BY <3>2, <1>5
    <3>3. CASE p[1] # g /\ q[1] = g
      BY <3>3, <1>5
    <3>4. CASE p[1] = g /\ q[1] # g
      BY <3>4, <1>5
    <3> QED  BY <3>1, <3>2, <3>3, <3>4
  <2> QED  BY <2>2, <2>3
<1>6. IsFiniteSet(before)
  BY FlyingFinite, FS_RemoveElement
<1> HIDE DEF before, after, Up
<1>7. f \in Bijection(before, after)
  <2>1. f \in [before -> after]
    BY <1>3
  <2>2. \A p, q \in before : f[p] = f[q] => p = q
    BY <1>5
  <2>3. \A q \in after : \E p \in before : f[p] = q
    BY <1>4
  <2> HIDE DEF f
  <2> QED  BY <2>1, <2>2, <2>3 DEF Bijection, Injection, Surjection, IsInjective
<1>8. Cardinality(after) = Cardinality(before)
  BY <1>6, <1>7, FS_Bijection DEF ExistsBijection
<1>9. {chan'[p[1]].tasks[p[2]].of : p \in after} = {chan[p[1]].tasks[p[2]].of : p \in before}
  BY <1>3, <1>4
<1> QED  BY <1>8, <1>9 DEF before, after

\* A sequence without its head.
LEMMA TailIs ==
  ASSUME NEW S, NEW some \in Seq(S), some # <<>>
  PROVE  /\ Tail(some) \in Seq(S) /\ Len(Tail(some)) = Len(some) - 1 /\ Head(some) \in S
         /\ Head(some) \in ToSet(some) /\ Head(some) = some[1]
         /\ ToSet(Tail(some)) \subseteq ToSet(some) /\ ToSet(some) = ToSet(Tail(some)) \cup {Head(some)}
<1>1. /\ Tail(some) \in Seq(S) /\ Len(Tail(some)) = Len(some) - 1 /\ Head(some) \in S
      /\ Head(some) = some[1] /\ Len(some) \in Nat /\ Len(some) >= 1
      /\ DOMAIN some = 1..Len(some) /\ DOMAIN Tail(some) = 1..(Len(some) - 1)
      /\ \A k \in 1..(Len(some) - 1) : Tail(some)[k] = some[k + 1]
  OBVIOUS
<1>2. Head(some) \in ToSet(some)
  BY <1>1 DEF ToSet
<1>3. ToSet(Tail(some)) \subseteq ToSet(some)
  BY <1>1 DEF ToSet
<1>4. ToSet(some) \subseteq ToSet(Tail(some)) \cup {Head(some)}
  <2>1. SUFFICES ASSUME NEW k \in 1..Len(some), k # 1
                 PROVE  some[k] \in ToSet(Tail(some))
    BY <1>1 DEF ToSet
  <2>2. k - 1 \in 1..(Len(some) - 1) /\ k = (k - 1) + 1
    BY <2>1, <1>1
  <2> QED  BY <2>2, <1>1 DEF ToSet
<1> QED  BY <1>1, <1>2, <1>3, <1>4

\* A sequence with one more at its end.
LEMMA AppendIs ==
  ASSUME NEW S, NEW some \in Seq(S), NEW x \in S
  PROVE  /\ Append(some, x) \in Seq(S) /\ Len(Append(some, x)) = Len(some) + 1
         /\ ToSet(Append(some, x)) = ToSet(some) \cup {x} /\ Append(some, x)[Len(some) + 1] = x
         /\ \A k \in 1..Len(some) : Append(some, x)[k] = some[k]
<1>1. /\ Append(some, x) \in Seq(S) /\ Len(Append(some, x)) = Len(some) + 1 /\ Len(some) \in Nat
      /\ Append(some, x)[Len(some) + 1] = x /\ \A k \in 1..Len(some) : Append(some, x)[k] = some[k]
  OBVIOUS
<1>2. ToSet(Append(some, x)) = ToSet(some) \cup {x}
  <2>1. DOMAIN some = 1..Len(some) /\ DOMAIN Append(some, x) = 1..(Len(some) + 1)
    BY <1>1
  <2>2. \A k \in 1..(Len(some) + 1) : k = Len(some) + 1 \/ k \in 1..Len(some)
    BY <1>1
  <2>3. 1..Len(some) \subseteq 1..(Len(some) + 1) /\ Len(some) + 1 \in 1..(Len(some) + 1)
    BY <1>1
  <2> QED  BY <1>1, <2>1, <2>2, <2>3 DEF ToSet
<1> QED  BY <1>1, <1>2

-----------------------------------------------------------------------------
\* A worker takes the head of its queue: the task is on its way as before.
LEMMA TakesOK ==
  ASSUME PoolInv, NEW w \in Worker, Takes(w)
  PROVE  PoolMoves
<1> DEFINE g == worker[w].on
           task == Head(chan[g].tasks)
           state == [worker[w] EXCEPT !.at = "parse", !.task = task, !.attempt = 1]
           shorter == [chan[g] EXCEPT !.tasks = Tail(chan[g].tasks)]
<1>1. /\ worker[w] \in WorkerType /\ WorkerSound(worker[w], generation) /\ generation \in Gens
      /\ worker[w].at = "select" /\ g \in Gens /\ g <= generation /\ UNCHANGED <<generation, started>>
      /\ chan[g].tasks # <<>>
  BY PoolIs, WorkersAre DEF Takes, WorkerSound, WorkerType, Gens
<1>2. /\ chan[g] \in ChanType /\ chan[g].tasks \in Seq(TaskType) /\ Len(chan[g].tasks) <= QueueSize
      /\ Len(chan[g].results) <= QueueSize /\ QueueSize \in Nat /\ chan \in [Gens -> ChanType]
  BY <1>1, PoolIs
<1>3. /\ Tail(chan[g].tasks) \in Seq(TaskType) /\ task \in TaskType /\ task \in ToSet(chan[g].tasks)
      /\ Len(Tail(chan[g].tasks)) = Len(chan[g].tasks) - 1
      /\ ToSet(Tail(chan[g].tasks)) \subseteq ToSet(chan[g].tasks)
      /\ task = chan[g].tasks[1]
  BY <1>1, <1>2, TailIs
<1>4. chan' = [chan EXCEPT ![g] = shorter] /\ Becomes(w, state)
  BY DEF Takes
<1>5. /\ shorter \in ChanType /\ shorter.tasks = Tail(chan[g].tasks) /\ shorter.results = chan[g].results
      /\ shorter.done = chan[g].done
  BY <1>2, <1>3 DEF ChanType
<1>6. Len(shorter.tasks) <= QueueSize /\ ~(g > generation) /\ Len(shorter.results) <= QueueSize
  <2>1. Len(chan[g].tasks) \in Nat /\ g \in Nat /\ generation \in Nat
    BY <1>1, <1>2 DEF Gens
  <2> QED  BY <1>1, <1>2, <1>3, <1>5, <2>1
<1> HIDE DEF shorter
<1>7. /\ chan' \in [Gens -> ChanType] /\ chan'[g] = shorter
      /\ \A h \in Gens : /\ Len(chan'[h].tasks) <= QueueSize /\ Len(chan'[h].results) <= QueueSize
                         /\ h > generation => chan'[h].tasks = <<>>
                         /\ h # g => chan'[h] = chan[h]
  BY <1>1, <1>4, <1>5, <1>6, OneChan
<1>8. state \in WorkerType /\ state.at = "parse" /\ state.task = task /\ state.on = g
  BY <1>1, <1>3, PoolAssumption DEF WorkerType
<1>9. WorkerSound(state, generation)
  BY <1>1, <1>3, <1>8 DEF WorkerSound
<1> HIDE DEF state
<1>10. PoolInv' /\ worker'[w] = state /\ \A v \in Worker : v # w => worker'[v] = worker[v]
  BY <1>1, <1>4, <1>7, <1>8, <1>9, OneWorker
<1>11. NoneRevived
  <2>1. \A h \in Gens : chan'[h].done = chan[h].done
    BY <1>5, <1>7
  <2> QED  BY <1>1, <2>1 DEF NoneRevived
<1>12. ASSUME NEW c \in Client, NEW i \in Nat
       PROVE  PoolKeeps(c, i)
  <2>1. FewerQueued(c)
    <3>1. \A h \in Gens : ToSet(chan'[h].tasks) \subseteq ToSet(chan[h].tasks)
      BY <1>3, <1>5, <1>7
    <3> QED  BY <3>1 DEF FewerQueued
  <2>2. StillWork(c)
    BY <1>1, <1>3, <1>8, <1>10 DEF StillWork, Busy
  <2>3. /\ Cardinality(Queued(c, i)') = Cardinality(Queued(c, i) \ {<<g, 1>>})
        /\ {chan'[p[1]].tasks[p[2]].of : p \in Queued(c, i)'}
             = {chan[p[1]].tasks[p[2]].of : p \in Queued(c, i) \ {<<g, 1>>}}
    <3>1. chan'[g].tasks = Tail(chan[g].tasks) /\ \A h \in Gens : h # g => chan'[h].tasks = chan[h].tasks
      BY <1>5, <1>7
    <3> HIDE DEF g
    <3> QED  BY <3>1, <1>1, <1>7, QueuedUp
  <2>4. <<g, 1>> \in Queued(c, i) <=> task.for = c /\ task.id = i
    <3>1. <<g, 1>> \in Gens \X (1..QueueSize) /\ 1 <= Len(chan[g].tasks)
      BY <1>1, <1>2, PoolIs
    <3> QED  BY <3>1, <1>3, InQueued, SMTT(30)
  <2>5. Handled(c, i)' = IF task.for = c /\ task.id = i THEN Handled(c, i) \cup {w} ELSE Handled(c, i)
    <3>1. w \notin Handled(c, i)
      BY <1>1 DEF Handled, Busy
    <3>2. \A v \in Worker : v # w => (v \in Handled(c, i)' <=> v \in Handled(c, i))
      BY <1>10 DEF Handled, Busy
    <3>3. w \in Handled(c, i)' <=> task.for = c /\ task.id = i
      BY <1>8, <1>10 DEF Handled, Busy
    <3>4. Handled(c, i)' \subseteq Worker /\ Handled(c, i) \subseteq Worker
      BY DEF Handled
    <3> QED  BY <3>1, <3>2, <3>3, <3>4
  <2>6. \A v \in Handled(c, i) : v # w /\ worker'[v].task = worker[v].task
    BY <1>1, <1>10 DEF Handled, Busy
  <2>7. /\ IsFiniteSet(Queued(c, i)) /\ IsFiniteSet(Handled(c, i)) /\ w \notin Handled(c, i)
        /\ Cardinality(Queued(c, i)) \in Nat /\ Cardinality(Handled(c, i)) \in Nat
    <3>1. w \notin Handled(c, i)
      BY <1>1 DEF Handled, Busy
    <3> QED  BY <3>1, FlyingFinite
  <2>8. CASE task.for = c /\ task.id = i
    <3>1. Cardinality(Queued(c, i)') = Cardinality(Queued(c, i)) - 1
      BY <2>3, <2>4, <2>7, <2>8, FS_RemoveElement
    <3>2. Cardinality(Handled(c, i)') = Cardinality(Handled(c, i)) + 1
      <4>1. Cardinality(Handled(c, i) \cup {w}) = Cardinality(Handled(c, i)) + 1
        BY <2>7, FS_AddElement
      <4> QED  BY <4>1, <2>5, <2>8
    <3>3. Flying(c, i)' = Flying(c, i)
      BY <3>1, <3>2, <2>7, FlightThen DEF Flying
    <3>4. {worker'[v].task.of : v \in Handled(c, i)'} = {worker[v].task.of : v \in Handled(c, i)} \cup {task.of}
      BY <2>5, <2>6, <2>8, <1>8, <1>10
    <3>5. {chan[p[1]].tasks[p[2]].of : p \in Queued(c, i)}
            = {chan[p[1]].tasks[p[2]].of : p \in Queued(c, i) \ {<<g, 1>>}} \cup {task.of}
      <4>1. <<g, 1>> \in Queued(c, i) /\ chan[<<g, 1>>[1]].tasks[<<g, 1>>[2]].of = task.of
        BY <2>4, <2>8, <1>3
      <4> HIDE DEF g, task
      <4> QED  BY <4>1
    <3>6. Carried(c, i)' = Carried(c, i)
      BY <2>3, <3>4, <3>5, FlightThen DEF Carried
    <3> QED  BY <2>1, <2>2, <3>3, <3>6 DEF PoolKeeps, SameFlight
  <2>9. CASE ~(task.for = c /\ task.id = i)
    <3>1. Queued(c, i) \ {<<g, 1>>} = Queued(c, i) /\ Handled(c, i)' = Handled(c, i)
      BY <2>4, <2>5, <2>9
    <3>2. Flying(c, i)' = Flying(c, i)
      BY <3>1, <2>3, FlightThen DEF Flying
    <3>3. {worker'[v].task.of : v \in Handled(c, i)'} = {worker[v].task.of : v \in Handled(c, i)}
      BY <3>1, <2>6
    <3>4. Carried(c, i)' = Carried(c, i)
      BY <2>3, <3>1, <3>3, FlightThen DEF Carried
    <3> QED  BY <2>1, <2>2, <3>2, <3>4 DEF PoolKeeps, SameFlight
  <2> QED  BY <2>8, <2>9
<1> QED  BY <1>10, <1>11, <1>12 DEF PoolMoves

\* A task that is put into the queue is one more on its way.
LEMMA EnqueueOK ==
  ASSUME PoolInv, NEW task \in TaskType, Enqueue(task)
  PROVE  /\ PoolInv' /\ NoneRevived /\ generation' = generation /\ chan'[generation].done = chan[generation].done
         /\ \A c : StillWork(c) /\ (task.for # c => FewerQueued(c))
         /\ \A g \in Gens : \A t \in ToSet(chan'[g].tasks) : t \in ToSet(chan[g].tasks) \/ (t = task /\ g = generation)
         /\ \A c, i : task.for # c \/ task.id # i => SameFlight(c, i)
         /\ /\ Flying(task.for, task.id)' = Flying(task.for, task.id) + 1
            /\ Carried(task.for, task.id)' = Carried(task.for, task.id) \cup {task.of}
<1> DEFINE g == generation
           n == Len(chan[g].tasks)
           fuller == [chan[g] EXCEPT !.tasks = Append(chan[g].tasks, task)]
<1>1. /\ g \in Gens /\ chan[g] \in ChanType /\ chan[g].tasks \in Seq(TaskType) /\ n < QueueSize /\ n \in Nat
      /\ Len(chan[g].results) <= QueueSize /\ QueueSize \in Nat /\ chan \in [Gens -> ChanType]
      /\ UNCHANGED <<generation, started, worker>> /\ worker \in [Worker -> WorkerType] /\ started \in BOOLEAN
  BY PoolIs DEF Enqueue, HasRoom, Current
<1>2. /\ Append(chan[g].tasks, task) \in Seq(TaskType) /\ Len(Append(chan[g].tasks, task)) = n + 1
      /\ ToSet(Append(chan[g].tasks, task)) = ToSet(chan[g].tasks) \cup {task}
      /\ Append(chan[g].tasks, task)[n + 1] = task
      /\ \A k \in 1..n : Append(chan[g].tasks, task)[k] = chan[g].tasks[k]
  BY <1>1, AppendIs
<1>3. chan' = [chan EXCEPT ![g] = fuller]
  BY DEF Enqueue
<1>4. /\ fuller \in ChanType /\ fuller.tasks = Append(chan[g].tasks, task) /\ fuller.results = chan[g].results
      /\ fuller.done = chan[g].done
  BY <1>1, <1>2 DEF ChanType
<1>5. Len(fuller.tasks) <= QueueSize /\ ~(g > generation) /\ Len(fuller.results) <= QueueSize
  BY <1>1, <1>2, <1>4 DEF Gens
<1> HIDE DEF fuller
<1>6. /\ chan' \in [Gens -> ChanType] /\ chan'[g] = fuller
      /\ \A h \in Gens : /\ Len(chan'[h].tasks) <= QueueSize /\ Len(chan'[h].results) <= QueueSize
                         /\ h > generation => chan'[h].tasks = <<>>
                         /\ h # g => chan'[h] = chan[h]
  BY <1>1, <1>3, <1>4, <1>5, OneChan
<1>7. PoolInv'
  <2>1. /\ UNCHANGED <<generation, worker>> /\ started' \in BOOLEAN
        /\ \A h \in Gens : /\ Len(chan'[h].tasks) <= QueueSize /\ Len(chan'[h].results) <= QueueSize
                           /\ h > generation => chan'[h].tasks = <<>>
    BY <1>1, <1>6
  <2> QED  BY <2>1, <1>6, NoWorker
<1>8. NoneRevived /\ generation' = generation /\ chan'[generation].done = chan[generation].done
  BY <1>1, <1>4, <1>6 DEF NoneRevived
<1>9. \A h \in Gens : \A t \in ToSet(chan'[h].tasks) : t \in ToSet(chan[h].tasks) \/ (t = task /\ h = generation)
  <2>1. ToSet(chan'[g].tasks) = ToSet(chan[g].tasks) \cup {task}
    BY <1>2, <1>4, <1>6
  <2>2. \A h \in Gens : h # g => ToSet(chan'[h].tasks) = ToSet(chan[h].tasks)
    BY <1>6
  <2> QED  BY <2>1, <2>2
<1>10. ASSUME NEW c
       PROVE  StillWork(c) /\ (task.for # c => FewerQueued(c))
  <2>1. StillWork(c)
    BY <1>1 DEF StillWork, Busy
  <2>2. task.for # c => FewerQueued(c)
    BY <1>9 DEF FewerQueued
  <2> QED  BY <2>1, <2>2
<1>11. ASSUME NEW c, NEW i
       PROVE  Handled(c, i)' = Handled(c, i)
              /\ {worker'[w].task.of : w \in Handled(c, i)'} = {worker[w].task.of : w \in Handled(c, i)}
  BY <1>1 DEF Handled, Busy
<1>12. ASSUME NEW c, NEW i, NEW p \in Gens \X (1..QueueSize), p # <<g, n + 1>>
       PROVE  /\ p \in Queued(c, i)' <=> p \in Queued(c, i)
              /\ p \in Queued(c, i) => chan'[p[1]].tasks[p[2]] = chan[p[1]].tasks[p[2]]
  <2>1. CASE p[1] = g
    <3>1. p = <<g, p[2]>> /\ p[2] \in 1..QueueSize /\ p[2] # n + 1
      BY <1>12, <2>1
    <3>2. p[2] <= Len(chan'[g].tasks) <=> p[2] <= Len(chan[g].tasks)
      BY <3>1, <1>1, <1>2, <1>4, <1>6
    <3>3. p[2] <= Len(chan[g].tasks) => chan'[g].tasks[p[2]] = chan[g].tasks[p[2]]
      BY <3>1, <1>1, <1>2, <1>4, <1>6
    <3> QED  BY <3>2, <3>3, <2>1, InQueued
  <2>2. CASE p[1] # g
    <3>1. chan'[p[1]] = chan[p[1]]
      BY <1>6, <2>2
    <3> QED  BY <3>1, InQueued
  <2> QED  BY <2>1, <2>2
<1>13. /\ <<g, n + 1>> \in Gens \X (1..QueueSize) /\ chan'[g].tasks[n + 1] = task
       /\ n + 1 <= Len(chan'[g].tasks) /\ ~(n + 1 <= Len(chan[g].tasks))
  BY <1>1, <1>2, <1>4, <1>6
<1>14. ASSUME NEW c, NEW i
       PROVE  /\ <<g, n + 1>> \notin Queued(c, i)
              /\ <<g, n + 1>> \in Queued(c, i)' <=> task.for = c /\ task.id = i
  <2> DEFINE p == <<g, n + 1>>
  <2>1. p[1] = g /\ p[2] = n + 1 /\ p \in Gens \X (1..QueueSize)
    BY <1>13
  <2> HIDE DEF p
  <2>2. p \notin Queued(c, i)
    BY <2>1, <1>13, InQueued
  <2>3. chan'[p[1]].tasks[p[2]] = task /\ p[2] <= Len(chan'[p[1]].tasks)
    BY <2>1, <1>13
  <2>4. p \in Queued(c, i)' <=> task.for = c /\ task.id = i
    BY <2>1, <2>3, InQueued
  <2> QED  BY <2>2, <2>4 DEF p
<1>15. ASSUME NEW c, NEW i
       PROVE  Queued(c, i) \subseteq Gens \X (1..QueueSize) /\ Queued(c, i)' \subseteq Gens \X (1..QueueSize)
  BY InQueued
<1>16. ASSUME NEW c, NEW i, task.for # c \/ task.id # i
       PROVE  SameFlight(c, i)
  <2>1. <<g, n + 1>> \notin Queued(c, i) /\ <<g, n + 1>> \notin Queued(c, i)'
    BY <1>14, <1>16
  <2>9. \A p \in Gens \X (1..QueueSize) : p \in Queued(c, i)' <=> p \in Queued(c, i)
    BY <1>12, <2>1
  <2>0. Queued(c, i)' = Queued(c, i)
    BY <1>15, <2>9
  <2>2. {chan'[p[1]].tasks[p[2]].of : p \in Queued(c, i)} = {chan[p[1]].tasks[p[2]].of : p \in Queued(c, i)}
    <3>1. \A p \in Queued(c, i) : chan'[p[1]].tasks[p[2]] = chan[p[1]].tasks[p[2]]
      BY <1>12, <1>14, <1>15
    <3> QED  BY <3>1
  <2>3. Flying(c, i)' = Flying(c, i)
    BY <2>0, <1>11, FlightThen DEF Flying
  <2>4. Carried(c, i)' = Carried(c, i)
    BY <2>0, <2>2, <1>11, FlightThen DEF Carried
  <2> QED  BY <2>3, <2>4 DEF SameFlight
<1>17. /\ Flying(task.for, task.id)' = Flying(task.for, task.id) + 1
       /\ Carried(task.for, task.id)' = Carried(task.for, task.id) \cup {task.of}
  <2> DEFINE p == <<g, n + 1>>
             before == Queued(task.for, task.id)
             handled == Handled(task.for, task.id)
  <2>1. Queued(task.for, task.id)' = before \cup {p} /\ p \notin before
    BY <1>12, <1>13, <1>14, <1>15
  <2>2. \A q \in before : chan'[q[1]].tasks[q[2]] = chan[q[1]].tasks[q[2]]
    BY <1>12, <1>14, <1>15
  <2>3. p[1] = g /\ p[2] = n + 1
    OBVIOUS
  <2>4. chan'[p[1]].tasks[p[2]] = task
    BY <2>3, <1>13
  <2>5. IsFiniteSet(before) /\ Cardinality(before) \in Nat /\ Cardinality(handled) \in Nat
    BY FlyingFinite
  <2> HIDE DEF p
  <2>6. Cardinality(before \cup {p}) = Cardinality(before) + 1
    BY <2>1, <2>5, FS_AddElement
  <2>7. Handled(task.for, task.id)' = handled
    BY <1>11
  <2>8. Flying(task.for, task.id)' = Cardinality(before \cup {p}) + Cardinality(handled)
    BY <2>1, <2>7, FlightThen
  <2>9. Flying(task.for, task.id)' = Flying(task.for, task.id) + 1
    BY <2>5, <2>6, <2>8 DEF Flying
  <2>10. {chan'[q[1]].tasks[q[2]].of : q \in before \cup {p}}
           = {chan[q[1]].tasks[q[2]].of : q \in before} \cup {task.of}
    <3> HIDE DEF before
    <3> QED  BY <2>2, <2>4
  <2>11. Carried(task.for, task.id)' = Carried(task.for, task.id) \cup {task.of}
    BY <2>1, <2>10, <1>11, FlightThen DEF Carried
  <2> QED  BY <2>9, <2>11
<1> QED  BY <1>7, <1>8, <1>9, <1>10, <1>16, <1>17

\* A worker that replies has its task no more.
LEMMA RepliesOK ==
  ASSUME PoolInv, NEW w \in Worker, Replies(w)
  PROVE  /\ PoolInv' /\ NoneRevived /\ UNCHANGED <<generation, chan>> /\ Busy(w) /\ worker[w].at # "parse"
         /\ \A c : StillWork(c) /\ FewerQueued(c)
         /\ \A c, i : worker[w].task.for # c \/ worker[w].task.id # i => SameFlight(c, i)
         /\ \A c, i :
              c = worker[w].task.for /\ i = worker[w].task.id =>
                /\ Flying(c, i)' = Flying(c, i) - 1
                /\ Carried(c, i) = Carried(c, i)' \cup {worker[w].task.of}
<1> DEFINE state == [NotRunning EXCEPT !.at = "loop"]
<1>1. /\ worker[w].at = "reply" /\ UNCHANGED <<generation, started, chan>> /\ Becomes(w, state)
  BY DEF Replies
<1>2. Busy(w) /\ worker[w].at # "none" /\ worker[w].at # "parse"
  BY <1>1 DEF Busy
<1>3. state \in WorkerType /\ state.at = "loop" /\ WorkerSound(state, generation)
  BY NotRunningIs, IdleIsSound
<1> HIDE DEF state
<1>4. PoolInv' /\ worker'[w] = state /\ \A v \in Worker : v # w => worker'[v] = worker[v]
  BY <1>1, <1>2, <1>3, ChansKept, OneWorker
<1>5. NoneRevived
  BY <1>1 DEF NoneRevived
<1>6. ASSUME NEW c
      PROVE  StillWork(c) /\ FewerQueued(c)
  <2>1. StillWork(c)
    BY <1>3, <1>4 DEF StillWork, Busy
  <2>2. FewerQueued(c)
    BY <1>1 DEF FewerQueued
  <2> QED  BY <2>1, <2>2
<1>7. ASSUME NEW c, NEW i
      PROVE  /\ Queued(c, i)' = Queued(c, i)
             /\ {chan'[p[1]].tasks[p[2]].of : p \in Queued(c, i)'} = {chan[p[1]].tasks[p[2]].of : p \in Queued(c, i)}
             /\ Handled(c, i)' = Handled(c, i) \ {w}
             /\ \A v \in Handled(c, i) \ {w} : worker'[v].task.of = worker[v].task.of
             /\ w \in Handled(c, i) <=> worker[w].task.for = c /\ worker[w].task.id = i
  <2>1. /\ Queued(c, i)' = Queued(c, i)
        /\ {chan'[p[1]].tasks[p[2]].of : p \in Queued(c, i)'} = {chan[p[1]].tasks[p[2]].of : p \in Queued(c, i)}
    BY <1>1, SameQueued
  <2>2. \A v \in Worker : v # w => (v \in Handled(c, i)' <=> v \in Handled(c, i))
    BY <1>4 DEF Handled, Busy
  <2>3. w \notin Handled(c, i)'
    BY <1>3, <1>4 DEF Handled, Busy
  <2>4. Handled(c, i)' \subseteq Worker /\ Handled(c, i) \subseteq Worker
    BY DEF Handled
  <2>5. Handled(c, i)' = Handled(c, i) \ {w}
    BY <2>2, <2>3, <2>4
  <2>6. \A v \in Handled(c, i) \ {w} : worker'[v].task.of = worker[v].task.of
    BY <1>4, <2>4
  <2>7. w \in Handled(c, i) <=> worker[w].task.for = c /\ worker[w].task.id = i
    BY <1>2 DEF Handled
  <2> QED  BY <2>1, <2>5, <2>6, <2>7
<1>8. ASSUME NEW c, NEW i, worker[w].task.for # c \/ worker[w].task.id # i
      PROVE  SameFlight(c, i)
  <2>1. Handled(c, i)' = Handled(c, i)
    BY <1>7, <1>8
  <2>2. {worker'[v].task.of : v \in Handled(c, i)'} = {worker[v].task.of : v \in Handled(c, i)}
    <3>1. \A v \in Handled(c, i) : worker'[v].task.of = worker[v].task.of
      BY <1>7, <1>8
    <3> QED  BY <3>1, <2>1
  <2>3. Flying(c, i)' = Flying(c, i)
    BY <2>1, <1>7, FlightThen DEF Flying
  <2>4. Carried(c, i)' = Carried(c, i)
    BY <2>2, <1>7, FlightThen DEF Carried
  <2> QED  BY <2>3, <2>4 DEF SameFlight
<1>9. ASSUME NEW c, NEW i, c = worker[w].task.for, i = worker[w].task.id
      PROVE  Flying(c, i)' = Flying(c, i) - 1 /\ Carried(c, i) = Carried(c, i)' \cup {worker[w].task.of}
  <2>1. w \in Handled(c, i) /\ IsFiniteSet(Handled(c, i)) /\ Cardinality(Handled(c, i)) \in Nat
        /\ Cardinality(Queued(c, i)) \in Nat
    BY <1>7, <1>9, FlyingFinite
  <2>2. Cardinality(Handled(c, i) \ {w}) = Cardinality(Handled(c, i)) - 1
    BY <2>1, FS_RemoveElement
  <2>3. Cardinality(Handled(c, i)') = Cardinality(Handled(c, i)) - 1
    BY <2>2, <1>7
  <2>4. Flying(c, i)' = Flying(c, i) - 1
    BY <2>1, <2>3, <1>7, FlightThen DEF Flying
  <2>5. {worker[v].task.of : v \in Handled(c, i)} = {worker'[v].task.of : v \in Handled(c, i)'} \cup {worker[w].task.of}
    <3>1. \A v \in Handled(c, i) : v = w \/ v \in Handled(c, i)'
      BY <1>7
    <3>2. \A v \in Handled(c, i)' : v \in Handled(c, i) /\ worker'[v].task.of = worker[v].task.of
      BY <1>7
    <3> QED  BY <3>1, <3>2, <2>1
  <2> DEFINE queued == {chan[p[1]].tasks[p[2]].of : p \in Queued(c, i)}
             handled == {worker'[v].task.of : v \in Handled(c, i)'}
  <2>6. Carried(c, i)' = queued \cup handled
    BY <1>7, FlightThen
  <2>7. Carried(c, i) = queued \cup (handled \cup {worker[w].task.of})
    BY <2>5 DEF Carried
  <2> HIDE DEF queued, handled
  <2>8. Carried(c, i) = Carried(c, i)' \cup {worker[w].task.of}
    BY <2>6, <2>7
  <2> QED  BY <2>4, <2>8
<1> QED  BY <1>1, <1>2, <1>4, <1>5, <1>6, <1>8, <1>9

\* A start gives the pool a generation whose queue is empty and whose workers
\* have no task.
LEMMA StartOK ==
  ASSUME PoolInv, Start
  PROVE  PoolMoves /\ generation' = generation + 1
<1> DEFINE g == generation + 1
<1>1. /\ generation \in Gens /\ generation < MaxGenerations /\ started' = TRUE /\ generation' = g
      /\ chan' = [chan EXCEPT ![g] = Fresh] /\ MaxGenerations \in Nat /\ QueueSize \in Nat
      /\ chan \in [Gens -> ChanType] /\ worker \in [Worker -> WorkerType]
      /\ worker' = [w \in Worker |-> IF w[1] = g THEN [NotRunning EXCEPT !.at = "loop"] ELSE worker[w]]
  BY PoolIs DEF Start
<1>2. g \in Gens /\ g > generation
  BY <1>1 DEF Gens
<1>3. chan[g].tasks = <<>> /\ \A h \in Gens : h > generation => chan[h].tasks = <<>>
  BY <1>2 DEF PoolInv, Gens
<1>4. Fresh \in ChanType /\ Fresh.tasks = <<>> /\ Fresh.results = <<>> /\ Len(<<>>) = 0
  BY DEF Fresh, ChanType
<1>5. chan' \in [Gens -> ChanType] /\ chan'[g] = Fresh /\ \A h \in Gens : h # g => chan'[h] = chan[h]
  BY <1>1, <1>2, <1>4
<1>6. \A h \in Gens : chan'[h].tasks = chan[h].tasks
  BY <1>3, <1>4, <1>5
<1>7. \A h \in Gens : /\ Len(chan'[h].tasks) <= QueueSize /\ Len(chan'[h].results) <= QueueSize
                      /\ h > generation' => chan'[h].tasks = <<>>
  <2>1. \A h \in Gens : Len(chan[h].tasks) <= QueueSize /\ Len(chan[h].results) <= QueueSize
    BY PoolIs
  <2>2. \A h \in Gens : h > g => h > generation
    BY <1>1, <1>2 DEF Gens
  <2>3. Len(Fresh.results) <= QueueSize
    BY <1>1, <1>4
  <2>4. \A h \in Gens : Len(chan'[h].results) <= QueueSize
    BY <2>1, <2>3, <1>5
  <2> QED  BY <2>1, <2>2, <2>4, <1>1, <1>3, <1>6
<1>8. ASSUME NEW w \in Worker
      PROVE  /\ worker'[w] \in WorkerType /\ WorkerSound(worker'[w], g)
             /\ w[1] > g => worker'[w] = NotRunning
             /\ worker'[w].at \in {"parse", "share", "reply"} <=> Busy(w)
             /\ Busy(w) => worker'[w] = worker[w]
  <2>1. CASE w[1] = g
    <3>1. worker[w] = NotRunning
      BY <1>2, <2>1 DEF PoolInv
    <3>2. worker'[w] = [NotRunning EXCEPT !.at = "loop"]
      BY <1>1, <2>1
    <3>3. /\ [NotRunning EXCEPT !.at = "loop"] \in WorkerType /\ [NotRunning EXCEPT !.at = "loop"].at = "loop"
          /\ [NotRunning EXCEPT !.at = "loop"].on = 0 /\ NotRunning.at = "none"
      BY NotRunningIs DEF NotRunning
    <3>4. WorkerSound(worker'[w], g)
      BY <3>2, <3>3, <1>1, <1>2 DEF WorkerSound, Gens
    <3>5. ~(w[1] > g)
      BY <2>1, <1>2 DEF Gens
    <3> QED  BY <3>1, <3>2, <3>3, <3>4, <3>5 DEF Busy
  <2>2. CASE w[1] # g
    <3>1. worker'[w] = worker[w]
      BY <1>1, <2>2
    <3>2. worker[w] \in WorkerType /\ WorkerSound(worker[w], generation)
      BY WorkersAre
    <3>3. WorkerSound(worker[w], g)
      BY <3>2, <1>1, <1>2 DEF WorkerSound, Gens, WorkerType
    <3>4. w[1] > g => worker[w] = NotRunning
      <4>1. w[1] \in Nat
        BY DEF Worker, Generation
      <4>2. w[1] > g => w[1] > generation
        BY <4>1, <1>1 DEF Gens
      <4> QED  BY <4>2 DEF PoolInv
    <3> QED  BY <3>1, <3>2, <3>3, <3>4 DEF Busy
  <2> QED  BY <2>1, <2>2
<1>9. PoolInv'
  <2>1. worker' \in [Worker -> WorkerType]
    BY <1>1, <1>8
  <2>2. generation' \in Gens /\ started' \in BOOLEAN
    BY <1>1, <1>2
  <2>3. \A w \in Worker : WorkerSound(worker'[w], generation') /\ (w[1] > generation' => worker'[w] = NotRunning)
    BY <1>1, <1>8
  <2> QED  BY <2>1, <2>2, <2>3, <1>5, <1>7, PoolFrom
<1>10. NoneRevived
  BY <1>1 DEF NoneRevived
<1>11. ASSUME NEW c \in Client, NEW i \in Nat
       PROVE  PoolKeeps(c, i)
  <2>1. \A w \in Worker :
          /\ worker'[w].at \in {"parse", "share", "reply"} <=> Busy(w)
          /\ Busy(w) => /\ worker'[w].task = worker[w].task
                        /\ worker'[w].at # "parse" =>
                             worker[w].at # "parse" /\ worker'[w].result = worker[w].result
    BY <1>8
  <2> QED  BY <2>1, <1>6, KeepsTasks
<1> QED  BY <1>1, <1>9, <1>10, <1>11 DEF PoolMoves

\* The count of a call's results, when its id is named.
LEMMA CountThen ==
  ASSUME NEW c, NEW i, i = call'[c].id
  PROVE  CountOK(c)' <=> Counted(call'[c], generation', chan'[generation'].done, Flying(c, i)', Carried(c, i)')
<1>1. Queued(c, call[c].id)' = Queued(c, i)' /\ Handled(c, call[c].id)' = Handled(c, i)'
  BY DEF Queued, Handled
<1>2. Flying(c, call[c].id)' = Flying(c, i)'
  BY <1>1 DEF Flying
<1>3. Carried(c, call[c].id)' = Carried(c, i)'
  BY <1>1 DEF Carried
<1>4. CountOK(c)' <=> Counted(call'[c], generation', chan'[generation'].done, Flying(c, call[c].id)', Carried(c, call[c].id)')
  BY DEF CountOK, Counted, Current
<1> QED  BY <1>2, <1>3, <1>4

\* The same before the step.
LEMMA CountNow ==
  ASSUME NEW c, NEW i, i = call[c].id
  PROVE  CountOK(c) <=> Counted(call[c], generation, chan[generation].done, Flying(c, i), Carried(c, i))
BY DEF CountOK, Current

\* A client's call, as the invariant has it.
LEMMA CallIs ==
  ASSUME ParsingInv, NEW c \in Client
  PROVE  /\ call[c] \in CallType /\ call[c].id \in Nat /\ call[c].out \in Nat /\ Len(call[c].box) \in Nat
         /\ call \in [Client -> CallType] /\ plan \in Workload /\ tickers \in BOOLEAN /\ alive \in BOOLEAN
         /\ CacheInv /\ PoolInv /\ CacheTyped /\ file \in [Source -> Version] /\ ClientOK(c)
         /\ plan.calls[c] \in Seq(CallsAsked) /\ Len(plan.calls[c]) \in Nat
<1>1. call[c] \in CallType /\ call \in [Client -> CallType] /\ plan \in Workload /\ tickers \in BOOLEAN /\ alive \in BOOLEAN
  BY DEF ParsingInv, CallsTyped
<1>2. call[c].id \in Nat /\ call[c].out \in Nat /\ call[c].box \in Seq(ResultType)
  BY <1>1 DEF CallType
<1>3. CacheInv /\ PoolInv /\ CacheTyped /\ file \in [Source -> Version] /\ ClientOK(c)
  BY DEF ParsingInv, CacheInv, CacheTyped
<1>4. plan.calls[c] \in Seq(CallsAsked)
  BY <1>1 DEF Workload
<1> QED  BY <1>1, <1>2, <1>3, <1>4

-----------------------------------------------------------------------------
\* What a step of the others leaves true of a call.
LEMMA SettingStays ==
  ASSUME NEW c, SettingOK(c), call'[c].at = call[c].at, call'[c].key = call[c].key,
         call'[c].store = call[c].store, call'[c].mtime = call[c].mtime, call[c].mtime \in Version,
         FilesGrow, TextsKept, file \in [Source -> Version], file' \in [Source -> Version],
         mu' = c => mu = c, plan'.text = plan.text
  PROVE  SettingOK(c)'
<1>1. mu' = c => In(c, {"set"})' /\ ~Blank(c)'
  BY DEF SettingOK, In, Blank
<1>2. ASSUME In(c, {"set", "path"})'
      PROVE  /\ call[c].key \in CacheKey /\ call[c].key.of \in call[c].store /\ call[c].mtime <= file[call[c].key.of]
             /\ call[c].mtime <= file'[call[c].key.of]
  <2>1. call[c].key \in CacheKey /\ call[c].key.of \in call[c].store /\ call[c].mtime <= file[call[c].key.of]
    BY <1>2 DEF SettingOK, In
  <2>2. call[c].key.of \in Source
    BY <2>1 DEF CacheKey
  <2>3. file[call[c].key.of] \in Nat /\ file'[call[c].key.of] \in Nat /\ call[c].mtime \in Nat
    BY <2>2 DEF Version
  <2> QED  BY <2>1, <2>2, <2>3 DEF FilesGrow
<1>3. ASSUME In(c, {"path"})', call[c].key \in DOMAIN entries', ~entries'[call[c].key].raced
      PROVE  entries'[call[c].key].text >= call[c].mtime
  <2>1. In(c, {"path"}) /\ In(c, {"set", "path"})'
    BY <1>3 DEF In
  <2>2. CASE call[c].key \in DOMAIN entries /\ ~entries[call[c].key].raced /\ entries'[call[c].key].text = entries[call[c].key].text
    BY <2>1, <2>2 DEF SettingOK
  <2>3. CASE entries'[call[c].key].text = file[call[c].key.of]
    <3>1. call[c].key.of \in Source /\ call[c].mtime <= file[call[c].key.of]
      BY <1>2, <2>1 DEF CacheKey
    <3>2. file[call[c].key.of] \in Nat /\ call[c].mtime \in Nat
      BY <3>1 DEF Version
    <3> QED  BY <3>1, <3>2, <2>3
  <2> QED  BY <2>2, <2>3, <1>3 DEF TextsKept
<1>4. In(c, {"set", "path"})' => call'[c].key \in CacheKey /\ call'[c].key.of \in call'[c].store /\ call'[c].mtime <= file'[call'[c].key.of]
  BY <1>2
<1>5. In(c, {"path"})' /\ call'[c].key \in DOMAIN entries' /\ ~entries'[call'[c].key].raced
        => entries'[call'[c].key].text >= call'[c].mtime
  BY <1>3
<1> QED  BY <1>1, <1>4, <1>5 DEF SettingOK

\* The versions at the begin of a call stay older than those of now, for files
\* only change forward.
LEMMA SinceStays ==
  ASSUME NEW c, call[c] \in CallType, FilesGrow, file \in [Source -> Version], file' \in [Source -> Version],
         \A s \in call[c].ask : call[c].since[s] <= file[s], call[c].since \in [call[c].ask -> Version],
         call'[c].ask = call[c].ask, call'[c].since = call[c].since
  PROVE  \A s \in call'[c].ask : call'[c].since[s] <= file'[s]
<1>1. SUFFICES ASSUME NEW s \in call[c].ask
               PROVE  call[c].since[s] <= file'[s]
  OBVIOUS
<1>2. s \in Source
  BY DEF CallType
<1>3. file[s] \in Nat /\ file'[s] \in Nat /\ call[c].since[s] \in Nat
  BY <1>2 DEF Version
<1> QED  BY <1>2, <1>3 DEF FilesGrow

\* A call that does not move keeps its sources.
LEMMA AskStays ==
  ASSUME NEW c, AskOK(c), call'[c] = call[c], call[c] \in CallType,
         FilesGrow, file \in [Source -> Version], file' \in [Source -> Version]
  PROVE  AskOK(c)'
<1>1. \A s \in call'[c].ask : call'[c].since[s] <= file'[s]
  <2>1. (\A s \in call[c].ask : call[c].since[s] <= file[s]) /\ call[c].since \in [call[c].ask -> Version]
    BY DEF AskOK
  <2> QED  BY <2>1, SinceStays
<1> QED  BY <1>1 DEF AskOK, In, Fetches

\* And what it got.
LEMMA GotStays ==
  ASSUME NEW c, GotOK(c), call'[c] = call[c]
  PROVE  GotOK(c)'
BY DEF GotOK, Fetches

\* The tasks of a call stay its own, as long as the generation it awaits them
\* from is that of all of them, and those it adds are.
LEMMA TasksGrow ==
  ASSUME ParsingInv, NEW c \in Client, NEW i \in Nat, i = call[c].id,
         call'[c].id = call[c].id, call'[c].op = call[c].op, call'[c].ask = call[c].ask,
         call'[c].since = call[c].since, call'[c].in <= generation',
         call'[c].in = call[c].in \/ Flying(c, i) = 0 \/ call[c].op # "batch",
         call'[c].at # "idle" => call[c].at # "idle",
         plan'.calls[c] = plan.calls[c], StillWork(c),
         \A g \in Gens : \A task \in ToSet(chan'[g].tasks) :
           task.for = c =>
             \/ task \in ToSet(chan[g].tasks)
             \/ /\ task.id = call[c].id /\ call[c].at # "idle" /\ call[c].op = "batch"
                /\ g >= call'[c].in /\ task.of \in call[c].ask,
         \A k \in DOMAIN call'[c].box : call[c].op = "batch" /\ Timely(call'[c].box[k], c)
  PROVE  TasksOK(c)'
<1>1. /\ call[c] \in CallType /\ TasksOK(c) /\ PoolInv /\ AskOK(c) /\ file \in [Source -> Version]
      /\ chan \in [Gens -> ChanType]
  BY CallIs, PoolIs DEF ClientOK
<1>2. ~In(c, {"idle"})' => call'[c].id = Len(plan'.calls[c]) + 1
  BY <1>1 DEF TasksOK, In
<1>3. ASSUME NEW g \in Gens, NEW task \in ToSet(chan'[g].tasks), task.for = c
      PROVE  /\ task.id > Len(plan'.calls[c])
             /\ task.id = call'[c].id => call'[c].op = "batch" /\ g >= call'[c].in /\ task.of \in call'[c].ask
  <2>0. CASE task \notin ToSet(chan[g].tasks)
    <3>1. /\ task.id = call[c].id /\ call[c].at # "idle" /\ call[c].op = "batch"
          /\ g >= call'[c].in /\ task.of \in call[c].ask
      BY <2>0, <1>3
    <3>2. call[c].id = Len(plan.calls[c]) + 1 /\ Len(plan.calls[c]) \in Nat
      BY <3>1, <1>1, CallIs DEF TasksOK, In
    <3> QED  BY <3>1, <3>2
  <2>1. SUFFICES ASSUME task \in ToSet(chan[g].tasks)
                 PROVE  /\ task.id > Len(plan'.calls[c])
                        /\ task.id = call'[c].id => call'[c].op = "batch" /\ g >= call'[c].in /\ task.of \in call'[c].ask
    BY <2>0
  <2>2. /\ task.id > Len(plan'.calls[c])
        /\ task.id = call'[c].id => call'[c].op = "batch" /\ g >= call[c].in /\ task.of \in call'[c].ask
    BY <2>1, <1>1, <1>3 DEF TasksOK, Gens
  <2>3. task.id = i => Flying(c, i) # 0
    <3>1. PICK k \in DOMAIN chan[g].tasks : chan[g].tasks[k] = task
      BY <2>1 DEF ToSet
    <3>2. chan[g].tasks \in Seq(TaskType) /\ Len(chan[g].tasks) <= QueueSize /\ QueueSize \in Nat
      BY <1>1, PoolIs
    <3>3. k \in 1..QueueSize /\ k <= Len(chan[g].tasks)
      BY <3>1, <3>2
    <3>4. task.id = i => <<g, k>> \in Queued(c, i)
      BY <3>1, <3>3, <1>3, InQueued
    <3>5. Queued(c, i) # {} => Cardinality(Queued(c, i)) # 0
      BY FlyingFinite, FS_EmptySet
    <3> QED  BY <3>4, <3>5, FlyingFinite DEF Flying
  <2> QED  BY <2>1, <2>2, <2>3
<1>4. ASSUME NEW w \in Worker, Busy(w)', worker'[w].task.for = c
      PROVE  /\ worker'[w].task.id > Len(plan'.calls[c])
             /\ worker'[w].task.id = call'[c].id =>
                  /\ call'[c].op = "batch" /\ worker'[w].task.of \in call'[c].ask
                  /\ ~(worker'[w].at = "parse") => Timely(worker'[w].result, c)
  <2>1. \/ /\ Busy(w) /\ worker'[w].task = worker[w].task
           /\ worker'[w].at # "parse" =>
                \/ worker[w].at # "parse" /\ worker'[w].result = worker[w].result
                \/ worker'[w].result.of = worker[w].task.of /\ worker'[w].result.text = file[worker[w].task.of]
        \/ worker'[w].at = "parse" /\ \E g \in Gens : worker'[w].task \in ToSet(chan[g].tasks)
    BY <1>4 DEF StillWork, Busy
  <2>2. CASE worker'[w].at = "parse" /\ \E g \in Gens : worker'[w].task \in ToSet(chan[g].tasks)
    BY <2>2, <1>1, <1>4 DEF TasksOK, Gens
  <2>3. CASE /\ Busy(w) /\ worker'[w].task = worker[w].task
             /\ worker'[w].at # "parse" =>
                  \/ worker[w].at # "parse" /\ worker'[w].result = worker[w].result
                  \/ worker'[w].result.of = worker[w].task.of /\ worker'[w].result.text = file[worker[w].task.of]
    <3>1. /\ worker[w].task.id > Len(plan.calls[c])
          /\ worker[w].task.id = call[c].id =>
               /\ call[c].op = "batch" /\ worker[w].task.of \in call[c].ask
               /\ ~(worker[w].at = "parse") => Timely(worker[w].result, c)
      BY <2>3, <1>1, <1>4 DEF TasksOK
    <3>2. ASSUME worker[w].task.id = call[c].id, worker'[w].result.of = worker[w].task.of,
                 worker'[w].result.text = file[worker[w].task.of]
          PROVE  Timely(worker'[w].result, c)
      <4>1. worker[w].task.of \in call[c].ask
        BY <3>1, <3>2
      <4>2. call[c].since[worker[w].task.of] <= file[worker[w].task.of]
        BY <4>1, <1>1 DEF AskOK
      <4>3. file[worker[w].task.of] \in Nat /\ call[c].since[worker[w].task.of] \in Nat
        <5>1. worker[w].task.of \in Source
          BY <4>1, <1>1 DEF CallType
        <5> QED  BY <5>1, <4>1, <1>1 DEF AskOK, Version
      <4> QED  BY <3>2, <4>1, <4>2, <4>3 DEF Timely
    <3> QED  BY <2>3, <3>1, <3>2
  <2> QED  BY <2>1, <2>2, <2>3
<1>5. \A result : Timely(result, c)' <=> (result.of \in call[c].ask /\ (result.ok => result.text >= call[c].since[result.of]))
  BY DEF Timely
<1>6. \A result : Timely(result, c) <=> (result.of \in call[c].ask /\ (result.ok => result.text >= call[c].since[result.of]))
  BY DEF Timely
<1>7. \A k \in DOMAIN call'[c].box :
        /\ call'[c].op = "batch" /\ call'[c].box[k].of \in call'[c].ask
        /\ call'[c].box[k].ok => call'[c].box[k].text >= call'[c].since[call'[c].box[k].of]
  BY <1>6
<1>8. \A w \in Worker :
        Busy(w)' /\ worker'[w].task.for = c =>
          /\ worker'[w].task.id > Len(plan'.calls[c])
          /\ worker'[w].task.id = call'[c].id =>
               /\ call'[c].op = "batch" /\ worker'[w].task.of \in call'[c].ask
               /\ ~(worker'[w].at = "parse") =>
                    /\ worker'[w].result.of \in call'[c].ask
                    /\ worker'[w].result.ok => worker'[w].result.text >= call'[c].since[worker'[w].result.of]
  BY <1>4, <1>6
<1> QED  BY <1>2, <1>3, <1>7, <1>8 DEF TasksOK, Timely, Gens

\* A call that gives the pool no new task.
LEMMA TasksStay ==
  ASSUME ParsingInv, NEW c \in Client, NEW i \in Nat, i = call[c].id,
         call'[c].id = call[c].id, call'[c].op = call[c].op, call'[c].ask = call[c].ask,
         call'[c].since = call[c].since, call'[c].in <= generation',
         call'[c].in = call[c].in \/ Flying(c, i) = 0 \/ call[c].op # "batch",
         call'[c].at # "idle" => call[c].at # "idle",
         plan'.calls[c] = plan.calls[c], FewerQueued(c), StillWork(c),
         \A k \in DOMAIN call'[c].box : call[c].op = "batch" /\ Timely(call'[c].box[k], c)
  PROVE  TasksOK(c)'
<1>1. \A g \in Gens : \A task \in ToSet(chan'[g].tasks) : task.for = c => task \in ToSet(chan[g].tasks)
  BY DEF FewerQueued
<1> QED  BY <1>1, TasksGrow

\* What is awaited stays counted when the pool moves.
LEMMA CountedStays ==
  ASSUME NEW k, NEW on, NEW done, NEW then, NEW ended, NEW n, NEW s, Counted(k, on, done, n, s),
         k.in <= on, on \in Nat, k.in \in Nat,
         (then = on /\ (~ended => ~done)) \/ then = on + 1
  PROVE  Counted(k, then, ended, n, s)
BY DEF Counted

\* A call that does not move is owed as much as before.
LEMMA CountStays ==
  ASSUME ParsingInv, NEW c \in Client, NEW i \in Nat, i = call[c].id, call'[c] = call[c],
         NoneRevived, SameFlight(c, i)
  PROVE  CountOK(c)'
<1>1. /\ call[c] \in CallType /\ TasksOK(c) /\ CountOK(c) /\ generation \in Gens /\ MaxGenerations \in Nat
  BY CallIs, PoolIs DEF ClientOK
<1>2. call[c].in <= generation /\ generation \in Nat /\ call[c].in \in Nat
  BY <1>1 DEF TasksOK, CallType, Gens
<1>3. Counted(call[c], generation, chan[generation].done, Flying(c, i), Carried(c, i))
  BY <1>1, CountNow
<1>4. (generation' = generation /\ (~chan'[generation'].done => ~chan[generation].done)) \/ generation' = generation + 1
  BY DEF NoneRevived
<1>5. Counted(call[c], generation', chan'[generation'].done, Flying(c, i), Carried(c, i))
  BY <1>2, <1>3, <1>4, CountedStays
<1>6. Counted(call'[c], generation', chan'[generation'].done, Flying(c, i)', Carried(c, i)')
  BY <1>5 DEF SameFlight
<1>7. i = call'[c].id
  OBVIOUS
<1> QED  BY <1>6, <1>7, CountThen

\* A call the step is not of.
LEMMA OthersOK ==
  ASSUME ParsingInv, NEW c \in Client, call'[c] = call[c], plan'.calls[c] = plan.calls[c], plan'.text = plan.text,
         CacheMoves, mu' = c => mu = c, PoolInv', NoneRevived, \A i \in Nat : PoolKeeps(c, i)
  PROVE  ClientOK(c)'
<1>1. PICK i \in Nat : i = call[c].id
  BY CallIs
<1>2. /\ call[c] \in CallType /\ ClientOK(c) /\ file \in [Source -> Version] /\ call[c].mtime \in Version
      /\ PoolKeeps(c, i)
  BY <1>1, CallIs DEF CallType
<1>3. file' \in [Source -> Version] /\ FilesGrow /\ TextsKept
  BY DEF CacheMoves, CacheInv, CacheTyped
<1>4. SettingOK(c)'
  BY <1>2, <1>3, SettingStays DEF ClientOK
<1>5. AskOK(c)'
  BY <1>2, <1>3, AskStays DEF ClientOK
<1>6. GotOK(c)'
  BY <1>2, GotStays DEF ClientOK
<1>7. TasksOK(c)'
  <2>1. call'[c].in <= generation'
    <3>1. call[c].in <= generation /\ call[c].in \in Nat /\ generation \in Nat
      BY <1>2, CallIs, PoolIs DEF ClientOK, TasksOK, CallType, Gens
    <3> QED  BY <3>1 DEF NoneRevived
  <2>2. \A k \in DOMAIN call'[c].box : call[c].op = "batch" /\ Timely(call'[c].box[k], c)
    BY <1>2 DEF ClientOK, TasksOK
  <2> QED  BY <1>1, <1>2, <2>1, <2>2, TasksStay DEF PoolKeeps
<1>8. CountOK(c)'
  BY <1>1, <1>2, CountStays DEF PoolKeeps
<1> QED  BY <1>4, <1>5, <1>6, <1>7, <1>8 DEF ClientOK

\* A step in which no call changes.
LEMMA NobodyMoves ==
  ASSUME ParsingInv, UNCHANGED call, plan' \in Workload, plan'.calls = plan.calls, plan'.text = plan.text,
         tickers' \in BOOLEAN, alive' \in BOOLEAN, CacheMoves, mu' = mu, PoolMoves
  PROVE  ParsingInv'
<1>1. \A c \in Client : ClientOK(c)'
  BY OthersOK DEF PoolMoves
<1>2. CallsTyped'
  BY DEF ParsingInv, CallsTyped
<1> QED  BY <1>1, <1>2 DEF ParsingInv, CacheMoves, PoolMoves

\* A step of one call.
LEMMA OneMoves ==
  ASSUME ParsingInv, NEW c \in Client, NEW k \in CallType, Goes(c, k),
         plan' \in Workload, plan'.text = plan.text, tickers' \in BOOLEAN, alive' \in BOOLEAN, CacheMoves,
         PoolInv', NoneRevived,
         \A d \in Client \ {c} : /\ plan'.calls[d] = plan.calls[d] /\ (mu' = d => mu = d)
                                 /\ \A i \in Nat : PoolKeeps(d, i),
         ClientOK(c)'
  PROVE  ParsingInv'
<1>1. call \in [Client -> CallType]
  BY DEF ParsingInv, CallsTyped
<1>2. call' \in [Client -> CallType] /\ \A d \in Client : d # c => call'[d] = call[d]
  BY <1>1 DEF Goes
<1>3. \A d \in Client : d # c => ClientOK(d)'
  <2>1. SUFFICES ASSUME NEW d \in Client, d # c
                 PROVE  ClientOK(d)'
    OBVIOUS
  <2> QED  BY <1>2, <2>1, OthersOK
<1>4. CallsTyped'
  BY <1>2 DEF CallsTyped
<1> QED  BY <1>3, <1>4 DEF ParsingInv, CacheMoves

\* What is the call afterwards.
LEMMA GoesThere ==
  ASSUME ParsingInv, NEW c \in Client, NEW k, Goes(c, k)
  PROVE  call'[c] = k
BY DEF ParsingInv, CallsTyped, Goes

\* A step of one call that leaves the plan.
LEMMA OneActs ==
  ASSUME ParsingInv, NEW c \in Client, NEW k \in CallType, Goes(c, k),
         UNCHANGED plan, tickers' \in BOOLEAN, alive' \in BOOLEAN, CacheMoves,
         \A d \in Client \ {c} : mu' = d => mu = d, PoolMoves, ClientOK(c)'
  PROVE  ParsingInv'
<1>1. plan \in Workload
  BY DEF ParsingInv, CallsTyped
<1> QED  BY <1>1, OneMoves DEF PoolMoves

\* The steps that leave the cache.
LEMMA CacheStays ==
  ASSUME ParsingInv, UNCHANGED cacheVars
  PROVE  CacheMoves /\ mu' = mu
<1>1. /\ UNCHANGED <<file, entries, lru, totalEntries, memoryUsage, mu, deletes, disk, revived>>
      /\ CacheInv /\ mu \in Client \cup {NoClient} /\ deletes \in [CacheKey -> Nat]
  BY DEF cacheVars, ParsingInv, CacheInv, CacheTyped
<1> QED  BY <1>1, AsideOK

-----------------------------------------------------------------------------
\* The steps of a call that neither give out tasks nor collect results.
LEMMA OwnTasks ==
  ASSUME ParsingInv, NEW c \in Client, PoolMoves, plan'.calls[c] = plan.calls[c],
         call'[c].id = call[c].id, call'[c].op = call[c].op, call'[c].ask = call[c].ask,
         call'[c].since = call[c].since, call'[c].box = call[c].box, call[c].at # "idle",
         call'[c].in = call[c].in \/ (call[c].op # "batch" /\ call'[c].in <= generation')
  PROVE  TasksOK(c)'
<1>1. PICK i \in Nat : i = call[c].id
  BY CallIs
<1>2. PoolKeeps(c, i) /\ NoneRevived
  BY DEF PoolMoves
<1>3. call'[c].in <= generation'
  <2>1. call[c].in <= generation /\ call[c].in \in Nat /\ generation \in Nat
    BY CallIs, PoolIs DEF ClientOK, TasksOK, CallType, Gens
  <2> QED  BY <1>2, <2>1 DEF NoneRevived
<1>4. \A k \in DOMAIN call'[c].box : call[c].op = "batch" /\ Timely(call'[c].box[k], c)
  BY CallIs DEF ClientOK, TasksOK
<1> QED  BY <1>1, <1>2, <1>3, <1>4, TasksStay DEF PoolKeeps

\* A call that awaits nothing from the pool in its next step.
LEMMA OwnCount ==
  ASSUME ParsingInv, NEW c \in Client, PoolMoves,
         call'[c].id = call[c].id, call'[c].box = call[c].box, call'[c].out = call[c].out,
         call'[c].at \notin {"submit", "collect"},
         call'[c].at \in {"lookup", "touch", "healthy", "start"} => call[c].out = 0 /\ call'[c].store = {}
  PROVE  CountOK(c)'
<1>1. PICK i \in Nat : i = call[c].id
  BY CallIs
<1>2. SameFlight(c, i) /\ CountOK(c)
  BY <1>1, CallIs DEF PoolMoves, PoolKeeps, ClientOK
<1>3. Flying(c, i) + Len(call[c].box) <= call[c].out
  BY <1>1, <1>2, CountNow DEF Counted
<1>4. Counted(call'[c], generation', chan'[generation'].done, Flying(c, i)', Carried(c, i)')
  BY <1>2, <1>3 DEF Counted, SameFlight
<1> QED  BY <1>1, <1>4, CountThen

\* A step of a client that gives nothing to the pool and takes nothing from it.
LEMMA MovesOK ==
  ASSUME ParsingInv, NEW c \in Client, NEW k \in CallType, Goes(c, k),
         plan' \in Workload, plan'.text = plan.text, plan'.calls = plan.calls, tickers' \in BOOLEAN, alive' \in BOOLEAN,
         CacheMoves, \A d \in Client \ {c} : mu' = d => mu = d, PoolMoves,
         k.id = call[c].id, k.op = call[c].op, k.ask = call[c].ask, k.since = call[c].since,
         k.box = call[c].box, k.out = call[c].out, call[c].at # "idle",
         k.in = call[c].in \/ (call[c].op # "batch" /\ k.in <= generation'),
         k.at \notin {"submit", "collect"},
         k.at \in {"lookup", "touch", "healthy", "start"} => call[c].out = 0 /\ k.store = {},
         SettingOK(c)', AskOK(c)', GotOK(c)'
  PROVE  ParsingInv'
<1>1. call'[c] = k
  BY GoesThere
<1>2. TasksOK(c)' /\ CountOK(c)'
  BY <1>1, OwnTasks, OwnCount
<1>3. PoolInv' /\ NoneRevived /\ \A d \in Client : \A i \in Nat : PoolKeeps(d, i)
  BY DEF PoolMoves
<1> QED  BY <1>2, <1>3, OneMoves DEF ClientOK

\* A call that is not about to set anything.
LEMMA NotSetting ==
  ASSUME NEW c, SettingOK(c), call[c].at # "set" \/ mu' # c, call'[c].at \notin {"set", "path"}, mu' = c => mu = c
  PROVE  SettingOK(c)'
BY DEF SettingOK, In

\* The same of a call that moves.
LEMMA SinceIs ==
  ASSUME ParsingInv, NEW c \in Client, CacheMoves, call'[c].ask = call[c].ask, call'[c].since = call[c].since
  PROVE  /\ call'[c].since \in [call'[c].ask -> Version]
         /\ \A s \in call'[c].ask : call'[c].since[s] <= file'[s]
<1>1. /\ call[c] \in CallType /\ AskOK(c) /\ file \in [Source -> Version]
      /\ file' \in [Source -> Version] /\ FilesGrow
  BY CallIs DEF ClientOK, CacheMoves, CacheInv, CacheTyped
<1>2. (\A s \in call[c].ask : call[c].since[s] <= file[s]) /\ call[c].since \in [call[c].ask -> Version]
  BY <1>1 DEF AskOK
<1> QED  BY <1>1, <1>2, SinceStays

\* A call that fails returns.
LEMMA FailsOK ==
  ASSUME ParsingInv, NEW c \in Client, Fails(c), call[c].at \notin {"idle", "set"},
         plan' \in Workload, plan'.text = plan.text, plan'.calls = plan.calls, tickers' \in BOOLEAN, alive' \in BOOLEAN,
         UNCHANGED cacheVars, PoolMoves
  PROVE  ParsingInv'
<1> DEFINE k == [call[c] EXCEPT !.at = "return", !.failed = TRUE]
<1>0. call[c] \in CallType
  BY CallIs
<1>1. /\ k \in CallType /\ k.at = "return" /\ k.failed = TRUE /\ k.id = call[c].id /\ k.op = call[c].op
      /\ k.ask = call[c].ask /\ k.since = call[c].since /\ k.box = call[c].box /\ k.out = call[c].out
      /\ k.in = call[c].in /\ k.got = call[c].got /\ k.stale = call[c].stale
  BY <1>0 DEF CallType
<1>2. Goes(c, k) /\ CacheMoves /\ mu' = mu
  BY CacheStays DEF Fails
<1> HIDE DEF k
<1>3. call'[c] = k /\ ClientOK(c)
  BY <1>2, GoesThere, CallIs
<1>4. SettingOK(c)'
  BY <1>1, <1>2, <1>3, NotSetting DEF ClientOK
<1>5. AskOK(c)'
  <2>1. /\ call'[c].since \in [call'[c].ask -> Version]
        /\ \A s \in call'[c].ask : call'[c].since[s] <= file'[s]
    BY <1>1, <1>2, <1>3, SinceIs
  <2> QED  BY <2>1, <1>1, <1>3 DEF AskOK, In
<1>6. GotOK(c)'
  BY <1>1, <1>3 DEF ClientOK, GotOK, Fetches
<1> QED  BY <1>1, <1>2, <1>4, <1>5, <1>6, MovesOK

\* What stays when only a label changes.
LEMMA LabelIs ==
  ASSUME ParsingInv, NEW c \in Client, NEW label,
         label \in {"idle", "return", "lookup", "touch", "parse", "healthy", "start", "submit", "collect",
                    "stat", "set", "path", "invalidate", "stop", "cancel", "queue", "wait", "tickers",
                    "persist", "clear"},
         NEW k, k = [call[c] EXCEPT !.at = label]
  PROVE  /\ k \in CallType /\ k.at = label /\ k.op = call[c].op /\ k.ask = call[c].ask /\ k.since = call[c].since
         /\ k.todo = call[c].todo /\ k.rest = call[c].rest /\ k.store = call[c].store /\ k.got = call[c].got
         /\ k.key = call[c].key /\ k.mtime = call[c].mtime /\ k.out = call[c].out /\ k.box = call[c].box
         /\ k.in = call[c].in /\ k.id = call[c].id /\ k.failed = call[c].failed /\ k.stale = call[c].stale
<1>1. call[c] \in CallType
  BY CallIs
<1> QED  BY <1>1 DEF CallType

\* The calls that fetch nothing go from step to step.
LEMMA OnwardOK ==
  ASSUME ParsingInv, NEW c \in Client, NEW label \in {"return", "queue", "wait", "tickers", "persist", "clear"},
         GoesTo(c, label), call[c].op \in {"stop", "close", "invalidate"}, call[c].at \notin {"idle", "set"},
         UNCHANGED plan, tickers' \in BOOLEAN, alive' \in BOOLEAN, CacheMoves, mu' = mu, PoolMoves
  PROVE  ParsingInv'
<1>1. PICK k : k = [call[c] EXCEPT !.at = label]
  OBVIOUS
<1>2. /\ k \in CallType /\ k.at = label /\ k.op = call[c].op /\ k.ask = call[c].ask /\ k.since = call[c].since
      /\ k.out = call[c].out /\ k.box = call[c].box /\ k.in = call[c].in /\ k.id = call[c].id
  BY <1>1, LabelIs
<1>3. Goes(c, k)
  BY <1>1 DEF GoesTo
<1>4. call'[c] = k /\ ClientOK(c) /\ plan \in Workload
  BY <1>3, GoesThere, CallIs
<1>5. SettingOK(c)'
  BY <1>2, <1>4, NotSetting DEF ClientOK
<1>6. AskOK(c)'
  <2>1. /\ call'[c].since \in [call'[c].ask -> Version]
        /\ \A s \in call'[c].ask : call'[c].since[s] <= file'[s]
    BY <1>2, <1>4, SinceIs
  <2> QED  BY <2>1, <1>2, <1>4 DEF AskOK, In, Fetches
<1>7. GotOK(c)'
  BY <1>2, <1>4 DEF GotOK, Fetches
<1> QED  BY <1>2, <1>3, <1>4, <1>5, <1>6, <1>7, MovesOK

\* The cache or the pool is left.
LEMMA PoolRests ==
  ASSUME ParsingInv, UNCHANGED poolVars
  PROVE  PoolMoves
BY PoolStays DEF ParsingInv

\* A panic ends the process and changes nothing else.
LEMMA PanicsOK ==
  ASSUME ParsingInv, Panics
  PROVE  ParsingInv'
<1>1. UNCHANGED <<cacheVars, poolVars, call, plan, tickers>> /\ alive' \in BOOLEAN
  BY DEF Panics
<1>2. CacheMoves /\ mu' = mu /\ PoolMoves
  BY <1>1, CacheStays, PoolRests
<1>3. plan \in Workload /\ tickers \in BOOLEAN
  BY DEF ParsingInv, CallsTyped
<1> QED  BY <1>1, <1>2, <1>3, NobodyMoves

\* Whose steps the stops and the invalidation are.
LEMMA OpIs ==
  ASSUME ParsingInv, NEW c \in Client,
         call[c].at \in {"invalidate", "stop", "cancel", "queue", "wait", "tickers", "persist", "clear"}
  PROVE  call[c].op \in {"stop", "close", "invalidate"} /\ call[c].at \notin {"idle", "set"}
BY CallIs DEF ClientOK, AskOK, In

\* A file is forgotten.
LEMMA InvalidatesOK ==
  ASSUME ParsingInv, NEW c \in Client, Invalidates(c)
  PROVE  ParsingInv'
<1>1. /\ call[c].at = "invalidate" /\ GoesTo(c, "return") /\ UNCHANGED <<poolVars, plan, tickers, alive>>
      /\ \E s \in call[c].ask : InvalidateFile(s)
  BY DEF Invalidates, At, Pooled
<1>2. CacheMoves /\ mu' = mu
  BY <1>1, CallIs, InvalidateFileOK
<1>3. PoolMoves /\ tickers \in BOOLEAN /\ alive \in BOOLEAN
  BY <1>1, PoolRests, CallIs
<1>4. call[c].op \in {"stop", "close", "invalidate"} /\ call[c].at \notin {"idle", "set"}
  BY <1>1, OpIs
<1> QED  BY <1>1, <1>2, <1>3, <1>4, OnwardOK

\* The steps of Stop with the pool.
LEMMA CancelsPoolOK ==
  ASSUME ParsingInv, NEW c \in Client, CancelsPool(c) \/ ClosesQueue(c) \/ WorkersGone(c)
  PROVE  ParsingInv'
<1>1. /\ UNCHANGED <<cacheVars, plan, tickers, alive>>
      /\ call[c].at \in {"cancel", "queue", "wait"}
      /\ \E label \in {"return", "queue", "wait", "tickers"} : GoesTo(c, label)
      /\ StopCancels(call[c].in) \/ StopCloses(call[c].in) \/ StopEnds(call[c].in)
  BY DEF CancelsPool, ClosesQueue, WorkersGone, At, Cached
<1>2. CacheMoves /\ mu' = mu /\ tickers \in BOOLEAN /\ alive \in BOOLEAN
  BY <1>1, CacheStays, CallIs
<1>3. PoolMoves
  <2>1. call[c].in \in Gens /\ PoolInv
    BY CallIs DEF CallType, Gens
  <2> QED  BY <1>1, <2>1, StopStepsOK
<1>4. call[c].op \in {"stop", "close", "invalidate"} /\ call[c].at \notin {"idle", "set"}
  BY <1>1, OpIs
<1> QED  BY <1>1, <1>2, <1>3, <1>4, OnwardOK

\* Close stops the background routines, once.
LEMMA StopsTickersOK ==
  ASSUME ParsingInv, NEW c \in Client, StopsTickers(c)
  PROVE  ParsingInv'
<1>1. call[c].at = "tickers"
  BY DEF StopsTickers, At
<1>2. call[c].op \in {"stop", "close", "invalidate"} /\ call[c].at \notin {"idle", "set"}
  BY <1>1, OpIs
<1>3. CASE Panics
  BY <1>3, PanicsOK
<1>4. CASE tickers' = FALSE /\ GoesTo(c, "persist") /\ UNCHANGED <<cacheVars, poolVars, plan, alive>>
  <2>1. CacheMoves /\ mu' = mu /\ alive \in BOOLEAN /\ PoolMoves
    BY <1>4, CacheStays, PoolRests, CallIs
  <2> QED  BY <1>2, <1>4, <2>1, OnwardOK
<1> QED  BY <1>3, <1>4 DEF StopsTickers

\* Close persists the cache.
LEMMA PersistsLastOK ==
  ASSUME ParsingInv, NEW c \in Client, PersistsLast(c)
  PROVE  ParsingInv'
<1>1. /\ call[c].at = "persist" /\ GoesTo(c, "clear") /\ UNCHANGED <<poolVars, plan, tickers, alive>>
      /\ Persist \/ UNCHANGED cacheVars
  BY DEF PersistsLast, At, Pooled
<1>2. CacheMoves /\ mu' = mu
  BY <1>1, CallIs, CacheStays, PersistOK
<1>3. PoolMoves /\ tickers \in BOOLEAN /\ alive \in BOOLEAN
  BY <1>1, PoolRests, CallIs
<1>4. call[c].op \in {"stop", "close", "invalidate"} /\ call[c].at \notin {"idle", "set"}
  BY <1>1, OpIs
<1> QED  BY <1>1, <1>2, <1>3, <1>4, OnwardOK

\* Close clears it.
LEMMA ClearsOK ==
  ASSUME ParsingInv, NEW c \in Client, Clears(c)
  PROVE  ParsingInv'
<1>1. /\ call[c].at = "clear" /\ GoesTo(c, "return") /\ UNCHANGED <<poolVars, plan, tickers, alive>> /\ Clear
  BY DEF Clears, At, Pooled
<1>2. CacheMoves /\ mu' = mu
  BY <1>1, CallIs, ClearOK
<1>3. PoolMoves /\ tickers \in BOOLEAN /\ alive \in BOOLEAN
  BY <1>1, PoolRests, CallIs
<1>4. call[c].op \in {"stop", "close", "invalidate"} /\ call[c].at \notin {"idle", "set"}
  BY <1>1, OpIs
<1> QED  BY <1>1, <1>2, <1>3, <1>4, OnwardOK

\* A call that fails by itself.
LEMMA FailsAlone ==
  ASSUME ParsingInv, NEW c \in Client, Fails(c), UNCHANGED poolVars, Cached, call[c].at \notin {"idle", "set"}
  PROVE  ParsingInv'
<1>1. UNCHANGED <<cacheVars, plan, tickers, alive>> /\ PoolMoves
  BY PoolRests DEF Cached
<1>2. plan \in Workload /\ tickers \in BOOLEAN /\ alive \in BOOLEAN
  BY CallIs
<1> QED  BY <1>1, <1>2, FailsOK

\* Stop begins, or finds the pool not started.
LEMMA StopsOK ==
  ASSUME ParsingInv, NEW c \in Client, Stops(c)
  PROVE  ParsingInv'
<1>1. call[c].at = "stop" /\ Cached
  BY DEF Stops, At
<1>2. CASE Fails(c) /\ UNCHANGED poolVars
  BY <1>1, <1>2, FailsAlone
<1>3. CASE StopBegins /\ Goes(c, [call[c] EXCEPT !.at = "cancel", !.in = generation])
  <2> DEFINE k == [call[c] EXCEPT !.at = "cancel", !.in = generation]
  <2>1. call[c] \in CallType /\ generation \in 0..MaxGenerations /\ PoolInv /\ generation \in Nat
    BY CallIs, PoolIs DEF Gens
  <2>2. /\ k \in CallType /\ k.at = "cancel" /\ k.op = call[c].op /\ k.ask = call[c].ask /\ k.since = call[c].since
        /\ k.out = call[c].out /\ k.box = call[c].box /\ k.in = generation /\ k.id = call[c].id
    BY <2>1 DEF CallType
  <2>3. Goes(c, k) /\ call[c].op \in {"stop", "close", "invalidate"}
    BY <1>1, <1>3, OpIs
  <2> HIDE DEF k
  <2>4. call'[c] = k /\ ClientOK(c) /\ plan \in Workload /\ tickers \in BOOLEAN /\ alive \in BOOLEAN
    BY <2>3, GoesThere, CallIs
  <2>5. /\ UNCHANGED <<cacheVars, plan, tickers, alive>> /\ CacheMoves /\ mu' = mu /\ PoolMoves
        /\ generation' = generation
    BY <1>1, <1>3, <2>1, StopBeginsOK, CacheStays DEF Cached, StopBegins
  <2>6. SettingOK(c)'
    BY <1>1, <2>2, <2>4, <2>5, NotSetting DEF ClientOK
  <2>7. AskOK(c)'
    <3>1. /\ call'[c].since \in [call'[c].ask -> Version]
          /\ \A s \in call'[c].ask : call'[c].since[s] <= file'[s]
      BY <2>2, <2>4, <2>5, SinceIs
    <3> QED  BY <3>1, <2>2, <2>3, <2>4 DEF AskOK, In, Fetches
  <2>8. GotOK(c)'
    BY <2>2, <2>3, <2>4 DEF GotOK, Fetches
  <2>9. call[c].op # "batch" /\ k.in <= generation'
    BY <2>1, <2>2, <2>3, <2>5
  <2> QED  BY <1>1, <2>2, <2>3, <2>4, <2>5, <2>6, <2>7, <2>8, <2>9, MovesOK
<1> QED  BY <1>2, <1>3 DEF Stops

\* A batch gives up.
LEMMA BatchGivesUpOK ==
  ASSUME ParsingInv, NEW c \in Client, BatchGivesUp(c)
  PROVE  ParsingInv'
BY FailsAlone DEF BatchGivesUp, At

\* What is left of a plan.
LEMMA LessIsLeft ==
  ASSUME NEW A, NEW B, NEW C, NEW D, NEW E, NEW N, NEW n \in N,
         NEW p \in [calls : A, limits : B, text : C, size : D, chunking : E,
                    persistent : BOOLEAN, rewrites : N, expiries : N, cancels : N, kills : N],
         NEW q, \/ q = [p EXCEPT !.rewrites = n] \/ q = [p EXCEPT !.expiries = n]
                \/ q = [p EXCEPT !.cancels = n] \/ q = [p EXCEPT !.kills = n]
  PROVE  /\ q \in [calls : A, limits : B, text : C, size : D, chunking : E,
                   persistent : BOOLEAN, rewrites : N, expiries : N, cancels : N, kills : N]
         /\ q.text = p.text /\ q.calls = p.calls
OBVIOUS

\* The plan after the world has made one of its moves.
LEMMA PlanGoesOn ==
  ASSUME plan \in Workload,
         \/ plan.rewrites > 0 /\ plan' = [plan EXCEPT !.rewrites = @ - 1]
         \/ plan.expiries > 0 /\ plan' = [plan EXCEPT !.expiries = @ - 1]
         \/ plan.cancels > 0 /\ plan' = [plan EXCEPT !.cancels = @ - 1]
         \/ plan.kills > 0 /\ plan' = [plan EXCEPT !.kills = @ - 1]
  PROVE  plan' \in Workload /\ plan'.text = plan.text /\ plan'.calls = plan.calls
<1>1. plan.rewrites \in Nat /\ plan.expiries \in Nat /\ plan.cancels \in Nat /\ plan.kills \in Nat
  BY DEF Workload
<1>2. PICK n \in Nat : \/ plan' = [plan EXCEPT !.rewrites = n] \/ plan' = [plan EXCEPT !.expiries = n]
                       \/ plan' = [plan EXCEPT !.cancels = n] \/ plan' = [plan EXCEPT !.kills = n]
  <2>1. /\ plan.rewrites > 0 => plan.rewrites - 1 \in Nat
        /\ plan.expiries > 0 => plan.expiries - 1 \in Nat
        /\ plan.cancels > 0 => plan.cancels - 1 \in Nat
        /\ plan.kills > 0 => plan.kills - 1 \in Nat
    BY <1>1
  <2> QED  BY <2>1
<1> DEFINE A == [Client -> Seq(CallsAsked)]
           B == [entries : Nat, memory : Nat, policy : {"lru", "lfu", "ttl", "fifo"}]
           C == [Source -> Seq(Nat)]
           D == [Source -> Nat \ {0}]
           E == [max : Nat, min : Nat, overlap : Nat]
           some == [calls : A, limits : B, text : C, size : D, chunking : E,
                    persistent : BOOLEAN, rewrites : Nat, expiries : Nat, cancels : Nat, kills : Nat]
<1>3. Workload = some
  BY DEF Workload
<1>4. plan \in some
  BY <1>3
<1> HIDE DEF A, B, C, D, E
<1>5. plan' \in some /\ plan'.text = plan.text /\ plan'.calls = plan.calls
  BY <1>2, <1>4, LessIsLeft
<1> QED  BY <1>3, <1>5

\* A caller cancels.
LEMMA CancelsOK ==
  ASSUME ParsingInv, NEW c \in Client, Cancels(c)
  PROVE  ParsingInv'
<1>1. /\ call[c].at \notin {"idle", "set"} /\ Fails(c) /\ UNCHANGED <<cacheVars, poolVars, tickers, alive>>
      /\ plan.cancels > 0 /\ plan' = [plan EXCEPT !.cancels = @ - 1]
  BY DEF Cancels
<1>2. plan \in Workload /\ tickers \in BOOLEAN /\ alive \in BOOLEAN
  BY CallIs
<1>3. plan' \in Workload /\ plan'.text = plan.text /\ plan'.calls = plan.calls
  BY <1>1, <1>2, PlanGoesOn
<1> QED  BY <1>1, <1>2, <1>3, PoolRests, FailsOK

\* Without a task of a call nothing of it is on its way.
LEMMA NoneFlying ==
  ASSUME NEW c, NEW i, PoolInv',
         \A g \in Gens : \A task \in ToSet(chan'[g].tasks) : task.for = c => task.id # i,
         \A w \in Worker : Busy(w)' /\ worker'[w].task.for = c => worker'[w].task.id # i
  PROVE  Flying(c, i)' = 0 /\ Carried(c, i)' = {}
<1>1. \A g \in Gens : chan'[g].tasks \in Seq(TaskType)
  BY DEF PoolInv, PoolTyped, Gens, ChanType
<1>2. Queued(c, i)' = {}
  <2>1. SUFFICES ASSUME NEW p \in Queued(c, i)'
                 PROVE  FALSE
    OBVIOUS
  <2>2. /\ p \in Gens \X (1..QueueSize) /\ p[2] <= Len(chan'[p[1]].tasks)
        /\ chan'[p[1]].tasks[p[2]].for = c /\ chan'[p[1]].tasks[p[2]].id = i
    BY InQueued
  <2>3. p[1] \in Gens /\ p[2] \in DOMAIN chan'[p[1]].tasks
    BY <2>2, <1>1
  <2>4. chan'[p[1]].tasks[p[2]] \in ToSet(chan'[p[1]].tasks)
    BY <2>3 DEF ToSet
  <2> QED  BY <2>2, <2>3, <2>4
<1>3. Handled(c, i)' = {}
  BY DEF Handled
<1>4. Cardinality(Queued(c, i)') = 0 /\ Cardinality(Handled(c, i)') = 0
  BY <1>2, <1>3, FS_EmptySet
<1> QED  BY <1>2, <1>3, <1>4, FlightThen

\* The state of a client without a call.
LEMMA IdleIs ==
  /\ Idle \in CallType /\ Idle.op = "none" /\ Idle.at = "idle" /\ Idle.ask = {} /\ Idle.since = <<>>
  /\ Idle.todo = <<>> /\ Idle.rest = <<>> /\ Idle.store = {} /\ Idle.got = <<>> /\ Idle.key = <<>>
  /\ Idle.mtime = 0 /\ Idle.out = 0 /\ Idle.box = <<>> /\ Idle.in = 0 /\ Idle.id = 0
  /\ Idle.failed = FALSE /\ Idle.stale = {}
<1>1. <<>> \in Partial(Source, Version)
  BY DEF Partial
<1>2. 0 \in 0..MaxGenerations /\ 0 \in Version /\ <<>> \in Seq(Source) /\ <<>> \in Seq(ResultType)
  BY CacheAssumption, PoolAssumption DEF Version
<1> QED  BY <1>1, <1>2 DEF Idle, CallType

\* A client without a call, and one that begins a call.
LEMMA FreshOK ==
  ASSUME NEW c \in Client, PoolInv', mu' # c, call'[c].id \in Nat, call'[c].box = <<>>, call'[c].out = 0, call'[c].in = 0,
         call'[c].store = {}, call'[c].at \notin {"set", "path", "submit", "collect"},
         call'[c].at # "idle" => call'[c].id = Len(plan'.calls[c]) + 1,
         \A g \in Gens : \A task \in ToSet(chan'[g].tasks) :
           task.for = c => task.id > Len(plan'.calls[c]) /\ task.id # call'[c].id,
         \A w \in Worker : Busy(w)' /\ worker'[w].task.for = c =>
           worker'[w].task.id > Len(plan'.calls[c]) /\ worker'[w].task.id # call'[c].id,
         AskOK(c)', GotOK(c)'
  PROVE  ClientOK(c)'
<1>1. SettingOK(c)'
  BY DEF SettingOK, In
<1>2. TasksOK(c)'
  <2>1. generation' \in Gens /\ call'[c].in <= generation' /\ DOMAIN call'[c].box = {}
    BY PoolAssumption DEF PoolInv, PoolTyped, Gens
  <2>2. \A g \in Gens : \A task \in ToSet(chan'[g].tasks) :
          task.for = c => task.id > Len(plan'.calls[c]) /\ task.id # call'[c].id
    OBVIOUS
  <2> QED  BY <2>1, <2>2 DEF TasksOK, In, Gens
<1>3. CountOK(c)'
  <2>1. PICK i \in Nat : i = call'[c].id
    OBVIOUS
  <2>2. Flying(c, i)' = 0
    BY <2>1, NoneFlying
  <2>3. Counted(call'[c], generation', chan'[generation'].done, Flying(c, i)', Carried(c, i)')
    BY <2>2 DEF Counted
  <2> QED  BY <2>1, <2>3, CountThen
<1> QED  BY <1>1, <1>2, <1>3 DEF ClientOK

\* A call returns: tasks that are left are of a call that is over, and their id
\* is not used again.
LEMMA ReturnsOK ==
  ASSUME ParsingInv, NEW c \in Client, Returns(c)
  PROVE  ParsingInv'
<1>1. /\ call[c].at = "return" /\ Goes(c, Idle) /\ UNCHANGED <<poolVars, cacheVars, plan, tickers, alive>>
  BY DEF Returns, At, Pooled, Cached
<1>2. call'[c] = Idle /\ tickers \in BOOLEAN /\ alive \in BOOLEAN
  BY <1>1, GoesThere, CallIs
<1>3. CacheMoves /\ mu' = mu /\ PoolMoves /\ PoolInv'
  BY <1>1, CacheStays, PoolRests DEF PoolMoves
<1>4. mu' # c
  BY <1>1, <1>3, CallIs DEF ClientOK, SettingOK, In
<1>5. TasksOK(c) /\ Len(plan.calls[c]) \in Nat /\ UNCHANGED <<chan, worker>>
  BY <1>1, CallIs DEF ClientOK, poolVars
<1>6. ClientOK(c)'
  <2>1. \A g \in Gens : \A task \in ToSet(chan'[g].tasks) :
           task.for = c => task.id > Len(plan'.calls[c]) /\ task.id # call'[c].id
    <3>1. \A g \in Gens : \A task \in ToSet(chan[g].tasks) : task.for = c => task.id > Len(plan.calls[c])
      BY <1>5 DEF TasksOK, Gens
    <3> QED  BY <3>1, <1>1, <1>2, <1>5, IdleIs
  <2>2. \A w \in Worker : Busy(w)' /\ worker'[w].task.for = c =>
           worker'[w].task.id > Len(plan'.calls[c]) /\ worker'[w].task.id # call'[c].id
    <3>1. \A w \in Worker : Busy(w) /\ worker[w].task.for = c => worker[w].task.id > Len(plan.calls[c])
      BY <1>5 DEF TasksOK
    <3> QED  BY <3>1, <1>1, <1>2, <1>5, IdleIs DEF Busy
  <2>3. AskOK(c)' /\ GotOK(c)'
    BY <1>2, IdleIs DEF AskOK, GotOK, In, Fetches
  <2> QED  BY <1>2, <1>3, <1>4, <2>1, <2>2, <2>3, IdleIs, FreshOK
<1> QED  BY <1>1, <1>2, <1>3, <1>6, IdleIs, OneActs

-----------------------------------------------------------------------------
\* What can be asked for.
LEMMA AskedIs ==
  ASSUME NEW next \in CallsAsked
  PROVE  /\ next.op \in {"file", "batch", "parallel", "stop", "close", "invalidate"}
         /\ next.of \in Seq(Source) /\ ToSet(next.of) \subseteq Source
         /\ next.op = "file" => Len(next.of) <= 1
         /\ next.op \in {"file", "batch", "parallel"} => next.of # <<>>
<1>1. next.op \in {"file", "batch", "parallel", "stop", "close", "invalidate"}
  BY DEF CallsAsked
<1>2. next.of \in Seq(Source)
  <2>1. \A s \in Source : <<s>> \in Seq(Source)
    OBVIOUS
  <2>2. \A q \in Seq(Files) : q \in Seq(Source)
    BY DEF Source
  <2>3. <<>> \in Seq(Source) /\ Files \subseteq Source
    BY DEF Source
  <2> QED  BY <2>1, <2>2, <2>3 DEF CallsAsked
<1>3. ToSet(next.of) \subseteq Source
  BY <1>2 DEF ToSet
<1>4. next.op = "file" => Len(next.of) <= 1 /\ next.of # <<>>
  <2>1. \A s \in Source : Len(<<s>>) <= 1 /\ <<s>> # <<>>
    OBVIOUS
  <2> QED  BY <2>1 DEF CallsAsked
<1>5. next.op \in {"batch", "parallel"} => next.of # <<>>
  BY DEF CallsAsked
<1> QED  BY <1>1, <1>2, <1>3, <1>4, <1>5

\* A call begins with an id no task has.
LEMMA CallsOK ==
  ASSUME ParsingInv, NEW c \in Client, Calls(c)
  PROVE  ParsingInv'
<1> DEFINE next == Head(plan.calls[c])
           label == First[next.op]
           since == Restrict(file, ToSet(next.of))
           todo == IF label = "lookup" THEN next.of ELSE <<>>
           rest == IF label = "healthy" THEN next.of ELSE <<>>
           k == [Idle EXCEPT !.op = next.op, !.at = label, !.ask = ToSet(next.of), !.since = since,
                             !.todo = todo, !.rest = rest, !.id = Len(plan.calls[c])]
<1>1. /\ call[c].at = "idle" /\ plan.calls[c] # <<>> /\ Goes(c, k)
      /\ plan' = [plan EXCEPT !.calls[c] = Tail(@)] /\ UNCHANGED <<cacheVars, poolVars, tickers, alive>>
  BY DEF Calls, At
<1>2. /\ plan \in Workload /\ plan.calls[c] \in Seq(CallsAsked) /\ Len(plan.calls[c]) \in Nat
      /\ tickers \in BOOLEAN /\ alive \in BOOLEAN /\ file \in [Source -> Version] /\ ClientOK(c)
  BY CallIs
<1>3. next \in CallsAsked /\ Tail(plan.calls[c]) \in Seq(CallsAsked) /\ Len(Tail(plan.calls[c])) = Len(plan.calls[c]) - 1
  BY <1>1, <1>2, TailIs
<1>4. /\ next.op \in {"file", "batch", "parallel", "stop", "close", "invalidate"}
      /\ next.of \in Seq(Source) /\ ToSet(next.of) \subseteq Source
      /\ next.op = "file" => Len(next.of) <= 1
      /\ next.op \in {"file", "batch", "parallel"} => next.of # <<>>
  BY <1>3, AskedIs
<1>5. /\ next.op \in {"file", "batch"} => label = "lookup"
      /\ next.op = "parallel" => label = "healthy"
      /\ next.op \in {"stop", "close"} => label = "stop"
      /\ next.op = "invalidate" => label = "invalidate"
  BY <1>4 DEF First
<1>6. since \in [ToSet(next.of) -> Version] /\ \A s \in ToSet(next.of) : since[s] = file[s]
  BY <1>2, <1>4 DEF Restrict
<1>7. since \in Partial(Source, Version)
  BY <1>4, <1>6, IsPartial
<1>8. todo \in Seq(Source) /\ rest \in Seq(Source)
  BY <1>4
<1> HIDE DEF next, since
<1>9. label \in {"lookup", "healthy", "stop", "invalidate"}
  BY <1>4, <1>5
<1> DEFINE places == ToSet(next.of)
<1> HIDE DEF label, todo, rest, places
<1>10. ToSet(next.of) = places
  BY DEF places
<1>11. /\ k \in CallType /\ k.op = next.op /\ k.at = label /\ k.ask = places /\ k.since = since
       /\ k.todo = todo /\ k.rest = rest /\ k.id = Len(plan.calls[c]) /\ k.store = {} /\ k.got = <<>>
       /\ k.out = 0 /\ k.box = <<>> /\ k.in = 0 /\ k.failed = FALSE
  BY <1>2, <1>4, <1>7, <1>8, <1>9, <1>10, IdleIs, ZenonT(60) DEF CallType
<1> HIDE DEF k
<1>12. call'[c] = k
  BY <1>1, GoesThere
<1>13. CacheMoves /\ mu' = mu /\ PoolMoves /\ PoolInv' /\ UNCHANGED <<file, chan, worker>>
  BY <1>1, CacheStays, PoolRests DEF PoolMoves, cacheVars, poolVars
<1>14. mu' # c
  BY <1>1, <1>2, <1>13 DEF ClientOK, SettingOK, In
<1>15. /\ plan' \in Workload /\ plan'.text = plan.text /\ plan'.calls[c] = Tail(plan.calls[c])
       /\ \A d \in Client \ {c} : plan'.calls[d] = plan.calls[d]
  <2> DEFINE calls == [plan.calls EXCEPT ![c] = Tail(plan.calls[c])]
  <2>1. plan.calls \in [Client -> Seq(CallsAsked)]
    BY <1>2 DEF Workload
  <2>2. calls \in [Client -> Seq(CallsAsked)] /\ calls[c] = Tail(plan.calls[c]) /\ \A d \in Client \ {c} : calls[d] = plan.calls[d]
    BY <2>1, <1>3
  <2>3. plan' = [plan EXCEPT !.calls = calls]
    BY <1>1
  <2> HIDE DEF calls
  <2>4. plan' \in Workload /\ plan'.text = plan.text /\ plan'.calls = calls
    BY <1>2, <2>2, <2>3 DEF Workload
  <2> QED  BY <2>2, <2>4
<1>16. AskOK(c)'
  <2>1. call'[c].since \in [call'[c].ask -> Version] /\ \A s \in call'[c].ask : call'[c].since[s] <= file'[s]
    <3>1. \A s \in places : since[s] <= file[s]
      BY <1>2, <1>4, <1>6 DEF places, Version
    <3> QED  BY <3>1, <1>6, <1>10, <1>11, <1>12, <1>13
  <2>2. k.at = "lookup" => /\ k.op \in {"file", "batch"} /\ k.ask = DOMAIN k.got \cup ToSet(k.todo) \cup ToSet(k.rest)
                           /\ k.op = "file" => k.rest = <<>> /\ Len(k.todo) <= 1 /\ DOMAIN k.got = {}
                           /\ k.todo # <<>>
    <3>1. ASSUME k.at = "lookup"
          PROVE  next.op \in {"file", "batch"} /\ todo = next.of /\ rest = <<>>
      BY <3>1, <1>4, <1>5, <1>11 DEF todo, rest
    <3>2. ToSet(<<>>) = {} /\ DOMAIN <<>> = {}
      BY DEF ToSet
    <3>3. k.at = "lookup" => ToSet(k.todo) = places /\ ToSet(k.rest) = {} /\ DOMAIN k.got = {} /\ k.rest = <<>>
      BY <3>1, <3>2, <1>10, <1>11
    <3>4. k.at = "lookup" => k.op \in {"file", "batch"} /\ k.todo # <<>> /\ (k.op = "file" => Len(k.todo) <= 1)
      <4>1. next.op \in {"file", "batch"} => next.of # <<>>
        BY <1>4
      <4>2. next.op = "file" => Len(next.of) <= 1
        BY <1>4
      <4>3. ASSUME k.at = "lookup"
            PROVE  k.op = next.op /\ k.todo = next.of /\ next.op \in {"file", "batch"}
        BY <4>3, <3>1, <1>11
      <4> QED  BY <4>1, <4>2, <4>3
    <3> QED  BY <3>3, <3>4, <1>11
  <2>3. k.at = "healthy" => k.op = "parallel" /\ k.rest # <<>>
    BY <1>4, <1>5, <1>11 DEF rest
  <2>4. k.at \in {"stop", "invalidate"} => k.op \in {"stop", "close", "invalidate"}
    BY <1>4, <1>5, <1>11
  <2> QED  BY <2>1, <2>2, <2>3, <2>4, <1>9, <1>11, <1>12 DEF AskOK, In, Fetches
<1>17. GotOK(c)'
  BY <1>11, <1>12 DEF GotOK, Fetches
<1>18. ClientOK(c)'
  <2>1. TasksOK(c)
    BY <1>2 DEF ClientOK
  <2>2. \A g \in Gens : \A task \in ToSet(chan'[g].tasks) :
           task.for = c => task.id > Len(plan'.calls[c]) /\ task.id # call'[c].id
    <3>1. \A g \in Gens : chan[g].tasks \in Seq(TaskType)
      BY CallIs, PoolIs
    <3>2. \A g \in Gens : \A task \in ToSet(chan[g].tasks) : task.id \in Nat
      <4>1. \A task \in TaskType : task.id \in Nat
        BY DEF TaskType
      <4> QED  BY <3>1, <4>1 DEF ToSet
    <3>3. \A g \in Gens : \A task \in ToSet(chan[g].tasks) : task.for = c => task.id > Len(plan.calls[c])
      BY <2>1 DEF TasksOK, Gens
    <3> QED  BY <3>2, <3>3, <1>2, <1>3, <1>11, <1>12, <1>13, <1>15
  <2>3. \A w \in Worker : Busy(w)' /\ worker'[w].task.for = c =>
           worker'[w].task.id > Len(plan'.calls[c]) /\ worker'[w].task.id # call'[c].id
    <3>1. \A w \in Worker : Busy(w) => worker[w].task.id \in Nat
      BY CallIs DEF PoolInv, TaskType
    <3>2. \A w \in Worker : Busy(w) /\ worker[w].task.for = c => worker[w].task.id > Len(plan.calls[c])
      BY <2>1 DEF TasksOK
    <3> QED  BY <3>1, <3>2, <1>2, <1>3, <1>11, <1>12, <1>13, <1>15 DEF Busy
  <2>4. call'[c].id = Len(plan'.calls[c]) + 1
    BY <1>2, <1>3, <1>11, <1>12, <1>15
  <2> QED  BY <1>2, <1>9, <1>11, <1>12, <1>13, <1>14, <1>16, <1>17, <2>2, <2>3, <2>4, FreshOK
<1>19. PoolInv' /\ NoneRevived /\ \A d \in Client : \A i \in Nat : PoolKeeps(d, i)
  BY <1>13 DEF PoolMoves
<1> QED  BY <1>1, <1>2, <1>11, <1>13, <1>15, <1>18, <1>19, OneMoves

\* What AfterLookups changes.
LEMMA AfterIs ==
  ASSUME NEW h \in CallType
  PROVE  LET k == AfterLookups(h) IN
         /\ k \in CallType /\ k.op = h.op /\ k.ask = h.ask /\ k.since = h.since
         /\ k.todo = h.todo /\ k.rest = h.rest /\ k.store = h.store /\ k.got = h.got
         /\ k.out = h.out /\ k.box = h.box /\ k.in = h.in /\ k.id = h.id /\ k.failed = h.failed /\ k.stale = h.stale
         /\ k.at \in {"lookup", "return", "parse", "healthy"}
         /\ k.at = "lookup" => k.todo # <<>>
         /\ k.at = "return" => k.todo = <<>> /\ k.rest = <<>>
         /\ k.at = "parse" => k.todo = <<>> /\ k.rest # <<>> /\ k.op = "file"
         /\ k.at = "healthy" => k.todo = <<>> /\ k.rest # <<>> /\ k.op # "file"
<1> DEFINE label == IF h.todo # <<>> THEN "lookup"
                    ELSE IF h.rest = <<>> THEN "return"
                    ELSE IF h.op = "file" THEN "parse" ELSE "healthy"
           k == [h EXCEPT !.at = label]
<1>1. AfterLookups(h) = k
  BY DEF AfterLookups
<1>2. /\ label \in {"lookup", "return", "parse", "healthy"}
      /\ label = "lookup" => h.todo # <<>>
      /\ label = "return" => h.todo = <<>> /\ h.rest = <<>>
      /\ label = "parse" => h.todo = <<>> /\ h.rest # <<>> /\ h.op = "file"
      /\ label = "healthy" => h.todo = <<>> /\ h.rest # <<>> /\ h.op # "file"
  OBVIOUS
<1> HIDE DEF label
<1>3. k \in CallType
  BY <1>2 DEF CallType
<1>4. /\ k.op = h.op /\ k.ask = h.ask /\ k.since = h.since
      /\ k.todo = h.todo /\ k.rest = h.rest /\ k.store = h.store /\ k.got = h.got
      /\ k.out = h.out /\ k.box = h.box /\ k.in = h.in /\ k.id = h.id /\ k.failed = h.failed /\ k.stale = h.stale
      /\ k.at = label
  BY DEF CallType
<1> HIDE DEF k
<1> QED  BY <1>1, <1>2, <1>3, <1>4

\* The call that goes on after a lookup: h is what the lookup made of it.
LEMMA AfterOK ==
  ASSUME ParsingInv, NEW c \in Client, NEW h \in CallType, Goes(c, AfterLookups(h)),
         UNCHANGED <<poolVars, plan, tickers, alive>>, CacheMoves, mu' = mu,
         call[c].at \in {"lookup", "touch"}, h.op = call[c].op, h.ask = call[c].ask, h.since = call[c].since,
         h.id = call[c].id, h.box = call[c].box, h.out = call[c].out, h.in = call[c].in, h.store = call[c].store,
         h.failed = call[c].failed, h.ask = DOMAIN h.got \cup ToSet(h.todo) \cup ToSet(h.rest),
         h.op = "file" =>
           /\ h.todo # <<>> => h.rest = <<>> /\ Len(h.todo) <= 1 /\ DOMAIN h.got = {}
           /\ h.rest # <<>> => Len(h.rest) = 1 /\ DOMAIN h.got = {} /\ h.todo = <<>>,
         h.got = call[c].got, h.stale = call[c].stale
  PROVE  ParsingInv'
<1>1. PICK k : k = AfterLookups(h)
  OBVIOUS
<1>2. /\ k \in CallType /\ k.op = h.op /\ k.ask = h.ask /\ k.since = h.since
      /\ k.todo = h.todo /\ k.rest = h.rest /\ k.store = h.store /\ k.got = h.got
      /\ k.out = h.out /\ k.box = h.box /\ k.in = h.in /\ k.id = h.id /\ k.failed = h.failed /\ k.stale = h.stale
      /\ k.at \in {"lookup", "return", "parse", "healthy"}
      /\ k.at = "lookup" => k.todo # <<>>
      /\ k.at = "return" => k.todo = <<>> /\ k.rest = <<>>
      /\ k.at = "parse" => k.todo = <<>> /\ k.rest # <<>> /\ k.op = "file"
      /\ k.at = "healthy" => k.todo = <<>> /\ k.rest # <<>> /\ k.op # "file"
  BY <1>1, AfterIs
<1>3. Goes(c, k)
  BY <1>1
<1>4. call'[c] = k /\ ClientOK(c) /\ plan \in Workload /\ tickers \in BOOLEAN /\ alive \in BOOLEAN /\ PoolMoves
  BY <1>3, GoesThere, CallIs, PoolRests
<1>5. /\ call[c].op \in {"file", "batch"} /\ ~call[c].failed /\ call[c].store = {}
  BY <1>4 DEF ClientOK, AskOK, In, Fetches
<1>6. call[c].out = 0
  <2>1. PICK i \in Nat : i = call[c].id
    BY CallIs
  <2> QED  BY <2>1, <1>4, CountNow DEF ClientOK, Counted
<1>7. SettingOK(c)'
  BY <1>2, <1>4, NotSetting DEF ClientOK
<1>8. AskOK(c)'
  <2>1. /\ call'[c].since \in [call'[c].ask -> Version]
        /\ \A s \in call'[c].ask : call'[c].since[s] <= file'[s]
    BY <1>2, <1>4, SinceIs
  <2>2. ToSet(<<>>) = {} /\ k.ask = DOMAIN k.got \cup ToSet(k.todo) \cup ToSet(k.rest)
    BY <1>2 DEF ToSet
  <2>3. k.at = "lookup" /\ k.op = "file" => k.rest = <<>> /\ Len(k.todo) <= 1 /\ DOMAIN k.got = {}
    BY <1>2
  <2>4. k.at = "parse" => Len(k.rest) = 1 /\ k.ask = {k.rest[1]}
    <3>1. ASSUME k.at = "parse"
          PROVE  Len(k.rest) = 1 /\ DOMAIN k.got = {} /\ k.todo = <<>>
      BY <3>1, <1>2
    <3>2. \A q \in Seq(Source) : Len(q) = 1 => ToSet(q) = {q[1]}
      BY DEF ToSet
    <3>3. k.rest \in Seq(Source)
      BY <1>2 DEF CallType
    <3> QED  BY <3>1, <3>2, <3>3, <2>2
  <2>5. k.at \in {"healthy", "return"} => k.ask = DOMAIN k.got \cup ToSet(k.rest) /\ (k.rest = <<>> => k.ask = DOMAIN k.got)
    BY <2>2, <1>2
  <2>6. k.op \in {"file", "batch"} /\ ~k.failed /\ k.store = {}
    BY <1>2, <1>5
  <2>7. /\ In(c, {"lookup", "touch"})' =>
             /\ Fetches(c)' /\ ~call'[c].failed /\ call'[c].store = {}
             /\ call'[c].ask = DOMAIN call'[c].got \cup ToSet(call'[c].todo) \cup ToSet(call'[c].rest)
             /\ call'[c].op = "file" => call'[c].rest = <<>> /\ Len(call'[c].todo) <= 1 /\ (call'[c].todo # <<>> => DOMAIN call'[c].got = {})
        /\ In(c, {"lookup"})' => call'[c].todo # <<>>
        /\ In(c, {"parse"})' =>
             call'[c].op = "file" /\ ~call'[c].failed /\ Len(call'[c].rest) = 1 /\ call'[c].ask = {call'[c].rest[1]}
    BY <1>2, <1>4, <2>2, <2>3, <2>4, <2>6 DEF In, Fetches
  <2>8. /\ In(c, {"healthy", "start", "submit"})' => call'[c].op \in {"batch", "parallel"} /\ call'[c].rest # <<>>
        /\ In(c, {"healthy", "start"})' => ~call'[c].failed
        /\ In(c, {"healthy", "start", "submit"})' /\ call'[c].op = "batch" =>
             call'[c].ask = DOMAIN call'[c].got \cup ToSet(call'[c].rest) \cup call'[c].store
        /\ In(c, {"return"})' /\ Fetches(c)' /\ ~call'[c].failed => call'[c].ask = DOMAIN call'[c].got
    BY <1>2, <1>4, <2>5, <2>6 DEF In, Fetches
  <2> QED  BY <2>1, <2>7, <2>8, <1>2, <1>4 DEF AskOK, In
<1>9. GotOK(c)'
  BY <1>2, <1>4, <1>5 DEF ClientOK, GotOK, Fetches
<1> QED  BY <1>2, <1>3, <1>4, <1>5, <1>6, <1>7, <1>8, <1>9, MovesOK, ZenonT(60)

\* After a hit.
LEMMA TouchesOK ==
  ASSUME ParsingInv, NEW c \in Client, Touches(c)
  PROVE  ParsingInv'
<1>1. /\ call[c].at = "touch" /\ GetTouches(call[c].key) /\ Goes(c, AfterLookups(call[c]))
      /\ UNCHANGED <<poolVars, plan, tickers, alive>>
  BY DEF Touches, At, Pooled
<1>2. call[c] \in CallType /\ ClientOK(c) /\ CacheInv
  BY CallIs
<1>3. /\ call[c].key \in CacheKey
      /\ call[c].ask = DOMAIN call[c].got \cup ToSet(call[c].todo) \cup ToSet(call[c].rest)
      /\ call[c].op = "file" =>
           call[c].rest = <<>> /\ Len(call[c].todo) <= 1 /\ (call[c].todo # <<>> => DOMAIN call[c].got = {})
  BY <1>1, <1>2 DEF ClientOK, AskOK, In
<1>4. CacheMoves /\ mu' = mu
  BY <1>1, <1>2, <1>3, GetTouchesOK
<1> QED  BY <1>1, <1>2, <1>3, <1>4, AfterOK

\* The key of a source.
LEMMA KeyIs ==
  ASSUME file \in [Source -> Version], NEW s \in Source
  PROVE  GenerateFileKey(s) \in CacheKey /\ GenerateFileKey(s).of = s
<1>1. file[s] \in Nat /\ file[s] <= MaxVersion /\ MaxVersion \in Nat
  BY CacheAssumption DEF Version
<1>2. file[s] \div 2 \in 0..(MaxVersion \div 2)
  BY <1>1
<1> QED  BY <1>2 DEF GenerateFileKey, CacheKey

\* What a lookup finds is not older than the call, unless there was a race.
LEMMA HitIsFresh ==
  ASSUME CacheInv, NEW key \in CacheKey, Found(key) = "hit"
  PROVE  key \in DOMAIN entries /\ entries[key] \in Entry /\ (~entries[key].raced => entries[key].text >= file[key.of])
<1>1. key \in DOMAIN entries /\ (entries[key].path => file[key.of] <= entries[key].mtime)
  BY DEF Found, IsFileValid
<1>2. entries \in [DOMAIN entries -> Entry] /\ file \in [Source -> Version] /\ Sound(entries)
  BY PartialIs DEF CacheInv, CacheTyped
<1>3. entries[key] \in Entry
  BY <1>1, <1>2
<1>4. entries[key].text \in Nat /\ entries[key].mtime \in Nat /\ file[key.of] \in Nat
  BY <1>2, <1>3 DEF Entry, Version, CacheKey
<1>5. ~entries[key].raced =>
        IF entries[key].path THEN entries[key].text >= entries[key].mtime ELSE entries[key].text = file[key.of]
  BY <1>1, <1>2 DEF Sound
<1>6. CASE entries[key].path
  BY <1>1, <1>3, <1>4, <1>5, <1>6
<1>7. CASE ~entries[key].path
  BY <1>1, <1>3, <1>4, <1>5, <1>7
<1> QED  BY <1>6, <1>7

\* What was got, with one version more.
LEMMA WithIs ==
  ASSUME NEW got \in Partial(Source, Version), NEW s \in Source, NEW text \in Version
  PROVE  /\ With(got, s, text) \in Partial(Source, Version) /\ DOMAIN With(got, s, text) = DOMAIN got \cup {s}
         /\ With(got, s, text)[s] = text /\ \A x \in DOMAIN got : x # s => With(got, s, text)[x] = got[x]
<1>1. DOMAIN got \subseteq Source /\ got \in [DOMAIN got -> Version]
  BY PartialIs
<1>2. With(got, s, text) \in [DOMAIN got \cup {s} -> Version] /\ DOMAIN got \cup {s} \subseteq Source
  BY <1>1 DEF With
<1>3. With(got, s, text) \in Partial(Source, Version)
  BY <1>2, IsPartial
<1> QED  BY <1>3 DEF With

\* A lookup: a hit is not older than the call, unless its entry had a race; a
\* miss is parsed later.
LEMMA LooksUpOK ==
  ASSUME ParsingInv, NEW c \in Client, LooksUp(c)
  PROVE  ParsingInv'
<1> DEFINE s == Head(call[c].todo)
           key == GenerateFileKey(s)
           todo == Tail(call[c].todo)
           next == [call[c] EXCEPT !.todo = todo, !.key = key]
           got == With(call[c].got, s, entries[key].text)
           stale == IF entries[key].raced THEN call[c].stale \cup {s} ELSE call[c].stale
           hit == [next EXCEPT !.at = "touch", !.got = got, !.stale = stale]
           miss == [next EXCEPT !.rest = Append(call[c].rest, s)]
<1>1. /\ call[c].at = "lookup" /\ GetLooksUp(key) /\ UNCHANGED <<poolVars, plan, tickers, alive>>
      /\ Found(key) = "hit" => Goes(c, hit)
      /\ Found(key) # "hit" => Goes(c, AfterLookups(miss))
  BY DEF LooksUp, At, Pooled
<1>2. /\ call[c] \in CallType /\ ClientOK(c) /\ CacheInv /\ file \in [Source -> Version]
      /\ plan \in Workload /\ tickers \in BOOLEAN /\ alive \in BOOLEAN
  BY CallIs
<1>3. call[c].todo \in Seq(Source) /\ call[c].rest \in Seq(Source) /\ call[c].got \in Partial(Source, Version)
  BY <1>2 DEF CallType
<1>4. /\ Fetches(c) /\ ~call[c].failed /\ call[c].store = {} /\ call[c].todo # <<>>
      /\ call[c].ask = DOMAIN call[c].got \cup ToSet(call[c].todo) \cup ToSet(call[c].rest)
      /\ call[c].op = "file" => call[c].rest = <<>> /\ Len(call[c].todo) <= 1 /\ DOMAIN call[c].got = {}
  BY <1>1, <1>2 DEF ClientOK, AskOK, In
<1>5. /\ s \in Source /\ todo \in Seq(Source) /\ Len(todo) = Len(call[c].todo) - 1 /\ Len(call[c].todo) \in Nat
      /\ ToSet(call[c].todo) = ToSet(todo) \cup {s} /\ Len(todo) \in Nat /\ (Len(todo) = 0 => todo = <<>>)
  <2>1. /\ s \in Source /\ todo \in Seq(Source) /\ Len(todo) = Len(call[c].todo) - 1
        /\ ToSet(call[c].todo) = ToSet(todo) \cup {s}
    BY <1>3, <1>4, TailIs
  <2>2. Len(call[c].todo) \in Nat /\ Len(todo) \in Nat /\ (Len(todo) = 0 => todo = <<>>)
    <3> HIDE DEF todo
    <3> QED  BY <1>3, <2>1
  <2> QED  BY <2>1, <2>2
<1>6. key \in CacheKey /\ key.of = s
  BY <1>2, <1>5, KeyIs
<1>7. CacheMoves /\ mu' = mu /\ PoolMoves
  BY <1>1, <1>2, <1>6, GetLooksUpOK, PoolRests
<1>8. call[c].op = "file" => todo = <<>>
  BY <1>4, <1>5
<1>9. CASE Found(key) = "hit"
  <2>1. key \in DOMAIN entries /\ entries[key] \in Entry /\ (~entries[key].raced => entries[key].text >= file[s])
    BY <1>2, <1>6, <1>9, HitIsFresh
  <2>2. entries[key].text \in Version
    BY <2>1 DEF Entry
  <2>3. /\ got \in Partial(Source, Version) /\ DOMAIN got = DOMAIN call[c].got \cup {s}
        /\ got[s] = entries[key].text /\ \A x \in DOMAIN call[c].got : x # s => got[x] = call[c].got[x]
    BY <1>3, <1>5, <2>2, WithIs
  <2>4. stale \in SUBSET Source /\ call[c].stale \subseteq stale /\ (entries[key].raced => s \in stale)
    BY <1>2, <1>5 DEF CallType
  <2> HIDE DEF s, key, todo, got, stale
  <2>5. /\ next \in CallType /\ next.key = key /\ next.todo = todo
        /\ next.op = call[c].op /\ next.ask = call[c].ask
        /\ next.since = call[c].since /\ next.rest = call[c].rest /\ next.store = call[c].store
        /\ next.out = call[c].out /\ next.box = call[c].box
        /\ next.in = call[c].in /\ next.id = call[c].id /\ next.failed = call[c].failed
    BY <1>2, <1>5, <1>6 DEF CallType
  <2> HIDE DEF next
  <2>6. /\ hit \in CallType /\ hit.at = "touch" /\ hit.got = got /\ hit.stale = stale /\ hit.key = next.key /\ hit.todo = next.todo
        /\ hit.op = next.op /\ hit.ask = next.ask
        /\ hit.since = next.since /\ hit.rest = next.rest /\ hit.store = next.store
        /\ hit.out = next.out /\ hit.box = next.box
        /\ hit.in = next.in /\ hit.id = next.id /\ hit.failed = next.failed
    BY <2>3, <2>4, <2>5 DEF CallType
  <2> HIDE DEF hit
  <2>7. Goes(c, hit) /\ call'[c] = hit
    BY <1>1, <1>9, GoesThere
  <2>8. call[c].out = 0
    <3>1. PICK i \in Nat : i = call[c].id
      BY CallIs
    <3> QED  BY <3>1, <1>1, <1>2, CountNow DEF ClientOK, Counted
  <2>9. SettingOK(c)'
    BY <1>1, <1>2, <1>7, <2>6, <2>7, NotSetting DEF ClientOK
  <2>10. AskOK(c)'
    <3>1. /\ call'[c].since \in [call'[c].ask -> Version]
          /\ \A x \in call'[c].ask : call'[c].since[x] <= file'[x]
      BY <1>7, <2>5, <2>6, <2>7, SinceIs
    <3>2. hit.ask = DOMAIN hit.got \cup ToSet(hit.todo) \cup ToSet(hit.rest)
      BY <1>4, <1>5, <2>3, <2>5, <2>6
    <3>3. hit.op = "file" => hit.rest = <<>> /\ hit.todo = <<>> /\ Len(hit.todo) <= 1
      BY <1>4, <1>8, <2>5, <2>6
    <3>4. hit.op \in {"file", "batch"} /\ ~hit.failed /\ hit.store = {} /\ hit.key \in CacheKey
      BY <1>4, <1>6, <2>5, <2>6 DEF Fetches
    <3> QED  BY <3>1, <3>2, <3>3, <3>4, <2>6, <2>7 DEF AskOK, In, Fetches
  <2>11. GotOK(c)'
    <3>1. DOMAIN got \subseteq call[c].ask
      BY <1>4, <1>5, <2>3
    <3>2. ASSUME NEW x \in DOMAIN got
          PROVE  got[x] >= call[c].since[x] \/ x \in stale
      <4>1. CASE x # s
        BY <4>1, <1>2, <1>4, <2>3, <2>4 DEF ClientOK, GotOK
      <4>2. CASE x = s /\ ~entries[key].raced
        <5>1. s \in call[c].ask
          BY <1>4, <1>5
        <5>2. call[c].since[s] <= file[s] /\ call[c].since[s] \in Nat /\ file[s] \in Nat /\ entries[key].text \in Nat
          BY <5>1, <1>2, <1>5, <2>2 DEF ClientOK, AskOK, Version
        <5> QED  BY <4>2, <5>2, <2>1, <2>3
      <4>3. CASE x = s /\ entries[key].raced
        BY <4>3, <2>4
      <4> QED  BY <4>1, <4>2, <4>3
    <3> QED  BY <3>1, <3>2, <2>5, <2>6, <2>7 DEF GotOK, Fetches
  <2> QED  BY <1>1, <1>2, <1>4, <1>7, <2>5, <2>6, <2>7, <2>8, <2>9, <2>10, <2>11, MovesOK
<1>10. CASE Found(key) # "hit"
  <2> DEFINE rest == Append(call[c].rest, s)
  <2>1. rest \in Seq(Source) /\ ToSet(rest) = ToSet(call[c].rest) \cup {s} /\ Len(rest) = Len(call[c].rest) + 1
    BY <1>3, <1>5, AppendIs
  <2>2. call[c].op = "file" => Len(rest) = 1
    BY <2>1, <1>4
  <2> HIDE DEF s, key, todo, rest
  <2>3. miss = [next EXCEPT !.rest = rest]
    BY DEF rest
  <2>4. /\ next \in CallType /\ next.todo = todo /\ next.op = call[c].op /\ next.ask = call[c].ask
        /\ next.since = call[c].since /\ next.store = call[c].store /\ next.got = call[c].got
        /\ next.out = call[c].out /\ next.box = call[c].box /\ next.stale = call[c].stale
        /\ next.in = call[c].in /\ next.id = call[c].id /\ next.failed = call[c].failed
    BY <1>2, <1>5, <1>6 DEF CallType
  <2> HIDE DEF next
  <2>5. /\ miss \in CallType /\ miss.rest = rest /\ miss.todo = next.todo /\ miss.op = next.op /\ miss.ask = next.ask
        /\ miss.since = next.since /\ miss.store = next.store /\ miss.got = next.got
        /\ miss.out = next.out /\ miss.box = next.box /\ miss.stale = next.stale
        /\ miss.in = next.in /\ miss.id = next.id /\ miss.failed = next.failed
    BY <2>1, <2>3, <2>4 DEF CallType
  <2> HIDE DEF miss
  <2>6. miss.ask = DOMAIN miss.got \cup ToSet(miss.todo) \cup ToSet(miss.rest)
    BY <1>4, <1>5, <2>1, <2>4, <2>5
  <2>7. miss.op = "file" => /\ miss.todo # <<>> => miss.rest = <<>> /\ Len(miss.todo) <= 1 /\ DOMAIN miss.got = {}
                            /\ miss.rest # <<>> => Len(miss.rest) = 1 /\ DOMAIN miss.got = {} /\ miss.todo = <<>>
    BY <1>4, <1>8, <2>2, <2>4, <2>5
  <2>8. Goes(c, AfterLookups(miss))
    BY <1>1, <1>10
  <2> QED  BY <1>1, <1>7, <2>4, <2>5, <2>6, <2>7, <2>8, AfterOK
<1> QED  BY <1>9, <1>10

\* A caller parses its own file, of the version the file has now.
LEMMA ParsesItselfOK ==
  ASSUME ParsingInv, NEW c \in Client, ParsesItself(c)
  PROVE  ParsingInv'
<1> DEFINE s == Head(call[c].rest)
           got == [x \in {s} |-> file[s]]
           k == [call[c] EXCEPT !.at = "stat", !.store = {s}, !.got = got]
<1>1. call[c].at = "parse" /\ Cached /\ UNCHANGED poolVars /\ (Goes(c, k) \/ Fails(c))
  BY DEF ParsesItself, At
<1>2. CASE Fails(c)
  BY <1>1, <1>2, FailsAlone
<1>3. CASE Goes(c, k)
  <2>1. /\ call[c] \in CallType /\ ClientOK(c) /\ file \in [Source -> Version]
        /\ plan \in Workload /\ tickers \in BOOLEAN /\ alive \in BOOLEAN
    BY CallIs
  <2>2. /\ call[c].op = "file" /\ ~call[c].failed /\ Len(call[c].rest) = 1 /\ call[c].ask = {call[c].rest[1]}
        /\ call[c].rest \in Seq(Source) /\ call[c].ask \subseteq Source
    BY <1>1, <2>1 DEF ClientOK, AskOK, In, CallType
  <2>3. call[c].ask = {s} /\ s \in Source
    BY <2>2
  <2> HIDE DEF s
  <2>4. got \in [{s} -> Version] /\ got[s] = file[s] /\ DOMAIN got = {s}
    BY <2>1, <2>3
  <2>5. got \in Partial(Source, Version)
    BY <2>3, <2>4, IsPartial
  <2> HIDE DEF got
  <2>6. /\ k \in CallType /\ k.at = "stat" /\ k.store = {s} /\ k.got = got /\ k.op = call[c].op /\ k.ask = call[c].ask
        /\ k.since = call[c].since /\ k.out = call[c].out /\ k.box = call[c].box /\ k.in = call[c].in
        /\ k.id = call[c].id /\ k.failed = call[c].failed
    BY <2>1, <2>3, <2>5 DEF CallType
  <2> HIDE DEF k
  <2>7. call'[c] = k /\ UNCHANGED <<cacheVars, plan, tickers, alive>> /\ PoolMoves
    BY <1>1, <1>3, GoesThere, PoolRests DEF Cached
  <2>8. CacheMoves /\ mu' = mu
    BY <2>7, CacheStays
  <2>9. SettingOK(c)'
    BY <1>1, <2>1, <2>6, <2>7, <2>8, NotSetting DEF ClientOK
  <2>10. AskOK(c)'
    <3>1. /\ call'[c].since \in [call'[c].ask -> Version]
          /\ \A x \in call'[c].ask : call'[c].since[x] <= file'[x]
      BY <2>6, <2>7, <2>8, SinceIs
    <3> QED  BY <3>1, <2>2, <2>3, <2>4, <2>6, <2>7 DEF AskOK, In, Fetches
  <2>11. GotOK(c)'
    <3>1. call[c].since[s] <= file[s] /\ call[c].since[s] \in Nat /\ file[s] \in Nat
      BY <2>1, <2>3 DEF ClientOK, AskOK, Version
    <3> QED  BY <3>1, <2>3, <2>4, <2>6, <2>7 DEF GotOK, Fetches
  <2> QED  BY <1>1, <1>3, <2>1, <2>6, <2>7, <2>8, <2>9, <2>10, <2>11, MovesOK
<1> QED  BY <1>1, <1>2, <1>3

\* Nothing on its way carries nothing.
LEMMA NothingCarried ==
  ASSUME NEW c, NEW i, Flying(c, i) = 0
  PROVE  Carried(c, i) = {}
<1>1. Cardinality(Queued(c, i)) = 0 /\ Cardinality(Handled(c, i)) = 0
  BY FlyingFinite DEF Flying
<1>2. Queued(c, i) = {} /\ Handled(c, i) = {}
  BY <1>1, FlyingFinite, FS_EmptySet
<1> QED  BY <1>2 DEF Carried

\* When no result is awaited any more, every source of a batch has been parsed.
LEMMA AllThere ==
  ASSUME ParsingInv, NEW c \in Client, call[c].at = "collect", call[c].op = "batch", call[c].out = 0, ~call[c].failed
  PROVE  call[c].ask = DOMAIN call[c].got /\ call[c].store \subseteq DOMAIN call[c].got
<1>1. PICK i \in Nat : i = call[c].id
  BY CallIs
<1>2. /\ call[c].ask = DOMAIN call[c].got \cup call[c].store /\ CountOK(c) /\ Len(call[c].box) \in Nat
      /\ call[c].box \in Seq(ResultType)
  BY CallIs DEF ClientOK, AskOK, In, CallType
<1>3. Flying(c, i) + Len(call[c].box) <= 0
  BY <1>1, <1>2, CountNow DEF Counted
<1>4. Flying(c, i) = 0 /\ Len(call[c].box) = 0
  BY <1>2, <1>3, FlyingFinite
<1>5. Carried(c, i) = {} /\ DOMAIN call[c].box = {}
  BY <1>2, <1>4, NothingCarried
<1>6. \A s \in call[c].store : s \in DOMAIN call[c].got
  <2>1. Counted(call[c], generation, chan[generation].done, Flying(c, i), Carried(c, i))
    BY <1>1, <1>2, CountNow
  <2> QED  BY <2>1, <1>4, <1>5 DEF Counted
<1> QED  BY <1>2, <1>6

\* A call that has all its results: those of a batch without an error are all of
\* its files.
LEMMA CollectsLastOK ==
  ASSUME ParsingInv, NEW c \in Client, CollectsLast(c)
  PROVE  ParsingInv'
<1> DEFINE label == IF call[c].failed \/ call[c].op = "parallel" THEN "return" ELSE "stat"
<1>1. PICK k : k = [call[c] EXCEPT !.at = label]
  OBVIOUS
<1>2. /\ call[c].at = "collect" /\ call[c].out = 0 /\ Goes(c, k)
      /\ UNCHANGED <<cacheVars, poolVars, plan, tickers, alive>>
  BY <1>1 DEF CollectsLast, At, Cached
<1>3. /\ k \in CallType /\ k.at = label /\ k.op = call[c].op /\ k.ask = call[c].ask /\ k.since = call[c].since
      /\ k.store = call[c].store /\ k.got = call[c].got
      /\ k.out = call[c].out /\ k.box = call[c].box /\ k.in = call[c].in /\ k.id = call[c].id
      /\ k.failed = call[c].failed /\ k.stale = call[c].stale
  BY <1>1, LabelIs
<1>4. /\ ClientOK(c) /\ plan \in Workload /\ tickers \in BOOLEAN /\ alive \in BOOLEAN /\ call'[c] = k
      /\ CacheMoves /\ mu' = mu /\ PoolMoves
  BY <1>2, CallIs, GoesThere, CacheStays, PoolRests
<1>5. call[c].op \in {"batch", "parallel"}
  BY <1>2, <1>4 DEF ClientOK, AskOK, In
<1>6. label = "stat" => /\ call[c].op = "batch" /\ ~call[c].failed /\ call[c].ask = DOMAIN call[c].got
                        /\ call[c].store \subseteq call[c].ask
  BY <1>2, <1>5, AllThere
<1>7. label = "return" => call[c].failed \/ call[c].op = "parallel"
  OBVIOUS
<1>8. label \in {"stat", "return"}
  OBVIOUS
<1> HIDE DEF label
<1>9. SettingOK(c)'
  BY <1>2, <1>3, <1>4, <1>8, NotSetting DEF ClientOK
<1>10. AskOK(c)'
  <2>1. /\ call'[c].since \in [call'[c].ask -> Version]
        /\ \A s \in call'[c].ask : call'[c].since[s] <= file'[s]
    BY <1>3, <1>4, SinceIs
  <2> QED  BY <2>1, <1>3, <1>4, <1>6, <1>7, <1>8 DEF AskOK, In, Fetches
<1>11. GotOK(c)'
  BY <1>3, <1>4 DEF ClientOK, GotOK, Fetches
<1> QED  BY <1>2, <1>3, <1>4, <1>8, <1>9, <1>10, <1>11, MovesOK

\* A file is looked at again, before it is stored.
LEMMA StatsAgainOK ==
  ASSUME ParsingInv, NEW c \in Client, StatsAgain(c)
  PROVE  ParsingInv'
<1>1. PICK s \in call[c].store : Goes(c, [call[c] EXCEPT !.at = "set", !.key = GenerateFileKey(s), !.mtime = file[s]])
  BY DEF StatsAgain
<1> DEFINE key == GenerateFileKey(s)
           mtime == file[s]
           k == [call[c] EXCEPT !.at = "set", !.key = key, !.mtime = mtime]
<1>2. call[c].at = "stat" /\ Goes(c, k) /\ UNCHANGED <<cacheVars, poolVars, plan, tickers, alive>>
  BY <1>1 DEF StatsAgain, At, Cached
<1>3. /\ call[c] \in CallType /\ ClientOK(c) /\ file \in [Source -> Version]
      /\ plan \in Workload /\ tickers \in BOOLEAN /\ alive \in BOOLEAN
  BY CallIs
<1>4. /\ Fetches(c) /\ ~call[c].failed /\ call[c].ask = DOMAIN call[c].got /\ call[c].store \subseteq call[c].ask
      /\ s \in Source
  BY <1>2, <1>3 DEF ClientOK, AskOK, In, CallType
<1>5. key \in CacheKey /\ key.of = s /\ mtime \in Version
  BY <1>3, <1>4, KeyIs
<1>6. mtime <= file[key.of]
  BY <1>3, <1>4, <1>5 DEF Version
<1> HIDE DEF key, mtime
<1>7. /\ k \in CallType /\ k.at = "set" /\ k.key = key /\ k.mtime = mtime /\ k.op = call[c].op /\ k.ask = call[c].ask
      /\ k.since = call[c].since /\ k.store = call[c].store /\ k.got = call[c].got
      /\ k.out = call[c].out /\ k.box = call[c].box /\ k.in = call[c].in /\ k.id = call[c].id
      /\ k.failed = call[c].failed /\ k.stale = call[c].stale
  BY <1>3, <1>5 DEF CallType
<1> HIDE DEF k
<1>8. call'[c] = k /\ CacheMoves /\ mu' = mu /\ UNCHANGED file /\ PoolMoves
  BY <1>2, GoesThere, CacheStays, PoolRests DEF cacheVars
<1>9. SettingOK(c)'
  <2>1. mu # c
    BY <1>2, <1>3 DEF ClientOK, SettingOK, In
  <2> QED  BY <2>1, <1>5, <1>6, <1>7, <1>8 DEF SettingOK, In
<1>10. AskOK(c)'
  <2>1. /\ call'[c].since \in [call'[c].ask -> Version]
        /\ \A x \in call'[c].ask : call'[c].since[x] <= file'[x]
    BY <1>7, <1>8, SinceIs
  <2> QED  BY <2>1, <1>4, <1>7, <1>8 DEF AskOK, In, Fetches
<1>11. GotOK(c)'
  BY <1>3, <1>7, <1>8 DEF ClientOK, GotOK, Fetches
<1> QED  BY <1>2, <1>3, <1>7, <1>8, <1>9, <1>10, <1>11, MovesOK

\* A Set makes room.
LEMMA EvictsOK ==
  ASSUME ParsingInv, NEW c \in Client, Evicts(c)
  PROVE  ParsingInv'
<1>1. /\ call[c].at = "set" /\ ~Blank(c) /\ EvictOne(c, plan.size[call[c].key.of], plan.limits) /\ UNCHANGED call
      /\ UNCHANGED <<poolVars, plan, tickers, alive>>
  BY DEF Evicts, At, Pooled
<1>2. /\ call[c] \in CallType /\ ClientOK(c) /\ CacheInv /\ call \in [Client -> CallType] /\ file \in [Source -> Version]
      /\ plan \in Workload /\ tickers \in BOOLEAN /\ alive \in BOOLEAN
  BY CallIs
<1>3. CacheMoves /\ mu' = c /\ PoolMoves
  BY <1>1, <1>2, EvictOneOK, PoolRests
<1>4. Goes(c, call[c]) /\ call'[c] = call[c]
  BY <1>1, <1>2 DEF Goes
<1>5. PICK i \in Nat : i = call[c].id
  BY CallIs
<1>6. file' \in [Source -> Version] /\ FilesGrow /\ TextsKept /\ NoneRevived /\ SameFlight(c, i)
  BY <1>3 DEF CacheMoves, CacheInv, CacheTyped, PoolMoves, PoolKeeps
<1>7. SettingOK(c)'
  <2>1. call[c].key.of \in Source /\ file[call[c].key.of] \in Nat /\ file'[call[c].key.of] \in Nat /\ call[c].mtime \in Nat
        /\ call[c].key \in CacheKey /\ call[c].key.of \in call[c].store /\ call[c].mtime <= file[call[c].key.of]
    <3>1. call[c].key \in CacheKey /\ call[c].key.of \in call[c].store /\ call[c].mtime <= file[call[c].key.of]
      BY <1>1, <1>2 DEF ClientOK, SettingOK, In
    <3>2. call[c].key.of \in Source
      BY <3>1 DEF CacheKey
    <3> QED  BY <3>1, <3>2, <1>2, <1>6 DEF Version, CallType
  <2>2. call[c].mtime <= file'[call[c].key.of]
    BY <2>1, <1>6 DEF FilesGrow
  <2> QED  BY <2>1, <2>2, <1>1, <1>4 DEF SettingOK, In, Blank
<1>8. AskOK(c)' /\ GotOK(c)'
  BY <1>2, <1>4, <1>6, AskStays, GotStays DEF ClientOK
<1>9. TasksOK(c)' /\ CountOK(c)'
  BY <1>1, <1>3, <1>4, <1>5, <1>6, OwnTasks, CountStays
<1>10. \A d \in Client \ {c} : mu' = d => mu = d
  BY <1>3
<1> QED  BY <1>1, <1>2, <1>3, <1>4, <1>7, <1>8, <1>9, <1>10, OneActs DEF ClientOK

\* A source that has been stored is crossed off.
LEMMA StoredOK ==
  ASSUME ParsingInv, NEW c \in Client, call[c].at \in {"set", "path"}, Goes(c, Stored(c)), CacheMoves, mu' # c,
         \A d \in Client \ {c} : mu' = d => mu = d, UNCHANGED <<poolVars, plan, tickers, alive>>
  PROVE  ParsingInv'
<1> DEFINE left == call[c].store \ {call[c].key.of}
           label == IF left = {} THEN "return" ELSE "stat"
           k == [call[c] EXCEPT !.store = left, !.at = label]
<1>1. Goes(c, k)
  BY DEF Stored
<1>2. /\ call[c] \in CallType /\ ClientOK(c) /\ plan \in Workload /\ tickers \in BOOLEAN /\ alive \in BOOLEAN /\ PoolMoves
  BY CallIs, PoolRests
<1>3. /\ Fetches(c) /\ ~call[c].failed /\ call[c].ask = DOMAIN call[c].got /\ call[c].store \subseteq call[c].ask
  BY <1>2 DEF ClientOK, AskOK, In
<1>4. left \subseteq call[c].store /\ label \in {"return", "stat"}
  OBVIOUS
<1> HIDE DEF left, label
<1>5. /\ k \in CallType /\ k.at = label /\ k.store = left /\ k.op = call[c].op /\ k.ask = call[c].ask
      /\ k.since = call[c].since /\ k.got = call[c].got
      /\ k.out = call[c].out /\ k.box = call[c].box /\ k.in = call[c].in /\ k.id = call[c].id
      /\ k.failed = call[c].failed /\ k.stale = call[c].stale
  <2>1. left \in SUBSET Source
    BY <1>2, <1>4 DEF CallType
  <2> QED  BY <1>2, <1>4, <2>1 DEF CallType
<1> HIDE DEF k
<1>6. call'[c] = k
  BY <1>1, GoesThere
<1>7. SettingOK(c)'
  BY <1>4, <1>5, <1>6 DEF SettingOK, In
<1>8. AskOK(c)'
  <2>1. /\ call'[c].since \in [call'[c].ask -> Version]
        /\ \A x \in call'[c].ask : call'[c].since[x] <= file'[x]
    BY <1>5, <1>6, SinceIs
  <2> QED  BY <2>1, <1>3, <1>4, <1>5, <1>6 DEF AskOK, In, Fetches
<1>9. GotOK(c)'
  BY <1>2, <1>5, <1>6 DEF ClientOK, GotOK, Fetches
<1> QED  BY <1>1, <1>2, <1>4, <1>5, <1>7, <1>8, <1>9, MovesOK

\* What Set puts in is an entry.
LEMMA NewEntryIs ==
  ASSUME ParsingInv, NEW c \in Client, call[c].at = "set"
  PROVE  /\ NewEntry(c) \in Entry /\ ~NewEntry(c).path /\ NewEntry(c).text = call[c].got[call[c].key.of]
         /\ ~NewEntry(c).raced => NewEntry(c).text = file[call[c].key.of]
         /\ call[c].key \in CacheKey /\ call[c].key.of \in Source /\ call[c].mtime <= file[call[c].key.of]
<1>1. /\ call[c] \in CallType /\ ClientOK(c) /\ plan \in Workload
  BY CallIs
<1>2. /\ call[c].key \in CacheKey /\ call[c].key.of \in call[c].store /\ call[c].mtime <= file[call[c].key.of]
      /\ call[c].ask = DOMAIN call[c].got /\ call[c].store \subseteq call[c].ask
  BY <1>1 DEF ClientOK, SettingOK, AskOK, In
<1>3. call[c].key.of \in Source
  BY <1>2 DEF CacheKey
<1>4. call[c].got \in Partial(Source, Version)
  BY <1>1 DEF CallType
<1>5. call[c].got[call[c].key.of] \in Version
  BY <1>2, <1>4, PartialIs
<1>6. plan.size[call[c].key.of] \in Nat \ {0}
  BY <1>1, <1>3 DEF Workload
<1>7. 0 \in Version
  BY CacheAssumption DEF Version
<1> QED  BY <1>2, <1>3, <1>5, <1>6, <1>7 DEF NewEntry, Entry

\* A Set stores: the entry had a race just if the file is not what was parsed.
LEMMA StoresOK ==
  ASSUME ParsingInv, NEW c \in Client, Stores(c)
  PROVE  ParsingInv'
<1>1. call[c].at = "set" /\ UNCHANGED <<poolVars, plan, tickers, alive>>
  BY DEF Stores, At, Pooled
<1>2. /\ call[c] \in CallType /\ ClientOK(c) /\ CacheInv /\ file \in [Source -> Version]
      /\ plan \in Workload /\ tickers \in BOOLEAN /\ alive \in BOOLEAN /\ NoClient \notin Client
  BY CallIs, CacheAssumption
<1>3. CASE Blank(c)
  <2>1. UNCHANGED cacheVars /\ Goes(c, Stored(c))
    BY <1>3 DEF Stores
  <2>2. CacheMoves /\ mu' = mu
    BY <2>1, CacheStays
  <2>3. mu # c
    BY <1>2, <1>3 DEF ClientOK, SettingOK
  <2> QED  BY <1>1, <2>1, <2>2, <2>3, StoredOK
<1>4. CASE ~Blank(c)
  <2>1. /\ SetStores(c, call[c].key, NewEntry(c), plan.limits)
        /\ \/ Goes(c, Stored(c)) \/ Goes(c, [call[c] EXCEPT !.at = "path"])
    BY <1>4 DEF Stores
  <2>2. /\ NewEntry(c) \in Entry /\ ~NewEntry(c).path /\ NewEntry(c).text = call[c].got[call[c].key.of]
        /\ ~NewEntry(c).raced => NewEntry(c).text = file[call[c].key.of]
        /\ call[c].key \in CacheKey /\ call[c].key.of \in Source /\ call[c].mtime <= file[call[c].key.of]
    BY <1>1, NewEntryIs
  <2>3. /\ CacheMoves /\ mu' = NoClient /\ DOMAIN entries' = DOMAIN entries \cup {call[c].key}
        /\ entries'[call[c].key] = NewEntry(c)
    <3>1. PICK entry : entry = NewEntry(c)
      OBVIOUS
    <3>2. PICK key : key = call[c].key
      OBVIOUS
    <3> QED  BY <1>2, <2>1, <2>2, <3>1, <3>2, SetStoresOK, SMTT(30)
  <2>4. mu' # c /\ \A d \in Client \ {c} : mu' = d => mu = d
    BY <1>2, <2>3
  <2>5. CASE Goes(c, Stored(c))
    BY <1>1, <2>3, <2>4, <2>5, StoredOK
  <2>6. CASE Goes(c, [call[c] EXCEPT !.at = "path"])
    <3>1. PICK k : k = [call[c] EXCEPT !.at = "path"]
      OBVIOUS
    <3>2. /\ k \in CallType /\ k.at = "path" /\ k.op = call[c].op /\ k.ask = call[c].ask /\ k.since = call[c].since
          /\ k.store = call[c].store /\ k.got = call[c].got /\ k.key = call[c].key /\ k.mtime = call[c].mtime
          /\ k.out = call[c].out /\ k.box = call[c].box /\ k.in = call[c].in /\ k.id = call[c].id
          /\ k.failed = call[c].failed /\ k.stale = call[c].stale
      BY <3>1, LabelIs
    <3>3. Goes(c, k) /\ call'[c] = k /\ PoolMoves /\ file' = file
      BY <1>1, <2>1, <2>6, <3>1, GoesThere, PoolRests DEF SetStores
    <3>4. SettingOK(c)'
      <4>1. call[c].key.of \in call[c].store
        BY <1>1, <1>2 DEF ClientOK, SettingOK, In
      <4>2. entries'[call[c].key].raced \/ entries'[call[c].key].text >= call[c].mtime
        <5>1. file[call[c].key.of] \in Nat /\ call[c].mtime \in Nat
          BY <1>2, <2>2 DEF Version, CallType
        <5>2. file[call[c].key.of] >= call[c].mtime
          BY <5>1, <2>2
        <5> QED  BY <2>2, <2>3, <5>2
      <4> QED  BY <2>2, <2>4, <3>2, <3>3, <4>1, <4>2 DEF SettingOK, In
    <3>5. AskOK(c)'
      <4>1. /\ call'[c].since \in [call'[c].ask -> Version]
            /\ \A x \in call'[c].ask : call'[c].since[x] <= file'[x]
        BY <2>3, <3>2, <3>3, SinceIs
      <4>2. Fetches(c) /\ ~call[c].failed /\ call[c].ask = DOMAIN call[c].got /\ call[c].store \subseteq call[c].ask
        BY <1>1, <1>2 DEF ClientOK, AskOK, In
      <4> QED  BY <4>1, <4>2, <3>2, <3>3 DEF AskOK, In, Fetches
    <3>6. GotOK(c)'
      BY <1>2, <3>2, <3>3 DEF ClientOK, GotOK, Fetches
    <3> QED  BY <1>1, <1>2, <2>3, <2>4, <3>2, <3>3, <3>4, <3>5, <3>6, MovesOK
  <2> QED  BY <2>1, <2>5, <2>6
<1> QED  BY <1>3, <1>4

\* The entry under the key gets the path, which is not older than its text
\* unless it had a race.
LEMMA SetsFilePathOK ==
  ASSUME ParsingInv, NEW c \in Client, SetsFilePath(c)
  PROVE  ParsingInv'
<1>1. /\ call[c].at = "path" /\ SetsPath(call[c].key, call[c].mtime) /\ Goes(c, Stored(c))
      /\ UNCHANGED <<poolVars, plan, tickers, alive>>
  BY DEF SetsFilePath, At, Pooled
<1>2. call[c] \in CallType /\ ClientOK(c) /\ CacheInv /\ call[c].mtime \in Version /\ NoClient \notin Client
  BY CallIs, CacheAssumption DEF CallType
<1>3. call[c].key \in DOMAIN entries /\ ~entries[call[c].key].raced => entries[call[c].key].text >= call[c].mtime
  BY <1>1, <1>2 DEF ClientOK, SettingOK, In
<1>4. CacheMoves /\ mu' = mu
  <2>1. PICK key : key = call[c].key
    OBVIOUS
  <2>2. PICK mtime : mtime = call[c].mtime
    OBVIOUS
  <2> QED  BY <1>1, <1>2, <1>3, <2>1, <2>2, SetsPathOK
<1>5. mu = NoClient
  BY <1>1 DEF SetsPath
<1> QED  BY <1>1, <1>2, <1>4, <1>5, StoredOK

-----------------------------------------------------------------------------
\* Before the first task of a call none is on its way.
LEMMA NoneYet ==
  ASSUME ParsingInv, NEW c \in Client, NEW i \in Nat, i = call[c].id,
         call[c].at \in {"lookup", "touch", "healthy", "start"}
  PROVE  Flying(c, i) = 0 /\ Len(call[c].box) = 0 /\ call[c].box = <<>> /\ call[c].out = 0 /\ call[c].store = {}
<1>1. CountOK(c) /\ Len(call[c].box) \in Nat /\ call[c].box \in Seq(ResultType)
  BY CallIs DEF ClientOK, CallType
<1>2. Counted(call[c], generation, chan[generation].done, Flying(c, i), Carried(c, i))
  BY <1>1, CountNow
<1>3. Flying(c, i) + Len(call[c].box) <= 0 /\ call[c].out = 0 /\ call[c].store = {} /\ Flying(c, i) \in Nat
  BY <1>2, FlyingFinite DEF Counted
<1>4. Flying(c, i) = 0 /\ Len(call[c].box) = 0
  BY <1>1, <1>3
<1> QED  BY <1>1, <1>3, <1>4

\* Nor is one ever of a call that is not a batch.
LEMMA NoneOfOthers ==
  ASSUME ParsingInv, NEW c \in Client, NEW i \in Nat, i = call[c].id, call[c].op # "batch"
  PROVE  Flying(c, i) = 0 /\ call[c].box = <<>> /\ Len(call[c].box) = 0
<1>1. TasksOK(c) /\ call[c].box \in Seq(ResultType) /\ PoolInv
  BY CallIs DEF ClientOK, CallType
<1>2. call[c].box = <<>> /\ Len(call[c].box) = 0
  <2>1. DOMAIN call[c].box = {}
    BY <1>1 DEF TasksOK
  <2>2. ASSUME NEW q \in Seq(ResultType), DOMAIN q = {}
        PROVE  q = <<>> /\ Len(q) = 0
    <3>1. 1 \notin 1..Len(q) /\ Len(q) \in Nat
      BY <2>2
    <3>2. Len(q) = 0
      BY <3>1
    <3> QED  BY <3>2
  <2> QED  BY <1>1, <2>1, <2>2
<1>3. Queued(c, i) = {}
  <2>1. SUFFICES ASSUME NEW p \in Queued(c, i)
                 PROVE  FALSE
    OBVIOUS
  <2>2. /\ p \in Gens \X (1..QueueSize) /\ p[2] <= Len(chan[p[1]].tasks)
        /\ chan[p[1]].tasks[p[2]].for = c /\ chan[p[1]].tasks[p[2]].id = i
    BY InQueued
  <2>3. p[1] \in Gens /\ p[2] \in DOMAIN chan[p[1]].tasks
    BY <2>2, <1>1, PoolIs
  <2>4. chan[p[1]].tasks[p[2]] \in ToSet(chan[p[1]].tasks)
    BY <2>3 DEF ToSet
  <2> QED  BY <2>2, <2>3, <2>4, <1>1 DEF TasksOK, Gens
<1>4. Handled(c, i) = {}
  BY <1>1 DEF TasksOK, Handled
<1>5. Cardinality(Queued(c, i)) = 0 /\ Cardinality(Handled(c, i)) = 0
  BY <1>3, <1>4, FS_EmptySet
<1> QED  BY <1>2, <1>5 DEF Flying

\* A call begins with the pool.
LEMMA BeginsOK ==
  ASSUME ParsingInv, NEW c \in Client, NEW label \in {"submit", "start"}, NEW on \in 0..MaxGenerations,
         Goes(c, [call[c] EXCEPT !.at = label, !.in = on]),
         call[c].at \in {"healthy", "start"}, on <= generation', PoolMoves, UNCHANGED <<cacheVars, plan, tickers, alive>>
  PROVE  ParsingInv'
<1> DEFINE k == [call[c] EXCEPT !.at = label, !.in = on]
<1>1. PICK i \in Nat : i = call[c].id
  BY CallIs
<1>2. call[c] \in CallType /\ ClientOK(c) /\ plan \in Workload /\ tickers \in BOOLEAN /\ alive \in BOOLEAN
  BY CallIs
<1>3. /\ k \in CallType /\ k.at = label /\ k.in = on /\ k.op = call[c].op /\ k.ask = call[c].ask
      /\ k.since = call[c].since /\ k.store = call[c].store /\ k.got = call[c].got /\ k.rest = call[c].rest
      /\ k.out = call[c].out /\ k.box = call[c].box /\ k.id = call[c].id
      /\ k.failed = call[c].failed /\ k.stale = call[c].stale
  BY <1>2 DEF CallType
<1> HIDE DEF k
<1>4. Goes(c, k)
  BY DEF k
<1>5. call'[c] = k /\ CacheMoves /\ mu' = mu /\ PoolKeeps(c, i) /\ PoolInv' /\ NoneRevived
  BY <1>1, <1>4, GoesThere, CacheStays DEF PoolMoves
<1>6. Flying(c, i) = 0 /\ Len(call[c].box) = 0 /\ call[c].box = <<>> /\ call[c].out = 0 /\ call[c].store = {}
  BY <1>1, NoneYet
<1>7. SettingOK(c)'
  BY <1>2, <1>3, <1>5, NotSetting DEF ClientOK
<1>8. AskOK(c)'
  <2>1. /\ call'[c].since \in [call'[c].ask -> Version]
        /\ \A x \in call'[c].ask : call'[c].since[x] <= file'[x]
    BY <1>3, <1>5, SinceIs
  <2>2. /\ call[c].op \in {"batch", "parallel"} /\ call[c].rest # <<>> /\ ~call[c].failed
        /\ call[c].op = "batch" => call[c].ask = DOMAIN call[c].got \cup ToSet(call[c].rest) \cup call[c].store
    BY <1>2 DEF ClientOK, AskOK, In
  <2> QED  BY <2>1, <2>2, <1>3, <1>5 DEF AskOK, In, Fetches
<1>9. GotOK(c)'
  BY <1>2, <1>3, <1>5 DEF ClientOK, GotOK, Fetches
<1>10. TasksOK(c)'
  <2>1. \A j \in DOMAIN call'[c].box : call[c].op = "batch" /\ Timely(call'[c].box[j], c)
    BY <1>2, <1>3, <1>5 DEF ClientOK, TasksOK
  <2> QED  BY <2>1, <1>1, <1>3, <1>5, <1>6, TasksStay DEF PoolKeeps
<1>11. CountOK(c)'
  <2>1. Flying(c, i)' = 0
    BY <1>5, <1>6 DEF PoolKeeps, SameFlight
  <2>2. Counted(k, generation', chan'[generation'].done, Flying(c, i)', Carried(c, i)')
    BY <2>1, <1>3, <1>6 DEF Counted
  <2> QED  BY <2>2, <1>1, <1>3, <1>5, CountThen
<1> QED  BY <1>2, <1>3, <1>4, <1>5, <1>7, <1>8, <1>9, <1>10, <1>11, OneActs DEF ClientOK

\* A batch asks the pool for its health.
LEMMA ChecksHealthOK ==
  ASSUME ParsingInv, NEW c \in Client, ChecksHealth(c)
  PROVE  ParsingInv'
<1> DEFINE label == IF IsHealthy THEN "submit" ELSE "start"
<1>1. /\ call[c].at = "healthy" /\ Goes(c, [call[c] EXCEPT !.at = label, !.in = generation])
      /\ UNCHANGED <<cacheVars, poolVars, plan, tickers, alive>>
  BY DEF ChecksHealth, At, Cached
<1>2. generation \in 0..MaxGenerations /\ generation <= generation' /\ PoolMoves
  BY <1>1, CallIs, PoolIs, PoolRests DEF Gens, poolVars
<1>3. label \in {"submit", "start"}
  OBVIOUS
<1> HIDE DEF label
<1> QED  BY <1>1, <1>2, <1>3, BeginsOK

\* A batch starts the pool, or finds it started by another.
LEMMA StartsPoolOK ==
  ASSUME ParsingInv, NEW c \in Client, StartsPool(c)
  PROVE  ParsingInv'
<1>1. call[c].at = "start" /\ Cached
  BY DEF StartsPool, At
<1>2. CASE Fails(c) /\ UNCHANGED poolVars
  BY <1>1, <1>2, FailsAlone
<1>3. CASE Start /\ Goes(c, [call[c] EXCEPT !.at = "submit", !.in = generation + 1])
  <2>1. PoolInv /\ generation \in Gens /\ MaxGenerations \in Nat /\ generation < MaxGenerations
    BY <1>3, CallIs, PoolIs DEF Start
  <2>2. PoolMoves /\ generation' = generation + 1
    BY <1>3, <2>1, StartOK
  <2>3. generation + 1 \in 0..MaxGenerations /\ generation + 1 <= generation'
    BY <2>1, <2>2 DEF Gens
  <2> QED  BY <1>1, <1>3, <2>2, <2>3, BeginsOK DEF Cached
<1> QED  BY <1>2, <1>3 DEF StartsPool

\* What a call that has submitted its next file is.
LEMMA SubmittedIs ==
  ASSUME NEW c, call[c] \in CallType, call[c].rest # <<>>, NEW h, h = Submitted(c)
  PROVE  /\ h \in CallType /\ h.op = call[c].op /\ h.ask = call[c].ask
         /\ h.since = call[c].since /\ h.rest = Tail(call[c].rest)
         /\ h.store = call[c].store \cup {Head(call[c].rest)} /\ h.got = call[c].got
         /\ h.out = call[c].out /\ h.box = call[c].box /\ h.in = call[c].in /\ h.id = call[c].id
         /\ h.failed = call[c].failed /\ h.stale = call[c].stale
         /\ h.at \in {"submit", "collect"} /\ (h.at = "submit" => h.rest # <<>>) /\ (h.at = "collect" => h.rest = <<>>)
         /\ ToSet(call[c].rest) = ToSet(Tail(call[c].rest)) \cup {Head(call[c].rest)}
<1> DEFINE rest == Tail(call[c].rest)
           s == Head(call[c].rest)
           store == call[c].store \cup {s}
           label == IF rest = <<>> THEN "collect" ELSE "submit"
           state == [call[c] EXCEPT !.rest = rest, !.store = store, !.at = label]
<1>1. call[c].rest \in Seq(Source)
  BY DEF CallType
<1>2. /\ rest \in Seq(Source) /\ s \in Source
      /\ ToSet(call[c].rest) = ToSet(rest) \cup {s}
  BY <1>1, TailIs
<1>3. store \in SUBSET Source
  BY <1>2 DEF CallType
<1>4. label \in {"submit", "collect"} /\ (label = "submit" => rest # <<>>) /\ (label = "collect" => rest = <<>>)
  OBVIOUS
<1>5. h = state
  BY DEF Submitted
<1>6. rest = Tail(call[c].rest) /\ store = call[c].store \cup {s}
  OBVIOUS
<1> HIDE DEF rest, store, label
<1>7. /\ state \in CallType /\ state.op = call[c].op /\ state.ask = call[c].ask
      /\ state.since = call[c].since /\ state.rest = rest
      /\ state.store = store /\ state.got = call[c].got
      /\ state.out = call[c].out /\ state.box = call[c].box /\ state.in = call[c].in /\ state.id = call[c].id
      /\ state.failed = call[c].failed /\ state.stale = call[c].stale /\ state.at = label
  BY <1>2, <1>3, <1>4 DEF CallType
<1> HIDE DEF state
<1> QED  BY <1>2, <1>4, <1>5, <1>6, <1>7

\* A task of a call that is no batch is for nobody.
LEMMA TaskIs ==
  ASSUME ParsingInv, NEW c \in Client, call[c].at = "submit"
  PROVE  /\ Task(c) \in TaskType /\ Task(c).of = Head(call[c].rest) /\ Task(c).id = call[c].id
         /\ Task(c).for = IF call[c].op = "batch" THEN c ELSE NoClient
         /\ call[c].rest # <<>> /\ call[c].op \in {"batch", "parallel"}
         /\ call[c].op = "batch" => call[c].ask = DOMAIN call[c].got \cup ToSet(call[c].rest) \cup call[c].store
<1>1. call[c] \in CallType /\ ClientOK(c) /\ call[c].id \in Nat
  BY CallIs
<1>2. /\ call[c].rest # <<>> /\ call[c].op \in {"batch", "parallel"}
      /\ call[c].op = "batch" => call[c].ask = DOMAIN call[c].got \cup ToSet(call[c].rest) \cup call[c].store
  BY <1>1 DEF ClientOK, AskOK, In
<1>3. Head(call[c].rest) \in Source
  BY <1>1, <1>2, TailIs DEF CallType
<1> QED  BY <1>1, <1>2, <1>3 DEF Task, TaskType

\* The plan, and what other clients wait for, are left by a step with the pool.
LEMMA WithPool ==
  ASSUME ParsingInv, NEW c \in Client, NEW k \in CallType, Goes(c, k), UNCHANGED <<cacheVars, plan, tickers, alive>>,
         PoolInv', NoneRevived, \A d \in Client \ {c} : \A i \in Nat : PoolKeeps(d, i),
         AskOK(c)', GotOK(c)', TasksOK(c)', CountOK(c)', call[c].at # "set", k.at \notin {"set", "path"}
  PROVE  ParsingInv'
<1>1. CacheMoves /\ mu' = mu /\ call'[c] = k
  BY CacheStays, GoesThere
<1>2. plan \in Workload /\ tickers \in BOOLEAN /\ alive \in BOOLEAN /\ ClientOK(c)
  BY CallIs
<1>3. SettingOK(c)'
  BY <1>1, <1>2, NotSetting DEF ClientOK
<1> QED  BY <1>1, <1>2, <1>3, OneMoves DEF ClientOK

\* A batch submits a file: one task more is on its way, one result more is
\* awaited.
LEMMA EnqueuesForBatch ==
  ASSUME ParsingInv, NEW c \in Client, call[c].at = "submit", call[c].op = "batch", Enqueue(Task(c)),
         Goes(c, [Submitted(c) EXCEPT !.out = @ + 1]), Cached
  PROVE  ParsingInv'
<1>1. PICK i \in Nat : i = call[c].id
  BY CallIs
<1>2. PICK task : task = Task(c)
  OBVIOUS
<1>3. PICK n \in Nat : n = call[c].out + 1
  BY CallIs
<1>4. /\ call[c] \in CallType /\ ClientOK(c) /\ call[c].out \in Nat /\ Len(call[c].box) \in Nat /\ PoolInv
      /\ generation \in Gens
  BY CallIs, PoolIs
<1>5. /\ task \in TaskType /\ task.of = Head(call[c].rest) /\ task.id = i /\ task.for = c
      /\ call[c].rest # <<>>
      /\ call[c].ask = DOMAIN call[c].got \cup ToSet(call[c].rest) \cup call[c].store
  BY <1>1, <1>2, TaskIs
<1>6. PICK h : h = Submitted(c)
  OBVIOUS
<1> DEFINE k == [h EXCEPT !.out = n]
<1>7. /\ k \in CallType /\ k.op = call[c].op /\ k.ask = call[c].ask
      /\ k.since = call[c].since /\ k.rest = Tail(call[c].rest)
      /\ k.store = call[c].store \cup {task.of} /\ k.got = call[c].got
      /\ k.out = n /\ k.box = call[c].box /\ k.in = call[c].in /\ k.id = call[c].id
      /\ k.failed = call[c].failed /\ k.stale = call[c].stale
      /\ k.at \in {"submit", "collect"} /\ (k.at = "submit" => k.rest # <<>>) /\ (k.at = "collect" => k.rest = <<>>)
      /\ ToSet(call[c].rest) = ToSet(k.rest) \cup {task.of}
  <2>1. /\ h \in CallType /\ h.op = call[c].op /\ h.ask = call[c].ask
        /\ h.since = call[c].since /\ h.rest = Tail(call[c].rest)
        /\ h.store = call[c].store \cup {task.of} /\ h.got = call[c].got
        /\ h.box = call[c].box /\ h.in = call[c].in /\ h.id = call[c].id
        /\ h.failed = call[c].failed /\ h.stale = call[c].stale
        /\ h.at \in {"submit", "collect"} /\ (h.at = "submit" => h.rest # <<>>) /\ (h.at = "collect" => h.rest = <<>>)
        /\ ToSet(call[c].rest) = ToSet(h.rest) \cup {task.of}
    BY <1>4, <1>5, <1>6, SubmittedIs
  <2>2. /\ k \in CallType /\ k.op = h.op /\ k.ask = h.ask
        /\ k.since = h.since /\ k.rest = h.rest /\ k.store = h.store /\ k.got = h.got
        /\ k.out = n /\ k.box = h.box /\ k.in = h.in /\ k.id = h.id
        /\ k.failed = h.failed /\ k.stale = h.stale /\ k.at = h.at
    BY <2>1 DEF CallType
  <2> HIDE DEF k
  <2> QED  BY <2>1, <2>2
<1>8. Goes(c, k)
  <2>1. h.out = call[c].out
    BY <1>4, <1>5, <1>6, SubmittedIs
  <2> QED  BY <1>3, <1>6, <2>1
<1> HIDE DEF k
<1>9. call'[c] = k /\ UNCHANGED <<cacheVars, plan, tickers, alive>>
  BY <1>8, GoesThere DEF Cached
<1>10. /\ PoolInv' /\ NoneRevived /\ generation' = generation /\ chan'[generation].done = chan[generation].done
       /\ \A d : StillWork(d) /\ (task.for # d => FewerQueued(d))
       /\ \A g \in Gens : \A t \in ToSet(chan'[g].tasks) : t \in ToSet(chan[g].tasks) \/ (t = task /\ g = generation)
       /\ \A d, j : task.for # d \/ task.id # j => SameFlight(d, j)
       /\ Flying(c, i)' = Flying(c, i) + 1 /\ Carried(c, i)' = Carried(c, i) \cup {task.of}
  <2>1. Enqueue(task)
    BY <1>2
  <2> QED  BY <2>1, <1>4, <1>5, EnqueueOK
<1>11. \A d \in Client \ {c} : \A j \in Nat : PoolKeeps(d, j)
  BY <1>5, <1>10 DEF PoolKeeps
<1>12. AskOK(c)'
  <2>1. /\ call'[c].since \in [call'[c].ask -> Version]
        /\ \A x \in call'[c].ask : call'[c].since[x] <= file'[x]
    BY <1>7, <1>9, CacheStays, SinceIs
  <2>2. k.ask = DOMAIN k.got \cup ToSet(k.rest) \cup k.store
    BY <1>5, <1>7
  <2>3. k.at = "collect" => k.ask = DOMAIN k.got \cup k.store
    <3>1. ToSet(<<>>) = {}
      BY DEF ToSet
    <3> QED  BY <3>1, <2>2, <1>7
  <2> QED  BY <2>1, <2>2, <2>3, <1>7, <1>9 DEF AskOK, In, Fetches
<1>13. GotOK(c)'
  BY <1>4, <1>7, <1>9 DEF ClientOK, GotOK, Fetches
<1>14. TasksOK(c)'
  <2>1. call[c].in <= generation /\ \A j \in DOMAIN call[c].box : call[c].op = "batch" /\ Timely(call[c].box[j], c)
    BY <1>4 DEF ClientOK, TasksOK
  <2>2. \A g \in Gens : \A t \in ToSet(chan'[g].tasks) :
          t.for = c =>
            \/ t \in ToSet(chan[g].tasks)
            \/ /\ t.id = call[c].id /\ call[c].at # "idle" /\ call[c].op = "batch"
               /\ g >= call'[c].in /\ t.of \in call[c].ask
    <3>1. generation >= call[c].in
      BY <2>1, <1>4 DEF CallType, Gens
    <3>2. task.of \in call[c].ask
      BY <1>5, <1>7
    <3> QED  BY <3>1, <3>2, <1>1, <1>5, <1>7, <1>9, <1>10
  <2> QED  BY <2>1, <2>2, <1>1, <1>7, <1>9, <1>10, TasksGrow
<1>15. CountOK(c)'
  <2>1. Counted(call[c], generation, chan[generation].done, Flying(c, i), Carried(c, i))
    BY <1>1, <1>4, CountNow DEF ClientOK
  <2>2. PICK flying \in Nat : flying = Flying(c, i)
    BY FlyingFinite
  <2>3. PICK carried : carried = Carried(c, i)
    OBVIOUS
  <2>4. Counted(call[c], generation, chan[generation].done, flying, carried)
    BY <2>1, <2>2, <2>3
  <2>5. Counted(k, generation, chan[generation].done, flying + 1, carried \cup {task.of})
    <3>1. flying + Len(call[c].box) <= call[c].out /\ (flying + 1) + Len(k.box) <= k.out
      BY <2>4, <1>3, <1>4, <1>7 DEF Counted
    <3>2. (flying + 1) + Len(k.box) = k.out <=> flying + Len(call[c].box) = call[c].out
      <4>1. k.box = call[c].box /\ k.out = call[c].out + 1
        BY <1>3, <1>7
      <4>2. call[c].out \in Nat /\ Len(call[c].box) \in Nat
        BY <1>4
      <4>3. PICK long \in Nat : long = Len(call[c].box)
        BY <4>2
      <4>4. Len(k.box) = long
        BY <4>1, <4>3
      <4>5. flying + 1 + long = call[c].out + 1 <=> flying + long = call[c].out
        BY <2>2, <4>2, SMTT(30)
      <4> QED  BY <4>1, <4>3, <4>4, <4>5
    <3>3. ASSUME (flying + 1) + Len(k.box) = k.out, NEW x \in k.store
          PROVE  \/ x \in DOMAIN k.got \/ k.failed
                 \/ x \in carried \cup {task.of} \/ \E j \in DOMAIN k.box : k.box[j].of = x
      <4>1. x \in call[c].store =>
              \/ x \in DOMAIN call[c].got \/ call[c].failed
              \/ x \in carried \/ \E j \in DOMAIN call[c].box : call[c].box[j].of = x
        BY <2>4, <3>2, <3>3 DEF Counted
      <4>2. x = task.of \/ x \in call[c].store
        BY <3>3, <1>7
      <4>3. k.got = call[c].got /\ k.failed = call[c].failed /\ k.box = call[c].box
        BY <1>7
      <4> QED  BY <4>1, <4>2, <4>3
    <3>4. k.in = generation /\ ~chan[generation].done => (flying + 1) + Len(k.box) = k.out
      <4>1. k.in = call[c].in
        BY <1>7
      <4>2. call[c].in = generation /\ ~chan[generation].done => flying + Len(call[c].box) = call[c].out
        BY <2>4 DEF Counted
      <4> QED  BY <4>1, <4>2, <3>2
    <3>5. k.at \notin {"lookup", "touch", "healthy", "start"}
      BY <1>7
    <3> QED  BY <3>1, <3>3, <3>4, <3>5 DEF Counted
  <2>6. Flying(c, i)' = flying + 1 /\ Carried(c, i)' = carried \cup {task.of}
    BY <2>2, <2>3, <1>10
  <2>7. Counted(call'[c], generation', chan'[generation'].done, Flying(c, i)', Carried(c, i)')
    BY <2>5, <2>6, <1>9, <1>10
  <2> QED  BY <2>7, <1>1, <1>7, <1>9, CountThen
<1> QED  BY <1>7, <1>8, <1>9, <1>10, <1>11, <1>12, <1>13, <1>14, <1>15, WithPool

\* A batch submits a file, or finds the queue closed or the pool cancelled.
LEMMA SubmitsBatchOK ==
  ASSUME ParsingInv, NEW c \in Client, SubmitsBatch(c)
  PROVE  ParsingInv'
<1>1. call[c].at = "submit" /\ call[c].op = "batch"
  BY DEF SubmitsBatch, At
<1>2. CASE Enqueue(Task(c)) /\ Goes(c, [Submitted(c) EXCEPT !.out = @ + 1]) /\ Cached
  BY <1>1, <1>2, EnqueuesForBatch
<1>3. CASE Panics
  BY <1>3, PanicsOK
<1>4. CASE Fails(c) /\ UNCHANGED poolVars /\ Cached
  BY <1>1, <1>4, FailsAlone
<1> QED  BY <1>2, <1>3, <1>4 DEF SubmitsBatch

\* The other way into the pool submits a file, for nobody's channel.
LEMMA SubmitsParallelOK ==
  ASSUME ParsingInv, NEW c \in Client, SubmitsParallel(c)
  PROVE  ParsingInv'
<1>1. call[c].at = "submit" /\ call[c].op = "parallel" /\ Cached
  BY DEF SubmitsParallel, At
<1>2. PICK i \in Nat : i = call[c].id
  BY CallIs
<1>3. PICK task : task = Task(c)
  OBVIOUS
<1>4. call[c] \in CallType /\ ClientOK(c) /\ call[c].out \in Nat /\ Len(call[c].box) \in Nat /\ PoolInv
  BY CallIs
<1>5. task \in TaskType /\ task.for = NoClient /\ NoClient \notin Client /\ call[c].rest # <<>>
  BY <1>1, <1>3, TaskIs, CacheAssumption
<1>6. PICK h : h = Submitted(c)
  OBVIOUS
<1>7. /\ h \in CallType /\ h.op = call[c].op /\ h.ask = call[c].ask /\ h.out = call[c].out
      /\ h.since = call[c].since /\ h.box = call[c].box /\ h.in = call[c].in /\ h.id = call[c].id
      /\ h.at \in {"submit", "collect"} /\ (h.at = "submit" => h.rest # <<>>)
  BY <1>4, <1>5, <1>6, SubmittedIs
<1>8. PICK k \in CallType :
        /\ Goes(c, k) /\ (Enqueue(task) \/ UNCHANGED poolVars)
        /\ k.op = call[c].op /\ k.ask = call[c].ask
        /\ k.since = call[c].since /\ k.box = call[c].box /\ k.in = call[c].in /\ k.id = call[c].id
        /\ k.at \in {"submit", "collect"} /\ (k.at = "submit" => k.rest # <<>>) /\ k.out \in Nat
  <2>1. CASE Enqueue(task) /\ Goes(c, [Submitted(c) EXCEPT !.out = @ + 1])
    <3> DEFINE n == call[c].out + 1
               k == [h EXCEPT !.out = n]
    <3>1. n \in Nat /\ Goes(c, k)
      BY <1>4, <1>6, <1>7, <2>1
    <3> HIDE DEF n
    <3>2. /\ k \in CallType /\ k.op = h.op /\ k.ask = h.ask /\ k.since = h.since /\ k.rest = h.rest
          /\ k.out = n /\ k.box = h.box /\ k.in = h.in /\ k.id = h.id /\ k.at = h.at
      BY <1>7, <3>1 DEF CallType
    <3> HIDE DEF k
    <3> QED  BY <2>1, <3>1, <3>2, <1>7
  <2>2. CASE UNCHANGED poolVars /\ Goes(c, [Submitted(c) EXCEPT !.failed = TRUE])
    <3> DEFINE k == [h EXCEPT !.failed = TRUE]
    <3>1. Goes(c, k)
      BY <1>6, <2>2
    <3>2. /\ k \in CallType /\ k.op = h.op /\ k.ask = h.ask /\ k.since = h.since /\ k.rest = h.rest
          /\ k.out = h.out /\ k.box = h.box /\ k.in = h.in /\ k.id = h.id /\ k.at = h.at
      BY <1>7 DEF CallType
    <3> HIDE DEF k
    <3> QED  BY <2>2, <3>1, <3>2, <1>4, <1>7
  <2> QED  BY <2>1, <2>2, <1>3 DEF SubmitsParallel
<1>9. call'[c] = k /\ UNCHANGED <<cacheVars, plan, tickers, alive>>
  BY <1>1, <1>8, GoesThere DEF Cached
<1>10. PoolMoves
  <2>1. CASE Enqueue(task)
    <3>1. /\ PoolInv' /\ NoneRevived /\ \A d : StillWork(d) /\ (task.for # d => FewerQueued(d))
          /\ \A d, j : task.for # d \/ task.id # j => SameFlight(d, j)
      BY <2>1, <1>4, <1>5, EnqueueOK
    <3> QED  BY <3>1, <1>5 DEF PoolMoves, PoolKeeps
  <2> QED  BY <2>1, <1>8, PoolRests
<1>11. AskOK(c)'
  <2>1. /\ call'[c].since \in [call'[c].ask -> Version]
        /\ \A x \in call'[c].ask : call'[c].since[x] <= file'[x]
    BY <1>8, <1>9, CacheStays, SinceIs
  <2> QED  BY <2>1, <1>1, <1>8, <1>9 DEF AskOK, In, Fetches
<1>12. GotOK(c)'
  BY <1>1, <1>8, <1>9 DEF GotOK, Fetches
<1>13. TasksOK(c)'
  BY <1>1, <1>8, <1>9, <1>10, OwnTasks
<1>14. CountOK(c)'
  <2>1. Flying(c, i) = 0 /\ Len(call[c].box) = 0
    BY <1>1, <1>2, NoneOfOthers
  <2>2. Flying(c, i)' = 0
    BY <2>1, <1>10 DEF PoolMoves, PoolKeeps, SameFlight
  <2>3. Counted(k, generation', chan'[generation'].done, Flying(c, i)', Carried(c, i)')
    BY <2>1, <2>2, <1>1, <1>8 DEF Counted
  <2> QED  BY <2>3, <1>2, <1>8, <1>9, CountThen
<1>15. PoolInv' /\ NoneRevived /\ \A d \in Client \ {c} : \A j \in Nat : PoolKeeps(d, j)
  BY <1>10 DEF PoolMoves
<1> QED  BY <1>1, <1>8, <1>9, <1>11, <1>12, <1>13, <1>14, <1>15, WithPool

\* What a call that has taken a result is.
LEMMA CollectedIs ==
  ASSUME NEW c, call[c] \in CallType, call[c].out > 0, NEW r \in ResultType, NEW h, h = Collected(c, r)
  PROVE  /\ h \in CallType /\ h.op = call[c].op /\ h.at = call[c].at /\ h.ask = call[c].ask
         /\ h.since = call[c].since /\ h.rest = call[c].rest /\ h.store = call[c].store
         /\ h.out = call[c].out - 1 /\ h.box = call[c].box /\ h.in = call[c].in /\ h.id = call[c].id
         /\ h.stale = call[c].stale /\ (h.failed <=> call[c].failed \/ ~r.ok)
         /\ h.got = IF r.ok THEN With(call[c].got, r.of, r.text) ELSE call[c].got
<1> DEFINE n == call[c].out - 1
           got == IF r.ok THEN With(call[c].got, r.of, r.text) ELSE call[c].got
           failed == call[c].failed \/ ~r.ok
           state == [call[c] EXCEPT !.out = n, !.got = got, !.failed = failed]
<1>1. call[c].got \in Partial(Source, Version) /\ call[c].out \in Nat
  BY DEF CallType
<1>2. r.of \in Source /\ r.text \in Version /\ r.ok \in BOOLEAN
  BY DEF ResultType
<1>3. With(call[c].got, r.of, r.text) \in Partial(Source, Version)
  BY <1>1, <1>2, WithIs
<1>4. n \in Nat /\ got \in Partial(Source, Version) /\ failed \in BOOLEAN
  BY <1>1, <1>2, <1>3
<1>5. h = state
  BY DEF Collected
<1>6. n = call[c].out - 1 /\ (got = IF r.ok THEN With(call[c].got, r.of, r.text) ELSE call[c].got)
  OBVIOUS
<1>7. failed <=> call[c].failed \/ ~r.ok
  OBVIOUS
<1> HIDE DEF n, got, failed
<1>8. /\ state \in CallType /\ state.op = call[c].op /\ state.at = call[c].at /\ state.ask = call[c].ask
      /\ state.since = call[c].since /\ state.rest = call[c].rest /\ state.store = call[c].store
      /\ state.out = n /\ state.box = call[c].box /\ state.in = call[c].in /\ state.id = call[c].id
      /\ state.stale = call[c].stale /\ (state.failed <=> failed) /\ state.got = got
  BY <1>4 DEF CallType
<1> HIDE DEF state
<1> QED  BY <1>5, <1>6, <1>7, <1>8

\* The private channel after its first result was taken.
LEMMA TakenFrom ==
  ASSUME ParsingInv, NEW c \in Client, call[c].box # <<>>, call[c].op = "batch"
  PROVE  /\ Head(call[c].box) \in ResultType /\ Timely(Head(call[c].box), c)
         /\ Tail(call[c].box) \in Seq(ResultType) /\ Len(Tail(call[c].box)) = Len(call[c].box) - 1
         /\ \A j \in DOMAIN Tail(call[c].box) : Timely(Tail(call[c].box)[j], c)
         /\ \A j \in DOMAIN call[c].box :
              \/ call[c].box[j] = Head(call[c].box)
              \/ \E m \in DOMAIN Tail(call[c].box) : Tail(call[c].box)[m] = call[c].box[j]
<1>1. call[c].box \in Seq(ResultType) /\ TasksOK(c)
  BY CallIs DEF CallType, ClientOK
<1>2. PICK q \in Seq(ResultType) : q = call[c].box
  BY <1>1
<1>3. q # <<>>
  BY <1>2
<1>4. /\ Head(q) \in ResultType /\ Head(q) = q[1] /\ Tail(q) \in Seq(ResultType) /\ Len(Tail(q)) = Len(q) - 1
  BY <1>3, TailIs
<1>5. Len(q) \in Nat /\ DOMAIN q = 1..Len(q) /\ DOMAIN Tail(q) = 1..(Len(q) - 1) /\ 1 \in DOMAIN q
  BY <1>3, <1>4
<1>6. \A j \in DOMAIN q : Timely(q[j], c)
  BY <1>1, <1>2 DEF TasksOK
<1>7. \A j \in DOMAIN Tail(q) : Tail(q)[j] = q[j + 1] /\ j + 1 \in DOMAIN q
  BY <1>3, <1>5
<1>8. \A j \in DOMAIN Tail(q) : Timely(Tail(q)[j], c)
  BY <1>6, <1>7
<1>9. ASSUME NEW j \in DOMAIN q
      PROVE  q[j] = Head(q) \/ \E m \in DOMAIN Tail(q) : Tail(q)[m] = q[j]
  <2>1. CASE j = 1
    BY <2>1, <1>4
  <2>2. CASE j # 1
    <3>1. j - 1 \in DOMAIN Tail(q) /\ (j - 1) + 1 = j
      BY <2>2, <1>5
    <3>2. Tail(q)[j - 1] = q[j]
      BY <3>1, <1>7
    <3> QED  BY <3>1, <3>2
  <2> QED  BY <2>1, <2>2
<1> QED  BY <1>2, <1>4, <1>5, <1>6, <1>8, <1>9

\* A batch takes a result from its own channel.
LEMMA CollectsBatchOK ==
  ASSUME ParsingInv, NEW c \in Client, CollectsBatch(c)
  PROVE  ParsingInv'
<1>1. /\ call[c].at = "collect" /\ call[c].op = "batch" /\ call[c].out > 0 /\ call[c].box # <<>>
      /\ Goes(c, [Collected(c, Head(call[c].box)) EXCEPT !.box = Tail(@)])
      /\ UNCHANGED <<cacheVars, poolVars, plan, tickers, alive>>
  BY DEF CollectsBatch, At, Cached
<1>2. PICK i \in Nat : i = call[c].id
  BY CallIs
<1>3. call[c] \in CallType /\ ClientOK(c) /\ call[c].out \in Nat /\ Len(call[c].box) \in Nat
  BY CallIs
<1>4. PICK r \in ResultType : r = Head(call[c].box)
  BY <1>1, TakenFrom
<1>5. PICK q \in Seq(ResultType) : q = Tail(call[c].box)
  BY <1>1, TakenFrom
<1>6. /\ Timely(r, c) /\ Len(q) = Len(call[c].box) - 1
      /\ \A j \in DOMAIN q : Timely(q[j], c)
      /\ \A j \in DOMAIN call[c].box :
           call[c].box[j] = r \/ \E m \in DOMAIN q : q[m] = call[c].box[j]
  BY <1>1, <1>4, <1>5, TakenFrom
<1>7. PICK h : h = Collected(c, r)
  OBVIOUS
<1>8. /\ h \in CallType /\ h.op = call[c].op /\ h.at = call[c].at /\ h.ask = call[c].ask
      /\ h.since = call[c].since /\ h.rest = call[c].rest /\ h.store = call[c].store
      /\ h.out = call[c].out - 1 /\ h.box = call[c].box /\ h.in = call[c].in /\ h.id = call[c].id
      /\ h.stale = call[c].stale /\ (h.failed <=> call[c].failed \/ ~r.ok)
      /\ h.got = IF r.ok THEN With(call[c].got, r.of, r.text) ELSE call[c].got
  BY <1>1, <1>3, <1>7, CollectedIs
<1> DEFINE k == [h EXCEPT !.box = q]
<1>9. /\ k \in CallType /\ k.op = h.op /\ k.at = h.at /\ k.ask = h.ask
      /\ k.since = h.since /\ k.rest = h.rest /\ k.store = h.store
      /\ k.out = h.out /\ k.box = q /\ k.in = h.in /\ k.id = h.id
      /\ k.stale = h.stale /\ (k.failed <=> h.failed) /\ k.got = h.got
  BY <1>8 DEF CallType
<1>10. Goes(c, k)
  BY <1>1, <1>4, <1>5, <1>7, <1>8
<1> HIDE DEF k
<1>11. call'[c] = k /\ PoolMoves
  BY <1>1, <1>10, GoesThere, PoolRests
<1>12. /\ DOMAIN k.got = DOMAIN call[c].got \cup (IF r.ok THEN {r.of} ELSE {})
       /\ \A s \in DOMAIN k.got :
            (s \in DOMAIN call[c].got /\ k.got[s] = call[c].got[s]) \/ (r.ok /\ s = r.of /\ k.got[s] = r.text)
  <2>1. call[c].got \in Partial(Source, Version) /\ r.of \in Source /\ r.text \in Version
    BY <1>3 DEF CallType, ResultType
  <2>2. CASE r.ok
    <3>1. k.got = With(call[c].got, r.of, r.text)
      BY <2>2, <1>8, <1>9
    <3>2. /\ DOMAIN k.got = DOMAIN call[c].got \cup {r.of} /\ k.got[r.of] = r.text
          /\ \A x \in DOMAIN call[c].got : x # r.of => k.got[x] = call[c].got[x]
      <4>1. PICK got \in Partial(Source, Version) : got = call[c].got
        BY <2>1
      <4>2. PICK of \in Source : of = r.of
        BY <2>1
      <4>3. PICK text \in Version : text = r.text
        BY <2>1
      <4>4. /\ DOMAIN With(got, of, text) = DOMAIN got \cup {of} /\ With(got, of, text)[of] = text
            /\ \A x \in DOMAIN got : x # of => With(got, of, text)[x] = got[x]
        BY WithIs
      <4>5. k.got = With(got, of, text)
        BY <3>1, <4>1, <4>2, <4>3
      <4> QED  BY <4>1, <4>2, <4>3, <4>4, <4>5
    <3> QED  BY <3>2, <2>2
  <2>3. CASE ~r.ok
    BY <2>3, <1>8, <1>9
  <2> QED  BY <2>2, <2>3
<1>13. AskOK(c)'
  <2>1. /\ call'[c].since \in [call'[c].ask -> Version]
        /\ \A x \in call'[c].ask : call'[c].since[x] <= file'[x]
    BY <1>1, <1>8, <1>9, <1>11, CacheStays, SinceIs
  <2>2. call[c].ask = DOMAIN call[c].got \cup call[c].store /\ r.of \in call[c].ask
    BY <1>1, <1>3, <1>6 DEF ClientOK, AskOK, In, Timely
  <2>3. k.ask = DOMAIN k.got \cup k.store
    BY <2>2, <1>8, <1>9, <1>12
  <2> QED  BY <2>1, <2>3, <1>1, <1>8, <1>9, <1>11 DEF AskOK, In, Fetches
<1>14. GotOK(c)'
  <2>1. /\ DOMAIN call[c].got \subseteq call[c].ask /\ r.of \in call[c].ask
        /\ \A s \in DOMAIN call[c].got : call[c].got[s] >= call[c].since[s] \/ s \in call[c].stale
        /\ r.ok => r.text >= call[c].since[r.of]
    BY <1>1, <1>3, <1>6 DEF ClientOK, GotOK, Fetches, Timely
  <2>2. DOMAIN k.got \subseteq k.ask
    BY <2>1, <1>8, <1>9, <1>12
  <2>3. \A s \in DOMAIN k.got : k.got[s] >= k.since[s] \/ s \in k.stale
    BY <2>1, <1>8, <1>9, <1>12
  <2> QED  BY <2>2, <2>3, <1>11 DEF GotOK, Fetches
<1>15. TasksOK(c)'
  <2>1. call[c].in <= generation'
    BY <1>1, <1>3 DEF ClientOK, TasksOK, poolVars
  <2>2. FewerQueued(c) /\ StillWork(c)
    BY <1>11, <1>2 DEF PoolMoves, PoolKeeps
  <2> QED  BY <2>1, <2>2, <1>1, <1>2, <1>6, <1>8, <1>9, <1>11, TasksStay
<1>16. CountOK(c)'
  <2>1. Counted(call[c], generation, chan[generation].done, Flying(c, i), Carried(c, i))
    BY <1>2, <1>3, CountNow DEF ClientOK
  <2>2. PICK flying \in Nat : flying = Flying(c, i)
    BY FlyingFinite
  <2>3. PICK carried : carried = Carried(c, i)
    OBVIOUS
  <2>4. PICK long \in Nat : long = Len(call[c].box)
    BY <1>3
  <2>5. Len(k.box) = long - 1 /\ k.out = call[c].out - 1
    BY <2>4, <1>6, <1>8, <1>9
  <2>6. /\ flying + Len(k.box) <= k.out <=> flying + long <= call[c].out
        /\ flying + Len(k.box) = k.out <=> flying + long = call[c].out
    <3>1. PICK m \in Nat : m = call[c].out
      BY <1>3
    <3>2. \A a, b, d \in Nat : /\ (a + (b - 1) <= d - 1) <=> (a + b <= d)
                              /\ (a + (b - 1) = d - 1) <=> (a + b = d)
      OBVIOUS
    <3>3. /\ (flying + (long - 1) <= m - 1) <=> (flying + long <= m)
          /\ (flying + (long - 1) = m - 1) <=> (flying + long = m)
      BY <3>2
    <3> QED  BY <2>5, <3>1, <3>3
  <2>7. Counted(call[c], generation, chan[generation].done, flying, carried)
    BY <2>1, <2>2, <2>3
  <2>8. Counted(k, generation, chan[generation].done, flying, carried)
    <3>1. ASSUME flying + Len(k.box) = k.out, NEW x \in k.store
          PROVE  \/ x \in DOMAIN k.got \/ k.failed
                 \/ x \in carried \/ \E j \in DOMAIN k.box : k.box[j].of = x
      <4>1. x \in call[c].store /\ flying + Len(call[c].box) = call[c].out
        BY <3>1, <2>4, <2>6, <1>8, <1>9
      <4>2. \/ x \in DOMAIN call[c].got \/ call[c].failed
            \/ x \in carried \/ \E j \in DOMAIN call[c].box : call[c].box[j].of = x
        BY <4>1, <2>7, <1>1 DEF Counted
      <4>3. CASE \E j \in DOMAIN call[c].box : call[c].box[j].of = x
        <5>1. PICK j \in DOMAIN call[c].box : call[c].box[j].of = x
          BY <4>3
        <5>2. r.of = x \/ \E m \in DOMAIN q : q[m].of = x
          BY <5>1, <1>6
        <5> QED  BY <5>2, <1>8, <1>9, <1>12
      <4> QED  BY <4>2, <4>3, <1>8, <1>9, <1>12
    <3>2. flying + Len(k.box) <= k.out
      BY <2>4, <2>6, <2>7 DEF Counted
    <3>3. k.in = generation /\ ~chan[generation].done => flying + Len(k.box) = k.out
      BY <2>4, <2>6, <2>7, <1>1, <1>8, <1>9 DEF Counted
    <3>4. k.at = "collect"
      BY <1>1, <1>8, <1>9
    <3> QED  BY <3>1, <3>2, <3>3, <3>4 DEF Counted
  <2>9. Flying(c, i)' = flying /\ Carried(c, i)' = carried /\ generation' = generation /\ chan' = chan
    BY <2>2, <2>3, <1>1, <1>2, <1>11 DEF PoolMoves, PoolKeeps, SameFlight, poolVars
  <2>10. Counted(call'[c], generation', chan'[generation'].done, Flying(c, i)', Carried(c, i)')
    BY <2>8, <2>9, <1>11
  <2> QED  BY <2>10, <1>2, <1>8, <1>9, <1>11, CountThen
<1>17. PoolInv' /\ NoneRevived /\ \A d \in Client \ {c} : \A j \in Nat : PoolKeeps(d, j)
  BY <1>11 DEF PoolMoves
<1> QED  BY <1>1, <1>8, <1>9, <1>10, <1>13, <1>14, <1>15, <1>16, <1>17, WithPool

\* A result is taken from the shared queue, whosever it is.
LEMMA CollectsParallelOK ==
  ASSUME ParsingInv, NEW c \in Client, CollectsParallel(c)
  PROVE  ParsingInv'
<1>1. CASE Panics
  BY <1>1, PanicsOK
<1>2. CASE TakeShared /\ Goes(c, Collected(c, Head(Current.results))) /\ Cached
  <2>1. /\ call[c].at = "collect" /\ call[c].op = "parallel" /\ call[c].out > 0
        /\ UNCHANGED <<cacheVars, plan, tickers, alive>>
    BY <1>2 DEF CollectsParallel, At, Cached
  <2>2. PICK i \in Nat : i = call[c].id
    BY CallIs
  <2>3. call[c] \in CallType /\ ClientOK(c) /\ call[c].out \in Nat /\ PoolInv
    BY CallIs
  <2>4. PoolMoves /\ Head(Current.results) \in ResultType
    BY <1>2, <2>3, TakeSharedOK
  <2>5. PICK r \in ResultType : r = Head(Current.results)
    BY <2>4
  <2>6. PICK k : k = Collected(c, r)
    OBVIOUS
  <2>7. /\ k \in CallType /\ k.op = call[c].op /\ k.at = call[c].at /\ k.ask = call[c].ask
        /\ k.since = call[c].since /\ k.out = call[c].out - 1 /\ k.box = call[c].box /\ k.in = call[c].in
        /\ k.id = call[c].id
    BY <2>1, <2>3, <2>6, CollectedIs
  <2>8. Goes(c, k) /\ call'[c] = k
    BY <1>2, <2>5, <2>6, GoesThere
  <2>9. AskOK(c)'
    <3>1. /\ call'[c].since \in [call'[c].ask -> Version]
          /\ \A x \in call'[c].ask : call'[c].since[x] <= file'[x]
      BY <2>1, <2>7, <2>8, CacheStays, SinceIs
    <3> QED  BY <3>1, <2>1, <2>7, <2>8 DEF AskOK, In, Fetches
  <2>10. GotOK(c)'
    BY <2>1, <2>7, <2>8 DEF GotOK, Fetches
  <2>11. TasksOK(c)'
    BY <2>1, <2>4, <2>7, <2>8, OwnTasks
  <2>12. CountOK(c)'
    <3>1. Flying(c, i) = 0 /\ Len(call[c].box) = 0
      BY <2>1, <2>2, NoneOfOthers
    <3>2. Flying(c, i)' = 0
      BY <3>1, <2>2, <2>4 DEF PoolMoves, PoolKeeps, SameFlight
    <3>3. k.out \in Nat
      BY <2>7 DEF CallType
    <3>4. Counted(k, generation', chan'[generation'].done, Flying(c, i)', Carried(c, i)')
      BY <3>1, <3>2, <3>3, <2>1, <2>7 DEF Counted
    <3> QED  BY <3>4, <2>2, <2>7, <2>8, CountThen
  <2>13. PoolInv' /\ NoneRevived /\ \A d \in Client \ {c} : \A j \in Nat : PoolKeeps(d, j)
    BY <2>4 DEF PoolMoves
  <2> QED  BY <2>1, <2>7, <2>8, <2>9, <2>10, <2>11, <2>12, <2>13, WithPool
<1> QED  BY <1>1, <1>2 DEF CollectsParallel

\* The steps of a worker before its reply.
LEMMA WorksOK ==
  ASSUME ParsingInv, NEW w \in Worker, UNCHANGED call, Cached,
         \/ Loops(w) \/ Takes(w) \/ Exits(w) \/ Shares(w)
         \/ Parses(w, file[worker[w].task.of])
  PROVE  ParsingInv'
<1>1. /\ PoolInv /\ file \in [Source -> Version] /\ plan \in Workload
      /\ tickers \in BOOLEAN /\ alive \in BOOLEAN
  BY CallIs DEF ParsingInv, CacheInv, CacheTyped, CallsTyped
<1>2. PoolMoves
  BY <1>1, LoopsOK, TakesOK, ExitsOK, SharesOK, ParsesOK
<1>3. UNCHANGED <<cacheVars, plan, tickers, alive>>
  BY DEF Cached
<1> QED  BY <1>1, <1>2, <1>3, CacheStays, NobodyMoves

\* A result that leaves its worker is of a call, or of nobody any more.
LEMMA ForNobody ==
  ASSUME ParsingInv, NEW w \in Worker, Replies(w), UNCHANGED call, Cached, worker[w].task.for \notin Client
  PROVE  ParsingInv'
<1>1. PoolInv /\ plan \in Workload /\ tickers \in BOOLEAN /\ alive \in BOOLEAN
  BY DEF ParsingInv, CallsTyped
<1>2. /\ PoolInv' /\ NoneRevived
      /\ \A c : StillWork(c) /\ FewerQueued(c)
      /\ \A c, i : worker[w].task.for # c \/ worker[w].task.id # i => SameFlight(c, i)
  BY <1>1, RepliesOK
<1>3. PoolMoves
  BY <1>2 DEF PoolMoves, PoolKeeps
<1>4. UNCHANGED <<cacheVars, plan, tickers, alive>>
  BY DEF Cached
<1> QED  BY <1>1, <1>3, <1>4, CacheStays, NobodyMoves

\* What the call of the result was and is, but for its channel.
LEMMA ForOne ==
  ASSUME ParsingInv, NEW w \in Worker, Replies(w), Cached, NEW c \in Client, c = worker[w].task.for,
         NEW k \in CallType, Goes(c, k), k.op = call[c].op, k.at = call[c].at, k.ask = call[c].ask,
         k.since = call[c].since, k.todo = call[c].todo, k.rest = call[c].rest, k.store = call[c].store,
         k.got = call[c].got, k.key = call[c].key, k.mtime = call[c].mtime, k.out = call[c].out,
         k.in = call[c].in, k.id = call[c].id, k.failed = call[c].failed, k.stale = call[c].stale,
         k = call[c] \/ call[c].at # "idle",
         \A j \in DOMAIN k.box : call[c].op = "batch" /\ Timely(k.box[j], c),
         CountOK(c)'
  PROVE  ParsingInv'
<1>1. /\ call[c] \in CallType /\ ClientOK(c) /\ PoolInv /\ file \in [Source -> Version] /\ call[c].id \in Nat
      /\ plan \in Workload /\ tickers \in BOOLEAN /\ alive \in BOOLEAN
  BY CallIs
<1>2. /\ PoolInv' /\ NoneRevived /\ UNCHANGED <<generation, chan>>
      /\ \A d : StillWork(d) /\ FewerQueued(d)
      /\ \A d, i : worker[w].task.for # d \/ worker[w].task.id # i => SameFlight(d, i)
  BY <1>1, RepliesOK
<1>3. UNCHANGED <<cacheVars, plan, tickers, alive>>
  BY DEF Cached
<1>4. call'[c] = k /\ CacheMoves /\ mu' = mu /\ file' = file /\ entries' = entries
  BY <1>3, CacheStays, GoesThere DEF cacheVars
<1>5. \A d \in Client \ {c} : \A i \in Nat : PoolKeeps(d, i)
  BY <1>2 DEF PoolKeeps
<1>6. SettingOK(c)'
  BY <1>1, <1>3, <1>4 DEF ClientOK, SettingOK, In, Blank
<1>7. AskOK(c)'
  <2>1. /\ call'[c].since \in [call'[c].ask -> Version]
        /\ \A x \in call'[c].ask : call'[c].since[x] <= file'[x]
    BY <1>4, SinceIs
  <2>2. /\ call'[c].op = call[c].op /\ call'[c].at = call[c].at /\ call'[c].ask = call[c].ask
        /\ call'[c].todo = call[c].todo /\ call'[c].rest = call[c].rest /\ call'[c].store = call[c].store
        /\ call'[c].got = call[c].got /\ call'[c].key = call[c].key /\ call'[c].failed = call[c].failed
    BY <1>4
  <2>3. AskOK(c) /\ (call'[c].at = "idle" => call'[c] = Idle)
    BY <1>1, <1>4, ZenonT(60) DEF ClientOK, AskOK, In
  <2> QED  BY ONLY <2>1, <2>2, <2>3 DEF AskOK, In, Fetches
<1>8. GotOK(c)'
  BY <1>1, <1>4 DEF ClientOK, GotOK, Fetches
<1>9. TasksOK(c)'
  <2>1. PICK i \in Nat : i = call[c].id
    BY <1>1
  <2>2. call'[c].in <= generation'
    BY <1>1, <1>2, <1>4 DEF ClientOK, TasksOK
  <2>3. FewerQueued(c) /\ StillWork(c)
    BY <1>2
  <2> QED  BY <2>1, <2>2, <2>3, <1>3, <1>4, TasksStay
<1>10. ClientOK(c)'
  BY <1>6, <1>7, <1>8, <1>9 DEF ClientOK
<1> QED  BY <1>1, <1>2, <1>3, <1>4, <1>5, <1>10, OneMoves

\* What is known of a result that is for a call that waits.
LEMMA ResultIs ==
  ASSUME ParsingInv, NEW w \in Worker, Replies(w), NEW c \in Client, c = worker[w].task.for,
         call[c].id = worker[w].task.id
  PROVE  /\ worker[w].result \in ResultType /\ worker[w].result.of = worker[w].task.of
         /\ Timely(worker[w].result, c) /\ call[c].op = "batch" /\ call[c].at # "idle"
<1>1. /\ call[c] \in CallType /\ ClientOK(c) /\ PoolInv /\ Len(plan.calls[c]) \in Nat
  BY CallIs
<1>2. worker[w].at = "reply" /\ Busy(w)
  BY DEF Replies, Busy
<1>3. worker[w].result \in ResultType /\ worker[w].result.of = worker[w].task.of
  BY <1>1, <1>2 DEF PoolInv
<1>4. /\ worker[w].task.id > Len(plan.calls[c])
      /\ call[c].op = "batch" /\ Timely(worker[w].result, c)
  BY <1>1, <1>2 DEF ClientOK, TasksOK
<1>5. call[c].at # "idle"
  <2>1. call[c].at = "idle" => call[c].id = 0
    BY <1>1, IdleIs DEF ClientOK, AskOK, In
  <2> QED  BY <2>1, <1>1, <1>4
<1> QED  BY <1>3, <1>4, <1>5

\* A result reaches its call: it leaves the worker and is in the channel.
LEMMA DeliversOK ==
  ASSUME ParsingInv, NEW w \in Worker, Replies(w), Cached, NEW c \in Client, c = worker[w].task.for,
         call[c].id = worker[w].task.id, Goes(c, [call[c] EXCEPT !.box = Append(@, worker[w].result)])
  PROVE  ParsingInv'
<1>1. /\ call[c] \in CallType /\ ClientOK(c) /\ PoolInv /\ call[c].out \in Nat /\ Len(call[c].box) \in Nat
  BY CallIs
<1>2. PICK i \in Nat : i = call[c].id
  BY CallIs
<1>3. PICK r \in ResultType : r = worker[w].result
  BY ResultIs
<1>4. r.of = worker[w].task.of /\ Timely(r, c) /\ call[c].op = "batch" /\ call[c].at # "idle"
  BY <1>3, ResultIs
<1>5. PICK box \in Seq(ResultType) : box = call[c].box
  BY <1>1 DEF CallType
<1> DEFINE q == Append(box, r)
           k == [call[c] EXCEPT !.box = q]
<1>6. /\ q \in Seq(ResultType) /\ Len(q) = Len(box) + 1 /\ DOMAIN q = 1..(Len(box) + 1) /\ DOMAIN box = 1..Len(box)
      /\ q[Len(box) + 1] = r /\ \A j \in DOMAIN box : q[j] = box[j]
  <2>1. /\ q \in Seq(ResultType) /\ Len(q) = Len(box) + 1 /\ q[Len(box) + 1] = r
        /\ \A j \in 1..Len(box) : q[j] = box[j]
    BY AppendIs
  <2> QED  BY <2>1
<1> HIDE DEF q
<1>7. /\ k \in CallType /\ k.op = call[c].op /\ k.at = call[c].at /\ k.ask = call[c].ask
      /\ k.since = call[c].since /\ k.todo = call[c].todo /\ k.rest = call[c].rest /\ k.store = call[c].store
      /\ k.got = call[c].got /\ k.key = call[c].key /\ k.mtime = call[c].mtime /\ k.out = call[c].out
      /\ k.in = call[c].in /\ k.id = call[c].id /\ k.failed = call[c].failed /\ k.stale = call[c].stale
      /\ k.box = q
  BY <1>1, <1>6 DEF CallType
<1>8. Goes(c, k)
  BY <1>3, <1>5 DEF q
<1> HIDE DEF k
<1>9. call'[c] = k
  BY <1>8, GoesThere
<1>10. /\ UNCHANGED <<generation, chan>>
       /\ Flying(c, i)' = Flying(c, i) - 1
       /\ Carried(c, i) = Carried(c, i)' \cup {worker[w].task.of}
  BY <1>1, <1>2, RepliesOK, SMTT(30)
<1>11. \A j \in DOMAIN k.box : call[c].op = "batch" /\ Timely(k.box[j], c)
  <2>1. \A j \in DOMAIN box : Timely(box[j], c)
    BY <1>1, <1>5 DEF ClientOK, TasksOK
  <2>2. \A j \in DOMAIN q : j \in DOMAIN box \/ j = Len(box) + 1
    BY <1>6
  <2> QED  BY <2>1, <2>2, <1>4, <1>6, <1>7
<1>12. CountOK(c)'
  <2>1. Counted(call[c], generation, chan[generation].done, Flying(c, i), Carried(c, i))
    BY <1>1, <1>2, CountNow DEF ClientOK
  <2>2. PICK flying \in Nat : flying = Flying(c, i)
    BY FlyingFinite
  <2>3. PICK carried : carried = Carried(c, i)'
    OBVIOUS
  <2>4. PICK long \in Nat : long = Len(box)
    BY <1>1, <1>5
  <2>5. Len(k.box) = long + 1 /\ k.out = call[c].out
    BY <2>4, <1>6, <1>7
  <2>6. (flying - 1) + Len(k.box) = flying + long
    <3>1. \A a, b \in Nat : (a - 1) + (b + 1) = a + b
      OBVIOUS
    <3> QED  BY <3>1, <2>2, <2>4, <2>5, SMTT(30)
  <2>7. Counted(call[c], generation, chan[generation].done, flying, carried \cup {r.of})
    BY <2>1, <2>2, <2>3, <1>4, <1>10
  <2>8. Counted(k, generation, chan[generation].done, flying - 1, carried)
    <3>1. ASSUME k.at \in {"submit", "collect"} /\ k.op = "batch", (flying - 1) + Len(k.box) = k.out, NEW x \in k.store
          PROVE  \/ x \in DOMAIN k.got \/ k.failed
                 \/ x \in carried \/ \E j \in DOMAIN k.box : k.box[j].of = x
      <4>1. x \in call[c].store /\ flying + Len(call[c].box) = call[c].out
        BY <3>1, <2>4, <2>5, <2>6, <1>5, <1>7
      <4>2. \/ x \in DOMAIN call[c].got \/ call[c].failed
            \/ x \in carried \cup {r.of} \/ \E j \in DOMAIN call[c].box : call[c].box[j].of = x
        BY <4>1, <3>1, <2>7, <1>7 DEF Counted
      <4>3. CASE x = r.of
        <5>1. DOMAIN q = 1..(long + 1) /\ q[long + 1] = r
          BY <2>4, <1>6
        <5>2. long + 1 \in DOMAIN q /\ q[long + 1].of = x
          BY <4>3, <5>1
        <5> QED  BY <5>2, <1>7
      <4>4. CASE \E j \in DOMAIN call[c].box : call[c].box[j].of = x
        <5>1. PICK j \in DOMAIN box : box[j].of = x
          BY <4>4, <1>5
        <5>2. j \in DOMAIN k.box /\ k.box[j].of = x
          BY <5>1, <2>4, <1>6, <1>7, SMTT(30)
        <5> QED  BY <5>2
      <4> QED  BY <4>2, <4>3, <4>4, <1>7
    <3>2. (flying - 1) + Len(k.box) <= k.out
      BY <2>4, <2>5, <2>6, <2>7, <1>5 DEF Counted
    <3>3. k.at \in {"lookup", "touch", "healthy", "start"} => k.out = 0 /\ k.store = {}
      BY <2>7, <1>7 DEF Counted
    <3>4. k.at \in {"submit", "collect"} /\ k.op = "batch" /\ k.in = generation /\ ~chan[generation].done =>
            (flying - 1) + Len(k.box) = k.out
      BY <2>4, <2>5, <2>6, <2>7, <1>5, <1>7 DEF Counted
    <3> QED  BY <3>1, <3>2, <3>3, <3>4 DEF Counted
  <2>9. Counted(call'[c], generation', chan'[generation'].done, Flying(c, i)', Carried(c, i)')
    BY <2>2, <2>3, <2>8, <1>9, <1>10
  <2> QED  BY <2>9, <1>2, <1>7, <1>9, CountThen
<1> QED  BY <1>4, <1>7, <1>8, <1>11, <1>12, ForOne

\* A result that is dropped, because the pool is cancelled or the call is over.
LEMMA DropsOK ==
  ASSUME ParsingInv, NEW w \in Worker, Replies(w), Cached, UNCHANGED call, NEW c \in Client,
         c = worker[w].task.for, call[c].id = worker[w].task.id => chan[generation].done
  PROVE  ParsingInv'
<1>1. /\ call \in [Client -> CallType] /\ call[c] \in CallType /\ ClientOK(c) /\ PoolInv
      /\ call[c].out \in Nat /\ Len(call[c].box) \in Nat
  BY CallIs
<1>2. PICK i \in Nat : i = call[c].id
  BY CallIs
<1>3. PICK k \in CallType : k = call[c]
  BY <1>1
<1>4. Goes(c, k) /\ call'[c] = k
  BY <1>1, <1>3 DEF Goes
<1>5. /\ UNCHANGED <<generation, chan>>
      /\ \A d, j : worker[w].task.for # d \/ worker[w].task.id # j => SameFlight(d, j)
      /\ i = worker[w].task.id => /\ Flying(c, i)' = Flying(c, i) - 1
                                  /\ Carried(c, i) = Carried(c, i)' \cup {worker[w].task.of}
  BY <1>1, RepliesOK
<1>6. CountOK(c)'
  <2>1. Counted(call[c], generation, chan[generation].done, Flying(c, i), Carried(c, i))
    BY <1>1, <1>2, CountNow DEF ClientOK
  <2>2. PICK flying \in Nat : flying = Flying(c, i)
    BY FlyingFinite
  <2>3. PICK carried : carried = Carried(c, i)'
    OBVIOUS
  <2>4. CASE i = worker[w].task.id
    <3>1. chan[generation].done
      BY <2>4, <1>2
    <3>2. flying + Len(k.box) <= k.out /\ k.out \in Nat /\ Len(k.box) \in Nat
      BY <2>1, <2>2, <1>1, <1>3 DEF Counted
    <3>3. (flying - 1) + Len(k.box) < k.out
      <4>1. \A a, b, d \in Nat : a + b <= d => (a - 1) + b < d
        OBVIOUS
      <4> QED  BY <4>1, <3>2, <2>2
    <3>4. (flying - 1) + Len(k.box) <= k.out /\ (flying - 1) + Len(k.box) # k.out
      <4>1. \A a, b, d \in Nat : (a - 1) + b < d => (a - 1) + b <= d /\ (a - 1) + b # d
        OBVIOUS
      <4> QED  BY <4>1, <3>2, <3>3, <2>2
    <3>5. k.at \in {"lookup", "touch", "healthy", "start"} => k.out = 0 /\ k.store = {}
      BY <2>1, <1>3 DEF Counted
    <3>6. Counted(k, generation, chan[generation].done, flying - 1, carried)
      BY <3>1, <3>4, <3>5 DEF Counted
    <3>7. Counted(call'[c], generation', chan'[generation'].done, Flying(c, i)', Carried(c, i)')
      BY <3>6, <2>2, <2>3, <2>4, <1>4, <1>5
    <3> QED  BY <3>7, <1>2, <1>3, <1>4, CountThen
  <2>5. CASE i # worker[w].task.id
    <3>1. Flying(c, i)' = Flying(c, i) /\ Carried(c, i)' = Carried(c, i)
      BY <2>5, <1>5 DEF SameFlight
    <3>2. Counted(call'[c], generation', chan'[generation'].done, Flying(c, i)', Carried(c, i)')
      BY <3>1, <2>1, <1>3, <1>4, <1>5
    <3> QED  BY <3>2, <1>2, <1>3, <1>4, CountThen
  <2> QED  BY <2>4, <2>5
<1>7. \A j \in DOMAIN k.box : call[c].op = "batch" /\ Timely(k.box[j], c)
  BY <1>1, <1>3 DEF ClientOK, TasksOK
<1> QED  BY <1>3, <1>4, <1>6, <1>7, ForOne

\* Every step of a worker keeps the invariant.
LEMMA WorkerKeeps ==
  ASSUME ParsingInv, NEW w \in Worker, WorkerStep(w)
  PROVE  ParsingInv'
<1>1. Cached
  BY DEF WorkerStep
<1>2. CASE (Loops(w) \/ Takes(w) \/ Exits(w) \/ Shares(w)) /\ UNCHANGED call
  BY <1>1, <1>2, WorksOK
<1>3. CASE Parses(w, file[worker[w].task.of]) /\ UNCHANGED call
  BY <1>1, <1>3, WorksOK
<1>4. CASE Replies(w)
  <2>1. PICK c : c = worker[w].task.for
    OBVIOUS
  <2>2. CASE ~(Loops(w) \/ Takes(w) \/ Exits(w) \/ Shares(w)) /\ worker[w].at # "parse"
    <3>1. \/ Delivers(w, c) /\ Goes(c, [call[c] EXCEPT !.box = Append(@, worker[w].result)])
          \/ UNCHANGED call /\ (Delivers(w, c) => Current.done)
      BY <2>1, <2>2 DEF WorkerStep
    <3>2. CASE c \notin Client
      <4>1. c = NoClient
        <5>1. PoolInv /\ Busy(w)
          BY <1>4 DEF ParsingInv, Replies, Busy
        <5> QED  BY <5>1, <3>2, <2>1 DEF PoolInv, TaskType
      <4>2. UNCHANGED call
        BY <3>1, <4>1 DEF Delivers
      <4> QED  BY <4>2, <3>2, <2>1, <1>1, <1>4, ForNobody
    <3>3. CASE c \in Client
      <4>1. c # NoClient
        BY <3>3, CacheAssumption
      <4>2. CASE Delivers(w, c) /\ Goes(c, [call[c] EXCEPT !.box = Append(@, worker[w].result)])
        BY <4>2, <3>3, <2>1, <1>1, <1>4, DeliversOK DEF Delivers
      <4>3. CASE UNCHANGED call /\ (Delivers(w, c) => Current.done)
        BY <4>1, <4>3, <3>3, <2>1, <1>1, <1>4, DropsOK DEF Delivers, Current
      <4> QED  BY <4>2, <4>3, <3>1
    <3> QED  BY <3>2, <3>3
  <2>3. worker[w].at = "reply"
    BY <1>4 DEF Replies
  <2>4. ~(Loops(w) \/ Takes(w) \/ Exits(w) \/ Shares(w)) /\ worker[w].at # "parse"
    BY <2>3 DEF Loops, Takes, Exits, Shares
  <2> QED  BY <2>2, <2>4
<1> QED  BY <1>2, <1>3, <1>4 DEF WorkerStep

\* The steps of nobody's call: the background routines of the cache and the
\* world.
LEMMA CacheRunsOK ==
  ASSUME ParsingInv, CacheMoves /\ mu' = mu, UNCHANGED <<poolVars, call, tickers, alive>>,
         plan' \in Workload /\ plan'.text = plan.text /\ plan'.calls = plan.calls
  PROVE  ParsingInv'
<1>1. tickers' \in BOOLEAN /\ alive' \in BOOLEAN
  BY DEF ParsingInv, CallsTyped
<1>2. PoolMoves
  BY PoolRests
<1> QED  BY <1>1, <1>2, NobodyMoves

\* The background delete, the cleanup and the persistence.
LEMMA RoutinesOK ==
  ASSUME ParsingInv, DeleteStep \/ CleanupStep \/ PersistStep
  PROVE  ParsingInv'
<1>1. CacheInv /\ plan \in Workload
  BY DEF ParsingInv, CallsTyped
<1>2. CacheMoves /\ mu' = mu
  BY <1>1, BackgroundDeleteOK, CleanupOK, PersistOK DEF DeleteStep, CleanupStep, PersistStep
<1>3. UNCHANGED <<poolVars, call, plan, tickers, alive>>
  BY DEF DeleteStep, CleanupStep, PersistStep
<1> QED  BY <1>1, <1>2, <1>3, CacheRunsOK

\* A file changes, an entry grows old.
LEMMA WorldOK ==
  ASSUME ParsingInv, FileChanges \/ EntryExpires
  PROVE  ParsingInv'
<1>1. CacheInv /\ plan \in Workload
  BY DEF ParsingInv, CallsTyped
<1>2. CacheMoves /\ mu' = mu
  BY <1>1, RewriteOK, ExpireOK DEF FileChanges, EntryExpires
<1>3. plan' \in Workload /\ plan'.text = plan.text /\ plan'.calls = plan.calls
  BY <1>1, PlanGoesOn DEF FileChanges, EntryExpires
<1>4. UNCHANGED <<poolVars, call, tickers, alive>>
  BY DEF FileChanges, EntryExpires
<1> QED  BY <1>2, <1>3, <1>4, CacheRunsOK

\* The process is killed.
LEMMA KilledOK ==
  ASSUME ParsingInv, Killed
  PROVE  ParsingInv'
<1>1. plan \in Workload /\ tickers' \in BOOLEAN /\ alive' \in BOOLEAN
  BY DEF ParsingInv, CallsTyped, Killed
<1>2. plan' \in Workload /\ plan'.text = plan.text /\ plan'.calls = plan.calls
  BY <1>1, PlanGoesOn DEF Killed
<1>3. CacheMoves /\ mu' = mu /\ PoolMoves /\ UNCHANGED call
  BY CacheStays, PoolRests DEF Killed
<1> QED  BY <1>1, <1>2, <1>3, NobodyMoves

-----------------------------------------------------------------------------
\* A pool that was never started.
NewPool == [g \in 0..MaxGenerations |-> [Fresh EXCEPT !.done = TRUE]]
\* Its queues are empty.
LEMMA NewPoolIs ==
  /\ NewPool \in [Gens -> ChanType] /\ \A g \in Gens : NewPool[g].tasks = <<>> /\ NewPool[g].results = <<>>
  /\ [w \in Worker |-> NotRunning] \in [Worker -> WorkerType]
<1>1. /\ [Fresh EXCEPT !.done = TRUE] \in ChanType
      /\ [Fresh EXCEPT !.done = TRUE].tasks = <<>> /\ [Fresh EXCEPT !.done = TRUE].results = <<>>
  <2>1. <<>> \in Seq(TaskType) /\ <<>> \in Seq(ResultType)
    OBVIOUS
  <2> QED  BY <2>1 DEF Fresh, ChanType
<1>2. NotRunning \in WorkerType
  BY NotRunningIs
<1> QED  BY <1>1, <1>2 DEF NewPool, Gens

\* Nobody calls and nothing runs: so it is at the beginning and after a restart.
Beginning ==
  /\ CacheInv /\ mu = NoClient /\ call = [c \in Client |-> Idle]
  /\ generation = 0 /\ started = FALSE /\ chan = NewPool /\ worker = [w \in Worker |-> NotRunning]
  /\ plan \in Workload /\ tickers \in BOOLEAN /\ alive \in BOOLEAN

\* A pool that was never started has no task.
LEMMA PoolBegins ==
  ASSUME Beginning
  PROVE  /\ PoolInv
         /\ \A g \in Gens : chan[g].tasks = <<>> /\ Len(chan[g].tasks) = 0 /\ ToSet(chan[g].tasks) = {}
         /\ \A w \in Worker : ~Busy(w)
<1>1. /\ generation = 0 /\ started = FALSE /\ chan = NewPool /\ worker = [w \in Worker |-> NotRunning]
  BY DEF Beginning
<1>2. ToSet(<<>>) = {} /\ Len(<<>>) = 0
  BY DEF ToSet
<1>3. \A g \in Gens : /\ chan[g].tasks = <<>> /\ chan[g].results = <<>>
                      /\ Len(chan[g].tasks) = 0 /\ Len(chan[g].results) = 0 /\ ToSet(chan[g].tasks) = {}
  BY <1>1, <1>2, NewPoolIs
<1>4. generation \in 0..MaxGenerations /\ started \in BOOLEAN /\ 0 <= QueueSize
  <2>1. MaxGenerations \in Nat /\ QueueSize \in Nat
    BY PoolAssumption
  <2>2. 0 \in 0..MaxGenerations /\ 0 <= QueueSize
    BY <2>1
  <2> QED  BY <2>2, <1>1
<1>5. PoolTyped
  BY <1>1, <1>4, NewPoolIs DEF PoolTyped, Gens
<1>6. \A w \in Worker : worker[w] = NotRunning /\ NotRunning.at = "none" /\ NotRunning.on = 0
  BY <1>1 DEF NotRunning
<1>7. \A w \in Worker : ~Busy(w)
  BY <1>6 DEF Busy
<1>8. PoolInv
  <2>1. \A g \in 0..MaxGenerations :
          /\ Len(chan[g].tasks) <= QueueSize /\ Len(chan[g].results) <= QueueSize
          /\ g > generation => chan[g].tasks = <<>>
    BY <1>3, <1>4 DEF Gens
  <2>2. \A w \in Worker :
          /\ worker[w].on <= generation
          /\ w[1] > generation => worker[w] = NotRunning
          /\ Busy(w) => worker[w].task \in TaskType
          /\ worker[w].at \in {"share", "reply"} =>
               worker[w].result \in ResultType /\ worker[w].result.of = worker[w].task.of
    BY <1>1, <1>6, <1>7
  <2> QED  BY <1>5, <2>1, <2>2 DEF PoolInv
<1> QED  BY <1>3, <1>7, <1>8

\* Nor does a client wait for one.
LEMMA ClientBegins ==
  ASSUME Beginning, NEW c \in Client
  PROVE  ClientOK(c)
<1>1. call[c] = Idle /\ mu # c /\ plan.calls[c] \in Seq(CallsAsked) /\ generation = 0
  BY CacheAssumption DEF Beginning, Workload
<1>2. SettingOK(c)
  BY <1>1, IdleIs DEF SettingOK, In
<1>3. AskOK(c)
  <2>1. <<>> \in [{} -> Version]
    OBVIOUS
  <2> QED  BY ONLY <2>1, <1>1, IdleIs DEF AskOK, In, Fetches
<1>4. GotOK(c)
  BY <1>1, IdleIs DEF GotOK, Fetches
<1>5. TasksOK(c)
  <2>1. DOMAIN call[c].box = {} /\ call[c].in <= generation /\ call[c].at = "idle"
    BY <1>1, IdleIs
  <2> QED  BY <2>1, PoolBegins DEF TasksOK, In, Gens
<1>6. CountOK(c)
  <2>1. PICK i \in Nat : i = call[c].id
    BY <1>1, IdleIs
  <2>2. Queued(c, i) = {}
    <3>1. SUFFICES ASSUME NEW p \in Queued(c, i)
                   PROVE  FALSE
      OBVIOUS
    <3>2. p[1] \in Gens /\ p[2] \in 1..QueueSize /\ p[2] <= Len(chan[p[1]].tasks)
      BY InQueued
    <3>3. Len(chan[p[1]].tasks) = 0
      BY <3>2, PoolBegins
    <3> QED  BY <3>2, <3>3
  <2>3. Handled(c, i) = {}
    BY PoolBegins DEF Handled
  <2>4. Flying(c, i) = 0
    <3>1. Cardinality(Queued(c, i)) = 0 /\ Cardinality(Handled(c, i)) = 0
      BY <2>2, <2>3, FS_EmptySet
    <3> QED  BY <3>1 DEF Flying
  <2>5. /\ Len(call[c].box) = 0 /\ call[c].out = 0 /\ call[c].store = {}
        /\ call[c].at \notin {"submit", "collect"}
    BY <1>1, IdleIs
  <2>6. Counted(call[c], generation, chan[generation].done, Flying(c, i), Carried(c, i))
    BY <2>4, <2>5 DEF Counted
  <2> QED  BY <2>1, <2>6, CountNow
<1> QED  BY <1>2, <1>3, <1>4, <1>5, <1>6 DEF ClientOK

\* The invariant holds of both.
LEMMA BeginningOK == Beginning => ParsingInv
<1> SUFFICES ASSUME Beginning
             PROVE  ParsingInv
  OBVIOUS
<1>1. CallsTyped
  BY IdleIs DEF Beginning, CallsTyped
<1> QED  BY <1>1, PoolBegins, ClientBegins DEF Beginning, ParsingInv

\* A new process begins, with the cache that was persisted.
LEMMA RestartsOK == ParsingInv /\ Restarts => ParsingInv'
<1>1. ParsingInv /\ Restarts => Beginning'
  <2>1. SUFFICES ASSUME ParsingInv, Restarts
                 PROVE  Beginning'
    OBVIOUS
  <2>2. CacheInv' /\ mu' = NoClient
    BY <2>1, LoadOK DEF ParsingInv, Restarts
  <2>3. plan' \in Workload /\ tickers' \in BOOLEAN /\ alive' \in BOOLEAN
    BY <2>1 DEF ParsingInv, CallsTyped, Restarts
  <2>4. /\ call' = [c \in Client |-> Idle] /\ generation' = 0 /\ started' = FALSE
        /\ chan' = NewPool /\ worker' = [w \in Worker |-> NotRunning]
    BY <2>1 DEF Restarts, NewPool
  <2> QED  BY <2>2, <2>3, <2>4 DEF Beginning
<1>2. Beginning' => ParsingInv'
  BY BeginningOK, PTL
<1> QED  BY <1>1, <1>2

\* The invariant holds initially.
LEMMA InitOK == Init => ParsingInv
<1>1. Init => Beginning
  <2>1. SUFFICES ASSUME Init
                 PROVE  Beginning
    OBVIOUS
  <2>2. CacheInv /\ mu = NoClient
    BY <2>1, CacheInitOK DEF Init
  <2>3. plan \in Workload
    BY <2>1, PlansAssumption DEF Init
  <2>4. /\ call = [c \in Client |-> Idle] /\ generation = 0 /\ started = FALSE
        /\ chan = NewPool /\ worker = [w \in Worker |-> NotRunning]
        /\ tickers \in BOOLEAN /\ alive \in BOOLEAN
    BY <2>1 DEF Init, PoolInit, NewPool
  <2> QED  BY <2>2, <2>3, <2>4 DEF Beginning
<1> QED  BY <1>1, BeginningOK

\* Every step of a call keeps the invariant.
LEMMA ClientKeeps ==
  ASSUME ParsingInv, NEW c \in Client, ClientStep(c)
  PROVE  ParsingInv'
<1>1. CASE Calls(c) \/ Returns(c) \/ LooksUp(c) \/ Touches(c) \/ ParsesItself(c)
  BY <1>1, CallsOK, ReturnsOK, LooksUpOK, TouchesOK, ParsesItselfOK
<1>2. CASE ChecksHealth(c) \/ StartsPool(c) \/ SubmitsBatch(c) \/ SubmitsParallel(c)
  BY <1>2, ChecksHealthOK, StartsPoolOK, SubmitsBatchOK, SubmitsParallelOK
<1>3. CASE CollectsBatch(c) \/ CollectsParallel(c) \/ BatchGivesUp(c) \/ CollectsLast(c)
  BY <1>3, CollectsBatchOK, CollectsParallelOK, BatchGivesUpOK, CollectsLastOK
<1>4. CASE StatsAgain(c) \/ Evicts(c) \/ Stores(c) \/ SetsFilePath(c) \/ Invalidates(c)
  BY <1>4, StatsAgainOK, EvictsOK, StoresOK, SetsFilePathOK, InvalidatesOK
<1>5. CASE \/ Stops(c) \/ CancelsPool(c) \/ ClosesQueue(c) \/ WorkersGone(c)
           \/ StopsTickers(c) \/ PersistsLast(c) \/ Clears(c)
  BY <1>5, StopsOK, CancelsPoolOK, StopsTickersOK, PersistsLastOK, ClearsOK
<1> QED  BY <1>1, <1>2, <1>3, <1>4, <1>5 DEF ClientStep

\* A document that is streamed touches none of it.
LEMMA StutterOK == ParsingInv /\ UNCHANGED vars => ParsingInv'
<1> SUFFICES ASSUME ParsingInv, UNCHANGED vars
             PROVE  ParsingInv'
  OBVIOUS
<1>1. /\ plan \in Workload /\ tickers \in BOOLEAN /\ alive \in BOOLEAN
      /\ UNCHANGED <<cacheVars, poolVars, call, plan, tickers, alive>>
  BY DEF ParsingInv, CallsTyped, vars
<1> QED  BY <1>1, CacheStays, PoolRests, NobodyMoves

\* Every step keeps the invariant.
LEMMA StepOK == ParsingInv /\ [Next]_<<vars, stream>> => ParsingInv'
<1> SUFFICES ASSUME ParsingInv, [Next]_<<vars, stream>>
             PROVE  ParsingInv'
  OBVIOUS
<1>1. CASE CallStep
  <2>1. ASSUME NEW c \in Client, ClientStep(c) \/ Cancels(c)
        PROVE  ParsingInv'
    BY <2>1, ClientKeeps, CancelsOK
  <2>2. ASSUME NEW w \in Worker, WorkerStep(w)
        PROVE  ParsingInv'
    BY <2>2, WorkerKeeps
  <2>3. CASE DeleteStep \/ CleanupStep \/ PersistStep
    BY <2>3, RoutinesOK
  <2>4. CASE FileChanges \/ EntryExpires
    BY <2>4, WorldOK
  <2>5. CASE Killed
    BY <2>5, KilledOK
  <2>6. CASE Restarts
    BY <2>6, RestartsOK
  <2>7. CASE Done
    BY <2>7, StutterOK DEF Done
  <2> QED  BY <1>1, <2>1, <2>2, <2>3, <2>4, <2>5, <2>6, <2>7 DEF CallStep
<1>2. CASE UNCHANGED vars
  BY <1>2, StutterOK
<1>3. UNCHANGED <<vars, stream>> => UNCHANGED vars
  OBVIOUS
<1> QED  BY <1>1, <1>2, <1>3 DEF Next

\* The cache, the pool and the calls of its users go together in every state.
THEOREM ParsingInvHolds == Spec => []ParsingInv
BY InitOK, StepOK, PTL DEF Spec

\* A batch that awaits its results from the generation that runs: its tasks in
\* all the queues are those in the current one.
LEMMA QueuedHere ==
  ASSUME ParsingInv, NEW c \in Client, NEW i \in Nat, i = call[c].id, call[c].in = generation
  PROVE  Cardinality(Queued(c, i)) = Cardinality({k \in DOMAIN Current.tasks : Mine(c, Current.tasks[k])})
<1> DEFINE here == {k \in DOMAIN Current.tasks : Mine(c, Current.tasks[k])}
           f == [k \in here |-> <<generation, k>>]
<1>1. /\ PoolInv /\ TasksOK(c) /\ generation \in Gens /\ chan \in [Gens -> ChanType]
      /\ \A g \in Gens : chan[g].tasks \in Seq(TaskType) /\ Len(chan[g].tasks) \in Nat /\ Len(chan[g].tasks) <= QueueSize
  BY CallIs, PoolIs DEF ClientOK
<1>2. /\ QueueSize \in Nat /\ \A g \in Gens : g \in Nat
      /\ \A g \in Gens : g > generation => chan[g].tasks = <<>>
  BY <1>1, PoolAssumption DEF PoolInv, Gens
<1>3. DOMAIN Current.tasks = 1..Len(chan[generation].tasks)
  BY <1>1 DEF Current
<1>4. ASSUME NEW k \in here
      PROVE  <<generation, k>> \in Queued(c, i)
  <2>1. /\ k \in 1..QueueSize /\ k <= Len(chan[generation].tasks)
        /\ chan[generation].tasks[k].for = c /\ chan[generation].tasks[k].id = i
    BY <1>1, <1>2, <1>3 DEF Mine, Current
  <2> QED  BY <2>1, <1>1, InQueued
<1>5. ASSUME NEW p \in Queued(c, i)
      PROVE  \E k \in here : p = <<generation, k>>
  <2>1. /\ p \in Gens \X (1..QueueSize) /\ p[2] <= Len(chan[p[1]].tasks)
        /\ chan[p[1]].tasks[p[2]].for = c /\ chan[p[1]].tasks[p[2]].id = i
    BY InQueued
  <2>2. p[1] \in Gens /\ p[2] \in 1..Len(chan[p[1]].tasks) /\ p = <<p[1], p[2]>>
    BY <2>1, <1>1, <1>2
  <2>3. PICK task : task = chan[p[1]].tasks[p[2]]
    OBVIOUS
  <2>4. task \in ToSet(chan[p[1]].tasks)
    BY <2>2, <2>3, <1>1 DEF ToSet
  <2>5. p[1] >= generation
    BY <2>1, <2>2, <2>3, <2>4, <1>1 DEF TasksOK, Gens
  <2>6. ~(p[1] > generation)
    <3>1. p[1] > generation => Len(chan[p[1]].tasks) = 0
      BY <2>2, <1>2
    <3> QED  BY <3>1, <2>2
  <2>7. p[1] = generation
    BY <2>2, <2>5, <2>6, <1>1, <1>2
  <2>8. p[2] \in here
    BY <2>1, <2>2, <2>7, <1>3 DEF Mine, Current
  <2> QED  BY <2>2, <2>7, <2>8
<1>6. f \in Bijection(here, Queued(c, i))
  <2>1. f \in [here -> Queued(c, i)]
    BY <1>4
  <2>2. \A a, b \in here : f[a] = f[b] => a = b
    OBVIOUS
  <2>3. \A p \in Queued(c, i) : \E k \in here : f[k] = p
    BY <1>5
  <2> HIDE DEF f, here
  <2> QED  BY <2>1, <2>2, <2>3 DEF Bijection, Injection, Surjection, IsInjective
<1>7. IsFiniteSet(here)
  <2>1. here \subseteq 1..Len(chan[generation].tasks)
    BY <1>3
  <2>2. 1 \in Int /\ Len(chan[generation].tasks) \in Int
    BY <1>1
  <2>3. IsFiniteSet(1..Len(chan[generation].tasks))
    BY <2>2, FS_Interval
  <2> QED  BY <2>1, <2>3, FS_Subset
<1> HIDE DEF f, here
<1>8. Cardinality(Queued(c, i)) = Cardinality(here)
  BY <1>6, <1>7, FS_Bijection DEF ExistsBijection
<1> QED  BY <1>8 DEF here

\* Every batch is owed just what is in the queue, with the workers and in its
\* channel.
LEMMA NothingLost == ParsingInv => NoTaskLost
<1> SUFFICES ASSUME ParsingInv, NEW c \in Client,
                    call[c].at = "collect" /\ call[c].op = "batch" /\ call[c].in = generation /\ ~Current.done
             PROVE  call[c].out = Cardinality({k \in DOMAIN Current.tasks : Mine(c, Current.tasks[k])})
                      + Cardinality({w \in Running : worker[w].at \in {"parse", "share", "reply"}
                                                     /\ Mine(c, worker[w].task)})
                      + Len(call[c].box)
  BY DEF NoTaskLost
<1>1. PICK i \in Nat : i = call[c].id
  BY CallIs
<1>2. Counted(call[c], generation, chan[generation].done, Flying(c, i), Carried(c, i))
  BY <1>1, CallIs, CountNow DEF ClientOK
<1>3. Flying(c, i) + Len(call[c].box) = call[c].out
  BY <1>2 DEF Counted, Current
<1> DEFINE here == {k \in DOMAIN Current.tasks : Mine(c, Current.tasks[k])}
           busy == {w \in Running : worker[w].at \in {"parse", "share", "reply"} /\ Mine(c, worker[w].task)}
<1>4. Cardinality(Queued(c, i)) = Cardinality(here)
  BY <1>1, QueuedHere
<1>5. Handled(c, i) = busy
  BY <1>1 DEF Handled, Busy, Running, Mine
<1> HIDE DEF here, busy
<1>6. Flying(c, i) = Cardinality(here) + Cardinality(busy)
  BY <1>4, <1>5 DEF Flying
<1>7. call[c].out = Cardinality(here) + Cardinality(busy) + Len(call[c].box)
  BY <1>3, <1>6
<1> QED  BY <1>7 DEF here, busy

\* A call that returns without an error got its own sources, none older than its
\* begin but from an entry with a race.
LEMMA ResultsAreOwn == ParsingInv => OwnAndFresh
<1> SUFFICES ASSUME ParsingInv, NEW c \in Client,
                    call[c].at = "return" /\ ~call[c].failed /\ call[c].op \in {"file", "batch"}
             PROVE  /\ DOMAIN call[c].got = call[c].ask
                    /\ \A s \in call[c].ask : call[c].got[s] >= call[c].since[s] \/ s \in call[c].stale
  BY DEF OwnAndFresh
<1>1. AskOK(c) /\ GotOK(c) /\ Fetches(c)
  BY CallIs DEF ClientOK, Fetches
<1>2. DOMAIN call[c].got = call[c].ask
  BY <1>1 DEF AskOK, In
<1> QED  BY <1>1, <1>2 DEF GotOK

\* The invariant has the types.
LEMMA TypesFollow == ParsingInv => ParsingTypeOK
<1> SUFFICES ASSUME ParsingInv
             PROVE  ParsingTypeOK
  OBVIOUS
<1>1. CacheTypeOK
  BY CacheIsTyped DEF ParsingInv
<1>2. PoolTypeOK
  <2>1. PoolInv
    BY DEF ParsingInv
  <2>2. \A w \in Worker : worker[w].on \in 0..MaxGenerations /\ worker[w].on <= generation
    BY <2>1 DEF PoolInv, PoolTyped, WorkerType
  <2>3. generation \in 0..MaxGenerations /\ MaxGenerations \in Nat
    BY <2>1, PoolAssumption DEF PoolInv, PoolTyped
  <2>4. \A w \in Running : worker[w].on \in 0..generation
    BY <2>2, <2>3 DEF Running
  <2> QED  BY <2>1, <2>3, <2>4 DEF PoolTypeOK, PoolInv, PoolTyped
<1>3. ASSUME NEW c \in Client
      PROVE  /\ DOMAIN call[c].got \subseteq Source /\ call[c].store \subseteq Source
             /\ call[c].out \in Nat
             /\ mu = c => call[c].at = "set"
  <2>1. call[c] \in CallType /\ SettingOK(c) /\ call[c].out \in Nat
    BY CallIs DEF ClientOK
  <2>2. DOMAIN call[c].got \subseteq Source /\ call[c].store \subseteq Source
    BY <2>1 DEF CallType, Partial
  <2> QED  BY <2>1, <2>2 DEF SettingOK, In
<1> QED  BY <1>1, <1>2, <1>3 DEF ParsingTypeOK

\* For any files, clients, workers, queue size and plans the cache, the pool and the calls
\* keep their types: list, counters and entries of the cache never part, however lookups,
\* evictions, deletions and restarts interleave (cache.go:430).
THEOREM ParsingIsTyped == Spec => []ParsingTypeOK
BY ParsingInvHolds, TypesFollow, PTL

\* Whatever is called, rewritten, cancelled, restarted or killed meanwhile, a call that
\* returns without an error has a text for just the files it asked for, none older than its
\* begin unless the entry was stored while its file changed (worker_pool.go:195, cache.go:473).
THEOREM FetchesAreOwnAndFresh == Spec => []OwnAndFresh
BY ParsingInvHolds, ResultsAreOwn, PTL

\* With any number of workers and callers a batch is owed just what is in the queue, with a
\* worker and in its own channel, as long as the pool it gave its files to runs
\* (worker_pool.go:195): no task and no result is lost or counted twice.
THEOREM TasksAreNotLost == Spec => []NoTaskLost
BY ParsingInvHolds, NothingLost, PTL
=============================================================================
