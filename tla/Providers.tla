----------------------------- MODULE Providers -----------------------------
(***************************************************************************)
(* The callers of ProviderRegistry (provider_registry.go) and of its       *)
(* manager, with the failovers (provider_manager.go, health_check.go), all *)
(* in extractor/registry, and the callers of AutoEmbedder.                 *)
(*                                                                         *)
(* A plan bounds a behaviour: the calls of each client, the priorities,    *)
(* how the manager is set up, and how often a provider stops answering or  *)
(* an embedding expires.  Closing a provider leaves it answering: Close of *)
(* the providers there are does nothing but drop idle connections.         *)
(***************************************************************************)
EXTENDS Integers, ProviderManager, AutoEmbedder

CONSTANTS MaxRetries, Plans

ASSUME ProvidersAssumption == MaxRetries \in Nat /\ Caller = Client /\ IsFiniteSet(Name)

\* What a call is of: a name, an embedder, or texts; a batch without a text
\* returns at once (embedder.go:124).
Managing == {"register", "unregister", "regcheck", "failover", "execute", "check", "start", "stop"}
Calls ==
  [op : {"register", "unregister"}, of : Name, texts : {<<>>}]
    \cup [op : Managing \ {"register", "unregister"}, of : {"none"}, texts : {<<>>}]
    \cup [op : {"add", "primary", "fallback"}, of : Embedder, texts : {<<>>}]
    \cup [op : {"embed"}, of : {"none"}, texts : {<<t>> : t \in Text}]
    \cup [op : {"batch"}, of : {"none"}, texts : Seq(Text) \ {<<>>}]
Workloads ==
  [calls : [Client -> Seq(Calls)], priority : [Name -> Int], failover : BOOLEAN, balancing : STRING,
   primary : Embedder, turns : Nat, reaches : Nat, expiries : Nat, cancels : Nat]

ASSUME PlansAssumption == Plans \subseteq Workloads

VARIABLES
  registered, \* the registry's record under a name, as an instance
  reported,   \* the records whose health is good
  made,       \* the names the providers were made for, one after the other
  call,       \* the call each client is in
  plan,       \* what is left of the plan
  steady,     \* history: the entries that could be used at every moment of a call
  lasting     \* history: the embedders likewise

vars == <<managerVars, embedderVars, registered, reported, made, call, plan, steady, lasting>>

\* of: the name asked for.  todo: entries to visit, or the registry's records
\* to check as names; who: the entry at hand; asked: the entries that failed
\* this call.  tries: attempts with the one at hand.
Idle == [op |-> "none", at |-> "idle", of |-> "none", todo |-> <<>>, who |-> None,
         asked |-> {}, tries |-> 0, good |-> FALSE, result |-> "none"]

At(c, label) == call[c].at = label
Goes(c, state) == call' = [call EXCEPT ![c] = state]
GoesTo(c, label) == Goes(c, [call[c] EXCEPT !.at = label])
Ends(c, result) == Goes(c, [call[c] EXCEPT !.at = "return", !.result = result])
Unmanaged == UNCHANGED managerVars
Recorded == UNCHANGED <<registered, reported, made>>

-----------------------------------------------------------------------------
\* RegisterLLMProvider: the provider is made first; then, under the lock of the
\* registry, the manager and the registry are told.  A provider that had the
\* name before is forgotten, not closed.
Registers(c) ==
  /\ At(c, "register") /\ Len(made) < MaxInstances
  /\ made' = Append(made, call[c].of)
  /\ AddProvider(call[c].of, Len(made'))
  /\ registered' = [registered EXCEPT ![call[c].of] = Len(made')]
  /\ reported' = reported \cup {Len(made')}
  /\ Ends(c, "ok")

Unregisters(c) ==
  /\ At(c, "unregister")
  /\ IF registered[call[c].of] = None
     THEN Ends(c, "failed") /\ Unmanaged /\ Recorded
     ELSE /\ RemoveProvider(call[c].of)
          /\ registered' = [registered EXCEPT ![call[c].of] = None]
          /\ Ends(c, "ok") /\ UNCHANGED <<reported, made>>

\* The registry's HealthCheck: the records are listed, each provider is asked
\* without the lock, and the record that is then under the name is written.
Lists(c) ==
  /\ At(c, "list")
  /\ \E names \in SetToSeqs({n \in Name : registered[n] # None}) :
       Goes(c, [call[c] EXCEPT !.todo = [k \in DOMAIN names |-> [name |-> names[k], is |-> registered[names[k]]]],
                  !.at = "health"])
  /\ Unmanaged /\ Recorded

AsksHealth(c) ==
  /\ At(c, "health")
  /\ IF call[c].todo = <<>> THEN Ends(c, "ok") /\ Unmanaged
     ELSE LET i == Head(call[c].todo).is
          IN  /\ Goes(c, [call[c] EXCEPT !.good = Answers(i), !.at = "record"])
              /\ IF Answers(i) THEN Unmanaged
                 ELSE Fails(i) /\ UNCHANGED <<providers, healthy, check, checker, answering>>
  /\ Recorded

Records(c) ==
  /\ At(c, "record")
  /\ LET i == registered[Head(call[c].todo).name]
     IN  reported' = IF i = None THEN reported
                     ELSE IF call[c].good THEN reported \cup {i} ELSE reported \ {i}
  /\ Goes(c, [call[c] EXCEPT !.todo = Tail(@), !.at = "health"])
  /\ UNCHANGED <<registered, made>> /\ Unmanaged

-----------------------------------------------------------------------------
\* The provider at hand is asked: an answer ends the call.
AskOf(c, i, next) ==
  IF Answers(i) THEN Ends(c, "ok") /\ Unmanaged
  ELSE /\ Fails(i) /\ UNCHANGED <<providers, healthy, check, checker, answering>>
       /\ Goes(c, [next EXCEPT !.asked = @ \cup {i}])

\* GenerateEmbeddingWithFailover; with the failover off, the best provider is
\* asked once.
BeginsFailover(c) ==
  /\ At(c, "failover") /\ Unlocked
  /\ \/ /\ plan.failover
        /\ \E order \in ByPriority(plan.priority) : Goes(c, [call[c] EXCEPT !.todo = order, !.at = "visit"])
     \/ /\ ~plan.failover /\ BestProviders(plan.balancing, plan.priority) = {} /\ Ends(c, "failed")
     \/ /\ ~plan.failover
        /\ \E i \in BestProviders(plan.balancing, plan.priority) :
             Goes(c, [call[c] EXCEPT !.who = i, !.at = "once"])
  /\ Unmanaged /\ Recorded

AsksOnce(c) ==
  /\ At(c, "once")
  /\ AskOf(c, call[c].who, [call[c] EXCEPT !.at = "return", !.result = "failed"])
  /\ Recorded

\* An entry that is marked is passed over; the flag is read without the lock.
Visits(c) ==
  /\ At(c, "visit")
  /\ IF call[c].todo = <<>> THEN Ends(c, "failed")
     ELSE LET next == [call[c] EXCEPT !.todo = Tail(@)]
          IN  Goes(c, IF Head(call[c].todo) \in healthy
                      THEN [next EXCEPT !.who = Head(call[c].todo), !.at = "ask"]
                      ELSE next)
  /\ Unmanaged /\ Recorded

Asks(c) ==
  /\ At(c, "ask") /\ AskOf(c, call[c].who, [call[c] EXCEPT !.at = "mark"])
  /\ Recorded

Marks(c) ==
  /\ At(c, "mark") /\ MarkUnhealthy(call[c].who)
  /\ GoesTo(c, "visit") /\ Recorded

\* ExecuteWithFailover: the names there are, in an order; each is looked up
\* again when its turn comes, and asked until it answers, fails for good or
\* has been retried often enough.
BeginsExecute(c) ==
  /\ At(c, "execute") /\ Unlocked
  /\ \E listed \in NamesInMapOrder :
       Goes(c, [call[c] EXCEPT !.todo = SortedNames(listed, plan.priority), !.at = "next"])
  /\ Unmanaged /\ Recorded

LooksUpNext(c) ==
  /\ At(c, "next") /\ Unlocked
  /\ IF call[c].todo = <<>> THEN Ends(c, "failed")
     ELSE LET i == providers[Head(call[c].todo)]
              next == [call[c] EXCEPT !.todo = Tail(@)]
          IN  Goes(c, IF i = None THEN next ELSE [next EXCEPT !.who = i, !.tries = 0, !.at = "try"])
  /\ Unmanaged /\ Recorded

Tries(c) ==
  /\ At(c, "try")
  /\ \E retryable \in BOOLEAN :
       AskOf(c, call[c].who,
             IF ~retryable \/ call[c].tries = MaxRetries THEN [call[c] EXCEPT !.at = "next"]
             ELSE [call[c] EXCEPT !.tries = @ + 1, !.at = "backoff"])
  /\ Recorded

BacksOff(c) ==
  /\ At(c, "backoff") /\ GoesTo(c, "try")
  /\ Unmanaged /\ Recorded

-----------------------------------------------------------------------------
\* HealthCheck of the manager, StartHealthChecks and StopHealthChecks.
Checks(c) ==
  /\ \/ At(c, "check") /\ CheckBegins(c) /\ GoesTo(c, "checking") /\ UNCHANGED checker
     \/ At(c, "checking") /\ CheckAsks(c) /\ UNCHANGED call
     \/ At(c, "checking") /\ CheckEnds(c) /\ Ends(c, "ok") /\ UNCHANGED checker
  /\ Recorded

StartsChecks(c) ==
  /\ \/ At(c, "start") /\ StartLooks /\ Unmanaged
        /\ IF checker.enabled THEN GoesTo(c, "spawn") ELSE Ends(c, "ok")
     \/ At(c, "spawn") /\ StartSpawns /\ Ends(c, "ok")
  /\ Recorded

StopsChecks(c) ==
  /\ \/ At(c, "stop") /\ StopCloses(c)
        /\ IF checker.enabled THEN GoesTo(c, "join") ELSE Ends(c, "ok")
     \/ At(c, "join") /\ StopJoins(c) /\ Ends(c, "ok")
  /\ Recorded

-----------------------------------------------------------------------------
\* A client makes its next call when it is in none.
First == [register |-> "register", unregister |-> "unregister", regcheck |-> "list",
          failover |-> "failover", execute |-> "execute", check |-> "check",
          start |-> "start", stop |-> "stop", embed |-> "lookup", batch |-> "scan"]

Free(c) == At(c, "idle") /\ Is(c, "idle") /\ plan.calls[c] # <<>>
Taken(c) == plan' = [plan EXCEPT !.calls[c] = Tail(@)]
CallsManager(c) ==
  /\ Free(c) /\ Head(plan.calls[c]).op \in Managing /\ Taken(c)
  /\ LET next == Head(plan.calls[c])
     IN  Goes(c, [Idle EXCEPT !.op = next.op, !.at = First[next.op], !.of = next.of])
  /\ Unmanaged /\ Recorded /\ UNCHANGED embedderVars

CallsEmbedder(c) ==
  /\ Free(c) /\ Head(plan.calls[c]).op \in {"embed", "batch"} /\ Taken(c)
  /\ LET next == Head(plan.calls[c])
     IN  Becomes(c, [NoRequest EXCEPT !.op = next.op, !.at = First[next.op], !.texts = next.texts])
  /\ Settled /\ UNCHANGED <<cache, call>> /\ Unmanaged /\ Recorded

\* AddProvider, SetPrimary and AddFallback are single critical sections.
SetsUp(c) ==
  /\ Free(c) /\ Taken(c)
  /\ LET next == Head(plan.calls[c])
     IN  \/ next.op = "add" /\ AddEmbedder(next.of)
         \/ next.op = "primary" /\ SetPrimary(next.of)
         \/ next.op = "fallback" /\ AddFallback(next.of)
  /\ UNCHANGED call /\ Unmanaged /\ Recorded

Returns(c) ==
  /\ \/ At(c, "return") /\ Goes(c, Idle) /\ UNCHANGED embedderVars
     \/ Is(c, "return") /\ Becomes(c, NoRequest) /\ Settled /\ UNCHANGED <<cache, call>>
  /\ UNCHANGED plan /\ Unmanaged /\ Recorded

\* History: what could be used at every moment of a call so far.
Usables(c) == IF call[c].op = "execute" THEN Entries ELSE Entries \cap healthy
Reachables == Configured \cap embedders \cap reachable
History ==
  /\ steady' = [c \in Client |-> IF call[c].at = "idle" \/ call'[c].at = "idle" THEN Instance
                                 ELSE steady[c] \cap Usables(c)' \cap Usables(c)]
  /\ lasting' = [c \in Client |-> IF request'[c].at = "idle" THEN Embedder
                                  ELSE lasting[c] \cap Reachables' \cap Reachables]

ClientStep(c) ==
  /\ \/ CallsManager(c) \/ CallsEmbedder(c) \/ SetsUp(c) \/ Returns(c)
     \/ /\ \/ Registers(c) \/ Unregisters(c) \/ Lists(c) \/ AsksHealth(c) \/ Records(c)
           \/ BeginsFailover(c) \/ AsksOnce(c) \/ Visits(c) \/ Asks(c) \/ Marks(c)
           \/ BeginsExecute(c) \/ LooksUpNext(c) \/ Tries(c) \/ BacksOff(c)
           \/ Checks(c) \/ StartsChecks(c) \/ StopsChecks(c)
        /\ UNCHANGED <<embedderVars, plan>>
     \/ EmbedderStep(c) /\ UNCHANGED <<call, plan>> /\ Unmanaged /\ Recorded
  /\ History

\* The caller's context ends during a backoff.
Cancels(c) ==
  /\ At(c, "backoff") /\ plan.cancels > 0
  /\ plan' = [plan EXCEPT !.cancels = @ - 1]
  /\ Ends(c, "cancelled")
  /\ Unmanaged /\ Recorded /\ UNCHANGED embedderVars /\ History

Ticks ==
  /\ CheckerTicks /\ UNCHANGED <<embedderVars, registered, reported, made, call, plan>> /\ History
CheckerStep ==
  /\ CheckAsks(Checker) \/ CheckerReturns
  /\ UNCHANGED <<embedderVars, registered, reported, made, call, plan>> /\ History
Exit ==
  /\ CheckerExits /\ UNCHANGED <<embedderVars, registered, reported, made, call, plan>> /\ History

World ==
  /\ \/ /\ plan.turns > 0 /\ plan' = [plan EXCEPT !.turns = @ - 1]
        /\ \E i \in DOMAIN made : Turns(i)
        /\ UNCHANGED embedderVars
     \/ /\ plan.reaches > 0 /\ plan' = [plan EXCEPT !.reaches = @ - 1]
        /\ \E p \in embedders : Reaches(p)
        /\ Unmanaged
     \/ /\ plan.expiries > 0 /\ plan' = [plan EXCEPT !.expiries = @ - 1]
        /\ \E t \in Text : CacheExpires(t)
        /\ Unmanaged
  /\ UNCHANGED <<registered, reported, made, call>> /\ History

\* Every plan has been carried out.
Done == (\A c \in Client : At(c, "idle") /\ Is(c, "idle") /\ plan.calls[c] = <<>>) /\ UNCHANGED vars

Next ==
  \/ \E c \in Client : ClientStep(c) \/ Cancels(c)
  \/ Ticks \/ CheckerStep \/ Exit \/ World \/ Done

Init ==
  /\ ManagerInit /\ EmbedderInit
  /\ registered = [n \in Name |-> None] /\ reported = {} /\ made = <<>>
  /\ call = [c \in Client |-> Idle] /\ plan \in Plans
  /\ primary = plan.primary
  /\ steady = [c \in Client |-> Instance] /\ lasting = [c \in Client |-> Embedder]

\* Goroutines are scheduled, and whoever waits for a lock gets it some time,
\* however often others take it meanwhile (sync.RWMutex); a ticker ticks, and a
\* select between a tick and the closed channel takes the channel some time.
Fairness ==
  /\ \A c \in Client : SF_vars(ClientStep(c))
  /\ WF_vars(CheckerStep) /\ SF_vars(Ticks) /\ SF_vars(Exit)

Spec == Init /\ [][Next]_vars /\ Fairness

-----------------------------------------------------------------------------
\* The types of the parts and of the calls.
ProvidersTypeOK ==
  /\ ManagerTypeOK /\ EmbedderTypeOK
  /\ registered \in [Name -> Instance \cup {None}] /\ reported \subseteq Instance
  /\ made \in Seq(Name)
  /\ \A c \in Client : call[c].asked \subseteq failed /\ call[c].tries \in 0..MaxRetries

\* A failover fails only if every entry that could be used during the whole of
\* the call was asked in it and failed (provider_manager.go:447, :660).
FailsOnlyAfterAll ==
  \A c \in Client : call[c].result = "failed" /\ (call[c].op = "execute" \/ (call[c].op = "failover" /\ plan.failover))
                      => steady[c] \subseteq call[c].asked

\* An entry is not asked while a better one, that could be used during the
\* whole of the call, has not been (:461).  ExecuteWithFailover keeps this for
\* two names, and breaks it for three (:784, :677).
BestFirst ==
  \A c \in Client :
    call[c].at \in {"ask", "try"} /\ call[c].who \in Entries
    /\ (call[c].op = "failover" \/ Cardinality(ToSet(made)) <= 2) =>
      \A i \in steady[c] : plan.priority[NameOf(i)] < plan.priority[NameOf(call[c].who)] => i \in call[c].asked

\* The manager marks an entry only when the provider of that very entry did not
\* answer; the registry may take the answer of a former holder of the name
\* (provider_registry.go:398), but never one of another name.
MarkedForCause ==
  /\ Entries \ healthy \subseteq failed
  /\ \A n \in Name : registered[n] \in Instance \ reported => \E i \in failed : made[i] = n

\* An embedding is that of the text at its index, by a provider that was added
\* (embedder.go:141); and a call fails only if no configured provider could be
\* reached during the whole of it, or, for a batch, the primary was never
\* added (:133).
ServedIsOwn ==
  \A c \in Client : Is(c, "return") =>
    IF request[c].error # "none"
    THEN lasting[c] = {} \/ request[c].error = "no primary"
    ELSE \A k \in DOMAIN request[c].texts :
           k \in DOMAIN request[c].got /\ request[c].got[k].of = request[c].texts[k]
                                       /\ request[c].got[k].by \in embedders

FailoversAreSound ==
  ProvidersTypeOK /\ FailsOnlyAfterAll /\ BestFirst /\ MarkedForCause /\ ServedIsOwn

\* Every call returns, though a health check keeps the manager's lock while it
\* waits and Stop keeps the checker's; and while a HealthChecker runs, an entry
\* whose provider answers again is used again.
Watched(i) == i \in Entries \cap answering /\ ~checker.closed /\ checker.waiting + (IF check.by = Checker THEN 1 ELSE 0) > 0
CallsEndAndHeal ==
  /\ \A c \in Client : (~At(c, "idle") \/ ~Is(c, "idle")) ~> (At(c, "idle") /\ Is(c, "idle"))
  /\ \A i \in Instance : <>[]Watched(i) => <>[](i \in healthy)
=============================================================================
