--------------------------- MODULE ProviderManager ---------------------------
(***************************************************************************)
(* DefaultEmbeddingProviderManager and DefaultProviderManager              *)
(* (extractor/registry/provider_manager.go) with their HealthChecker       *)
(* (health_check.go): one entry for each name, a flag in the entry that a  *)
(* failover clears and a health check sets, and a goroutine that checks.   *)
(* The two managers have the same text; what only one has is said there.   *)
(*                                                                         *)
(* A registration makes a new provider and a new entry for it: an instance *)
(* stands for both.  Metrics and usage counts are left out.                *)
(***************************************************************************)
EXTENDS Naturals, Sequences, FiniteSets, SequencesExt

CONSTANTS Client, NoClient, Name, MaxInstances

Checker == "checker"
Instance == 1..MaxInstances
None == 0

ASSUME ManagerAssumption ==
  MaxInstances \in Nat /\ NoClient \notin Client /\ Checker \notin Client \cup {NoClient}

VARIABLES
  providers,  \* the entry under a name
  healthy,    \* the entries whose IsHealthy is set
  check,      \* the HealthCheck that holds the lock of the manager
  checker,    \* the HealthChecker
  answering,  \* the providers that answer at present
  failed      \* history: the providers that failed to answer once

managerVars == <<providers, healthy, check, checker, answering, failed>>

Entries == {providers[n] : n \in Name} \ {None}
NameOf(i) == CHOOSE n \in Name : providers[n] = i
NoCheck == [by |-> NoClient, left |-> {}]

\* Every operation takes the lock, and a HealthCheck keeps it while it waits
\* for the answers of all providers.
Unlocked == check.by = NoClient

ManagerTypeOK ==
  /\ providers \in [Name -> Instance \cup {None}]
  /\ healthy \subseteq Instance /\ answering \subseteq Instance /\ failed \subseteq Instance
  /\ check.by \in Client \cup {NoClient, Checker} /\ check.left \subseteq Entries
  /\ checker.waiting \in Nat /\ checker.joining \in Client \cup {NoClient}

ManagerInit ==
  /\ providers = [n \in Name |-> None] /\ healthy = {} /\ check = NoCheck
  /\ checker = [enabled |-> TRUE, closed |-> FALSE, waiting |-> 0, joining |-> NoClient]
  /\ answering = Instance /\ failed = {}

-----------------------------------------------------------------------------
\* An entry that was there under the name is replaced.
AddProvider(n, i) ==
  /\ Unlocked
  /\ providers' = [providers EXCEPT ![n] = i] /\ healthy' = healthy \cup {i}
  /\ UNCHANGED <<check, checker, answering, failed>>

RemoveProvider(n) ==
  /\ Unlocked /\ providers' = [providers EXCEPT ![n] = None]
  /\ UNCHANGED <<healthy, check, checker, answering, failed>>

\* By priority, the smallest first; round robin counts in the order of the
\* addresses, which is any, so that it, like random choice, may take each.
Preferred(entries, balancing, Priority) ==
  IF balancing = "priority"
  THEN {i \in entries : \A j \in entries : Priority[NameOf(i)] <= Priority[NameOf(j)]}
  ELSE entries

BestProviders(balancing, Priority) == Preferred(Entries \cap healthy, balancing, Priority)

\* What a failover visits: every entry there is, sorted by priority.
ByPriority(Priority) ==
  {order \in SetToSeqs(Entries) :
     \A k \in 1..(Len(order) - 1) : Priority[NameOf(order[k])] <= Priority[NameOf(order[k + 1])]}

\* ExecuteWithFailover sorts the names by an array of entries that stays as it
\* is: the k-th name goes before the descent of priorities that ends at k, and
\* whatever names are there by now move up.
Sink(order, k, Priority, listed) ==
  LET to == Min({j \in 1..k : \A m \in (j + 1)..k : Priority[listed[m]] < Priority[listed[m - 1]]})
  IN  SubSeq(order, 1, to - 1) \o <<order[k]>> \o SubSeq(order, to, k - 1) \o SubSeq(order, k + 1, Len(order))
SortedNames(listed, Priority) ==
  LET order[k \in 0..Len(listed)] == IF k = 0 THEN listed ELSE Sink(order[k - 1], k, Priority, listed)
  IN  order[Len(listed)]
NamesInMapOrder == SetToSeqs({n \in Name : providers[n] # None})

\* A provider is asked for a completion, an embedding or its health.
Answers(i) == i \in answering
Fails(i) == failed' = failed \cup {i}

\* The entry at hand loses its flag, wherever it is by now.
MarkUnhealthy(i) ==
  /\ Unlocked /\ healthy' = healthy \ {i}
  /\ UNCHANGED <<providers, check, checker, answering, failed>>

-----------------------------------------------------------------------------
\* HealthCheck, by a client or the goroutine of the HealthChecker.
CheckBegins(by) ==
  /\ Unlocked /\ check' = [by |-> by, left |-> Entries]
  /\ UNCHANGED <<providers, healthy, answering, failed>>

\* Mutant of CheckAsks: only failures are noted.
CheckOnlyMarks(by) ==
  /\ check.by = by
  /\ \E i \in check.left :
       /\ check' = [check EXCEPT !.left = @ \ {i}]
       /\ IF Answers(i) THEN UNCHANGED <<healthy, failed>>
          ELSE healthy' = healthy \ {i} /\ Fails(i)
  /\ UNCHANGED <<providers, checker, answering>>

CheckAsks(by) ==
  /\ check.by = by
  /\ \E i \in check.left :
       /\ check' = [check EXCEPT !.left = @ \ {i}]
       /\ IF Answers(i) THEN healthy' = healthy \cup {i} /\ UNCHANGED failed
          ELSE healthy' = healthy \ {i} /\ Fails(i)
  /\ UNCHANGED <<providers, checker, answering>>

CheckEnds(by) ==
  /\ check.by = by /\ check.left = {}
  /\ check' = NoCheck
  /\ UNCHANGED <<providers, healthy, answering, failed>>

-----------------------------------------------------------------------------
\* The HealthChecker's lock is free: Stop keeps it while it waits.
CheckerFree == checker.joining = NoClient

\* Start looks whether it is enabled, and starts the goroutine after that.
StartLooks == Unlocked /\ CheckerFree
StartSpawns ==
  /\ checker' = [checker EXCEPT !.waiting = @ + 1]
  /\ UNCHANGED <<providers, healthy, check, answering, failed>>

StopCloses(c) ==
  /\ Unlocked /\ CheckerFree
  /\ checker' = IF checker.enabled
                THEN [checker EXCEPT !.closed = TRUE, !.enabled = FALSE, !.joining = c]
                ELSE checker
  /\ UNCHANGED <<providers, healthy, check, answering, failed>>

StopJoins(c) ==
  /\ checker.joining = c /\ checker.waiting = 0 /\ check.by # Checker
  /\ checker' = [checker EXCEPT !.joining = NoClient]
  /\ UNCHANGED <<providers, healthy, check, answering, failed>>

\* The goroutine: a tick, after which it checks, or the end.
CheckerTicks ==
  /\ checker.waiting > 0 /\ CheckBegins(Checker)
  /\ checker' = [checker EXCEPT !.waiting = @ - 1]

CheckerReturns ==
  /\ CheckEnds(Checker) /\ checker' = [checker EXCEPT !.waiting = @ + 1]

CheckerExits ==
  /\ checker.waiting > 0 /\ checker.closed
  /\ checker' = [checker EXCEPT !.waiting = @ - 1]
  /\ UNCHANGED <<providers, healthy, check, answering, failed>>

\* The world: a provider stops answering, or answers again.
Turns(i) ==
  /\ answering' = IF i \in answering THEN answering \ {i} ELSE answering \cup {i}
  /\ UNCHANGED <<providers, healthy, check, checker, failed>>
=============================================================================
