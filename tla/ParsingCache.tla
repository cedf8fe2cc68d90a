---------------------------- MODULE ParsingCache ----------------------------
(***************************************************************************)
(* InMemoryParsingCache (parser/cache/cache.go) over the files it caches.  *)
(*                                                                         *)
(* A source is a file or a text.  Its version is the time of its last      *)
(* change and stands for its content too; two times make up a second, the  *)
(* precision of the key of a file.  A text never changes: its key is the   *)
(* hash of its content.                                                    *)
(*                                                                         *)
(* c.mu is held from the first eviction of a Set to its end; the other     *)
(* critical sections are single steps.  Left out: compression, tags (no    *)
(* caller sets any), the semaphore (more slots than callers), hit counts.  *)
(***************************************************************************)
EXTENDS Naturals, Sequences, FiniteSets, SequencesExt

CONSTANTS
  Client,
  Files, Texts,    \* what is parsed
  NoClient,
  MaxVersion       \* bound: the last version of a file

Source == Files \cup Texts
Version == 0..MaxVersion
ASSUME CacheAssumption ==
  IsFiniteSet(Source) /\ NoClient \notin Client /\ MaxVersion \in Nat

CacheKey == [of : Source, second : 0..(MaxVersion \div 2)]

VARIABLES
  file,       \* the version of every source
  entries,    \* key -> entry
  lru,        \* the list, most recently used first
  totalEntries, memoryUsage,   \* the metrics, which count entries and sizes
  mu,         \* the client in SetWithOptions that holds the lock
  deletes,    \* how often the deletion of a key waits to be run (go Delete)
  disk,       \* the persisted entries
  revived     \* history: keys put back into the list without an entry

cacheVars == <<file, entries, lru, totalEntries, memoryUsage, mu, deletes, disk, revived>>

\* path: FilePath is set, and mtime is FileModTime.  raced is history: the file
\* changed between the parse's read of it and the moment path was set.
Entry == [text : Version, size : Nat \ {0}, path : BOOLEAN, mtime : Version,
          expired : BOOLEAN, raced : BOOLEAN]

GenerateFileKey(s) == [of |-> s, second |-> file[s] \div 2]

\* The memory that the entries of K take, unit by unit.
Taken(some, K) == UNION {{k} \X (1..some[k].size) : k \in K}
SizeOf(K) == Cardinality(Taken(entries, K))

-----------------------------------------------------------------------------
\* Mutant of RemoveFromLRU: the place in the list is kept.
KeepInLRU(K) == lru
\* The list without the keys of K.
Without(order, K) ==
  LET left[n \in 0..Len(order)] ==
        IF n = 0 THEN <<>>
        ELSE IF order[n] \in K THEN left[n - 1] ELSE Append(left[n - 1], order[n])
  IN  left[Len(order)]
RemoveFromLRU(K) == Without(lru, K)
AddToLRU(key) == <<key>> \o Without(lru, {key})

\* The end of Delete, Cleanup and evictOne: the entries of K leave every index.
RemoveEntries(K) ==
  /\ entries' = Restrict(entries, DOMAIN entries \ K)
  /\ totalEntries' = totalEntries - Cardinality(K)
  /\ memoryUsage' = memoryUsage - SizeOf(K)
  /\ lru' = RemoveFromLRU(K)

\* Mutant of IsFileValid: CheckFileModTime is taken for off.
NeverChecked(entry, s) == TRUE
IsFileValid(entry, s) == entry.path => file[s] <= entry.mtime

\* What Get finds under a key.
Found(key) ==
  IF key \notin DOMAIN entries THEN "miss"
  ELSE IF entries[key].expired \/ ~IsFileValid(entries[key], key.of) THEN "stale"
  ELSE "hit"

\* The first half of Get: a stale entry is left to a goroutine that deletes
\* whatever is under its key by then.
GetLooksUp(key) ==
  /\ mu = NoClient
  /\ deletes' = [deletes EXCEPT ![key] = @ + (IF Found(key) = "stale" THEN 1 ELSE 0)]
  /\ UNCHANGED <<file, entries, lru, totalEntries, memoryUsage, mu, disk, revived>>

\* The second half, after a hit: updateLRU under a lock of its own.
GetTouches(key) ==
  /\ mu = NoClient
  /\ lru' = AddToLRU(key)
  /\ revived' = IF key \in DOMAIN entries THEN revived ELSE revived \cup {key}
  /\ UNCHANGED <<file, entries, totalEntries, memoryUsage, mu, deletes, disk>>

-----------------------------------------------------------------------------
\* Mutant of MustEvict: the loop for the memory does not end with the entries.
EvictForMemory(size, limits) ==
  \/ memoryUsage + size > limits.memory
  \/ Cardinality(DOMAIN entries) >= limits.entries

\* limits: MaxSize and MaxMemoryMB, and the policy.
MustEvict(size, limits) ==
  \/ memoryUsage + size > limits.memory /\ entries # <<>>
  \/ Cardinality(DOMAIN entries) >= limits.entries

\* The end of the list for LRU.  The counts and the times the other policies
\* go by are left out: any entry.
Evictable(limits) ==
  IF limits.policy = "lru" /\ lru # <<>> THEN {Last(lru)} ELSE DOMAIN entries

\* evictOne; a key without an entry is found and nothing removed, again and
\* again.
EvictOne(c, size, limits) ==
  /\ mu \in {NoClient, c} /\ MustEvict(size, limits)
  /\ mu' = c
  /\ LET keys == Evictable(limits) \cap DOMAIN entries
     IN  IF keys = {} THEN UNCHANGED <<entries, lru, totalEntries, memoryUsage>>
         ELSE \E key \in keys : RemoveEntries({key})
  /\ UNCHANGED <<file, deletes, disk, revived>>

\* An entry that was under the key is replaced but stays counted.
SetStores(c, key, entry, limits) ==
  /\ mu \in {NoClient, c} /\ ~MustEvict(entry.size, limits)
  /\ mu' = NoClient
  /\ entries' = [k \in DOMAIN entries \cup {key} |-> IF k = key THEN entry ELSE entries[k]]
  /\ totalEntries' = totalEntries + 1
  /\ memoryUsage' = memoryUsage + entry.size
  /\ lru' = AddToLRU(key)
  /\ revived' = revived \ {key}
  /\ UNCHANGED <<file, deletes, disk>>

\* The end of SetByFile: whatever entry is under the key gets the path.
SetsPath(key, mtime) ==
  /\ mu = NoClient
  /\ entries' = [k \in DOMAIN entries |->
                   IF k = key THEN [entries[k] EXCEPT !.path = TRUE, !.mtime = mtime]
                   ELSE entries[k]]
  /\ UNCHANGED <<file, lru, totalEntries, memoryUsage, mu, deletes, disk, revived>>

-----------------------------------------------------------------------------
Delete(key) ==
  /\ mu = NoClient
  /\ RemoveEntries({key} \cap DOMAIN entries)
  /\ UNCHANGED <<file, mu, disk, revived>>

BackgroundDelete ==
  \E key \in {k \in CacheKey : deletes[k] > 0} :
    Delete(key) /\ deletes' = [deletes EXCEPT ![key] = @ - 1]

InvalidateFile(s) == Delete(GenerateFileKey(s)) /\ UNCHANGED deletes

\* The cleanup routine.
Cleanup ==
  /\ mu = NoClient
  /\ RemoveEntries({k \in DOMAIN entries : entries[k].expired \/ ~IsFileValid(entries[k], k.of)})
  /\ UNCHANGED <<file, mu, deletes, disk, revived>>

Clear ==
  /\ mu = NoClient
  /\ entries' = <<>> /\ lru' = <<>> /\ totalEntries' = 0 /\ memoryUsage' = 0
  /\ revived' = {}
  /\ UNCHANGED <<file, mu, deletes, disk>>

Expire(key) ==
  /\ key \in DOMAIN entries
  /\ entries' = [entries EXCEPT ![key].expired = TRUE]
  /\ UNCHANGED <<file, lru, totalEntries, memoryUsage, mu, deletes, disk, revived>>

\* A file changes.
Race(f, e) == [k \in DOMAIN e |->
                 IF k.of = f /\ ~e[k].path THEN [e[k] EXCEPT !.raced = TRUE] ELSE e[k]]
Rewrite(f) ==
  /\ file[f] < MaxVersion
  /\ file' = [file EXCEPT ![f] = @ + 1]
  /\ entries' = Race(f, entries) /\ disk' = Race(f, disk)
  /\ UNCHANGED <<lru, totalEntries, memoryUsage, mu, deletes, revived>>

\* The persistence routine.
Persist ==
  /\ mu = NoClient
  /\ disk' = entries
  /\ UNCHANGED <<file, entries, lru, totalEntries, memoryUsage, mu, deletes, revived>>

\* A new process: Load skips what has expired and lists the rest in any order.
Load ==
  LET kept == {k \in DOMAIN disk : ~disk[k].expired}
  IN  /\ entries' = Restrict(disk, kept)
      /\ lru' \in SetToSeqs(kept)
      /\ totalEntries' = Cardinality(kept)
      /\ memoryUsage' = Cardinality(Taken(disk, kept))
      /\ mu' = NoClient
      /\ deletes' = [k \in CacheKey |-> 0]
      /\ revived' = {}
      /\ UNCHANGED <<file, disk>>

CacheInit ==
  /\ file = [s \in Source |-> 0]
  /\ entries = <<>> /\ lru = <<>> /\ totalEntries = 0 /\ memoryUsage = 0
  /\ mu = NoClient
  /\ deletes = [k \in CacheKey |-> 0]
  /\ disk = <<>>
  /\ revived = {}

-----------------------------------------------------------------------------
\* The types; the list, the counters and the entries agree: every entry is in
\* the list once, a key without an entry is there only if a Get put it back
\* after a removal, and the metrics never count less than there is (an entry
\* that is replaced stays counted, cache.go:430).
CacheTypeOK ==
  /\ file \in [Source -> Version]
  /\ \A e \in {entries, disk} : DOMAIN e \subseteq CacheKey /\ Range(e) \subseteq Entry
  /\ mu \in Client \cup {NoClient}
  /\ deletes \in [CacheKey -> Nat]
  /\ IsInjective(lru)
  /\ ToSet(lru) = DOMAIN entries \cup revived
  /\ DOMAIN entries \cap revived = {}
  /\ totalEntries >= Cardinality(DOMAIN entries)
  /\ memoryUsage >= SizeOf(DOMAIN entries)
=============================================================================
