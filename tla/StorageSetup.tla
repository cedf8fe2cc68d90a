---------------------------- MODULE StorageSetup ----------------------------
(***************************************************************************)
(* ConfigFactory (storage/config_factory.go): the profiles, the            *)
(* environment, the file and the validation of a storage configuration;    *)
(* and NewPooledStorageManager (storage/connections.go), which opens a     *)
(* pool for each of its parts, with the connections of the four kinds.     *)
(*                                                                         *)
(* A configuration points to its three parts, which others may point to as *)
(* well: the parts are in a heap.  The pools are first in first out and    *)
(* no more; ConnectionPool has what goes on inside one.                    *)
(***************************************************************************)
EXTENDS Naturals, Sequences, FiniteSets
LOCAL INSTANCE TLC

CONSTANTS
  Operator,    \* the goroutines that use the factory, the manager and the monitor
  NoPart,      \* a nil pointer to a part
  SetupPlans   \* [calls, vars, file, changes, ticks, auto, alone]

VARIABLES
  heap,        \* the parts: reference -> part
  factory,     \* [profiles, file]
  pools,       \* Side -> [at, ref, max, idle, made]
  kept,        \* <<side, store, item>>: what has been written
  jobs,        \* the call each operator is in, and the configuration it holds
  system,      \* [at, todo, why, accepted] of the manager
  condition,   \* Side -> how its backend is
  ahead,       \* what is left of the plan
  lent,        \* history: the parts GetProfile gave or AddProfile took
  edited       \* history: the parts that were written through a configuration
setupVars == <<heap, factory, pools, kept, jobs, system, condition, ahead, lent, edited>>

Sides == <<"relational", "graph", "vector">>
Side == {"relational", "graph", "vector"}
\* Crowded: others have more than nine of ten connections, full: all of them.
Condition == {"serving", "crowded", "full", "down"}

\* A part: its backend, its bounds, place (the database it names or, for
\* vectors, whether it has a dimension), and which backends it has a section for.
Part(type, max, min, place) == [type |-> type, max |-> max, min |-> min, place |-> place, sections |-> {}]

\* DefaultStorageConfig; graphs and vectors have no minimum of their own.
DefaultParts ==
  [relational |-> Part("sqlite", 10, 1, "named"), graph |-> Part("inmemory", 10, 0, "named"),
   vector |-> Part("inmemory", 10, 0, "named")]

\* NewConfigFactory and addCommonProfiles.
ProfileName == {"default", "file-based", "cloud", "development", "hybrid"}
ProfileParts(name) ==
  CASE name = "default" -> DefaultParts
    [] name = "file-based" -> [DefaultParts EXCEPT !.relational.max = 5, !.graph.type = "sqlite", !.vector.type = "sqlite"]
    [] name = "cloud" -> [relational |-> Part("postgresql", 50, 5, "named"), graph |-> [Part("neo4j", 20, 0, "named") EXCEPT !.sections = {"neo4j"}],
                          vector |-> [Part("qdrant", 20, 0, "named") EXCEPT !.sections = {"qdrant"}]]
    [] name = "development" -> [DefaultParts EXCEPT !.relational.max = 5, !.relational.place = "memory"]
    [] name = "hybrid" -> [DefaultParts EXCEPT !.relational.type = "postgresql", !.graph.type = "surrealdb",
                                               !.vector.type = "pgvector"]

\* The backends a pool can be made for.
Registered(side) ==
  CASE side = "relational" -> {"sqlite", "postgresql"}
    [] side = "graph" -> {"inmemory", "sqlite", "redis", "neo4j"}
    [] side = "vector" -> {"inmemory", "sqlite", "redis", "qdrant", "pgvector"}

\* What the environment says over a part; a number that does not parse is not
\* there.
OverlayRelational(part, said) ==
  [part EXCEPT !.type = IF said.type = "" THEN @ ELSE said.type,
               !.place = IF said.place = "" THEN @ ELSE said.place,
               !.max = IF said.number = {} THEN @ ELSE CHOOSE n \in said.number : TRUE]
\* A section is made as soon as one of its variables is there, whatever the
\* backend is.
Sections(part, said) == part.sections \cup said.sections
OverlayGraph(part, said) ==
  [part EXCEPT !.type = IF said.type = "" THEN @ ELSE said.type, !.place = IF said.place = "" THEN @ ELSE said.place,
               !.sections = Sections(part, said)]
OverlayVector(part, said) ==
  [part EXCEPT !.type = IF said.type = "" THEN @ ELSE said.type,
               !.place = CASE said.number = {} -> @ [] said.number = {0} -> "" [] OTHER -> "named",
               !.sections = Sections(part, said)]
FromVars(vars) ==
  [relational |-> OverlayRelational(DefaultParts.relational, vars.relational),
   graph |-> OverlayGraph(DefaultParts.graph, vars.graph), vector |-> OverlayVector(DefaultParts.vector, vars.vector)]

\* Only JSON has names of its own for the fields: YAML knows max_connections
\* and its like as maxconnections, and leaves what it does not know at zero.
NamesOf(format) == IF format = "json" THEN "snake" ELSE "plain"
Decoded(part, format, names) ==
  IF part = NoPart \/ names = NamesOf(format) THEN part ELSE [part EXCEPT !.max = 0, !.min = 0]

-----------------------------------------------------------------------------
NoConfiguration == [env |-> "none", sides |-> [s \in Side |-> NoPart]]
\* The part a configuration has, if it has one.
At(config, side) == IF config.sides[side] = NoPart THEN NoPart ELSE heap[config.sides[side]]

JobAt(p, label) == jobs[p].at = label
Turns(p, job) == jobs' = [jobs EXCEPT ![p] = job]
Ends(p, out) == Turns(p, [jobs[p] EXCEPT !.at = "idle", !.out = out])
Holds(p, config) == Turns(p, [jobs[p] EXCEPT !.at = "idle", !.out = "ok", !.config = config, !.accepted = FALSE])
\* New parts, named after who made them and when.
Fresh(p, side) == <<p, Len(ahead.calls[p]), side>>
Allocates(p, parts) ==
  LET there == {s \in Side : parts[s] # NoPart}
  IN  heap' = heap @@ [r \in {Fresh(p, s) : s \in there} |-> parts[r[3]]]
Fetched(p, env, parts) ==
  [env |-> env, sides |-> [s \in Side |-> IF parts[s] = NoPart THEN NoPart ELSE Fresh(p, s)]]
Untold == UNCHANGED <<pools, kept, system, condition, ahead>>

\* GetProfile copies the top and shares the parts.
GetsProfile(p) ==
  /\ JobAt(p, "profile")
  /\ Holds(p, factory.profiles[jobs[p].name])
  /\ lent' = lent \cup {factory.profiles[jobs[p].name].sides[s] : s \in Side}
  /\ UNCHANGED <<heap, factory, edited>> /\ Untold

\* AddProfile keeps the pointer it is ahead.
AddsProfile(p) ==
  /\ JobAt(p, "add")
  /\ factory' = [factory EXCEPT !.profiles[jobs[p].name] = jobs[p].config]
  /\ lent' = lent \cup {jobs[p].config.sides[s] : s \in Side}
  /\ Ends(p, "ok")
  /\ UNCHANGED <<heap, edited>> /\ Untold

\* Mutant of LoadsVariables: it starts from the default profile.
LoadsOverProfile(p) ==
  /\ JobAt(p, "environment")
  /\ LET config == factory.profiles["default"]
     IN  /\ heap' = [r \in DOMAIN heap |-> IF \E s \in Side : config.sides[s] = r THEN FromVars(ahead.vars)[r[3]] ELSE heap[r]]
         /\ Holds(p, config)
  /\ UNCHANGED <<factory, lent, edited>> /\ Untold

LoadsVariables(p) ==
  /\ JobAt(p, "environment")
  /\ Allocates(p, FromVars(ahead.vars)) /\ Holds(p, Fetched(p, ahead.vars.env, FromVars(ahead.vars)))
  /\ UNCHANGED <<factory, lent, edited>> /\ Untold

\* LoadFromFile: what the file does not say is zero, not the default.
LoadsFile(p) ==
  /\ JobAt(p, "load")
  /\ LET file == factory.file
         parts == [s \in Side |-> Decoded(file.parts[s], file.format, file.names)]
     IN  IF file.format \in {"json", "yaml"}
         THEN Allocates(p, parts) /\ Holds(p, Fetched(p, file.env, parts))
         ELSE Ends(p, "failed") /\ UNCHANGED heap
  /\ UNCHANGED <<factory, lent, edited>> /\ Untold

\* SaveToFile, in the format of the extension the caller wants.
SavesFile(p) ==
  /\ JobAt(p, "save")
  /\ IF jobs[p].name \in {"json", "yaml"}
     THEN /\ factory' = [factory EXCEPT !.file =
                           [format |-> jobs[p].name, names |-> NamesOf(jobs[p].name), env |-> jobs[p].config.env,
                            parts |-> [s \in Side |-> At(jobs[p].config, s)]]]
          /\ Ends(p, "ok")
     ELSE Ends(p, "failed") /\ UNCHANGED factory
  /\ UNCHANGED <<heap, lent, edited>> /\ Untold

\* ValidateConfig.
AcceptsRelational(part) == part # NoPart /\ part.type # "" /\ part.place # "" /\ part.max > 0
AcceptsGraph(part) == part # NoPart /\ part.type # "" /\ part.max > 0
AcceptsVector(part) == part # NoPart /\ part.type # "" /\ part.place # "" /\ part.max > 0
Accepts(config) ==
  AcceptsRelational(At(config, "relational")) /\ AcceptsGraph(At(config, "graph")) /\ AcceptsVector(At(config, "vector"))

Validates(p) ==
  /\ JobAt(p, "validate")
  /\ Turns(p, [jobs[p] EXCEPT !.at = "idle", !.out = IF Accepts(jobs[p].config) THEN "ok" ELSE "failed",
                              !.accepted = Accepts(jobs[p].config)])
  /\ UNCHANGED <<heap, factory, lent, edited>> /\ Untold

\* Whoever holds a configuration writes to it: to its top, or to a part.
EditsConfig(p) ==
  /\ JobAt(p, "edit")
  /\ LET side == jobs[p].name
         ref == jobs[p].config.sides[side]
     IN  /\ ref # NoPart
         /\ heap' = [heap EXCEPT ![ref] = jobs[p].part]
         /\ edited' = edited \cup {ref}
  /\ Turns(p, [jobs[p] EXCEPT !.at = "idle", !.config.env = "edited", !.accepted = FALSE])
  /\ UNCHANGED <<factory, lent>> /\ Untold

-----------------------------------------------------------------------------
\* A store of its own is behind every connection that is made of memory.
IsPrivate(part) == part.type = "inmemory" \/ part.place = "memory"
\* What Ping and ValidateConnection find of a connection that is open.
Answers(side) == condition[side] # "down"
\* Get of the pool finds none idle and may not make one: it waits.
Full(side) == condition[side] = "full" \/ (pools[side].idle = <<>> /\ pools[side].made >= pools[side].max)
Connection(side, n) == IF IsPrivate(heap[pools[side].ref]) THEN n ELSE 0
MinIdle(side, part) == IF side = "relational" THEN part.min ELSE 2

\* NewPooledStorageManager.
Constructs(p) ==
  /\ JobAt(p, "build") /\ system.at = "none"
  /\ system' = [system EXCEPT !.at = "building", !.todo = Sides, !.accepted = jobs[p].accepted]
  /\ Turns(p, [jobs[p] EXCEPT !.at = "pools"])
  /\ UNCHANGED <<heap, factory, pools, kept, condition, ahead, lent, edited>>

\* Why the pool of a part cannot be made: NewGenericConnectionPool and, inside
\* it, CreateConnection.
Objection(side, part) ==
  CASE side = "relational" /\ part.type \notin Registered(side) -> "type"
    [] part.max = 0 -> "bound"
    [] MinIdle(side, part) > part.max -> "idle"
    [] MinIdle(side, part) > 0 /\ part.type \notin Registered(side) -> "type"
    [] MinIdle(side, part) > 0 /\ ~Answers(side) -> "down"
    [] OTHER -> "none"

\* initializePools takes the parts in order; when one fails, the pools there
\* are stay open and nobody has them.
OpensPool(p) ==
  /\ JobAt(p, "pools") /\ system.todo # <<>>
  /\ LET side == Head(system.todo)
         part == At(jobs[p].config, side)
         why == IF part = NoPart THEN "none" ELSE Objection(side, part)
     IN  IF why = "none"
         THEN /\ pools' = IF part = NoPart THEN pools ELSE
                   [pools EXCEPT ![side] =
                      [at |-> "open", ref |-> jobs[p].config.sides[side], max |-> part.max, made |-> MinIdle(side, part),
                       idle |-> [n \in 1..MinIdle(side, part) |-> <<n, IF IsPrivate(part) THEN n ELSE 0>>]]]
              /\ system' = [system EXCEPT !.todo = Tail(@)] /\ UNCHANGED jobs
         ELSE system' = [system EXCEPT !.at = "failed", !.why = why] /\ Ends(p, "failed") /\ UNCHANGED pools
  /\ UNCHANGED <<heap, factory, kept, condition, ahead, lent, edited>>

-----------------------------------------------------------------------------
\* Get of the pool takes the first that is idle, or makes one more while the bound
\* the pool was made with allows it.
Borrowed(side) ==
  LET pool == pools[side]
      made == pool.made + 1
  IN  IF pool.idle # <<>> THEN [conn |-> Head(pool.idle), pool |-> [pool EXCEPT !.idle = Tail(@)]]
      ELSE [conn |-> <<made, Connection(side, made)>>, pool |-> [pool EXCEPT !.made = made]]

\* A connection is borrowed, used and put back.
Borrows(p) ==
  LET side == jobs[p].name
      open == pools[side].at = "open"
  IN  /\ jobs[p].at \in {"write", "read"} /\ (open => ~Full(side))
      /\ IF ~open \/ ~Answers(side) THEN Ends(p, "failed") /\ UNCHANGED pools
         ELSE /\ pools' = [pools EXCEPT ![side] = Borrowed(side).pool]
              /\ Turns(p, [jobs[p] EXCEPT !.at = "holding", !.conn = Borrowed(side).conn])
      /\ UNCHANGED <<heap, factory, kept, system, condition, ahead, lent, edited>>

\* What is read is what was written to the store behind the connection.
Returns(p) ==
  /\ JobAt(p, "holding")
  /\ LET side == jobs[p].name
         conn == jobs[p].conn
         written == {w[3] : w \in {k \in kept : k[1] = side}}
         found == {w[3] : w \in {k \in kept : k[1] = side /\ k[2] = conn[2]}}
     IN  /\ kept' = IF jobs[p].op = "write" THEN kept \cup {<<side, conn[2], jobs[p].item>>} ELSE kept
         /\ Turns(p, [jobs[p] EXCEPT !.at = "idle", !.out = "ok",
                                     !.missing = IF jobs[p].op = "read" THEN written \ found ELSE {}])
         /\ pools' = IF pools[side].at = "open" THEN [pools EXCEPT ![side].idle = Append(@, conn)] ELSE pools
  /\ UNCHANGED <<heap, factory, system, condition, ahead, lent, edited>>

-----------------------------------------------------------------------------
SetupStep(p) ==
  \/ GetsProfile(p) \/ AddsProfile(p) \/ LoadsVariables(p) \/ LoadsFile(p) \/ SavesFile(p)
  \/ Validates(p) \/ EditsConfig(p) \/ Constructs(p) \/ OpensPool(p) \/ Borrows(p) \/ Returns(p)

NoJob == [op |-> "none", at |-> "idle", name |-> "none", part |-> NoPart, item |-> "none", out |-> "none",
          config |-> NoConfiguration, accepted |-> FALSE, conn |-> <<0, 0>>, missing |-> {}]

SetupInit(plan) ==
  /\ heap = [r \in {<<n, 0, s>> : n \in ProfileName, s \in Side} |-> ProfileParts(r[1])[r[3]]]
  /\ factory = [profiles |-> [n \in ProfileName |-> [env |-> n, sides |-> [s \in Side |-> <<n, 0, s>>]]],
                file |-> plan.file]
  /\ pools = [s \in Side |-> [at |-> "none", ref |-> NoPart, max |-> 0, idle |-> <<>>, made |-> 0]]
  /\ kept = {} /\ jobs = [p \in Operator |-> NoJob]
  /\ system = [at |-> "none", todo |-> <<>>, why |-> "none", accepted |-> FALSE]
  /\ condition = [s \in Side |-> "serving"] /\ ahead = plan
  /\ lent = {} /\ edited = {}

-----------------------------------------------------------------------------
\* A profile says what it was made to say, unless a part of it was handed out
\* (GetProfile means its copy "to prevent modification", config_factory.go:192)
\* and then written to; loading the environment or a file writes to none.
ProfilesAreKept ==
  \A n \in ProfileName, s \in Side :
    LET ref == <<n, 0, s>>
    IN  heap[ref] # ProfileParts(n)[s] => ref \in lent \cap edited

\* A configuration that was accepted and then not touched makes a manager with
\* all three pools, but for a backend that is down, a type nobody registered
\* and a bound below the two connections the pools of graphs and vectors begin
\* with (connections.go:667).
AcceptedIsBuilt ==
  system.accepted /\ edited = {} =>
    /\ system.at = "failed" => system.why \in {"type", "idle", "down"}
    /\ system.at = "open" => \A s \in Side : pools[s].at = "open"

\* What is written over a connection of a pool is read over every other,
\* unless the pool's stores are in memory: then each connection has its own
\* (connections.go:399,433).
WritesAreFound ==
  \A p \in Operator : jobs[p].missing # {} =>
    IsPrivate(heap[pools[jobs[p].name].ref]) \/ pools[jobs[p].name].ref \in edited
=============================================================================
