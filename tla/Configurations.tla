--------------------------- MODULE Configurations ---------------------------
(***************************************************************************)
(* ConfigManager (extractor/config_manager.go) with its file, the auto     *)
(* reload and the environment, the loads and updates of ProviderRegistry   *)
(* (registry/provider_registry.go), and what the factories make a provider *)
(* of (registry/provider_factory.go).                                      *)
(*                                                                         *)
(* A load holds the manager's lock while it reads the file, applies it and *)
(* looks at its time; whoever edits the file does not know of that lock.   *)
(* The file is there all the time, and every write gives it a new time.    *)
(***************************************************************************)
EXTENDS Naturals, Sequences, FiniteSets
LOCAL INSTANCE SequencesExt

CONSTANTS
  Admin,       \* the goroutines that use the manager and the registry
  Watcher,     \* the goroutines of the auto reload
  Nobody, NoSetting,
  Entry,       \* <<"llm" or "embedding", name>>
  ConfigPlans  \* [calls, settings, holds, environment, edits, ticks]

ASSUME ConfigurationsAssumption == Nobody \notin Admin \cup Watcher

VARIABLES
  settings,    \* the manager's: Entry -> a setting or NoSetting
  manager,     \* [auto, overrides, last]; last is 0 without a file
  disk,        \* the file: [holds, time, parses]
  records,     \* what the registry's providers were made of
  holder,      \* whose load holds the lock
  tasks,       \* the call each admin and the tick each watcher is in
  outlook,     \* what is left of the plan
  missed,      \* history: the file was written between the reading and the end of a load
  written      \* history: the entries written since a registry's list, or (Nobody) since a load
configVars == <<settings, manager, disk, records, holder, tasks, outlook, missed, written>>

\* A setting: the kind of the provider, the fields that are not empty, and who
\* wrote it.
Field == {"model", "key", "endpoint", "region", "dimensions", "paths"}

\* DefaultProviderConfig and DefaultEmbeddingProviderConfig.
LlmDefaults(kind) ==
  CASE kind = "bedrock" -> {"model", "region"}
    [] kind \in {"openai", "anthropic", "gemini", "ollama", "deepseek", "mistral"} -> {"model", "endpoint"}
    [] OTHER -> {}
EmbeddingDefaults(kind) ==
  CASE kind \in {"openai", "ollama", "huggingface", "cohere", "gemini", "lmstudio", "openrouter"}
         -> {"model", "dimensions", "endpoint"}
    [] kind \in {"local", "sentence", "onnx"} -> {"model", "dimensions"}
    [] OTHER -> {}

LlmNeeds(kind) ==
  {"model"} \cup CASE kind \in {"openai", "anthropic", "gemini", "deepseek", "mistral"} -> {"key"}
                   [] kind = "ollama" -> {"endpoint"}
                   [] kind = "bedrock" -> {"region"}
                   [] OTHER -> {}
EmbeddingNeeds(kind) ==
  {"model", "dimensions"} \cup CASE kind \in {"openai", "cohere", "huggingface"} -> {"key"}
                                 [] kind = "ollama" -> {"endpoint"}
                                 [] OTHER -> {}
Valid(e, s) == (IF e[1] = "llm" THEN LlmNeeds(s.kind) ELSE EmbeddingNeeds(s.kind)) \subseteq s.given

\* The constructors want more of some kinds; the others are clients that are
\* made of any setting, or stand-ins.
LlmMakes(s) ==
  /\ s.kind # "custom"
  /\ s.kind = "openrouter" => "key" \in s.given
EmbeddingMakes(s) ==
  /\ s.kind # "custom"
  /\ s.kind = "gemini" => "key" \in s.given
  /\ s.kind = "onnx" => "paths" \in s.given
Usable(e, s) == Valid(e, s) /\ IF e[1] = "llm" THEN LlmMakes(s) ELSE EmbeddingMakes(s)

\* The environment makes whole settings, of the defaults and what is there.
FromEnvironment ==
  [e \in Entry |->
     IF e[2] \in outlook.environment /\ (e[1] = "llm" \/ e[2] \in {"openai", "ollama"})
     THEN [kind |-> e[2], by |-> "environment",
           given |-> (IF e[1] = "llm" THEN LlmDefaults(e[2]) ELSE EmbeddingDefaults(e[2]))
                     \cup {IF e[2] = "ollama" THEN "endpoint" ELSE "key"}]
     ELSE NoSetting]

Named(holds) == {e \in Entry : holds[e] # NoSetting}
Overlay(base, upper) == [e \in Entry |-> IF upper[e] = NoSetting THEN base[e] ELSE upper[e]]
Mentioned(call) == {call.entry} \cap Entry

NoTask == [op |-> "none", at |-> "idle", entry |-> "none", is |-> NoSetting, holds |-> <<>>,
           todo |-> <<>>, seen |-> 0, fresh |-> FALSE, out |-> "none"]
Process == Admin \cup Watcher
Does(p, label) == tasks[p].at = label
Doing(p, state) == tasks' = [tasks EXCEPT ![p] = state]
\* A call is over; a watcher waits for its next tick.
Concludes(p, out) == Doing(p, [tasks[p] EXCEPT !.at = IF p \in Watcher THEN "wait" ELSE "return", !.out = out])
Wrote(p, entries) ==
  written' = [q \in DOMAIN written |-> IF q = p THEN written[q] ELSE written[q] \cup entries]
Unheld == holder = Nobody
Unwritten == UNCHANGED <<disk, outlook, missed>>

-----------------------------------------------------------------------------
\* LoadFromFile, up to what it read.
LoadReads(p) ==
  /\ Does(p, "load") /\ Unheld
  /\ IF disk.parses
     THEN Doing(p, [tasks[p] EXCEPT !.at = "apply", !.holds = disk.holds]) /\ holder' = p
     ELSE Concludes(p, "failed") /\ UNCHANGED holder
  /\ missed' = (missed /\ ~disk.parses)
  /\ UNCHANGED <<settings, manager, disk, records, outlook, written>>

\* Mutant of Applied: what the file holds goes over the environment.
AppliedFileLast(base, holds) == Overlay(IF manager.overrides THEN Overlay(base, FromEnvironment) ELSE base, holds)

\* Entries the file does not name stay.
Applied(base, holds) ==
  IF manager.overrides THEN Overlay(Overlay(base, holds), FromEnvironment) ELSE Overlay(base, holds)

LoadEnds(p) ==
  /\ Does(p, "apply")
  /\ settings' = Applied(settings, tasks[p].holds)
  /\ manager' = [manager EXCEPT !.last = disk.time]
  /\ holder' = Nobody
  /\ written' = [q \in DOMAIN written |->
                   IF q = Nobody THEN {}
                   ELSE IF q = p THEN written[q]
                   ELSE written[q] \cup Named(tasks[p].holds) \cup Named(FromEnvironment)]
  /\ IF tasks[p].op = "regload" THEN Doing(p, [tasks[p] EXCEPT !.at = "list"]) ELSE Concludes(p, "ok")
  /\ UNCHANGED <<disk, records, outlook, missed>>

\* LoadFromEnvironment, for the manager or the registry.
LoadsEnvironment(p) ==
  /\ Does(p, "environment") /\ Unheld
  /\ settings' = Overlay(settings, FromEnvironment)
  /\ Wrote(p, Named(FromEnvironment))
  /\ IF tasks[p].op = "regenv" THEN Doing(p, [tasks[p] EXCEPT !.at = "list"]) ELSE Concludes(p, "ok")
  /\ UNCHANGED <<manager, records, holder>> /\ Unwritten

\* Reload: from the file, if there is one.
Reloads(p) ==
  /\ Does(p, "reload")
  /\ Doing(p, [tasks[p] EXCEPT !.at = IF manager.last > 0 THEN "load" ELSE "environment"])
  /\ UNCHANGED <<settings, manager, records, holder, written>> /\ Unwritten

\* SetEnvironmentOverrides; leaving them off takes nothing back.
SetsOverrides(p) ==
  /\ Does(p, "overrides") /\ Unheld
  /\ manager' = [manager EXCEPT !.overrides = tasks[p].is = "on"]
  /\ settings' = IF tasks[p].is = "on" THEN Overlay(settings, FromEnvironment) ELSE settings
  /\ Wrote(p, Named(FromEnvironment)) /\ Concludes(p, "ok")
  /\ UNCHANGED <<records, holder>> /\ Unwritten

SetsConfig(p) ==
  /\ Does(p, "set") /\ Unheld
  /\ IF Valid(tasks[p].entry, tasks[p].is)
     THEN /\ settings' = [settings EXCEPT ![tasks[p].entry] = tasks[p].is]
          /\ Wrote(p, {tasks[p].entry}) /\ Concludes(p, "ok")
     ELSE UNCHANGED <<settings, written>> /\ Concludes(p, "failed")
  /\ UNCHANGED <<manager, records, holder>> /\ Unwritten

RemovesConfig(p) ==
  /\ Does(p, "remove") /\ Unheld
  /\ settings' = [settings EXCEPT ![tasks[p].entry] = NoSetting]
  /\ Wrote(p, {tasks[p].entry})
  /\ Concludes(p, IF settings[tasks[p].entry] = NoSetting THEN "failed" ELSE "ok")
  /\ UNCHANGED <<manager, records, holder>> /\ Unwritten

\* Whoever writes the file: nobody's tick is fresh any more.
Rewrites(holds, parses) ==
  /\ disk' = [holds |-> holds, time |-> disk.time + 1, parses |-> parses]
  /\ missed' = (missed \/ holder # Nobody)

SavesConfig(p) ==
  /\ Does(p, "save") /\ Unheld /\ Rewrites(settings, TRUE)
  /\ tasks' = [q \in Process |-> IF q = p THEN [tasks[p] EXCEPT !.at = "return", !.out = "ok"]
                                 ELSE [tasks[q] EXCEPT !.fresh = FALSE]]
  /\ UNCHANGED <<settings, manager, records, holder, outlook, written>>

Edits ==
  /\ outlook.edits # <<>>
  /\ LET edit == Head(outlook.edits) IN Rewrites(edit.holds, edit.parses)
  /\ outlook' = [outlook EXCEPT !.edits = Tail(@)]
  /\ tasks' = [q \in Process |-> [tasks[q] EXCEPT !.fresh = FALSE]]
  /\ UNCHANGED <<settings, manager, records, holder, written>>

-----------------------------------------------------------------------------
\* EnableAutoReload starts one more watcher, if there is a file.
EnablesReload(p) ==
  /\ Does(p, "watch") /\ Unheld
  /\ manager' = [manager EXCEPT !.auto = TRUE]
  /\ LET unused == {w \in Watcher : Does(w, "idle")}
         ended == [tasks EXCEPT ![p].at = "return", ![p].out = "ok"]
     IN  IF manager.last = 0 THEN tasks' = ended
         ELSE \E w \in unused : tasks' = [ended EXCEPT ![w].at = "wait"]
  /\ UNCHANGED <<settings, records, holder, written>> /\ Unwritten

DisablesReload(p) ==
  /\ Does(p, "unwatch") /\ Unheld
  /\ manager' = [manager EXCEPT !.auto = FALSE] /\ Concludes(p, "ok")
  /\ UNCHANGED <<settings, records, holder, written>> /\ Unwritten

WatcherTicks(w) ==
  /\ Does(w, "wait") /\ Unheld /\ outlook.ticks > 0
  /\ outlook' = [outlook EXCEPT !.ticks = @ - 1]
  /\ Doing(w, [tasks[w] EXCEPT !.at = IF manager.auto THEN "stat" ELSE "over",
                               !.seen = manager.last, !.fresh = TRUE, !.out = "none"])
  /\ UNCHANGED <<settings, manager, disk, records, holder, missed, written>>

WatcherStats(w) ==
  /\ Does(w, "stat")
  /\ IF disk.time > tasks[w].seen THEN Doing(w, [tasks[w] EXCEPT !.at = "load"]) ELSE Concludes(w, "ok")
  /\ UNCHANGED <<settings, manager, records, holder, written>> /\ Unwritten

-----------------------------------------------------------------------------
\* registerProvidersFromConfig: copies of what there is, language models
\* first, each kind in any order; the first that cannot be registered ends it.
ListsConfigs(p) ==
  /\ Does(p, "list") /\ Unheld
  /\ \E llms \in SetToSeqs({e \in Named(settings) : e[1] = "llm"}),
        embeddings \in SetToSeqs({e \in Named(settings) : e[1] = "embedding"}) :
       LET order == llms \o embeddings
       IN  Doing(p, [tasks[p] EXCEPT !.at = "register",
                       !.todo = [k \in DOMAIN order |-> [entry |-> order[k], is |-> settings[order[k]]]]])
  /\ written' = [written EXCEPT ![p] = {}]
  /\ UNCHANGED <<settings, manager, records, holder>> /\ Unwritten

\* The record and the setting are written under the registry's lock.
Keeps(p, e, s) ==
  /\ records' = [records EXCEPT ![e] = s]
  /\ settings' = [settings EXCEPT ![e] = s]
  /\ Wrote(p, {e})

RegistersListed(p) ==
  /\ Does(p, "register")
  /\ IF tasks[p].todo = <<>> THEN Concludes(p, "ok") /\ UNCHANGED <<settings, records, written>>
     ELSE LET next == Head(tasks[p].todo)
          IN  IF Usable(next.entry, next.is)
              THEN Unheld /\ Keeps(p, next.entry, next.is) /\ Doing(p, [tasks[p] EXCEPT !.todo = Tail(@)])
              ELSE Concludes(p, "failed") /\ UNCHANGED <<settings, records, written>>
  /\ UNCHANGED <<manager, holder>> /\ Unwritten

\* UpdateLLMProviderConfig: the provider there is is configured.
UpdatesProvider(p) ==
  /\ Does(p, "update")
  /\ IF records[tasks[p].entry] # NoSetting /\ Valid(tasks[p].entry, tasks[p].is)
     THEN Unheld /\ Keeps(p, tasks[p].entry, tasks[p].is) /\ Concludes(p, "ok")
     ELSE Concludes(p, "failed") /\ UNCHANGED <<settings, records, written>>
  /\ UNCHANGED <<manager, holder>> /\ Unwritten

-----------------------------------------------------------------------------
\* Where a call begins.
Entrance(op) == IF op = "regload" THEN "load" ELSE IF op = "regenv" THEN "environment" ELSE op

ConfigCalls(p) ==
  /\ p \in Admin
  /\ \/ /\ Does(p, "idle") /\ outlook.calls[p] # <<>>
        /\ LET next == Head(outlook.calls[p])
           IN  Doing(p, [NoTask EXCEPT !.op = next.op, !.at = Entrance(next.op), !.entry = next.entry, !.is = next.is])
        /\ outlook' = [outlook EXCEPT !.calls[p] = Tail(@)]
     \/ Does(p, "return") /\ Doing(p, NoTask) /\ UNCHANGED outlook
  /\ UNCHANGED <<settings, manager, disk, records, holder, missed, written>>

ConfigInit(plan) ==
  /\ settings = plan.settings /\ records = [e \in Entry |-> NoSetting]
  /\ manager = [auto |-> FALSE, overrides |-> TRUE, last |-> 0]
  /\ disk = [holds |-> plan.holds, time |-> 1, parses |-> TRUE]
  /\ holder = Nobody /\ tasks = [p \in Process |-> NoTask]
  /\ outlook = [calls |-> plan.calls, edits |-> plan.edits, ticks |-> plan.ticks, environment |-> plan.environment]
  /\ missed = FALSE /\ written = [p \in Process \cup {Nobody} |-> IF p = Nobody THEN Entry ELSE {}]

ConfigNext ==
  \/ Edits
  \/ \E p \in Process :
       \/ ConfigCalls(p) \/ LoadReads(p) \/ LoadEnds(p) \/ LoadsEnvironment(p) \/ Reloads(p) \/ SetsOverrides(p)
       \/ SetsConfig(p) \/ RemovesConfig(p) \/ SavesConfig(p) \/ EnablesReload(p) \/ DisablesReload(p)
       \/ WatcherTicks(p) \/ WatcherStats(p) \/ ListsConfigs(p) \/ RegistersListed(p) \/ UpdatesProvider(p)

ConfigSpec == (\E plan \in ConfigPlans : ConfigInit(plan)) /\ [][ConfigNext]_configVars

-----------------------------------------------------------------------------
\* When the manager takes the file for loaded (config_manager.go:195), what
\* the file holds is what it has, under the environment (:190); only a write
\* between the reading and the look at the time escapes it.
FileIsFollowed ==
  holder = Nobody /\ manager.last = disk.time /\ disk.parses /\ ~missed =>
    \A e \in Named(disk.holds) \ written[Nobody] :
      settings[e] = IF manager.overrides /\ FromEnvironment[e] # NoSetting THEN FromEnvironment[e] ELSE disk.holds[e]

\* A tick that began after the last write leaves that write loaded, whatever
\* else is called meanwhile, if it can be loaded (:560).
WatchersCatchUp ==
  \A w \in Watcher :
    Does(w, "wait") /\ tasks[w].fresh =>
      \/ manager.last = disk.time
      \/ tasks[w].out = "failed" /\ ~disk.parses

\* The registry has no provider of a setting a factory refuses, and when it
\* has loaded, a provider of every setting nobody wrote meanwhile
\* (provider_registry.go:596).
RegisteredAsLoaded ==
  /\ \A e \in Named(records) : Valid(e, records[e])
  /\ \A p \in Admin : Does(p, "return") /\ tasks[p].op \in {"regload", "regenv"} /\ tasks[p].out = "ok" =>
       \A e \in Named(settings) \ written[p] : records[e] = settings[e]
=============================================================================
