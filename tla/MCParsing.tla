------------------------------ MODULE MCParsing ------------------------------
EXTENDS Parsing, TLC
Op(op, of) == [op |-> op, of |-> of]
\* Two clients, their limits and what happens around them.
Plan(a, b) ==
  [calls |-> "c1" :> a @@ "c2" :> b,
   limits |-> [entries |-> 1, memory |-> 4, policy |-> "lru"],
   text |-> [s \in Source |-> <<1>>],
   chunking |-> [max |-> 4, min |-> 1, overlap |-> 2],
   size |-> [s \in Source |-> IF s = "g" THEN 2 ELSE 1],
   persistent |-> FALSE, rewrites |-> 0, expiries |-> 0, cancels |-> 0, kills |-> 0]
SomePlans ==
  {\* the cache: an eviction against a lookup, changes of the file
   [Plan(<<Op("file", <<"f">>), Op("file", <<"f">>)>>,
         <<Op("file", <<"f">>), Op("file", <<"g">>), Op("file", <<"t">>)>>) EXCEPT !.rewrites = 1],
   [Plan(<<Op("file", <<"f">>), Op("file", <<"f">>)>>,
         <<Op("file", <<"f">>), Op("invalidate", <<"f">>)>>)
      EXCEPT !.rewrites = 1, !.expiries = 1, !.limits.policy = "fifo"],
   \* a new process
   [Plan(<<Op("batch", <<"f">>), Op("close", <<>>)>>, <<>>)
      EXCEPT !.persistent = TRUE, !.kills = 1, !.rewrites = 1, !.expiries = 1, !.limits.entries = 2],
   \* the memory limit: g takes half of it, f more
   [Plan(<<Op("file", <<"f">>), Op("file", <<"g">>)>>, <<Op("file", <<"g">>), Op("file", <<"f">>)>>)
      EXCEPT !.limits.entries = 3, !.size["f"] = 3],
   \* the pool
   [Plan(<<Op("batch", <<"f", "g">>)>>, <<Op("batch", <<"f">>)>>) EXCEPT !.cancels = 1],
   Plan(<<Op("batch", <<"f">>), Op("close", <<>>)>>, <<Op("batch", <<"g">>), Op("close", <<>>)>>),
   Plan(<<Op("parallel", <<"f", "g">>)>>, <<Op("batch", <<"f">>), Op("stop", <<>>)>>)}
\* Every text of up to four sentences, some too large for a chunk.
MCTexts == UNION {[1..n -> {1, 2, 3, 5}] : n \in 0..4}
MCPlans ==
  SomePlans \cup
  {[Plan(<<Op("file", <<"t">>)>>, <<>>) EXCEPT !.text["t"] = text, !.chunking = [max |-> 4, min |-> m, overlap |-> o]] :
     text \in MCTexts, m \in 0..2, o \in {0, 2, 4}}
MCNoPlan == Plan(<<>>, <<>>)
\* Every document of up to seven characters, of two kinds, and some of three.
Of(kinds, n) == UNION {[1..k -> kinds] : k \in 1..n}
MCDocuments ==
  {[kinds |-> d, strategy |-> "paragraph", config |-> [max |-> 5, min |-> 2, overlap |-> 2]] :
     d \in Of({"x", "n"}, 7)}
  \cup {[kinds |-> d, strategy |-> "sentence", config |-> [max |-> 4, min |-> 2, overlap |-> 2]] :
     d \in Of({"x", "."}, 7) \cup Of({"x", ".", "n"}, 4)}
  \cup {[kinds |-> [i \in 1..n |-> "x"], strategy |-> "fixed", config |-> [max |-> 4, min |-> m, overlap |-> o]] :
     n \in 1..9, m \in 0..1, o \in 1..3}
=============================================================================
