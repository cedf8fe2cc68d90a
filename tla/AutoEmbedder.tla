---------------------------- MODULE AutoEmbedder ----------------------------
(***************************************************************************)
(* AutoEmbedder (vector/embedder.go): a primary provider, fallbacks and a  *)
(* cache of embeddings by the text alone.  primary and fallbacks are read  *)
(* without the lock.  An embedding is the text it is of and the provider   *)
(* it is by; an entry past its 24 hours is as none, and the sweep only     *)
(* frees it.                                                               *)
(***************************************************************************)
EXTENDS Naturals, Sequences, FiniteSets, SequencesExt

CONSTANTS Caller, Embedder, Text

VARIABLES
  embedders,  \* ae.providers
  primary, fallbacks,
  cache,      \* the embeddings that have not expired
  reachable,  \* the providers that answer at present
  request     \* the call each client is in

embedderVars == <<embedders, primary, fallbacks, cache, reachable, request>>

\* texts: of the call; got: embeddings, by index.  left: the indices that were
\* not cached; one: the index at hand; tries: the fallbacks still to be asked;
\* by: the provider that answered; error: what the call fails with.
NoRequest == [op |-> "none", at |-> "idle", texts |-> <<>>, got |-> <<>>, left |-> <<>>,
              one |-> 1, tries |-> <<>>, by |-> "none", error |-> "none"]

Embedding == [of : Text, by : Embedder]
Configured == {primary} \cup ToSet(fallbacks)
Usable(p) == p \in embedders /\ p \in reachable

EmbedderTypeOK ==
  /\ embedders \subseteq Embedder /\ primary \in Embedder /\ fallbacks \in Seq(Embedder)
  /\ DOMAIN cache \subseteq Text /\ \A t \in DOMAIN cache : cache[t] \in Embedding
  /\ \A c \in Caller : DOMAIN request[c].got \subseteq DOMAIN request[c].texts

EmbedderInit ==
  /\ embedders = {} /\ primary \in Embedder /\ fallbacks = <<>>
  /\ cache = <<>> /\ reachable = Embedder
  /\ request = [c \in Caller |-> NoRequest]

Is(c, label) == request[c].at = label
Becomes(c, state) == request' = [request EXCEPT ![c] = state]
Settled == UNCHANGED <<embedders, primary, fallbacks, reachable>>
TheText(c) == request[c].texts[request[c].one]
With(f, x, value) == [y \in DOMAIN f \cup {x} |-> IF y = x THEN value ELSE f[y]]
Got(c, k, vector) == [request[c] EXCEPT !.got = With(@, k, vector)]

-----------------------------------------------------------------------------
AddEmbedder(p) ==
  /\ embedders' = embedders \cup {p}
  /\ UNCHANGED <<primary, fallbacks, cache, reachable, request>>

\* Both refuse a provider that was not added.
SetPrimary(p) ==
  /\ primary' = IF p \in embedders THEN p ELSE primary
  /\ UNCHANGED <<embedders, fallbacks, cache, reachable, request>>

AddFallback(p) ==
  /\ fallbacks' = IF p \in embedders THEN Append(fallbacks, p) ELSE fallbacks
  /\ UNCHANGED <<embedders, primary, cache, reachable, request>>

-----------------------------------------------------------------------------
\* GenerateEmbedding of the text at hand, for its caller or for what a batch
\* could not get at once.
NextText(state) ==
  LET left == IF state.left = <<>> THEN <<>> ELSE Tail(state.left)
  IN  IF left = <<>> THEN [state EXCEPT !.left = left, !.at = "return"]
      ELSE [state EXCEPT !.left = left, !.one = Head(left), !.at = "lookup"]

Looks(c) ==
  /\ Is(c, "lookup")
  /\ Becomes(c, IF TheText(c) \in DOMAIN cache
                THEN NextText(Got(c, request[c].one, cache[TheText(c)]))
                ELSE [request[c] EXCEPT !.at = "primary"])
  /\ Settled /\ UNCHANGED cache

AsksPrimary(c) ==
  /\ Is(c, "primary")
  /\ Becomes(c, IF Usable(primary) THEN [request[c] EXCEPT !.by = primary, !.at = "keep"]
                ELSE [request[c] EXCEPT !.at = "fallbacks"])
  /\ Settled /\ UNCHANGED cache

\* The list is read once; one that is added later is not tried.
ReadsFallbacks(c) ==
  /\ Is(c, "fallbacks")
  /\ Becomes(c, [request[c] EXCEPT !.tries = fallbacks, !.at = "try"])
  /\ Settled /\ UNCHANGED cache

TriesFallback(c) ==
  /\ Is(c, "try")
  /\ LET tries == request[c].tries
     IN  Becomes(c, IF tries = <<>> THEN [request[c] EXCEPT !.error = "all failed", !.at = "return"]
                    ELSE IF Usable(Head(tries))
                         THEN [request[c] EXCEPT !.by = Head(tries), !.tries = <<>>, !.at = "keep"]
                         ELSE [request[c] EXCEPT !.tries = Tail(@)])
  /\ Settled /\ UNCHANGED cache

Keeps(c) ==
  /\ Is(c, "keep")
  /\ LET vector == [of |-> TheText(c), by |-> request[c].by]
     IN  /\ cache' = With(cache, TheText(c), vector)
         /\ Becomes(c, NextText(Got(c, request[c].one, vector)))
  /\ Settled

-----------------------------------------------------------------------------
\* GenerateBatchEmbeddings: what is cached; the rest from the primary at once,
\* each for the index its text came from; or, if it fails, one by one.
Scans(c) ==
  /\ Is(c, "scan")
  /\ LET k == request[c].one
         seen == IF TheText(c) \in DOMAIN cache THEN Got(c, k, cache[TheText(c)])
                 ELSE [request[c] EXCEPT !.left = Append(@, k)]
     IN  Becomes(c, IF k < Len(request[c].texts) THEN [seen EXCEPT !.one = k + 1]
                    ELSE [seen EXCEPT !.at = IF seen.left = <<>> THEN "return" ELSE "batch"])
  /\ Settled /\ UNCHANGED cache

\* A primary that was never added is an error here, though not above.
AsksForAll(c) ==
  /\ Is(c, "batch")
  /\ Becomes(c, IF primary \notin embedders THEN [request[c] EXCEPT !.error = "no primary", !.at = "return"]
                ELSE IF Usable(primary) THEN [request[c] EXCEPT !.by = primary, !.at = "fill"]
                ELSE [request[c] EXCEPT !.one = Head(request[c].left), !.at = "lookup"])
  /\ Settled /\ UNCHANGED cache

\* Mutant of Fills: the answers are put one after the other, not where their
\* texts came from.
FillsInOrder(c) ==
  /\ Is(c, "fill")
  /\ LET k == Head(request[c].left)
         vector == [of |-> request[c].texts[k], by |-> request[c].by]
         left == Tail(request[c].left)
     IN  /\ cache' = With(cache, request[c].texts[k], vector)
         /\ Becomes(c, [Got(c, Cardinality(DOMAIN request[c].got) + 1, vector) EXCEPT !.left = left,
                          !.at = IF left = <<>> THEN "return" ELSE "fill"])
  /\ Settled

\* The answers are in the order of the texts that were sent.
Fills(c) ==
  /\ Is(c, "fill")
  /\ LET k == Head(request[c].left)
         vector == [of |-> request[c].texts[k], by |-> request[c].by]
         left == Tail(request[c].left)
     IN  /\ cache' = With(cache, request[c].texts[k], vector)
         /\ Becomes(c, [Got(c, k, vector) EXCEPT !.left = left,
                          !.at = IF left = <<>> THEN "return" ELSE "fill"])
  /\ Settled

EmbedderStep(c) ==
  \/ Looks(c) \/ AsksPrimary(c) \/ ReadsFallbacks(c) \/ TriesFallback(c) \/ Keeps(c)
  \/ Scans(c) \/ AsksForAll(c) \/ Fills(c)

\* The world: an entry grows old, a provider stops answering or answers again.
CacheExpires(t) ==
  /\ t \in DOMAIN cache /\ cache' = [u \in DOMAIN cache \ {t} |-> cache[u]]
  /\ Settled /\ UNCHANGED request

Reaches(p) ==
  /\ reachable' = IF p \in reachable THEN reachable \ {p} ELSE reachable \cup {p}
  /\ UNCHANGED <<embedders, primary, fallbacks, cache, request>>
=============================================================================
