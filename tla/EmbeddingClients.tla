-------------------------- MODULE EmbeddingClients --------------------------
(***************************************************************************)
(* One embedding provider and its callers: the client of the OpenAI        *)
(* service (extractor/providers/embedding/openai, which LM Studio's        *)
(* embeds) or that of Gemini (extractor/providers/llm/gemini).             *)
(*                                                                         *)
(* The object keeps a model and a length of vectors.  A call that wants    *)
(* another length writes it into the object, embeds, and writes the old    *)
(* one back; whoever embeds meanwhile takes what is there.  The service is *)
(* external: it answers with vectors of the length asked for, the model's  *)
(* own if none is, refuses a longer one, and may fail.                     *)
(***************************************************************************)
EXTENDS Naturals, Sequences, FiniteSets, TLC

CONSTANTS
  User,       \* the goroutines that call it
  Phrase,     \* what they have embedded
  EmbedModel, \* the models' names, those the clients do not know as well
  EmbedPlans  \* what they may do: [kind, model, calls]

\* The calls; those that embed, and those that set the object up.
Embeds == {"embed", "batch", "dedup"}
EmbedCall == [op : Embeds \cup {"setmodel", "configure", "setdims"}, texts : Seq(Phrase), dims : Nat,
              model : EmbedModel]

ASSUME EmbeddingClientsAssumption ==
  /\ IsFiniteSet(User)
  /\ \A plan \in EmbedPlans : plan.model \in EmbedModel /\ plan.calls \in [User -> Seq(EmbedCall)]

VARIABLES
  emb,        \* the object: [kind, model, dims, config]
  usage,      \* its counters
  asks,       \* the call each user is in
  asked,      \* what is left of the plan: user -> calls
  clash,      \* history: a call ran beside one that writes model or length
  lengths     \* history: the lengths anybody asked for or configured
embedVars == <<emb, usage, asks, asked, clash, lengths>>

\* op, texts, dims and model: what was asked for (a length of 0 is none).
\* saved: the length to write back.  built: the requests of the call, [of,
\* model, dims].  got: the vectors, [of, model, dims].
Silence == [op |-> "none", at |-> "idle", texts |-> <<>>, dims |-> 0, model |-> "none",
            saved |-> 0, built |-> <<>>, got |-> <<>>, out |-> "none"]

\* The length of a model's vectors.  The clients know those of some models;
\* that of any other is the service's business.
Native(model) ==
  CASE model = "small" -> 1536 [] model = "large" -> 3072 [] model = "ada" -> 1536
    [] model \in {"text004", "nomic"} -> 768 [] OTHER -> 3072
KnownModels(kind) == IF kind = "openai" THEN {"small", "large", "ada"} ELSE {"text004"}
Resizable(kind) == IF kind = "openai" THEN {"small", "large"} ELSE {"text004"}

AsksAt(u, label) == asks[u].at = label
Becoming(u, state) == asks' = [asks EXCEPT ![u] = state]
AsksNext(u, label) == Becoming(u, [asks[u] EXCEPT !.at = label])
Finishes(u, out) == Becoming(u, [asks[u] EXCEPT !.at = "return", !.out = out])
Writes(u, next) == /\ emb' = next
                   /\ clash' = (clash \/ \E v \in User \ {u} : ~AsksAt(v, "idle"))
Reads == UNCHANGED <<emb, clash>>

-----------------------------------------------------------------------------
\* The ...WithOptions calls: the old length is read without the lock, the new
\* one written under it, and the old one written back whatever came of it.
SavesLength(u) ==
  /\ AsksAt(u, "save") /\ Reads
  /\ Becoming(u, [asks[u] EXCEPT !.saved = emb.dims, !.at = "length"])
  /\ UNCHANGED usage

WritesLength(u) ==
  /\ AsksAt(u, "length") /\ Writes(u, [emb EXCEPT !.dims = asks[u].dims])
  /\ AsksNext(u, "build") /\ UNCHANGED usage

RestoresIfAnswered(u) ==
  /\ AsksAt(u, "restore")
  /\ IF asks[u].out = "ok" THEN Writes(u, [emb EXCEPT !.dims = asks[u].saved]) ELSE Reads
  /\ AsksNext(u, "return") /\ UNCHANGED usage

RestoresLength(u) ==
  /\ AsksAt(u, "restore") /\ Writes(u, [emb EXCEPT !.dims = asks[u].saved])
  /\ AsksNext(u, "return") /\ UNCHANGED usage

\* An embedding is over; a reply with too few vectors is counted as a success
\* and then refused.
Settles(u, state, out) ==
  /\ Becoming(u, [state EXCEPT !.at = IF state.saved > 0 THEN "restore" ELSE "return", !.out = out])
  /\ usage' = IF out = "failed" THEN [usage EXCEPT !.failed = @ + 1] ELSE [usage EXCEPT !.ok = @ + 1]

-----------------------------------------------------------------------------
\* DeduplicateAndEmbed embeds every text once.
Firsts(texts) == {k \in DOMAIN texts : \A j \in 1..(k - 1) : texts[j] # texts[k]}
Uniques(texts) ==
  [n \in 1..Cardinality(Firsts(texts)) |->
     texts[CHOOSE k \in Firsts(texts) : Cardinality({j \in Firsts(texts) : j <= k}) = n]]
Order(u) == IF asks[u].op = "dedup" THEN Uniques(asks[u].texts) ELSE asks[u].texts

\* The length a request asks for.  OpenAI's client names one only to models
\* that know several, a batch of Gemini's leaves out 768.
OpenAILength == IF emb.model \in Resizable("openai") THEN emb.dims ELSE 0
GeminiLength(op) == IF op # "embed" /\ emb.dims = 768 THEN 0 ELSE emb.dims

\* One request of OpenAI's client carries all the texts; Gemini's builds one
\* after the other from what it finds in the object, then sends them.
BuildsOne(u) ==
  /\ emb.kind = "openai"
  /\ Becoming(u, [asks[u] EXCEPT !.at = "send",
       !.built = [k \in DOMAIN Order(u) |-> [of |-> Order(u)[k], model |-> emb.model, dims |-> OpenAILength]]])

BuildsEach(u) ==
  /\ emb.kind = "gemini"
  /\ LET built == Append(asks[u].built, [of |-> Order(u)[Len(asks[u].built) + 1], model |-> emb.model,
                                         dims |-> GeminiLength(asks[u].op)])
     IN  Becoming(u, [asks[u] EXCEPT !.built = built, !.at = IF Len(built) = Len(Order(u)) THEN "send" ELSE "build"])

Builds(u) ==
  /\ AsksAt(u, "build") /\ Reads
  /\ IF Order(u) = <<>>
     THEN /\ Becoming(u, [asks[u] EXCEPT !.at = IF asks[u].saved > 0 THEN "restore" ELSE "return", !.out = "ok"])
          /\ UNCHANGED usage
     ELSE /\ BuildsOne(u) \/ BuildsEach(u)
          /\ usage' = IF asks[u].built = <<>> THEN [usage EXCEPT !.total = @ + 1] ELSE usage

\* What the service makes of a request sent to a model; a request that names
\* another one than its address may be refused.
Vector(request, model) ==
  [of |-> request.of, model |-> model, dims |-> IF request.dims = 0 THEN Native(model) ELSE request.dims]
Refuses(request, model) == request.dims > Native(model)

SendsOne(u) ==
  /\ AsksAt(u, "send") /\ emb.kind = "openai"
  /\ LET built == asks[u].built
     IN  \/ Settles(u, asks[u], "failed")
         \/ /\ ~Refuses(built[1], built[1].model)
            /\ \/ Settles(u, asks[u], "short")
               \/ Settles(u, [asks[u] EXCEPT !.got = [k \in DOMAIN built |-> Vector(built[k], built[k].model)]], "ok")
  /\ Reads

SendsEach(u) ==
  /\ AsksAt(u, "send") /\ emb.kind = "gemini"
  /\ LET k == Len(asks[u].got) + 1
         request == asks[u].built[k]
         state == [asks[u] EXCEPT !.got = Append(@, Vector(request, emb.model))]
     IN  \/ Settles(u, asks[u], "failed")
         \/ /\ ~Refuses(request, emb.model)
            /\ IF k = Len(asks[u].built) THEN Settles(u, state, "ok") ELSE Becoming(u, state) /\ UNCHANGED usage
  /\ Reads

-----------------------------------------------------------------------------
\* SetModel and Configure are single critical sections; a length of 0 in a
\* configuration leaves the object's as it is.
SetsModel(u) ==
  /\ AsksAt(u, "setmodel")
  /\ LET m == asks[u].model
     IN  IF m \in KnownModels(emb.kind)
         THEN /\ Writes(u, [emb EXCEPT !.model = m, !.dims = Native(m), !.config = [model |-> m, dims |-> Native(m)]])
              /\ Finishes(u, "ok")
         ELSE Reads /\ Finishes(u, "refused")
  /\ UNCHANGED usage

Configures(u) ==
  /\ AsksAt(u, "configure")
  /\ LET config == [model |-> asks[u].model, dims |-> asks[u].dims]
     IN  Writes(u, [emb EXCEPT !.model = config.model, !.dims = IF config.dims > 0 THEN config.dims ELSE @,
                               !.config = config])
  /\ Finishes(u, "ok") /\ UNCHANGED usage

\* SetCustomDimensions looks at the model before it takes the lock.
ChecksLength(u) ==
  /\ AsksAt(u, "setdims") /\ Reads
  /\ IF emb.model \in Resizable(emb.kind) /\ asks[u].dims \in 1..Native(emb.model)
     THEN AsksNext(u, "resize") ELSE Finishes(u, "refused")
  /\ UNCHANGED usage

Resizes(u) ==
  /\ AsksAt(u, "resize")
  /\ Writes(u, [emb EXCEPT !.dims = asks[u].dims, !.config.dims = asks[u].dims])
  /\ Finishes(u, "ok") /\ UNCHANGED usage

-----------------------------------------------------------------------------
\* A user's next call: an embedding with a length begins by reading the old one.
EmbedBegins(u) ==
  /\ AsksAt(u, "idle") /\ asked[u] # <<>>
  /\ LET next == Head(asked[u])
     IN  /\ Becoming(u, [Silence EXCEPT !.op = next.op, !.texts = next.texts, !.dims = next.dims, !.model = next.model,
                           !.at = IF next.op \notin Embeds THEN next.op ELSE IF next.dims > 0 THEN "save" ELSE "build"])
         /\ clash' = (clash \/ \E v \in User : asks[v].saved > 0 \/ asks[v].at = "length")
         /\ lengths' = lengths \cup {next.dims} \cup (IF next.op \in Embeds THEN {} ELSE {Native(next.model)})
  /\ asked' = [asked EXCEPT ![u] = Tail(@)]
  /\ UNCHANGED <<emb, usage>>

EmbedReturns(u) ==
  /\ AsksAt(u, "return") /\ Becoming(u, Silence)
  /\ UNCHANGED <<emb, usage, asked, clash, lengths>>

EmbedStep(u) ==
  \/ EmbedBegins(u) \/ EmbedReturns(u)
  \/ /\ \/ SavesLength(u) \/ WritesLength(u) \/ Builds(u) \/ SendsOne(u) \/ SendsEach(u) \/ RestoresLength(u)
        \/ SetsModel(u) \/ Configures(u) \/ ChecksLength(u) \/ Resizes(u)
     /\ UNCHANGED <<asked, lengths>>

EmbedInit(plan) ==
  /\ emb = [kind |-> plan.kind, model |-> plan.model, dims |-> Native(plan.model),
            config |-> [model |-> plan.model, dims |-> Native(plan.model)]]
  /\ usage = [total |-> 0, ok |-> 0, failed |-> 0]
  /\ asks = [u \in User |-> Silence] /\ asked = plan.calls
  /\ clash = FALSE /\ lengths = {Native(plan.model)}

EmbedNext == \E u \in User : EmbedStep(u)
EmbedSpec == (\E plan \in EmbedPlans : EmbedInit(plan)) /\ [][EmbedNext]_embedVars

-----------------------------------------------------------------------------
\* As long as nobody writes model or length during another call, the length at
\* rest is the configured one and fits the model, and an embedding has the
\* length asked for (provider_gemini.go:1086, provider_openai_embedding.go:202).
\* A model that knows one length gives that, and so does a batch of Gemini's
\* where the object says 768.
LengthsAsAsked ==
  ~clash =>
    /\ (\A u \in User : asks[u].at \in {"idle", "return"}) => emb.config.dims \in {0, emb.dims}
    /\ \A u \in User : asks[u].out = "ok" /\ asks[u].op \in Embeds =>
         LET want == IF asks[u].dims > 0 THEN asks[u].dims ELSE IF emb.config.dims > 0 THEN emb.config.dims ELSE emb.dims
         IN  \A k \in DOMAIN asks[u].got :
               asks[u].got[k].dims = IF IF emb.kind = "openai" THEN emb.model \notin Resizable("openai")
                                                               ELSE asks[u].op # "embed" /\ want = 768
                                     THEN Native(emb.model) ELSE want

\* Whatever overlaps: a vector is that of its text, the vectors of one request
\* have one model and one length, and no length comes out of nowhere.
OwnVectors ==
  \A u \in User :
    /\ asks[u].out = "ok" /\ asks[u].op \in Embeds =>
         [k \in DOMAIN asks[u].got |-> asks[u].got[k].of] = Order(u)
    /\ emb.kind = "openai" => \A j, k \in DOMAIN asks[u].got :
         asks[u].got[j].dims = asks[u].got[k].dims /\ asks[u].got[j].model = asks[u].got[k].model
    /\ \A k \in DOMAIN asks[u].got : asks[u].got[k].dims \in lengths

\* The counters add up to the embeddings that are over and under way.
CountsAddUp ==
  usage.total = usage.ok + usage.failed
                + Cardinality({u \in User : asks[u].op \in Embeds /\ asks[u].built # <<>> /\ asks[u].out = "none"})
=============================================================================
