------------------------------ MODULE Thinking ------------------------------
(***************************************************************************)
(* Think: a question answered by the language model from what a search     *)
(* has found, in one prompt, in the segments of a context that is too      *)
(* long, or in steps, each of which may ask for more about the entities it *)
(* misses.  Around it the history of a session, which Request writes and   *)
(* the analysis in the background reads.                                   *)
(*                                                                         *)
(* A sentence is a fact, [name, session, about, runes, wide]: whose it is, *)
(* the entity it is about, its characters and the bytes of each.  A piece  *)
(* is a fact or a part of it.  A prompt is known by its pieces, a reply of *)
(* the model by [garbled, missing, answer, reason]: whether it is JSON,    *)
(* the entities it misses, whether it answers and gives reasons.           *)
(***************************************************************************)
EXTENDS Integers, Sequences, FiniteSets, TLC
LOCAL INSTANCE SequencesExt

CONSTANTS
  HistoryBuffer,    \* messages a prompt takes from the history (10 in the code)
  AnalysisWindow,   \* messages the analysis takes (50 in the code)
  NodesShown,       \* graph nodes a search has in its context (20 in the code)
  ThinkPlans        \* [queries, lore, chats, findings, rounds]; a query has the
                    \* memories of any session that are near it, the entities
                    \* it names and what the model may say to it

VARIABLES
  thought,   \* thinker -> its query and how far it is
  replies,   \* thinker -> what the model has said: of a context, and the segments
  shown,     \* thinker -> the pieces its prompts had
  bridges,   \* the relationships learned: [by, step]
  lore,      \* the facts of the graph and the vectors: name -> [fact, in]
  chats,     \* session -> its messages, [role, by]
  analyst    \* the analysis: [at, findings, left]
thinkVars == <<thought, replies, shown, bridges, lore, chats, analyst>>

----------------------------------------------------------------------------
(* Segments: whole sentences while they fit, one that is too long on its    *)
(* own by its characters.                                                   *)

Bytes(fact) == fact.runes * fact.wide
Whole(fact) == [fact |-> fact, part |-> 0]
Slices(fact, max) ==
  [i \in 1..(fact.runes + max - 1) \div max |-> [fact |-> fact, part |-> i]]
SizeOf(context) == FoldLeft(LAMBDA n, fact : n + Bytes(fact) + 1, 0, context)

Pushed(acc) ==
  IF acc.size = 0 THEN acc ELSE [done |-> Append(acc.done, acc.current), current |-> <<>>, size |-> 0]
NextSentence(acc, fact, max) ==
  LET room == IF acc.size + Bytes(fact) + 1 > max THEN Pushed(acc) ELSE acc
      parts == Slices(fact, max)
  IN  IF Bytes(fact) > max
      THEN [Pushed(room) EXCEPT !.done = @ \o [i \in DOMAIN parts |-> <<parts[i]>>]]
      ELSE [room EXCEPT !.current = Append(@, Whole(fact)),
                        !.size = @ + Bytes(fact) + (IF @ = 0 THEN 0 ELSE 1)]
Collected(context, max) ==
  FoldLeft(LAMBDA acc, fact : NextSentence(acc, fact, max), [done |-> <<>>, current |-> <<>>, size |-> 0], context)
SegmentsUnpushed(context, max) == Collected(context, max).done
Segments(context, max) == Pushed(Collected(context, max)).done

PiecesOf(sequence) == {sequence[i] : i \in DOMAIN sequence}
Pieces(context) == {Whole(context[i]) : i \in DOMAIN context}
LastOf(messages, n) == SubSeq(messages, IF Len(messages) > n THEN Len(messages) - n + 1 ELSE 1, Len(messages))

----------------------------------------------------------------------------

Thinker == DOMAIN thought
Now(t, where) == thought[t].at = where
Query(t) == thought[t].query
MaxSteps(t) == IF Query(t).steps <= 0 THEN 3 ELSE Query(t).steps
Becomes(t, next) == thought' = [thought EXCEPT ![t] = next]
EndsWith(t, kind) == Becomes(t, [thought[t] EXCEPT !.at = "over", !.result = kind])
ThinksOn == UNCHANGED <<bridges, lore, chats, analyst>>

Says(session, role, t) ==
  chats' = IF session = "" THEN chats
           ELSE [chats EXCEPT ![session] = Append(@, [role |-> role, by |-> t])]
\* Request keeps the message of the user before it does anything else; it ends
\* without a word if the model does not tell what the user intends.
Starts(t) ==
  /\ Now(t, "start")
  /\ IF Query(t).request THEN Says(Query(t).session, "user", t) ELSE UNCHANGED chats
  /\ \/ Becomes(t, [thought[t] EXCEPT !.at = "search"])
     \/ Query(t).request /\ Becomes(t, [thought[t] EXCEPT !.at = "done", !.result = "error"])
  /\ UNCHANGED <<replies, shown, bridges, lore, analyst>>

LoreOf(where, entity) == {lore[n].fact : n \in {n \in DOMAIN lore : lore[n].in = where /\ lore[n].fact.about = entity}}
\* Some of a set, as many as a limit allows (0: all).
Cuts(set, limit) ==
  {kept \in SUBSET set : Cardinality(kept) = IF limit > 0 /\ Cardinality(set) > limit THEN limit ELSE Cardinality(set)}

\* A memory is for its own session, one without a session for all; a question
\* without a session is one of "default".
Scope(t) == {"", IF Query(t).session = "" THEN "default" ELSE Query(t).session}
\* Mutant of Visible: the session is not looked at.
VisibleToAll(t, fact) == TRUE
Visible(t, fact) == fact.session \in Scope(t)
\* Where the search enters the graph: what the question names, and what the
\* memories near it are about, whosever they are.
Anchors(t) == Query(t).names \cup {fact.about : fact \in PiecesOf(Query(t).near)}
\* The visible ones of the memories that are near and of those the graph leads to,
\* then the graph's nodes, of any session.  An analysis of the query that fails is
\* left out, a search that fails is an error.
Retrieves(t) ==
  /\ Now(t, "search")
  /\ LET near == Query(t).near
         linked == UNION {LoreOf("vectors", entity) : entity \in Anchors(t)}
         nodes == UNION {LoreOf("graph", entity) : entity \in Anchors(t)}
     IN  \/ \E kept \in Cuts({fact \in PiecesOf(near) \cup linked : Visible(t, fact)}, Query(t).limit),
               listed \in Cuts(nodes, NodesShown) :
              LET context == SelectSeq(near, LAMBDA fact : fact \in kept)
                             \o SetToSeq(kept \ PiecesOf(near)) \o SetToSeq(listed)
              IN  Becomes(t, [thought[t] EXCEPT !.at = "step", !.step = 1, !.context = context, !.found = context])
         \/ EndsWith(t, "error")
  /\ UNCHANGED <<replies, shown>> /\ ThinksOn

TooLong(t) == Query(t).max > 0 /\ SizeOf(thought[t].context) > Query(t).max
\* A step, or the only prompt, takes the history as it is now; a context that is
\* too long is read in segments first.
BeginsStep(t) ==
  /\ Now(t, "step")
  /\ Becomes(t, [thought[t] EXCEPT
       !.at = IF TooLong(t) THEN "segment" ELSE "ask",
       !.prompt = Pieces(thought[t].context),
       !.heard = IF Query(t).session = "" THEN <<>> ELSE LastOf(chats[Query(t).session], HistoryBuffer),
       !.segments = IF TooLong(t) THEN Segments(thought[t].context, Query(t).max) ELSE <<>>,
       !.cursor = 1, !.reasons = {}, !.answered = FALSE])
  /\ UNCHANGED <<replies, shown>> /\ ThinksOn

\* One segment with the reasons so far.  A reply that is no JSON has neither
\* reasons nor an answer.  The last answer counts; the entities it misses are
\* dropped.  In a step an error only means that the context is asked for as a
\* whole, and without an answer the reasons take its place.
ReadsSegment(t) ==
  /\ Now(t, "segment")
  /\ LET at == thought[t]
         prompt == PiecesOf(at.segments[at.cursor]) \cup at.reasons
         last == at.cursor = Len(at.segments)
     IN  /\ shown' = [shown EXCEPT ![t] = @ \cup prompt]
         /\ \/ /\ IF Query(t).thinking THEN Becomes(t, [at EXCEPT !.at = "ask"]) ELSE EndsWith(t, "error")
               /\ UNCHANGED replies
            \/ \E reply \in Query(t).says :
                 LET reasons == IF reply.reason THEN prompt ELSE at.reasons
                     answered == at.answered \/ reply.answer
                 IN  /\ replies' = [replies EXCEPT ![t].segments = @ \cup {reply}]
                     /\ CASE ~last -> Becomes(t, [at EXCEPT !.cursor = @ + 1, !.reasons = reasons, !.answered = answered])
                          [] last /\ answered -> EndsWith(t, "answer")
                          [] last /\ ~answered /\ Query(t).thinking ->
                               Becomes(t, [at EXCEPT !.at = "ask", !.prompt = reasons])
                          [] OTHER -> EndsWith(t, "insufficient")
  /\ ThinksOn

\* The next step, or the end without an answer.
GoesOn(t) ==
  IF thought[t].step = MaxSteps(t) THEN EndsWith(t, "notfound")
  ELSE Becomes(t, [thought[t] EXCEPT !.at = "step", !.step = @ + 1])

\* The prompt with the context and the history.  A reply that is no JSON is the
\* answer as it is.  In steps an answer counts only if nothing is missing.
AsksModel(t) ==
  /\ Now(t, "ask")
  /\ shown' = [shown EXCEPT ![t] = @ \cup thought[t].prompt]
  /\ \/ EndsWith(t, "error") /\ UNCHANGED replies
     \/ \E reply \in Query(t).says :
          /\ replies' = [replies EXCEPT ![t].main = Append(@, reply)]
          /\ CASE reply.garbled -> EndsWith(t, "raw")
               [] ~reply.garbled /\ ~Query(t).thinking -> EndsWith(t, IF reply.answer THEN "answer" ELSE "empty")
               [] ~reply.garbled /\ Query(t).thinking /\ reply.answer /\ reply.missing = <<>> ->
                    IF Query(t).learns THEN Becomes(t, [thought[t] EXCEPT !.at = "learn"]) ELSE EndsWith(t, "answer")
               [] OTHER ->
                    IF thought[t].step < MaxSteps(t) /\ Query(t).graph
                    THEN Becomes(t, [thought[t] EXCEPT !.at = "hop", !.missing = reply.missing])
                    ELSE GoesOn(t)
  /\ ThinksOn

\* What the graph, then the vectors, have about an entity that is missing, of
\* any session: all nodes and what they are connected with, two memories.
LooksInGraph(t) ==
  /\ Now(t, "hop") /\ thought[t].missing # <<>>
  /\ Becomes(t, [thought[t] EXCEPT !.at = "recall",
                   !.context = @ \o SetToSeq(LoreOf("graph", Head(thought[t].missing)))])
  /\ UNCHANGED <<replies, shown>> /\ ThinksOn
Recalls(t) ==
  /\ Now(t, "recall")
  /\ \E near \in Cuts(LoreOf("vectors", Head(thought[t].missing)), 2) :
       Becomes(t, [thought[t] EXCEPT !.at = "hop", !.missing = Tail(@), !.context = @ \o SetToSeq(near)])
  /\ UNCHANGED <<replies, shown>> /\ ThinksOn
EndsHop(t) ==
  /\ Now(t, "hop") /\ thought[t].missing = <<>>
  /\ GoesOn(t)
  /\ UNCHANGED <<replies, shown>> /\ ThinksOn

\* The bridge between question and answer, if the model finds one.
Learns(t) ==
  /\ Now(t, "learn")
  /\ bridges' \in {bridges, bridges \cup {[by |-> t, step |-> Len(replies[t].main)]}}
  /\ EndsWith(t, "answer")
  /\ UNCHANGED <<replies, shown, lore, chats, analyst>>

\* Request keeps a message of the assistant, whatever has come of it: without an
\* answer, or after an error, that it has memorized what it was told.
Responds(t) ==
  /\ Now(t, "over")
  /\ IF Query(t).request THEN Says(Query(t).session, "assistant", t) ELSE UNCHANGED chats
  /\ Becomes(t, [thought[t] EXCEPT !.at = "done"])
  /\ UNCHANGED <<replies, shown, bridges, lore, analyst>>

----------------------------------------------------------------------------
(* The analysis of the session "default", round after round, also when the  *)
(* engine is closed.                                                        *)

FetchesHistory ==
  /\ analyst.at = "idle" /\ analyst.left > 0
  /\ analyst' = [analyst EXCEPT !.left = @ - 1, !.read = LastOf(chats["default"], AnalysisWindow),
                                !.at = IF Len(chats["default"]) < 2 THEN "idle" ELSE "extract"]
  /\ UNCHANGED <<thought, replies, shown, bridges, lore, chats>>
\* An error of the extraction ends the round.  What it finds has no session.
Extracts ==
  /\ analyst.at = "extract"
  /\ analyst' \in {[analyst EXCEPT !.at = "idle"], [analyst EXCEPT !.at = "store", !.todo = analyst.findings]}
  /\ UNCHANGED <<thought, replies, shown, bridges, lore, chats>>
\* Nodes, then edges; what fails is passed over, as is an edge without an end.
StoresFinding ==
  /\ analyst.at = "store"
  /\ IF analyst.todo = <<>>
     THEN analyst' = [analyst EXCEPT !.at = "idle"] /\ UNCHANGED lore
     ELSE LET finding == Head(analyst.todo) IN
          /\ analyst' = [analyst EXCEPT !.todo = Tail(@)]
          /\ lore' \in {lore} \cup
               IF finding.ends \subseteq DOMAIN lore
               THEN {(finding.fact.name :> [fact |-> finding.fact, in |-> "graph"]) @@ lore} ELSE {}
  /\ UNCHANGED <<thought, replies, shown, bridges, chats>>

----------------------------------------------------------------------------

ThinkInit(plan) ==
  /\ thought = [t \in DOMAIN plan.queries |->
       [query |-> plan.queries[t], at |-> "start", step |-> 0, found |-> <<>>, context |-> <<>>, prompt |-> {},
        heard |-> <<>>, segments |-> <<>>, cursor |-> 1, reasons |-> {}, answered |-> FALSE,
        missing |-> <<>>, result |-> "none"]]
  /\ replies = [t \in Thinker |-> [main |-> <<>>, segments |-> {}]] /\ shown = [t \in Thinker |-> {}] /\ bridges = {}
  /\ lore = plan.lore /\ chats = plan.chats
  /\ analyst = [at |-> "idle", findings |-> plan.findings, todo |-> <<>>, read |-> <<>>, left |-> plan.rounds]

ThinkNext ==
  \/ \E t \in Thinker :
       \/ Starts(t) \/ Retrieves(t) \/ BeginsStep(t) \/ ReadsSegment(t) \/ AsksModel(t)
       \/ LooksInGraph(t) \/ Recalls(t) \/ EndsHop(t) \/ Learns(t) \/ Responds(t)
  \/ FetchesHistory \/ Extracts \/ StoresFinding

----------------------------------------------------------------------------

Ended(t) == thought[t].at \in {"over", "done"}
AskedFor(t) == UNION {PiecesOf(reply.missing) : reply \in PiecesOf(replies[t].main)}
InGraph(fact) == [fact |-> fact, in |-> "graph"] \in {lore[n] : n \in DOMAIN lore}
\* Another session's memory gets into a prompt only if the model has asked for its
\* entity in a step: the search keeps it out, even if it is the nearest there is.
\* Nodes of the graph have no session to be kept out by: what a prompt has of them
\* without being asked is about what the question, or a memory near it, is about.
PromptsAreOwn ==
  \A t \in Thinker : \A piece \in shown[t] :
    \/ piece.fact.session \in Scope(t) \/ piece.fact.about \in AskedFor(t)
    \/ InGraph(piece.fact) /\ piece.fact.about \in Anchors(t)

\* Whoever gets an answer, or none, has had the model read all that the search
\* had found, in segments or as a whole.
EverythingIsRead ==
  \A t \in Thinker : Ended(t) /\ thought[t].result # "error" =>
    \A fact \in PiecesOf(thought[t].found) :
      Whole(fact) \in shown[t] \/ (Query(t).max > 0 /\ PiecesOf(Slices(fact, Query(t).max)) \subseteq shown[t])

\* That nothing is known is said only when the model has not answered: not in
\* the last step, for which no step was left out, and in no segment.
NotFoundForCause ==
  \A t \in Thinker : Ended(t) =>
    LET main == replies[t].main IN
    /\ Len(main) <= MaxSteps(t)
    /\ thought[t].result = "notfound" =>
         /\ Len(main) = MaxSteps(t)
         /\ \A i \in DOMAIN main : ~main[i].answer \/ main[i].missing # <<>>
    /\ thought[t].result = "insufficient" => \A reply \in replies[t].segments : ~reply.answer

\* A bridge is learned from the answer that is given, at most one.
LearnsFromAnswers ==
  \A b \in bridges :
    LET main == replies[b.by].main IN
    /\ Ended(b.by) /\ thought[b.by].result = "answer" /\ Query(b.by).learns
    /\ b.step = Len(main) /\ main[b.step].answer /\ ~main[b.step].garbled
    /\ \A c \in bridges : c.by = b.by => c = b

\* A segment keeps to the limit in bytes, or is one piece that does in characters.
SegmentsFit ==
  \A t \in Thinker : \A i \in DOMAIN thought[t].segments :
    LET segment == thought[t].segments[i] IN
    \/ SizeOf([j \in DOMAIN segment |-> segment[j].fact]) - 1 <= Query(t).max
    \/ Len(segment) = 1 /\ segment[1].part > 0
=============================================================================
