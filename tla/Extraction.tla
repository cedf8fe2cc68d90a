------------------------------ MODULE Extraction ------------------------------
(***************************************************************************)
(* What Cognify and Memify make of a text: entities and relationships, as  *)
(* a language model names them (extractor/basic_extractor.go) or as the    *)
(* tagger marks the words (extractor/deberta), and the comparison of every *)
(* entity with one the graph has (engine/task_memify.go).                  *)
(*                                                                         *)
(* A word is [name, tokens, tag, plain, ends, has]: the tokens it takes,   *)
(* its tag [mark, class], whether the blank before it is plain, a space    *)
(* and none the tokenizer does not know, whether it ends a sentence, and   *)
(* the names that are part of it.                                          *)
(* A name is [text, loud], the words in lower case and whether there are   *)
(* capitals.  A type is written in lower case, a type of relationships     *)
(* with underscores, as they are compared.                                 *)
(***************************************************************************)
EXTENDS Integers, Sequences, FiniteSets, TLC
LOCAL INSTANCE SequencesExt
LOCAL INSTANCE FiniteSetsExt

CONSTANTS
  NoChunk,          \* nobody has the session of the tagger; no source
  MaxTokens,        \* what the session takes (512 in the code)
  ExtractionPlans   \* [tagger, structured, strict, compares, chunks, told]

VARIABLES
  extractor,  \* [tagger, structured, strict, compares]: how it is set up
  drafts,     \* chunk -> [text, at, nodes, edges, next, known]: what is made of it
  occupant,   \* the chunk whose call has locked the session of the tagger
  tensors,    \* the text that is in it
  entities,   \* the nodes of the graph: id -> [type, props]
  verdicts    \* the comparisons: [of, with, as, source]
extractionVars == <<extractor, drafts, occupant, tensors, entities, verdicts>>

----------------------------------------------------------------------------
(* The ontology: the words that stand for each type.                        *)

NodeWords ==
  "person" :> {"person", "people", "human"} @@ "org" :> {"org", "organization", "organisation", "company"} @@
  "project" :> {"project", "initiative", "program"} @@ "task" :> {"task", "todo", "ticket", "issue"} @@
  "event" :> {"event", "meeting", "incident"} @@ "document" :> {"document", "doc", "file"} @@
  "session" :> {"session", "conversation", "chat"} @@ "user" :> {"user"} @@
  "concept" :> {"concept", "idea", "topic"} @@ "word" :> {"word", "term", "keyword"} @@
  "userpreference" :> {"userpreference", "user_preference", "preference"} @@
  "grammarrule" :> {"grammarrule", "grammar_rule"} @@ "entity" :> {"entity", ""}
EdgeWords ==
  "mentions" :> {"mention", "mentions"} @@
  "works_on" :> {"works_on", "assigned_to", "leads", "manages", "owner_of", "owns"} @@
  "depends_on" :> {"depends_on", "requires", "blocked_by", "needs"} @@
  "discussed_in" :> {"discussed_in", "discussed_at", "mentioned_in", "talked_in"} @@
  "related_to" :> {"related_to", "relates_to", "member_of", "located_in", "associated_with"} @@
  "updates" :> {"updates", "updated_by"} @@ "synonym" :> {"synonym", "synonym_of"} @@
  [t \in {"contains", "referenced_by", "similar_to", "part_of", "created_by", "used_in", "contradicts",
          "failed_at", "struggles_with"} |-> {t}]
Stands(words, raw) == {t \in DOMAIN words : raw \in words[t]}
TypeIn(words, raw, other) == IF Stands(words, raw) = {} THEN other ELSE CHOOSE t \in Stands(words, raw) : TRUE
NormalizeNodeType(raw) == TypeIn(NodeWords, raw, "entity")
NormalizeEdgeType(raw) == TypeIn(EdgeWords, raw, "related_to")
\* A strict extractor gives up at a type it does not know.
Strange(words, entries) == extractor.strict /\ \E i \in DOMAIN entries : Stands(words, entries[i].type) = {}

----------------------------------------------------------------------------
(* The language model.  An entity of its reply is [name, type, confidence,  *)
(* props], in hundredths, a relationship [from, to, type]; a reply that is  *)
(* not structured has names and types only.                                 *)

Unnamed == [text |-> <<>>, loud |-> FALSE]
\* A name, a title or an id among the properties.
ExtractName(props) ==
  LET keys == SelectSeq(<<"name", "title", "id">>, LAMBDA key : key \in DOMAIN props)
  IN  IF keys = <<>> THEN Unnamed ELSE props[Head(keys)]
EntityName(entry) ==
  CASE entry.name # Unnamed -> entry.name
    [] entry.name = Unnamed /\ ExtractName(entry.props) # Unnamed -> ExtractName(entry.props)
    [] OTHER -> [text |-> <<IF entry.type = "" THEN "entity" ELSE entry.type>>, loud |-> entry.type = ""]
NormalizeConfidence(c) == IF c <= 0 THEN <<>> ELSE "confidence" :> (IF c > 100 THEN 100 ELSE c)
NodeOf(entry) ==
  [type |-> NormalizeNodeType(entry.type),
   props |-> IF extractor.structured
             THEN NormalizeConfidence(entry.confidence) @@ ("name" :> EntityName(entry)) @@ entry.props
             ELSE "name" :> entry.name]

FirstNamed(nodes, name) == Min({k \in DOMAIN nodes : nodes[k].props["name"] = name})
\* Of several entities of one name the last counts.
LastNamed(nodes, name) == Max({k \in DOMAIN nodes : nodes[k].props["name"] = name})
\* A relationship with an end that is none of the entities is passed over.
JoinedBy(nodes, relations) ==
  LET names == {nodes[k].props["name"] : k \in DOMAIN nodes}
      joined == SelectSeq(relations, LAMBDA r : r.from \in names /\ r.to \in names)
  IN  [i \in DOMAIN joined |-> [from |-> LastNamed(nodes, joined[i].from), to |-> LastNamed(nodes, joined[i].to),
                                type |-> NormalizeEdgeType(joined[i].type)]]

Makes(c, next) == drafts' = [drafts EXCEPT ![c] = next]
GraphStays == UNCHANGED <<extractor, entities, verdicts>>
Unmarked == UNCHANGED <<occupant, tensors>>

\* Without entities the text has no part in the graph; without relationships its
\* entities have.
AsksEntities(c) ==
  /\ drafts[c].at = "text" /\ ~extractor.tagger
  /\ \/ Makes(c, [drafts[c] EXCEPT !.at = "done"])
     \/ \E reply \in drafts[c].text.entities :
          IF Strange(NodeWords, reply) THEN Makes(c, [drafts[c] EXCEPT !.at = "done"])
          ELSE Makes(c, [drafts[c] EXCEPT !.at = "nodes", !.nodes = [k \in DOMAIN reply |-> NodeOf(reply[k])]])
  /\ GraphStays /\ Unmarked
AsksRelations(c) ==
  /\ drafts[c].at = "nodes" /\ ~extractor.tagger
  /\ \/ Makes(c, [drafts[c] EXCEPT !.at = "compare"])
     \/ \E reply \in drafts[c].text.relations :
          LET known == SelectSeq(reply, LAMBDA r : \A name \in {r.from, r.to} :
                                   \E k \in DOMAIN drafts[c].nodes : drafts[c].nodes[k].props["name"] = name)
          IN  IF Strange(EdgeWords, known) THEN Makes(c, [drafts[c] EXCEPT !.at = "compare"])
              ELSE Makes(c, [drafts[c] EXCEPT !.at = "compare", !.edges = JoinedBy(drafts[c].nodes, reply)])
  /\ GraphStays /\ Unmarked

----------------------------------------------------------------------------
(* The tagger.  Its words are counted by their first tokens, those of the   *)
(* text by its blanks: they are the same as long as all blanks are plain.   *)

Place1(words, i) == FoldLeft(LAMBDA n, w : n + w.tokens, 2, SubSeq(words, 1, i - 1))
\* The words whose first token the session takes, after the one that opens it.
Seen(words) == {i \in DOMAIN words : Place1(words, i) <= MaxTokens}
Unit(words, i) == Cardinality({j \in 1..i : j = 1 \/ words[j].plain})
Labels(words) ==
  [u \in {Unit(words, i) : i \in Seen(words)} |->
     words[Min({i \in Seen(words) : Unit(words, i) = u})].tag]

Flush(acc) ==
  [spans |-> IF acc.words = <<>> \/ acc.class = "" THEN acc.spans
             ELSE Append(acc.spans, [class |-> acc.class, words |-> acc.words]),
   class |-> "", words |-> <<>>]
DecodeIOB(labels, words) ==
  LET step(acc, u) ==
        CASE labels[u].mark = "O" -> Flush(acc)
          [] labels[u].mark = "I" /\ labels[u].class = acc.class -> [acc EXCEPT !.words = Append(@, words[u].name)]
          [] OTHER -> [Flush(acc) EXCEPT !.class = labels[u].class, !.words = <<words[u].name>>]
  IN  Flush(FoldLeft(step, [spans |-> <<>>, class |-> "", words |-> <<>>],
                     [u \in 1..Cardinality(DOMAIN labels) |-> u])).spans
SpanToNode(span) ==
  [type |-> IF span.class \in {"PER", "ORG", "LOC"} THEN "entity" ELSE "concept",
   props |-> "name" :> [text |-> span.words, loud |-> FALSE] @@ "ner_label" :> span.class]

FillsAnyway(c) ==
  /\ drafts[c].at = "text" /\ extractor.tagger
  /\ occupant' = c /\ tensors' = drafts[c].text.words
  /\ Makes(c, [drafts[c] EXCEPT !.at = "run"]) /\ GraphStays
\* A call has the session and its tensors to itself, from the tokens to the tags.
Fills(c) ==
  /\ drafts[c].at = "text" /\ extractor.tagger /\ occupant = NoChunk
  /\ occupant' = c /\ tensors' = drafts[c].text.words
  /\ Makes(c, [drafts[c] EXCEPT !.at = "run"]) /\ GraphStays
\* The session may fail.
Decodes(c) ==
  /\ drafts[c].at = "run"
  /\ \/ Makes(c, [drafts[c] EXCEPT !.at = "done"])
     \/ LET spans == DecodeIOB(Labels(tensors), drafts[c].text.words)
        IN  Makes(c, [drafts[c] EXCEPT !.at = "nodes", !.nodes = [k \in DOMAIN spans |-> SpanToNode(spans[k])]])
  /\ occupant' = NoChunk /\ UNCHANGED tensors /\ GraphStays

Sentences(words) ==
  LET ends == {i \in DOMAIN words : words[i].ends} \cup {Len(words)} IN
  {SubSeq(words, IF e = Min(ends) THEN 1 ELSE Max({d \in ends : d < e}) + 1, e) : e \in ends}
InSentence(sentence, name) ==
  \E i \in DOMAIN sentence :
    IF Len(name) = 1 THEN name[1] \in sentence[i].has
    ELSE /\ i + Len(name) - 1 <= Len(sentence)
         /\ \A k \in DOMAIN name : sentence[i + k - 1].name = name[k] /\ (k = 1 \/ sentence[i + k - 1].plain)
\* Two entities that are named in one sentence are related.
CoOccurs(c) ==
  /\ drafts[c].at = "nodes" /\ extractor.tagger
  /\ LET nodes == drafts[c].nodes
         text(k) == nodes[k].props["name"].text
         Both(i, j, s) == i < j /\ text(i) # <<>> /\ text(j) # <<>> /\ InSentence(s, text(i)) /\ InSentence(s, text(j))
         pairs == {p \in (DOMAIN nodes) \X (DOMAIN nodes) \X Sentences(drafts[c].text.words) : Both(p[1], p[2], p[3])}
         list == SetToSeq(pairs)
     IN  Makes(c, [drafts[c] EXCEPT !.at = "compare", !.edges =
           [i \in DOMAIN list |->
              [from |-> list[i][1], to |-> list[i][2],
               type |-> IF nodes[list[i][1]].type = nodes[list[i][2]].type THEN "similar_to" ELSE "related_to"]]])
  /\ GraphStays /\ Unmarked

----------------------------------------------------------------------------
(* Every draft is stamped with its memory and the time it was cognified,    *)
(* compared with a node that is near it, if there is one, and stored.       *)

Stamped(c, node) ==
  [node EXCEPT !.props = "source_id" :> c @@ "timestamp" :> c @@ @ @@ "confidence" :> 80]
CompareNames(old, new) ==
  LET a == ExtractName(old.props).text
      b == ExtractName(new.props).text
  IN  a = <<>> \/ b = <<>> \/ a = b
CompareEntities(old, new) ==
  CASE old.type # new.type \/ ~CompareNames(old, new) -> "keep_separate"
    [] OTHER ->
         IF \E key \in DOMAIN old.props \cap DOMAIN new.props : old.props[key] # new.props[key] THEN "contradict"
         ELSE IF DOMAIN new.props \subseteq DOMAIN old.props THEN "ignore" ELSE "update"

SourceOf(node) == IF "source_id" \in DOMAIN node.props THEN node.props["source_id"] ELSE NoChunk
Draft1(c) == <<c, drafts[c].next>>
\* The node is read, compared and written back without a lock; an update
\* writes the known node twice.
Compares(c) ==
  /\ drafts[c].at = "compare" /\ drafts[c].next <= Len(drafts[c].nodes)
  /\ LET new == Stamped(c, drafts[c].nodes[drafts[c].next])
         own == [drafts[c] EXCEPT !.at = "store", !.known = [id |-> Draft1(c), node |-> new]]
     IN  \/ Makes(c, own) /\ UNCHANGED verdicts
         \/ /\ extractor.compares
            /\ \E id \in DOMAIN entities \ {Draft1(c)} :
                 LET old == entities[id]
                     as == CompareEntities(old, new)
                 IN  /\ verdicts' = verdicts \cup {[of |-> Draft1(c), with |-> id, as |-> as, source |-> SourceOf(old)]}
                     /\ Makes(c, CASE as = "update" ->
                                        [own EXCEPT !.at = "merge", !.known = [id |-> id, node |-> [old EXCEPT !.props = new.props @@ @]]]
                                   [] as = "ignore" -> [own EXCEPT !.known = [id |-> id, node |-> old]]
                                   [] OTHER -> own)
  /\ UNCHANGED <<extractor, entities>> /\ Unmarked
WritesKnown(c, next) ==
  /\ entities' = (drafts[c].known.id :> drafts[c].known.node) @@ entities
  /\ Makes(c, next) /\ UNCHANGED <<extractor, verdicts>> /\ Unmarked
MergesInto(c) == drafts[c].at = "merge" /\ WritesKnown(c, [drafts[c] EXCEPT !.at = "store"])
StoresDraft(c) == drafts[c].at = "store" /\ WritesKnown(c, [drafts[c] EXCEPT !.at = "compare", !.next = @ + 1])
EndsDrafts(c) ==
  /\ drafts[c].at = "compare" /\ drafts[c].next > Len(drafts[c].nodes)
  /\ Makes(c, [drafts[c] EXCEPT !.at = "done"]) /\ GraphStays /\ Unmarked

----------------------------------------------------------------------------

\* Entities a request was told of are in the graph: they have no source.
ExtractionInit(plan) ==
  /\ extractor = [tagger |-> plan.tagger, structured |-> plan.structured, strict |-> plan.strict, compares |-> plan.compares]
  /\ drafts = [c \in DOMAIN plan.chunks |->
       [text |-> plan.chunks[c], at |-> "text", nodes |-> <<>>, edges |-> <<>>, next |-> 1,
        known |-> [id |-> <<>>, node |-> <<>>]]]
  /\ occupant = NoChunk /\ tensors = <<>> /\ entities = plan.told /\ verdicts = {}

ExtractionNext ==
  \E c \in DOMAIN drafts :
    \/ AsksEntities(c) \/ AsksRelations(c) \/ Fills(c) \/ Decodes(c) \/ CoOccurs(c)
    \/ Compares(c) \/ MergesInto(c) \/ StoresDraft(c) \/ EndsDrafts(c)

----------------------------------------------------------------------------

\* The tagger's entities of a text are the longest runs of its own words of one
\* class, in their order, as far as the session sees it, whatever other calls use
\* the session for (runNER, decodeIOB).
SpansAreOwn ==
  \A c \in DOMAIN drafts :
    LET words == drafts[c].text.words
        tag(i) == words[i].tag
        opens(i) == /\ tag(i).mark # "O"
                    /\ i = 1 \/ tag(i).mark = "B" \/ tag(i - 1).class # tag(i).class
        first == {i \in Seen(words) : opens(i)}
        run(i) == {j \in Seen(words) : j >= i /\ \A m \in i + 1..j : tag(m).mark = "I" /\ ~opens(m)}
    IN  extractor.tagger /\ drafts[c].at \in {"nodes", "compare", "merge", "store"} /\ (\A i \in DOMAIN words : words[i].plain) =>
          /\ Len(drafts[c].nodes) = Cardinality(first)
          /\ \A i \in first :
               drafts[c].nodes[Cardinality({j \in first : j <= i})].props["name"].text =
                 [n \in 1..Cardinality(run(i)) |-> words[i + n - 1].name]

\* A relationship joins two entities of its text: the last of the names the model
\* gave, or two that one sentence names (ExtractRelationships of both extractors).
EdgesJoinDrafts ==
  \A c \in DOMAIN drafts : \A i \in DOMAIN drafts[c].edges :
    LET edge == drafts[c].edges[i]
        nodes == drafts[c].nodes
        name(k) == nodes[k].props["name"]
        last(k) == \A j \in DOMAIN nodes : j > k => name(j) # name(k)
    IN  /\ {edge.from, edge.to} \subseteq DOMAIN nodes
        /\ IF extractor.tagger
           THEN /\ edge.from < edge.to
                /\ \E s \in Sentences(drafts[c].text.words) : \A k \in {edge.from, edge.to} : InSentence(s, name(k).text)
           ELSE /\ last(edge.from) /\ last(edge.to)
                /\ \E reply \in drafts[c].text.relations : \E r \in DOMAIN reply :
                     /\ reply[r].from = name(edge.from) /\ reply[r].to = name(edge.to)
                     /\ edge.type = NormalizeEdgeType(reply[r].type)

\* What was normalised once stays what it is when it is normalised again.
TypesAreStable ==
  \A c \in DOMAIN drafts :
    /\ \A k \in DOMAIN drafts[c].nodes : NormalizeNodeType(drafts[c].nodes[k].type) = drafts[c].nodes[k].type
    /\ \A i \in DOMAIN drafts[c].edges : NormalizeEdgeType(drafts[c].edges[i].type) = drafts[c].edges[i].type

\* An entity is taken for one that is known only if that is of the same memory or
\* was told in a request: the stamps of two memories contradict each other, however
\* equal their entities are (CompareEntities, task_memify.go).
MergesWithOwn ==
  \A v \in verdicts : v.as \in {"update", "ignore"} => v.source \in {NoChunk, v.of[1]}

\* An entity keeps the memory it is from, whatever memories are compared with it
\* at the same time.
SourcesStay ==
  \A c \in DOMAIN drafts : \A id \in DOMAIN entities :
    id[1] = c => SourceOf(entities[id]) = c
=============================================================================
