------------------------------ MODULE MCServices ------------------------------
EXTENDS Services
CONSTANTS s1, n1, n2, n3
MCNodeValue ==
  {[type |-> "Entity", name |-> "x", session |-> s1, source |-> "r1"],
   [type |-> "Entity", name |-> "x", session |-> "", source |-> NoSource]}
MCSymmetry == Permutations(NodeId)
MCSession == {s1, ""}

\* A text of two chunks and one of one.
MCPartsOf == "long" :> 2 @@ "short" :> 1
Told(name, session, tier) == [content |-> <<name, 0>>, session |-> session, tier |-> tier]
Long == Told("long", "s1", "general")
\* Two clients at the same time, one of them with a second call.
MCRowPlans ==
  {"c1" :> <<Long, Long>> @@ "c2" :> b : b \in {<<Long>>, <<ById>>}} \cup
  {"c1" :> <<Long>> @@ "c2" :> <<ById, Long>>} \cup
  {"c1" :> <<Long, Told("long", "s1", "core")>> @@ "c2" :> <<Long>>,
   "c1" :> <<Long>> @@ "c2" :> <<Told("long", "", "general")>>,
   "c1" :> <<Long, ById>> @@ "c2" :> <<Long>>,
   "c1" :> <<Told("short", "s1", "general"), Told("short", "s1", "general")>> @@
   "c2" :> <<Told("short", "s1", "general")>>}
\* One embedding client and two users.
Ask(op, texts, dims) == [op |-> op, texts |-> texts, dims |-> dims, model |-> "small"]
Set(op, model, dims) == [op |-> op, texts |-> <<>>, dims |-> dims, model |-> model]
Users(k, model, a, b) == [kind |-> k, model |-> model, calls |-> "u1" :> a @@ "u2" :> b]
MCEmbedPlans ==
  {Users("openai", "small", <<Ask("embed", <<"s">>, 256), Ask("embed", <<"t">>, 0)>>,
                            <<Ask("batch", <<"s", "t">>, 512), Ask("batch", <<>>, 0)>>),
   Users("gemini", "text004", <<Ask("embed", <<"s">>, 256), Ask("batch", <<"t">>, 768)>>,
                              <<Ask("batch", <<"s", "t">>, 512), Ask("embed", <<"t">>, 0)>>),
   Users("openai", "small", <<Ask("dedup", <<"s", "t", "s">>, 0), Set("setdims", "none", 2000)>>,
                            <<Set("setmodel", "large", 0), Ask("embed", <<"s">>, 0), Set("setmodel", "nomic", 0)>>),
   Users("gemini", "text004", <<Ask("dedup", <<"s", "t", "s">>, 0)>>,
                              <<Set("configure", "gem", 0), Ask("embed", <<"s">>, 0), Set("setdims", "none", 256)>>),
   Users("openai", "nomic", <<Set("setdims", "none", 100), Ask("embed", <<"s">>, 256)>>,
                            <<Set("configure", "ada", 1536), Ask("embed", <<"s">>, 0)>>)}
\* One language model client, a speaker and one who sets another model.
Say(op) == [op |-> op, model |-> "none"]
Speakers(k, a, b) == [kind |-> k, model |-> "m", calls |-> "s1" :> a @@ "s2" :> b, ends |-> 1]
SetModel == [op |-> "setmodel", model |-> "n"]
MCTalkPlans ==
  {Speakers("anthropic", <<Say("structured")>>, <<SetModel>>), Speakers("gemini", <<Say("context")>>, <<SetModel>>),
   Speakers("deepseek", <<Say("completion")>>, <<SetModel>>), Speakers("ollama", <<Say("structured")>>, <<SetModel>>),
   Speakers("openai", <<Say("context"), Say("health")>>, <<SetModel>>),
   Speakers("anthropic", <<Say("health")>>, <<Say("health")>>), Speakers("deepseek", <<Say("stream"), Say("entities")>>, <<>>)}
\* One manager with its file: two admins, an editor and the auto reload.
Gpt == <<"llm", "openai">>
Vec == <<"embedding", "openai">>
Alt == <<"llm", "alt">>
MCEntry == {Gpt, Vec, Alt}
By(who, k, given) == [kind |-> k, given |-> given, by |-> who]
Good(who) == By(who, "anthropic", {"model", "key"})
Keyless(who) == By(who, "openrouter", {"model"})
Emb(who) == By(who, "gemini", {"model", "dimensions"})
None3 == [e \in MCEntry |-> NoSetting]
Op(op) == [op |-> op, entry |-> Alt, is |-> NoSetting]
Puts(op, e, s) == [op |-> op, entry |-> e, is |-> s]
Turn(which) == [op |-> "overrides", entry |-> Alt, is |-> which]
Conf(a, b, env, holds, edits, ticks) ==
  [calls |-> "a1" :> a @@ "a2" :> b, settings |-> None3, holds |-> holds, environment |-> env, edits |-> edits, ticks |-> ticks]
HasAlt(s) == [None3 EXCEPT ![Alt] = s]
HasGpt(s) == [None3 EXCEPT ![Gpt] = s]
HasTwo(s, t) == [None3 EXCEPT ![Alt] = s, ![Vec] = t]
Edit(holds, parses) == [holds |-> holds, parses |-> parses]
MCConfigPlans ==
  {Conf(<<Op("load"), Op("watch"), Puts("set", Alt, Good("a1")), Op("save")>>, <<Puts("remove", Alt, NoSetting)>>, {},
        HasAlt(Good("f")), <<Edit(HasAlt(Good("g")), TRUE)>>, 3),
   Conf(<<Op("load"), Op("watch"), Op("unwatch"), Op("watch")>>, <<>>, {"openai"},
        HasGpt(Good("f")), <<Edit(HasAlt(Good("g")), FALSE), Edit(HasGpt(Good("h")), TRUE)>>, 3),
   Conf(<<Op("load"), Turn("off"), Op("reload"), Turn("on")>>, <<Op("reload"), Op("environment")>>, {"openai"},
        HasGpt(Good("f")), <<Edit(HasGpt(Good("g")), TRUE)>>, 0),
   Conf(<<Op("regload"), Puts("update", Alt, Good("a1"))>>, <<Puts("set", Alt, Good("a2")), Puts("set", Alt, By("a2", "openai", {"model"}))>>, {"openai"},
        HasTwo(Good("f"), Emb("f")), <<Edit(HasTwo(Good("g"), Emb("g")), TRUE)>>, 0),
   Conf(<<Op("regload")>>, <<Op("regenv")>>, {"openai"}, HasAlt(By("f", "anthropic", {"model"})), <<>>, 0),
   Conf(<<Op("regload"), Puts("update", Gpt, Good("a1"))>>, <<>>, {}, [HasAlt(Keyless("f")) EXCEPT ![Gpt] = Good("f")], <<>>, 0)}
\* The storages: two operators of the profiles, the manager and the monitor.
Do(op, name) == [op |-> op, name |-> name, part |-> NoPart, item |-> "none"]
Thing(op, side, item) == [op |-> op, name |-> side, part |-> NoPart, item |-> item]
Edited(side, part) == [op |-> "edit", name |-> side, part |-> part, item |-> "none"]
Unsaid == [type |-> "", place |-> "", number |-> {}, sections |-> {}]
NoVars == [env |-> "test", relational |-> Unsaid, graph |-> Unsaid, vector |-> Unsaid]
Vars == [NoVars EXCEPT !.relational = [Unsaid EXCEPT !.type = "postgresql", !.place = "named", !.number = {2}],
                       !.graph.type = "neo4j", !.graph.sections = {"kuzu"},
                       !.vector = [Unsaid EXCEPT !.type = "qdrant", !.number = {1536}]]
NoFile == [format |-> "other", names |-> "plain", env |-> "none", parts |-> [s \in Side |-> NoPart]]
File(format, names, r, g, v) == [format |-> format, names |-> names, env |-> "file", parts |-> [relational |-> r, graph |-> g, vector |-> v]]
Storage(a, b, says, file, changes, ticks, auto, alone) ==
  [calls |-> "o1" :> a @@ "o2" :> b, vars |-> says, file |-> file, changes |-> changes, ticks |-> ticks, auto |-> auto, alone |-> alone]
Sqlite(max) == Part("sqlite", max, 1, "named")
MCSetupPlans ==
  {\* the monitor alone
  Storage(<<Do("start", "none"), Do("stop", "none"), Do("start", "none")>>,
          <<Do("stop", "none"), Do("report", "none")>>, NoVars, NoFile, <<>>, 2, TRUE, TRUE),
  Storage(<<Do("start", "none"), Do("stop", "none"), Do("start", "none"), Do("stop", "none")>>, <<>>, NoVars,
          NoFile, <<>>, 1, FALSE, TRUE),
  Storage(<<Do("checker", "graph"), Do("start", "none"), Do("one", "graph")>>,
          <<Do("unchecker", "graph"), Do("report", "none")>>, NoVars, NoFile, <<<<"graph", "down">>>>, 1, TRUE,
          TRUE),
  \* the manager
  Storage(<<Do("environment", "none"), Do("validate", "none"), Do("build", "none"), Do("close", "none")>>,
          <<Do("report", "none"), Do("healthy", "none")>>, Vars, NoFile, <<<<"graph", "crowded">>>>, 1, TRUE,
          FALSE),
  Storage(<<Do("load", "none"), Do("build", "none"), Do("close", "none")>>, <<Do("report", "none")>>,
          NoVars, File("json", "snake", Sqlite(2), NoPart, NoPart),
          <<<<"relational", "full">>, <<"relational", "serving">>>>, 1, TRUE, FALSE),
  Storage(<<Do("profile", "development"), Do("validate", "none"), Do("build", "none"), Thing("write", "graph", "x"), Thing("read", "graph", "none"), Do("close", "none")>>,
          <<Thing("write", "relational", "y"), Thing("read", "relational", "none")>>, NoVars, NoFile, <<>>, 1,
          TRUE, FALSE),
  Storage(<<Do("profile", "file-based"), Do("validate", "none"), Do("build", "none"), Thing("write", "graph", "x"), Thing("read", "graph", "none")>>,
          <<Do("profile", "default"), Edited("relational", Sqlite(1)), Do("environment", "none"), Thing("write", "graph", "y")>>,
          NoVars, NoFile, <<>>, 0, TRUE, FALSE),
  Storage(<<Do("profile", "hybrid"), Do("validate", "none"), Do("build", "none")>>,
          <<Do("profile", "cloud"), Do("add", "hybrid"), Edited("graph", Part("neo4j", 1, 0, "named"))>>,
          NoVars, NoFile, <<<<"vector", "down">>>>, 1, TRUE, FALSE),
  Storage(<<Do("load", "none"), Do("validate", "none"), Do("build", "none")>>,
          <<Do("profile", "cloud"), Do("save", "yaml"), Do("save", "other"), Do("load", "none")>>, NoVars,
          File("yaml", "snake", Sqlite(2), Part("sqlite", 2, 0, "named"), Part("sqlite", 2, 0, "named")), <<>>,
          1, TRUE, FALSE),
  Storage(<<Do("load", "none"), Do("validate", "none"), Do("build", "none")>>, <<>>, NoVars,
          File("json", "snake", Sqlite(2), Part("sqlite", 1, 0, "named"), Part("sqlite", 2, 0, "named")), <<>>,
          1, TRUE, FALSE),
  Storage(<<Do("load", "none"), Do("build", "none"), Thing("read", "graph", "none"), Do("close", "none")>>, <<>>,
          NoVars, File("json", "snake", Sqlite(2), NoPart, NoPart), <<<<"relational", "down">>>>, 1, TRUE,
          FALSE)}
\* The vector stores: one entry, or twelve of which the last has what is wanted.
Meta(tier, labels) == ForVector(Labelled(labels, Plain(tier)))
Places == <<"a", "b", "c", "d", "e", "f", "g", "h", "i", "j", "k", "l">>
Stock12 ==
  [id \in {Places[n] : n \in 1..12} |->
     LET n == CHOOSE n \in 1..12 : Places[n] = id IN
     [row |-> n, vector |-> 5 * n,
      meta |-> CASE n = 12 -> Meta("core", <<Plain("rule")>>) [] n = 5 -> Meta("general", <<Plain("story")>>)
                 [] OTHER -> Meta("general", <<>>)]]
Stock1 == "a" :> [row |-> 1, vector |-> 5, meta |-> Meta("general", <<Plain("rule")>>)]
Put1(id, vector, tier) == [id |-> id, vector |-> vector, meta |-> Meta(tier, <<>>)]
Puts1(op, id, vector, tier) == [op |-> op, items |-> <<Put1(id, vector, tier)>>, name |-> Home]
Many(op, items) == [op |-> op, items |-> items, name |-> Home]
Shelf(op, name) == [op |-> op, items |-> <<>>, name |-> name]
Adapter(k, stock, a, b, shelf) == [kind |-> k, stock |-> stock, calls |-> "c1" :> a @@ "c2" :> b, shelves |-> shelf]
MCVectorPlans ==
  LET general(id, vector) == Put1(id, vector, "general")
      core(id, vector) == Put1(id, vector, "core")
  IN UNION {
  {Adapter(k, Stock1, <<Puts1("store", "a", 10, "core"), Many("batch", <<general("b", 20), core("c", Misfit), core("d", 40)>>)>>,
           <<Puts1("delete", "a", 0, "general"), Puts1("update", "b", 25, "general"), Puts1("store", "b", 30, "core")>>, {Home, "vectors"}),
   Adapter(k, Stock1, <<Puts1("update", "a", 10, "core"), Many("deletes", <<general("a", 20), general("b", 0)>>), Puts1("store", "a", 30, "core")>>,
           <<Puts1("store", "a", 12, "general"), Puts1("delete", "a", 0, "core"), Puts1("store", "b", 20, "general")>>, {Home, "vectors"}),
   Adapter(k, Stock12, <<Shelf("create", "other"), Shelf("drop", Home), Puts1("store", "b", 13, "core")>>,
           <<Puts1("store", "a", 8, "general"), Shelf("drop", "other"), Shelf("create", Home)>>, {}),
   Adapter(k, Stock12, <<Shelf("create", "other"), Shelf("drop", Home)>>, <<Puts1("store", "a", 8, "general")>>, {Home, "vectors"})} :
  k \in {"inmemory", "sqlite", "pgvector", "redis", "qdrant"}}
Search(tier, labels, limit, threshold) ==
  [filter |-> [tier |-> tier, labels |-> labels], limit |-> limit, threshold |-> threshold]
MCQueries ==
  {Search(Plain("core"), <<>>, 1, 0), Search(Absent, <<Plain("rule")>>, 1, 0), Search(Absent, <<>>, 12, 0),
   Search([Plain("core") EXCEPT !.loud = TRUE], <<>>, 12, 70), Search(Plain("general"), <<Plain("story")>>, 1, 0),
   Search(Absent, <<>>, 0, 70), Search(Absent, <<>>, -1, 0)}
\* The relational stores: an input, another row, and two who ask for them.
Word(name, upper, ascii) == [name |-> name, upper |-> upper, ascii |-> ascii]
Point(isInput, session, word, time) ==
  [isInput |-> isInput, session |-> session, content |-> {Word(word, FALSE, TRUE)}, created |-> time]
Writing(op, id, row) == [op |-> op, rows |-> <<[id |-> id, row |-> row]>>]
Asking(q) == [op |-> "query", query |-> q]
AllPoints == [session |-> "", global |-> FALSE, unscoped |-> FALSE, text |-> NoPoint, exact |-> FALSE, after |-> 0,
              limit |-> 0, offset |-> 0, ascending |-> FALSE]
Session1(op, s) == [op |-> op, session |-> s, user |-> "u", time |-> 1]
Message(id, s) == [op |-> "say", id |-> id, session |-> s]
Relational(d, a, b, fail) ==
  [dialect |-> d, ids |-> {"a", "b", "c"}, calls |-> "p1" :> a @@ "p2" :> b, failures |-> fail,
   tables |-> [t \in {"datapoints", "input_datapoints"} |-> IF t = "datapoints" THEN "b" :> [Point(FALSE, "s1", "o", 2) EXCEPT !.content = {Word("o", TRUE, FALSE)}]
                               ELSE "a" :> Point(TRUE, "s1", "x", 1)]]
MCRelationalPlans ==
  UNION {
  {Relational(d, <<Writing("update", "a", Point(TRUE, "s1", "y", 9)), [op |-> "delete", ids |-> <<"a">>]>>,
              <<Asking(AllPoints), Writing("store", "c", Point(TRUE, "", "x", 2))>>, 0),
   Relational(d, <<[op |-> "batch", rows |-> <<[id |-> "c", row |-> Point(FALSE, "s1", "x", 3)], [id |-> "b", row |-> Point(FALSE, "", "y", 3)]>>],
                   [op |-> "unscoped"]>>,
              <<Asking([AllPoints EXCEPT !.session = "s1", !.global = TRUE]), [op |-> "deletes", ids |-> <<"a", "b", "c">>]>>, 1),
   Relational(d, <<[op |-> "wipe", session |-> "s1"], Writing("update", "b", Point(TRUE, "s1", "z", 3))>>,
              <<Writing("update", "a", Point(FALSE, "s2", "z", 3)), Asking([AllPoints EXCEPT !.text = Word("o", FALSE, FALSE)]),
                Asking([AllPoints EXCEPT !.text = Word("z", FALSE, TRUE), !.exact = TRUE, !.session = "s2"])>>, 0),
   Relational(d, <<Session1("session", "s1"), Message("m1", "s1"), Session1("end", "s1")>>,
              <<Session1("touch", "s1"), Message("m2", "s2"), Session1("forget", "s1"),
                Asking([AllPoints EXCEPT !.unscoped = TRUE, !.ascending = TRUE])>>, 0)} :
  d \in {"sqlite", "postgresql"}}
\* Two questions of a session, what the model may say to them, and the analysis.
Reply(garbled, missing, answer, reason) == [garbled |-> garbled, missing |-> missing, answer |-> answer, reason |-> reason]
SaysGarbled == Reply(TRUE, <<>>, FALSE, FALSE)
SaysAnswers == Reply(FALSE, <<>>, TRUE, TRUE)
SaysBoth == Reply(FALSE, <<"e">>, TRUE, FALSE)
SaysMisses == Reply(FALSE, <<"e", "g">>, FALSE, TRUE)
SaysBlank == Reply(FALSE, <<>>, FALSE, FALSE)
Known(name, s, about, runes, wide) == [name |-> name, session |-> s, about |-> about, runes |-> runes, wide |-> wide]
Own(name, runes, wide) == Known(name, "default", "d", runes, wide)
Other(name, about) == Known(name, "s2", about, 1, 1)
Question(s, near, names, limit, thinking, steps, max, says) ==
  [session |-> s, near |-> near, names |-> names, limit |-> limit, thinking |-> thinking, steps |-> steps, max |-> max,
   learns |-> TRUE, request |-> max = 0, graph |-> s # "", says |-> says]
Finding(name, ends) == [fact |-> Known(name, "", "e", 1, 1), ends |-> ends]
Thoughts(queries, rounds) ==
  [queries |-> queries, rounds |-> rounds,
   lore |-> "n" :> [fact |-> Known("n", "s2", "e", 1, 1), in |-> "graph"] @@ "p" :> [fact |-> Known("p", "s2", "e", 1, 2), in |-> "vectors"]
            @@ "q" :> [fact |-> Known("q", "default", "g", 1, 1), in |-> "vectors"] @@ "r" :> [fact |-> Known("r", "s2", "h", 1, 1), in |-> "graph"],
   chats |-> "default" :> <<>>, findings |-> <<Finding("x", {}), Finding("y", {"x", "n"})>>]
MCThinkPlans ==
  {Thoughts("t1" :> Question("default", <<Other("o", "h"), Own("a", 2, 1)>>, {"e"}, 0, TRUE, 2, 0, {SaysAnswers, SaysMisses}) @@
            "t2" :> Question("default", <<Own("b", 1, 1)>>, {}, 0, FALSE, 0, 0, {SaysBlank}), 1),
   Thoughts("t1" :> Question("default", <<Own("a", 2, 1), Own("b", 5, 2)>>, {"g"}, 2, TRUE, 2, 4, {SaysGarbled, SaysAnswers, SaysBoth, SaysMisses}), 0),
   Thoughts("t1" :> Question("default", <<Own("a", 2, 1), Own("b", 2, 1), Other("o", "h"), Own("c", 3, 2), Own("d", 1, 1)>>, {}, 0, FALSE, 0, 4,
                             {SaysGarbled, SaysAnswers, SaysBlank}), 0),
   Thoughts("t1" :> Question("", <<Known("a", "", "e", 1, 1), Other("o", "g")>>, {}, 0, TRUE, 0, 0, {SaysGarbled, SaysAnswers, SaysMisses, SaysBlank}), 1)}
\* Extraction: two texts at the tagger, or two memories a language model reads, of
\* which one may be compared with an entity a request was told of.
Tagged(name, tokens, mark, class) ==
  [name |-> name, tokens |-> tokens, tag |-> [mark |-> mark, class |-> class], plain |-> TRUE, ends |-> FALSE, has |-> {name}]
Odd(w) == [w EXCEPT !.plain = FALSE]
Stops(w) == [w EXCEPT !.ends = TRUE]
Text(words) == [words |-> words, entities |-> {}, relations |-> {}]
Tagger(a, b) ==
  [tagger |-> TRUE, structured |-> FALSE, strict |-> FALSE, compares |-> FALSE, chunks |-> "m1" :> Text(a) @@ "m2" :> Text(b), told |-> <<>>]
Spoken(text) == [text |-> <<text>>, loud |-> FALSE]
Aloud(text) == [text |-> <<text>>, loud |-> TRUE]
Nameless == [text |-> <<>>, loud |-> FALSE]
Entry1(name, type, confidence, props) == [name |-> name, type |-> type, confidence |-> confidence, props |-> props]
Related(a, b, type) == [from |-> Spoken(a), to |-> Spoken(b), type |-> type]
Read1(entries, relations) == [words |-> <<>>, entities |-> entries, relations |-> relations]
Reader(structured, strict, a, b, told) ==
  [tagger |-> FALSE, structured |-> structured, strict |-> strict, compares |-> told # <<>>,
   chunks |-> "m1" :> a @@ "m2" :> b, told |-> told]
MCExtractionPlans ==
  LET ann == Entry1(Spoken("ann"), "people", 0, <<>>)
      role == Entry1(Spoken("ann"), "person", 120, "role" :> "r")
      bare == Entry1(Nameless, "company", 0, <<>>)
      titled == Entry1(Nameless, "", 50, "title" :> Spoken("ann"))
      odd == Entry1(Aloud("ann"), "planet", 0, <<>>)
      told == <<"told", 1>> :> [type |-> "person", props |-> "name" :> Aloud("ann")]
      brief == <<"told", 1>> :> [type |-> "person", props |-> <<>>]
      joins == {<<Related("ann", "company", "owns"), Related("ann", "bob", "owns")>>, <<Related("company", "ann", "likes")>>}
  IN {Tagger(<<Tagged("ann", 2, "B", "PER"), Tagged("lee", 1, "I", "PER"), Stops(Tagged("acme", 2, "B", "ORG")), Tagged("rome", 1, "I", "LOC")>>,
             <<Tagged("bob", 1, "B", "PER"), Tagged("saw", 1, "O", ""), Tagged("bob", 1, "I", "PER"), Tagged("lee", 1, "I", "PER")>>),
      Tagger(<<Tagged("ann", 1, "B", "PER"), Odd(Tagged("in", 1, "O", "")), Tagged("rome", 1, "B", "LOC")>>,
             <<Tagged("ann", 5, "B", "PER"), Tagged("lee", 3, "I", "PER"), Tagged("bob", 1, "B", "PER")>>),
      Reader(TRUE, FALSE, Read1({<<ann, bare, role>>, <<titled, odd>>}, joins), Read1({<<role>>}, {}), told),
      Reader(TRUE, FALSE, Read1({<<ann, ann>>, <<bare, titled>>}, joins), Read1({<<ann>>}, {<<Related("ann", "ann", "synonym")>>}), brief),
      Reader(TRUE, TRUE, Read1({<<ann, bare>>, <<odd>>}, joins), Read1({<<ann>>}, {}), <<>>),
      Reader(FALSE, TRUE, Read1({<<Entry1(Nameless, "idea", 0, <<>>), ann>>, <<ann, odd>>}, joins), Read1({<<ann, bare>>}, joins), <<>>)}
\* The web view: rows of three sessions, of which one has no mark, a visitor who
\* pages and one who adds and deletes, and the engine at work on an input.
Word1(name) == [name |-> name, loud |-> FALSE]
Row1(session, marks, tier, status) ==
  [session |-> session, marks |-> marks, tier |-> tier, status |-> status, said |-> Unheard, nodes |-> {}, links |-> {}]
Choose1(session, sort, status, tier) == [session |-> Word1(session), kind |-> sort, status |-> status, tier |-> tier]
Page1(op, filter, limit, offset) == [op |-> op, filter |-> filter, limit |-> limit, offset |-> offset]
Add1(session, cognify, nodes) ==
  [op |-> "add", session |-> session, tier |-> "data", cognify |-> cognify, nodes |-> nodes,
   links |-> IF Cardinality(nodes) = 2 THEN {l \in nodes \X nodes : l[1] # l[2]} ELSE {}]
Gone1(op, session) == [op |-> op, session |-> session]
Relations1(session, limit) == [op |-> "relations", session |-> Word1(session), limit |-> limit]
Task1(op, id, nodes) == [op |-> op, id |-> id, nodes |-> nodes, links |-> IF Cardinality(nodes) = 2 THEN {l \in nodes \X nodes : l[1] # l[2]} ELSE {}]
View1(rows, stored, net, a, b, work) ==
  [memories |-> rows, preview |-> stored, web |-> net, todo |-> "v1" :> a @@ "v2" :> b, agenda |-> work, types |-> <<"C", "E">>]
MCViewPlans ==
  LET all == Choose1("", "all", "", "")
      loud == [name |-> "global", loud |-> TRUE]
      rows == <<Row1(Word1("s1"), {"is_input"}, "general", "pending"), Row1(Anywhere, {}, "", "completed"),
                Row1(Word1("s1"), {"parent_id"}, "core", "completed"), Row1(Word1("s2"), {"is_chunk", "parent_id"}, "none", "cognified")>>
      none == [nodes |-> <<>>, links |-> {}, both |-> FALSE]
      c(n) == <<"C", n>>
      e(n) == <<"E", n>>
      net(both) == [nodes |-> [n \in {c(1), c(2), e(1), e(2)} |-> [type |-> n[1], source |-> IF n[2] = 1 THEN 3 ELSE 9]],
                    links |-> {<<c(1), e(1)>>, <<e(1), e(2)>>, <<e(2), c(2)>>, <<c(2), c(1)>>}, both |-> both]
  IN {View1(rows, {3}, none, <<Page1("list", all, 2, 0), Page1("list", all, 2, 2), Page1("list", all, 0, -1)>>,
            <<Add1(loud, FALSE, {}), Gone1("wipe", Word1("s1")), Add1(Word1(""), TRUE, {})>>, <<Task1("split", 1, {})>>),
      View1(rows, {3}, none, <<Page1("list", Choose1("s1", "", "completed", "general"), 2, 0), Page1("vectors", all, 1, 1),
                               Page1("list", Choose1("s1", "", "completed", "general"), 2, 2)>>,
            <<Page1("list", Choose1("_", "input", "all", "weird"), 1, 0), Gone1("delete", Word1("")), Gone1("wipe", Word1("shared"))>>,
            <<Task1("embed", 4, {}), Task1("split", 1, {})>>),
      View1(rows, {1, 3, 4}, none, <<Page1("vectors", all, 2, 0), Page1("vectors", all, 2, 2)>>,
            <<Page1("list", all, 1, 1), Gone1("delete", Word1("")), Gone1("wipe", Word1(""))>>, <<Task1("embed", 2, {}), Task1("complete", 1, {})>>),
      View1(rows, {}, net(FALSE), <<Page1("list", all, 2, 1), Gone1("delete", Word1("")), Relations1("", 3)>>, <<Gone1("wipe", Word1("s1"))>>, <<Task1("draw", 4, {c(3), e(3)})>>),
      View1(rows, {}, net(TRUE), <<Relations1("s2", 5)>>, <<Page1("list", all, 4, 0), Gone1("delete", Word1(""))>>, <<Task1("draw", 4, {c(1), e(3)})>>),
      View1(rows, {}, none, <<Relations1("", 1), Relations1("s1", 3)>>, <<Add1(Word1("s1"), TRUE, {c(1), e(1)})>>,
            <<Task1("complete", 4, {c(1), c(2)}), Task1("draw", 4, {c(1), c(2)})>>)}
=============================================================================
