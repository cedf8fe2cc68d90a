-------------------------- MODULE RelationalStores --------------------------
(***************************************************************************)
(* The relational stores behind their interface (storage/storage.go): the  *)
(* SQLite and the PostgreSQL adapter, which send the same statements but   *)
(* for a few.  One statement is atomic, a call is several: the two tables  *)
(* of datapoints are asked, updated and cleared one after the other, a     *)
(* batch row by row or in slices.                                          *)
(*                                                                         *)
(* A content is a set of words, [name, upper, ascii].  A behaviour is      *)
(* about one dialect and two callers.                                      *)
(***************************************************************************)
EXTENDS Integers, Sequences, FiniteSets, TLC
LOCAL INSTANCE Functions
LOCAL INSTANCE FiniteSetsExt

CONSTANTS
  Party,          \* who calls the store
  Unsure,         \* what calls promise that overlap
  NoPoint,        \* no row, no search text
  BatchSize,      \* the ids of one DELETE of SQLite (900 in the code)
  RelationalPlans \* [dialect, tables, ids, calls, failures]
LOCAL INSTANCE RowTables WITH NoRow <- NoPoint

VARIABLES
  dialect,   \* "sqlite" or "postgresql"
  tables,    \* the datapoints, as in RowTables
  sessions,  \* the rows of memory_sessions: id -> [user, access]
  messages,  \* the rows of session_messages: id -> session
  course,    \* party -> [calls, step, got, marred]: where it is
  answers,   \* party -> what its last query found, and history: what there was
             \* meanwhile, whether reading it broke off
  pledge,    \* id -> what the last call about it comes to
  failures   \* the statements that may still fail
relationalVars == <<dialect, tables, sessions, messages, course, answers, pledge, failures>>

Both == <<"datapoints", "input_datapoints">>
CallOf(p) == Head(course[p].calls)
Runs(p, ops) == course[p].calls # <<>> /\ CallOf(p).op \in ops
Busy(p) == course[p].calls # <<>> /\ course[p].step > 1
TableAt(p) == Both[course[p].step]

Pledged == DOMAIN pledge
\* The ids a call may change.
Concerns(call) ==
  CASE call.op \in {"store", "batch", "update"} -> {call.rows[i].id : i \in DOMAIN call.rows}
    [] call.op \in {"delete", "deletes"} -> Range(call.ids)
    [] call.op \in {"wipe", "unscoped"} -> Pledged
    [] OTHER -> {}
Meeting(p, o) == IF Busy(o) THEN Concerns(CallOf(p)) \cap Concerns(CallOf(o)) ELSE {}
Met(p) == course[p].marred \cup UNION {Meeting(p, o) : o \in Party \ {p}}
Passes(p, next) ==
  course' = [o \in Party |->
    IF o = p THEN next ELSE [course[o] EXCEPT !.marred = @ \cup Meeting(p, o)]]
\* On to the next statement of the call, with what it has got so far.
Continues(p, got) ==
  Passes(p, [course[p] EXCEPT !.step = @ + 1, !.got = got, !.marred = Met(p)]) /\ UNCHANGED pledge
\* The call is over.  new: what the ids it was about come to.
Completes(p, new) ==
  /\ Passes(p, [calls |-> Tail(course[p].calls), step |-> 1, got |-> {}, marred |-> {}])
  /\ pledge' = [id \in Pledged |->
       IF id \in Met(p) THEN Unsure ELSE IF id \in DOMAIN new THEN new[id] ELSE pledge[id]]
\* An error leaves open what the call has done.
Errs(p) == Completes(p, [id \in Concerns(CallOf(p)) |-> Unsure])
Nothing == [id \in {} |-> Unsure]

\* A query goes on while others write: what it may find grows, what it must find
\* shrinks.
AllRows(db) == {[table |-> x[1], id |-> x[2], row |-> db[x[1]][x[2]]] :
                  x \in {y \in Table \X Pledged : Has(db, y[1], y[2])}}
Meanwhile(p) ==
  answers' = [o \in Party |->
    IF o # p /\ Busy(o) /\ Runs(o, {"query"})
    THEN [answers[o] EXCEPT !.always = @ \cap AllRows(tables'), !.ever = @ \cup AllRows(tables')]
    ELSE answers[o]]
RowsOnly == UNCHANGED <<dialect, sessions, messages, failures>>

----------------------------------------------------------------------------

\* StoreDataPoint and StoreBatch, a statement for each row.
StoresRows(p) ==
  /\ Runs(p, {"store", "batch"})
  /\ LET rows == CallOf(p).rows
         given == rows[course[p].step]
     IN  /\ tables' = StoreDataPoint(tables, given.id, given.row)
         /\ IF course[p].step < Len(rows) THEN Continues(p, {})
            ELSE Completes(p, [id \in Concerns(CallOf(p)) |->
                   LET last == rows[Max({i \in DOMAIN rows : rows[i].id = id})].row IN
                   [table |-> TableForDataPoint(last), content |-> last.content]])
  /\ Meanwhile(p) /\ RowsOnly

\* The table the row belongs to, then the other; in neither it is an error.
UpdatesRow(p) ==
  /\ Runs(p, {"update"})
  /\ LET given == CallOf(p).rows[1]
         preferred == TableForDataPoint(given.row)
         t == IF course[p].step = 1 THEN preferred ELSE OtherTable(preferred)
     IN  IF Has(tables, t, given.id)
         THEN /\ tables' = Put(tables, t, given.id, given.row)
              /\ Completes(p, given.id :> [table |-> t, content |-> given.row.content])
         ELSE /\ UNCHANGED tables
              /\ IF course[p].step = 1 THEN Continues(p, {}) ELSE Completes(p, Nothing)
  /\ Meanwhile(p) /\ RowsOnly

Without(db, t, ids) == [db EXCEPT ![t] = Restrict(@, DOMAIN @ \ ids)]
\* From both tables, one after the other.
DeletesRow(p) ==
  /\ Runs(p, {"delete"})
  /\ tables' = Without(tables, TableAt(p), Range(CallOf(p).ids))
  /\ IF course[p].step = 1 THEN Continues(p, {})
     ELSE Completes(p, [id \in Range(CallOf(p).ids) |-> NoPoint])
  /\ Meanwhile(p) /\ RowsOnly

\* PostgreSQL deletes all ids from the one table and then from the other.
DeletesBatchPostgres(p) ==
  /\ dialect = "postgresql" /\ Runs(p, {"deletes"})
  /\ tables' = Without(tables, TableAt(p), Range(CallOf(p).ids))
  /\ IF course[p].step = 1 THEN Continues(p, {})
     ELSE Completes(p, [id \in Range(CallOf(p).ids) |-> NoPoint])
  /\ Meanwhile(p) /\ RowsOnly

\* SQLite takes a slice of them at a time, from both tables.
SliceEnd(ids, n) == IF (n + 1) * BatchSize < Len(ids) THEN (n + 1) * BatchSize ELSE Len(ids)
SliceOpen(ids, n) == {ids[i] : i \in n * BatchSize + 1 .. SliceEnd(ids, n) - 1}
SliceOf(ids, n) == {ids[i] : i \in n * BatchSize + 1 .. SliceEnd(ids, n)}
DeletesBatchSQLite(p) ==
  /\ dialect = "sqlite" /\ Runs(p, {"deletes"})
  /\ LET ids == CallOf(p).ids
         n == (course[p].step - 1) \div 2
     IN  /\ tables' = Without(tables, Both[((course[p].step - 1) % 2) + 1], SliceOf(ids, n))
         /\ IF course[p].step % 2 = 0 /\ SliceEnd(ids, n) = Len(ids)
            THEN Completes(p, [id \in Range(ids) |-> NoPoint]) ELSE Continues(p, {})
  /\ Meanwhile(p) /\ RowsOnly

OfSession(db, t, session) == {id \in DOMAIN db[t] : db[t][id].session = session}
\* DeleteDataPointsBySession and, for the rows of no session, Unscoped.
DeletesSessionRows(p) ==
  /\ Runs(p, {"wipe", "unscoped"})
  /\ LET session == IF Runs(p, {"unscoped"}) THEN "" ELSE CallOf(p).session
         of(id) == \E t \in Table : id \in OfSession(tables, t, session)
         now == {id \in Pledged : of(id)} \cup course[p].got
     IN  /\ tables' = Without(tables, TableAt(p), OfSession(tables, TableAt(p), session))
         /\ IF course[p].step = 1 THEN Continues(p, now)
            ELSE Completes(p, [id \in now |->
                   IF \E t \in Table : Has(tables', t, id) THEN pledge[id] ELSE NoPoint])
  /\ Meanwhile(p) /\ RowsOnly

\* SQLite knows the two cases of a letter only in ASCII.
Like(content, word) ==
  \E w \in content : w.name = word.name /\ (w.upper = word.upper \/ dialect = "postgresql" \/ w.ascii)
\* The conditions of a query.  A search text has one word; the other filters a
\* query may have are never looked at.
Chooses(q, row) ==
  /\ IF q.unscoped THEN row.session = ""
     ELSE q.session # "" => row.session = q.session \/ (q.global /\ row.session = "")
  /\ q.text # NoPoint => IF q.exact THEN row.content = {q.text} ELSE Like(row.content, q.text)
  /\ q.after < row.created
\* One table after the other; rows that are written meanwhile may be in both
\* answers, or in none.  Nobody asks rows.Err after the loop over the rows: where
\* reading them breaks off (the connection, the context), those read so far, any of
\* them, are the answer and no error is.
QueriesRows(p) ==
  /\ Runs(p, {"query"})
  /\ LET q == CallOf(p).query
         chosen == {f \in AllRows(tables) : f.table = TableAt(p) /\ Chooses(q, f.row)}
         known == IF course[p].step = 1 THEN [always |-> AllRows(tables), ever |-> AllRows(tables), broken |-> FALSE]
                  ELSE answers[p]
     IN  \E read \in IF failures > 0 THEN SUBSET chosen ELSE {chosen} :
           LET result == course[p].got \cup read IN
           /\ failures' = IF read = chosen THEN failures ELSE failures - 1
           /\ answers' = [answers EXCEPT ![p] =
                [query |-> q, found |-> result, done |-> course[p].step = 2,
                 always |-> known.always, ever |-> known.ever, broken |-> known.broken \/ read # chosen]]
           /\ IF course[p].step = 1 THEN Continues(p, result) ELSE Completes(p, Nothing)
  /\ UNCHANGED <<tables, dialect, sessions, messages>>

\* What is left of the answer: some rows in the order of their creation, newest
\* first unless asked otherwise.  Equal times come in any order.
Earlier(q, f, g) == IF q.ascending THEN f.row.created < g.row.created ELSE g.row.created < f.row.created
Pages(q, found) ==
  LET n == Cardinality(found)
      first == IF q.offset < 0 THEN 0 ELSE q.offset
      last == IF q.limit > 0 /\ first + q.limit < n THEN first + q.limit ELSE n
      before(f) == Cardinality({g \in found : Earlier(q, g, f)})
      equal(f) == {g \in found : g.row.created = f.row.created}
      places(f) == (before(f) + 1 .. before(f) + Cardinality(equal(f))) \cap (first + 1 .. last)
  IN  IF first >= n THEN {{}}
      ELSE {S \in kSubset(last - first, found) :
              \A f \in found : Cardinality(S \cap equal(f)) = Cardinality(places(f))}

----------------------------------------------------------------------------
(* Sessions and their messages: one statement each.                         *)

\* Stores or replaces; an update of a session that is gone is an error.
KeepsSession(p) ==
  /\ Runs(p, {"session", "touch", "end"})
  /\ LET s == CallOf(p).session IN
     sessions' = CASE Runs(p, {"session"}) -> (s :> [user |-> CallOf(p).user, access |-> CallOf(p).time]) @@ sessions
                   [] Runs(p, {"touch"}) ->
                        IF s \in DOMAIN sessions
                        THEN [sessions EXCEPT ![s] = [user |-> CallOf(p).user, access |-> CallOf(p).time]] ELSE sessions
                   [] OTHER -> Restrict(sessions, DOMAIN sessions \ {s})
  /\ Completes(p, Nothing)
  /\ UNCHANGED <<dialect, tables, messages, answers, failures>>

\* A session is not asked for: the messages of one that never was, or is ended,
\* are kept as well.
KeepsMessages(p) ==
  /\ Runs(p, {"say", "forget"})
  /\ messages' = IF Runs(p, {"say"})
                 THEN IF CallOf(p).id \in DOMAIN messages THEN messages
                      ELSE (CallOf(p).id :> CallOf(p).session) @@ messages
                 ELSE Restrict(messages, {m \in DOMAIN messages : messages[m] # CallOf(p).session})
  /\ Completes(p, Nothing)
  /\ UNCHANGED <<dialect, tables, sessions, answers, failures>>

\* A statement fails, or the context of the call is cancelled before it: an error.
StatementFails(p) ==
  /\ failures > 0 /\ course[p].calls # <<>>
  /\ failures' = failures - 1
  /\ Errs(p)
  /\ answers' = [answers EXCEPT ![p].done = FALSE]
  /\ UNCHANGED <<dialect, tables, sessions, messages>>

----------------------------------------------------------------------------
NoAnswer == [query |-> NoPoint, found |-> {}, done |-> FALSE, always |-> {}, ever |-> {}, broken |-> FALSE]
Kept(db, id) ==
  LET t == IF Has(db, "datapoints", id) THEN "datapoints" ELSE "input_datapoints" IN
  IF Has(db, t, id) THEN [table |-> t, content |-> db[t][id].content] ELSE NoPoint
RelationalInit(plan) ==
  /\ dialect = plan.dialect /\ tables = plan.tables /\ failures = plan.failures
  /\ sessions = <<>> /\ messages = <<>>
  /\ course = [p \in Party |-> [calls |-> plan.calls[p], step |-> 1, got |-> {}, marred |-> {}]]
  /\ answers = [p \in Party |-> NoAnswer]
  /\ pledge = [id \in plan.ids |-> Kept(plan.tables, id)]

RelationalNext ==
  \E p \in Party :
    \/ StoresRows(p) \/ UpdatesRow(p) \/ DeletesRow(p) \/ DeletesBatchPostgres(p) \/ DeletesBatchSQLite(p)
    \/ DeletesSessionRows(p) \/ QueriesRows(p) \/ KeepsSession(p) \/ KeepsMessages(p) \/ StatementFails(p)

----------------------------------------------------------------------------

\* What is deleted is in neither table, what is stored or updated in the one the
\* last call says, whatever other calls did before, if none overlapped that one
\* (the data points of both adapters).
RowsAsPledged ==
  \A id \in Pledged :
    (\A p \in Party : Busy(p) => id \notin Concerns(CallOf(p))) /\ pledge[id] # Unsure =>
      IF pledge[id] = NoPoint THEN \A t \in Table : ~Has(tables, t, id)
      ELSE /\ Has(tables, pledge[id].table, id)
           /\ tables[pledge[id].table][id].content = pledge[id].content

\* A query finds nothing that never was, and all that was there from its beginning
\* to its end, although it looks into one table after the other: unless reading the
\* rows breaks off (postgresql_adapter.go:438, sqlite_adapter.go:459), when what it
\* has found looks to its caller like the whole.
QueriesAreWhole ==
  \A p \in Party :
    LET a == answers[p] IN
    a.done =>
      /\ a.broken \/ {f \in a.always : Chooses(a.query, f.row)} \subseteq a.found
      /\ a.found \subseteq {f \in a.ever : Chooses(a.query, f.row)}

\* Who reads page after page, while nothing changes, sees each row once if no two
\* were created at the same time.  With equal times each page is a page of another
\* order, perhaps, and all there is to say is that every row is on a page it may
\* come to be on: it may be on two of those one reads, or on none.
PagesAddUp ==
  \A p \in Party :
    LET a == answers[p]
        page(i) == Pages([a.query EXCEPT !.limit = 1, !.offset = i], a.found)
        n == Cardinality(a.found)
        distinct == \A f, g \in a.found : f.row.created = g.row.created => f = g
    IN  a.done =>
          /\ \A i \in 0..n - 1 : \A S \in page(i) : Cardinality(S) = 1
          /\ UNION UNION {page(i) : i \in 0..n} = a.found
          /\ distinct => /\ \A i \in 0..n - 1 : Cardinality(page(i)) = 1
                         /\ \A i, j \in 0..n - 1 : i # j => page(i) \cap page(j) = {}
=============================================================================
