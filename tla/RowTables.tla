----------------------------- MODULE RowTables -----------------------------
(***************************************************************************)
(* The two tables of datapoints of the SQLite adapter (the PostgreSQL      *)
(* adapter sends the same statements): inputs have a table of their own,   *)
(* and an id that is not in the table its row belongs to is looked for in  *)
(* the other.                                                              *)
(***************************************************************************)
EXTENDS Naturals

CONSTANT NoRow   \* what a lookup returns that finds nothing

Table == {"datapoints", "input_datapoints"}
Empty == [t \in Table |-> <<>>]

TableForDataPoint(row) == IF row.isInput THEN "input_datapoints" ELSE "datapoints"
OtherTable(t) == IF t = "datapoints" THEN "input_datapoints" ELSE "datapoints"

Has(db, t, id) == id \in DOMAIN db[t]

\* A row that replaces another keeps when that was created.
Put(db, t, id, row) ==
  LET kept == IF Has(db, t, id) THEN [row EXCEPT !.created = db[t][id].created] ELSE row
  IN  [db EXCEPT ![t] = [i \in DOMAIN @ \cup {id} |-> IF i = id THEN kept ELSE @[i]]]

StoreDataPoint(db, id, row) == Put(db, TableForDataPoint(row), id, row)

GetDataPoint(db, id) ==
  IF Has(db, "datapoints", id) THEN db["datapoints"][id]
  ELSE IF Has(db, "input_datapoints", id) THEN db["input_datapoints"][id]
  ELSE NoRow

\* Never inserts; a row that is in neither table is an error.
UpdateDataPoint(db, id, row) ==
  LET preferred == TableForDataPoint(row)
  IN  IF Has(db, preferred, id) THEN Put(db, preferred, id, row)
      ELSE IF Has(db, OtherTable(preferred), id) THEN Put(db, OtherTable(preferred), id, row)
      ELSE db

\* The rows of a table as a query returns them: [id, row].
QueryFromTable(db, t, q) ==
  {[id |-> id, row |-> db[t][id]] :
     id \in {id \in DOMAIN db[t] :
       /\ IF q.unscoped THEN db[t][id].session = ""
          ELSE q.session = "" \/ db[t][id].session = q.session
       /\ q.text = NoRow \/ db[t][id].content = q.text}}

\* Sorted by created_at, newest first, and cut to one.
NewestOf(found) ==
  {f \in found : \A g \in found : g.row.created <= f.row.created}
=============================================================================
