--------------------------- MODULE DynTableStore ----------------------------
(***************************************************************************)
(* SQLiteDynTableStore: a row of the schema table for each dynamic table,  *)
(* and the table itself.  A statement or a transaction of the WASM SQLite  *)
(* runs whole; an operation awaits between them, and there the others run. *)
(*                                                                         *)
(* TinyDb adds the operations' callers and the next-state relation.        *)
(***************************************************************************)
EXTENDS Naturals, Sequences, FiniteSets

CONSTANTS
  Tables,        \* the names in use, cut at each `_' into a sequence of pieces (and no
                 \* two alike but for case, which SQLite takes for one table)
  Definitions,   \* the schemas in use: columns (the id last), required, indexes
  Ids,           \* the ids of rows
  Likes,         \* the pairs of a text and a name that is LIKE 'text%': case does not
                 \* count, and a `_' in the text stands for any character
  Reqs,          \* slots of requests in flight
  Nothing,       \* no row, no table
  MaxVersion,    \* bound: how often a table is redefined
  MayCrash       \* whether the process may die

Words == STRING   \* the pieces of names, and the names of columns

ASSUME StoreAssumption ==
  /\ \A d \in Definitions : /\ d.columns \in Seq(Words) /\ d.columns[Len(d.columns)] = "id"
                            /\ d.required \subseteq Words /\ "id" \in d.required
                            /\ d.indexes \subseteq Words
  /\ Tables \subseteq Seq(Words)
  /\ MaxVersion \in Nat \ {0} /\ MayCrash \in BOOLEAN

SchemaRows == [def : Definitions, version : 0 .. MaxVersion]
TableStates == [columns : Seq(Words), required : SUBSET Words, indexes : SUBSET (Words \X Nat),
                rows : UNION {[I -> Seq(Words)] : I \in SUBSET Ids}]
ASSUME NothingAssumption == Nothing \notin SchemaRows /\ Nothing \notin TableStates

VARIABLES
  schemas,  \* the rows of the schema table
  tables,   \* the tables: columns, required, indexes, and rows from ids to cells
  req,      \* the local state of each request
  torn      \* history: names whose creation stopped, or lost its row, halfway

storeVars == <<schemas, tables, req, torn>>

\* A cell holds the name of the column it was written for, or nothing: what the
\* values are does not matter, in which column they are does.
Blank == [pc |-> "idle", op |-> "none", scope |-> "",
          name |-> <<>>, names |-> {}, new |-> Nothing, old |-> Nothing, rest |-> <<>>]

At(r, step) == req[r].pc = step
Go(r, q) == req' = [req EXCEPT ![r] = q]
Columns(d) == {d.columns[i] : i \in DOMAIN d.columns}

\* An await rejected and handleError answers; the database is as it was.
Fail(r) == Go(r, Blank) /\ UNCHANGED <<schemas, tables, torn>>

\* define: the row of the schema table as it is now is what the step `then' works
\* with, an await later.
Define(r, q, then) == Go(r, [q EXCEPT !.old = schemas[q.name], !.pc = then])

\* create and redefine end with a look at the table; its caller goes on with the next.
Finish(r, q) == Go(r, [q EXCEPT !.pc = "next"])
-----------------------------------------------------------------------------
(* create *)

\* The statement that inserts into the schema table ...
InsertSchema(r, q, d) ==
  IF schemas[q.name] # Nothing
  THEN Fail(r)
  ELSE /\ schemas' = [schemas EXCEPT ![q.name] = [def |-> d, version |-> 0]]
       /\ Go(r, [q EXCEPT !.pc = "createTable", !.new = d])
       /\ UNCHANGED <<tables, torn>>

Indexes(d, version) == {<<f, version>> : f \in d.indexes}
Empty(d, version) == [columns |-> d.columns, required |-> d.required,
                      indexes |-> Indexes(d, version), rows |-> [i \in {} |-> <<>>]]

\* ... and the transaction that makes the table.
CreateTable(r) ==
  /\ At(r, "createTable")
  /\ LET q == req[r] IN
     IF tables[q.name] # Nothing \/ ~(q.new.indexes \subseteq Columns(q.new))
     THEN /\ Go(r, Blank)
          /\ torn' = torn \cup {q.name}
          /\ UNCHANGED <<schemas, tables>>
     ELSE /\ tables' = [tables EXCEPT ![q.name] = Empty(q.new, 0)]
          /\ Finish(r, q)
          /\ UNCHANGED <<schemas, torn>>
-----------------------------------------------------------------------------
(* redefine *)

\* isEqual: the order of the columns does not count.
Equal(d, e) ==
  Columns(d) = Columns(e) /\ d.required = e.required /\ d.indexes = e.indexes

\* The definition has been read.
Compare(r) ==
  /\ At(r, "compare")
  /\ LET q == req[r] IN
     CASE q.old = Nothing  -> InsertSchema(r, q, q.new)
       [] q.old # Nothing /\ Equal(q.old.def, q.new) ->
            Finish(r, q) /\ UNCHANGED <<schemas, tables, torn>>
       [] OTHER ->
            /\ q.old.version < MaxVersion
            /\ Go(r, [q EXCEPT !.pc = "swap"]) /\ UNCHANGED <<schemas, tables, torn>>

\* The columns that both definitions have, in the order of one of them.  (The i-th
\* of those that are kept; SelectSeq, which is recursive, is out of the provers' reach.)
Kept(columns, others) ==
  LET places == {k \in DOMAIN columns : columns[k] \in others}
  IN [i \in 1 .. Cardinality(places) |->
        columns[CHOOSE k \in places : Cardinality({j \in places : j <= k}) = i]]
CommonInNewOrder(old, new) == Kept(new.columns, Columns(old))   \* (a bug the code avoids)
Common(old, new) == Kept(old.columns, Columns(new))

\* INSERT INTO the new table (common) SELECT * FROM the old one.
Filled(row, common, new) ==
  [i \in DOMAIN new.columns |->
     IF \E k \in DOMAIN common : common[k] = new.columns[i]
     THEN row[CHOOSE k \in DOMAIN common : common[k] = new.columns[i]]
     ELSE ""]
CopiedAsTheyAre(t, common, new) == t.rows   \* (a bug the code avoids)
Copied(t, common, new) ==
  [i \in DOMAIN t.rows |-> Filled(t.rows[i], common, new)]

\* What the statements of the transaction need to succeed, in their order.
Swappable(r, t, common, version) ==
  LET new == req[r].new IN
  /\ new.indexes \subseteq Columns(new)
  /\ t # Nothing
  /\ Indexes(new, version) \cap t.indexes = {}
  /\ Len(common) = Len(t.columns)
  /\ \A i \in DOMAIN t.rows, k \in DOMAIN new.columns :
       new.columns[k] \in new.required => Filled(t.rows[i], common, new)[k] # ""

\* The row of the schema table is updated in the same transaction.
NotRedefined(old, d, version) == old   \* (a bug the code avoids)
Redefined(old, d, version) == IF old = Nothing THEN Nothing ELSE [def |-> d, version |-> version]

\* The transaction that makes the new table, fills it, drops the old one and takes
\* its name.  It computes with the definition that was read an await before.
Swap(r) ==
  /\ At(r, "swap")
  /\ LET q == req[r]
         t == tables[q.name]
         common == Common(q.old.def, q.new)
         version == q.old.version + 1
     IN IF Swappable(r, t, common, version)
        THEN /\ tables' = [tables EXCEPT ![q.name] =
                             [Empty(q.new, version) EXCEPT !.rows = Copied(t, common, q.new)]]
             /\ schemas' = [schemas EXCEPT ![q.name] = Redefined(@, q.new, version)]
             /\ Finish(r, q)
             /\ UNCHANGED torn
        ELSE Fail(r)
-----------------------------------------------------------------------------
(* drop, dropMany and dropPrefixed *)

Like(prefix, name) == <<prefix, name>> \in Likes

\* The names for which a creation waits to make the table.
Creating(r) == {req[o].name : o \in {x \in Reqs \ {r} : At(x, "createTable")}}

\* One transaction: the rows of the schema table go, then the tables.
Discard(r, names) ==
  /\ schemas' = [n \in Tables |-> IF n \in names THEN Nothing ELSE schemas[n]]
  /\ tables' = [n \in Tables |-> IF n \in names THEN Nothing ELSE tables[n]]
  /\ torn' = (torn \ names) \cup (names \cap Creating(r))
  /\ Go(r, Blank)

Drop(r) ==
  /\ At(r, "drop")
  /\ LET n == req[r].name IN
     IF n \in Tables /\ tables[n] # Nothing THEN Discard(r, {n}) ELSE Fail(r)

\* Without names there is no condition, and the statement is no SQL.
DropMany(r) ==
  /\ At(r, "dropMany")
  /\ IF req[r].names = {} THEN Fail(r) ELSE Discard(r, req[r].names \cap Tables)

DropPrefixed(r) ==
  /\ At(r, "dropPrefixed")
  /\ Discard(r, {n \in Tables : schemas[n] # Nothing /\ Like(req[r].name, n)})
-----------------------------------------------------------------------------
(* A row is added through a handle that table() made from the definition   *)
(* as it was (SQLiteDynTable.add; #encode drops what it does not name).    *)
InsertRow(r) ==
  /\ At(r, "insert")
  /\ LET q == req[r]
         t == tables[q.name]
         given == Columns(q.old.def)
     IN IF /\ q.old # Nothing /\ t # Nothing
           /\ given \subseteq {t.columns[k] : k \in DOMAIN t.columns}
           /\ t.required \subseteq given
        THEN /\ \E i \in Ids \ DOMAIN t.rows :
                  tables' = [tables EXCEPT ![q.name].rows =
                    [x \in DOMAIN t.rows \cup {i} |->
                       IF x = i
                       THEN [k \in DOMAIN t.columns |->
                               IF t.columns[k] \in given THEN t.columns[k] ELSE ""]
                       ELSE t.rows[x]]]
             /\ Go(r, Blank)
             /\ UNCHANGED <<schemas, torn>>
        ELSE Fail(r)

StoreStep(r) ==
  \/ CreateTable(r) \/ Compare(r) \/ Swap(r)
  \/ Drop(r) \/ DropMany(r) \/ DropPrefixed(r) \/ InsertRow(r)

\* The process dies: a creation that waited for its table leaves the row alone.
StoreCrash ==
  /\ MayCrash /\ \E r \in Reqs : ~At(r, "idle")
  /\ req' = [r \in Reqs |-> Blank]
  /\ torn' = torn \cup {req[r].name : r \in {x \in Reqs : At(x, "createTable")}}
  /\ UNCHANGED <<schemas, tables>>

StoreInit ==
  /\ schemas = [n \in Tables |-> Nothing] /\ tables = [n \in Tables |-> Nothing]
  /\ req = [r \in Reqs |-> Blank] /\ torn = {}
=============================================================================
