------------------------------- MODULE TinyDb -------------------------------
(***************************************************************************)
(* HelpfulTinyDb and TinyDbApi: what users and apps keep in one key-value  *)
(* table and in dynamic tables, told apart by names joined of a user's id, *)
(* a scope (an app, or nothing for the user) and a name.                   *)
(*                                                                         *)
(* The tables of the node itself (HelpfulAuthDb) live in the same store:   *)
(* redefine makes them, or brings them up to date, when the process starts *)
(* and before it serves anybody.                                           *)
(***************************************************************************)
EXTENDS DynTableStore

CONSTANTS
  User,         \* the id of the user (ids are of one length and hold no separator)
  Scopes,       \* "" and the apps (those whose names hold no `!!')
  Split,        \* what a scope is cut into at each `_'
  Escaped,      \* what a search makes of a scope, which it means to escape
  Folds,        \* the pairs of words that are the same but for case
  Types,        \* the names of GraphQL types, cut at each `_'
  TinyTypes,    \* their definitions
  NodeTables,   \* the names of the node's own tables, in the order init makes them
  Keys,         \* the keys of the key-value table, cut at each `!!'
  Values        \* what is stored under them

VARIABLES
  kv,       \* the rows of the key-value table
  up,       \* the process serves
  answer,   \* the last search: who asked, and the keys of what was found
  traffic   \* bound: what is asked of this database: "keys", "tables", or, as
            \* releases change, rows of the "node"'s own tables.  The three touch
            \* different tables of SQLite (only delAllUserData runs two of them),
            \* so that to interleave them would show nothing more.

tinyVars == <<schemas, tables, req, torn, kv, up, answer, traffic>>

\* #table and #key: [prefix, user, scope, ...keys].filter(Boolean).join(separator).
\* Nothing keeps the separator out of scopes and names: the app a_b's type T and the
\* app a's type b_T have one table, <<User, "a", "b", "T">>.
Given(word) == IF word = "" THEN <<>> ELSE <<word>>
Join(scope, name) == <<User>> \o Split[scope] \o name
KeyRoot(scope) == <<User>> \o Given(scope)

Begins(root, name) == Len(root) <= Len(name) /\ \A i \in DOMAIN root : root[i] = name[i]
NodeNames == {NodeTables[i] : i \in DOMAIN NodeTables}

ASSUME TinyDbAssumption ==
  /\ TinyTypes \subseteq Definitions /\ NodeTables \in Seq(Tables)
  /\ User \in Words \ {""} /\ "" \in Scopes /\ Scopes \subseteq Words
  /\ Split \in [Scopes -> Seq(Words)] /\ Split[""] = <<>>
  /\ Types \subseteq Seq(Words) \ {<<>>}
  /\ \A n \in Tables : n # <<>>
  /\ \A n \in NodeNames : n[1] # User

\* LIKE finds every name that begins with the text, and no user's id in another's.
ASSUME LikeAssumption ==
  \A s \in Scopes :
    /\ \A n \in Tables : /\ (Begins(Join(s, <<>>), n) => Like(Join(s, <<>>), n))
                          /\ (Like(Join(s, <<>>), n) => n[1] = User)
    /\ \A k \in Keys : Begins(KeyRoot(s), k) => Like(KeyRoot(s), k)

ASSUME KeysAssumption ==
  /\ \A k \in Keys : k \in Seq(Words) /\ Len(k) > 1 /\ k[1] = User
  /\ Escaped \in [Scopes -> Words] /\ Escaped[""] = ""
  /\ \A w \in Scopes \cup {User} : <<w, w>> \in Folds

Start(r, q) == up /\ At(r, "idle") /\ Go(r, q)
Of(op, scope) == [Blank EXCEPT !.op = op, !.scope = scope]
-----------------------------------------------------------------------------
(* The process starts. *)

\* A release brings its own definitions; one table after the other is redefined.
Boot(r) ==
  /\ ~up /\ \A o \in Reqs : At(o, "idle")
  /\ \E new \in [DOMAIN NodeTables -> IF traffic = "node" THEN Definitions ELSE TinyTypes] :
       Go(r, [Blank EXCEPT !.op = "boot", !.pc = "next",
                !.rest = [i \in DOMAIN NodeTables |-> [name |-> NodeTables[i], def |-> new[i]]]])
  /\ UNCHANGED <<schemas, tables, torn>>

RedefineNext(r) ==
  /\ At(r, "next") /\ req[r].op = "boot" /\ req[r].rest # <<>>
  /\ LET q == req[r] IN
     Define(r, [q EXCEPT !.name = Head(q.rest).name, !.new = Head(q.rest).def,
                         !.rest = Tail(q.rest)], "compare")
  /\ UNCHANGED <<schemas, tables, torn>>

\* init() resolves, and requests are served; or a registration is answered.
Done(r) == At(r, "next") /\ req[r].rest = <<>>
Booted(r) == Done(r) /\ req[r].op = "boot"
End(r) ==
  /\ Done(r)
  /\ Go(r, Blank)
  /\ UNCHANGED <<schemas, tables, torn>>
-----------------------------------------------------------------------------
(* Tables. *)

\* POST /dynamic/tables and, although they replace nothing, PUT .../:name
Register(r, scope) ==
  /\ \E names \in {<<t>> : t \in Types} \cup (Types \X Types), d \in TinyTypes :
       /\ \A i, j \in DOMAIN names : i # j => names[i] # names[j]
       /\ \A i \in DOMAIN names : Join(scope, names[i]) \in Tables
       /\ Start(r, [Of("register", scope) EXCEPT !.pc = "next",
            !.rest = [i \in DOMAIN names |-> [name |-> Join(scope, names[i]), def |-> d]]])
  /\ UNCHANGED <<schemas, tables, torn>>

\* registerSchemas creates one table after the other.
CreateNext(r) ==
  /\ At(r, "next") /\ req[r].op = "register" /\ req[r].rest # <<>>
  /\ LET q == req[r] IN
     InsertSchema(r, [q EXCEPT !.name = Head(q.rest).name, !.rest = Tail(q.rest)],
                  Head(q.rest).def)

DropTable(r, scope) ==
  /\ \E t \in {x \in Types : Join(scope, x) \in Tables} :
       Start(r, [Of("drop", scope) EXCEPT !.pc = "drop", !.name = Join(scope, t)])
  /\ UNCHANGED <<schemas, tables, torn>>

\* list(prefix)
Listed(scope) == {n \in Tables : schemas[n] # Nothing /\ Like(Join(scope, <<>>), n)}

\* #translateSchema takes the third piece for the name, whatever the scope was.
Translated(n) == IF Len(n) < 3 THEN <<>> ELSE Given(n[3])

\* DELETE /dynamic/tables lists, and drops an await later.
AsListed(scope) == Listed(scope)   \* (a bug the code avoids)
ToDrop(scope) == {Join(scope, Translated(n)) : n \in Listed(scope)}
DropAll(r, scope) ==
  /\ Start(r, [Of("dropAll", scope) EXCEPT !.pc = "dropMany", !.names = ToDrop(scope)])
  /\ UNCHANGED <<schemas, tables, torn>>

\* A mutation finds its table in the list, and adds a row through its handle.
AddRow(r, scope) ==
  /\ \E n \in Listed(scope) :
       /\ Join(scope, Translated(n)) \in Tables
       /\ Start(r, [Of("add", scope) EXCEPT !.pc = "handle",
                                            !.name = Join(scope, Translated(n))])
  /\ UNCHANGED <<schemas, tables, torn>>
AddNodeRow(r) ==
  /\ \E n \in NodeNames : Start(r, [Of("addNode", "") EXCEPT !.pc = "handle", !.name = n])
  /\ UNCHANGED <<schemas, tables, torn>>
Handle(r) ==
  /\ At(r, "handle")
  /\ Define(r, req[r], "insert")
  /\ UNCHANGED <<schemas, tables, torn>>
-----------------------------------------------------------------------------
(* Key-value.  Each of these is one statement or one transaction. *)

\* put(key, null) deletes; in a batch it stores the text "null".
Put(k, v) == [kv EXCEPT ![k] = IF v = "null" THEN Nothing ELSE v]
BatchOp(store, op) == [store EXCEPT ![op.key] = IF op.type = "del" THEN Nothing ELSE op.value]

InScope(scope) == {k \in Keys : Begins(KeyRoot(scope), k) /\ Len(k) > Len(KeyRoot(scope))}

KeyValuePut(scope) == \E k \in InScope(scope), v \in Values \cup {"null"} : kv' = Put(k, v)
KeyValueDel(scope) == \E k \in InScope(scope) : kv' = [kv EXCEPT ![k] = Nothing]
KeyValueBatch(scope) ==
  \E a, b \in [key : InScope(scope), type : {"put", "del"}, value : Values \cup {"null"}] :
    kv' = BatchOp(BatchOp(kv, a), b)

\* search: the prefix ends with the separator, so that the word before it is whole.
\* Case does not count, and replace(/[%_@]/g, '@$1') has no group to put for $1: LIKE
\* takes what it makes of a scope that has these characters at its word.
Unscoped(scope) == {k \in Keys : <<User, k[1]>> \in Folds}   \* (a bug the code avoids)
Found(scope) ==
  LET root == <<User>> \o Given(Escaped[scope])
  IN {k \in Keys : Len(k) > Len(root) /\ \A i \in DOMAIN root : <<root[i], k[i]>> \in Folds}
KeyValueSearch(scope) ==
  answer' = [scope |-> scope, keys |-> {k \in Found(scope) : kv[k] # Nothing}]

\* delAllUserData: the keys, and an await later the tables.  Neither prefix ends
\* with the separator.
DelAllUserData(r, scope) ==
  /\ Start(r, [Of("delAll", scope) EXCEPT !.pc = "dropPrefixed", !.name = Join(scope, <<>>)])
  /\ kv' = [k \in Keys |-> IF Like(KeyRoot(scope), k) THEN Nothing ELSE kv[k]]
  /\ UNCHANGED <<schemas, tables, torn>>
-----------------------------------------------------------------------------
Init ==
  /\ StoreInit
  /\ kv = [k \in Keys |-> Nothing] /\ up = FALSE
  /\ answer = [scope |-> "none", keys |-> {}] /\ traffic \in {"keys", "tables", "node"}

TableRequest(r) ==
  \/ Boot(r)
  \/ /\ traffic = "tables"
     /\ \E s \in Scopes : Register(r, s) \/ DropTable(r, s) \/ DropAll(r, s) \/ AddRow(r, s)
  \/ traffic = "node" /\ AddNodeRow(r)
  \/ RedefineNext(r) \/ CreateNext(r) \/ Handle(r)

KeyValueRequest(scope) ==
  /\ up /\ traffic = "keys"
  /\ \/ (KeyValuePut(scope) \/ KeyValueDel(scope) \/ KeyValueBatch(scope)) /\ UNCHANGED answer
     \/ KeyValueSearch(scope) /\ UNCHANGED kv

Next ==
  /\ UNCHANGED traffic
  /\ \/ \E r \in Reqs :
          \/ TableRequest(r) /\ UNCHANGED <<kv, up, answer>>
          \/ StoreStep(r) /\ UNCHANGED <<kv, up, answer>>
          \/ End(r) /\ up' = (up \/ Booted(r)) /\ UNCHANGED <<kv, answer>>
          \/ /\ traffic # "node"
             /\ \E s \in Scopes : DelAllUserData(r, s) /\ UNCHANGED <<up, answer>>
     \/ \E s \in Scopes : KeyValueRequest(s) /\ UNCHANGED <<schemas, tables, req, torn, up>>
     \/ StoreCrash /\ up' = FALSE /\ UNCHANGED <<kv, answer>>

Spec == Init /\ [][Next]_tinyVars
-----------------------------------------------------------------------------
(* Properties. *)

\* Types; and a row of a table has a cell for every column it has.
DataTypeOK ==
  /\ \A n \in Tables :
       /\ schemas[n] = Nothing \/ schemas[n] \in SchemaRows
       /\ tables[n] # Nothing =>
            /\ \E d \in Definitions : tables[n].columns = d.columns /\ tables[n].required = d.required
            /\ DOMAIN tables[n].rows \subseteq Ids
            /\ \A i \in DOMAIN tables[n].rows : Len(tables[n].rows[i]) = Len(tables[n].columns)
  /\ torn \subseteq Tables /\ up \in BOOLEAN
  /\ kv \in [Keys -> Values \cup {Nothing, "null"}]

\* The schema table tells the truth: unless a creation stopped halfway (and until
\* somebody drops what it left), a table exists if and only if it has a row, and
\* with the columns and indexes that the row names, whatever requests create, drop
\* and migrate at once.
SchemasDescribeTables ==
  \A n \in Tables \ torn :
    \/ \E r \in Reqs : At(r, "createTable") /\ req[r].name = n
    \/ schemas[n] = Nothing /\ tables[n] = Nothing
    \/ /\ schemas[n] # Nothing /\ tables[n] # Nothing
       /\ tables[n].columns = schemas[n].def.columns
       /\ tables[n].indexes = Indexes(schemas[n].def, schemas[n].version)

Cell(t, i, c) == t.rows[i][CHOOSE k \in DOMAIN t.columns : t.columns[k] = c]
Shared(s, t) == {s.columns[k] : k \in DOMAIN s.columns} \cap {t.columns[k] : k \in DOMAIN t.columns}

\* A table loses rows only by being dropped: a release that redefines it keeps
\* every row, each value in the column it was written for, or changes nothing.
RowsKept ==
  [][\A n \in Tables : tables[n] # Nothing /\ tables'[n] # Nothing =>
       \A i \in DOMAIN tables[n].rows :
         /\ i \in DOMAIN tables'[n].rows
         /\ \A c \in Shared(tables[n], tables'[n]) : Cell(tables[n], i, c) = Cell(tables'[n], i, c)]_tinyVars

\* Creating, dropping and filling tables touches only tables whose name begins with the
\* request's user and scope, although the listing that a mutation or the dropping of all
\* tables is based on matches names of other scopes too (#table, #translateSchema); to
\* delete all of a scope may take others of the same user, and the node's own tables are
\* left to the node.  A scope is told by how names begin, because the code tells it no
\* other way: what the app a_b has is also the app a's, and all of it the user's.
OwnTablesOnly ==
  [][\A n \in Tables : tables'[n] # tables[n] =>
       \E r \in Reqs :
         /\ req'[r] # req[r]
         /\ CASE req[r].op = "delAll"               -> n[1] = User
              [] req[r].op \in {"boot", "addNode"}  -> n \in NodeNames
              [] OTHER -> Begins(Join(req[r].scope, <<>>), n)]_tinyVars

Stored(scope) == {k \in InScope(scope) : kv[k] # Nothing}

\* A search finds everything that is stored under the scope it is for, and nothing else
\* but what is under a scope of the same name up to case; given that the name of the
\* scope holds none of the characters that the search replaces.
SearchFindsOwn ==
  [][answer' # answer /\ Escaped[answer'.scope] = answer'.scope =>
       /\ Stored(answer'.scope) \subseteq answer'.keys
       /\ \A k \in answer'.keys :
            kv[k] # Nothing /\ (answer'.scope # "" => <<answer'.scope, k[2]>> \in Folds)]_tinyVars

\* types.ts:47-50: a session of the app has access to what has the prefix
\* `{userId}!{app}'; so its search finds what it stored.
SearchFindsStored ==
  [][answer' # answer => Stored(answer'.scope) \subseteq answer'.keys]_tinyVars
=============================================================================
