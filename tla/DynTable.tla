------------------------------ MODULE DynTable ------------------------------
(***************************************************************************)
(* The rows of one dynamic table, as SQLiteDynTable reads and writes them. *)
(* A table is a function from ids to rows; NoRow marks an id that has no   *)
(* row.  Every operator below is ONE SQL statement: the client runs it to  *)
(* the end at the call, before the promise it returns is awaited, so no    *)
(* other request can come between its reads and its writes.                *)
(***************************************************************************)
CONSTANT NoRow   \* what one() answers for an id without a row

\* The ids that have a row.
Live(t) == {i \in DOMAIN t : t[i] # NoRow}

\* INSERT with a new id.
Add(t, i, row) == [t EXCEPT ![i] = row]

\* A put that inserts when there is no row to update (a bug the code avoids).
Upsert(t, i, row) == [t EXCEPT ![i] = row]

\* UPDATE ... WHERE id: without a row there is nothing to update, and put
\* does not fail.
Put(t, i, row) == IF t[i] = NoRow THEN t ELSE [t EXCEPT ![i] = row]

\* DELETE ... WHERE id = .. OR id = ..: ids that have no row are ignored.
DelMany(t, ids) == [i \in DOMAIN t |-> IF i \in ids THEN NoRow ELSE t[i]]

Del(t, i) == DelMany(t, {i})
=============================================================================
