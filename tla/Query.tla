------------------------------- MODULE Query -------------------------------
(***************************************************************************)
(* The query language of searches, twice: compiled to the condition of an  *)
(* SQL statement, and tested in memory.  A query is a sequence of          *)
(* conditions on fields, in the order of its keys, each with one operator  *)
(* ("" for a plain value); all of them must hold.                          *)
(*                                                                         *)
(* Several operators on one field, $not, $or, $and and $nor compile to SQL *)
(* that names no column (db-util.ts:21, :41, :70), $in and $nin to text    *)
(* patterns; no query here has them.                                       *)
(***************************************************************************)
EXTENDS Integers, Sequences

CONSTANT Null   \* null, and SQL's NULL

ASSUME NullAssumption == Null \notin Int

Cells == Int \cup {Null}
Queries(row) ==
  Seq([field : DOMAIN row, op : {"", "$eq", "$ne", "$gt", "$lt", "$gte", "$lte"}, value : Cells])

\* compileExpr: the comparison, with the place of its value among the parameters.
Compared(op, value) ==
  CASE op \in {"", "$eq"} -> IF value = Null THEN "is" ELSE "="
    [] op = "$ne"         -> IF value = Null THEN "is not" ELSE "!="
    [] op = "$gt"         -> ">"
    [] op = "$lt"         -> "<"
    [] op = "$gte"        -> ">="
    [] op = "$lte"        -> "<="
NumberedAnew(cond, vars) ==   \* (a bug the code avoids)
  [field |-> cond.field, op |-> Compared(cond.op, cond.value), slot |-> 1]
CompileExpr(cond, vars) ==
  [field |-> cond.field, op |-> Compared(cond.op, cond.value), slot |-> Len(vars) + 1]

\* compileQuery: the statements, joined by AND, and the parameters.
CompileQuery(query) ==
  LET params == [i \in DOMAIN query |-> query[i].value]
  IN [statements |-> [i \in DOMAIN query |-> CompileExpr(query[i], SubSeq(params, 1, i - 1))],
      params     |-> params]

\* What SQLite makes of a statement: a comparison with NULL is not true.
Holds(stmt, params, row) ==
  LET cell  == row[stmt.field]
      value == params[stmt.slot]
  IN CASE stmt.op = "is"     -> cell = value
       [] stmt.op = "is not" -> cell # value
       [] OTHER -> /\ Null \notin {cell, value}
                   /\ CASE stmt.op = "="  -> cell = value
                        [] stmt.op = "!=" -> cell # value
                        [] stmt.op = ">"  -> cell > value
                        [] stmt.op = "<"  -> cell < value
                        [] stmt.op = ">=" -> cell >= value
                        [] stmt.op = "<=" -> cell <= value
Selected(rows, compiled) ==
  {row \in rows : \A i \in DOMAIN compiled.statements :
                    Holds(compiled.statements[i], compiled.params, row)}

\* resolveExpr: the value of the query comes first.  (JavaScript compares null as 0.)
Number(v) == IF v = Null THEN 0 ELSE v
NotNegated(op, value, cell) == value = cell   \* (a bug the code avoids)
ResolveExpr(op, value, cell) ==
  CASE op = "$eq"  -> value = cell
    [] op = "$ne"  -> value # cell
    [] op = "$gt"  -> Number(value) > Number(cell)
    [] op = "$lt"  -> Number(value) < Number(cell)
    [] op = "$gte" -> Number(value) >= Number(cell)
    [] op = "$lte" -> Number(value) <= Number(cell)

\* resolveQuery: a plain value is compared; a plain null it cannot take (it looks
\* for the operators of null, and throws).
Throws(query) == \E i \in DOMAIN query : query[i].op = "" /\ query[i].value = Null
ResolveQuery(query, row) ==
  \A i \in DOMAIN query :
    IF query[i].op = "" THEN query[i].value = row[query[i].field]
                        ELSE ResolveExpr(query[i].op, query[i].value, row[query[i].field])
-----------------------------------------------------------------------------
(* What a query means (common/types.ts: after Mongoose). *)
Means(cond, row) ==
  LET cell == row[cond.field] IN
  CASE cond.op \in {"", "$eq"} -> cell = cond.value
    [] cond.op = "$ne" -> cell # cond.value
    [] OTHER -> /\ Null \notin {cell, cond.value}
                /\ \/ cell > cond.value /\ cond.op \in {"$gt", "$gte"}
                   \/ cell < cond.value /\ cond.op \in {"$lt", "$lte"}
                   \/ cell = cond.value /\ cond.op \in {"$gte", "$lte"}
Meets(query, row) == \A i \in DOMAIN query : Means(query[i], row)
\* A row without a value in a column is neither equal to one nor different for SQL.
Undecided(query, row) ==
  \E i \in DOMAIN query : query[i].op = "$ne" /\ query[i].value # Null /\ row[query[i].field] = Null
=============================================================================
