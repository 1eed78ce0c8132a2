---------------------------- MODULE TinyDbProofs ----------------------------
(***************************************************************************)
(* Theorems about TinyDb, for any names, definitions, keys and number of   *)
(* requests: the schema table tells the truth, no release loses a value,   *)
(* and requests touch only tables whose names begin like their scope.      *)
(***************************************************************************)
EXTENDS TinyDb, Integers, FiniteSetTheorems, SequenceTheorems, TLAPS

(* The inductive invariant. *)

Steps == {"idle", "next", "createTable", "compare", "swap",
          "handle", "insert", "drop", "dropMany", "dropPrefixed"}
Wanted == [name : Tables, def : Definitions]
Request ==
  [pc : Steps, op : {"none", "boot", "register", "drop", "dropAll", "add", "addNode", "delAll"},
   scope : Scopes, name : Seq(Words), names : SUBSET Seq(Words),
   new : Definitions \cup {Nothing}, old : SchemaRows \cup {Nothing}, rest : Seq(Wanted)]
Named == {"createTable", "compare", "swap", "handle", "insert", "drop"}

\* What a request holds at the step it is at.
Sound(q) ==
  /\ q.pc \in Named => q.name \in Tables
  /\ q.pc \in {"createTable", "compare", "swap"} => q.new \in Definitions
  /\ q.pc = "swap" => q.old \in SchemaRows /\ q.old.version < MaxVersion
  /\ q.pc \in {"compare", "swap"} => q.op = "boot"

\* The names that a request in a scope may touch.
Own(scope, n) == Begins(Join(scope, <<>>), n)

\* Whose tables a request is about to touch.
Bound(q) ==
  q.pc # "idle" =>
    /\ q.op \in {"boot", "addNode"} =>
         /\ q.pc \in Named => q.name \in NodeNames
         /\ q.pc \notin {"drop", "dropMany", "dropPrefixed"}
         /\ \A i \in DOMAIN q.rest : q.rest[i].name \in NodeNames
    /\ q.op = "addNode" => q.pc \in {"handle", "insert"}
    /\ q.op = "delAll" => q.pc = "dropPrefixed" /\ q.name = Join(q.scope, <<>>)
    /\ q.op \notin {"boot", "addNode", "delAll"} =>
         /\ q.pc # "dropPrefixed"
         /\ q.pc \in Named => Own(q.scope, q.name)
         /\ \A n \in q.names : Own(q.scope, n)
         /\ \A i \in DOMAIN q.rest : Own(q.scope, q.rest[i].name)

WellFormed(t) ==
  /\ \E d \in Definitions : t.columns = d.columns /\ t.required = d.required
  /\ \A i \in DOMAIN t.rows : Len(t.rows[i]) = Len(t.columns)

Typed ==
  /\ schemas \in [Tables -> SchemaRows \cup {Nothing}]
  /\ tables \in [Tables -> TableStates \cup {Nothing}]
  /\ torn \subseteq Tables /\ req \in [Reqs -> Request]

\* The process starts with nobody else about; before it has, nobody is served.
Alone ==
  /\ up \in BOOLEAN
  /\ \A r \in Reqs : ~At(r, "idle") =>
       IF req[r].op = "boot" THEN ~up /\ \A o \in Reqs \ {r} : At(o, "idle") ELSE up

\* What the start of the process has read is still so.
Fresh(q, rows) ==
  q.op = "boot" =>
    /\ q.pc \in {"compare", "swap"} => q.old = rows[q.name]
    /\ q.pc = "createTable" => rows[q.name] = [def |-> q.new, version |-> 0]

Matches(row, t) ==
  /\ row # Nothing /\ t # Nothing
  /\ t.columns = row.def.columns /\ t.indexes = Indexes(row.def, row.version)

\* A table of the node has a row that tells its columns, torn or not.
NodeTold ==
  \A n \in NodeNames : tables[n] # Nothing =>
    schemas[n] # Nothing /\ tables[n].columns = schemas[n].def.columns

\* The row that a creation has inserted is the row that is there, and the table is not.
Creators(n) == {r \in Reqs : At(r, "createTable") /\ req[r].name = n}
ToldOf(n) ==
  IF Creators(n) = {} THEN (schemas[n] = Nothing /\ tables[n] = Nothing) \/ Matches(schemas[n], tables[n])
  ELSE \A r, o \in Creators(n) :
         r = o /\ schemas[n] = [def |-> req[r].new, version |-> 0] /\ tables[n] = Nothing
Told == \A n \in Tables \ torn : ToldOf(n)

DataInv ==
  /\ Typed /\ Alone /\ NodeTold /\ Told
  /\ \A n \in Tables : tables[n] # Nothing => WellFormed(tables[n])
  /\ \A r \in Reqs : Sound(req[r]) /\ Bound(req[r]) /\ Fresh(req[r], schemas)
KvInv == kv \in [Keys -> Values \cup {Nothing, "null"}]
IInv == DataInv /\ KvInv
-----------------------------------------------------------------------------
(* Joined names. *)

\* Joined names begin with the user and the scope.
LEMMA JoinFacts ==
  ASSUME NEW scope \in Scopes, NEW name \in Seq(Words)
  PROVE  /\ Join(scope, <<>>) \in Seq(Words) /\ Join(scope, name) \in Seq(Words)
         /\ Join(scope, <<>>)[1] = User /\ 1 \in DOMAIN Join(scope, <<>>)
         /\ Join(scope, name)[1] = User
         /\ Begins(Join(scope, <<>>), Join(scope, name))
<1> DEFINE root == <<User>> \o Split[scope]
<1>1. Split[scope] \in Seq(Words) /\ User \in Words
  BY TinyDbAssumption
<1>2. <<User>> \in Seq(Words) /\ Len(<<User>>) = 1 /\ <<User>>[1] = User
  BY <1>1
<1>3. root \in Seq(Words) /\ Len(root) = 1 + Len(Split[scope]) /\ root[1] = User
  BY <1>1, <1>2, ConcatProperties
<1>4. Len(root) \in Nat /\ Len(root) >= 1 /\ DOMAIN root = 1 .. Len(root)
  BY <1>1, <1>3, LenProperties
<1>5. Join(scope, <<>>) = root /\ Join(scope, name) = root \o name
  <2>1. root \o <<>> = root
    BY <1>3, ConcatEmptySeq
  <2> QED
    BY <2>1 DEF Join
<1> HIDE DEF root
<1>6. /\ root \o name \in Seq(Words) /\ Len(root \o name) = Len(root) + Len(name) /\ Len(name) \in Nat
      /\ \A i \in 1 .. Len(root) : (root \o name)[i] = root[i]
  <2>1. /\ root \o name \in Seq(Words) /\ Len(root \o name) = Len(root) + Len(name)
        /\ Len(name) \in Nat
    BY <1>3, ConcatProperties, LenProperties
  <2>2. \A i \in 1 .. Len(root) + Len(name) :
          (root \o name)[i] = IF i <= Len(root) THEN root[i] ELSE name[i - Len(root)]
    BY <1>3, ConcatProperties
  <2> QED
    BY <1>4, <2>1, <2>2
<1>7. Begins(root, root \o name)
  BY <1>4, <1>6 DEF Begins
<1> QED
  BY <1>3, <1>4, <1>5, <1>6, <1>7

(* The columns that two definitions share. *)

\* When as many columns are kept as there are, they are the columns as they are.
LEMMA KeptAll ==
  ASSUME NEW columns \in Seq(Words), NEW others,
         Len(Kept(columns, others)) = Len(columns)
  PROVE  Kept(columns, others) = columns
<1> DEFINE n == Len(columns)
           places == {k \in DOMAIN columns : columns[k] \in others}
           c == Cardinality(places)
           kept == Kept(columns, others)
<1>1. n \in Nat /\ DOMAIN columns = 1 .. n /\ columns \in [1 .. n -> Words]
  BY LenProperties
<1>2. IsFiniteSet(1 .. n) /\ Cardinality(1 .. n) = n
  <2> HIDE DEF n
  <2>1. 1 \in Int /\ n \in Int
    BY <1>1
  <2>2. IsFiniteSet(1 .. n) /\ Cardinality(1 .. n) = IF 1 > n THEN 0 ELSE n - 1 + 1
    BY <2>1, FS_Interval, Zenon
  <2> QED
    BY <1>1, <2>2
<1>3. places \in SUBSET (1 .. n)
  BY <1>1
<1>4. c \in Nat /\ (c = n => places = 1 .. n)
  BY <1>2, <1>3, FS_Subset, FS_CardinalityType
<1>5. kept = [i \in 1 .. c |-> columns[CHOOSE k \in places : Cardinality({j \in places : j <= k}) = i]]
  BY DEF Kept
<1>6. Len(kept) = n
  OBVIOUS
<1>7. c = n
  <2> DEFINE at(i) == columns[CHOOSE k \in places : Cardinality({j \in places : j <= k}) = i]
  <2>1. kept = [i \in 1 .. c |-> at(i)]
    BY <1>5
  <2> HIDE DEF c, at, kept, n
  <2>2. Len([i \in 1 .. c |-> at(i)]) = c
    BY <1>4
  <2> QED
    BY <1>6, <2>1, <2>2
<1>8. places = 1 .. n
  BY <1>4, <1>7
<1>9. ASSUME NEW k \in 1 .. n
      PROVE  Cardinality({j \in places : j <= k}) = k
  <2>1. {j \in places : j <= k} = 1 .. k
    <3> HIDE DEF places, n
    <3> QED
      BY <1>1, <1>8
  <2>2. k \in Nat /\ 1 <= k /\ 1 \in Int /\ k \in Int
    BY <1>1
  <2>3. Cardinality(1 .. k) = IF 1 > k THEN 0 ELSE k - 1 + 1
    BY <2>2, FS_Interval, Zenon
  <2>4. Cardinality(1 .. k) = k
    BY <2>2, <2>3
  <2> QED
    BY <2>1, <2>4, Zenon
<1>10. ASSUME NEW i \in 1 .. n
       PROVE  kept[i] = columns[i]
  <2>1. (CHOOSE k \in places : Cardinality({j \in places : j <= k}) = i) = i
    <3> DEFINE rank(k) == Cardinality({j \in places : j <= k})
    <3>1. \A k \in places : rank(k) = k
      BY <1>8, <1>9
    <3> HIDE DEF rank, places
    <3>2. i \in places
      BY <1>8
    <3>3. (CHOOSE k \in places : rank(k) = i) = i
      BY <3>1, <3>2
    <3> QED
      BY <3>3 DEF rank
  <2>2. i \in 1 .. c
    BY <1>7
  <2> QED
    BY <1>5, <2>1, <2>2
<1>11. kept = [i \in 1 .. n |-> kept[i]]
  BY <1>5, <1>7
<1>12. columns = [i \in 1 .. n |-> columns[i]]
  BY <1>1
<1> QED
  <2> HIDE DEF kept, n
  <2>1. kept = columns
    BY <1>10, <1>11, <1>12
  <2> QED
    BY <2>1 DEF kept

(* Constants. *)

\* What the assumptions say of definitions, rows and names.
LEMMA ConstantFacts ==
  /\ \A d \in Definitions : d.columns \in Seq(Words) /\ d.required \subseteq Words /\ d.indexes \subseteq Words
  /\ \A n \in Tables : n \in Seq(Words) \ {<<>>} /\ n[1] \in Words /\ Len(n) \in Nat \ {0}
  /\ NodeNames \subseteq Tables /\ TinyTypes \subseteq Definitions
  /\ Scopes \subseteq Words /\ "" \in Scopes
  /\ Nothing \notin SchemaRows /\ Nothing \notin TableStates
  /\ MaxVersion \in Nat \ {0}
<1>1. \A d \in Definitions : d.columns \in Seq(Words) /\ d.required \subseteq Words /\ d.indexes \subseteq Words
  BY StoreAssumption
<1>2. ASSUME NEW n \in Tables
      PROVE  n \in Seq(Words) \ {<<>>} /\ n[1] \in Words /\ Len(n) \in Nat \ {0}
  <2>1. n \in Seq(Words)
    BY StoreAssumption, Zenon
  <2>2. n # <<>>
    BY TinyDbAssumption, Zenon
  <2>3. Len(n) \in Nat \ {0} /\ n \in [1 .. Len(n) -> Words]
    BY <2>1, <2>2, LenProperties, EmptySeq
  <2> QED
    BY <2>1, <2>2, <2>3
<1>3. NodeNames \subseteq Tables
  <2>1. NodeTables \in [1 .. Len(NodeTables) -> Tables] /\ DOMAIN NodeTables = 1 .. Len(NodeTables)
    BY TinyDbAssumption, LenProperties
  <2> QED
    BY <2>1 DEF NodeNames
<1> QED
  BY <1>1, <1>2, <1>3, StoreAssumption, TinyDbAssumption, NothingAssumption

\* A name joined with a scope belongs to the scope.
LEMMA OwnJoin ==
  ASSUME NEW scope \in Scopes, NEW name \in Seq(Words)
  PROVE  Own(scope, Join(scope, name))
BY JoinFacts DEF Own

\* No name that a scope owns is a table of the node.
LEMMA OwnNotNode ==
  ASSUME NEW scope \in Scopes, NEW n \in Tables, Own(scope, n)
  PROVE  n[1] = User /\ n \notin NodeNames
<1>1. Join(scope, <<>>)[1] = User /\ 1 \in DOMAIN Join(scope, <<>>)
  <2>1. <<>> \in Seq(Words)
    BY EmptySeq
  <2> QED
    BY <2>1, JoinFacts
<1>2. n[1] = User
  BY <1>1 DEF Own, Begins
<1> QED
  BY <1>2, TinyDbAssumption

\* The names under a prefix begin with the user.
LEMMA LikeFirst ==
  ASSUME NEW scope \in Scopes, NEW n \in Tables, Like(Join(scope, <<>>), n)
  PROVE  n[1] = User /\ n \notin NodeNames
<1>1. n[1] = User
  BY LikeAssumption
<1> QED
  BY <1>1, TinyDbAssumption

\* A new table.
LEMMA EmptyFacts ==
  ASSUME NEW d \in Definitions, NEW v \in Nat
  PROVE  /\ Empty(d, v) \in TableStates /\ WellFormed(Empty(d, v)) /\ Empty(d, v) # Nothing
         /\ Empty(d, v).columns = d.columns /\ Empty(d, v).indexes = Indexes(d, v)
         /\ Empty(d, v).required = d.required
<1> DEFINE e == Empty(d, v)
           none == [i \in {} |-> <<>>]
<1>1. e = [columns |-> d.columns, required |-> d.required, indexes |-> Indexes(d, v), rows |-> none]
  BY DEF Empty
<1>2. d.columns \in Seq(Words) /\ d.required \subseteq Words /\ d.indexes \subseteq Words
  BY ConstantFacts
<1>3. Indexes(d, v) \subseteq Words \X Nat
  BY <1>2 DEF Indexes
<1>4. none \in [{} -> Seq(Words)] /\ {} \in SUBSET Ids /\ DOMAIN none = {}
  OBVIOUS
<1>5. none \in UNION {[I -> Seq(Words)] : I \in SUBSET Ids}
  BY <1>4, Zenon
<1> HIDE DEF none
<1>6. e \in TableStates
  BY <1>1, <1>2, <1>3, <1>5 DEF TableStates
<1>7. WellFormed(e)
  BY <1>1, <1>4 DEF WellFormed
<1>8. e # Nothing
  BY <1>6, ConstantFacts, Zenon
<1>9. e.columns = d.columns /\ e.indexes = Indexes(d, v) /\ e.required = d.required
  BY <1>1
<1> QED
  BY <1>6, <1>7, <1>8, <1>9, Zenon
-----------------------------------------------------------------------------
(* What a step does to the request that makes it. *)

\* A slot that is free holds nothing, is after nothing, and goes on with nothing.
LEMMA BlankFacts ==
  /\ Blank \in Request /\ Blank.pc = "idle" /\ Blank.op = "none"
  /\ Blank.names = {} /\ Blank.rest = <<>> /\ DOMAIN Blank.rest = {}
  /\ Sound(Blank) /\ Bound(Blank)
<1>1. "" \in Scopes
  BY ConstantFacts
<1>2. <<>> \in Seq(Words) /\ <<>> \in Seq(Wanted) /\ DOMAIN Blank.rest = {}
  BY EmptySeq DEF Blank
<1>3. Blank \in Request
  BY <1>1, <1>2 DEF Blank, Request, Steps
<1>4. Blank.pc = "idle" /\ Blank.op = "none" /\ Blank.names = {} /\ Blank.rest = <<>>
  BY DEF Blank
<1> QED
  BY <1>2, <1>3, <1>4 DEF Sound, Bound, Named

\* Whoever looks a definition up holds what it held, and the definition.
LEMMA DefineFacts ==
  ASSUME Typed, NEW r \in Reqs, NEW q \in Request, q.name \in Tables,
         NEW then \in {"compare", "insert"}, Define(r, q, then)
  PROVE  \E x \in Request :
           /\ req' = [req EXCEPT ![r] = x]
           /\ x.op = q.op /\ x.scope = q.scope /\ x.name = q.name /\ x.names = q.names
           /\ x.new = q.new /\ x.rest = q.rest /\ x.old = schemas[q.name] /\ x.pc = then
<1> DEFINE x == [q EXCEPT !.old = schemas[q.name], !.pc = then]
<1>1. req' = [req EXCEPT ![r] = x]
  BY DEF Define, Go
<1>2. schemas[q.name] \in SchemaRows \cup {Nothing} /\ then \in Steps
  BY DEF Typed, Steps
<1>3. /\ x \in Request /\ x.op = q.op /\ x.scope = q.scope
      /\ x.name = q.name /\ x.names = q.names /\ x.new = q.new
      /\ x.rest = q.rest /\ x.old = schemas[q.name] /\ x.pc = then
  BY <1>2 DEF Request
<1> QED
  BY <1>1, <1>3

\* Whoever finishes one table goes on with the next.
LEMMA FinishFacts ==
  ASSUME NEW r \in Reqs, NEW q \in Request, Finish(r, q)
  PROVE  \E x \in Request :
           /\ req' = [req EXCEPT ![r] = x]
           /\ x.op = q.op /\ x.scope = q.scope /\ x.name = q.name /\ x.names = q.names
           /\ x.new = q.new /\ x.rest = q.rest /\ x.old = q.old /\ x.pc = "next"
<1> DEFINE x == [q EXCEPT !.pc = "next"]
<1>1. req' = [req EXCEPT ![r] = x]
  BY DEF Finish, Go
<1>2. /\ x \in Request /\ x.op = q.op /\ x.scope = q.scope
      /\ x.name = q.name /\ x.names = q.names /\ x.new = q.new
      /\ x.rest = q.rest /\ x.old = q.old /\ x.pc = "next"
  BY DEF Request, Steps
<1> QED
  BY <1>1, <1>2
-----------------------------------------------------------------------------
(* The kinds of steps, and that each keeps the invariant. *)

\* r goes on with q; as one of the requests under way; leaving the tables alone; with
\* a row for the table that it will create.
Goes(r, q) == q \in Request /\ req' = [req EXCEPT ![r] = q] /\ Sound(q) /\ Bound(q)
Stays(r, q) == ~At(r, "idle") /\ (q.pc # "idle" => q.op = req[r].op)
Quiet(r, q) ==
  /\ Goes(r, q) /\ Fresh(q, schemas) /\ req[r].pc # "createTable" /\ q.pc # "createTable"
  /\ UNCHANGED <<schemas, tables, torn>>
Inserted(r, q) ==
  /\ Goes(r, q) /\ Stays(r, q) /\ req[r].pc # "createTable" /\ q.pc = "createTable"
  /\ schemas[q.name] = Nothing
  /\ schemas' = [schemas EXCEPT ![q.name] = [def |-> q.new, version |-> 0]]
  /\ UNCHANGED <<tables, torn>>

\* Nobody else is about while the process starts, before and after a step.
Rises(r, q) == up' \in BOOLEAN /\ (up' = up \/ (q.pc = "idle" /\ req[r].op = "boot"))

\* A step of one request leaves the start of the process alone: nobody is let in before
\* its end.
LEMMA AloneKept ==
  ASSUME Typed, Alone, NEW r \in Reqs, NEW q, Goes(r, q), Stays(r, q), Rises(r, q)
  PROVE  Alone'
<1>0. up' \in BOOLEAN /\ (up' = up \/ (q.pc = "idle" /\ req[r].op = "boot"))
  BY DEF Rises
<1>1. req'[r] = q /\ \A o \in Reqs \ {r} : req'[o] = req[o]
  BY DEF Typed, Goes
<1>2. /\ req[r].pc # "idle" /\ (q.pc # "idle" => q.op = req[r].op)
      /\ IF req[r].op = "boot" THEN ~up /\ \A o \in Reqs \ {r} : req[o].pc = "idle" ELSE up
  BY DEF Stays, Alone, At
<1>3. ASSUME NEW o \in Reqs, req'[o].pc # "idle"
      PROVE  IF req'[o].op = "boot" THEN ~up' /\ \A x \in Reqs \ {o} : req'[x].pc = "idle" ELSE up'
  <2>1. CASE o = r
    <3>1. q.pc # "idle" /\ q.op = req[r].op /\ (up' <=> up)
      BY <1>0, <1>1, <1>2, <1>3, <2>1
    <3> QED
      BY <1>1, <1>2, <2>1, <3>1
  <2>2. CASE o # r
    <3>1. req'[o] = req[o] /\ req[o].pc # "idle"
      BY <1>1, <1>3, <2>2
    <3>2. req[r].op # "boot" /\ up
      BY <1>2, <2>2, <3>1
    <3>3. req[o].op # "boot"
      BY <2>2, <3>1, <1>2 DEF Alone, At
    <3> QED
      BY <1>0, <3>1, <3>2, <3>3
  <2> QED
    BY <2>1, <2>2
<1> QED
  BY <1>0, <1>3 DEF Alone, At

\* What is told of a table is told still when neither it nor its creator moves.
LEMMA ToldStill ==
  ASSUME Told, NEW r \in Reqs, \A o \in Reqs \ {r} : req'[o] = req[o],
         NEW n \in Tables \ torn, schemas'[n] = schemas[n], tables'[n] = tables[n],
         ~(req[r].pc = "createTable" /\ req[r].name = n),
         ~(req'[r].pc = "createTable" /\ req'[r].name = n)
  PROVE  ToldOf(n)'
<1>1. Creators(n)' = Creators(n) /\ \A o \in Creators(n) : req'[o] = req[o]
  BY DEF Creators, At
<1>2. ToldOf(n)
  BY DEF Told
<1> QED
  BY <1>1, <1>2 DEF ToldOf

\* A step that changes no table.
LEMMA QuietKeeps ==
  ASSUME DataInv, NEW r \in Reqs, NEW q, Quiet(r, q), Alone'
  PROVE  DataInv'
<1>1. req'[r] = q /\ \A o \in Reqs \ {r} : req'[o] = req[o]
  BY DEF DataInv, Typed, Quiet, Goes
<1>2. schemas' = schemas /\ tables' = tables /\ torn' = torn
  BY DEF Quiet
<1>3. Typed'
  BY <1>2 DEF DataInv, Typed, Quiet, Goes
<1>4. NodeTold'
  BY <1>2 DEF DataInv, NodeTold
<1>7. Told'
  <2>1. ASSUME NEW n \in Tables \ torn
        PROVE  ToldOf(n)'
    <3>1. Told /\ req[r].pc # "createTable" /\ req'[r].pc # "createTable"
      BY <1>1 DEF DataInv, Quiet
    <3> QED
      BY <1>1, <1>2, <3>1, ToldStill
  <2> QED
    BY <1>2, <2>1 DEF Told
<1>8. \A n \in Tables : tables'[n] # Nothing => WellFormed(tables'[n])
  BY <1>2 DEF DataInv
<1>9. ASSUME NEW o \in Reqs
      PROVE  Sound(req'[o]) /\ Bound(req'[o]) /\ Fresh(req'[o], schemas')
  <2>1. CASE o = r
    BY <1>1, <1>2, <2>1, Zenon DEF Quiet, Goes
  <2>2. CASE o # r
    BY <1>1, <1>2, <2>2 DEF DataInv
  <2> QED
    BY <2>1, <2>2
<1> QED
  BY <1>3, <1>4, <1>7, <1>8, <1>9 DEF DataInv

\* While somebody else makes a step, nobody starts the process.
LEMMA OthersFresh ==
  ASSUME DataInv, NEW r \in Reqs, ~At(r, "idle"), NEW o \in Reqs \ {r}, NEW rows
  PROVE  Fresh(req[o], rows)
<1>1. req[o].pc # "idle" => req[o].op # "boot"
  BY DEF DataInv, Alone, At
<1> QED
  BY <1>1 DEF Fresh

\* The row that a creation inserts.
LEMMA RowFacts ==
  ASSUME NEW d \in Definitions
  PROVE  /\ [def |-> d, version |-> 0] \in SchemaRows
         /\ [def |-> d, version |-> 0] # Nothing
<1>1. 0 \in 0 .. MaxVersion
  BY StoreAssumption
<1>2. [def |-> d, version |-> 0] \in SchemaRows
  BY <1>1 DEF SchemaRows
<1> QED
  BY <1>2, ConstantFacts, Zenon

\* A table has at most one creator, who has inserted its row.
LEMMA CreatorFacts ==
  ASSUME DataInv, NEW n \in Tables, NEW o \in Creators(n)
  PROVE  /\ req[o].new \in Definitions /\ req[o].name = n /\ req[o].pc = "createTable"
         /\ n \notin torn => schemas[n] = [def |-> req[o].new, version |-> 0] /\ tables[n] = Nothing
<1>1. req[o].pc = "createTable" /\ req[o].name = n /\ o \in Reqs
  BY DEF Creators, At
<1>2. req[o].new \in Definitions
  BY <1>1 DEF DataInv, Sound
<1> QED
  BY <1>1, <1>2 DEF DataInv, Told, ToldOf

\* A step that inserts the row of a table that is to be created.
LEMMA InsertedKeeps ==
  ASSUME DataInv, NEW r \in Reqs, NEW q, Inserted(r, q), Alone'
  PROVE  DataInv'
<1> DEFINE row == [def |-> q.new, version |-> 0]
<1>1. req'[r] = q /\ \A o \in Reqs \ {r} : req'[o] = req[o]
  BY DEF DataInv, Typed, Inserted, Goes
<1>2. /\ schemas' = [schemas EXCEPT ![q.name] = row] /\ tables' = tables /\ torn' = torn
      /\ q.pc = "createTable" /\ req[r].pc # "createTable" /\ req[r].pc # "idle"
      /\ schemas[q.name] = Nothing
  BY DEF Inserted, Stays, At
<1>3. q \in Request /\ q.name \in Tables /\ q.new \in Definitions
  BY <1>2 DEF Inserted, Goes, Sound, Named
<1>4. row \in SchemaRows /\ row # Nothing
  BY <1>3, RowFacts
<1> HIDE DEF row
<1>5. schemas'[q.name] = row /\ \A n \in Tables \ {q.name} : schemas'[n] = schemas[n]
  BY <1>2, <1>3 DEF DataInv, Typed
<1>6. Typed'
  BY <1>2, <1>3, <1>4 DEF DataInv, Typed, Inserted, Goes
<1>7. NodeTold'
  <2>1. \A n \in NodeNames : n \in Tables
    BY ConstantFacts
  <2> QED
    BY <1>2, <1>5, <2>1 DEF DataInv, NodeTold
<1>8. ASSUME NEW n \in Tables \ torn
      PROVE  ToldOf(n)'
  <2>1. CASE n = q.name
    <3>1. Creators(n) = {}
      <4>1. ASSUME NEW o \in Creators(n)
            PROVE  FALSE
        <5>1. req[o].new \in Definitions /\ schemas[n] = [def |-> req[o].new, version |-> 0]
          BY CreatorFacts
        <5> QED
          BY <1>2, <2>1, <5>1, RowFacts
      <4> QED
        BY <4>1
    <3>2. tables[n] = Nothing
      BY <1>2, <2>1, <3>1 DEF DataInv, Told, ToldOf, Matches
    <3>3. Creators(n)' = {r}
      <4>1. \A o \in Reqs : (req'[o].pc = "createTable" /\ req'[o].name = n) <=> o = r
        BY <1>1, <1>2, <2>1, <3>1 DEF Creators, At
      <4> QED
        BY <4>1 DEF Creators, At
    <3> QED
      BY <1>1, <1>2, <1>5, <2>1, <3>2, <3>3 DEF row, ToldOf
  <2>2. CASE n # q.name
    <3>1. Told /\ req[r].pc # "createTable" /\ req'[r].name = q.name
      BY <1>1, <1>2 DEF DataInv
    <3>2. schemas'[n] = schemas[n] /\ tables'[n] = tables[n]
      BY <1>2, <1>5, <2>2
    <3> QED
      BY <1>1, <2>2, <3>1, <3>2, ToldStill
  <2> QED
    BY <2>1, <2>2
<1>9. Told'
  BY <1>2, <1>8 DEF Told
<1>10. \A n \in Tables : tables'[n] # Nothing => WellFormed(tables'[n])
  BY <1>2 DEF DataInv
<1>11. ASSUME NEW o \in Reqs
       PROVE  Sound(req'[o]) /\ Bound(req'[o]) /\ Fresh(req'[o], schemas')
  <2>1. CASE o = r
    <3>1. Fresh(q, schemas')
      BY <1>2, <1>3, <1>5 DEF Fresh, row
    <3> QED
      BY <1>1, <2>1, <3>1 DEF Inserted, Goes
  <2>2. CASE o # r
    <3>1. Fresh(req[o], schemas')
      BY <1>2, <2>2, OthersFresh DEF At
    <3> QED
      BY <1>1, <2>2, <3>1 DEF DataInv
  <2> QED
    BY <2>1, <2>2
<1> QED
  BY <1>6, <1>7, <1>9, <1>10, <1>11 DEF DataInv

\* A request that finishes a table, or had finished, goes on as it was.
LEMMA FinishStep ==
  ASSUME DataInv, NEW r \in Reqs, Finish(r, req[r]), req[r].pc \in {"createTable", "compare", "swap"}
  PROVE  \E x : Goes(r, x) /\ Stays(r, x) /\ x.pc = "next" /\ \A rows : Fresh(x, rows)
<1> DEFINE q == req[r]
<1>1. q \in Request /\ Sound(q) /\ Bound(q) /\ q.pc # "idle"
  BY DEF DataInv, Typed
<1>2. PICK x \in Request :
        /\ req' = [req EXCEPT ![r] = x]
        /\ x.op = q.op /\ x.scope = q.scope /\ x.name = q.name /\ x.names = q.names
        /\ x.new = q.new /\ x.rest = q.rest /\ x.old = q.old /\ x.pc = "next"
  BY <1>1, FinishFacts
<1> HIDE DEF q
<1>3. Sound(x) /\ \A rows : Fresh(x, rows)
  BY <1>2 DEF Sound, Fresh, Named
<1>4. Bound(x)
  <2>1. q.pc \in {"createTable", "compare", "swap"}
    BY DEF q
  <2> QED
    BY <1>1, <1>2, <2>1 DEF Bound, Named
<1> QED
  BY <1>1, <1>2, <1>3, <1>4 DEF Goes, Stays, At, q

\* A request fails.
LEMMA FailStep ==
  ASSUME DataInv, NEW r \in Reqs, Fail(r), ~At(r, "createTable"), ~At(r, "idle")
  PROVE  Quiet(r, Blank) /\ Stays(r, Blank)
BY BlankFacts DEF Fail, Go, Quiet, Stays, Goes, At, Fresh

\* A request begins, or goes on, with a statement that inserts into the schema table.
LEMMA InsertSchemaStep ==
  ASSUME DataInv, NEW r \in Reqs, NEW q \in Request, NEW d \in Definitions, InsertSchema(r, q, d),
         ~At(r, "createTable"), ~At(r, "idle"), q.op = req[r].op,
         q.name \in Tables, q.op \in {"boot", "register"},
         q.op = "boot" =>
           q.name \in NodeNames /\ \A i \in DOMAIN q.rest : q.rest[i].name \in NodeNames,
         q.op = "register" =>
           /\ Own(q.scope, q.name) /\ \A n \in q.names : Own(q.scope, n)
           /\ \A i \in DOMAIN q.rest : Own(q.scope, q.rest[i].name)
  PROVE  (Quiet(r, Blank) /\ Stays(r, Blank)) \/ \E x : Inserted(r, x)
<1>1. CASE schemas[q.name] # Nothing
  BY <1>1, FailStep DEF InsertSchema
<1>2. CASE schemas[q.name] = Nothing
  <2> DEFINE x == [q EXCEPT !.pc = "createTable", !.new = d]
  <2>1. /\ schemas' = [schemas EXCEPT ![q.name] = [def |-> d, version |-> 0]]
        /\ req' = [req EXCEPT ![r] = x] /\ UNCHANGED <<tables, torn>>
    BY <1>2 DEF InsertSchema, Go
  <2>2. /\ x \in Request /\ x.pc = "createTable" /\ x.new = d /\ x.name = q.name /\ x.op = q.op
        /\ x.scope = q.scope /\ x.names = q.names /\ x.rest = q.rest
    BY DEF Request, Steps
  <2> HIDE DEF x
  <2>4. Sound(x)
    BY <2>2 DEF Sound
  <2>5. Bound(x)
    BY <2>2 DEF Bound
  <2> QED
    BY <1>2, <2>1, <2>2, <2>4, <2>5 DEF Inserted, Goes, Stays, At
<1> QED
  BY <1>1, <1>2
-----------------------------------------------------------------------------
(* The steps of requests. *)

\* redefine, with the definition in hand: nothing, the row of a new table, or on to the swap.
LEMMA CompareStep ==
  ASSUME DataInv, NEW r \in Reqs, Compare(r)
  PROVE  \E x : (Quiet(r, x) /\ Stays(r, x)) \/ Inserted(r, x)
<1> DEFINE q == req[r]
<1>1. q \in Request /\ q.pc = "compare" /\ Sound(q) /\ Bound(q) /\ Fresh(q, schemas)
  BY DEF DataInv, Typed, Compare, At
<1>2. /\ q.name \in Tables /\ q.new \in Definitions /\ q.op = "boot" /\ q.old = schemas[q.name]
      /\ q.name \in NodeNames /\ \A i \in DOMAIN q.rest : q.rest[i].name \in NodeNames
  BY <1>1 DEF Sound, Bound, Fresh, Named
<1>3. CASE q.old = Nothing
  <2>1. InsertSchema(r, q, q.new)
    BY <1>3 DEF Compare
  <2> QED
    BY <1>1, <1>2, <2>1, InsertSchemaStep DEF At
<1>4. CASE q.old # Nothing /\ Equal(q.old.def, q.new)
  <2>1. Finish(r, req[r]) /\ UNCHANGED <<schemas, tables, torn>>
    BY <1>4 DEF Compare
  <2>2. PICK x : Goes(r, x) /\ Stays(r, x) /\ x.pc = "next" /\ \A rows : Fresh(x, rows)
    BY <1>1, <2>1, FinishStep
  <2> QED
    BY <1>1, <2>1, <2>2 DEF Quiet
<1>5. CASE q.old # Nothing /\ ~Equal(q.old.def, q.new)
  <2> DEFINE x == [q EXCEPT !.pc = "swap"]
  <2>1. /\ q.old.version < MaxVersion /\ req' = [req EXCEPT ![r] = x]
        /\ UNCHANGED <<schemas, tables, torn>>
    BY <1>5 DEF Compare, Go
  <2>2. /\ x \in Request /\ x.pc = "swap" /\ x.new = q.new /\ x.name = q.name /\ x.op = q.op
        /\ x.scope = q.scope /\ x.names = q.names /\ x.rest = q.rest /\ x.old = q.old
    BY <1>1 DEF Request, Steps
  <2>3. q.old \in SchemaRows
    BY <1>1, <1>5 DEF Request
  <2> HIDE DEF x, q
  <2>5. Sound(x)
    BY <1>2, <2>1, <2>2, <2>3 DEF Sound
  <2>6. Bound(x)
    BY <1>2, <2>2 DEF Bound
  <2>7. Fresh(x, schemas)
    BY <1>2, <2>2 DEF Fresh
  <2> QED
    BY <1>1, <2>1, <2>2, <2>5, <2>6, <2>7 DEF Quiet, Goes, Stays, At, q
<1> QED
  BY <1>3, <1>4, <1>5

\* The tables that a request still wants: the next, and those after it.
LEMMA RestFacts ==
  ASSUME NEW q \in Request, q.rest # <<>>, NEW P,
         \A i \in DOMAIN q.rest : q.rest[i].name \in P
  PROVE  /\ Head(q.rest) \in Wanted /\ Head(q.rest).name \in Tables \cap P
         /\ Head(q.rest).name \in Seq(Words) /\ Head(q.rest).def \in Definitions
         /\ Tail(q.rest) \in Seq(Wanted)
         /\ \A i \in DOMAIN Tail(q.rest) : Tail(q.rest)[i].name \in P
<1>1. q.rest \in Seq(Wanted)
  BY DEF Request
<1>2. /\ Head(q.rest) = q.rest[1] /\ Head(q.rest) \in Wanted /\ 1 \in DOMAIN q.rest
      /\ Tail(q.rest) \in Seq(Wanted)
      /\ \A i \in DOMAIN Tail(q.rest) : i + 1 \in DOMAIN q.rest /\ Tail(q.rest)[i] = q.rest[i + 1]
  BY <1>1, HeadTailProperties, LenProperties
<1>3. Head(q.rest).name \in Tables /\ Head(q.rest).def \in Definitions
  BY <1>2 DEF Wanted
<1>4. Head(q.rest).name \in Seq(Words)
  BY <1>3, ConstantFacts
<1> QED
  BY <1>2, <1>3, <1>4

\* registerSchemas inserts the row of its next table, which is the scope's own.
LEMMA CreateNextStep ==
  ASSUME DataInv, NEW r \in Reqs, CreateNext(r)
  PROVE  \E x : (Quiet(r, x) /\ Stays(r, x)) \/ Inserted(r, x)
<1> DEFINE q == req[r]
           own == {n \in Tables : Own(q.scope, n)}
           x == [q EXCEPT !.name = Head(q.rest).name, !.rest = Tail(q.rest)]
<1>1. q \in Request /\ q.pc = "next" /\ q.op = "register" /\ q.rest # <<>> /\ Bound(q)
  BY DEF DataInv, Typed, CreateNext, At
<1>2. \A m \in q.names : Own(q.scope, m)
  BY <1>1 DEF Bound
<1>3. InsertSchema(r, x, Head(q.rest).def)
  BY DEF CreateNext
<1>4. \A i \in DOMAIN q.rest : q.rest[i].name \in own
  <2>1. \A i \in DOMAIN q.rest : q.rest[i] \in Wanted
    <3>1. q.rest \in Seq(Wanted)
      BY <1>1 DEF Request
    <3> HIDE DEF q
    <3> QED
      BY <3>1
  <2> QED
    BY <1>1, <2>1 DEF Bound, Wanted
<1> HIDE DEF own
<1>5. /\ Head(q.rest).name \in Tables /\ Head(q.rest).name \in own /\ Head(q.rest).name \in Seq(Words)
      /\ Head(q.rest).def \in Definitions /\ Tail(q.rest) \in Seq(Wanted)
      /\ \A i \in DOMAIN Tail(q.rest) : Tail(q.rest)[i].name \in own
  BY <1>1, <1>4, RestFacts
<1>6. /\ x \in Request /\ x.name = Head(q.rest).name /\ x.rest = Tail(q.rest) /\ x.op = q.op
      /\ x.scope = q.scope /\ x.names = q.names
  BY <1>1, <1>5 DEF Request
<1>7. Own(q.scope, Head(q.rest).name) /\ \A i \in DOMAIN Tail(q.rest) : Own(q.scope, Tail(q.rest)[i].name)
  BY <1>5 DEF own
<1> HIDE DEF x
<1> QED
  BY <1>1, <1>2, <1>3, <1>5, <1>6, <1>7, InsertSchemaStep DEF At

\* init() looks the definition of the node's next table up.
LEMMA RedefineNextStep ==
  ASSUME DataInv, NEW r \in Reqs, RedefineNext(r)
  PROVE  \E x : Quiet(r, x) /\ Stays(r, x)
<1> DEFINE q == req[r]
           y == [q EXCEPT !.name = Head(q.rest).name, !.new = Head(q.rest).def, !.rest = Tail(q.rest)]
<1>1. q \in Request /\ q.pc = "next" /\ q.op = "boot" /\ q.rest # <<>> /\ Bound(q)
  BY DEF DataInv, Typed, RedefineNext, At
<1>2. Define(r, y, "compare") /\ UNCHANGED <<schemas, tables, torn>>
  BY DEF RedefineNext
<1>3. /\ Head(q.rest).name \in Tables /\ Head(q.rest).name \in NodeNames
      /\ Head(q.rest).name \in Seq(Words)
      /\ Head(q.rest).def \in Definitions /\ Tail(q.rest) \in Seq(Wanted)
      /\ \A i \in DOMAIN Tail(q.rest) : Tail(q.rest)[i].name \in NodeNames
  <2>1. \A i \in DOMAIN q.rest : q.rest[i].name \in NodeNames
    BY <1>1 DEF Bound
  <2> HIDE DEF q
  <2> QED
    BY <1>1, <2>1, RestFacts
<1>4. /\ y \in Request /\ y.name = Head(q.rest).name /\ y.new = Head(q.rest).def
      /\ y.rest = Tail(q.rest) /\ y.op = q.op
  BY <1>1, <1>3 DEF Request
<1> HIDE DEF y
<1>5. PICK x \in Request :
        /\ req' = [req EXCEPT ![r] = x]
        /\ x.op = y.op /\ x.scope = y.scope /\ x.name = y.name /\ x.names = y.names
        /\ x.new = y.new /\ x.rest = y.rest /\ x.old = schemas[y.name] /\ x.pc = "compare"
  BY <1>2, <1>3, <1>4, DefineFacts DEF DataInv
<1>6. Sound(x) /\ Fresh(x, schemas)
  BY <1>1, <1>3, <1>4, <1>5 DEF Sound, Fresh
<1>7. Bound(x)
  BY <1>1, <1>3, <1>4, <1>5 DEF Bound
<1> QED
  BY <1>1, <1>2, <1>4, <1>5, <1>6, <1>7 DEF Quiet, Goes, Stays, At

\* A boot, or a registration, has come to its end.
LEMMA EndStep ==
  ASSUME DataInv, NEW r \in Reqs, End(r)
  PROVE  Quiet(r, Blank) /\ Stays(r, Blank)
BY BlankFacts DEF End, Done, Go, Quiet, Stays, Goes, At, Fresh

\* table() looks its definition up.
LEMMA HandleStep ==
  ASSUME DataInv, NEW r \in Reqs, Handle(r)
  PROVE  \E x : Quiet(r, x) /\ Stays(r, x)
<1> DEFINE q == req[r]
<1>1. q \in Request /\ q.pc = "handle" /\ Sound(q) /\ Bound(q) /\ q.name \in Tables
  BY DEF DataInv, Typed, Handle, At, Sound, Named
<1>2. Define(r, q, "insert") /\ UNCHANGED <<schemas, tables, torn>>
  BY DEF Handle
<1> HIDE DEF q
<1>3. PICK x \in Request :
        /\ req' = [req EXCEPT ![r] = x]
        /\ x.op = q.op /\ x.scope = q.scope /\ x.name = q.name /\ x.names = q.names
        /\ x.new = q.new /\ x.rest = q.rest /\ x.old = schemas[q.name] /\ x.pc = "insert"
  BY <1>1, <1>2, DefineFacts DEF DataInv
<1>4. Sound(x) /\ Fresh(x, schemas)
  BY <1>1, <1>3 DEF Sound, Fresh
<1>5. Bound(x)
  BY <1>1, <1>3 DEF Bound, Named
<1> QED
  BY <1>1, <1>2, <1>3, <1>4, <1>5 DEF Quiet, Goes, Stays, At, q

\* A step of a request under way, that keeps the invariant if nobody is about who
\* should not.
Keeps(r) == \E x : Goes(r, x) /\ Stays(r, x) /\ (Alone' => DataInv')

\* To keep the invariant it is enough that tables are described and well formed, and the
\* step's own request is sound: the others' definitions are still the rows', or nobody's is read.
LEMMA KeepsAll ==
  ASSUME DataInv, NEW r \in Reqs, NEW x, Goes(r, x), Stays(r, x), Fresh(x, schemas'),
         schemas' \in [Tables -> SchemaRows \cup {Nothing}],
         tables' \in [Tables -> TableStates \cup {Nothing}], torn' \subseteq Tables,
         NodeTold', Told', \A n \in Tables : tables'[n] # Nothing => WellFormed(tables'[n])
  PROVE  Keeps(r)
<1>1. req'[r] = x /\ \A o \in Reqs \ {r} : req'[o] = req[o]
  BY DEF DataInv, Typed, Goes
<1>2. Typed'
  BY DEF DataInv, Typed, Goes
<1>3. ASSUME NEW o \in Reqs
      PROVE  Sound(req'[o]) /\ Bound(req'[o]) /\ Fresh(req'[o], schemas')
  <2>1. CASE o = r
    BY <1>1, <2>1, Zenon DEF Goes
  <2>2. CASE o # r
    <3>1. Fresh(req[o], schemas')
      BY <2>2, OthersFresh DEF Stays
    <3> QED
      BY <1>1, <2>2, <3>1 DEF DataInv
  <2> QED
    BY <2>1, <2>2
<1>4. Alone' => DataInv'
  BY <1>2, <1>3 DEF DataInv
<1> QED
  BY <1>4 DEF Keeps

\* create's second half makes the table that the row says, or leaves the name torn.
LEMMA CreateTableStep ==
  ASSUME DataInv, NEW r \in Reqs, CreateTable(r)
  PROVE  Keeps(r)
<1> DEFINE q == req[r]
           n == q.name
<1>1. q \in Request /\ q.pc = "createTable" /\ Sound(q) /\ Bound(q) /\ Fresh(q, schemas)
  BY DEF DataInv, Typed, CreateTable, At
<1>2. n \in Tables /\ q.new \in Definitions
  BY <1>1 DEF Sound, Named
<1>3. CASE tables[n] # Nothing \/ ~(q.new.indexes \subseteq Columns(q.new))
  <2>1. req' = [req EXCEPT ![r] = Blank] /\ torn' = torn \cup {n} /\ UNCHANGED <<schemas, tables>>
    BY <1>3 DEF CreateTable, Go
  <2>2. req'[r] = Blank /\ \A o \in Reqs \ {r} : req'[o] = req[o]
    BY <2>1 DEF DataInv, Typed
  <2>3. Goes(r, Blank) /\ Stays(r, Blank) /\ Fresh(Blank, schemas')
    BY <1>1, <2>1, BlankFacts DEF Goes, Stays, At, Fresh
  <2>4. Told'
    <3>1. ASSUME NEW m \in Tables \ torn'
          PROVE  ToldOf(m)'
      <4>1. m \in Tables \ torn /\ m # n /\ schemas'[m] = schemas[m] /\ tables'[m] = tables[m]
        BY <2>1
      <4>2. req'[r].pc # "createTable" /\ Told
        BY <2>2, BlankFacts DEF DataInv
      <4> QED
        BY <2>2, <4>1, <4>2, ToldStill
    <3> QED
      BY <3>1 DEF Told
  <2>5. NodeTold' /\ \A m \in Tables : tables'[m] # Nothing => WellFormed(tables'[m])
    BY <2>1 DEF DataInv, NodeTold
  <2>6. /\ schemas' \in [Tables -> SchemaRows \cup {Nothing}]
        /\ tables' \in [Tables -> TableStates \cup {Nothing}] /\ torn' \subseteq Tables
    BY <1>2, <2>1 DEF DataInv, Typed
  <2> QED
    BY <2>3, <2>4, <2>5, <2>6, KeepsAll
<1>4. CASE tables[n] = Nothing /\ q.new.indexes \subseteq Columns(q.new)
  <2> DEFINE new == Empty(q.new, 0)
  <2>1. tables' = [tables EXCEPT ![n] = new] /\ Finish(r, req[r]) /\ UNCHANGED <<schemas, torn>>
    BY <1>4 DEF CreateTable
  <2>2. /\ new \in TableStates /\ WellFormed(new) /\ new # Nothing
        /\ new.columns = q.new.columns /\ new.indexes = Indexes(q.new, 0)
    BY <1>2, EmptyFacts
  <2>4. PICK x : Goes(r, x) /\ Stays(r, x) /\ x.pc = "next" /\ \A rows : Fresh(x, rows)
    BY <1>1, <2>1, FinishStep
  <2> HIDE DEF new
  <2>5. req'[r] = x /\ \A o \in Reqs \ {r} : req'[o] = req[o]
    BY <2>4 DEF DataInv, Typed, Goes
  <2>6. tables'[n] = new /\ \A m \in Tables \ {n} : tables'[m] = tables[m]
    BY <1>2, <2>1 DEF DataInv, Typed
  <2>7. Told'
    <3>1. ASSUME NEW m \in Tables \ torn
          PROVE  ToldOf(m)'
      <4>1. CASE m # n
        <5>1. Told /\ schemas'[m] = schemas[m] /\ tables'[m] = tables[m] /\ req'[r].pc # "createTable"
          BY <2>1, <2>4, <2>5, <2>6, <4>1 DEF DataInv
        <5> QED
          BY <2>5, <4>1, <5>1, ToldStill
      <4>2. CASE m = n
        <5>1. r \in Creators(m)
          BY <1>1, <4>2 DEF Creators, At
        <5>2. /\ schemas[m] = [def |-> q.new, version |-> 0]
              /\ \A o \in Creators(m) : o = r
          BY <5>1 DEF DataInv, Told, ToldOf
        <5>3. Creators(m)' = {}
          BY <2>4, <2>5, <5>2 DEF Creators, At
        <5>4. schemas'[m] # Nothing
          BY <1>2, <2>1, <5>2, RowFacts
        <5>5. Matches(schemas'[m], tables'[m])
          BY <2>1, <2>2, <2>6, <4>2, <5>2, <5>4 DEF Matches
        <5> QED
          BY <5>3, <5>5 DEF ToldOf
      <4> QED
        BY <4>1, <4>2
    <3> QED
      BY <2>1, <3>1 DEF Told
  <2>8. NodeTold'
    <3>1. ASSUME NEW m \in NodeNames, tables'[m] # Nothing
          PROVE  schemas'[m] # Nothing /\ tables'[m].columns = schemas'[m].def.columns
      <4>1. m \in Tables
        BY ConstantFacts
      <4>2. CASE m # n
        BY <2>1, <2>6, <3>1, <4>1, <4>2 DEF DataInv, NodeTold
      <4>3. CASE m = n
        <5>1. q.op = "boot"
          <6>1. q.op \notin {"boot", "addNode"} => Own(q.scope, n) /\ q.scope \in Scopes
            BY <1>1 DEF Bound, Named, Request
          <6>2. q.op # "addNode"
            BY <1>1 DEF Bound
          <6> QED
            BY <1>2, <3>1, <4>3, <6>1, <6>2, OwnNotNode
        <5>2. schemas[n] = [def |-> q.new, version |-> 0]
          BY <1>1, <5>1 DEF Fresh
        <5> QED
          BY <1>2, <2>1, <2>2, <2>6, <4>3, <5>2, RowFacts
      <4> QED
        BY <4>2, <4>3
    <3> QED
      BY <3>1 DEF NodeTold
  <2>9. \A m \in Tables : tables'[m] # Nothing => WellFormed(tables'[m])
    BY <2>2, <2>6 DEF DataInv
  <2>10. /\ schemas' \in [Tables -> SchemaRows \cup {Nothing}]
         /\ tables' \in [Tables -> TableStates \cup {Nothing}] /\ torn' \subseteq Tables
    BY <2>1, <2>2 DEF DataInv, Typed
  <2>11. Stays(r, x) /\ Fresh(x, schemas')
    BY <2>4
  <2> QED
    BY <2>4, <2>7, <2>8, <2>9, <2>10, <2>11, KeepsAll
<1> QED
  BY <1>3, <1>4

\* A transaction that drops tables with their rows.
LEMMA DiscardStep ==
  ASSUME DataInv, NEW r \in Reqs, NEW names \in SUBSET Tables, Discard(r, names),
         ~At(r, "createTable"), ~At(r, "idle")
  PROVE  Keeps(r)
<1>1. /\ schemas' = [n \in Tables |-> IF n \in names THEN Nothing ELSE schemas[n]]
      /\ tables' = [n \in Tables |-> IF n \in names THEN Nothing ELSE tables[n]]
      /\ torn' = (torn \ names) \cup (names \cap Creating(r))
      /\ req' = [req EXCEPT ![r] = Blank]
  BY DEF Discard, Go
<1>2. req'[r] = Blank /\ (\A o \in Reqs \ {r} : req'[o] = req[o]) /\ req'[r].pc # "createTable"
  BY <1>1, BlankFacts DEF DataInv, Typed
<1>3. Goes(r, Blank) /\ Stays(r, Blank) /\ Fresh(Blank, schemas')
  BY <1>1, BlankFacts DEF Goes, Stays, Fresh
<1>4. Told'
  <2>1. ASSUME NEW n \in Tables \ torn'
        PROVE  ToldOf(n)'
    <3>1. CASE n \in names
      <4>1. n \notin Creating(r)
        BY <1>1, <2>1, <3>1
      <4>2. \A o \in Reqs : ~(req'[o].pc = "createTable" /\ req'[o].name = n)
        BY <1>2, <4>1 DEF Creating, At
      <4>3. Creators(n)' = {}
        BY <4>2 DEF Creators, At
      <4>4. schemas'[n] = Nothing /\ tables'[n] = Nothing
        BY <1>1, <2>1, <3>1
      <4> QED
        BY <4>3, <4>4 DEF ToldOf
    <3>2. CASE n \notin names
      <4>1. n \in Tables \ torn /\ schemas'[n] = schemas[n] /\ tables'[n] = tables[n]
        BY <1>1, <2>1, <3>2
      <4>2. Told /\ req[r].pc # "createTable"
        BY DEF DataInv, At
      <4> QED
        BY <1>2, <4>1, <4>2, ToldStill
    <3> QED
      BY <3>1, <3>2
  <2> QED
    BY <2>1 DEF Told
<1>5. NodeTold'
  <2>1. NodeNames \subseteq Tables
    BY ConstantFacts
  <2> QED
    BY <1>1, <2>1 DEF DataInv, NodeTold
<1>6. \A n \in Tables : tables'[n] # Nothing => WellFormed(tables'[n])
  BY <1>1 DEF DataInv
<1>7. /\ schemas' \in [Tables -> SchemaRows \cup {Nothing}]
      /\ tables' \in [Tables -> TableStates \cup {Nothing}] /\ torn' \subseteq Tables
  BY <1>1 DEF DataInv, Typed
<1> QED
  BY <1>3, <1>4, <1>5, <1>6, <1>7, KeepsAll

\* Rows and tables go together, and no request creates what is dropped without its name
\* being torn.
LEMMA DropStep ==
  ASSUME DataInv, NEW r \in Reqs, Drop(r) \/ DropMany(r) \/ DropPrefixed(r)
  PROVE  Keeps(r)
<1>1. ~At(r, "createTable") /\ ~At(r, "idle")
  BY DEF Drop, DropMany, DropPrefixed, At
<1>2. Fail(r) \/ \E names \in SUBSET Tables : Discard(r, names)
  <2>1. CASE Drop(r)
    <3>1. Fail(r) \/ (req[r].name \in Tables /\ Discard(r, {req[r].name}))
      BY <2>1 DEF Drop
    <3>2. req[r].name \in Tables => {req[r].name} \in SUBSET Tables
      OBVIOUS
    <3> QED
      BY <3>1, <3>2, Zenon
  <2>2. CASE DropMany(r)
    <3>1. Fail(r) \/ Discard(r, req[r].names \cap Tables)
      BY <2>2 DEF DropMany
    <3>2. req[r].names \cap Tables \in SUBSET Tables
      OBVIOUS
    <3> QED
      BY <3>1, <3>2, Zenon
  <2>3. CASE DropPrefixed(r)
    <3> DEFINE names == {n \in Tables : schemas[n] # Nothing /\ Like(req[r].name, n)}
    <3>1. Discard(r, names) /\ names \in SUBSET Tables
      BY <2>3 DEF DropPrefixed
    <3> QED
      BY <3>1, Zenon
  <2> QED
    BY <2>1, <2>2, <2>3
<1>3. CASE Fail(r)
  <2>1. Quiet(r, Blank) /\ Stays(r, Blank)
    BY <1>1, <1>3, FailStep
  <2> QED
    BY <2>1, QuietKeeps DEF Keeps, Quiet
<1> QED
  BY <1>1, <1>2, <1>3, DiscardStep

\* The rows of a table.
LEMMA RowsFacts ==
  ASSUME NEW t \in TableStates
  PROVE  /\ DOMAIN t.rows \subseteq Ids /\ t.columns \in Seq(Words)
         /\ \A i \in DOMAIN t.rows : t.rows[i] \in Seq(Words)
<1> DEFINE all == UNION {[I -> Seq(Words)] : I \in SUBSET Ids}
<1>1. t.rows \in all /\ t.columns \in Seq(Words)
  BY DEF TableStates
<1>2. \E I \in SUBSET Ids : t.rows \in [I -> Seq(Words)]
  BY <1>1, Zenon
<1> QED
  BY <1>1, <1>2

\* A table with other rows.
RowSets == UNION {[I -> Seq(Words)] : I \in SUBSET Ids}

\* Rows under some of the ids are rows that a table may have.
LEMMA RowSet ==
  ASSUME NEW I, I \subseteq Ids, NEW rows \in [I -> Seq(Words)]
  PROVE  rows \in RowSets
<1>1. I \in SUBSET Ids
  OBVIOUS
<1> QED
  BY <1>1, Zenon DEF RowSets

\* A table with other rows is a table of the same columns, indexes and required cells.
LEMMA OtherRows ==
  ASSUME NEW t \in TableStates, NEW rows \in RowSets
  PROVE  /\ [t EXCEPT !.rows = rows] \in TableStates
         /\ [t EXCEPT !.rows = rows].rows = rows
         /\ [t EXCEPT !.rows = rows].columns = t.columns
         /\ [t EXCEPT !.rows = rows].required = t.required
         /\ [t EXCEPT !.rows = rows].indexes = t.indexes
<1>1. TableStates = [columns : Seq(Words), required : SUBSET Words, indexes : SUBSET (Words \X Nat),
                     rows : RowSets]
  BY DEF TableStates, RowSets
<1> QED
  BY <1>1

\* What a row looks like that is added, and that nothing else changes.
AddedRow(t, given) == [k \in DOMAIN t.columns |-> IF t.columns[k] \in given THEN t.columns[k] ELSE ""]
WithRow(t, i, row) == [x \in DOMAIN t.rows \cup {i} |-> IF x = i THEN row ELSE t.rows[x]]

\* add puts one row of the table's length under an id that had none, or fails.
LEMMA InsertRowFacts ==
  ASSUME DataInv, NEW r \in Reqs, InsertRow(r)
  PROVE  \/ Fail(r)
         \/ /\ req' = [req EXCEPT ![r] = Blank] /\ UNCHANGED <<schemas, torn>>
            /\ \E n \in Tables, i \in Ids, row \in Seq(Words) :
                 /\ n = req[r].name /\ tables[n] # Nothing /\ i \notin DOMAIN tables[n].rows
                 /\ Len(row) = Len(tables[n].columns)
                 /\ tables' = [tables EXCEPT ![n] = [tables[n] EXCEPT !.rows = WithRow(tables[n], i, row)]]
<1> DEFINE q == req[r]
           t == tables[q.name]
           given == Columns(q.old.def)
<1>1. q.pc = "insert" /\ q.name \in Tables
  <2>1. q.pc = "insert" /\ Sound(q)
    BY DEF DataInv, InsertRow, At
  <2> QED
    BY <2>1 DEF Sound, Named
<1>2. SUFFICES ASSUME ~Fail(r)
               PROVE  /\ req' = [req EXCEPT ![r] = Blank] /\ UNCHANGED <<schemas, torn>>
                      /\ \E n \in Tables, i \in Ids, row \in Seq(Words) :
                           /\ n = req[r].name /\ tables[n] # Nothing /\ i \notin DOMAIN tables[n].rows
                           /\ Len(row) = Len(tables[n].columns)
                           /\ tables' = [tables EXCEPT ![n] = [tables[n] EXCEPT !.rows = WithRow(tables[n], i, row)]]
  OBVIOUS
<1>3. /\ t # Nothing /\ Go(r, Blank) /\ UNCHANGED <<schemas, torn>>
      /\ \E i \in Ids \ DOMAIN t.rows :
           tables' = [tables EXCEPT ![q.name].rows =
             [x \in DOMAIN t.rows \cup {i} |->
                IF x = i
                THEN [k \in DOMAIN t.columns |-> IF t.columns[k] \in given THEN t.columns[k] ELSE ""]
                ELSE t.rows[x]]]
  BY <1>2 DEF InsertRow
<1>4. PICK i \in Ids \ DOMAIN t.rows :
        tables' = [tables EXCEPT ![q.name].rows = WithRow(t, i, AddedRow(t, given))]
  BY <1>3 DEF WithRow, AddedRow
<1>5. tables' = [tables EXCEPT ![q.name] = [t EXCEPT !.rows = WithRow(t, i, AddedRow(t, given))]]
  BY <1>4
<1>6. t \in TableStates
  BY <1>1, <1>3 DEF DataInv, Typed
<1>7. AddedRow(t, given) \in Seq(Words) /\ Len(AddedRow(t, given)) = Len(t.columns)
  <2>1. t.columns \in Seq(Words) /\ "" \in Words
    <3>1. t.columns \in Seq(Words)
      BY <1>6, RowsFacts
    <3>2. "" \in Words
      BY ConstantFacts, Zenon
    <3> QED
      BY <3>1, <3>2, Zenon
  <2>2. Len(t.columns) \in Nat /\ DOMAIN t.columns = 1 .. Len(t.columns) /\ t.columns \in [1 .. Len(t.columns) -> Words]
    BY <2>1, LenProperties
  <2> DEFINE len == Len(t.columns)
             cell(k) == IF t.columns[k] \in given THEN t.columns[k] ELSE ""
  <2>3. \A k \in 1 .. len : cell(k) \in Words
    BY <2>1, <2>2
  <2>4. AddedRow(t, given) = [k \in 1 .. len |-> cell(k)]
    BY <2>2 DEF AddedRow
  <2>5. len \in Nat
    BY <2>2
  <2> HIDE DEF len, cell
  <2>6. [k \in 1 .. len |-> cell(k)] \in Seq(Words) /\ Len([k \in 1 .. len |-> cell(k)]) = len
    BY <2>3, <2>5
  <2> QED
    BY <2>4, <2>6 DEF len
<1>8. req' = [req EXCEPT ![r] = Blank] /\ UNCHANGED <<schemas, torn>>
  BY <1>3 DEF Go
<1> QED
  BY <1>1, <1>3, <1>4, <1>5, <1>7, <1>8, Zenon

\* A row added leaves the table's definition as it was.
LEMMA InsertRowStep ==
  ASSUME DataInv, NEW r \in Reqs, InsertRow(r)
  PROVE  Keeps(r)
<1>1. CASE Fail(r)
  <2>1. ~At(r, "createTable") /\ ~At(r, "idle")
    BY DEF InsertRow, At
  <2>2. Quiet(r, Blank) /\ Stays(r, Blank)
    BY <1>1, <2>1, FailStep
  <2> QED
    BY <2>2, QuietKeeps DEF Keeps, Quiet
<1>2. CASE ~Fail(r)
  <2> DEFINE x == Blank
  <2>1. req' = [req EXCEPT ![r] = x] /\ schemas' = schemas /\ torn' = torn /\ req[r].pc = "insert"
    BY <1>2, InsertRowFacts DEF InsertRow, At
  <2>0. x \in Request /\ x.pc = "idle" /\ Sound(x) /\ Bound(x) /\ Fresh(x, schemas)
    BY BlankFacts DEF Fresh
  <2> HIDE DEF x
  <2>2. PICK n \in Tables, i \in Ids, row \in Seq(Words) :
          /\ n = req[r].name /\ tables[n] # Nothing /\ i \notin DOMAIN tables[n].rows
          /\ Len(row) = Len(tables[n].columns)
          /\ tables' = [tables EXCEPT ![n] = [tables[n] EXCEPT !.rows = WithRow(tables[n], i, row)]]
    BY <1>2, InsertRowFacts
  <2> DEFINE t == tables[n]
             new == [t EXCEPT !.rows = WithRow(t, i, row)]
             I == DOMAIN t.rows \cup {i}
  <2>3. t \in TableStates
    BY <2>2 DEF DataInv, Typed
  <2>4. WithRow(t, i, row) \in [I -> Seq(Words)] /\ I \subseteq Ids
    BY <2>3, RowsFacts DEF WithRow
  <2>5. /\ new \in TableStates /\ new.rows = WithRow(t, i, row) /\ new.columns = t.columns
        /\ new.required = t.required /\ new.indexes = t.indexes
    <3>1. WithRow(t, i, row) \in RowSets
      BY <2>4, RowSet
    <3> QED
      BY <2>3, <3>1, OtherRows
  <2>6. WellFormed(new)
    <3>1. WellFormed(t)
      BY <2>2 DEF DataInv
    <3> QED
      BY <2>2, <2>5, <3>1 DEF WellFormed, WithRow
  <2>7. new # Nothing
    BY <2>5, ConstantFacts, Zenon
  <2>8. tables' = [tables EXCEPT ![n] = new]
    BY <2>2
  <2> HIDE DEF new, I
  <2>9. tables'[n] = new /\ \A m \in Tables \ {n} : tables'[m] = tables[m]
    BY <2>8 DEF DataInv, Typed
  <2>10. req'[r] = x /\ (\A o \in Reqs \ {r} : req'[o] = req[o]) /\ req'[r].pc # "createTable"
    BY <2>1, <2>0 DEF DataInv, Typed
  <2>11. Goes(r, x) /\ Stays(r, x) /\ Fresh(x, schemas')
    BY <2>1, <2>0 DEF Goes, Stays, At
  <2>12. Told'
    <3>1. ASSUME NEW m \in Tables \ torn
          PROVE  ToldOf(m)'
      <4>1. CASE m # n
        BY <2>1, <2>9, <2>10, <4>1, ToldStill DEF DataInv
      <4>2. CASE m = n
        <5>0. Creators(m) = {}
          BY <2>2, <4>2, CreatorFacts
        <5>1. Creators(m) = {} /\ Matches(schemas[m], tables[m])
          BY <2>2, <4>2, <5>0 DEF DataInv, Told, ToldOf
        <5>2. Creators(m)' = {}
          BY <2>10, <5>1 DEF Creators, At
        <5>3. Matches(schemas'[m], tables'[m])
          BY <2>1, <2>5, <2>7, <2>9, <4>2, <5>1 DEF Matches
        <5> QED
          BY <5>2, <5>3 DEF ToldOf
      <4> QED
        BY <4>1, <4>2
    <3> QED
      BY <2>1, <3>1 DEF Told
  <2>13. NodeTold'
    <3>1. NodeNames \subseteq Tables
      BY ConstantFacts
    <3> QED
      BY <2>1, <2>2, <2>5, <2>9, <3>1 DEF DataInv, NodeTold
  <2>14. \A m \in Tables : tables'[m] # Nothing => WellFormed(tables'[m])
    BY <2>6, <2>9 DEF DataInv
  <2>15. /\ schemas' \in [Tables -> SchemaRows \cup {Nothing}]
         /\ tables' \in [Tables -> TableStates \cup {Nothing}] /\ torn' \subseteq Tables
    BY <2>1, <2>5, <2>8 DEF DataInv, Typed
  <2> QED
    BY <2>11, <2>12, <2>13, <2>14, <2>15, KeepsAll
<1> QED
  BY <1>1, <1>2

\* Where a column is.
Place(columns, c) == CHOOSE k \in DOMAIN columns : columns[k] = c

\* A row that is copied: as many cells as the new table has columns, and each that
\* was there before (the next lemma) holds what it held.
LEMMA FilledFacts ==
  ASSUME NEW columns \in Seq(Words), NEW row \in Seq(Words), Len(row) = Len(columns),
         NEW d \in Definitions
  PROVE  /\ Filled(row, columns, d) \in Seq(Words)
         /\ Len(Filled(row, columns, d)) = Len(d.columns)
<1> DEFINE place(c) == Place(columns, c)
           cell(i) == IF \E k \in DOMAIN columns : columns[k] = d.columns[i] THEN row[place(d.columns[i])] ELSE ""
           n == Len(d.columns)
<1>1. d.columns \in Seq(Words) /\ "" \in Words
  BY ConstantFacts DEF Words
<1>2. n \in Nat /\ DOMAIN d.columns = 1 .. n
  BY <1>1, LenProperties
<1>3. Filled(row, columns, d) = [i \in DOMAIN d.columns |-> cell(i)]
  BY DEF Filled, Place
<1>4. \A c : (\E k \in DOMAIN columns : columns[k] = c) => place(c) \in DOMAIN columns
  BY DEF Place
<1>5. DOMAIN row = DOMAIN columns /\ \A k \in DOMAIN row : row[k] \in Words
  BY LenProperties
<1>6. \A i \in 1 .. n : cell(i) \in Words
  <2> HIDE DEF place
  <2> QED
    BY <1>1, <1>4, <1>5
<1>7. Filled(row, columns, d) \in Seq(Words) /\ Len(Filled(row, columns, d)) = n
  <2>1. Filled(row, columns, d) = [i \in 1 .. n |-> cell(i)]
    BY <1>2, <1>3
  <2> HIDE DEF cell, n
  <2>2. [i \in 1 .. n |-> cell(i)] \in Seq(Words) /\ Len([i \in 1 .. n |-> cell(i)]) = n
    BY <1>2, <1>6
  <2> QED
    BY <2>1, <2>2
<1> QED
  BY <1>7

\* A cell that is copied stands in the new row under the column it was under before.
LEMMA FilledCell ==
  ASSUME NEW columns \in Seq(Words), NEW row \in Seq(Words), Len(row) = Len(columns),
         NEW d \in Definitions, NEW c,
         \E k \in DOMAIN columns : columns[k] = c, \E k \in DOMAIN d.columns : d.columns[k] = c
  PROVE  Filled(row, columns, d)[Place(d.columns, c)] = row[Place(columns, c)]
<1> DEFINE at == Place(d.columns, c)
<1>1. at \in DOMAIN d.columns /\ d.columns[at] = c
  BY DEF Place
<1>2. Filled(row, columns, d) =
        [i \in DOMAIN d.columns |->
           IF \E k \in DOMAIN columns : columns[k] = d.columns[i] THEN row[Place(columns, d.columns[i])] ELSE ""]
  BY DEF Filled, Place
<1> HIDE DEF at
<1>3. Filled(row, columns, d)[at] = row[Place(columns, c)]
  BY <1>1, <1>2
<1> QED
  BY <1>3 DEF at

\* A transaction of the start of the process finds the table as its definition tells,
\* and all of its columns in the new one.
LEMMA SwapFacts ==
  ASSUME DataInv, NEW r \in Reqs, Swap(r), ~Fail(r)
  PROVE  \E n \in NodeNames, d \in Definitions, v \in 1 .. MaxVersion :
           /\ n = req[r].name /\ d = req[r].new /\ req[r].op = "boot" /\ tables[n] # Nothing
           /\ n \in Tables /\ tables[n] \in TableStates /\ WellFormed(tables[n]) /\ schemas[n] \in SchemaRows
           /\ req' = [req EXCEPT ![r] = [req[r] EXCEPT !.pc = "next"]] /\ torn' = torn
           /\ schemas' = [schemas EXCEPT ![n] = [def |-> d, version |-> v]]
           /\ tables' = [tables EXCEPT ![n] =
                [Empty(d, v) EXCEPT !.rows = Copied(tables[n], tables[n].columns, d)]]
<1> DEFINE q == req[r]
           n == q.name
           d == q.new
           t == tables[n]
           common == Common(q.old.def, d)
           v == q.old.version + 1
<1>1. q \in Request /\ q.pc = "swap" /\ Sound(q) /\ Bound(q) /\ Fresh(q, schemas)
  BY DEF DataInv, Typed, Swap, At
<1>2. /\ n \in Tables /\ d \in Definitions /\ q.op = "boot" /\ q.old = schemas[n]
      /\ q.old \in SchemaRows /\ q.old.version < MaxVersion /\ n \in NodeNames
  BY <1>1 DEF Sound, Bound, Fresh, Named
<1>3. /\ Swappable(r, t, common, v)
      /\ tables' = [tables EXCEPT ![n] = [Empty(d, v) EXCEPT !.rows = Copied(t, common, d)]]
      /\ schemas' = [schemas EXCEPT ![n] = Redefined(@, d, v)]
      /\ Go(r, [q EXCEPT !.pc = "next"]) /\ torn' = torn
  BY DEF Swap, Finish
<1>4. q.old.version \in 0 .. MaxVersion /\ q.old.def \in Definitions /\ MaxVersion \in Nat
  BY <1>2, StoreAssumption DEF SchemaRows
<1>5. v \in 1 .. MaxVersion
  BY <1>2, <1>4
<1>6. t # Nothing /\ Len(common) = Len(t.columns)
  BY <1>3 DEF Swappable
<1>7. t \in TableStates /\ WellFormed(t)
  BY <1>2, <1>6 DEF DataInv, Typed
<1>8. t.columns = q.old.def.columns
  BY <1>2, <1>6 DEF DataInv, NodeTold
<1>9. common = t.columns
  <2>1. common = Kept(q.old.def.columns, Columns(d))
    BY DEF Common
  <2>2. q.old.def.columns \in Seq(Words)
    BY <1>4, ConstantFacts
  <2> QED
    BY <1>6, <1>8, <2>1, <2>2, KeptAll
<1>10. schemas' = [schemas EXCEPT ![n] = [def |-> d, version |-> v]]
  <2>1. schemas[n] # Nothing
    BY <1>2, ConstantFacts, Zenon
  <2>2. Redefined(schemas[n], d, v) = [def |-> d, version |-> v]
    BY <2>1 DEF Redefined
  <2>3. schemas' = [schemas EXCEPT ![n] = Redefined(schemas[n], d, v)]
    BY <1>3
  <2> QED
    BY <2>2, <2>3
<1>11. tables' = [tables EXCEPT ![n] = [Empty(d, v) EXCEPT !.rows = Copied(t, t.columns, d)]]
  BY <1>3, <1>9
<1>12. req' = [req EXCEPT ![r] = [q EXCEPT !.pc = "next"]] /\ torn' = torn
  BY <1>3 DEF Go
<1>13. schemas[n] \in SchemaRows
  BY <1>2
<1> HIDE DEF v, common
<1> QED
  BY <1>2, <1>5, <1>6, <1>7, <1>10, <1>11, <1>12, <1>13, Zenon

\* The transaction of redefine leaves a table that the new row describes.
LEMMA SwapStep ==
  ASSUME DataInv, NEW r \in Reqs, Swap(r)
  PROVE  Keeps(r)
<1>1. CASE Fail(r)
  <2>1. ~At(r, "createTable") /\ ~At(r, "idle")
    BY DEF Swap, At
  <2>2. Quiet(r, Blank) /\ Stays(r, Blank)
    BY <1>1, <2>1, FailStep
  <2> QED
    BY <2>2, QuietKeeps DEF Keeps, Quiet
<1>2. CASE ~Fail(r)
  <2>1. PICK n \in NodeNames, d \in Definitions, v \in 1 .. MaxVersion :
           /\ n = req[r].name /\ d = req[r].new /\ req[r].op = "boot" /\ tables[n] # Nothing
           /\ n \in Tables /\ tables[n] \in TableStates /\ WellFormed(tables[n]) /\ schemas[n] \in SchemaRows
           /\ req' = [req EXCEPT ![r] = [req[r] EXCEPT !.pc = "next"]] /\ torn' = torn
           /\ schemas' = [schemas EXCEPT ![n] = [def |-> d, version |-> v]]
           /\ tables' = [tables EXCEPT ![n] =
                [Empty(d, v) EXCEPT !.rows = Copied(tables[n], tables[n].columns, d)]]
    BY <1>2, SwapFacts
  <2> DEFINE q == req[r]
             x == [q EXCEPT !.pc = "next"]
             t == tables[n]
             rows == Copied(t, t.columns, d)
             new == [Empty(d, v) EXCEPT !.rows = rows]
             row == [def |-> d, version |-> v]
  <2>2. q \in Request /\ q.pc = "swap" /\ Sound(q) /\ Bound(q)
    BY DEF DataInv, Typed, Swap, At
  <2>3. /\ x \in Request /\ x.pc = "next" /\ x.new = q.new /\ x.name = q.name /\ x.op = q.op
        /\ x.scope = q.scope /\ x.names = q.names /\ x.rest = q.rest
    BY <2>2 DEF Request, Steps
  <2>4. v \in Nat /\ v \in 0 .. MaxVersion
    BY StoreAssumption
  <2>5. rows \in RowSets /\ DOMAIN rows = DOMAIN t.rows /\ \A i \in DOMAIN rows : Len(rows[i]) = Len(d.columns)
    <3>1. DOMAIN t.rows \subseteq Ids /\ t.columns \in Seq(Words) /\ \A i \in DOMAIN t.rows : t.rows[i] \in Seq(Words)
      BY <2>1, RowsFacts
    <3>2. \A i \in DOMAIN t.rows : Len(t.rows[i]) = Len(t.columns)
      BY <2>1 DEF WellFormed
    <3>3. rows = [i \in DOMAIN t.rows |-> Filled(t.rows[i], t.columns, d)]
      BY DEF Copied
    <3>4. \A i \in DOMAIN t.rows : /\ Filled(t.rows[i], t.columns, d) \in Seq(Words)
                                   /\ Len(Filled(t.rows[i], t.columns, d)) = Len(d.columns)
      BY <3>1, <3>2, FilledFacts
    <3> HIDE DEF rows
    <3>5. rows \in [DOMAIN t.rows -> Seq(Words)]
      BY <3>3, <3>4
    <3>6. rows \in RowSets
      BY <3>1, <3>5, RowSet
    <3> QED
      BY <3>3, <3>4, <3>6
  <2>6. /\ Empty(d, v) \in TableStates /\ WellFormed(Empty(d, v)) /\ Empty(d, v).columns = d.columns
        /\ Empty(d, v).indexes = Indexes(d, v) /\ Empty(d, v).required = d.required
    BY <2>4, EmptyFacts
  <2> HIDE DEF rows
  <2>7. /\ new \in TableStates /\ new.rows = rows /\ new.columns = d.columns
        /\ new.indexes = Indexes(d, v) /\ new.required = d.required
    BY <2>5, <2>6, OtherRows
  <2> HIDE DEF new
  <2>8. WellFormed(new) /\ new # Nothing
    <3>1. new # Nothing
      BY <2>7, ConstantFacts, Zenon
    <3> QED
      BY <2>5, <2>7, <3>1 DEF WellFormed
  <2>9. row \in SchemaRows /\ row # Nothing /\ row.def = d /\ row.version = v
    <3>1. row \in SchemaRows
      BY <2>4 DEF SchemaRows
    <3>2. row # Nothing
      BY <3>1, ConstantFacts, Zenon
    <3> QED
      BY <3>1, <3>2
  <2>10. schemas' = [schemas EXCEPT ![n] = row] /\ tables' = [tables EXCEPT ![n] = new]
    BY <2>1 DEF new, rows
  <2> HIDE DEF row, x
  <2>11. /\ schemas'[n] = row /\ \A m \in Tables \ {n} : schemas'[m] = schemas[m]
         /\ tables'[n] = new /\ \A m \in Tables \ {n} : tables'[m] = tables[m]
    BY <2>1, <2>10 DEF DataInv, Typed
  <2>12. req' = [req EXCEPT ![r] = x]
    BY <2>1 DEF x
  <2>13. req'[r] = x /\ \A o \in Reqs \ {r} : req'[o] = req[o]
    BY <2>12 DEF DataInv, Typed
  <2>15. Sound(x)
    <3> HIDE DEF q
    <3> QED
      BY <2>1, <2>2, <2>3 DEF Sound, Named, q
  <2>16. Bound(x)
    BY <2>1, <2>2, <2>3 DEF Bound, Named
  <2>17. Fresh(x, schemas')
    BY <2>3 DEF Fresh
  <2>18. Told'
    <3>1. ASSUME NEW m \in Tables \ torn
          PROVE  ToldOf(m)'
      <4>1. CASE m # n
        BY <2>1, <2>2, <2>3, <2>11, <2>13, <4>1, ToldStill DEF DataInv
      <4>2. CASE m = n
        <5>1. Creators(m) = {}
          BY <2>1, <4>2, CreatorFacts
        <5>2. Creators(m)' = {}
          BY <2>3, <2>13, <5>1 DEF Creators, At
        <5>3. Matches(row, new)
          BY <2>7, <2>8, <2>9 DEF Matches
        <5>4. Matches(schemas'[m], tables'[m])
          BY <2>11, <4>2, <5>3, Zenon
        <5> QED
          BY <5>2, <5>4 DEF ToldOf
      <4> QED
        BY <4>1, <4>2
    <3> QED
      BY <2>1, <3>1 DEF Told
  <2>19. NodeTold'
    <3>1. NodeNames \subseteq Tables
      BY ConstantFacts
    <3> QED
      BY <2>7, <2>9, <2>11, <3>1 DEF DataInv, NodeTold
  <2>20. \A m \in Tables : tables'[m] # Nothing => WellFormed(tables'[m])
    BY <2>8, <2>11 DEF DataInv
  <2>21. /\ schemas' \in [Tables -> SchemaRows \cup {Nothing}]
         /\ tables' \in [Tables -> TableStates \cup {Nothing}] /\ torn' \subseteq Tables
    BY <2>1, <2>7, <2>9, <2>10 DEF DataInv, Typed
  <2>22. Goes(r, x) /\ Stays(r, x)
    BY <2>2, <2>3, <2>12, <2>15, <2>16 DEF Goes, Stays, At
  <2> QED
    BY <2>17, <2>18, <2>19, <2>20, <2>21, <2>22, KeepsAll
<1> QED
  BY <1>1, <1>2
-----------------------------------------------------------------------------
(* Requests begin. *)

\* A request as it begins has nothing in hand.
LEMMA OfFacts ==
  ASSUME NEW op \in {"register", "drop", "dropAll", "add", "addNode", "delAll"}, NEW scope \in Scopes
  PROVE  /\ Of(op, scope) \in Request /\ Of(op, scope).op = op /\ Of(op, scope).scope = scope
         /\ Of(op, scope).names = {} /\ Of(op, scope).rest = <<>> /\ DOMAIN Of(op, scope).rest = {}
<1>1. /\ Blank \in Request /\ Blank.names = {} /\ Blank.rest = <<>> /\ DOMAIN Blank.rest = {}
  BY BlankFacts
<1> QED
  BY <1>1 DEF Of, Request

\* Whoever begins when the process serves is not the start of the process.
LEMMA StartKeeps ==
  ASSUME DataInv, NEW r \in Reqs, NEW q \in Request, Start(r, q), Sound(q), Bound(q),
         q.op # "boot", q.pc # "createTable", UNCHANGED <<schemas, tables, torn>>, up' = up
  PROVE  DataInv'
<1>1. up /\ req[r].pc = "idle" /\ req' = [req EXCEPT ![r] = q]
  BY DEF Start, At, Go
<1>2. Quiet(r, q)
  BY <1>1 DEF Quiet, Goes, Fresh
<1>3. req'[r] = q /\ \A o \in Reqs \ {r} : req'[o] = req[o]
  BY <1>1 DEF DataInv, Typed
<1>4. \A o \in Reqs : req[o].pc # "idle" => req[o].op # "boot"
  BY <1>1 DEF DataInv, Alone, At
<1>5. Alone'
  BY <1>1, <1>3, <1>4 DEF DataInv, Alone, At
<1> QED
  BY <1>2, <1>5, QuietKeeps

\* A release begins to redefine the node's tables.
LEMMA BootKeeps ==
  ASSUME DataInv, NEW r \in Reqs, Boot(r), up' = up
  PROVE  DataInv'
<1>1. PICK new \in [DOMAIN NodeTables -> IF traffic = "node" THEN Definitions ELSE TinyTypes] :
        Go(r, [Blank EXCEPT !.op = "boot", !.pc = "next",
                 !.rest = [i \in DOMAIN NodeTables |-> [name |-> NodeTables[i], def |-> new[i]]]])
  BY DEF Boot
<1> DEFINE k == Len(NodeTables)
           rest == [i \in DOMAIN NodeTables |-> [name |-> NodeTables[i], def |-> new[i]]]
           q == [Blank EXCEPT !.op = "boot", !.pc = "next", !.rest = rest]
<1>2. ~up /\ (\A o \in Reqs : req[o].pc = "idle") /\ UNCHANGED <<schemas, tables, torn>>
  BY DEF Boot, At
<1>3. NodeTables \in [1 .. k -> Tables] /\ DOMAIN NodeTables = 1 .. k /\ k \in Nat
  BY TinyDbAssumption, LenProperties
<1>4. \A i \in 1 .. k : new[i] \in Definitions
  BY <1>1, <1>3, ConstantFacts
<1>5. rest \in [1 .. k -> Wanted] /\ \A i \in 1 .. k : rest[i].name \in NodeNames
  BY <1>3, <1>4 DEF Wanted, NodeNames
<1> HIDE DEF rest, k
<1>6. rest \in Seq(Wanted) /\ DOMAIN rest = 1 .. k
  BY <1>3, <1>5
<1>7. q \in Request /\ q.op = "boot" /\ q.pc = "next" /\ q.rest = rest
  BY <1>6, BlankFacts DEF Request, Steps
<1>8. req' = [req EXCEPT ![r] = q]
  BY <1>1 DEF Go, rest
<1> HIDE DEF q
<1>9. Sound(q) /\ Bound(q) /\ Fresh(q, schemas)
  BY <1>5, <1>6, <1>7 DEF Sound, Bound, Fresh, Named
<1>10. Quiet(r, q)
  BY <1>2, <1>7, <1>8, <1>9 DEF Quiet, Goes
<1>11. req'[r] = q /\ \A o \in Reqs \ {r} : req'[o] = req[o]
  BY <1>8 DEF DataInv, Typed
<1>12. Alone'
  BY <1>2, <1>7, <1>11 DEF DataInv, Alone, At
<1> QED
  BY <1>10, <1>12, QuietKeeps

\* A registration begins with names that are joined of its scope.
LEMMA RegisterKeeps ==
  ASSUME DataInv, NEW r \in Reqs, NEW scope \in Scopes, Register(r, scope), up' = up
  PROVE  DataInv'
<1>1. PICK names \in {<<t>> : t \in Types} \cup (Types \X Types), d \in TinyTypes :
        /\ \A i \in DOMAIN names : Join(scope, names[i]) \in Tables
        /\ Start(r, [Of("register", scope) EXCEPT !.pc = "next",
             !.rest = [i \in DOMAIN names |-> [name |-> Join(scope, names[i]), def |-> d]]])
  BY DEF Register
<1> DEFINE rest == [i \in DOMAIN names |-> [name |-> Join(scope, names[i]), def |-> d]]
           q == [Of("register", scope) EXCEPT !.pc = "next", !.rest = rest]
<1>3. \E k \in Nat \ {0} : names \in [1 .. k -> Types]
  <2>1. CASE names \in {<<t>> : t \in Types}
    <3>1. PICK a \in Types : names = <<a>>
      BY <2>1
    <3>2. names \in [1 .. 1 -> Types]
      BY <3>1
    <3> QED
      BY <3>2
  <2>2. CASE names \in Types \X Types
    <3>1. PICK a \in Types, b \in Types : names = <<a, b>>
      BY <2>2
    <3>2. names \in [1 .. 2 -> Types]
      BY <3>1
    <3> QED
      BY <3>2
  <2> QED
    BY <2>1, <2>2
<1>4. PICK k \in Nat \ {0} : names \in [1 .. k -> Types]
  BY <1>3
<1>5. rest \in [1 .. k -> Wanted] /\ \A i \in 1 .. k : Own(scope, rest[i].name)
  <2>1. \A i \in 1 .. k : names[i] \in Seq(Words) /\ Join(scope, names[i]) \in Tables
    BY <1>1, <1>4, TinyDbAssumption
  <2>2. d \in Definitions
    BY ConstantFacts
  <2>3. \A i \in 1 .. k : Own(scope, Join(scope, names[i]))
    BY <2>1, OwnJoin
  <2>4. DOMAIN names = 1 .. k
    BY <1>4
  <2>5. rest = [i \in 1 .. k |-> [name |-> Join(scope, names[i]), def |-> d]]
    BY <2>4
  <2> HIDE DEF rest
  <2> QED
    BY <2>1, <2>2, <2>3, <2>5 DEF Wanted
<1> HIDE DEF rest
<1>6. rest \in Seq(Wanted) /\ DOMAIN rest = 1 .. k
  BY <1>4, <1>5
<1>7. /\ q \in Request /\ q.op = "register" /\ q.scope = scope /\ q.pc = "next"
      /\ q.names = {} /\ q.rest = rest
  <2>1. /\ Of("register", scope) \in Request /\ Of("register", scope).op = "register"
        /\ Of("register", scope).scope = scope /\ Of("register", scope).names = {}
    BY OfFacts
  <2> QED
    BY <1>6, <2>1 DEF Request, Steps
<1>8. Start(r, q)
  BY <1>1 DEF rest
<1> HIDE DEF q
<1>9. Sound(q)
  BY <1>7 DEF Sound, Named
<1>10. Bound(q)
  BY <1>5, <1>6, <1>7 DEF Bound, Named
<1> QED
  BY <1>7, <1>8, <1>9, <1>10, StartKeeps DEF Register

\* Whatever the listing has, its names joined with the scope are the scope's own.
LEMMA TranslatedFacts ==
  ASSUME NEW scope \in Scopes, NEW n \in Tables
  PROVE  /\ Join(scope, Translated(n)) \in Seq(Words) /\ Own(scope, Join(scope, Translated(n)))
<1>1. n \in Seq(Words) /\ <<>> \in Seq(Words)
  BY ConstantFacts, EmptySeq
<1>2. Translated(n) \in Seq(Words)
  <2>1. CASE Len(n) < 3
    BY <1>1, <2>1 DEF Translated
  <2>2. CASE ~(Len(n) < 3)
    <3>0. Len(n) \in Nat
      BY <1>1, LenProperties
    <3>1. 3 \in 1 .. Len(n)
      BY <2>2, <3>0
    <3>2. n[3] \in Words
      BY <1>1, <3>1, LenProperties
    <3>3. Given(n[3]) \in Seq(Words)
      <4>1. <<n[3]>> \in Seq(Words)
        BY <3>2
      <4> QED
        BY <1>1, <4>1, Zenon DEF Given
    <3> QED
      BY <2>2, <3>3 DEF Translated
  <2> QED
    BY <2>1, <2>2
<1> QED
  BY <1>2, JoinFacts, OwnJoin

\* A request to drop a table begins, with a name joined of its scope.
LEMMA DropTableKeeps ==
  ASSUME DataInv, NEW r \in Reqs, NEW scope \in Scopes, DropTable(r, scope), up' = up
  PROVE  DataInv'
<1>1. PICK t \in Types : /\ Join(scope, t) \in Tables
                         /\ Start(r, [Of("drop", scope) EXCEPT !.pc = "drop", !.name = Join(scope, t)])
  BY DEF DropTable
<1> DEFINE n == Join(scope, t)
           q == [Of("drop", scope) EXCEPT !.pc = "drop", !.name = n]
<1>2. t \in Seq(Words)
  BY TinyDbAssumption
<1>3. n \in Tables /\ n \in Seq(Words) /\ Own(scope, n)
  BY <1>1, <1>2, OwnJoin, JoinFacts
<1> HIDE DEF n
<1>4. /\ q \in Request /\ q.op = "drop" /\ q.scope = scope /\ q.pc = "drop" /\ q.name = n
      /\ q.names = {} /\ DOMAIN q.rest = {}
  <2>1. /\ Of("drop", scope) \in Request /\ Of("drop", scope).op = "drop"
        /\ Of("drop", scope).scope = scope /\ Of("drop", scope).names = {}
        /\ DOMAIN Of("drop", scope).rest = {}
    BY OfFacts
  <2> QED
    BY <1>3, <2>1 DEF Request, Steps
<1>5. Start(r, q)
  BY <1>1 DEF n
<1> HIDE DEF q
<1>7. Sound(q) /\ Bound(q)
  BY <1>3, <1>4 DEF Sound, Bound, Named
<1> QED
  BY <1>4, <1>5, <1>7, StartKeeps DEF DropTable

\* DELETE /dynamic/tables begins, with names that its scope may drop.
LEMMA DropAllKeeps ==
  ASSUME DataInv, NEW r \in Reqs, NEW scope \in Scopes, DropAll(r, scope), up' = up
  PROVE  DataInv'
<1> DEFINE names == ToDrop(scope)
           q == [Of("dropAll", scope) EXCEPT !.pc = "dropMany", !.names = names]
<1>1. Start(r, q) /\ UNCHANGED <<schemas, tables, torn>>
  BY DEF DropAll
<1>3. \A n \in names : n \in Seq(Words) /\ Own(scope, n)
  BY TranslatedFacts DEF ToDrop, Listed
<1> HIDE DEF names
<1>4. /\ q \in Request /\ q.op = "dropAll" /\ q.scope = scope /\ q.pc = "dropMany"
      /\ q.names = names /\ DOMAIN q.rest = {}
  <2>1. /\ Of("dropAll", scope) \in Request /\ Of("dropAll", scope).op = "dropAll"
        /\ Of("dropAll", scope).scope = scope /\ DOMAIN Of("dropAll", scope).rest = {}
    BY OfFacts
  <2>2. names \in SUBSET Seq(Words)
    BY <1>3
  <2> QED
    BY <2>1, <2>2 DEF Request, Steps
<1> HIDE DEF q
<1>6. Sound(q) /\ Bound(q)
  BY <1>3, <1>4 DEF Sound, Bound, Named
<1> QED
  BY <1>1, <1>4, <1>6, StartKeeps

\* A mutation begins, with a table that its scope may use.
LEMMA AddRowKeeps ==
  ASSUME DataInv, NEW r \in Reqs, NEW scope \in Scopes, AddRow(r, scope), up' = up
  PROVE  DataInv'
<1>1. PICK m \in Listed(scope) :
        /\ Join(scope, Translated(m)) \in Tables
        /\ Start(r, [Of("add", scope) EXCEPT !.pc = "handle", !.name = Join(scope, Translated(m))])
  BY DEF AddRow
<1> DEFINE n == Join(scope, Translated(m))
           q == [Of("add", scope) EXCEPT !.pc = "handle", !.name = n]
<1>2. m \in Tables
  BY <1>1 DEF Listed
<1>3. n \in Tables /\ n \in Seq(Words) /\ Own(scope, n)
  BY <1>1, <1>2, TranslatedFacts
<1>4. Start(r, q)
  BY <1>1
<1> HIDE DEF n
<1>5. /\ q \in Request /\ q.op = "add" /\ q.scope = scope /\ q.pc = "handle" /\ q.name = n
      /\ q.names = {} /\ DOMAIN q.rest = {}
  <2>1. /\ Of("add", scope) \in Request /\ Of("add", scope).op = "add"
        /\ Of("add", scope).scope = scope /\ Of("add", scope).names = {}
        /\ DOMAIN Of("add", scope).rest = {}
    BY OfFacts
  <2> QED
    BY <1>3, <2>1 DEF Request, Steps
<1> HIDE DEF q
<1>7. Sound(q) /\ Bound(q)
  BY <1>3, <1>5 DEF Sound, Bound, Named
<1> QED
  BY <1>4, <1>5, <1>7, StartKeeps DEF AddRow

\* The node adds a row to a table of its own.
LEMMA AddNodeRowKeeps ==
  ASSUME DataInv, NEW r \in Reqs, AddNodeRow(r), up' = up
  PROVE  DataInv'
<1>1. PICK n \in NodeNames : Start(r, [Of("addNode", "") EXCEPT !.pc = "handle", !.name = n])
  BY DEF AddNodeRow
<1> DEFINE q == [Of("addNode", "") EXCEPT !.pc = "handle", !.name = n]
<1>2. n \in Tables /\ n \in Seq(Words) /\ "" \in Scopes
  BY ConstantFacts
<1>3. /\ q \in Request /\ q.op = "addNode" /\ q.pc = "handle" /\ q.name = n
      /\ q.rest = <<>> /\ DOMAIN q.rest = {}
  <2>1. /\ Of("addNode", "") \in Request /\ Of("addNode", "").op = "addNode"
        /\ Of("addNode", "").rest = <<>> /\ DOMAIN Of("addNode", "").rest = {}
    BY <1>2, OfFacts
  <2> QED
    BY <1>2, <2>1 DEF Request, Steps
<1> HIDE DEF q
<1>5. Sound(q) /\ Bound(q)
  BY <1>2, <1>3 DEF Sound, Bound, Named
<1> QED
  BY <1>1, <1>3, <1>5, StartKeeps DEF AddNodeRow, q

\* delAllUserData begins with the user's prefix.
LEMMA DelAllUserDataKeeps ==
  ASSUME DataInv, NEW r \in Reqs, NEW scope \in Scopes, DelAllUserData(r, scope), up' = up
  PROVE  DataInv'
<1> DEFINE n == Join(scope, <<>>)
           q == [Of("delAll", scope) EXCEPT !.pc = "dropPrefixed", !.name = n]
<1>1. Start(r, q) /\ UNCHANGED <<schemas, tables, torn>>
  BY DEF DelAllUserData
<1>2. <<>> \in Seq(Words)
  BY EmptySeq
<1>3. n \in Seq(Words)
  BY <1>2, JoinFacts
<1>4. /\ q \in Request /\ q.op = "delAll" /\ q.scope = scope /\ q.pc = "dropPrefixed" /\ q.name = n
      /\ DOMAIN q.rest = {}
  <2>1. /\ Of("delAll", scope) \in Request /\ Of("delAll", scope).op = "delAll"
        /\ Of("delAll", scope).scope = scope /\ DOMAIN Of("delAll", scope).rest = {}
    BY OfFacts
  <2> HIDE DEF n
  <2> QED
    BY <1>3, <2>1 DEF Request, Steps
<1> HIDE DEF q
<1>6. Sound(q) /\ Bound(q)
  BY <1>4 DEF Sound, Bound, Named
<1> QED
  BY <1>1, <1>4, <1>6, StartKeeps
-----------------------------------------------------------------------------
(* The steps of the specification. *)

\* The empty database is as the invariant says.
LEMMA InitData == Init => IInv
<1> SUFFICES ASSUME Init PROVE IInv
  OBVIOUS
<1>1. /\ schemas = [n \in Tables |-> Nothing] /\ tables = [n \in Tables |-> Nothing]
      /\ req = [r \in Reqs |-> Blank] /\ torn = {} /\ up = FALSE /\ kv = [k \in Keys |-> Nothing]
  BY DEF Init, StoreInit
<1>2. \A r \in Reqs : req[r] = Blank
  BY <1>1
<1>3. Typed
  BY <1>1, BlankFacts DEF Typed
<1>4. Alone
  BY <1>1, <1>2, BlankFacts DEF Alone, At
<1>5. NodeTold
  BY <1>1, ConstantFacts DEF NodeTold
<1>6. \A n : Creators(n) = {}
  BY <1>2, BlankFacts DEF Creators, At
<1>7. Told
  BY <1>1, <1>6 DEF Told, ToldOf
<1>8. \A r \in Reqs : Sound(req[r]) /\ Bound(req[r]) /\ Fresh(req[r], schemas)
  BY <1>2, BlankFacts DEF Fresh
<1>9. \A n \in Tables : tables[n] # Nothing => WellFormed(tables[n])
  BY <1>1
<1> QED
  BY <1>1, <1>3, <1>4, <1>5, <1>7, <1>8, <1>9 DEF IInv, DataInv, KvInv

\* Every step of a request under way keeps the invariant.
LEMMA StoreStepKeeps ==
  ASSUME DataInv, NEW r \in Reqs,
         StoreStep(r) \/ RedefineNext(r) \/ CreateNext(r) \/ Handle(r) \/ End(r)
  PROVE  Keeps(r)
<1>1. ASSUME NEW x, Quiet(r, x), Stays(r, x)
      PROVE  Keeps(r)
  BY <1>1, QuietKeeps DEF Keeps, Quiet
<1>2. ASSUME NEW x, Inserted(r, x)
      PROVE  Keeps(r)
  BY <1>2, InsertedKeeps DEF Keeps, Inserted
<1>3. CASE RedefineNext(r)
  BY <1>1, <1>3, RedefineNextStep
<1>4. CASE CreateTable(r)
  BY <1>4, CreateTableStep
<1>5. CASE Compare(r)
  BY <1>1, <1>2, <1>5, CompareStep
<1>6. CASE Swap(r)
  BY <1>6, SwapStep
<1>7. CASE End(r)
  BY <1>1, <1>7, EndStep
<1>8. CASE Drop(r) \/ DropMany(r) \/ DropPrefixed(r)
  BY <1>8, DropStep
<1>9. CASE InsertRow(r)
  BY <1>9, InsertRowStep
<1>10. CASE CreateNext(r)
  BY <1>1, <1>2, <1>10, CreateNextStep
<1>11. CASE Handle(r)
  BY <1>1, <1>11, HandleStep
<1> QED
  BY <1>3, <1>4, <1>5, <1>6, <1>7, <1>8, <1>9, <1>10, <1>11 DEF StoreStep

\* What happens to up with the step.
LEMMA StoreNext ==
  ASSUME DataInv, NEW r \in Reqs,
         \/ End(r) /\ up' = (up \/ Booted(r))
         \/ (StoreStep(r) \/ RedefineNext(r) \/ CreateNext(r) \/ Handle(r)) /\ up' = up
  PROVE  DataInv'
<1>1. PICK x : Goes(r, x) /\ Stays(r, x) /\ (Alone' => DataInv')
  BY StoreStepKeeps DEF Keeps
<1>2. up \in BOOLEAN
  BY DEF DataInv, Alone
<1>3. req'[r] = x
  BY <1>1 DEF DataInv, Typed, Goes
<1>4. up' \in BOOLEAN /\ (up' = up \/ (x.pc = "idle" /\ req[r].op = "boot"))
  <2>1. CASE End(r) /\ Booted(r) /\ up' = (up \/ Booted(r))
    <3>1. req[r].op = "boot" /\ req'[r] = Blank
      BY <2>1 DEF Booted, End, Go, DataInv, Typed
    <3> QED
      BY <1>2, <1>3, <2>1, <3>1, BlankFacts
  <2>2. CASE ~Booted(r) /\ up' = (up \/ Booted(r))
    BY <1>2, <2>2
  <2>3. CASE up' = up
    BY <1>2, <2>3
  <2> QED
    BY <2>1, <2>2, <2>3
<1>5. Alone'
  <2>1. Typed /\ Alone
    BY DEF DataInv
  <2> QED
    BY <1>1, <1>4, <2>1, AloneKept, Zenon DEF Rises
<1> QED
  BY <1>1, <1>5

\* A crash frees every slot, and leaves torn the names whose row had no table yet.
LEMMA CrashKeeps ==
  ASSUME DataInv, StoreCrash, up' = FALSE
  PROVE  DataInv'
<1>1. /\ req' = [r \in Reqs |-> Blank] /\ schemas' = schemas /\ tables' = tables
      /\ torn' = torn \cup {req[r].name : r \in {x \in Reqs : At(x, "createTable")}}
  BY DEF StoreCrash
<1>2. \A r \in Reqs : req'[r] = Blank
  BY <1>1
<1>3. Typed'
  <2>1. \A r \in Reqs : At(r, "createTable") => req[r].name \in Tables
    BY DEF DataInv, Sound, Named, At
  <2>2. torn' \subseteq Tables
    BY <1>1, <2>1 DEF DataInv, Typed
  <2> QED
    BY <1>1, <2>2, BlankFacts DEF DataInv, Typed
<1>4. Alone'
  <2>1. up' \in BOOLEAN
    BY Zenon
  <2>2. \A r \in Reqs : req'[r].pc = "idle"
    BY <1>2, BlankFacts
  <2> QED
    BY <2>1, <2>2 DEF Alone, At
<1>5. NodeTold'
  BY <1>1 DEF DataInv, NodeTold
<1>6. Told'
  <2>1. ASSUME NEW n \in Tables \ torn'
        PROVE  ToldOf(n)'
    <3>1. Creators(n)' = {}
      BY <1>2, BlankFacts DEF Creators, At
    <3>2. Creators(n) = {} /\ n \notin torn
      BY <1>1, <2>1 DEF Creators
    <3>3. (schemas[n] = Nothing /\ tables[n] = Nothing) \/ Matches(schemas[n], tables[n])
      BY <2>1, <3>2 DEF DataInv, Told, ToldOf
    <3> QED
      BY <1>1, <3>1, <3>3 DEF ToldOf
  <2> QED
    BY <2>1 DEF Told
<1>7. \A n \in Tables : tables'[n] # Nothing => WellFormed(tables'[n])
  BY <1>1 DEF DataInv
<1>8. \A r \in Reqs : Sound(req'[r]) /\ Bound(req'[r]) /\ Fresh(req'[r], schemas')
  BY <1>2, BlankFacts DEF Fresh
<1> QED
  BY <1>3, <1>4, <1>5, <1>6, <1>7, <1>8 DEF DataInv

\* Nothing that the invariant speaks of is touched.
LEMMA StutterKeeps ==
  ASSUME DataInv, UNCHANGED <<schemas, tables, req, torn, up>>
  PROVE  DataInv'
<1>1. schemas' = schemas /\ tables' = tables /\ req' = req /\ torn' = torn /\ up' = up
  OBVIOUS
<1>2. Typed' /\ Alone' /\ NodeTold'
  BY <1>1 DEF DataInv, Typed, Alone, NodeTold, At
<1>3. \A n : Creators(n)' = Creators(n)
  BY <1>1 DEF Creators, At
<1>4. Told'
  BY <1>1, <1>3 DEF DataInv, Told, ToldOf
<1>5. \A r \in Reqs : Sound(req'[r]) /\ Bound(req'[r]) /\ Fresh(req'[r], schemas')
  BY <1>1 DEF DataInv
<1> QED
  BY <1>1, <1>2, <1>4, <1>5 DEF DataInv

\* What is stored under the keys stays values.
LEMMA KvKeeps ==
  ASSUME KvInv, NEW scope, KeyValueRequest(scope) \/ (\E r : DelAllUserData(r, scope)) \/ UNCHANGED kv
  PROVE  KvInv'
<1> DEFINE Held == Values \cup {Nothing, "null"}
<1>1. kv \in [Keys -> Held]
  BY DEF KvInv
<1>2. ASSUME NEW store \in [Keys -> Held], NEW k \in Keys, NEW v \in Held
      PROVE  [store EXCEPT ![k] = v] \in [Keys -> Held]
  OBVIOUS
<1>3. InScope(scope) \subseteq Keys
  BY DEF InScope
<1>4. CASE KeyValuePut(scope)
  <2>1. PICK k \in InScope(scope), v \in Values \cup {"null"} : kv' = Put(k, v)
    BY <1>4 DEF KeyValuePut
  <2> QED
    BY <1>1, <1>3, <2>1 DEF Put, KvInv
<1>5. CASE KeyValueDel(scope)
  BY <1>1, <1>3, <1>5 DEF KeyValueDel, KvInv
<1>6. CASE KeyValueBatch(scope)
  <2> DEFINE Op == [key : InScope(scope), type : {"put", "del"}, value : Values \cup {"null"}]
  <2>1. PICK a \in Op, b \in Op : kv' = BatchOp(BatchOp(kv, a), b)
    BY <1>6 DEF KeyValueBatch
  <2>2. ASSUME NEW store \in [Keys -> Held], NEW op \in Op
        PROVE  BatchOp(store, op) \in [Keys -> Held]
    BY <1>3 DEF BatchOp
  <2>3. kv' \in [Keys -> Held]
    <3> HIDE DEF Op, Held
    <3> QED
      BY <1>1, <2>1, <2>2
  <2> QED
    BY <2>3 DEF KvInv
<1>7. CASE \E r : DelAllUserData(r, scope)
  BY <1>1, <1>7 DEF DelAllUserData, KvInv
<1>8. CASE UNCHANGED kv
  BY <1>8 DEF KvInv
<1> QED
  BY <1>4, <1>5, <1>6, <1>7, <1>8 DEF KeyValueRequest

\* The invariant is inductive.
LEMMA Inductive == IInv /\ [Next]_tinyVars => IInv'
<1> SUFFICES ASSUME IInv, [Next]_tinyVars PROVE IInv'
  OBVIOUS
<1>1. DataInv /\ KvInv
  BY DEF IInv
<1>2. CASE \E r \in Reqs : TableRequest(r) /\ UNCHANGED <<kv, up, answer>>
  <2>1. PICK r \in Reqs : TableRequest(r) /\ kv' = kv /\ up' = up
    BY <1>2
  <2>2. DataInv'
    <3>1. CASE Boot(r)
      BY <1>1, <2>1, <3>1, BootKeeps
    <3>2. CASE \E s \in Scopes : Register(r, s) \/ DropTable(r, s) \/ DropAll(r, s) \/ AddRow(r, s)
      BY <1>1, <2>1, <3>2, RegisterKeeps, DropTableKeeps, DropAllKeeps, AddRowKeeps
    <3>3. CASE AddNodeRow(r)
      BY <1>1, <2>1, <3>3, AddNodeRowKeeps
    <3>4. CASE RedefineNext(r) \/ CreateNext(r) \/ Handle(r)
      BY <1>1, <2>1, <3>4, StoreNext
    <3> QED
      BY <2>1, <3>1, <3>2, <3>3, <3>4 DEF TableRequest
  <2>3. KvInv'
    BY <1>1, <2>1 DEF KvInv
  <2> QED
    BY <2>2, <2>3 DEF IInv
<1>3. CASE \E r \in Reqs : \/ StoreStep(r) /\ UNCHANGED <<kv, up, answer>>
                           \/ End(r) /\ up' = (up \/ Booted(r)) /\ UNCHANGED <<kv, answer>>
  <2>1. DataInv'
    BY <1>1, <1>3, StoreNext
  <2>2. KvInv'
    BY <1>1, <1>3 DEF KvInv
  <2> QED
    BY <2>1, <2>2 DEF IInv
<1>4. CASE \E r \in Reqs : \E s \in Scopes : DelAllUserData(r, s) /\ UNCHANGED <<up, answer>>
  <2>1. PICK r \in Reqs, s \in Scopes : DelAllUserData(r, s) /\ up' = up
    BY <1>4
  <2>2. DataInv'
    BY <1>1, <2>1, DelAllUserDataKeeps
  <2>3. KvInv'
    BY <1>1, <2>1, KvKeeps
  <2> QED
    BY <2>2, <2>3 DEF IInv
<1>5. CASE \E s \in Scopes : KeyValueRequest(s) /\ UNCHANGED <<schemas, tables, req, torn, up>>
  <2>1. DataInv'
    BY <1>1, <1>5, StutterKeeps
  <2>2. KvInv'
    BY <1>1, <1>5, KvKeeps
  <2> QED
    BY <2>1, <2>2 DEF IInv
<1>6. CASE StoreCrash /\ up' = FALSE /\ UNCHANGED <<kv, answer>>
  <2>1. DataInv'
    BY <1>1, <1>6, CrashKeeps
  <2>2. KvInv'
    BY <1>1, <1>6 DEF KvInv
  <2> QED
    BY <2>1, <2>2 DEF IInv
<1>7. CASE UNCHANGED tinyVars
  <2>1. UNCHANGED <<schemas, tables, req, torn, up>> /\ kv' = kv
    BY <1>7 DEF tinyVars
  <2>2. DataInv'
    BY <1>1, <2>1, StutterKeeps
  <2>3. KvInv'
    BY <1>1, <2>1 DEF KvInv
  <2> QED
    BY <2>2, <2>3 DEF IInv
<1> QED
  BY <1>2, <1>3, <1>4, <1>5, <1>6, <1>7 DEF Next

\* The invariant holds always, for every value of the constants.
LEMMA Invariance == Spec => []IInv
<1>1. Init => IInv
  BY InitData
<1>2. IInv /\ [Next]_tinyVars => IInv'
  BY Inductive
<1> QED
  BY <1>1, <1>2, PTL DEF Spec
-----------------------------------------------------------------------------
(* The theorems. *)

\* Every row of the schema table is a definition in its version, every table is made
\* of the columns of some definition, and its rows have a cell for each.
THEOREM DataTypeCorrect == Spec => []DataTypeOK
<1>1. IInv => DataTypeOK
  <2> SUFFICES ASSUME IInv PROVE DataTypeOK
    OBVIOUS
  <2>1. ASSUME NEW n \in Tables
        PROVE  schemas[n] = Nothing \/ schemas[n] \in SchemaRows
    BY DEF IInv, DataInv, Typed
  <2>2. ASSUME NEW n \in Tables, tables[n] # Nothing
        PROVE  /\ \E d \in Definitions : tables[n].columns = d.columns /\ tables[n].required = d.required
               /\ DOMAIN tables[n].rows \subseteq Ids
               /\ \A i \in DOMAIN tables[n].rows : Len(tables[n].rows[i]) = Len(tables[n].columns)
    <3>1. tables[n] \in TableStates /\ WellFormed(tables[n])
      BY <2>2 DEF IInv, DataInv, Typed
    <3> QED
      BY <3>1, RowsFacts DEF WellFormed
  <2>3. torn \subseteq Tables /\ up \in BOOLEAN /\ kv \in [Keys -> Values \cup {Nothing, "null"}]
    BY DEF IInv, DataInv, Typed, Alone, KvInv
  <2> QED
    BY <2>1, <2>2, <2>3 DEF DataTypeOK
<1> QED
  BY <1>1, Invariance, PTL

\* The schema table tells the truth of every name whose creation was not stopped halfway,
\* whatever requests create, drop and migrate at once.
THEOREM TablesAreDescribed == Spec => []SchemasDescribeTables
<1>1. IInv => SchemasDescribeTables
  BY DEF IInv, DataInv, Told, ToldOf, Matches, Creators, SchemasDescribeTables
<1> QED
  BY <1>1, Invariance, PTL

\* The steps that change a table.
LEMMA Changes ==
  ASSUME IInv, [Next]_tinyVars, NEW n \in Tables, tables'[n] # tables[n]
  PROVE  \E r \in Reqs : \/ CreateTable(r) \/ Swap(r) \/ InsertRow(r)
                         \/ Drop(r) \/ DropMany(r) \/ DropPrefixed(r)
BY DEF Next, TableRequest, StoreStep, Boot, Register, DropTable, DropAll, AddRow, AddNodeRow,
       RedefineNext, CreateNext, InsertSchema, Handle, Compare, End, Fail,
       DelAllUserData, StoreCrash, tinyVars

\* No release and no request but one that drops takes a row, or a value from the
\* column that it was written for.
THEOREM RowsAreKept == Spec => RowsKept
<1>1. ASSUME IInv, [Next]_tinyVars, NEW n \in Tables, tables[n] # Nothing, tables'[n] # Nothing,
             NEW i \in DOMAIN tables[n].rows
      PROVE  /\ i \in DOMAIN tables'[n].rows
             /\ \A c \in Shared(tables[n], tables'[n]) : Cell(tables[n], i, c) = Cell(tables'[n], i, c)
  <2> DEFINE t == tables[n]
  <2>1. DataInv
    BY <1>1 DEF IInv
  <2>2. CASE tables'[n] = t
    BY <1>1, <2>2 DEF Cell
  <2>3. ASSUME NEW r \in Reqs, CreateTable(r)
        PROVE  tables'[n] = t
    <3>1. req[r].name \in Tables
      <4>1. req[r].pc = "createTable"
        BY <2>3 DEF CreateTable, At
      <4> QED
        BY <2>1, <4>1 DEF DataInv, Sound, Named
    <3> QED
      BY <1>1, <2>1, <2>3, <3>1 DEF CreateTable, DataInv, Typed
  <2>4. ASSUME NEW r \in Reqs, Drop(r) \/ DropMany(r) \/ DropPrefixed(r)
        PROVE  tables'[n] = t
    <3>1. Fail(r) \/ \E names : Discard(r, names)
      BY <2>4 DEF Drop, DropMany, DropPrefixed
    <3> QED
      BY <1>1, <3>1 DEF Fail, Discard
  <2>5. ASSUME NEW r \in Reqs, InsertRow(r), tables'[n] # t
        PROVE  /\ i \in DOMAIN tables'[n].rows
               /\ \A c \in Shared(tables[n], tables'[n]) : Cell(tables[n], i, c) = Cell(tables'[n], i, c)
    <3>1. ~Fail(r)
      BY <2>5 DEF Fail
    <3>2. PICK m \in Tables, j \in Ids, row \in Seq(Words) :
            /\ m = req[r].name /\ tables[m] # Nothing /\ j \notin DOMAIN tables[m].rows
            /\ Len(row) = Len(tables[m].columns)
            /\ tables' = [tables EXCEPT ![m] = [tables[m] EXCEPT !.rows = WithRow(tables[m], j, row)]]
      BY <2>1, <2>5, <3>1, InsertRowFacts, Zenon
    <3>3. m = n /\ tables'[n] = [t EXCEPT !.rows = WithRow(t, j, row)]
      BY <2>1, <2>5, <3>2 DEF DataInv, Typed
    <3>4. t \in TableStates
      BY <1>1, <2>1 DEF DataInv, Typed
    <3>5. WithRow(t, j, row) \in RowSets
      <4>1. /\ DOMAIN t.rows \cup {j} \subseteq Ids
            /\ WithRow(t, j, row) \in [DOMAIN t.rows \cup {j} -> Seq(Words)]
        BY <3>4, RowsFacts DEF WithRow
      <4> QED
        BY <4>1, RowSet
    <3>6. tables'[n].rows = WithRow(t, j, row) /\ tables'[n].columns = t.columns
      BY <3>3, <3>4, <3>5, OtherRows
    <3>7. i \in DOMAIN tables'[n].rows /\ tables'[n].rows[i] = t.rows[i]
      BY <1>1, <3>2, <3>3, <3>6 DEF WithRow
    <3> QED
      BY <3>6, <3>7 DEF Cell
  <2>6. ASSUME NEW r \in Reqs, Swap(r), tables'[n] # t
        PROVE  /\ i \in DOMAIN tables'[n].rows
               /\ \A c \in Shared(tables[n], tables'[n]) : Cell(tables[n], i, c) = Cell(tables'[n], i, c)
    <3>1. ~Fail(r)
      BY <2>6 DEF Fail
    <3>2. PICK m \in Tables, d \in Definitions, v \in 1 .. MaxVersion :
            /\ tables[m] \in TableStates /\ WellFormed(tables[m])
            /\ tables' = [tables EXCEPT ![m] =
                 [Empty(d, v) EXCEPT !.rows = Copied(tables[m], tables[m].columns, d)]]
      BY <2>1, <2>6, <3>1, SwapFacts
    <3> DEFINE rows == Copied(t, t.columns, d)
    <3>3. /\ m = n /\ t \in TableStates /\ WellFormed(t)
          /\ tables'[n] = [Empty(d, v) EXCEPT !.rows = rows]
      BY <2>1, <2>6, <3>2 DEF DataInv, Typed
    <3>4. tables'[n].rows = rows /\ tables'[n].columns = d.columns
      <4>1. /\ Empty(d, v) = [columns |-> d.columns, required |-> d.required,
                              indexes |-> Indexes(d, v), rows |-> [x \in {} |-> <<>>]]
        BY DEF Empty
      <4> HIDE DEF rows
      <4> QED
        BY <3>3, <4>1
    <3>5. DOMAIN rows = DOMAIN t.rows /\ rows[i] = Filled(t.rows[i], t.columns, d)
      BY <1>1 DEF Copied
    <3>6. t.columns \in Seq(Words) /\ t.rows[i] \in Seq(Words) /\ Len(t.rows[i]) = Len(t.columns)
      BY <1>1, <3>3, RowsFacts DEF WellFormed
    <3>7. ASSUME NEW c \in Shared(t, tables'[n])
          PROVE  Cell(t, i, c) = Cell(tables'[n], i, c)
      <4>1. (\E k \in DOMAIN t.columns : t.columns[k] = c) /\ (\E k \in DOMAIN d.columns : d.columns[k] = c)
        BY <3>4 DEF Shared
      <4>2. Filled(t.rows[i], t.columns, d)[Place(d.columns, c)] = t.rows[i][Place(t.columns, c)]
        BY <3>6, <4>1, FilledCell
      <4>3. Cell(tables'[n], i, c) = tables'[n].rows[i][Place(tables'[n].columns, c)]
        BY DEF Cell, Place
      <4>4. Cell(t, i, c) = t.rows[i][Place(t.columns, c)]
        BY DEF Cell, Place
      <4> HIDE DEF rows, t
      <4> QED
        BY <3>4, <3>5, <4>2, <4>3, <4>4, Zenon
    <3> QED
      BY <1>1, <3>4, <3>5, <3>7
  <2> QED
    BY <1>1, <2>2, <2>3, <2>4, <2>5, <2>6, Changes
<1>2. IInv /\ [Next]_tinyVars =>
        [\A n \in Tables : tables[n] # Nothing /\ tables'[n] # Nothing =>
           \A i \in DOMAIN tables[n].rows :
             /\ i \in DOMAIN tables'[n].rows
             /\ \A c \in Shared(tables[n], tables'[n]) : Cell(tables[n], i, c) = Cell(tables'[n], i, c)]_tinyVars
  BY <1>1
<1> QED
  BY <1>2, Invariance, PTL DEF Spec, RowsKept

\* Whose a table is that a request may touch.
Allowed(q, n) ==
  CASE q.op = "delAll"              -> n[1] = User
    [] q.op \in {"boot", "addNode"} -> n \in NodeNames
    [] OTHER -> Begins(Join(q.scope, <<>>), n)

\* What a request names is what it may touch.
LEMMA AllowedFacts ==
  ASSUME NEW q, NEW n,
         q.op = "delAll" => n[1] = User,
         q.op \in {"boot", "addNode"} => n \in NodeNames,
         q.op \notin {"boot", "addNode", "delAll"} => Own(q.scope, n)
  PROVE  Allowed(q, n)
<1>1. CASE q.op = "delAll"
  BY <1>1 DEF Allowed
<1>2. CASE q.op \in {"boot", "addNode"}
  BY <1>2 DEF Allowed
<1>3. CASE q.op \notin {"boot", "addNode", "delAll"}
  BY <1>3 DEF Allowed, Own
<1> QED
  BY <1>1, <1>2, <1>3

\* A request at a step with a name may touch the table of that name.
LEMMA NamedAllowed ==
  ASSUME DataInv, NEW r \in Reqs, req[r].pc \in Named
  PROVE  Allowed(req[r], req[r].name)
<1> DEFINE q == req[r]
<1>1. Bound(q) /\ q.pc \in Named /\ q.pc # "idle" /\ q.pc # "dropPrefixed"
  BY DEF DataInv, Named
<1> HIDE DEF q
<1>2. /\ q.op # "delAll" /\ (q.op \in {"boot", "addNode"} => q.name \in NodeNames)
      /\ (q.op \notin {"boot", "addNode", "delAll"} => Own(q.scope, q.name))
  BY <1>1 DEF Bound
<1>3. Allowed(q, q.name)
  BY <1>2, AllowedFacts
<1> QED
  BY <1>3 DEF q

\* Whatever changes a table is a request whose user and scope its name begins with, one
\* that deletes all of the same user's data, or the node at a table of its own.
THEOREM TablesAreOwn == Spec => OwnTablesOnly
<1>1. ASSUME IInv, [Next]_tinyVars, NEW n \in Tables, tables'[n] # tables[n]
      PROVE  \E r \in Reqs : req'[r] # req[r] /\ Allowed(req[r], n)
  <2>1. DataInv
    BY <1>1 DEF IInv
  <2>2. \A r \in Reqs : req[r].scope \in Scopes
    BY <2>1 DEF DataInv, Typed, Request
  <2>3. ASSUME NEW r \in Reqs, CreateTable(r)
        PROVE  req'[r] # req[r] /\ Allowed(req[r], n)
    <3> DEFINE q == req[r]
    <3>1. q.pc = "createTable"
      BY <2>3 DEF CreateTable, At
    <3>2. q.name \in Tables
      BY <2>1, <3>1 DEF DataInv, Sound, Named
    <3>3. tables' = [tables EXCEPT ![q.name] = Empty(q.new, 0)] /\ Finish(r, q)
      BY <1>1, <2>3 DEF CreateTable
    <3>4. n = q.name
      BY <1>1, <2>1, <3>2, <3>3 DEF DataInv, Typed
    <3>5. req'[r].pc = "next"
      BY <2>1, <3>3 DEF Finish, Go, DataInv, Typed, Request
    <3>6. Allowed(q, q.name)
      BY <2>1, <3>1, NamedAllowed DEF Named
    <3> QED
      BY <3>1, <3>4, <3>5, <3>6
  <2>4. ASSUME NEW r \in Reqs, Swap(r)
        PROVE  req'[r] # req[r] /\ Allowed(req[r], n)
    <3>1. ~Fail(r) /\ req[r].pc = "swap"
      BY <1>1, <2>4 DEF Fail, Swap, At
    <3>2. \E m \in NodeNames, d \in Definitions, v \in 1 .. MaxVersion :
            /\ m = req[r].name
            /\ req' = [req EXCEPT ![r] = [req[r] EXCEPT !.pc = "next"]]
            /\ tables' = [tables EXCEPT ![m] =
                 [Empty(d, v) EXCEPT !.rows = Copied(tables[m], tables[m].columns, d)]]
      BY <2>1, <2>4, <3>1, SwapFacts
    <3>3. n = req[r].name
      BY <1>1, <2>1, <3>2 DEF DataInv, Typed
    <3>4. req'[r].pc = "next"
      BY <2>1, <3>2 DEF DataInv, Typed, Request
    <3>5. Allowed(req[r], req[r].name)
      BY <2>1, <3>1, NamedAllowed DEF Named
    <3> QED
      BY <3>1, <3>3, <3>4, <3>5
  <2>5. ASSUME NEW r \in Reqs, InsertRow(r)
        PROVE  req'[r] # req[r] /\ Allowed(req[r], n)
    <3>1. ~Fail(r) /\ req[r].pc = "insert"
      BY <1>1, <2>5 DEF Fail, InsertRow, At
    <3>2. /\ Go(r, Blank)
          /\ \E m \in Tables, i \in Ids, row \in Seq(Words) :
               /\ m = req[r].name
               /\ tables' = [tables EXCEPT ![m] = [tables[m] EXCEPT !.rows = WithRow(tables[m], i, row)]]
      <4>1. req' = [req EXCEPT ![r] = Blank]
        BY <2>1, <2>5, <3>1, InsertRowFacts, Zenon
      <4>2. PICK m \in Tables, i \in Ids, row \in Seq(Words) :
              /\ m = req[r].name /\ tables[m] # Nothing /\ i \notin DOMAIN tables[m].rows
              /\ Len(row) = Len(tables[m].columns)
              /\ tables' = [tables EXCEPT ![m] = [tables[m] EXCEPT !.rows = WithRow(tables[m], i, row)]]
        BY <2>1, <2>5, <3>1, InsertRowFacts, Zenon
      <4> QED
        BY <4>1, <4>2, Zenon DEF Go
    <3>3. n = req[r].name
      BY <1>1, <2>1, <3>2 DEF DataInv, Typed
    <3>4. req'[r].pc = "idle"
      BY <2>1, <3>2, BlankFacts DEF Go, DataInv, Typed
    <3>5. Allowed(req[r], req[r].name)
      BY <2>1, <3>1, NamedAllowed DEF Named
    <3> QED
      BY <3>1, <3>3, <3>4, <3>5
  <2>6. ASSUME NEW r \in Reqs, NEW names, Discard(r, names), req[r].pc # "idle"
        PROVE  req'[r] # req[r] /\ n \in names
    <3>1. tables' = [m \in Tables |-> IF m \in names THEN Nothing ELSE tables[m]] /\ Go(r, Blank)
      BY <1>1, <2>6 DEF Discard, Fail
    <3>2. n \in names
      BY <1>1, <3>1
    <3>3. req'[r].pc = "idle"
      BY <2>1, <3>1, BlankFacts DEF Go, DataInv, Typed
    <3> QED
      BY <2>6, <3>2, <3>3
  <2>7. ASSUME NEW r \in Reqs, Drop(r)
        PROVE  req'[r] # req[r] /\ Allowed(req[r], n)
    <3>1. req[r].pc = "drop" /\ Discard(r, {req[r].name})
      BY <1>1, <2>7 DEF Drop, Fail, At
    <3>2. Allowed(req[r], req[r].name)
      BY <2>1, <3>1, NamedAllowed DEF Named
    <3> QED
      BY <2>6, <3>1, <3>2
  <2>8. ASSUME NEW r \in Reqs, DropMany(r)
        PROVE  req'[r] # req[r] /\ Allowed(req[r], n)
    <3>1. req[r].pc = "dropMany" /\ Discard(r, req[r].names \cap Tables)
      BY <1>1, <2>8 DEF DropMany, Fail, At
    <3>2. req'[r] # req[r] /\ n \in req[r].names
      BY <2>6, <3>1
    <3>3. Bound(req[r])
      BY <2>1 DEF DataInv
    <3>4. req[r].op \notin {"boot", "addNode", "delAll"} /\ Own(req[r].scope, n)
      BY <3>1, <3>2, <3>3 DEF Bound
    <3>5. Allowed(req[r], n)
      BY <3>4, AllowedFacts
    <3> QED
      BY <3>2, <3>5
  <2>9. ASSUME NEW r \in Reqs, DropPrefixed(r)
        PROVE  req'[r] # req[r] /\ Allowed(req[r], n)
    <3>1. req[r].pc = "dropPrefixed" /\ Discard(r, {m \in Tables : schemas[m] # Nothing /\ Like(req[r].name, m)})
      BY <2>9 DEF DropPrefixed, At
    <3>2. req'[r] # req[r] /\ Like(req[r].name, n)
      BY <2>6, <3>1
    <3>3. Bound(req[r])
      BY <2>1 DEF DataInv
    <3>4. req[r].op = "delAll" /\ req[r].name = Join(req[r].scope, <<>>)
      BY <3>1, <3>3 DEF Bound
    <3>5. n[1] = User
      BY <2>2, <3>2, <3>4, LikeFirst
    <3>6. Allowed(req[r], n)
      BY <3>4, <3>5, AllowedFacts
    <3> QED
      BY <3>2, <3>6
  <2> QED
    BY <1>1, <2>3, <2>4, <2>5, <2>7, <2>8, <2>9, Changes
<1>2. IInv /\ [Next]_tinyVars =>
        [\A n \in Tables : tables'[n] # tables[n] =>
           \E r \in Reqs :
             /\ req'[r] # req[r]
             /\ CASE req[r].op = "delAll"               -> n[1] = User
                  [] req[r].op \in {"boot", "addNode"}  -> n \in NodeNames
                  [] OTHER -> Begins(Join(req[r].scope, <<>>), n)]_tinyVars
  BY <1>1 DEF Allowed
<1> QED
  BY <1>2, Invariance, PTL DEF Spec, OwnTablesOnly

\* The absence of a word.  (An operator, because a literal in a hypothesis keeps the
\* solver from its arithmetic.)
None(word) == word = ""

\* The first words of a key in a scope: the user's id and, of an app, the app's name.
LEMMA RootFacts ==
  ASSUME NEW word \in Words
  PROVE  LET root == <<User>> \o Given(word) IN
         /\ Len(root) \in Nat /\ DOMAIN root = 1 .. Len(root)
         /\ root[1] = User /\ \A i \in DOMAIN root : root[i] \in {User, word}
         /\ ~None(word) => Len(root) = 2 /\ root[2] = word
<1>1. User \in Words
  BY TinyDbAssumption
<1>2. CASE None(word)
  <2>1. <<User>> \o Given(word) = <<User>>
    <3>1. Given(word) = <<>>
      BY <1>2 DEF None, Given
    <3> QED
      BY <1>1, <3>1, ConcatEmptySeq
  <2> QED
    BY <1>1, <1>2, <2>1
<1>3. CASE ~None(word)
  <2> DEFINE root == <<User>> \o <<word>>
  <2>1. <<User>> \o Given(word) = root
    BY <1>3, Zenon DEF None, Given
  <2>2. /\ <<User>> \in Seq(Words) /\ <<word>> \in Seq(Words) /\ Len(<<User>>) = 1 /\ Len(<<word>>) = 1
        /\ <<User>>[1] = User /\ <<word>>[1] = word
    BY <1>1
  <2>3. /\ root \in Seq(Words) /\ Len(root) = 2
        /\ \A i \in 1 .. 2 : root[i] = IF i <= 1 THEN <<User>>[i] ELSE <<word>>[i - 1]
    BY <2>2, ConcatProperties
  <2> HIDE DEF root
  <2>4. DOMAIN root = 1 .. 2 /\ root[1] = User /\ root[2] = word
    BY <2>2, <2>3, LenProperties
  <2>5. \A i \in DOMAIN root : root[i] \in {User, word}
    <3>1. \A i \in 1 .. 2 : i = 1 \/ i = 2
      OBVIOUS
    <3> QED
      BY <2>4, <3>1
  <2>6. /\ Len(root) \in Nat /\ DOMAIN root = 1 .. Len(root) /\ root[1] = User
        /\ \A i \in DOMAIN root : root[i] \in {User, word}
        /\ Len(root) = 2 /\ root[2] = word
    BY <2>3, <2>4, <2>5
  <2> QED
    BY <2>1, <2>6, Zenon
<1> QED
  BY <1>2, <1>3

\* A search whose scope reads as it is finds what is in the scope and, of an app, only
\* what is under the app's name up to case.
LEMMA FoundFacts ==
  ASSUME NEW scope \in Scopes, Escaped[scope] = scope
  PROVE  /\ InScope(scope) \subseteq Found(scope)
         /\ \A k \in Found(scope) : ~None(scope) => <<scope, k[2]>> \in Folds
<1> DEFINE root == KeyRoot(scope)
<1>1. scope \in Words
  BY ConstantFacts
<1>2. /\ Len(root) \in Nat /\ DOMAIN root = 1 .. Len(root)
      /\ \A i \in DOMAIN root : root[i] \in {User, scope}
      /\ (~None(scope) => Len(root) = 2 /\ root[2] = scope)
  BY <1>1, RootFacts DEF KeyRoot
<1>3. root = <<User>> \o Given(Escaped[scope])
  BY DEF KeyRoot
<1>4. Found(scope) = {k \in Keys : Len(k) > Len(root) /\ \A i \in DOMAIN root : <<root[i], k[i]>> \in Folds}
  BY <1>3 DEF Found
<1>5. InScope(scope) = {k \in Keys : Begins(root, k) /\ Len(k) > Len(root)}
  BY DEF InScope
<1> HIDE DEF root
<1>6. ASSUME NEW k \in InScope(scope)
      PROVE  k \in Found(scope)
  <2>1. k \in Keys /\ Len(k) > Len(root) /\ \A i \in DOMAIN root : root[i] = k[i]
    BY <1>5 DEF Begins
  <2>2. ASSUME NEW i \in DOMAIN root
        PROVE  <<root[i], k[i]>> \in Folds
    <3>1. root[i] \in Scopes \cup {User} /\ k[i] = root[i]
      BY <1>2, <2>1
    <3> QED
      BY <3>1, KeysAssumption
  <2> QED
    BY <1>4, <2>1, <2>2
<1>7. ASSUME NEW k \in Found(scope), ~None(scope)
      PROVE  <<scope, k[2]>> \in Folds
  <2>1. 2 \in DOMAIN root /\ root[2] = scope
    BY <1>2, <1>7
  <2> QED
    BY <1>4, <2>1
<1> QED
  BY <1>6, <1>7

\* A search finds everything stored under the scope it is for, and nothing but what is
\* under a scope of that name up to case; if the name holds no character that the search
\* replaces.
THEOREM SearchesFindOwn == Spec => SearchFindsOwn
<1>1. ASSUME [Next]_tinyVars, answer' # answer, Escaped[answer'.scope] = answer'.scope
      PROVE  /\ Stored(answer'.scope) \subseteq answer'.keys
             /\ \A k \in answer'.keys :
                  kv[k] # Nothing /\ (answer'.scope # "" => <<answer'.scope, k[2]>> \in Folds)
  <2>1. PICK s \in Scopes : KeyValueSearch(s)
    BY <1>1 DEF Next, KeyValueRequest, tinyVars
  <2>2. answer'.scope = s /\ answer'.keys = {k \in Found(s) : kv[k] # Nothing}
    BY <2>1 DEF KeyValueSearch
  <2>3. InScope(s) \subseteq Found(s) /\ \A k \in Found(s) : s # "" => <<s, k[2]>> \in Folds
    BY <1>1, <2>2, FoundFacts, Zenon DEF None
  <2>4. Stored(s) = {k \in InScope(s) : kv[k] # Nothing}
    BY DEF Stored
  <2>5. Stored(s) \subseteq answer'.keys
    BY <2>2, <2>3, <2>4
  <2>6. \A k \in answer'.keys : kv[k] # Nothing /\ (s # "" => <<s, k[2]>> \in Folds)
    BY <2>2, <2>3, Zenon
  <2> QED
    BY <2>2, <2>5, <2>6, Zenon
<1>2. [Next]_tinyVars =>
        [answer' # answer /\ Escaped[answer'.scope] = answer'.scope =>
           /\ Stored(answer'.scope) \subseteq answer'.keys
           /\ \A k \in answer'.keys :
                kv[k] # Nothing /\ (answer'.scope # "" => <<answer'.scope, k[2]>> \in Folds)]_tinyVars
  BY <1>1, Zenon
<1> QED
  BY <1>2, PTL DEF Spec, SearchFindsOwn
=============================================================================
