---------------------------- MODULE RequestsProofs ----------------------------
(***************************************************************************)
(* Theorems about Requests, for any requests, users, rows and handlers:    *)
(* sessions, files, keys and searches are used as they may be, and errors  *)
(* are answered by the innermost guard.                                    *)
(*                                                                         *)
(* The invariant says what the handlers passed so far have seen to; that   *)
(* they have been passed whenever a handler relies on them comes from the  *)
(* chain, which RouteProofs shows to be in the right order.                *)
(***************************************************************************)
EXTENDS RouteProofs
-----------------------------------------------------------------------------
(* Paths, and what is granted of them. *)

\* Inside: a path is in a folder when it is longer and agrees with it all along.
LEMMA InsideParts ==
  ASSUME NEW S, NEW p \in Seq(S), NEW f \in Seq(S)
  PROVE  Inside(p, f) <=> (Len(p) > Len(f) /\ \A i \in 1 .. Len(f) : p[i] = f[i])
<1>1. Len(p) \in Nat /\ Len(f) \in Nat
  OBVIOUS
<1>2. CASE ~(Len(p) > Len(f))
  BY <1>2 DEF Inside
<1>3. CASE Len(p) > Len(f)
  <2> DEFINE s == SubSeq(p, 1, Len(f))
  <2>1. s \in Seq(S) /\ Len(s) = Len(f) /\ \A i \in 1 .. Len(f) : s[i] = p[i]
    BY <1>1, <1>3
  <2>2. Inside(p, f) <=> s = f
    BY <1>3 DEF Inside
  <2> HIDE DEF s
  <2>3. s = f <=> \A i \in 1 .. Len(f) : s[i] = f[i]
    BY <2>1
  <2> QED
    BY <1>3, <2>1, <2>2, <2>3
<1> QED
  BY <1>2, <1>3

\* A path in a folder is in the folder that its folder is in.
LEMMA InsideFolder ==
  ASSUME NEW S, NEW p \in Seq(S), NEW f \in Seq(S), NEW g \in Seq(S), Inside(p, f),
         Len(g) <= Len(f), \A i \in 1 .. Len(g) : g[i] = f[i]
  PROVE  Inside(p, g)
<1>1. Len(p) > Len(f) /\ \A i \in 1 .. Len(f) : p[i] = f[i]
  BY InsideParts
<1>2. Len(p) \in Nat /\ Len(f) \in Nat /\ Len(g) \in Nat
  OBVIOUS
<1>3. Len(p) > Len(g) /\ \A i \in 1 .. Len(g) : p[i] = g[i]
  BY <1>1, <1>2
<1> QED
  BY <1>3, InsideParts

\* A function on the first numbers is a sequence.
LEMMA SequenceOf ==
  ASSUME NEW T, NEW n \in Nat, NEW s, s = [i \in 1 .. n |-> s[i]], \A i \in 1 .. n : s[i] \in T
  PROVE  s \in Seq(T) /\ Len(s) = n /\ DOMAIN s = 1 .. n
  OBVIOUS

\* Cleaning leaves no dots, and the last name of a path, so that something is left.
LEMMA CleanPathType ==
  ASSUME NEW S, NEW path \in Seq(S), path # <<>>
  PROVE  CleanPath(path) \in Seq((S \ Dots) \cup {""}) /\ CleanPath(path) # <<>>
<1> DEFINE cut == [i \in DOMAIN path |-> IF path[i] \in Dots THEN "" ELSE path[i]]
           places == {i \in DOMAIN path : ~Squeezed(cut, i)}
           n == Len(path)
           clean == Pick(cut, places)
<1>1. n \in Nat \ {0} /\ DOMAIN path = 1 .. n
  OBVIOUS
<1>2. CleanPath(path) = clean
  BY DEF CleanPath
<1>3. cut \in Seq((S \ Dots) \cup {""}) /\ Len(cut) = n /\ DOMAIN cut = 1 .. n
  <2> DEFINE T == (S \ Dots) \cup {""}
  <2>1. ASSUME NEW i \in 1 .. n PROVE cut[i] \in T
    <3>1. path[i] \in S
      BY <1>1
    <3>2. cut[i] = IF path[i] \in Dots THEN "" ELSE path[i]
      BY <1>1
    <3> HIDE DEF cut
    <3> QED
      BY <3>1, <3>2
  <2>2. cut = [i \in 1 .. n |-> cut[i]]
    BY <1>1
  <2> HIDE DEF cut, n, T
  <2>3. cut \in Seq(T) /\ Len(cut) = n /\ DOMAIN cut = 1 .. n
    BY <1>1, <2>1, <2>2, SequenceOf
  <2> QED
    BY <2>3 DEF T
<1>4. n \in places
  <2>1. n \in DOMAIN path /\ ~(n < n)
    BY <1>1
  <2> HIDE DEF cut, n
  <2> QED
    BY <1>3, <2>1 DEF Squeezed
<1>5. places \in SUBSET DOMAIN cut /\ places \in SUBSET (1 .. n)
  BY <1>1, <1>3
<1> HIDE DEF cut, places, n
<1>6. Cardinality(places) \in Nat /\ Cardinality(places) # 0
  BY <1>1, <1>4, <1>5, PlacesFinite, FS_EmptySet
<1>7. clean \in Seq((S \ Dots) \cup {""}) /\ Len(clean) = Cardinality(places)
  BY <1>3, <1>5, PickType
<1> HIDE DEF clean
<1>8. clean # <<>>
  BY <1>6, <1>7
<1> QED
  BY <1>2, <1>7, <1>8

\* The strings, and the names that the code writes out (that they are strings is unknown
\* to the provers).
Spelt == STRING \cup {"", "~", "public", "private", "root", "collections", "appdata", "secure"}

\* The path that makePath makes is in the user's folder.
LEMMA MadePath ==
  ASSUME NEW S, NEW user \in S, NEW root, NEW context \in S, NEW identifier \in S, NEW path \in Seq(S), path # <<>>,
         {"public", "private", "appdata", "secure", "collections"} \subseteq S
  PROVE  MakePath(user, root, context, identifier, path) \in Seq(S)
         /\ Inside(MakePath(user, root, context, identifier, path), <<user>>)
<1> DEFINE public == IF root = "public" THEN <<"public">> ELSE <<>>
           folder == IF root = "root" THEN <<>>
                     ELSE CASE context = "secure"      -> <<"appdata", "secure", identifier>>
                            [] context = "user"        -> IF root = "private" THEN <<"private">> ELSE <<>>
                            [] context = "collections" -> <<"collections">>
                            [] OTHER                   -> <<"appdata", context>>
           base == <<user>>
           made == base \o public \o folder \o path
<1>1. MakePath(user, root, context, identifier, path) = made
  BY DEF MakePath
<1>2. public \in Seq(S) /\ base \in Seq(S) /\ Len(base) = 1 /\ base[1] = user
  OBVIOUS
<1>3. folder \in Seq(S)
  <2>1. /\ <<>> \in Seq(S) /\ <<"appdata", "secure", identifier>> \in Seq(S) /\ <<"private">> \in Seq(S)
        /\ <<"collections">> \in Seq(S) /\ <<"appdata", context>> \in Seq(S)
    OBVIOUS
  <2> QED
    BY <2>1
<1> HIDE DEF public, folder, base
<1>4. /\ base \o public \in Seq(S) /\ Len(base \o public) >= 1 /\ (base \o public)[1] = user
  <2>1. ASSUME NEW s \in Seq(S), NEW t \in Seq(S), Len(s) >= 1
        PROVE  s \o t \in Seq(S) /\ Len(s \o t) >= 1 /\ (s \o t)[1] = s[1]
    BY <2>1
  <2>2. Len(base) >= 1
    BY <1>2
  <2>3. base \o public \in Seq(S) /\ Len(base \o public) >= 1 /\ (base \o public)[1] = base[1]
    BY <1>2, <2>1, <2>2, Zenon
  <2> QED
    BY <1>2, <2>3
<1> DEFINE b1 == base \o public
<1> HIDE DEF b1
<1>5. b1 \o folder \in Seq(S) /\ Len(b1 \o folder) >= 1 /\ (b1 \o folder)[1] = user
  BY <1>3, <1>4 DEF b1
<1> DEFINE b2 == b1 \o folder
<1> HIDE DEF b2
<1>6. b2 \o path \in Seq(S) /\ Len(b2 \o path) > 1 /\ (b2 \o path)[1] = user
  <2>1. b2 \in Seq(S) /\ Len(b2) \in Nat /\ Len(b2) >= 1 /\ b2[1] = user
    BY <1>5 DEF b2
  <2>2. Len(path) \in Nat /\ Len(path) # 0
    OBVIOUS
  <2> QED
    BY <2>1, <2>2
<1>7. made = b2 \o path
  BY DEF b1, b2
<1> HIDE DEF made
<1>8. Inside(made, base)
  <2>1. \A i \in 1 .. 1 : i = 1
    OBVIOUS
  <2> QED
    BY <1>2, <1>6, <1>7, <2>1, InsideParts
<1> QED
  BY <1>1, <1>6, <1>7, <1>8 DEF base

\* What a session of an app reaches of its user's files.
AppsPart(path, session, app) ==
  \/ Inside(path, <<session.user, "appdata", app>>)
  \/ Inside(path, <<session.user, "public", "appdata", app>>)
  \/ \E c \in session.collections : Inside(path, <<session.user, "collections", c, app>>)
MayWrite(path, owner, session, app) ==
  /\ session # NoSession /\ session.user = owner /\ Inside(path, <<owner>>)
  /\ session.context = "user" \/ AppsPart(path, session, app)
MayRead(path, owner, session, app) ==
  /\ Inside(path, <<owner>>)
  /\ \/ Inside(path, <<owner, "public">>)
     \/ /\ session # NoSession /\ session.user = owner
        /\ \/ session.context = "user" \/ AppsPart(path, session, app)
           \/ \E c \in session.collections : Inside(path, <<owner, "collections", c>>)

\* What is in a folder below another's names is in the folder of the first of them.
Joins(U, f, g, h) ==
  /\ h \in Seq(U) /\ Len(h) = Len(f) + Len(g)
  /\ \A i \in 1 .. Len(f) : h[i] = f[i]
  /\ \A i \in 1 .. Len(g) : h[Len(f) + i] = g[i]

\* Two sequences, one behind the other.
LEMMA Joined ==
  ASSUME NEW U, NEW f \in Seq(U), NEW g \in Seq(U)
  PROVE  Joins(U, f, g, f \o g)
<1>1. Len(f) \in Nat /\ Len(g) \in Nat
  OBVIOUS
<1>2. f \o g \in Seq(U) /\ Len(f \o g) = Len(f) + Len(g)
  OBVIOUS
<1>3. \A i \in 1 .. Len(f) : (f \o g)[i] = f[i]
  BY <1>1
<1>4. ASSUME NEW i \in 1 .. Len(g) PROVE (f \o g)[Len(f) + i] = g[i]
  BY <1>1
<1> DEFINE h == f \o g
<1> HIDE DEF h
<1>5. Joins(U, f, g, h)
  BY <1>2, <1>3, <1>4 DEF Joins, h
<1> QED
  BY <1>5 DEF h

\* A path below a folder and more names is below the folder and the first of them.
LEMMA FolderBelow ==
  ASSUME NEW U, NEW f \in Seq(U), NEW more \in Seq(U), NEW path \in Seq(U), NEW app \in U,
         Len(more) >= 1, more[1] = app, Inside(path, f \o more)
  PROVE  Inside(path, f \o <<app>>)
<1> DEFINE one == <<app>>
           g == f \o one
           h == f \o more
<1>1. one \in Seq(U) /\ Len(one) = 1 /\ one[1] = app /\ Len(f) \in Nat /\ Len(more) \in Nat
  OBVIOUS
<1> HIDE DEF one
<1>2. Joins(U, f, one, g) /\ Joins(U, f, more, h)
  BY <1>1, Joined
<1>4. Inside(path, h)
  OBVIOUS
<1> HIDE DEF g, h
<1>3. g \in Seq(U) /\ h \in Seq(U) /\ Len(g) = Len(f) + 1 /\ Len(h) = Len(f) + Len(more)
  BY <1>1, <1>2 DEF Joins
<1>5. g[Len(f) + 1] = app /\ h[Len(f) + 1] = app
  BY <1>1, <1>2 DEF Joins
<1>6. \A i \in 1 .. Len(f) + 1 : i \in 1 .. Len(f) \/ i = Len(f) + 1
  BY <1>1
<1>7. Len(g) = Len(f) + 1 /\ Len(g) <= Len(h)
  BY <1>1, <1>3
<1>8. \A i \in 1 .. Len(g) : g[i] = h[i]
  BY <1>2, <1>3, <1>5, <1>6, <1>7 DEF Joins
<1>9. Inside(path, g)
  BY <1>2, <1>3, <1>4, <1>7, <1>8, InsideFolder
<1> QED
  BY <1>9 DEF g, one

\* Two sequences with the same elements are one.
LEMMA SameSequence ==
  ASSUME NEW U, NEW f \in Seq(U), NEW g \in Seq(U), Len(f) = Len(g), \A i \in 1 .. Len(f) : f[i] = g[i]
  PROVE  f = g
  OBVIOUS

\* A folder of three names, one behind the other.
LEMMA ThreeNames ==
  ASSUME NEW U, NEW a \in U, NEW b \in U, NEW c \in U
  PROVE  <<a>> \o <<b>> \in Seq(U) /\ <<a>> \o <<b>> \o <<c>> = <<a, b, c>>
<1> DEFINE f == <<a>> \o <<b>>
           g == f \o <<c>>
           h == <<a, b, c>>
<1>1. f \in Seq(U) /\ Len(f) = 2 /\ f[1] = a /\ f[2] = b
  OBVIOUS
<1> HIDE DEF f
<1>2. g \in Seq(U) /\ Len(g) = 3 /\ g[1] = a /\ g[2] = b /\ g[3] = c
  <2> DEFINE one == <<c>>
  <2>1. one \in Seq(U) /\ Len(one) = 1 /\ one[1] = c
    OBVIOUS
  <2> HIDE DEF one
  <2>2. Joins(U, f, one, g)
    BY <1>1, <2>1, Joined DEF one
  <2> HIDE DEF g
  <2> QED
    BY <1>1, <2>1, <2>2 DEF Joins
<1>3. h \in Seq(U) /\ Len(h) = 3 /\ h[1] = a /\ h[2] = b /\ h[3] = c
  OBVIOUS
<1>4. \A i \in 1 .. 3 : i = 1 \/ i = 2 \/ i = 3
  OBVIOUS
<1> HIDE DEF g, h
<1>5. g = h
  BY <1>2, <1>3, <1>4, SameSequence
<1> QED
  BY <1>1, <1>5 DEF f, g, h

\* A folder of four names, by the first, the two after it and the last.
LEMMA FourNames ==
  ASSUME NEW U, NEW a \in U, NEW b \in U, NEW c \in U, NEW d \in U
  PROVE  <<a>> \o <<b, c>> \in Seq(U) /\ <<a>> \o <<b, c>> \o <<d>> = <<a, b, c, d>>
<1> DEFINE f == <<a>> \o <<b, c>>
           g == f \o <<d>>
           h == <<a, b, c, d>>
<1>1. f \in Seq(U) /\ Len(f) = 3 /\ f[1] = a /\ f[2] = b /\ f[3] = c
  OBVIOUS
<1> HIDE DEF f
<1>2. g \in Seq(U) /\ Len(g) = 4 /\ g[1] = a /\ g[2] = b /\ g[3] = c /\ g[4] = d
  <2> DEFINE one == <<d>>
  <2>1. one \in Seq(U) /\ Len(one) = 1 /\ one[1] = d
    OBVIOUS
  <2> HIDE DEF one
  <2>2. Joins(U, f, one, g)
    BY <1>1, <2>1, Joined DEF one
  <2> HIDE DEF g
  <2> QED
    BY <1>1, <2>1, <2>2 DEF Joins
<1>3. h \in Seq(U) /\ Len(h) = 4 /\ h[1] = a /\ h[2] = b /\ h[3] = c /\ h[4] = d
  OBVIOUS
<1>4. \A i \in 1 .. 4 : i = 1 \/ i = 2 \/ i = 3 \/ i = 4
  OBVIOUS
<1> HIDE DEF g, h
<1>5. g = h
  BY <1>2, <1>3, <1>4, SameSequence
<1> QED
  BY <1>1, <1>5 DEF f, g, h

\* validatePath grants no more than MayRead and MayWrite say.
LEMMA PathsGranted ==
  ASSUME NEW S, NEW p, p.path \in Seq(S), p.path # <<>>, NEW userId, NEW session, NEW app,
         p.context # "~" => app = p.context,
         p.context = "~" /\ session # NoSession => app = session.context
  PROVE  LET v == ValidatePath(p, userId, session) IN
         /\ v # No => MayRead(v.path, userId, session, app)
         /\ v.perm = "write" => MayWrite(v.path, userId, session, app)
<1> DEFINE foreign    == session = NoSession \/ session.user # userId
           context    == IF p.context # "~" THEN p.context
                         ELSE IF session = NoSession THEN NoSession ELSE session.context
           identifier == IF p.identifier # "~" THEN p.identifier
                         ELSE IF session = NoSession THEN NoSession ELSE session.identifier
           clean      == CleanPath(p.path)
           path       == MakePath(userId, p.root, p.context, p.identifier, clean)
           may(perm)  == [perm |-> perm, path |-> path]
           in(folders) == \E f \in folders : Inside(path, f)
           v == ValidatePath(p, userId, session)
           T == S \cup {"", userId, p.context, p.identifier, context, identifier, session.user, app, "public", "private",
                        "appdata", "secure", "collections"}
<1>0. SUFFICES /\ v # No => MayRead(v.path, userId, session, app)
               /\ v.perm = "write" => MayWrite(v.path, userId, session, app)
  OBVIOUS
<1>1. v = IF context = NoSession \/ identifier = NoSession THEN No
          ELSE IF foreign
               THEN IF in({<<userId, "public">>}) THEN may("read") ELSE No
          ELSE IF session.context = "user" \/ in(WriteFolders(session, context, identifier)) THEN may("write")
          ELSE IF in(ReadFolders(session, userId)) THEN may("read")
          ELSE No
  BY DEF ValidatePath
<1>2. path \in Seq(T) /\ Inside(path, <<userId>>)
  <2>1. clean \in Seq((S \ Dots) \cup {""}) /\ clean # <<>>
    BY CleanPathType
  <2>2. clean \in Seq(T)
    <3> HIDE DEF clean
    <3>1. ASSUME NEW A, NEW B, A \subseteq B PROVE Seq(A) \subseteq Seq(B)
      BY <3>1
    <3>2. (S \ Dots) \cup {""} \subseteq T
      OBVIOUS
    <3> HIDE DEF T
    <3> QED
      BY <2>1, <3>1, <3>2
  <2>3. /\ userId \in T /\ p.context \in T /\ p.identifier \in T
        /\ {"public", "private", "appdata", "secure", "collections"} \subseteq T
    OBVIOUS
  <2> HIDE DEF T, clean
  <2> QED
    BY <2>1, <2>2, <2>3, MadePath
<1>3. ~foreign /\ context # NoSession => session # NoSession /\ session.user = userId /\ context = app
  OBVIOUS
<1> HIDE DEF path
<1>4. may("read").perm = "read" /\ may("read").path = path /\ may("write").perm = "write" /\ may("write").path = path
      /\ No.perm = "none"
  BY DEF No
<1> DEFINE u == userId
<1>5. ASSUME session.user = u, context = app, in(WriteFolders(session, context, identifier))
      PROVE  AppsPart(path, session, app)
  <2> DEFINE more == AppFolder(context, identifier)
  <2>1. /\ more \in Seq(T) /\ Len(more) \in Nat /\ Len(more) >= 1 /\ more[1] = app
    <3>1. CASE context = "secure"
      <4>1. more = <<"secure", identifier>> /\ "secure" \in T /\ identifier \in T
        BY <3>1 DEF AppFolder
      <4> HIDE DEF T, more
      <4>2. more \in Seq(T) /\ Len(more) = 2 /\ more[1] = "secure"
        BY <4>1
      <4> QED
        BY <1>5, <3>1, <4>2
    <3>2. CASE context # "secure"
      <4>1. more = <<context>> /\ context \in T
        BY <3>2 DEF AppFolder
      <4> HIDE DEF T, more, context
      <4>2. more \in Seq(T) /\ Len(more) = 1 /\ more[1] = context
        BY <4>1
      <4> QED
        BY <1>5, <4>2
    <3> QED
      BY <3>1, <3>2
  <2> HIDE DEF more
  <2>3. PICK f \in WriteFolders(session, context, identifier) : Inside(path, f)
    BY <1>5
  <2>4. \/ f = <<session.user>> \o <<"appdata">> \o more
        \/ f = <<session.user>> \o <<"public", "appdata">> \o more
        \/ \E c \in session.collections : f = <<session.user>> \o <<"collections", c>> \o more
    BY <2>3 DEF WriteFolders, more
  <2> DEFINE U(c) == T \cup {c}
  <2>2. ASSUME NEW c PROVE /\ session.user \in U(c) /\ {"appdata", "public", "collections"} \subseteq U(c)
                           /\ c \in U(c) /\ app \in U(c) /\ path \in Seq(U(c)) /\ more \in Seq(U(c))
    <3>1. /\ T \subseteq U(c) /\ session.user \in T /\ {"appdata", "public", "collections"} \subseteq T
          /\ app \in T /\ c \in U(c)
      OBVIOUS
    <3> HIDE DEF T, U
    <3>2. ASSUME NEW A, NEW B, A \subseteq B PROVE Seq(A) \subseteq Seq(B)
      BY <3>2
    <3>3. path \in Seq(U(c)) /\ more \in Seq(U(c))
      BY <1>2, <2>1, <3>1, <3>2
    <3> QED
      BY <3>1, <3>3
  <2> HIDE DEF T, U
  <2> DEFINE us == session.user
  <2> HIDE DEF us
  <2>5. ASSUME f = <<us>> \o <<"appdata">> \o more PROVE Inside(path, <<us, "appdata", app>>)
    <3>1. /\ us \in U(app) /\ "appdata" \in U(app)
          /\ app \in U(app) /\ path \in Seq(U(app)) /\ more \in Seq(U(app))
      BY <2>2 DEF us
    <3>2. <<us>> \o <<"appdata">> \in Seq(U(app)) /\ (<<us>> \o <<"appdata">>) \o <<app>> = <<us, "appdata", app>>
      BY <3>1, ThreeNames, Zenon
    <3>3. Inside(path, (<<us>> \o <<"appdata">>) \o <<app>>)
      BY <2>1, <2>3, <2>5, <3>1, <3>2, FolderBelow
    <3> QED
      BY <3>2, <3>3
  <2>6. ASSUME f = <<us>> \o <<"public", "appdata">> \o more PROVE Inside(path, <<us, "public", "appdata", app>>)
    <3>1. /\ us \in U(app) /\ "appdata" \in U(app) /\ "public" \in U(app)
          /\ app \in U(app) /\ path \in Seq(U(app)) /\ more \in Seq(U(app))
      BY <2>2 DEF us
    <3>2. /\ <<us>> \o <<"public", "appdata">> \in Seq(U(app))
          /\ (<<us>> \o <<"public", "appdata">>) \o <<app>> = <<us, "public", "appdata", app>>
      BY <3>1, FourNames
    <3>3. Inside(path, (<<us>> \o <<"public", "appdata">>) \o <<app>>)
      BY <2>1, <2>3, <2>6, <3>1, <3>2, FolderBelow
    <3> QED
      BY <3>2, <3>3
  <2>7. ASSUME NEW c \in session.collections, f = <<us>> \o <<"collections", c>> \o more
        PROVE  Inside(path, <<us, "collections", c, app>>)
    <3>1. /\ us \in U(c) /\ "collections" \in U(c) /\ c \in U(c)
          /\ app \in U(c) /\ path \in Seq(U(c)) /\ more \in Seq(U(c))
      BY <2>2 DEF us
    <3>2. /\ <<us>> \o <<"collections", c>> \in Seq(U(c))
          /\ (<<us>> \o <<"collections", c>>) \o <<app>> = <<us, "collections", c, app>>
      BY <3>1, FourNames
    <3>3. Inside(path, (<<us>> \o <<"collections", c>>) \o <<app>>)
      BY <2>1, <2>3, <2>7, <3>1, <3>2, FolderBelow
    <3> QED
      BY <3>2, <3>3
  <2>8. \/ Inside(path, <<us, "appdata", app>>) \/ Inside(path, <<us, "public", "appdata", app>>)
        \/ \E c \in session.collections : Inside(path, <<us, "collections", c, app>>)
    <3>1. \/ f = <<us>> \o <<"appdata">> \o more
          \/ f = <<us>> \o <<"public", "appdata">> \o more
          \/ \E c \in session.collections : f = <<us>> \o <<"collections", c>> \o more
      BY <2>4, Zenon DEF us
    <3>2. CASE f = <<us>> \o <<"appdata">> \o more
      BY <3>2, <2>5, Zenon
    <3>3. CASE f = <<us>> \o <<"public", "appdata">> \o more
      BY <3>3, <2>6, Zenon
    <3>4. CASE \E c \in session.collections : f = <<us>> \o <<"collections", c>> \o more
      <4>1. PICK c \in session.collections : f = <<us>> \o <<"collections", c>> \o more
        BY <3>4, Zenon
      <4>2. Inside(path, <<us, "collections", c, app>>)
        BY <4>1, <2>7, Zenon
      <4> QED
        BY <4>2, Zenon
    <3> QED
      BY <3>1, <3>2, <3>3, <3>4, Zenon
  <2> QED
    BY <2>8, Zenon DEF AppsPart, us
<1> DEFINE inPublic == in({<<userId, "public">>})
           inWrite  == in(WriteFolders(session, context, identifier))
           inRead   == in(ReadFolders(session, userId))
           some     == context # NoSession /\ identifier # NoSession
           own      == session.context = "user"
           r == may("read")
           w == may("write")
<1>6. /\ v # No => some
      /\ v # No /\ foreign => v = r /\ inPublic
      /\ v # No /\ ~foreign => (v = w /\ (own \/ inWrite)) \/ (v = r /\ inRead)
  <2>1. v = IF ~some THEN No ELSE IF foreign THEN (IF inPublic THEN r ELSE No)
            ELSE IF own \/ inWrite THEN w ELSE IF inRead THEN r ELSE No
    BY <1>1
  <2> HIDE DEF v, inPublic, inWrite, inRead, some, own, foreign, r, w
  <2> QED
    BY <2>1
<1>7. CASE v = No
  <2>1. v.perm = "none"
    BY <1>4, <1>7
  <2> QED
    BY <1>7, <2>1
<1>8. CASE v # No
  <2>1. /\ r.perm = "read" /\ r.path = path /\ w.perm = "write" /\ w.path = path
    BY <1>4
  <2>2. context # NoSession
    BY <1>6, <1>8
  <2>3. ~foreign => session # NoSession /\ session.user = userId /\ context = app
    BY <1>3, <2>2
  <2>4. inWrite /\ ~foreign => AppsPart(path, session, app)
    BY <1>5, <2>3
  <2>5. inPublic => Inside(path, <<userId, "public">>)
    OBVIOUS
  <2>6. inRead /\ ~foreign => Inside(path, <<userId, "public">>)
                              \/ \E c \in session.collections : Inside(path, <<userId, "collections", c>>)
    BY <2>3 DEF ReadFolders
  <2> HIDE DEF v, inPublic, inWrite, inRead, r, w, foreign, some
  <2>7. CASE foreign
    <3>1. v = r /\ Inside(path, <<userId, "public">>)
      BY <1>6, <1>8, <2>5, <2>7
    <3>2. v.perm = "read" /\ v.path = path
      BY <2>1, <3>1
    <3>3. MayRead(path, userId, session, app)
      BY <1>2, <3>1 DEF MayRead
    <3> QED
      BY <3>2, <3>3
  <2>8. CASE ~foreign /\ v = w /\ (own \/ inWrite)
    <3>1. v.path = path
      BY <2>1, <2>8
    <3>2. MayWrite(path, userId, session, app)
      BY <1>2, <2>3, <2>4, <2>8 DEF MayWrite
    <3>3. MayRead(path, userId, session, app)
      BY <3>2 DEF MayWrite, MayRead
    <3> QED
      BY <3>1, <3>2, <3>3
  <2>9. CASE ~foreign /\ v = r /\ inRead
    <3>1. v.path = path /\ v.perm = "read"
      BY <2>1, <2>9
    <3>2. MayRead(path, userId, session, app)
      BY <1>2, <2>3, <2>6, <2>9 DEF MayRead
    <3> QED
      BY <3>1, <3>2
  <2> QED
    BY <1>6, <1>8, <2>7, <2>8, <2>9
<1> QED
  BY <1>7, <1>8

\* What comes behind a folder is inside it.
LEMMA InsideJoined ==
  ASSUME NEW U, NEW f \in Seq(U), NEW g \in Seq(U), g # <<>>
  PROVE  f \o g \in Seq(U) /\ Inside(f \o g, f)
<1> DEFINE h == f \o g
<1>1. Joins(U, f, g, h)
  BY Joined
<1>2. Len(g) \in Nat /\ Len(g) # 0 /\ Len(f) \in Nat
  OBVIOUS
<1> HIDE DEF h
<1>3. h \in Seq(U) /\ Len(h) > Len(f) /\ \A i \in 1 .. Len(f) : h[i] = f[i]
  BY <1>1, <1>2 DEF Joins
<1>4. Inside(h, f)
  BY <1>3, InsideParts
<1> QED
  BY <1>3, <1>4 DEF h

\* The folder of public files, and the two of an app, as makePath and as validatePath put them together.
LEMMA FolderNames ==
  ASSUME NEW U, NEW a \in U, NEW b \in U, NEW c \in U, NEW d \in U
  PROVE  /\ <<a>> \o <<b>> = <<a, b>>
         /\ (<<a>> \o <<>>) \o <<b, c>> = (<<a>> \o <<b>>) \o <<c>>
         /\ (<<a>> \o <<b>>) \o <<c, d>> = (<<a>> \o <<b, c>>) \o <<d>>
<1>1. <<a>> \o <<b>> = <<a, b>>
  <2> DEFINE h == <<a>> \o <<b>>
             k == <<a, b>>
  <2>1. h \in Seq(U) /\ Len(h) = 2 /\ h[1] = a /\ h[2] = b /\ k \in Seq(U) /\ Len(k) = 2 /\ k[1] = a /\ k[2] = b
    OBVIOUS
  <2>2. \A i \in 1 .. 2 : i = 1 \/ i = 2
    OBVIOUS
  <2> HIDE DEF h, k
  <2>3. h = k
    BY <2>1, <2>2, SameSequence
  <2> QED
    BY <2>3 DEF h, k
<1>2. (<<a>> \o <<>>) \o <<b, c>> = <<a, b, c>>
  <2>1. <<a>> \o <<>> = <<a>>
    OBVIOUS
  <2> DEFINE h == <<a>> \o <<b, c>>
             k == <<a, b, c>>
  <2>2. /\ h \in Seq(U) /\ Len(h) = 3 /\ h[1] = a /\ h[2] = b /\ h[3] = c
        /\ k \in Seq(U) /\ Len(k) = 3 /\ k[1] = a /\ k[2] = b /\ k[3] = c
    OBVIOUS
  <2>3. \A i \in 1 .. 3 : i = 1 \/ i = 2 \/ i = 3
    OBVIOUS
  <2> HIDE DEF h, k
  <2>4. h = k
    BY <2>2, <2>3, SameSequence
  <2> QED
    BY <2>1, <2>4, Zenon DEF h, k
<1>3. (<<a>> \o <<b>>) \o <<c, d>> = <<a, b, c, d>>
  <2> DEFINE f == <<a>> \o <<b>>
             g == <<c, d>>
             h == f \o g
             k == <<a, b, c, d>>
  <2>1. f \in Seq(U) /\ Len(f) = 2 /\ f[1] = a /\ f[2] = b /\ g \in Seq(U) /\ Len(g) = 2 /\ g[1] = c /\ g[2] = d
    OBVIOUS
  <2>2. k \in Seq(U) /\ Len(k) = 4 /\ k[1] = a /\ k[2] = b /\ k[3] = c /\ k[4] = d
    OBVIOUS
  <2> HIDE DEF f, g, k
  <2>3. Joins(U, f, g, h)
    BY <2>1, Joined
  <2>4. \A i \in 1 .. 4 : i = 1 \/ i = 2 \/ i = 3 \/ i = 4
    OBVIOUS
  <2> HIDE DEF h
  <2>5. h \in Seq(U) /\ Len(h) = 4 /\ h[1] = a /\ h[2] = b /\ h[3] = c /\ h[4] = d
    BY <2>1, <2>3 DEF Joins
  <2>6. h = k
    BY <2>2, <2>4, <2>5, SameSequence
  <2> QED
    BY <2>6 DEF f, g, h, k
<1>4. (<<a>> \o <<b>>) \o <<c>> = <<a, b, c>> /\ (<<a>> \o <<b, c>>) \o <<d>> = <<a, b, c, d>>
  BY ThreeNames, FourNames
<1> QED
  BY <1>1, <1>2, <1>3, <1>4, Zenon

\* validatePath lets a user write anywhere.
LEMMA UserAllowed ==
  ASSUME NEW p, NEW session, session # NoSession, session.context = "user",
         p.context \notin {"~", NoSession}, p.identifier \notin {"~", NoSession}
  PROVE  ValidatePath(p, session.user, session).perm = "write"
<1> DEFINE path == MakePath(session.user, p.root, p.context, p.identifier, CleanPath(p.path))
<1>1. ValidatePath(p, session.user, session) = [perm |-> "write", path |-> path]
  BY DEF ValidatePath
<1> HIDE DEF path
<1> QED
  BY <1>1

\* It lets anyone read what is public, a user write anywhere, and a session of an app in
\* the app's two folders.
LEMMA PathAllowed ==
  ASSUME NEW S, NEW p, p.path \in Seq(S), p.path # <<>>, NEW userId, NEW session,
         p.context \notin {"~", NoSession}, p.identifier \notin {"~", NoSession}
  PROVE  LET v == ValidatePath(p, userId, session) IN
         /\ p.root = "public" => v # No
         /\ session # NoSession /\ session.user = userId
            /\ \/ session.context = "user"
               \/ p.context \notin {"user", "secure", "collections"} /\ p.root \in {"public", "private"}
              => v.perm = "write"
<1> DEFINE clean == CleanPath(p.path)
           public == IF p.root = "public" THEN <<"public">> ELSE <<>>
           folder == IF p.root = "root" THEN <<>>
                     ELSE CASE p.context = "secure"      -> <<"appdata", "secure", p.identifier>>
                            [] p.context = "user"        -> IF p.root = "private" THEN <<"private">> ELSE <<>>
                            [] p.context = "collections" -> <<"collections">>
                            [] OTHER                     -> <<"appdata", p.context>>
           path == ((<<userId>> \o public) \o folder) \o clean
           foreign == session = NoSession \/ session.user # userId
           may(perm) == [perm |-> perm, path |-> path]
           in(folders) == \E f \in folders : Inside(path, f)
           v == ValidatePath(p, userId, session)
           T == S \cup {"", userId, p.context, p.identifier, "public", "private", "appdata", "secure", "collections"}
<1>1. v = IF foreign
          THEN IF in({<<userId, "public">>}) THEN may("read") ELSE No
          ELSE IF session.context = "user" \/ in(WriteFolders(session, p.context, p.identifier)) THEN may("write")
          ELSE IF in(ReadFolders(session, userId)) THEN may("read")
          ELSE No
  BY DEF ValidatePath, MakePath
<1>2. clean \in Seq(T) /\ clean # <<>>
  <2>1. clean \in Seq((S \ Dots) \cup {""}) /\ clean # <<>>
    BY CleanPathType
  <2> HIDE DEF clean
  <2>2. ASSUME NEW A, NEW B, A \subseteq B PROVE Seq(A) \subseteq Seq(B)
    BY <2>2
  <2>3. (S \ Dots) \cup {""} \subseteq T
    OBVIOUS
  <2> HIDE DEF T
  <2> QED
    BY <2>1, <2>2, <2>3
<1>3. userId \in T /\ p.context \in T /\ "public" \in T /\ "appdata" \in T
  OBVIOUS
<1>4. public \in Seq(T) /\ folder \in Seq(T) /\ <<userId>> \in Seq(T)
  <2>1. {userId, p.context, p.identifier, "public", "private", "appdata", "secure", "collections"} \subseteq T
    OBVIOUS
  <2> HIDE DEF T
  <2>2. /\ <<>> \in Seq(T) /\ <<"appdata", "secure", p.identifier>> \in Seq(T) /\ <<"private">> \in Seq(T)
        /\ <<"collections">> \in Seq(T) /\ <<"appdata", p.context>> \in Seq(T) /\ <<"public">> \in Seq(T)
        /\ <<userId>> \in Seq(T)
    BY <2>1
  <2> QED
    BY <2>2
<1> DEFINE base == <<userId>> \o public
<1>5. base \in Seq(T) /\ base \o folder \in Seq(T)
  <2> HIDE DEF public, folder, T
  <2> QED
    BY <1>4
<1>6. p.root = "public" => Inside(path, <<userId, "public">>)
  <2> SUFFICES ASSUME p.root = "public" PROVE Inside(path, <<userId, "public">>)
    OBVIOUS
  <2>1. public = <<"public">>
    OBVIOUS
  <2> DEFINE two == <<userId, "public">>
  <2>2. base = two
    <3> HIDE DEF T
    <3> QED
      BY <1>3, <2>1, FolderNames
  <2> HIDE DEF T, folder, clean, base, public
  <2> DEFINE all == base \o folder
  <2>3. Inside(all \o clean, all)
    BY <1>2, <1>5, InsideJoined
  <2>4. Joins(T, base, folder, all) /\ all \in Seq(T) /\ all \o clean \in Seq(T)
    BY <1>2, <1>4, <1>5, Joined
  <2>5. Len(base) <= Len(all) /\ \A i \in 1 .. Len(base) : base[i] = all[i]
    <3>1. Len(base) \in Nat /\ Len(folder) \in Nat
      BY <1>4, <1>5
    <3> QED
      BY <2>4, <3>1 DEF Joins
  <2>6. path = all \o clean
    BY DEF base
  <2> HIDE DEF all, path
  <2>7. Inside(path, base)
    BY <1>5, <2>3, <2>4, <2>5, <2>6, InsideFolder
  <2> QED
    BY <2>2, <2>7
<1>7. ASSUME session.user = userId, p.context \notin {"user", "secure", "collections"}, p.root \in {"public", "private"}
      PROVE  in(WriteFolders(session, p.context, p.identifier))
  <2> DEFINE app == <<p.context>>
             one == (<<userId>> \o <<"appdata">>) \o app
             other == (<<userId>> \o <<"public", "appdata">>) \o app
  <2>1. {one, other} \subseteq WriteFolders(session, p.context, p.identifier)
    BY <1>7 DEF WriteFolders, AppFolder
  <2>2. folder = <<"appdata", p.context>>
    BY <1>7
  <2>3. base \o folder \in {one, other}
    <3>1. CASE p.root = "public"
      <4>1. public = <<"public">>
        BY <3>1
      <4> HIDE DEF T, folder, public
      <4>2. (<<userId>> \o <<"public">>) \o <<"appdata", p.context>> = other
        BY <1>3, FolderNames
      <4>3. base \o folder = other
        BY <2>2, <4>1, <4>2, Zenon
      <4> HIDE DEF base, one, other
      <4> QED
        BY <4>3
    <3>2. CASE p.root = "private"
      <4>1. public = <<>>
        BY <3>2
      <4> HIDE DEF T, folder, public
      <4>2. (<<userId>> \o <<>>) \o <<"appdata", p.context>> = one
        BY <1>3, FolderNames
      <4>3. base \o folder = one
        BY <2>2, <4>1, <4>2, Zenon
      <4> HIDE DEF base, one, other
      <4> QED
        BY <4>3
    <3> QED
      BY <1>7, <3>1, <3>2
  <2>4. Inside(path, base \o folder)
    <3> HIDE DEF T, folder, public, base, clean
    <3>1. Inside((base \o folder) \o clean, base \o folder)
      BY <1>2, <1>5, InsideJoined
    <3> QED
      BY <3>1 DEF base
  <2> HIDE DEF one, other, base, folder, path
  <2> QED
    BY <2>1, <2>3, <2>4
<1> HIDE DEF path
<1>8. No.perm = "none" /\ may("read").perm = "read" /\ may("write").perm = "write"
  BY DEF No
<1>9. p.root = "public" => v # No
  <2>1. ~foreign => in(ReadFolders(session, userId)) \/ ~Inside(path, <<userId, "public">>)
    BY DEF ReadFolders
  <2> HIDE DEF may, v
  <2>2. may("read") # No /\ may("write") # No
    BY <1>8
  <2> QED
    BY <1>1, <1>6, <2>1, <2>2
<1>10. ASSUME session # NoSession, session.user = userId,
              \/ session.context = "user"
              \/ p.context \notin {"user", "secure", "collections"} /\ p.root \in {"public", "private"}
       PROVE  v.perm = "write"
  <2>1. session.context = "user" \/ in(WriteFolders(session, p.context, p.identifier))
    BY <1>7, <1>10
  <2>2. ~foreign
    BY <1>10
  <2>3. v = may("write")
    <3> HIDE DEF may, v, in, foreign
    <3> QED
      BY <1>1, <2>1, <2>2
  <2> QED
    BY <1>8, <2>3
<1> QED
  BY <1>9, <1>10

\* A path of strings is one of such names.
LEMMA SpeltOut == \A path : path \in Seq(STRING) => path \in Seq(Spelt)
<1>1. ASSUME NEW A, NEW B, A \subseteq B PROVE Seq(A) \subseteq Seq(B)
  BY <1>1
<1>2. STRING \subseteq Spelt
  BY DEF Spelt
<1> QED
  BY <1>1, <1>2

\* What validatePath makes of a path has no dots but in the names that stand before it.
LEMMA PathsClean ==
  ASSUME NEW p, p.path \in Seq(Spelt), p.path # <<>>, NEW userId, NEW session
  PROVE  LET v == ValidatePath(p, userId, session)
         IN v # No => v.path \in Seq((Spelt \ Dots) \cup {userId, p.context, p.identifier})
<1> DEFINE A == Spelt \ Dots
           S == A \cup {userId, p.context, p.identifier}
           clean == CleanPath(p.path)
           path  == MakePath(userId, p.root, p.context, p.identifier, clean)
           v == ValidatePath(p, userId, session)
<1>1. v # No => v.path = path
  BY DEF ValidatePath
<1>2. {"", "public", "private", "appdata", "secure", "collections"} \subseteq A
  BY DotsAssumption DEF Spelt
<1> HIDE DEF A
<1>3. clean \in Seq(S) /\ clean # <<>>
  <2>1. clean \in Seq(A \cup {""}) /\ clean # <<>>
    BY CleanPathType DEF A
  <2>2. A \cup {""} \subseteq S
    BY <1>2
  <2>3. ASSUME NEW B, NEW C, B \subseteq C PROVE Seq(B) \subseteq Seq(C)
    BY <2>3
  <2> HIDE DEF S, clean
  <2> QED
    BY <2>1, <2>2, <2>3
<1>4. /\ userId \in S /\ p.context \in S /\ p.identifier \in S
      /\ {"public", "private", "appdata", "secure", "collections"} \subseteq S
  BY <1>2
<1> HIDE DEF S, clean
<1>5. path \in Seq(S)
  BY <1>3, <1>4, MadePath
<1> HIDE DEF path, v
<1> QED
  BY <1>1, <1>5 DEF S, A, v

-----------------------------------------------------------------------------
(* Queries. *)

\* The i-th condition is compiled to the i-th statement, with its value for the i-th parameter.
LEMMA Compiled ==
  ASSUME NEW S, NEW query \in Seq(S)
  PROVE  LET c == CompileQuery(query) IN
         /\ DOMAIN c.statements = DOMAIN query
         /\ \A i \in DOMAIN query :
              c.statements[i] = [field |-> query[i].field, op |-> Compared(query[i].op, query[i].value), slot |-> i]
              /\ c.params[i] = query[i].value
<1> DEFINE n == Len(query)
           T == {query[i].value : i \in 1 .. n}
           params == [i \in DOMAIN query |-> query[i].value]
           c == CompileQuery(query)
<1>1. n \in Nat /\ DOMAIN query = 1 .. n
  OBVIOUS
<1>2. params \in Seq(T) /\ Len(params) = n /\ \A i \in DOMAIN query : params[i] = query[i].value
  <2>1. params = [i \in 1 .. n |-> query[i].value] /\ \A i \in 1 .. n : query[i].value \in T
    BY <1>1
  <2> HIDE DEF T, n
  <2>2. params = [i \in 1 .. n |-> params[i]] /\ \A i \in 1 .. n : params[i] \in T
    BY <2>1
  <2> HIDE DEF params
  <2>3. params \in Seq(T) /\ Len(params) = n
    BY <1>1, <2>2, SequenceOf
  <2> QED
    BY <1>1, <2>1, <2>3 DEF params
<1>3. c = [statements |-> [i \in DOMAIN query |-> CompileExpr(query[i], SubSeq(params, 1, i - 1))], params |-> params]
  BY DEF CompileQuery
<1> HIDE DEF params, c, n, T
<1>4. /\ DOMAIN c.statements = DOMAIN query /\ c.params = params
      /\ \A i \in DOMAIN query : c.statements[i] = CompileExpr(query[i], SubSeq(params, 1, i - 1))
  BY <1>3
<1>5. ASSUME NEW i \in DOMAIN query
      PROVE  c.statements[i] = [field |-> query[i].field, op |-> Compared(query[i].op, query[i].value), slot |-> i]
  <2>1. Len(SubSeq(params, 1, i - 1)) + 1 = i
    BY <1>1, <1>2
  <2> QED
    BY <1>4, <2>1 DEF CompileExpr
<1>6. SUFFICES /\ DOMAIN c.statements = DOMAIN query
               /\ \A i \in DOMAIN query :
                    /\ c.statements[i] = [field |-> query[i].field, op |-> Compared(query[i].op, query[i].value), slot |-> i]
                    /\ c.params[i] = query[i].value
  BY DEF c
<1> QED
  BY <1>2, <1>4, <1>5

\* Numbers are ordered.
LEMMA Ordered ==
  ASSUME NEW a \in Int, NEW b \in Int
  PROVE  (a >= b <=> a > b \/ a = b) /\ (a <= b <=> a < b \/ a = b)
  OBVIOUS

\* SQL's comparison is the meaning of a condition, but for $ne with a value and NULL.
LEMMA ComparedMeans ==
  ASSUME NEW cond, NEW row, NEW stmt, NEW params, row[cond.field] \in Cells, cond.value \in Cells,
         cond.op \in {"", "$eq", "$ne", "$gt", "$lt", "$gte", "$lte"},
         stmt.field = cond.field, stmt.op = Compared(cond.op, cond.value), params[stmt.slot] = cond.value
  PROVE  Holds(stmt, params, row) <=>
           Means(cond, row) /\ ~(cond.op = "$ne" /\ cond.value # Null /\ row[cond.field] = Null)
<1> DEFINE cell == row[cond.field]
           value == cond.value
           op == cond.op
<1>0. /\ cell \in Cells /\ value \in Cells /\ op \in {"", "$eq", "$ne", "$gt", "$lt", "$gte", "$lte"}
      /\ stmt.op = Compared(op, value)
  OBVIOUS
<1>1. Means(cond, row) <=>
        IF op \in {"", "$eq"} THEN cell = value
        ELSE IF op = "$ne" THEN cell # value
        ELSE /\ cell # Null /\ value # Null
             /\ \/ cell > value /\ op \in {"$gt", "$gte"}
                \/ cell < value /\ op \in {"$lt", "$lte"}
                \/ cell = value /\ op \in {"$gte", "$lte"}
  BY <1>0 DEF Means
<1>2. Holds(stmt, params, row) <=>
        LET o == stmt.op IN
        IF o = "is" THEN cell = value
        ELSE IF o = "is not" THEN cell # value
        ELSE /\ cell # Null /\ value # Null
             /\ (o = "=" => cell = value) /\ (o = "!=" => cell # value)
             /\ (o = ">" => cell > value) /\ (o = "<" => cell < value)
             /\ (o = ">=" => cell >= value) /\ (o = "<=" => cell <= value)
  <2>1. stmt.op \in {"is", "is not", "=", "!=", ">", "<", ">=", "<="}
    BY DEF Compared
  <2> QED
    BY <2>1 DEF Holds
<1> SUFFICES Holds(stmt, params, row) <=> Means(cond, row) /\ ~(op = "$ne" /\ value # Null /\ cell = Null)
  OBVIOUS
<1> HIDE DEF cell, value, op
<1>3. CASE cell = Null \/ value = Null
  <2>1. CASE op \in {"", "$eq"}
    BY <1>0, <1>1, <1>2, <1>3, <2>1 DEF Compared
  <2>2. CASE op = "$ne"
    BY <1>0, <1>1, <1>2, <1>3, <2>2 DEF Compared
  <2>3. CASE op \in {"$gt", "$lt", "$gte", "$lte"}
    <3>1. stmt.op \in {">", "<", ">=", "<="}
      BY <1>0, <2>3 DEF Compared
    <3> QED
      BY <1>0, <1>1, <1>2, <1>3, <2>3, <3>1
  <2> QED
    BY <1>0, <2>1, <2>2, <2>3
<1>4. CASE cell # Null /\ value # Null
  <2>1. cell \in Int /\ value \in Int
    BY <1>0, <1>4 DEF Cells
  <2>2. CASE op \in {"", "$eq"}
    BY <1>0, <1>1, <1>2, <1>4, <2>2 DEF Compared
  <2>3. CASE op = "$ne"
    BY <1>0, <1>1, <1>2, <1>4, <2>3 DEF Compared
  <2>4. CASE op = "$gt"
    <3>1. stmt.op = ">"
      BY <1>0, <2>4 DEF Compared
    <3> QED
      BY <1>0, <1>1, <1>2, <1>4, <2>4, <3>1
  <2>5. CASE op = "$lt"
    <3>1. stmt.op = "<"
      BY <1>0, <2>5 DEF Compared
    <3> QED
      BY <1>0, <1>1, <1>2, <1>4, <2>5, <3>1
  <2>6. CASE op = "$gte"
    <3>1. stmt.op = ">="
      BY <1>0, <2>6 DEF Compared
    <3>2. cell >= value <=> cell > value \/ cell = value
      BY <2>1, Ordered, Zenon
    <3> QED
      BY <1>0, <1>1, <1>2, <1>4, <2>6, <3>1, <3>2
  <2>7. CASE op = "$lte"
    <3>1. stmt.op = "<="
      BY <1>0, <2>7 DEF Compared
    <3>2. cell <= value <=> cell < value \/ cell = value
      BY <2>1, Ordered, Zenon
    <3> QED
      BY <1>0, <1>1, <1>2, <1>4, <2>7, <3>1, <3>2
  <2> QED
    BY <1>0, <2>2, <2>3, <2>4, <2>5, <2>6, <2>7
<1> QED
  BY <1>3, <1>4

\* A search finds the rows that the query describes, but for those that NULL leaves undecided.
LEMMA SelectedMeans ==
  ASSUME NEW rows, NEW query, \A row \in rows : row \in [DOMAIN row -> Cells] /\ query \in Queries(row)
  PROVE  Selected(rows, CompileQuery(query)) = {row \in rows : Meets(query, row) /\ ~Undecided(query, row)}
<1> DEFINE c == CompileQuery(query)
<1>1. ASSUME NEW row \in rows
      PROVE  (\A i \in DOMAIN c.statements : Holds(c.statements[i], c.params, row))
               <=> Meets(query, row) /\ ~Undecided(query, row)
  <2> DEFINE Conds == [field : DOMAIN row, op : {"", "$eq", "$ne", "$gt", "$lt", "$gte", "$lte"}, value : Cells]
             odd(i) == query[i].op = "$ne" /\ query[i].value # Null /\ row[query[i].field] = Null
  <2>1. query \in Seq(Conds) /\ row \in [DOMAIN row -> Cells]
    BY DEF Queries
  <2>2. /\ DOMAIN c.statements = DOMAIN query
        /\ \A i \in DOMAIN query :
             c.statements[i] = [field |-> query[i].field, op |-> Compared(query[i].op, query[i].value), slot |-> i]
             /\ c.params[i] = query[i].value
    <3> HIDE DEF Conds
    <3> QED
      BY <2>1, Compiled
  <2>3. ASSUME NEW i \in DOMAIN query
        PROVE  Holds(c.statements[i], c.params, row) <=> Means(query[i], row) /\ ~odd(i)
    <3> DEFINE cond == query[i]
               stmt == c.statements[i]
               params == c.params
    <3>1. cond \in Conds
      <4> HIDE DEF Conds
      <4> QED
        BY <2>1
    <3>2. /\ cond.field \in DOMAIN row /\ cond.op \in {"", "$eq", "$ne", "$gt", "$lt", "$gte", "$lte"}
          /\ cond.value \in Cells
      <4> HIDE DEF cond
      <4> QED
        BY <3>1
    <3>3. row[cond.field] \in Cells
      <4> HIDE DEF cond, Conds
      <4> QED
        BY <2>1, <3>2
    <3>4. stmt = [field |-> cond.field, op |-> Compared(cond.op, cond.value), slot |-> i] /\ params[i] = cond.value
      BY <2>2
    <3> HIDE DEF cond, stmt, params, Conds, c
    <3>5. stmt.field = cond.field /\ stmt.op = Compared(cond.op, cond.value) /\ params[stmt.slot] = cond.value
      BY <3>4
    <3>6. Holds(stmt, params, row) <=>
            Means(cond, row) /\ ~(cond.op = "$ne" /\ cond.value # Null /\ row[cond.field] = Null)
      BY <3>2, <3>3, <3>5, ComparedMeans
    <3> QED
      BY <3>6 DEF cond, stmt, params
  <2>4. Meets(query, row) <=> \A i \in DOMAIN query : Means(query[i], row)
    BY DEF Meets
  <2>5. Undecided(query, row) <=> \E i \in DOMAIN query : odd(i)
    BY DEF Undecided
  <2> HIDE DEF odd, c, Conds
  <2> QED
    BY <2>2, <2>3, <2>4, <2>5
<1>2. Selected(rows, c) = {row \in rows : \A i \in DOMAIN c.statements : Holds(c.statements[i], c.params, row)}
  BY DEF Selected
<1> HIDE DEF c
<1>3. Selected(rows, c) = {row \in rows : Meets(query, row) /\ ~Undecided(query, row)}
  BY <1>1, <1>2
<1> QED
  BY <1>3 DEF c

\* Where it only compares for equality, the search in memory finds what the query describes.
LEMMA EqualityMeans ==
  ASSUME NEW row, row \in [DOMAIN row -> Cells], NEW query \in Queries(row), ~Throws(query),
         \A i \in DOMAIN query : query[i].op \in {"", "$eq", "$ne"}
  PROVE  ResolveQuery(query, row) <=> Meets(query, row)
<1>1. ASSUME NEW i \in DOMAIN query
      PROVE  (IF query[i].op = "" THEN query[i].value = row[query[i].field]
              ELSE ResolveExpr(query[i].op, query[i].value, row[query[i].field])) <=> Means(query[i], row)
  <2> DEFINE cond == query[i]
  <2>1. cond.op \in {"", "$eq", "$ne"}
    OBVIOUS
  <2> HIDE DEF cond
  <2>2. (IF cond.op = "" THEN cond.value = row[cond.field] ELSE ResolveExpr(cond.op, cond.value, row[cond.field]))
          <=> Means(cond, row)
    BY <2>1 DEF Means, ResolveExpr
  <2> QED
    BY <2>2 DEF cond
<1> QED
  BY <1>1, Zenon DEF ResolveQuery, Meets
-----------------------------------------------------------------------------
(* The inductive invariant. *)

\* What was sent stays as it was sent.
IsSent(q) ==
  \E s \in Sent : q.url = s.url /\ q.method = s.method /\ q.token = s.token /\ q.asks = s.asks /\ q.body = s.body

\* The chain is what the router finds for the request; the handlers that have called the
\* next one stand in it in front of the next, and self, which answers, is none of them.
Placed ==
  /\ outcome.is \in Ended \cup {"running", "answering", "thrown"}
  /\ outcome.is = "idle" => req = Nothing /\ chain = <<>> /\ at = 1 /\ frames = <<>>
  /\ outcome.is # "idle" => DOMAIN req = Fields /\ IsSent(req) /\ chain = Pathfind(App, req.url, req.method)
  /\ at \in 1 .. Len(chain) + 1
  /\ frames \in Seq(HandlerNames) /\ Len(frames) < at
  /\ \A i \in DOMAIN frames : frames[i] = chain[i].name
  /\ \A j \in 1 .. at - 1 : chain[j].name # "self"
  /\ outcome.is = "running" => Len(frames) = at - 1 /\ outcome = [Idle EXCEPT !.is = "running"]

\* An error has left no guard, and, as long as it is thrown synchronously, no async
\* handler; it comes neither from a guard nor from self.
Thrown ==
  /\ at \in DOMAIN chain /\ chain[at].name # "self" /\ outcome.by \notin Guards
  /\ outcome.under \in Seq(HandlerNames) /\ Len(outcome.under) = at - 1
  /\ \A i \in 1 .. at - 1 : outcome.under[i] = chain[i].name
  /\ \A i \in Len(frames) + 1 .. at - 1 : chain[i].name \notin Guards
  /\ outcome.sync => \A i \in Len(frames) + 1 .. at : chain[i].name \in Synchronous
Errors ==
  /\ DOMAIN outcome = {"is", "by", "status", "sync", "under"}
  /\ outcome.is = "thrown" => Thrown
  /\ outcome.is \in {"answered", "unanswered"} => {req.params, req.query, req.context} = {Host}
  /\ ErrorsStayInside

\* What the middlewares that have been passed have seen to.
Passed(names) == \E j \in 1 .. at - 1 : chain[j].name \in names
Sessioned ==
  /\ req.session \in {Nothing, req.token}
  /\ req.user = IF req.session = Nothing THEN Nothing ELSE req.session.user
  /\ Passed({"requireUser", "optionalUser"}) => req.session = req.token
  /\ Passed({"requireUser"}) => req.token # Nothing
  /\ Passed(Middlewares) => req.token.context = "user"

Contextual(q) ==
  /\ Len(q.url) >= 3 /\ q.url[1] # "" /\ q.url[2] # ""
  /\ q.url[1] = "~" \/ q.url[2] = "~" => q.token # Nothing
  /\ q.context.context = Resolved(q.url[1], q.token, "context")
  /\ q.context.identifier = Resolved(q.url[2], q.token, "identifier")
  /\ q.context.user = UserOf(q.context.context, q.context.identifier)
\* Its dotted names are the user's, the context's or the identifier's.
Clean(path, q) == path \in Seq((Spelt \ Dots) \cup {q.context.user, q.context.context, q.context.identifier})
Granted(q) ==
  LET context == q.context
  IN /\ Clean(context.path, q)
     /\ MayRead(context.path, context.user, q.token, context.context)
     /\ context.perm = "write" => MayWrite(context.path, context.user, q.token, context.context)
Under ==
  /\ DOMAIN req.context = DOMAIN NoContext
  /\ Passed({"contextIdentifier"}) => Contextual(req)
  /\ Passed({"validatePath"}) => Granted(req)

\* The effects, none of which comes before the request's last handler.
Effects ==
  /\ outcome.is \in {"idle", "running"} => effect = NoEffect
  /\ SessionBeforeUse /\ WritesGranted /\ ReadsGranted /\ PathsClimbNowhere
  /\ AsksInOwnName /\ SearchMeansQuery /\ EqualityAgrees
Fingers == fingers \subseteq (DOMAIN Username) \X STRING

Inv ==
  /\ Placed /\ Errors /\ Fingers /\ Effects
  /\ outcome.is # "idle" => Sessioned
  /\ outcome.is \in {"running", "answering", "thrown"} => Under

\* In the chain, a handler of X has one of Y in front of it.
Follows(X, Y) == \A k \in DOMAIN chain : chain[k].name \in X => \E j \in 1 .. k - 1 : chain[j].name \in Y
Chained ==
  /\ chain \in Seq(Entries)
  /\ \A k \in DOMAIN chain : \E i \in DOMAIN App : chain[k] = App[i] /\ Fits(App[i], req.url, req.method)
  /\ Follows(Own, {"requireUser"}) /\ Follows(Users, Middlewares) /\ Follows(Middlewares, {"requireUser"})
  /\ Follows({"contextIdentifier"}, {"optionalUser"}) /\ Follows(FileOps, {"validatePath"})
  /\ Follows(Scopeds, {"contextIdentifier"})
  /\ \A k \in DOMAIN chain : chain[k].name = "optionalUser" =>
       k + 1 \in DOMAIN chain /\ chain[k + 1].name \in {"contextIdentifier", "self"}
  /\ \A k \in DOMAIN chain : \A l \in DOMAIN chain :
       k < l /\ chain[k].name = "validatePath" => chain[l].name # "contextIdentifier"
  /\ \A k \in DOMAIN chain : chain[k].name \in {"contextIdentifier"} => chain[k].route \in {ScopeRoute("db"), ScopeRoute("files")}
  /\ \A k \in DOMAIN chain : chain[k].name \in {"validatePath"} => chain[k].route \in {ScopeRoute("files") \o PathRoute}
  /\ \A k \in DOMAIN chain : chain[k].name \in {"listFiles"} => chain[k].route \in {ScopeRoute("files") \o ListRoute}

\* What the routes promise, the chain of the request keeps.
LEMMA ChainFound ==
  ASSUME Placed, outcome.is # "idle"
  PROVE  Chained
<1>1. chain = Pathfind(App, req.url, req.method) /\ req.url \in Seq(STRING)
  BY SentAssumption DEF Placed, IsSent
<1>2. App \in Seq(Entries)
  BY AppSound DEF Sound
<1>3. chain \in Seq(Entries)
  <2>1. LET c == Pathfind(App, req.url, req.method) IN c \in Seq(Entries)
    BY <1>2, FoundPlace
  <2> QED
    BY <1>1, <2>1
<1>4. \A k \in DOMAIN chain : \E i \in DOMAIN App : chain[k] = App[i] /\ Fits(App[i], req.url, req.method)
  BY <1>1, <1>2, FoundFits, Zenon
<1>5. ASSUME NEW X, NEW Y, Led(App, X, Y) PROVE Follows(X, Y)
  BY <1>1, <1>2, <1>5, FoundLed, Zenon DEF Follows
<1>6. /\ Led(App, Own, {"requireUser"}) /\ Led(App, Users, Middlewares) /\ Led(App, Middlewares, {"requireUser"})
      /\ Led(App, {"contextIdentifier"}, {"optionalUser"}) /\ Led(App, FileOps, {"validatePath"})
      /\ Led(App, Scopeds, {"contextIdentifier"}) /\ Beside(App) /\ Behind(App)
  BY AppSound DEF Sound
<1>7. /\ Follows(Own, {"requireUser"}) /\ Follows(Users, Middlewares) /\ Follows(Middlewares, {"requireUser"})
      /\ Follows({"contextIdentifier"}, {"optionalUser"}) /\ Follows(FileOps, {"validatePath"})
      /\ Follows(Scopeds, {"contextIdentifier"})
  BY <1>5, <1>6, Zenon
<1>8. \A k \in DOMAIN chain : chain[k].name = "optionalUser" =>
        k + 1 \in DOMAIN chain /\ chain[k + 1].name \in {"contextIdentifier", "self"}
  BY <1>1, <1>2, <1>6, FoundBeside, Zenon
<1>9. \A k \in DOMAIN chain : \A l \in DOMAIN chain :
        k < l /\ chain[k].name = "validatePath" => chain[l].name # "contextIdentifier"
  <2>1. LET c == Pathfind(App, req.url, req.method) IN
        \A k \in DOMAIN c : \A l \in DOMAIN c : k < l /\ c[k].name = "validatePath" => c[l].name # "contextIdentifier"
    BY <1>2, <1>6, FoundBehind
  <2> QED
    BY <1>1, <2>1
<1>10. ASSUME NEW X, NEW routes, Routed(App, X, routes)
       PROVE  \A k \in DOMAIN chain : chain[k].name \in X => chain[k].route \in routes
  BY <1>1, <1>2, <1>10, FoundRouted, Zenon
<1>11. /\ \A k \in DOMAIN chain : chain[k].name \in {"contextIdentifier"} =>
             chain[k].route \in {ScopeRoute("db"), ScopeRoute("files")}
       /\ \A k \in DOMAIN chain : chain[k].name \in {"validatePath"} => chain[k].route \in {ScopeRoute("files") \o PathRoute}
       /\ \A k \in DOMAIN chain : chain[k].name \in {"listFiles"} => chain[k].route \in {ScopeRoute("files") \o ListRoute}
  BY <1>10, AppSound, Zenon
<1> QED
  BY <1>3, <1>4, <1>7, <1>8, <1>9, <1>11, Zenon DEF Chained

\* What a handler whose turn it is has in front of it has been passed.
LEMMA TurnPassed ==
  ASSUME Placed, NEW name, Turn(name), NEW X, NEW Y, name \in X, Follows(X, Y)
  PROVE  Passed(Y)
<1>1. at \in DOMAIN chain /\ chain[at].name \in X
  <2>1. at \in 1 .. Len(chain) + 1 /\ at <= Len(chain) /\ chain[at].name = name
    BY DEF Placed, Turn
  <2>2. chain \in Seq(Entries)
    BY ChainFound DEF Turn, Chained
  <2>3. DOMAIN chain = 1 .. Len(chain) /\ Len(chain) \in Nat
    <3> HIDE DEF Entries
    <3> QED
      BY <2>2
  <2>4. at \in 1 .. Len(chain)
    BY <2>1, <2>3
  <2> QED
    BY <2>1, <2>3, <2>4
<1> QED
  BY <1>1 DEF Follows, Passed
-----------------------------------------------------------------------------
(* Handlers going on, answering and throwing. *)

\* A handler's turn.
At(name) ==
  /\ Chained /\ at \in Nat \ {0} /\ at <= Len(chain) /\ Len(chain) \in Nat /\ DOMAIN chain = 1 .. Len(chain)
  /\ at \in DOMAIN chain /\ chain[at].name = name /\ name \in HandlerNames
  /\ Len(frames) = at - 1 /\ outcome = [Idle EXCEPT !.is = "running"]
  /\ DOMAIN req = Fields /\ IsSent(req)

\* What is known when a handler has its turn.
LEMMA TurnAt ==
  ASSUME Placed, NEW name, Turn(name)
  PROVE  At(name)
<1>1. outcome.is = "running" /\ at <= Len(chain) /\ chain[at].name = name
  BY DEF Turn
<1>2. Chained
  BY <1>1, ChainFound
<1>3. chain \in Seq(Entries)
  BY <1>2 DEF Chained
<1>4. DOMAIN chain = 1 .. Len(chain) /\ Len(chain) \in Nat
  <2> HIDE DEF Entries
  <2> QED
    BY <1>3
<1>5. at \in 1 .. Len(chain) + 1 /\ Len(frames) = at - 1 /\ outcome = [Idle EXCEPT !.is = "running"]
  BY <1>1 DEF Placed
<1>6. DOMAIN req = Fields /\ IsSent(req)
  BY <1>1 DEF Placed
<1>7. at \in Nat \ {0} /\ at \in 1 .. Len(chain)
  BY <1>1, <1>4, <1>5
<1>8. chain[at] \in Entries
  <2> HIDE DEF Entries
  <2> QED
    BY <1>3, <1>4, <1>7
<1>9. name \in HandlerNames
  <2> HIDE DEF HandlerNames
  <2> QED
    BY <1>1, <1>8 DEF Entries
<1> QED
  BY <1>1, <1>2, <1>4, <1>5, <1>6, <1>7, <1>9 DEF At

\* A handler may leave things on the request, but not for the router.
Alike(q) ==
  /\ DOMAIN q = Fields
  /\ q.url = req.url /\ q.method = req.method /\ q.token = req.token /\ q.asks = req.asks /\ q.body = req.body

\* The wrapper of a handler sets the parameters, and nothing else.
LEMMA AlikeSent ==
  ASSUME NEW q, Alike(q), IsSent(req), NEW p
  PROVE  LET r == [q EXCEPT !.params = p] IN
         /\ DOMAIN r = Fields /\ IsSent(r) /\ r.url = req.url /\ r.method = req.method /\ r.token = req.token
         /\ r.session = q.session /\ r.user = q.user /\ r.context = q.context /\ r.body = req.body
<1> DEFINE r == [q EXCEPT !.params = p]
<1>1. DOMAIN r = Fields
  BY DEF Alike, Fields
<1>2. /\ r.url = q.url /\ r.method = q.method /\ r.token = q.token /\ r.asks = q.asks /\ r.body = q.body
      /\ r.session = q.session /\ r.user = q.user /\ r.context = q.context
  BY DEF Alike, Fields
<1>3. /\ r.url = req.url /\ r.method = req.method /\ r.token = req.token /\ r.asks = req.asks /\ r.body = req.body
  BY <1>2 DEF Alike
<1> HIDE DEF r
<1>4. IsSent(r)
  BY <1>3 DEF IsSent
<1> SUFFICES /\ DOMAIN r = Fields /\ IsSent(r) /\ r.url = req.url /\ r.method = req.method /\ r.token = req.token
             /\ r.session = q.session /\ r.user = q.user /\ r.context = q.context /\ r.body = req.body
  BY DEF r
<1> QED
  BY <1>1, <1>2, <1>3, <1>4

\* While nothing is thrown, there is nothing that a guard could miss.
LEMMA NoErrors == ASSUME outcome' = [Idle EXCEPT !.is = "running"] PROVE Errors'
<1>1. /\ outcome'.is = "running" /\ outcome'.by = "" /\ DOMAIN outcome' = {"is", "by", "status", "sync", "under"}
  BY DEF Idle
<1>2. "" \notin Guards
  BY HandlersAssumption DEF Handlers
<1>3. ErrorsStayInside'
  BY <1>1, <1>2 DEF ErrorsStayInside
<1> QED
  BY <1>1, <1>3 DEF Errors

\* A handler that goes on takes its place among the frames.
LEMMA PassPlaced ==
  ASSUME Placed, NEW name, Turn(name), name # "self", NEW q, Alike(q), Pass(q)
  PROVE  Placed' /\ Errors' /\ outcome'.is = "running"
<1>1. At(name)
  BY TurnAt
<1>2. /\ req' = [q EXCEPT !.params = Params] /\ at' = at + 1 /\ frames' = Append(frames, chain[at].name)
      /\ chain' = chain /\ outcome' = outcome
  BY DEF Pass
<1>3. DOMAIN req' = Fields /\ IsSent(req)' /\ req'.url = req.url /\ req'.method = req.method
  <2>1. IsSent([q EXCEPT !.params = Params])
    BY <1>1, AlikeSent DEF At
  <2>2. IsSent(req)'
    BY <1>2, <2>1 DEF IsSent
  <2> QED
    BY <1>1, <1>2, <2>2, AlikeSent DEF At
<1>4. outcome' = [Idle EXCEPT !.is = "running"] /\ outcome'.is = "running"
  BY <1>1, <1>2 DEF At, Idle
<1>5. /\ at \in Nat \ {0} /\ Len(chain) \in Nat /\ Len(frames) = at - 1 /\ at <= Len(chain)
      /\ chain[at].name = name /\ name \in HandlerNames
  BY <1>1 DEF At
<1>6. frames \in Seq(HandlerNames)
  BY DEF Placed
<1> HIDE DEF HandlerNames
<1>7. frames' \in Seq(HandlerNames) /\ Len(frames') = at /\ \A i \in 1 .. at - 1 : frames'[i] = frames[i] /\ frames'[at] = name
  BY <1>2, <1>5, <1>6
<1>8. DOMAIN frames = 1 .. at - 1 /\ DOMAIN frames' = 1 .. at
  BY <1>5, <1>6, <1>7
<1>9. \A i \in 1 .. at - 1 : frames[i] = chain[i].name
  BY <1>8 DEF Placed
<1>10. \A i \in DOMAIN frames' : frames'[i] = chain'[i].name
  <2>1. \A i \in 1 .. at : i \in 1 .. at - 1 \/ i = at
    BY <1>5
  <2>2. frames'[at] = name
    BY <1>2, <1>5, <1>6
  <2> QED
    BY <1>2, <1>5, <1>7, <1>8, <1>9, <2>1, <2>2
<1>11. at' \in 1 .. Len(chain') + 1 /\ Len(frames') < at' /\ Len(frames') = at' - 1
  BY <1>2, <1>5, <1>7
<1>12. \A j \in 1 .. at' - 1 : chain'[j].name # "self"
  <2>1. \A j \in 1 .. at' - 1 : j \in 1 .. at - 1 \/ j = at
    BY <1>2, <1>5
  <2> QED
    BY <1>2, <1>5, <2>1 DEF Placed
<1>13. chain' = Pathfind(App, req'.url, req'.method)
  BY <1>1, <1>2, <1>3 DEF Placed, At, Idle
<1>14. Placed'
  BY <1>3, <1>4, <1>7, <1>10, <1>11, <1>12, <1>13 DEF Placed
<1>15. Errors'
  BY <1>4, NoErrors
<1> QED
  BY <1>4, <1>14, <1>15

\* A handler that answers leaves the frames as they are.
LEMMA AnswerPlaced ==
  ASSUME Placed, NEW name, Turn(name), name \notin Guards, NEW status, Answer(status)
  PROVE  Placed' /\ Errors' /\ outcome'.is = "answering"
<1>1. At(name)
  BY TurnAt
<1>2. /\ req' = [req EXCEPT !.params = Params] /\ at' = at /\ frames' = frames /\ chain' = chain
      /\ outcome' = [Idle EXCEPT !.is = "answering", !.by = chain[at].name, !.status = status]
  BY DEF Answer, Called
<1>3. DOMAIN req' = Fields /\ IsSent(req)' /\ req'.url = req.url /\ req'.method = req.method
  <2>1. Alike(req) /\ IsSent(req)
    BY <1>1 DEF At, Alike
  <2>2. IsSent([req EXCEPT !.params = Params])
    BY <2>1, AlikeSent
  <2>3. IsSent(req)'
    BY <1>2, <2>2 DEF IsSent
  <2> QED
    BY <1>2, <2>1, <2>3, AlikeSent
<1>4. /\ outcome'.is = "answering" /\ outcome'.by = name /\ DOMAIN outcome' = {"is", "by", "status", "sync", "under"}
  BY <1>1, <1>2 DEF Idle, At
<1>5. chain' = Pathfind(App, req'.url, req'.method)
  BY <1>1, <1>2, <1>3 DEF Placed, At, Idle
<1>6. Placed'
  BY <1>2, <1>3, <1>4, <1>5 DEF Placed
<1>7. Errors'
  <2>1. outcome'.under = <<>>
    BY <1>2 DEF Idle
  <2>2. ErrorsStayInside'
    BY <1>4, <2>1 DEF ErrorsStayInside
  <2> QED
    BY <1>4, <2>2 DEF Errors
<1> QED
  BY <1>4, <1>6, <1>7

\* A handler that throws leaves the frames for Unwind, which knows what the error is under.
LEMMA ThrowPlaced ==
  ASSUME Placed, NEW name, Turn(name), name \notin Guards, name # "self", NEW status, Throw(status)
  PROVE  Placed' /\ Errors' /\ outcome'.is = "thrown"
<1>1. At(name)
  BY TurnAt
<1>2. /\ req' = [req EXCEPT !.params = Params] /\ at' = at /\ frames' = frames /\ chain' = chain
      /\ outcome' = [is |-> "thrown", by |-> chain[at].name, status |-> status,
                     sync |-> chain[at].name \in Synchronous, under |-> frames]
  BY DEF Throw, Called
<1>3. DOMAIN req' = Fields /\ IsSent(req)' /\ req'.url = req.url /\ req'.method = req.method
  <2>1. Alike(req) /\ IsSent(req)
    BY <1>1 DEF At, Alike
  <2>2. IsSent([req EXCEPT !.params = Params])
    BY <2>1, AlikeSent
  <2>3. IsSent(req)'
    BY <1>2, <2>2 DEF IsSent
  <2> QED
    BY <1>2, <2>1, <2>3, AlikeSent
<1>4. /\ outcome'.is = "thrown" /\ outcome'.by = name /\ DOMAIN outcome' = {"is", "by", "status", "sync", "under"}
      /\ outcome'.under = frames
  BY <1>1, <1>2 DEF At
<1>5. chain' = Pathfind(App, req'.url, req'.method)
  BY <1>1, <1>2, <1>3 DEF Placed, At, Idle
<1>6. Placed'
  BY <1>2, <1>3, <1>4, <1>5 DEF Placed
<1>7. Thrown'
  <2>1. at \in Nat /\ Len(frames) = at - 1 /\ at \in DOMAIN chain /\ chain[at].name = name
    BY <1>1 DEF At
  <2>2. frames \in Seq(HandlerNames) /\ \A i \in DOMAIN frames : frames[i] = chain[i].name
    BY DEF Placed
  <2>3. DOMAIN frames = 1 .. at - 1
    BY <2>1, <2>2
  <2>4. \A i \in Len(frames) + 1 .. at - 1 : FALSE
    BY <2>1
  <2>5. \A i \in Len(frames) + 1 .. at : i = at
    BY <2>1
  <2>6. outcome'.sync => chain[at].name \in Synchronous
    BY <1>2
  <2> QED
    BY <1>2, <1>4, <2>1, <2>2, <2>3, <2>4, <2>5, <2>6 DEF Thrown
<1>8. Errors'
  <2>1. ErrorsStayInside'
    BY <1>4 DEF ErrorsStayInside
  <2> QED
    BY <1>4, <1>7, <2>1 DEF Errors
<1> QED
  BY <1>4, <1>6, <1>8
-----------------------------------------------------------------------------
(* Errors. *)

\* Two numbers that are not above each other are one.
LEMMA SameNumber == ASSUME NEW m \in Nat, NEW n \in Nat, m <= n, n <= m PROVE m = n
  OBVIOUS

\* Of the numbers from n on, each is n or a later one.
LEMMA FirstOrLater ==
  ASSUME NEW n \in Nat, NEW a \in Nat
  PROVE  (\A i \in n .. a - 1 : i = n \/ i \in n + 1 .. a - 1) /\ (\A i \in n .. a : i = n \/ i \in n + 1 .. a)
  OBVIOUS

\* What is not asked of the database is asked in nobody's name.
LEMMA AsksNothing == ASSUME effect'.op \in {"none", "dump"} PROVE AsksInOwnName'
<1>1. ~Doing({"query"} \cup {DbOps[name] : name \in DOMAIN DbOps})'
  BY DEF Doing, DbOps
<1> QED
  BY <1>1, Zenon DEF AsksInOwnName

\* With no effect, none of the promises about effects is broken.
LEMMA Without ==
  ASSUME effect' = NoEffect
  PROVE  Effects'
<1>1. effect'.op = "none"
  BY DEF NoEffect
<1>2. SessionBeforeUse'
  BY <1>1 DEF SessionBeforeUse, Own, Users
<1>3. WritesGranted' /\ ReadsGranted' /\ PathsClimbNowhere'
  BY <1>1 DEF WritesGranted, ReadsGranted, PathsClimbNowhere, Doing
<1>4. AsksInOwnName'
  BY <1>1, AsksNothing
<1>5. SearchMeansQuery' /\ EqualityAgrees'
  BY <1>1 DEF SearchMeansQuery, EqualityAgrees, Doing
<1> QED
  BY <1>2, <1>3, <1>4, <1>5 DEF Effects

\* An error passes the handlers that do not catch it, up to a guard or to requireUser; the
\* branch of optionalUser is not taken.
LEMMA UnwindCases ==
  ASSUME Placed, Errors, Unwind
  PROVE  /\ UNCHANGED <<req, chain, at>>
         /\ \/ /\ frames' = Front(frames) /\ Last(frames) \notin Guards
               /\ outcome' = [outcome EXCEPT !.sync = @ /\ Last(frames) \in Synchronous]
            \/ /\ frames' = frames
               /\ outcome' = [outcome EXCEPT !.is = "answering", !.by = Last(frames),
                                             !.status = IF Last(frames) \in Guards THEN @ ELSE 500]
               /\ Last(frames) \in Guards \/ Last(frames) = "requireUser"
<1> DEFINE frame == Last(frames)
           n == Len(frames)
<1>1. outcome.is = "thrown" /\ frames # <<>> /\ Thrown
  BY DEF Unwind, Errors
<1>2. Chained
  BY <1>1, ChainFound
<1>3. n \in Nat /\ n # 0 /\ frame = frames[n] /\ n \in DOMAIN frames
  <2>1. frames \in Seq(HandlerNames)
    BY DEF Placed
  <2> HIDE DEF HandlerNames
  <2>2. n \in Nat /\ n # 0 /\ DOMAIN frames = 1 .. n
    BY <1>1, <2>1
  <2> QED
    BY <2>2 DEF Last
<1>4. frame = chain[n].name
  BY <1>3 DEF Placed
<1>5. n < at /\ at \in Nat /\ at \in DOMAIN chain
  <2>1. at \in DOMAIN chain /\ n < at
    BY <1>1 DEF Thrown, Placed
  <2>2. chain \in Seq(Entries)
    BY <1>2 DEF Chained
  <2> HIDE DEF Entries
  <2> QED
    BY <2>1, <2>2
<1>6. n \in DOMAIN chain
  <2>1. chain \in Seq(Entries)
    BY <1>2 DEF Chained
  <2> HIDE DEF Entries, n
  <2> QED
    BY <1>3, <1>5, <2>1
<1>7. outcome.sync => frame # "optionalUser"
  <2> SUFFICES ASSUME outcome.sync, frame = "optionalUser" PROVE FALSE
    OBVIOUS
  <2>1. chain[n + 1].name \in {"contextIdentifier", "self"}
    BY <1>2, <1>4, <1>6 DEF Chained
  <2>2. n + 1 \in n + 1 .. at
    BY <1>3, <1>5
  <2>3. chain[n + 1].name \in Synchronous
    BY <1>1, <2>2 DEF Thrown
  <2>4. chain[n + 1].name # "self"
    <3>1. n + 1 = at \/ n + 1 \in 1 .. at - 1
      BY <1>3, <1>5
    <3> QED
      BY <1>1, <3>1 DEF Placed, Thrown
  <2> QED
    BY <2>1, <2>3, <2>4, HandlersAssumption
<1>8. CASE ~Catches(frame, outcome)
  <2>1. frame \notin Guards
    BY <1>8 DEF Catches
  <2> QED
    BY <1>8, <2>1, Zenon DEF Unwind
<1>9. CASE Catches(frame, outcome)
  <2>1. frame \in Guards \/ frame = "requireUser"
    <3>1. frame \in Guards \/ (frame \in Sessions /\ outcome.sync)
      BY <1>9 DEF Catches
    <3> QED
      BY <1>7, <3>1, HandlersAssumption
  <2> QED
    BY <1>9, <2>1, Zenon DEF Unwind
<1> QED
  BY <1>8, <1>9

\* Unwind: an error leaves the innermost handler, or is answered there.
LEMMA UnwindStep ==
  ASSUME Inv, Unwind, Quietly
  PROVE  Inv'
<1> DEFINE frame == Last(frames)
           n == Len(frames)
           under == outcome.under
<1>1. Placed /\ Errors /\ Fingers /\ Effects /\ outcome.is = "thrown" /\ frames # <<>> /\ Thrown /\ Sessioned /\ Under
  BY DEF Inv, Unwind, Errors
<1>2. /\ req' = req /\ chain' = chain /\ at' = at /\ effect' = effect /\ fingers' = fingers
      /\ \/ /\ frames' = Front(frames) /\ frame \notin Guards
            /\ outcome' = [outcome EXCEPT !.sync = @ /\ frame \in Synchronous]
         \/ /\ frames' = frames
            /\ outcome' = [outcome EXCEPT !.is = "answering", !.by = frame, !.status = IF frame \in Guards THEN @ ELSE 500]
            /\ frame \in Guards \/ frame = "requireUser"
  BY <1>1, UnwindCases DEF Quietly
<1>3. /\ frames \in Seq(HandlerNames) /\ n \in Nat /\ n # 0 /\ DOMAIN frames = 1 .. n /\ frame = frames[n]
      /\ frame = chain[n].name /\ n < at
  <2>1. frames \in Seq(HandlerNames)
    BY <1>1 DEF Placed
  <2> HIDE DEF HandlerNames
  <2>2. n \in Nat /\ n # 0 /\ DOMAIN frames = 1 .. n
    BY <1>1, <2>1
  <2> QED
    BY <1>1, <2>1, <2>2 DEF Last, Placed
<1>4. at \in Nat /\ under \in Seq(HandlerNames) /\ Len(under) = at - 1 /\ DOMAIN under = 1 .. at - 1
  <2>1. chain \in Seq(Entries) /\ at \in DOMAIN chain
    BY <1>1, ChainFound DEF Chained, Thrown
  <2>2. at \in Nat
    <3> HIDE DEF Entries
    <3> QED
      BY <2>1
  <2>3. under \in Seq(HandlerNames) /\ Len(under) = at - 1
    BY <1>1 DEF Thrown
  <2> HIDE DEF HandlerNames
  <2> QED
    BY <2>2, <2>3
<1>5. DOMAIN outcome = {"is", "by", "status", "sync", "under"}
  BY <1>1 DEF Errors
<1>6. Sessioned' /\ Under' /\ Fingers'
  <2>1. Passed({"requireUser", "optionalUser"})' <=> Passed({"requireUser", "optionalUser"})
    BY <1>2 DEF Passed
  <2>2. Passed({"requireUser"})' <=> Passed({"requireUser"})
    BY <1>2 DEF Passed
  <2>3. Passed(Middlewares)' <=> Passed(Middlewares)
    BY <1>2 DEF Passed, Middlewares
  <2>4. Passed({"contextIdentifier"})' <=> Passed({"contextIdentifier"})
    BY <1>2 DEF Passed
  <2>5. Passed({"validatePath"})' <=> Passed({"validatePath"})
    BY <1>2 DEF Passed
  <2>6. Sessioned'
    BY <1>1, <1>2, <2>1, <2>2, <2>3, Zenon DEF Sessioned
  <2>7. Under'
    BY <1>1, <1>2, <2>4, <2>5, Zenon DEF Under, Contextual, Granted, NoContext
  <2> QED
    BY <1>1, <1>2, <2>6, <2>7 DEF Fingers
<1>7. ASSUME outcome'.is \in {"answering", "thrown"} PROVE Effects'
  <2>1. \A ops : Doing(ops)' <=> Doing(ops)
    BY <1>1, <1>2, <1>7 DEF Doing
  <2>2. SessionBeforeUse'
    BY <1>1, <1>2 DEF SessionBeforeUse, Effects
  <2>3. WritesGranted' /\ ReadsGranted'
    BY <1>1, <1>2, <1>7, Zenon DEF WritesGranted, ReadsGranted, Effects, NamedApps, Owner, Doing
  <2>4. AsksInOwnName'
    BY <1>1, <1>2, <1>7, Zenon DEF AsksInOwnName, Effects, Doing
  <2>5. SearchMeansQuery' /\ EqualityAgrees'
    BY <1>1, <1>2, <1>7, Zenon DEF SearchMeansQuery, EqualityAgrees, Effects, Doing
  <2>6. outcome'.is \notin {"idle", "running"}
    BY <1>7
  <2>7. PathsClimbNowhere'
    BY <1>1, <1>2, <1>7, <2>1 DEF PathsClimbNowhere, Effects, Owner
  <2> QED
    BY <2>2, <2>3, <2>4, <2>5, <2>6, <2>7 DEF Effects
<1>8. CASE /\ frames' = Front(frames) /\ frame \notin Guards
           /\ outcome' = [outcome EXCEPT !.sync = @ /\ frame \in Synchronous]
  <2>1. frames' \in Seq(HandlerNames) /\ Len(frames') = n - 1 /\ \A i \in 1 .. n - 1 : frames'[i] = frames[i]
    <3>1. frames' = SubSeq(frames, 1, n - 1)
      BY <1>8 DEF Front
    <3> HIDE DEF HandlerNames
    <3> QED
      BY <1>3, <3>1
  <2>2. DOMAIN frames' = 1 .. n - 1
    <3> HIDE DEF HandlerNames
    <3> QED
      BY <1>3, <2>1
  <2>3. /\ outcome'.is = "thrown" /\ outcome'.by = outcome.by /\ outcome'.under = under
        /\ DOMAIN outcome' = {"is", "by", "status", "sync", "under"}
        /\ outcome'.sync => outcome.sync /\ frame \in Synchronous
    BY <1>1, <1>5, <1>8
  <2>4. Placed'
    <3>1. \A i \in 1 .. n - 1 : i \in 1 .. n
      BY <1>3
    <3>2. \A i \in DOMAIN frames' : frames'[i] = chain'[i].name
      BY <1>1, <1>2, <1>3, <2>1, <2>2, <3>1 DEF Placed
    <3>3. Len(frames') < at'
      BY <1>2, <1>3, <1>4, <2>1
    <3> QED
      BY <1>1, <1>2, <2>1, <2>3, <3>2, <3>3 DEF Placed, IsSent
  <2>5. Thrown'
    <3>1. /\ at \in DOMAIN chain /\ chain[at].name # "self" /\ outcome.by \notin Guards
          /\ \A i \in 1 .. at - 1 : under[i] = chain[i].name
          /\ \A i \in n + 1 .. at - 1 : chain[i].name \notin Guards
          /\ outcome.sync => \A i \in n + 1 .. at : chain[i].name \in Synchronous
      BY <1>1 DEF Thrown
    <3>2. /\ \A i \in n .. at - 1 : i = n \/ i \in n + 1 .. at - 1
          /\ \A i \in n .. at : i = n \/ i \in n + 1 .. at
          /\ Len(frames') + 1 = n
      <4>1. Len(frames') + 1 = n
        BY <1>3, <1>4, <2>1
      <4>2. /\ \A i \in n .. at - 1 : i = n \/ i \in n + 1 .. at - 1
            /\ \A i \in n .. at : i = n \/ i \in n + 1 .. at
        BY <1>3, <1>4, FirstOrLater, Zenon
      <4> QED
        BY <4>1, <4>2, Zenon
    <3>3. /\ \A i \in Len(frames') + 1 .. at - 1 : chain[i].name \notin Guards
          /\ outcome'.sync => \A i \in Len(frames') + 1 .. at : chain[i].name \in Synchronous
      BY <1>3, <1>8, <2>3, <3>1, <3>2
    <3> QED
      BY <1>2, <1>4, <2>3, <3>1, <3>3 DEF Thrown
  <2>6. Errors'
    <3>1. ErrorsStayInside'
      BY <2>3, <2>5 DEF ErrorsStayInside, Thrown
    <3> QED
      BY <2>3, <2>5, <3>1 DEF Errors
  <2> QED
    BY <1>6, <1>7, <2>3, <2>4, <2>6 DEF Inv
<1>9. CASE /\ frames' = frames
           /\ outcome' = [outcome EXCEPT !.is = "answering", !.by = frame, !.status = IF frame \in Guards THEN @ ELSE 500]
           /\ frame \in Guards \/ frame = "requireUser"
  <2>1. /\ outcome'.is = "answering" /\ outcome'.by = frame /\ outcome'.under = under
        /\ DOMAIN outcome' = {"is", "by", "status", "sync", "under"}
    BY <1>5, <1>9
  <2>2. Placed'
    BY <1>1, <1>2, <1>9, <2>1 DEF Placed, IsSent
  <2>3. ErrorsStayInside'
    <3> DEFINE guards == {i \in DOMAIN under : under[i] \in Guards}
               sync == chain[at].name \in Synchronous /\ \A j \in n + 1 .. Len(under) : under[j] \in Synchronous
    <3>1. n \in DOMAIN under /\ under[n] = frame
      <4>1. n \in 1 .. at - 1
        BY <1>3, <1>4
      <4>2. under[n] = chain[n].name
        BY <1>1, <4>1 DEF Thrown
      <4> QED
        BY <1>3, <1>4, <4>1, <4>2
    <3>2. \A j \in guards : j <= n
      <4> SUFFICES ASSUME NEW j \in guards, ~(j <= n) PROVE FALSE
        OBVIOUS
      <4>1. j \in 1 .. at - 1 /\ under[j] \in Guards
        BY <1>4
      <4>2. j \in n + 1 .. at - 1
        BY <1>3, <1>4, <4>1
      <4> QED
        BY <1>1, <4>1, <4>2 DEF Thrown
    <3>3. ASSUME frame \notin Guards PROVE frame = "requireUser" /\ outcome'.status = 500 /\ sync
      <4>1. frame = "requireUser" /\ outcome.sync
        BY <1>1, <1>5, <1>9, <2>1, <3>3 DEF Unwind, Catches
      <4>2. outcome'.status = 500
        BY <1>5, <1>9, <3>3
      <4>3. \A i \in n + 1 .. at : chain[i].name \in Synchronous
        BY <1>1, <4>1 DEF Thrown
      <4>4. at \in n + 1 .. at /\ Len(under) = at - 1
        BY <1>3, <1>4
      <4>5. \A j \in n + 1 .. at - 1 : j \in n + 1 .. at /\ j \in 1 .. at - 1
        BY <1>3, <1>4
      <4>6. \A j \in n + 1 .. at - 1 : under[j] = chain[j].name
        BY <1>1, <4>5 DEF Thrown
      <4> QED
        BY <4>1, <4>2, <4>3, <4>4, <4>5, <4>6
    <3>4. outcome'.is # "rejected" /\ outcome'.by = frame /\ outcome'.under = under /\ chain' = chain /\ at' = at
      BY <1>2, <2>1
    <3>5. n \in guards \/ (under[n] = "requireUser" /\ outcome'.status = 500 /\ sync)
      BY <3>1, <3>3
    <3> QED
      BY <3>1, <3>2, <3>4, <3>5 DEF ErrorsStayInside
  <2>4. Errors'
    BY <2>1, <2>3 DEF Errors
  <2> QED
    BY <1>6, <1>7, <2>1, <2>2, <2>4 DEF Inv
<1> QED
  BY <1>2, <1>8, <1>9
-----------------------------------------------------------------------------
(* Requests coming and leaving. *)

\* At first, no request is there.
LEMMA InitInv == ASSUME Init PROVE Inv
<1>1. /\ /\ req = Nothing /\ chain = <<>> /\ at = 1 /\ frames = <<>> /\ outcome = Idle /\ effect = NoEffect
      /\ fingers = {}
  BY DEF Init, RouterInit
<1>2. /\ outcome.is = "idle" /\ outcome.by = "" /\ DOMAIN outcome = {"is", "by", "status", "sync", "under"}
      /\ effect.op = "none"
  BY <1>1 DEF Idle, NoEffect
<1>3. Placed
  <2>1. /\ at \in 1 .. Len(chain) + 1 /\ frames \in Seq(HandlerNames) /\ Len(frames) < at
    <3> HIDE DEF HandlerNames
    <3>1. Len(<<>>) = 0 /\ <<>> \in Seq(HandlerNames)
      OBVIOUS
    <3>2. 1 \in 1 .. 0 + 1 /\ 0 < 1
      OBVIOUS
    <3> QED
      BY <1>1, <3>1, <3>2
  <2>2. /\ \A i \in DOMAIN frames : frames[i] = chain[i].name
        /\ \A j \in 1 .. at - 1 : chain[j].name # "self"
    BY <1>1
  <2> QED
    BY <1>1, <1>2, <2>1, <2>2 DEF Placed, Ended
<1>4. Errors
  <2>1. "" \notin Guards
    BY HandlersAssumption DEF Handlers
  <2> QED
    BY <1>2, <2>1 DEF Errors, ErrorsStayInside
<1>5. Effects
  <2>1. SessionBeforeUse
    BY <1>2 DEF SessionBeforeUse, Own, Users
  <2>2. WritesGranted /\ ReadsGranted /\ PathsClimbNowhere /\ SearchMeansQuery /\ EqualityAgrees
    BY <1>2 DEF WritesGranted, ReadsGranted, PathsClimbNowhere, SearchMeansQuery, EqualityAgrees, Doing
  <2>3. AsksInOwnName
    BY <1>2 DEF AsksInOwnName, Doing, DbOps
  <2> QED
    BY <1>1, <2>1, <2>2, <2>3 DEF Effects
<1> QED
  BY <1>1, <1>2, <1>3, <1>4, <1>5 DEF Inv, Fingers

\* A request comes: nothing has been passed.
LEMMA ComeStep ==
  ASSUME Inv, Come
  PROVE  Inv'
<1>1. Placed /\ Errors /\ Fingers /\ Effects /\ outcome.is = "idle" /\ effect' = effect /\ fingers' = fingers
  BY DEF Inv, Come
<1> DEFINE q(s) == [url |-> s.url, method |-> s.method, token |-> s.token, asks |-> s.asks, body |-> s.body,
                    params |-> Host, query |-> Host, context |-> Host, session |-> Nothing, user |-> Nothing]
<1>2. PICK s \in Sent : Receive(q(s), App)
  BY DEF Come
<1>3. /\ chain' = Pathfind(App, q(s).url, q(s).method) /\ at' = 1 /\ frames' = <<>>
      /\ req' = [q(s) EXCEPT !.query = s.asks, !.context = NoContext]
      /\ outcome' = [Idle EXCEPT !.is = "running"]
  BY <1>2 DEF Receive
<1>4. /\ /\ DOMAIN req' = Fields /\ req'.url = s.url /\ req'.method = s.method /\ req'.token = s.token
      /\ req'.asks = s.asks
      /\ req'.body = s.body /\ req'.session = Nothing /\ req'.user = Nothing /\ req'.context = NoContext
  BY <1>3 DEF Fields
<1>5. outcome'.is = "running"
  BY <1>3 DEF Idle
<1>6. chain' = Pathfind(App, req'.url, req'.method) /\ IsSent(req)'
  <2>1. IsSent(req')
    BY <1>4 DEF IsSent
  <2> QED
    BY <1>3, <1>4, <2>1
<1>7. Len(chain') \in Nat
  <2>1. App \in Seq(Entries)
    BY AppSound DEF Sound
  <2>2. LET c == Pathfind(App, req'.url, req'.method) IN c \in Seq(Entries)
    BY <2>1, FoundPlace
  <2>3. chain' \in Seq(Entries)
    BY <1>6, <2>2
  <2> HIDE DEF Entries
  <2> QED
    BY <2>3
<1>8. Placed'
  <2>1. /\ /\ at' \in 1 .. Len(chain') + 1 /\ frames' \in Seq(HandlerNames) /\ Len(frames') < at'
        /\ Len(frames') = at' - 1
    <3> HIDE DEF HandlerNames
    <3>1. Len(<<>>) = 0 /\ <<>> \in Seq(HandlerNames)
      OBVIOUS
    <3>2. 1 \in 1 .. Len(chain') + 1 /\ 0 < 1 /\ 0 = 1 - 1
      BY <1>7
    <3> QED
      BY <1>3, <3>1, <3>2
  <2>2. /\ \A i \in DOMAIN frames' : frames'[i] = chain'[i].name
        /\ \A j \in 1 .. at' - 1 : chain'[j].name # "self"
    BY <1>3
  <2> QED
    BY <1>3, <1>4, <1>5, <1>6, <2>1, <2>2 DEF Placed
<1>9. Errors'
  BY <1>3, NoErrors
<1>10. Effects'
  <2>1. effect' = NoEffect
    BY <1>1 DEF Effects
  <2> QED
    BY <2>1, Without
<1>11. \A names : ~Passed(names)'
  BY <1>3 DEF Passed
<1>12. Sessioned'
  BY <1>4, <1>11 DEF Sessioned
<1>13. Under'
  BY <1>4, <1>11 DEF Under
<1> QED
  BY <1>1, <1>8, <1>9, <1>10, <1>12, <1>13 DEF Inv, Fingers

\* Leave: the response goes, and with it all that the request had.
LEMMA LeaveStep ==
  ASSUME Inv, Leave
  PROVE  Inv'
<1>1. /\ req' = Nothing /\ chain' = <<>> /\ at' = 1 /\ frames' = <<>> /\ outcome' = Idle /\ effect' = NoEffect
      /\ fingers' = fingers /\ Fingers
  BY DEF Leave, Inv
<1>2. outcome'.is = "idle" /\ outcome'.by = "" /\ DOMAIN outcome' = {"is", "by", "status", "sync", "under"}
  BY <1>1 DEF Idle
<1>3. Placed'
  <2>1. /\ at' \in 1 .. Len(chain') + 1 /\ frames' \in Seq(HandlerNames) /\ Len(frames') < at'
    <3> HIDE DEF HandlerNames
    <3>1. Len(<<>>) = 0 /\ <<>> \in Seq(HandlerNames)
      OBVIOUS
    <3>2. 1 \in 1 .. 0 + 1 /\ 0 < 1
      OBVIOUS
    <3> QED
      BY <1>1, <3>1, <3>2
  <2>2. /\ \A i \in DOMAIN frames' : frames'[i] = chain'[i].name
        /\ \A j \in 1 .. at' - 1 : chain'[j].name # "self"
    BY <1>1
  <2> QED
    BY <1>1, <1>2, <2>1, <2>2 DEF Placed, Ended
<1>4. Errors'
  <2>1. "" \notin Guards
    BY HandlersAssumption DEF Handlers
  <2> QED
    BY <1>2, <2>1 DEF Errors, ErrorsStayInside
<1>5. Effects'
  BY <1>1, Without
<1> QED
  BY <1>1, <1>2, <1>3, <1>4, <1>5 DEF Inv, Fingers

\* When a response arrives, or nobody answered, what the request was stays; only what
\* process() had put on it is given back.
LEMMA FinishStep ==
  ASSUME Inv, Finish, Quietly
  PROVE  Inv'
<1>1. /\ /\ Placed /\ Errors /\ Fingers /\ Effects /\ outcome.is \in {"answering", "running"}
      /\ outcome.is # "idle" /\ Sessioned
  BY DEF Inv, Finish
<1>2. /\ /\ req' = [req EXCEPT !.query = Host, !.params = Host, !.context = Host] /\ frames' = <<>>
      /\ chain' = chain /\ at' = at
      /\ outcome' = [outcome EXCEPT !.is = IF @ = "answering" THEN "answered" ELSE "unanswered"]
      /\ effect' = effect /\ fingers' = fingers
  BY DEF Finish, GivenBack, Quietly
<1>3. DOMAIN req = Fields /\ IsSent(req)
  BY <1>1 DEF Placed
<1>4. /\ DOMAIN req' = Fields /\ req'.url = req.url /\ req'.method = req.method /\ req'.token = req.token
      /\ req'.asks = req.asks /\ req'.body = req.body /\ req'.session = req.session /\ req'.user = req.user
      /\ req'.query = Host /\ req'.params = Host /\ req'.context = Host
  BY <1>2, <1>3 DEF Fields
<1>5. /\ outcome'.is \in {"answered", "unanswered"} /\ outcome'.by = outcome.by /\ outcome'.under = outcome.under
      /\ outcome'.status = outcome.status /\ outcome'.is = "answered" => outcome.is = "answering"
      /\ DOMAIN outcome' = {"is", "by", "status", "sync", "under"}
  BY <1>1, <1>2 DEF Errors
<1>6. IsSent(req)' /\ chain' = Pathfind(App, req'.url, req'.method)
  <2>1. IsSent(req')
    BY <1>3, <1>4 DEF IsSent
  <2> QED
    BY <1>1, <1>2, <1>4, <2>1 DEF Placed
<1>7. Placed'
  <2>1. chain \in Seq(Entries)
    BY <1>1, ChainFound DEF Chained
  <2>2. frames' \in Seq(HandlerNames) /\ Len(frames') < at' /\ at' \in 1 .. Len(chain') + 1
    <3> HIDE DEF HandlerNames, Entries
    <3>1. Len(<<>>) = 0 /\ <<>> \in Seq(HandlerNames)
      OBVIOUS
    <3>2. at \in 1 .. Len(chain) + 1 /\ Len(chain) \in Nat
      BY <1>1, <2>1 DEF Placed
    <3>3. 0 < at
      BY <3>2
    <3> QED
      BY <1>2, <3>1, <3>2, <3>3
  <2>3. \A i \in DOMAIN frames' : frames'[i] = chain'[i].name
    BY <1>2
  <2>4. \A j \in 1 .. at' - 1 : chain'[j].name # "self"
    BY <1>1, <1>2 DEF Placed
  <2> QED
    BY <1>4, <1>5, <1>6, <2>2, <2>3, <2>4 DEF Placed, Ended
<1>8. Errors'
  BY <1>1, <1>2, <1>4, <1>5 DEF Errors, ErrorsStayInside
<1>9. Sessioned'
  <2>1. \A names : Passed(names)' <=> Passed(names)
    BY <1>2 DEF Passed
  <2> QED
    BY <1>1, <1>2, <1>4, <2>1 DEF Sessioned, Passed, Middlewares
<1>10. Effects'
  <2>1. outcome'.is \notin {"answering", "thrown", "running", "idle"}
    BY <1>5
  <2>2. SessionBeforeUse'
    BY <1>1, <1>2, <1>4 DEF SessionBeforeUse, Effects
  <2> QED
    BY <2>1, <2>2 DEF Effects, Doing, WritesGranted, ReadsGranted, PathsClimbNowhere, AsksInOwnName, SearchMeansQuery, EqualityAgrees
<1> QED
  BY <1>1, <1>2, <1>5, <1>7, <1>8, <1>9, <1>10 DEF Inv, Fingers

\* Reject: what no handler was there to answer.
LEMMA RejectStep ==
  ASSUME Inv, Reject, Quietly
  PROVE  Inv'
<1>1. Placed /\ Errors /\ Fingers /\ Effects /\ outcome.is = "thrown" /\ frames = <<>> /\ Thrown /\ Sessioned
  BY DEF Inv, Reject, Errors
<1>2. /\ req' = req /\ frames' = frames /\ chain' = chain /\ at' = at /\ outcome' = [outcome EXCEPT !.is = "rejected"]
      /\ effect' = effect /\ fingers' = fingers
  BY DEF Reject, Quietly
<1>3. /\ outcome'.is = "rejected" /\ outcome'.by = outcome.by /\ outcome'.under = outcome.under
      /\ DOMAIN outcome' = {"is", "by", "status", "sync", "under"}
  BY <1>1, <1>2 DEF Errors
<1>4. Placed'
  BY <1>1, <1>2, <1>3 DEF Placed, IsSent, Ended
<1>5. Errors'
  <2>1. DOMAIN outcome.under = 1 .. at - 1
    <3>1. outcome.under \in Seq(HandlerNames) /\ Len(outcome.under) = at - 1
      BY <1>1 DEF Thrown
    <3> HIDE DEF HandlerNames
    <3> QED
      BY <3>1
  <2>2. \A i \in 1 .. at - 1 : outcome.under[i] \notin Guards
    <3>1. Len(frames) + 1 = 1
      BY <1>1
    <3> QED
      BY <1>1, <3>1 DEF Thrown
  <2>3. ErrorsStayInside'
    BY <1>1, <1>3, <2>1, <2>2 DEF ErrorsStayInside, Thrown
  <2> QED
    BY <1>3, <2>3 DEF Errors
<1>6. Sessioned'
  BY <1>1, <1>2 DEF Sessioned, Passed, Middlewares
<1>7. Effects'
  <2>1. outcome'.is \notin {"answering", "thrown", "running", "idle"}
    BY <1>3
  <2>2. SessionBeforeUse'
    BY <1>1, <1>2 DEF SessionBeforeUse, Effects
  <2> QED
    BY <2>1, <2>2 DEF Effects, Doing, WritesGranted, ReadsGranted, PathsClimbNowhere, AsksInOwnName, SearchMeansQuery, EqualityAgrees
<1> QED
  BY <1>1, <1>2, <1>3, <1>4, <1>5, <1>6, <1>7 DEF Inv, Fingers
-----------------------------------------------------------------------------
(* Steps of handlers. *)

\* What has been passed when a handler goes on: what was, and the handler.
LEMMA PassedNext ==
  ASSUME NEW name, At(name), chain' = chain, at' = at + 1, NEW names
  PROVE  Passed(names)' <=> Passed(names) \/ name \in names
<1>1. at \in Nat \ {0} /\ chain[at].name = name
  BY DEF At
<1>2. \A j \in 1 .. at' - 1 : j \in 1 .. at - 1 \/ j = at
  BY <1>1
<1>3. at \in 1 .. at' - 1 /\ \A j \in 1 .. at - 1 : j \in 1 .. at' - 1
  BY <1>1
<1> QED
  BY <1>1, <1>2, <1>3 DEF Passed

\* When a handler goes on, what it has seen to is kept.
LEMMA PassStep ==
  ASSUME Inv, NEW name, Turn(name), name # "self", NEW q, Alike(q), Pass(q), Quietly,
         q.session \in {Nothing, req.token},
         q.user = IF q.session = Nothing THEN Nothing ELSE q.session.user,
         Passed({"requireUser", "optionalUser"}) \/ name \in {"requireUser", "optionalUser"} => q.session = req.token,
         Passed({"requireUser"}) \/ name \in {"requireUser"} => req.token # Nothing,
         Passed(Middlewares) \/ name \in Middlewares => req.token.context = "user",
         DOMAIN q.context = DOMAIN NoContext,
         Passed({"contextIdentifier"}) \/ name \in {"contextIdentifier"} => Contextual(q),
         Passed({"validatePath"}) \/ name \in {"validatePath"} => Granted(q)
  PROVE  Inv'
<1>1. Placed /\ Effects /\ Fingers
  BY DEF Inv
<1>2. At(name)
  BY <1>1, TurnAt
<1>3. Placed' /\ Errors' /\ outcome'.is = "running"
  BY <1>1, PassPlaced
<1>4. req' = [q EXCEPT !.params = Params] /\ at' = at + 1 /\ chain' = chain /\ effect' = effect /\ fingers' = fingers
  BY DEF Pass, Quietly
<1>5. /\ req'.url = req.url /\ req'.token = req.token /\ req'.session = q.session /\ req'.user = q.user
      /\ req'.context = q.context /\ q.url = req.url /\ q.token = req.token
  BY <1>2, <1>4, AlikeSent DEF At, Alike
<1>6. \A names : Passed(names)' <=> Passed(names) \/ name \in names
  <2>1. ASSUME NEW names PROVE Passed(names)' <=> Passed(names) \/ name \in names
    BY <1>2, <1>4, PassedNext
  <2> QED
    BY <2>1, <1>4 DEF Passed
<1>7. Sessioned'
  <2>1. Passed({"requireUser", "optionalUser"})' => req'.session = req'.token
    BY <1>2, <1>4, <1>5, PassedNext
  <2>2. Passed({"requireUser"})' => req'.token # Nothing
    BY <1>2, <1>4, <1>5, PassedNext
  <2>3. Passed(Middlewares)' => req'.token.context = "user"
    <3>1. Passed(Middlewares)' <=> Passed(Middlewares) \/ name \in Middlewares
      BY <1>2, <1>4, PassedNext
    <3> QED
      BY <1>5, <3>1
  <2> QED
    BY <1>5, <2>1, <2>2, <2>3 DEF Sessioned
<1>8. Under'
  <2>1. Passed({"contextIdentifier"})' => Contextual(q)
    BY <1>2, <1>4, PassedNext
  <2>2. Passed({"validatePath"})' => Granted(q)
    BY <1>2, <1>4, PassedNext
  <2>3. Contextual(q) => Contextual(req)'
    BY <1>5, Zenon DEF Contextual
  <2>4. Granted(q) => Granted(req)'
    BY <1>5, Zenon DEF Granted, Clean
  <2> QED
    BY <1>5, <2>1, <2>2, <2>3, <2>4 DEF Under, NoContext
<1>9. Effects'
  <2>1. outcome.is = "running"
    BY DEF Turn
  <2>2. effect' = NoEffect
    BY <1>1, <1>4, <2>1 DEF Effects
  <2> QED
    BY <2>2, Without
<1> QED
  BY <1>1, <1>3, <1>4, <1>7, <1>8, <1>9 DEF Inv, Fingers

\* A handler that goes on with the request as it is.
LEMMA PlainStep ==
  ASSUME Inv, NEW name, Turn(name), name \notin {"self", "requireUser", "optionalUser", "contextIdentifier", "validatePath"},
         name \in Middlewares => req.token.context = "user", Pass(req), Quietly
  PROVE  Inv'
<1>1. Placed /\ Sessioned /\ Under
  BY DEF Inv, Turn
<1>2. At(name)
  BY <1>1, TurnAt
<1>3. Alike(req)
  BY <1>2 DEF At, Alike
<1>4. /\ /\ req.session \in {Nothing, req.token}
      /\ req.user = (IF req.session = Nothing THEN Nothing ELSE req.session.user)
      /\ Passed({"requireUser", "optionalUser"}) => req.session = req.token
      /\ Passed({"requireUser"}) => req.token # Nothing
      /\ Passed(Middlewares) => req.token.context = "user"
  BY <1>1 DEF Sessioned
<1>5. /\ DOMAIN req.context = DOMAIN NoContext
      /\ Passed({"contextIdentifier"}) => Contextual(req)
      /\ Passed({"validatePath"}) => Granted(req)
  BY <1>1 DEF Under
<1> QED
  BY <1>3, <1>4, <1>5, PassStep

\* and one that answers or throws.
Ends(name) ==
  /\ Placed' /\ Errors' /\ Sessioned' /\ Under' /\ outcome'.is \in {"answering", "thrown"}
  /\ req'.url = req.url /\ req'.token = req.token /\ req'.session = req.session /\ req'.user = req.user
  /\ req'.context = req.context /\ req'.body = req.body

\* A handler that answers or throws keeps the request as it is, but for the parameters.
LEMMA EndStep ==
  ASSUME Inv, NEW name, Turn(name), name \in Handlers,
         NEW status, Answer(status) \/ (Throw(status) /\ name # "self")
  PROVE  Ends(name)
<1>1. Placed /\ Sessioned /\ Under
  BY DEF Inv, Turn
<1>2. At(name)
  BY <1>1, TurnAt
<1>3. name \notin Guards
  BY HandlersAssumption
<1>4. Placed' /\ Errors' /\ outcome'.is \in {"answering", "thrown"}
  BY <1>1, <1>3, AnswerPlaced, ThrowPlaced
<1>5. req' = [req EXCEPT !.params = Params] /\ at' = at /\ chain' = chain
  BY DEF Answer, Throw, Called
<1>6. /\ req'.url = req.url /\ req'.token = req.token /\ req'.session = req.session /\ req'.user = req.user
      /\ req'.context = req.context /\ req'.body = req.body
  <2>1. Alike(req)
    BY <1>2 DEF At, Alike
  <2> QED
    BY <1>2, <1>5, <2>1, AlikeSent DEF At
<1>7. Sessioned'
  BY <1>1, <1>5, <1>6 DEF Sessioned, Passed, Middlewares
<1>8. Under'
  <2>1. Contextual(req) => Contextual(req)'
    BY <1>6, Zenon DEF Contextual
  <2>2. Granted(req) => Granted(req)'
    BY <1>6, Zenon DEF Granted, Clean
  <2> QED
    BY <1>1, <1>5, <1>6, <2>1, <2>2 DEF Under, Passed, NoContext
<1> QED
  BY <1>4, <1>6, <1>7, <1>8 DEF Ends

\* If it did nothing else, no promise about effects is concerned.
LEMMA QuietEnd ==
  ASSUME Inv, NEW name, Turn(name), Ends(name), Quietly
  PROVE  Inv'
<1>1. Effects /\ Fingers /\ outcome.is = "running" /\ effect' = effect /\ fingers' = fingers
  BY DEF Inv, Turn, Quietly
<1>2. effect' = NoEffect
  BY <1>1 DEF Effects
<1>3. Effects'
  BY <1>2, Without
<1> QED
  BY <1>1, <1>3 DEF Inv, Ends, Fingers
-----------------------------------------------------------------------------
(* The middlewares. *)

\* The loggers and the guards of handleError.
LEMMA LogStep ==
  ASSUME Inv, Log \/ Guard
  PROVE  Inv'
<1>1. CASE Log
  <2>1. Turn("log") /\ Pass(req) /\ Quietly
    BY <1>1 DEF Log
  <2> QED
    BY <2>1, PlainStep DEF Middlewares
<1>2. CASE Guard
  <2>1. PICK name \in Guards : Turn(name) /\ Pass(req) /\ Quietly
    BY <1>2 DEF Guard
  <2>2. name \notin Handlers
    BY HandlersAssumption
  <2>3. "self" \in Handlers
    BY DEF Handlers, Answers
  <2>4. /\ name \notin {"self", "requireUser", "optionalUser", "contextIdentifier", "validatePath"}
        /\ name \notin Middlewares
    BY <2>2, <2>3 DEF Handlers, Middlewares
  <2> QED
    BY <2>1, <2>4, PlainStep
<1> QED
  BY <1>1, <1>2

\* validateUserSession: from here on, the session is the token's.
LEMMA SessionStep ==
  ASSUME Inv, NEW name \in {"requireUser", "optionalUser"}, Turn(name), name = "requireUser" => req.token # Nothing,
         Pass(WithSession(req.token)), Quietly
  PROVE  Inv'
<1> DEFINE q == WithSession(req.token)
<1>1. Placed /\ Sessioned /\ Under
  BY DEF Inv, Turn
<1>2. At(name)
  BY <1>1, TurnAt
<1>3. DOMAIN req = Fields
  BY <1>2 DEF At
<1>4. /\ DOMAIN q = Fields /\ q.url = req.url /\ q.method = req.method /\ q.token = req.token /\ q.asks = req.asks
      /\ q.body = req.body /\ q.context = req.context /\ q.session = req.token
      /\ q.user = IF req.token = Nothing THEN Nothing ELSE req.token.user
  BY <1>3 DEF WithSession, Fields
<1>5. Alike(q)
  BY <1>4 DEF Alike
<1>6. name # "self" /\ name \notin Middlewares /\ name # "contextIdentifier" /\ name # "validatePath"
  BY DEF Middlewares
<1>7. Pass(q)
  OBVIOUS
<1> HIDE DEF q
<1>8. Contextual(req) => Contextual(q)
  BY <1>4, Zenon DEF Contextual
<1>9. Granted(req) => Granted(q)
  BY <1>4, Zenon DEF Granted, Clean
<1>10. /\ Passed({"requireUser"}) => req.token # Nothing
       /\ Passed(Middlewares) => req.token.context = "user"
  BY <1>1 DEF Sessioned
<1>11. /\ DOMAIN q.context = DOMAIN NoContext
       /\ Passed({"contextIdentifier"}) => Contextual(q)
       /\ Passed({"validatePath"}) => Granted(q)
  BY <1>1, <1>4, <1>8, <1>9 DEF Under
<1>12. /\ q.session \in {Nothing, req.token}
       /\ q.user = IF q.session = Nothing THEN Nothing ELSE q.session.user
  BY <1>4
<1> QED
  BY <1>4, <1>5, <1>6, <1>7, <1>10, <1>11, <1>12, PassStep

\* RequireUser and OptionalUser: only the first stops a request without a session.
LEMMA RequireUserStep ==
  ASSUME Inv, RequireUser \/ OptionalUser
  PROVE  Inv'
<1>1. CASE OptionalUser
  BY <1>1, SessionStep DEF OptionalUser
<1>2. CASE RequireUser /\ req.token # Nothing
  BY <1>2, SessionStep DEF RequireUser
<1>3. CASE RequireUser /\ req.token = Nothing
  <2>1. Turn("requireUser") /\ Answer(403) /\ Quietly
    BY <1>3 DEF RequireUser
  <2>2. "requireUser" \in Handlers
    BY DEF Handlers
  <2>3. Ends("requireUser")
    BY <2>1, <2>2, EndStep
  <2> QED
    BY <2>1, <2>3, QuietEnd
<1> QED
  BY <1>1, <1>2, <1>3

\* Behind requireUser, the session is the token's.
LEMMA MiddlewareSession ==
  ASSUME Inv, NEW name \in Middlewares, Turn(name)
  PROVE  req.session = req.token /\ req.token # Nothing
<1>1. Placed /\ Sessioned /\ Follows(Middlewares, {"requireUser"})
  BY ChainFound DEF Inv, Turn, Chained
<1>2. Passed({"requireUser"})
  BY <1>1, TurnPassed
<1>3. Passed({"requireUser", "optionalUser"})
  BY <1>2 DEF Passed
<1> QED
  BY <1>1, <1>2, <1>3 DEF Sessioned

\* MustBeUser and TestHandshake: nobody with the session of an app gets on.
LEMMA MiddlewareStep ==
  ASSUME Inv, MustBeUser \/ TestHandshake
  PROVE  Inv'
<1>1. PICK name \in Middlewares :
        /\ Turn(name) /\ Quietly
        /\ \/ req.session.context = "user" /\ Pass(req)
           \/ Throw(403) \/ Throw(404)
  BY Zenon DEF MustBeUser, TestHandshake, Middlewares
<1>2. req.session = req.token
  BY <1>1, MiddlewareSession
<1>3. name \notin {"self", "requireUser", "optionalUser", "contextIdentifier", "validatePath"} /\ name \in Handlers
  BY DEF Middlewares, Handlers
<1>4. CASE req.session.context = "user" /\ Pass(req)
  BY <1>1, <1>2, <1>3, <1>4, PlainStep
<1>5. CASE Throw(403) \/ Throw(404)
  <2>1. Ends(name)
    BY <1>1, <1>3, <1>5, EndStep
  <2> QED
    BY <1>1, <2>1, QuietEnd
<1> QED
  BY <1>1, <1>4, <1>5

\* makeContextIdentifierValidator reads the context and the identifier that the URL begins with.
LEMMA ContextParams ==
  ASSUME Inv, Turn("contextIdentifier"), {"context", "identifier"} \subseteq DOMAIN Params
  PROVE  /\ Len(req.url) >= 3 /\ req.url[1] # "" /\ req.url[2] # ""
         /\ Params.context = req.url[1] /\ Params.identifier = req.url[2]
<1>1. At("contextIdentifier") /\ Chained
  BY TurnAt DEF Inv, At
<1>2. chain[at].route \in {ScopeRoute("db"), ScopeRoute("files")}
  BY <1>1 DEF At, Chained
<1>3. PICK feature \in {"db", "files"} : chain[at].route = ScopeRoute(feature)
  BY <1>2
<1>4. req.url \in Seq(STRING)
  BY <1>1, SentAssumption DEF At, IsSent
<1>5. Params = ParseParams(ScopeRoute(feature), req.url)
  BY <1>3 DEF Params
<1>6. /\ "context" \in DOMAIN ParseParams(ScopeRoute(feature), req.url)
      /\ "identifier" \in DOMAIN ParseParams(ScopeRoute(feature), req.url)
  BY <1>5
<1>7. /\ Len(req.url) >= 3 /\ req.url[1] # "" /\ req.url[2] # ""
      /\ ParseParams(ScopeRoute(feature), req.url).context = req.url[1]
      /\ ParseParams(ScopeRoute(feature), req.url).identifier = req.url[2]
  BY <1>4, <1>6, ScopeParams, Zenon
<1> QED
  BY <1>5, <1>7, Zenon

\* ContextIdentifier: it resolves them with the session of the token.
LEMMA ContextIdentifierStep ==
  ASSUME Inv, ContextIdentifier
  PROVE  Inv'
<1> DEFINE name == "contextIdentifier"
<1>1. Turn("contextIdentifier") /\ Quietly
  BY DEF ContextIdentifier
<1>2. Placed /\ Sessioned /\ Under /\ Chained /\ At(name)
  BY <1>1, TurnAt, ChainFound DEF Inv, Turn
<1>3. DOMAIN req = Fields /\ req.session = req.token
  <2>1. Passed({"optionalUser"})
    BY <1>1, <1>2, TurnPassed DEF Chained
  <2>2. Passed({"requireUser", "optionalUser"})
    BY <2>1 DEF Passed
  <2> QED
    BY <1>2, <2>2 DEF At, Sessioned
<1>4. ~Passed({"validatePath"})
  <2>1. \A k \in DOMAIN chain : k < at /\ chain[k].name = "validatePath" => chain[at].name # "contextIdentifier"
    BY <1>2 DEF Chained, At
  <2>2. /\ chain[at].name = "contextIdentifier" /\ at \in Nat /\ at <= Len(chain) /\ Len(chain) \in Nat
        /\ DOMAIN chain = 1 .. Len(chain)
    BY <1>2 DEF At
  <2>3. ASSUME NEW k \in 1 .. at - 1 PROVE k < at /\ k \in DOMAIN chain
    BY <2>2
  <2> QED
    BY <2>1, <2>2, <2>3 DEF Passed
<1>5. CASE ~({"context", "identifier"} \subseteq DOMAIN Params)
           \/ ("~" \in {Params.context, Params.identifier} /\ req.session = Nothing)
  <2>1. Throw(400)
    BY <1>5 DEF ContextIdentifier
  <2>2. "contextIdentifier" \in Handlers
    BY DEF Handlers
  <2>3. Ends("contextIdentifier")
    BY <1>1, <2>1, <2>2, EndStep
  <2> QED
    BY <1>1, <2>3, QuietEnd
<1>6. CASE ~(~({"context", "identifier"} \subseteq DOMAIN Params)
             \/ ("~" \in {Params.context, Params.identifier} /\ req.session = Nothing))
  <2> DEFINE context    == Resolved(Params.context, req.session, "context")
             identifier == Resolved(Params.identifier, req.session, "identifier")
             c == [NoContext EXCEPT !.context = context, !.identifier = identifier, !.user = UserOf(context, identifier)]
             q == [req EXCEPT !.context = c]
  <2>1. Pass(q)
    BY <1>6 DEF ContextIdentifier
  <2>2. /\ Len(req.url) >= 3 /\ req.url[1] # "" /\ req.url[2] # ""
        /\ Params.context = req.url[1] /\ Params.identifier = req.url[2]
    BY <1>1, <1>6, ContextParams
  <2>3. req.url[1] = "~" \/ req.url[2] = "~" => req.token # Nothing
    BY <1>3, <1>6, <2>2
  <2>4. /\ context = Resolved(req.url[1], req.token, "context")
        /\ identifier = Resolved(req.url[2], req.token, "identifier")
    BY <1>3, <2>2
  <2>5. /\ DOMAIN c = DOMAIN NoContext /\ c.context = context /\ c.identifier = identifier
        /\ c.user = UserOf(context, identifier)
    <3> HIDE DEF context, identifier
    <3> QED
      BY DEF NoContext
  <2> HIDE DEF context, identifier, c
  <2>6. /\ DOMAIN q = Fields /\ q.url = req.url /\ q.method = req.method /\ q.token = req.token /\ q.asks = req.asks
        /\ q.body = req.body /\ q.context = c /\ q.session = req.session /\ q.user = req.user
    BY <1>3 DEF Fields
  <2> HIDE DEF q
  <2>7. Contextual(q)
    BY <2>2, <2>3, <2>4, <2>5, <2>6, Zenon DEF Contextual
  <2>8. Alike(q)
    BY <2>6 DEF Alike
  <2>9. /\ q.session \in {Nothing, req.token} /\ q.session = req.token
        /\ q.user = IF q.session = Nothing THEN Nothing ELSE q.session.user
    BY <1>2, <1>3, <2>6 DEF Sessioned
  <2>10. /\ Passed({"requireUser"}) => req.token # Nothing
         /\ Passed(Middlewares) => req.token.context = "user"
    BY <1>2 DEF Sessioned
  <2>11. name # "self" /\ name \notin Middlewares /\ name \notin {"requireUser"} /\ name \notin {"validatePath"}
    BY DEF Middlewares
  <2>12. DOMAIN q.context = DOMAIN NoContext
    BY <2>5, <2>6
  <2> QED
    BY <1>1, <1>4, <2>1, <2>7, <2>8, <2>9, <2>10, <2>11, <2>12, PassStep
<1> QED
  BY <1>5, <1>6
-----------------------------------------------------------------------------
(* Accounts and the webfinger store. *)

\* What belongs to an account stands behind requireUser, and, where apps may not have it, behind
\* the middlewares that keep their sessions out.
LEMMA OwnSession ==
  ASSUME Inv, NEW name \in Own, Turn(name)
  PROVE  /\ req.session = req.token /\ req.session # Nothing /\ req.user = req.session.user
         /\ name \in Users => req.session.context = "user"
<1>1. Placed /\ Sessioned /\ Follows(Own, {"requireUser"}) /\ Follows(Users, Middlewares)
  BY ChainFound DEF Inv, Turn, Chained
<1>2. Passed({"requireUser"})
  BY <1>1, TurnPassed
<1>3. Passed({"requireUser", "optionalUser"})
  BY <1>2 DEF Passed
<1>4. name \in Users => Passed(Middlewares)
  BY <1>1, TurnPassed
<1> QED
  BY <1>1, <1>2, <1>3, <1>4 DEF Sessioned

\* What a session's token proves.
LEMMA TokenTypes ==
  ASSUME IsSent(req), req.token # Nothing
  PROVE  /\ req.token.user \in DOMAIN Username /\ req.token.user # ""
         /\ req.token.context \in STRING /\ req.token.context # ""
         /\ req.token.identifier \in STRING /\ req.token.identifier # ""
<1>1. PICK s \in Sent : req.token = s.token
  BY DEF IsSent
<1>2. /\ s.token.user \in DOMAIN Username \ {""}
      /\ {s.token.context, s.token.identifier} \subseteq STRING \ {""}
  BY <1>1, SentAssumption
<1> QED
  BY <1>1, <1>2

\* Endpoint: what belongs to an account is done behind the middlewares for it.
LEMMA EndpointStep ==
  ASSUME Inv, Endpoint
  PROVE  Inv'
<1>1. PICK name \in DOMAIN Answers : /\ Turn(name) /\ Did(name, {})
                                     /\ \E status \in Answers[name] : End(status)
  BY Zenon DEF Endpoint
<1>2. PICK status \in Answers[name] : End(status)
  BY <1>1
<1>3. name = "self" => status = 200
  BY <1>2 DEF Answers
<1>4. Answer(status) \/ (Throw(status) /\ name # "self")
  <2>1. CASE name = "self"
    <3>1. 200 < 400
      OBVIOUS
    <3> QED
      BY <1>2, <1>3, <2>1, <3>1 DEF End
  <2>2. CASE name # "self"
    BY <1>2, <2>2 DEF End
  <2> QED
    BY <2>1, <2>2
<1>5. name \in Handlers
  BY DEF Handlers
<1>6. Ends(name)
  BY <1>1, <1>4, <1>5, EndStep
<1>7. effect'.op = name /\ effect'.on = {} /\ fingers' = fingers
  BY <1>1 DEF Did, NoEffect
<1>8. name \notin {"write", "delete", "list", "read", "info", "query"}
  BY DEF Answers
<1>9. SessionBeforeUse'
  <2>1. name \in Users => name \in Own
    BY DEF Users
  <2>2. name \in Own => /\ req'.session = req'.token /\ req'.session # Nothing /\ req'.user = req'.session.user
                        /\ name \in Users => req'.session.context = "user"
    BY <1>1, <1>6, OwnSession DEF Ends
  <2> QED
    BY <1>7, <2>1, <2>2 DEF SessionBeforeUse
<1>10. WritesGranted' /\ ReadsGranted' /\ PathsClimbNowhere' /\ SearchMeansQuery' /\ EqualityAgrees'
  BY <1>7, <1>8 DEF WritesGranted, ReadsGranted, PathsClimbNowhere, SearchMeansQuery, EqualityAgrees, Doing
<1>11. AsksInOwnName'
  BY <1>7 DEF AsksInOwnName
<1>12. Effects'
  BY <1>6, <1>9, <1>10, <1>11 DEF Effects, Ends
<1> QED
  BY <1>6, <1>7, <1>12 DEF Inv, Ends, Fingers

\* Dump: what it gives is neither a file nor asked of the database's API.
LEMMA DumpStep ==
  ASSUME Inv, Dump
  PROVE  Inv'
<1>1. Turn("dump") /\ Answer(200) /\ "dump" \in Handlers
  BY DEF Dump, Handlers
<1>2. Ends("dump")
  BY <1>1, EndStep
<1>3. effect'.op = "dump" /\ fingers' = fingers
  BY DEF Dump, Did, NoEffect
<1>4. SessionBeforeUse'
  BY <1>3 DEF SessionBeforeUse, Own, Users
<1>5. WritesGranted' /\ ReadsGranted' /\ PathsClimbNowhere' /\ SearchMeansQuery' /\ EqualityAgrees'
  BY <1>3 DEF WritesGranted, ReadsGranted, PathsClimbNowhere, SearchMeansQuery, EqualityAgrees, Doing
<1>6. AsksInOwnName'
  BY <1>3, AsksNothing
<1>7. Effects'
  BY <1>2, <1>4, <1>5, <1>6 DEF Effects, Ends
<1> QED
  BY <1>2, <1>3, <1>7 DEF Inv, Ends, Fingers

\* StoreInfo, GetInfo and StorageStats.
LEMMA WebFingerStep ==
  ASSUME Inv, StoreInfo \/ GetInfo \/ StorageStats
  PROVE  Inv'
<1>1. ASSUME NEW name \in {"storeInfo", "getInfo", "storageStats"}, Turn(name), Quietly, NEW status,
             Answer(status) \/ Throw(status)
      PROVE  Inv'
  <2>1. name \in Handlers /\ name # "self"
    BY DEF Handlers
  <2>2. Ends(name)
    BY <1>1, <2>1, EndStep
  <2> QED
    BY <1>1, <2>2, QuietEnd
<1>2. CASE GetInfo
  <2>1. Turn("getInfo") /\ Quietly /\ \E status \in {200, 302, 400, 404} : Answer(status) \/ Throw(status)
    <3> DEFINE remote == req.body.context = "remote"
               found  == Found(req.body.context, req.body.identifier)
    <3>1. /\ Turn("getInfo") /\ Quietly
          /\ \/ Throw(400)
             \/ IF remote THEN Answer(302) ELSE IF found THEN Answer(200) ELSE Throw(404)
      BY <1>2 DEF GetInfo
    <3> HIDE DEF remote, found
    <3>2. Throw(400) \/ Answer(302) \/ Answer(200) \/ Throw(404)
      BY <3>1
    <3> QED
      BY <3>1, <3>2
  <2> QED
    BY <1>1, <2>1
<1>3. CASE StorageStats
  <2>1. Turn("storageStats") /\ Quietly /\ \E status \in {200, 500} : Answer(status) \/ Throw(status)
    BY <1>3, Zenon DEF StorageStats
  <2> QED
    BY <1>1, <2>1
<1>4. CASE StoreInfo
  <2>1. Turn("storeInfo")
    BY <1>4 DEF StoreInfo
  <2>2. CASE Throw(400) /\ Quietly
    BY <1>1, <2>1, <2>2
  <2>3. CASE fingers' = Stored(req.session) /\ effect' = [NoEffect EXCEPT !.op = "storeInfo"] /\ Answer(204)
    <3>1. "storeInfo" \in Handlers /\ "storeInfo" \in Own /\ "storeInfo" \notin Users
      BY DEF Handlers, Own, Users
    <3>2. Ends("storeInfo")
      BY <2>1, <2>3, <3>1, EndStep
    <3>3. req.session = req.token /\ req.session # Nothing /\ req.user = req.session.user
      BY <2>1, <3>1, OwnSession
    <3>4. effect'.op = "storeInfo" /\ effect'.on = {}
      BY <2>3 DEF NoEffect
    <3>5. SessionBeforeUse'
      BY <3>1, <3>2, <3>3, <3>4 DEF SessionBeforeUse, Ends
    <3>6. WritesGranted' /\ ReadsGranted' /\ PathsClimbNowhere' /\ SearchMeansQuery' /\ EqualityAgrees'
      BY <3>4 DEF WritesGranted, ReadsGranted, PathsClimbNowhere, SearchMeansQuery, EqualityAgrees, Doing
    <3>7. AsksInOwnName'
      BY <3>4 DEF AsksInOwnName
    <3>8. Fingers'
      <4>1. IsSent(req)
        BY <2>1, TurnAt DEF Inv, At
      <4>2. req.session.user \in DOMAIN Username /\ req.session.context \in STRING
        BY <3>3, <4>1, TokenTypes
      <4> QED
        BY <2>3, <4>2 DEF Stored, Fingers, Inv
    <3> QED
      BY <3>2, <3>5, <3>6, <3>7, <3>8 DEF Inv, Ends, Effects
  <2> QED
    BY <1>4, <2>2, <2>3, Zenon DEF StoreInfo
<1> QED
  BY <1>2, <1>3, <1>4

\* Behind makeContextIdentifierValidator, the session is the token's, and the context is what
\* the URL begins with, resolved.
LEMMA ScopedContext ==
  ASSUME Inv, NEW name \in Scopeds, Turn(name)
  PROVE  /\ Contextual(req) /\ req.session = req.token /\ IsSent(req)
         /\ req.user = IF req.token = Nothing THEN Nothing ELSE req.token.user
<1>1. /\ Placed /\ Sessioned /\ Under /\ At(name)
      /\ Follows(Scopeds, {"contextIdentifier"}) /\ Follows({"contextIdentifier"}, {"optionalUser"})
  BY ChainFound, TurnAt DEF Inv, Turn, Chained
<1>2. Passed({"contextIdentifier"})
  BY <1>1, TurnPassed
<1>3. PICK j \in 1 .. at - 1 : chain[j].name = "contextIdentifier"
  BY <1>2 DEF Passed
<1>4. at \in Nat /\ at <= Len(chain) /\ Len(chain) \in Nat /\ DOMAIN chain = 1 .. Len(chain)
  BY <1>1 DEF At
<1>5. j \in DOMAIN chain
  BY <1>4
<1>6. PICK k \in 1 .. j - 1 : chain[k].name = "optionalUser"
  BY <1>1, <1>3, <1>5 DEF Follows
<1>7. k \in 1 .. at - 1
  BY <1>4
<1>8. Passed({"requireUser", "optionalUser"})
  BY <1>6, <1>7 DEF Passed
<1>9. req.session = req.token
  BY <1>1, <1>8 DEF Sessioned
<1> QED
  BY <1>1, <1>2, <1>9 DEF Sessioned, Under, At

\* What a database is asked for, at the user and the scope.
InOwnName(asked, url, token) ==
  LET context    == IF url[1] = "~" THEN token.context ELSE url[1]
      identifier == IF url[2] = "~" THEN token.identifier ELSE url[2]
  IN /\ token # Nothing /\ asked[1] = token.user
     /\ asked[2] = CASE context = "user"   -> ""
                     [] context = "secure" -> identifier
                     [] OTHER              -> context

\* The context and the identifier of the request, once resolved, are those that the URL or the
\* session names.
LEMMA NamesScope ==
  ASSUME Contextual(req), req.token # Nothing, NEW k
  PROVE  InOwnName(<<req.token.user, ParseScope(req.context.context, req.context.identifier), k>>, req.url, req.token)
<1> DEFINE asked == <<req.token.user, ParseScope(req.context.context, req.context.identifier), k>>
<1>1. /\ req.context.context = (IF req.url[1] = "~" THEN req.token.context ELSE req.url[1])
      /\ req.context.identifier = (IF req.url[2] = "~" THEN req.token.identifier ELSE req.url[2])
  BY Zenon DEF Contextual, Resolved
<1>2. asked[1] = req.token.user /\ asked[2] = ParseScope(req.context.context, req.context.identifier)
  OBVIOUS
<1> HIDE DEF asked
<1>3. InOwnName(asked, req.url, req.token)
  BY <1>1, <1>2 DEF InOwnName, ParseScope
<1> QED
  BY <1>3 DEF asked
-----------------------------------------------------------------------------
(* The database. *)

\* The calls of the database have none of the other effects.
LEMMA DbOpNames ==
  ASSUME NEW op \in {"query"} \cup {DbOps[name] : name \in DOMAIN DbOps}
  PROVE  op \notin Own /\ op \notin {"write", "delete", "list", "read", "info"}
<1>1. op \in {"query", "get", "add", "put", "del", "search", "batch", "schema", "register", "drop"}
  BY DEF DbOps
<1> QED
  BY <1>1 DEF Own

\* The two searches find the same, where only equality is asked for, but for what NULL leaves open.
Alikes(body) ==
  ~Throws(body) /\ (\A i \in DOMAIN body : body[i].op \in {"", "$eq", "$ne"})
    => \A row \in Rows :
         ResolveQuery(body, row) <=>
           \/ row \in Selected(Rows, CompileQuery(body))
           \/ Undecided(body, row) /\ Meets(body, row)

\* Whatever the database is asked for, it is for the session's user and the URL's scope.
LEMMA OnDbStep ==
  ASSUME Inv, NEW name \in Scopeds, Turn(name), name \in Handlers, name # "self",
         NEW op \in {"query"} \cup {DbOps[n] : n \in DOMAIN DbOps}, NEW keys, NEW found, OnDb(op, keys, found),
         op = "query" => found = {row \in Rows : Meets(req.body, row) /\ ~Undecided(req.body, row)},
         op = "query" => Alikes(req.body)
  PROVE  Inv'
<1>1. /\ Contextual(req) /\ IsSent(req)
      /\ req.user = IF req.token = Nothing THEN Nothing ELSE req.token.user
  BY ScopedContext
<1>2. CASE req.user = Nothing
  <2>1. Throw(500) /\ Quietly
    BY <1>2 DEF OnDb
  <2>2. Ends(name)
    BY <2>1, EndStep
  <2> QED
    BY <2>1, <2>2, QuietEnd
<1>3. CASE req.user # Nothing
  <2> DEFINE scope == ParseScope(req.context.context, req.context.identifier)
             on == {<<req.user, scope, k>> : k \in keys}
  <2>1. /\ effect' = [op |-> op, on |-> on, found |-> found] /\ fingers' = fingers
        /\ Answer(200) \/ Throw(400)
    BY <1>3 DEF OnDb
  <2>2. Ends(name)
    BY <2>1, EndStep
  <2>3. req.token # Nothing /\ req.user = req.token.user
    BY <1>1, <1>3
  <2>4. \A asked \in on : InOwnName(asked, req.url, req.token)
    BY <1>1, <2>3, NamesScope
  <2> HIDE DEF on
  <2>5. effect'.op = op /\ effect'.on = on /\ effect'.found = found
    BY <2>1
  <2>6. op \notin Own /\ op \notin {"write", "delete", "list", "read", "info"}
    BY DbOpNames
  <2>7. SessionBeforeUse'
    BY <2>5, <2>6 DEF SessionBeforeUse, Users
  <2>8. WritesGranted' /\ ReadsGranted' /\ PathsClimbNowhere'
    BY <2>5, <2>6 DEF WritesGranted, ReadsGranted, PathsClimbNowhere, Doing
  <2>9. AsksInOwnName'
    <3>1. req'.url = req.url /\ req'.token = req.token
      BY <2>2 DEF Ends
    <3> QED
      BY <2>4, <2>5, <3>1, Zenon DEF AsksInOwnName, InOwnName
  <2>10. req'.body = req.body
    BY <2>2 DEF Ends
  <2>11. SearchMeansQuery' /\ EqualityAgrees'
    <3>1. SearchMeansQuery'
      BY <2>5, <2>10 DEF SearchMeansQuery, Doing
    <3>2. EqualityAgrees'
      BY <2>5, <2>10 DEF EqualityAgrees, Alikes, Doing
    <3> QED
      BY <3>1, <3>2
  <2>12. Effects'
    BY <2>2, <2>7, <2>8, <2>9, <2>11 DEF Effects, Ends
  <2> QED
    BY <2>1, <2>2, <2>12 DEF Inv, Ends, Fingers
<1> QED
  BY <1>2, <1>3

\* DbCall: keys and tables.
LEMMA DbCallStep ==
  ASSUME Inv, DbCall
  PROVE  Inv'
<1>1. PICK name \in DOMAIN DbOps : Turn(name) /\ OnDb(DbOps[name], Keys(name), {})
  BY DEF DbCall
<1>2. name \in Scopeds /\ name \in Handlers /\ name # "self"
  BY DEF Scopeds, Handlers, DbOps
<1>3. DbOps[name] # "query"
  BY DEF DbOps
<1> QED
  BY <1>1, <1>2, <1>3, OnDbStep

\* A handler in the chain is meant for the request.
LEMMA TurnMeant ==
  ASSUME Inv, NEW name, Turn(name)
  PROVE  \E s \in Sent : /\ req.url = s.url /\ req.method = s.method /\ req.body = s.body
                         /\ Meant(s, name)
<1>1. At(name)
  BY TurnAt DEF Inv
<1>2. PICK s \in Sent : req.url = s.url /\ req.method = s.method /\ req.body = s.body
  BY <1>1 DEF At, IsSent
<1>3. PICK i \in DOMAIN App : chain[at] = App[i] /\ Fits(App[i], req.url, req.method)
  BY <1>1 DEF At, Chained
<1>4. App[i].name = name /\ Fits(App[i], s.url, s.method)
  BY <1>1, <1>2, <1>3, Zenon DEF At
<1>5. Meant(s, name)
  BY <1>4, Zenon DEF Meant
<1> QED
  BY <1>2, <1>5

\* GraphQL: what digestGraphQL lets through is searched for as SQL does.
LEMMA GraphQLStep ==
  ASSUME Inv, GraphQL
  PROVE  Inv'
<1>1. Turn("graphql")
  BY DEF GraphQL
<1>2. "graphql" \in Scopeds /\ "graphql" \in Handlers
  BY DEF Scopeds, Handlers
<1>3. CASE Digested # 0
  <2>1. Answer(Digested) /\ Quietly
    BY <1>3 DEF GraphQL
  <2>2. Ends("graphql")
    BY <1>1, <1>2, <2>1, EndStep
  <2> QED
    BY <1>1, <2>1, <2>2, QuietEnd
<1>4. CASE Digested = 0
  <2> DEFINE found == Selected(Rows, CompileQuery(req.body))
  <2>1. OnDb("query", {""}, found)
    BY <1>4 DEF GraphQL
  <2>2. req.body # Nothing
    BY <1>4 DEF Digested
  <2>3. PICK s \in Sent : req.body = s.body /\ Meant(s, "graphql")
    BY <1>1, TurnMeant
  <2>4. \A row \in Rows : row \in [DOMAIN row -> Cells] /\ req.body \in Queries(row)
    BY <2>2, <2>3, BodiesAssumption
  <2>5. found = {row \in Rows : Meets(req.body, row) /\ ~Undecided(req.body, row)}
    BY <2>4, SelectedMeans, Zenon
  <2>6. Alikes(req.body)
    <3>1. ~Throws(req.body) /\ (\A i \in DOMAIN req.body : req.body[i].op \in {"", "$eq", "$ne"})
            => \A row \in Rows : ResolveQuery(req.body, row) <=> Meets(req.body, row)
      BY <2>4, EqualityMeans, Zenon
    <3>2. \A row \in Rows : Meets(req.body, row) <=> row \in found \/ (Undecided(req.body, row) /\ Meets(req.body, row))
      <4> HIDE DEF found
      <4> QED
        BY <2>5
    <3> HIDE DEF found
    <3>3. ~Throws(req.body) /\ (\A i \in DOMAIN req.body : req.body[i].op \in {"", "$eq", "$ne"})
            => \A row \in Rows : ResolveQuery(req.body, row) <=> row \in found \/ (Undecided(req.body, row) /\ Meets(req.body, row))
      BY <3>1, <3>2, Zenon
    <3> QED
      BY <3>3, Zenon DEF Alikes, found
  <2> HIDE DEF found
  <2> QED
    BY <1>1, <1>2, <2>1, <2>5, <2>6, OnDbStep
<1> QED
  BY <1>3, <1>4
-----------------------------------------------------------------------------
(* The files. *)

\* The handlers of files stand behind validatePath, and so behind the validators of the
\* context and of the session.
LEMMA FileContext ==
  ASSUME Inv, NEW name \in FileOps, Turn(name)
  PROVE  Contextual(req) /\ Granted(req) /\ req.session = req.token
<1>1. /\ Placed /\ Sessioned /\ Under /\ At(name) /\ Follows(FileOps, {"validatePath"})
      /\ Follows(Scopeds, {"contextIdentifier"}) /\ Follows({"contextIdentifier"}, {"optionalUser"})
  BY ChainFound, TurnAt DEF Inv, Turn, Chained
<1>2. Passed({"validatePath"})
  BY <1>1, TurnPassed
<1>3. at \in Nat /\ at <= Len(chain) /\ Len(chain) \in Nat /\ DOMAIN chain = 1 .. Len(chain)
  BY <1>1 DEF At
<1>4. PICK i \in 1 .. at - 1 : chain[i].name = "validatePath"
  BY <1>2 DEF Passed
<1>5. i \in DOMAIN chain /\ "validatePath" \in Scopeds
  BY <1>3 DEF Scopeds
<1>6. PICK j \in 1 .. i - 1 : chain[j].name = "contextIdentifier"
  BY <1>1, <1>4, <1>5 DEF Follows
<1>7. j \in DOMAIN chain /\ j \in 1 .. at - 1
  BY <1>3
<1>8. PICK k \in 1 .. j - 1 : chain[k].name = "optionalUser"
  BY <1>1, <1>6, <1>7 DEF Follows
<1>9. k \in 1 .. at - 1
  BY <1>3
<1>10. Passed({"contextIdentifier"}) /\ Passed({"requireUser", "optionalUser"})
  BY <1>6, <1>7, <1>8, <1>9 DEF Passed
<1> QED
  BY <1>1, <1>2, <1>10 DEF Sessioned, Under

\* What is granted to the paths of an effect is what is promised of it.
LEMMA FileEffect ==
  ASSUME Inv, NEW name, Ends(name), Contextual(req), req.session = req.token,
         NEW op \in {"write", "delete", "list", "read", "info"}, NEW on, Did(op, on),
         op \in {"read", "info"} =>
           \A path \in on : MayRead(path, req.context.user, req.token, req.context.context),
         op \in {"write", "delete", "list"} =>
           on # {} /\ \A path \in on : MayWrite(path, req.context.user, req.token, req.context.context),
         \A path \in on : Clean(path, req)
  PROVE  Inv'
<1>1. effect'.op = op /\ effect'.on = on /\ fingers' = fingers
  BY DEF Did, NoEffect
<1>2. op \notin Own /\ op # "query" /\ op \notin {"query"} \cup {DbOps[n] : n \in DOMAIN DbOps}
  BY DEF Own, DbOps
<1>3. /\ req'.session = req.session /\ req'.token = req.token /\ req'.context = req.context
      /\ Owner' = req.context.user
  BY DEF Ends, Owner, Contextual
<1>4. SessionBeforeUse' /\ AsksInOwnName' /\ SearchMeansQuery' /\ EqualityAgrees'
  BY <1>1, <1>2 DEF SessionBeforeUse, Users, AsksInOwnName, SearchMeansQuery, EqualityAgrees, Doing
<1>5. ASSUME NEW path PROVE AppsPart(path, req.token, req.context.context) <=> NamedApps(path)'
  BY <1>3 DEF AppsPart, NamedApps
<1>6. WritesGranted'
  <2>1. SUFFICES ASSUME op \in {"write", "delete", "list"}
                 PROVE  /\ req'.session # Nothing /\ req'.session = req'.token /\ req'.session.user = Owner'
                        /\ \A path \in on : /\ Inside(path, <<Owner'>>)
                                            /\ req'.session.context = "user" \/ NamedApps(path)'
    BY <1>1 DEF WritesGranted, Doing
  <2>2. on # {} /\ \A path \in on : MayWrite(path, req.context.user, req.token, req.context.context)
    BY <2>1
  <2>3. /\ req.token # Nothing /\ req.token.user = req.context.user
        /\ \A path \in on : /\ Inside(path, <<req.context.user>>)
                            /\ req.token.context = "user" \/ AppsPart(path, req.token, req.context.context)
    BY <2>2, RequestsAssumption DEF MayWrite
  <2> QED
    BY <1>3, <1>5, <2>3
<1>7. ReadsGranted'
  <2>1. SUFFICES ASSUME op \in {"read", "info"}, NEW path \in on
                 PROVE  /\ Inside(path, <<Owner'>>)
                        /\ \/ Inside(path, <<Owner', "public">>)
                           \/ /\ req'.session # Nothing /\ req'.session = req'.token /\ req'.session.user = Owner'
                              /\ \/ req'.session.context = "user" \/ NamedApps(path)'
                                 \/ \E c \in req'.session.collections : Inside(path, <<Owner', "collections", c>>)
    BY <1>1 DEF ReadsGranted, Doing
  <2>2. MayRead(path, req.context.user, req.token, req.context.context)
    BY <2>1
  <2> QED
    BY <1>3, <1>5, <2>2, RequestsAssumption DEF MayRead
<1>8. PathsClimbNowhere'
  <2>1. SUFFICES ASSUME NEW path \in on, NEW i \in DOMAIN path, path[i] \in Dots
                 PROVE  path[i] \in {Owner', req'.context.context, req'.context.identifier}
    BY <1>1 DEF PathsClimbNowhere
  <2> DEFINE Named == {req.context.user, req.context.context, req.context.identifier}
  <2>2. path \in Seq((Spelt \ Dots) \cup Named)
    BY <2>1 DEF Clean
  <2> HIDE DEF Named
  <2>3. path[i] \in Named
    <3>1. ASSUME NEW A, NEW B, NEW s \in Seq((A \ B) \cup Named), NEW j \in DOMAIN s, s[j] \in B PROVE s[j] \in Named
      BY <3>1
    <3> QED
      BY <2>1, <2>2, <3>1, Zenon
  <2> QED
    BY <1>3, <2>3 DEF Named
<1>9. Effects'
  BY <1>4, <1>6, <1>7, <1>8 DEF Effects, Ends
<1> QED
  BY <1>1, <1>9 DEF Inv, Ends, Fingers

\* ReadFile: what validatePath has granted.
LEMMA ReadFileStep ==
  ASSUME Inv, ReadFile
  PROVE  Inv'
<1> DEFINE op == IF "info" \in req.query THEN "info" ELSE "read"
           on == {req.context.path}
<1>1. Turn("readFile") /\ Did(op, on) /\ (Answer(200) \/ Throw(404))
  BY DEF ReadFile
<1>2. op \in {"read", "info"}
  OBVIOUS
<1>3. "readFile" \in FileOps /\ "readFile" \in Handlers
  BY DEF FileOps, Handlers
<1>4. Contextual(req) /\ Granted(req) /\ req.session = req.token
  BY <1>1, <1>3, FileContext
<1>5. \A path \in on : MayRead(path, req.context.user, req.token, req.context.context)
  BY <1>4 DEF Granted
<1>6. \A path \in on : Clean(path, req)
  BY <1>4 DEF Granted
<1>7. Ends("readFile")
  BY <1>1, <1>3, EndStep
<1> HIDE DEF op, on
<1> QED
  BY <1>1, <1>2, <1>4, <1>5, <1>6, <1>7, FileEffect

\* WriteFile and DeleteFile: what it has granted for writing.
LEMMA ChangeStep ==
  ASSUME Inv, WriteFile \/ DeleteFile
  PROVE  Inv'
<1> DEFINE on == {req.context.path}
<1>1. PICK name \in {"writeFile", "deleteFile"}, op \in {"write", "delete"} : Change(name, op)
  BY DEF WriteFile, DeleteFile
<1>2. Turn(name) /\ name \in FileOps /\ name \in Handlers /\ name # "self"
  BY <1>1 DEF Change, FileOps, Handlers
<1>3. CASE req.context.perm # "write"
  <2>1. Throw(403) /\ Quietly
    BY <1>1, <1>3 DEF Change
  <2>2. Ends(name)
    BY <1>2, <2>1, EndStep
  <2> QED
    BY <1>2, <2>1, <2>2, QuietEnd
<1>4. CASE req.context.perm = "write"
  <2>1. Did(op, on) /\ (Answer(204) \/ Throw(500))
    BY <1>1, <1>4 DEF Change
  <2>2. Ends(name)
    BY <1>2, <2>1, EndStep
  <2>3. Contextual(req) /\ Granted(req) /\ req.session = req.token
    BY <1>2, FileContext
  <2>4. on # {} /\ \A path \in on : MayWrite(path, req.context.user, req.token, req.context.context)
    BY <1>4, <2>3 DEF Granted
  <2>5. \A path \in on : Clean(path, req)
    BY <2>3 DEF Granted
  <2> HIDE DEF on
  <2>6. op \notin {"read", "info"}
    OBVIOUS
  <2> QED
    BY <2>1, <2>2, <2>3, <2>4, <2>5, <2>6, FileEffect
<1> QED
  BY <1>3, <1>4

\* validatePath sees the context that the URL names.
LEMMA PathGranted ==
  ASSUME Inv, Turn("validatePath")
  PROVE  LET valid == ValidatePath(Params, req.context.user, req.session) IN
         /\ valid # No => /\ MayRead(valid.path, req.context.user, req.token, req.context.context)
                          /\ Clean(valid.path, req)
         /\ valid.perm = "write" => MayWrite(valid.path, req.context.user, req.token, req.context.context)
<1> DEFINE r == ScopeRoute("files") \o PathRoute
           url == req.url
           p == ParseParams(r, url)
<1>1. "validatePath" \in Scopeds
  BY DEF Scopeds
<1>2. Contextual(req) /\ req.session = req.token /\ IsSent(req)
  BY <1>1, ScopedContext
<1>3. At("validatePath") /\ Chained
  BY TurnAt DEF Inv, At
<1>4. chain[at].route = r
  BY <1>3 DEF At, Chained
<1>5. Matches(r, url, TRUE)
  <2>1. Matches(chain[at].route, url, chain[at].type = "")
    BY <1>3 DEF At, Chained, Fits
  <2> QED
    BY <1>4, <2>1 DEF Matches
<1>6. url \in Seq(STRING)
  BY <1>2, SentAssumption DEF IsSent
<1>7. /\ Len(url) >= 5 /\ p.context = url[1] /\ p.identifier = url[2]
      /\ p.path = SubSeq(url, 5, Len(url))
  BY <1>5, <1>6, PathParams
<1>8. p.path \in Seq(STRING) /\ p.path # <<>>
  <2> DEFINE k == 5
  <2>1. k \in 1 .. Len(url)
    BY <1>6, <1>7
  <2> HIDE DEF k
  <2>2. SubSeq(url, k, Len(url)) \in Seq(STRING) /\ SubSeq(url, k, Len(url)) # <<>>
    BY <1>6, <2>1, RestParts
  <2> QED
    BY <1>7, <2>2 DEF k
<1>9. Params = p
  BY <1>4 DEF Params
<1> DEFINE app == req.context.context
<1>10. /\ p.context # "~" => app = p.context
       /\ p.context = "~" /\ req.token # NoSession => app = req.token.context
  BY <1>2, <1>7 DEF Contextual, Resolved
<1>11. "~" \in Spelt \ Dots
  BY DotsAssumption DEF Spelt
<1> DEFINE A == Spelt \ Dots
           Named == {req.context.user, req.context.context, req.context.identifier}
<1>12. {req.context.user, p.context, p.identifier} \subseteq A \cup Named
  <2>1. p.context \in {"~", req.context.context} /\ p.identifier \in {"~", req.context.identifier}
    BY <1>2, <1>7 DEF Contextual, Resolved
  <2> HIDE DEF p, A
  <2> QED
    BY <1>11, <2>1 DEF A
<1> HIDE DEF p, app
<1>13. LET v == ValidatePath(p, req.context.user, req.token) IN
       /\ v # No => MayRead(v.path, req.context.user, req.token, app)
       /\ v.perm = "write" => MayWrite(v.path, req.context.user, req.token, app)
  BY <1>8, <1>10, PathsGranted
<1> HIDE DEF A, Named
<1>14. LET v == ValidatePath(p, req.context.user, req.token) IN v # No => v.path \in Seq(A \cup Named)
  <2>1. LET v == ValidatePath(p, req.context.user, req.token)
        IN v # No => v.path \in Seq(A \cup {req.context.user, p.context, p.identifier})
    BY <1>8, SpeltOut, PathsClean DEF A
  <2>2. ASSUME NEW B, NEW C, B \subseteq C PROVE Seq(B) \subseteq Seq(C)
    BY <2>2
  <2>3. A \cup {req.context.user, p.context, p.identifier} \subseteq A \cup Named
    BY <1>12
  <2> QED
    BY <2>1, <2>2, <2>3
<1> QED
  BY <1>2, <1>9, <1>13, <1>14 DEF app, Clean, A, Named

\* ValidatePathOf: what it leaves on the request is granted to the request's session.
LEMMA ValidatePathStep ==
  ASSUME Inv, ValidatePathOf
  PROVE  Inv'
<1> DEFINE name == "validatePath"
           valid == ValidatePath(Params, req.context.user, req.session)
           q == [req EXCEPT !.context.path = valid.path, !.context.perm = valid.perm]
<1>1. Turn(name) /\ Quietly /\ name \in Handlers /\ name \in Scopeds /\ name # "self"
  BY DEF ValidatePathOf, Handlers, Scopeds
<1>2. CASE Throw(500) \/ Throw(403)
  <2>1. Ends(name)
    BY <1>1, <1>2, EndStep
  <2> QED
    BY <1>1, <2>1, QuietEnd
<1>3. CASE valid # No /\ Pass(q)
  <2>1. /\ Placed /\ Sessioned /\ Under /\ At(name)
        /\ DOMAIN req = Fields /\ DOMAIN req.context = DOMAIN NoContext
    BY <1>1, TurnAt DEF Inv, Turn, Under, At
  <2>2. Contextual(req) /\ req.session = req.token
    BY <1>1, ScopedContext
  <2>3. /\ MayRead(valid.path, req.context.user, req.token, req.context.context)
        /\ Clean(valid.path, req)
        /\ valid.perm = "write" => MayWrite(valid.path, req.context.user, req.token, req.context.context)
    BY <1>1, <1>3, PathGranted
  <2> HIDE DEF valid
  <2> DEFINE c == [req.context EXCEPT !.path = valid.path, !.perm = valid.perm]
  <2>4. /\ DOMAIN c = DOMAIN NoContext /\ c.context = req.context.context /\ c.identifier = req.context.identifier
        /\ c.user = req.context.user /\ c.path = valid.path /\ c.perm = valid.perm
    BY <2>1 DEF NoContext
  <2>5. q = [req EXCEPT !.context = c]
    BY <2>1 DEF Fields, NoContext
  <2> HIDE DEF c
  <2>6. /\ DOMAIN q = Fields /\ q.url = req.url /\ q.method = req.method /\ q.token = req.token /\ q.asks = req.asks
        /\ q.body = req.body /\ q.context = c /\ q.session = req.session /\ q.user = req.user
    BY <2>1, <2>5 DEF Fields
  <2>7. Pass(q)
    BY <1>3
  <2> HIDE DEF q
  <2>8. Contextual(q)
    BY <2>2, <2>4, <2>6, Zenon DEF Contextual
  <2>9. Granted(q)
    BY <2>3, <2>4, <2>6 DEF Granted, Clean
  <2>10. Alike(q)
    BY <2>6 DEF Alike
  <2>11. /\ q.session \in {Nothing, req.token} /\ q.session = req.token
         /\ q.user = IF q.session = Nothing THEN Nothing ELSE q.session.user
    BY <2>1, <2>2, <2>6 DEF Sessioned
  <2>12. /\ Passed({"requireUser"}) => req.token # Nothing
         /\ Passed(Middlewares) => req.token.context = "user"
    BY <2>1 DEF Sessioned
  <2>13. name \notin Middlewares /\ name \notin {"requireUser"}
    BY DEF Middlewares
  <2>14. DOMAIN q.context = DOMAIN NoContext
    BY <2>4, <2>6
  <2> QED
    BY <1>1, <2>7, <2>8, <2>9, <2>10, <2>11, <2>12, <2>13, <2>14, PassStep
<1> HIDE DEF valid, q
<1>4. Throw(500) \/ Throw(403) \/ (valid # No /\ Pass(q))
  BY DEF ValidatePathOf, valid, q
<1> QED
  BY <1>2, <1>3, <1>4

\* Validated: what list-files and batch-info ask for, each with paths of its own, is granted likewise.
LEMMA ValidatedGranted ==
  ASSUME Inv, NEW name \in Scopeds, Turn(name), NEW root, NEW path \in Seq(Spelt), path # <<>>
  PROVE  LET v == Validated(root, path) IN
         /\ v # No => MayRead(v.path, req.context.user, req.token, req.context.context) /\ Clean(v.path, req)
         /\ v.perm = "write" => MayWrite(v.path, req.context.user, req.token, req.context.context)
<1> DEFINE p == [context |-> req.context.context, identifier |-> req.context.identifier, root |-> root, path |-> path]
           app == req.context.context
<1>1. Contextual(req) /\ req.session = req.token
  BY ScopedContext
<1>2. p.path = path /\ p.context = app /\ p.identifier = req.context.identifier
  OBVIOUS
<1>3. p.context = "~" /\ req.token # NoSession => app = req.token.context
  BY <1>1, <1>2 DEF Contextual, Resolved
<1>4. Validated(root, path) = ValidatePath(p, req.context.user, req.token)
  BY <1>1 DEF Validated
<1> HIDE DEF p, app
<1>5. LET v == ValidatePath(p, req.context.user, req.token) IN
      /\ v # No => MayRead(v.path, req.context.user, req.token, app)
      /\ v.perm = "write" => MayWrite(v.path, req.context.user, req.token, app)
  BY <1>2, <1>3, PathsGranted
<1>6. LET v == ValidatePath(p, req.context.user, req.token)
      IN v # No => v.path \in Seq((Spelt \ Dots) \cup {req.context.user, p.context, p.identifier})
  BY <1>2, PathsClean
<1> QED
  BY <1>2, <1>4, <1>5, <1>6 DEF app, Clean

\* ListFiles: a folder, granted for writing.
LEMMA ListFilesStep ==
  ASSUME Inv, ListFiles
  PROVE  Inv'
<1> DEFINE name == "listFiles"
           path == Field(Params, "path", <<"">>)
           valid == Validated(Field(Params, "root", "none"), path)
           on == {valid.path}
<1>1. Turn(name) /\ name \in Handlers /\ name \in Scopeds /\ name # "self"
  BY DEF ListFiles, Handlers, Scopeds
<1>2. CASE (Throw(500) \/ Throw(403)) /\ Quietly
  <2>1. Ends(name)
    BY <1>1, <1>2, EndStep
  <2> QED
    BY <1>1, <1>2, <2>1, QuietEnd
<1>3. CASE valid.perm = "write" /\ Did("list", on) /\ (Answer(200) \/ Throw(500))
  <2>1. Ends(name)
    BY <1>1, <1>3, EndStep
  <2>2. Contextual(req) /\ req.session = req.token /\ IsSent(req)
    BY <1>1, ScopedContext
  <2>3. req.url \in Seq(STRING)
    BY <2>2, SentAssumption DEF IsSent
  <2>4. path \in Seq(Spelt) /\ path # <<>>
    <3>1. CASE "path" \in DOMAIN Params
      <4>1. Params = ParseParams(ScopeRoute("files") \o ListRoute, req.url)
        <5>1. At(name) /\ Chained
          BY <1>1, TurnAt DEF Inv, At
        <5>2. chain[at].route = ScopeRoute("files") \o ListRoute
          BY <5>1 DEF At, Chained
        <5> QED
          BY <5>2 DEF Params
      <4>2. Params.path \in Seq(STRING) /\ Params.path # <<>>
        BY <2>3, <3>1, <4>1, ListParams
      <4>3. path = Params.path
        BY <3>1 DEF Field
      <4> HIDE DEF path
      <4> QED
        BY <4>2, <4>3, SpeltOut
    <3>2. CASE "path" \notin DOMAIN Params
      <4>1. path = <<"">>
        BY <3>2 DEF Field
      <4>2. ASSUME NEW T, NEW e \in T PROVE <<e>> \in Seq(T) /\ <<e>> # <<>>
        OBVIOUS
      <4>3. "" \in Spelt
        BY DEF Spelt
      <4> HIDE DEF path
      <4> QED
        BY <4>1, <4>2, <4>3, Zenon
    <3> QED
      BY <3>1, <3>2
  <2> HIDE DEF path
  <2>5. MayWrite(valid.path, req.context.user, req.token, req.context.context) /\ Clean(valid.path, req)
    BY <1>1, <1>3, <2>4, ValidatedGranted DEF No
  <2>6. on # {} /\ \A x \in on : MayWrite(x, req.context.user, req.token, req.context.context) /\ Clean(x, req)
    BY <2>5
  <2> HIDE DEF on, valid
  <2> QED
    BY <1>3, <2>1, <2>2, <2>6, FileEffect
<1> HIDE DEF valid
<1>4. \/ (Throw(500) \/ Throw(403)) /\ Quietly
      \/ valid.perm = "write" /\ Did("list", on) /\ (Answer(200) \/ Throw(500))
  BY DEF ListFiles, valid, path
<1> QED
  BY <1>2, <1>3, <1>4

\* Batched: a path of batch-info is not empty, whatever it begins with.
LEMMA BatchedType ==
  ASSUME NEW path \in Seq(STRING), path # <<>>
  PROVE  Batched(path, Begins).path \in Seq(Spelt) /\ Batched(path, Begins).path # <<>>
<1> DEFINE found == {i \in DOMAIN Roots : Roots[i] = path[1] \/ <<Roots[i], path[1]>> \in Begins}
           first == CHOOSE i \in found : \A j \in found : i <= j
           root  == Roots[first]
<1>1. Batched(path, Begins).path = IF found = {} THEN path ELSE <<root>>
  BY DEF Batched
<1>2. found \subseteq 1 .. 4 /\ \A i \in 1 .. 4 : Roots[i] \in Spelt
  BY DEF Roots, Spelt
<1> HIDE DEF found
<1>3. found # {} => first \in found
  <2>1. ASSUME found # {} PROVE \E i \in found : \A j \in found : i <= j
    <3>1. \A i \in found : i \in {1, 2, 3, 4}
      BY <1>2
    <3>2. CASE 1 \in found
      BY <3>1, <3>2
    <3>3. CASE 1 \notin found /\ 2 \in found
      BY <3>1, <3>3
    <3>4. CASE 1 \notin found /\ 2 \notin found /\ 3 \in found
      BY <3>1, <3>4
    <3>5. CASE 1 \notin found /\ 2 \notin found /\ 3 \notin found
      BY <2>1, <3>1, <3>5
    <3> QED
      BY <3>2, <3>3, <3>4, <3>5
  <2> QED
    BY <2>1
<1> HIDE DEF first
<1>4. found # {} => root \in Spelt
  BY <1>2, <1>3
<1> HIDE DEF root
<1>5. ASSUME NEW T, NEW e \in T PROVE <<e>> \in Seq(T) /\ <<e>> # <<>>
  OBVIOUS
<1> QED
  BY <1>1, <1>4, <1>5, SpeltOut

\* BatchInfo: those of the paths that are granted; the others are skipped.
LEMMA BatchInfoStep ==
  ASSUME Inv, BatchInfo
  PROVE  Inv'
<1> DEFINE name == "batchInfo"
           batched   == {Batched(path, Begins) : path \in req.body}
           validated == {Validated(b.root, b.path) : b \in batched} \ {No}
           on == {v.path : v \in validated}
<1>1. Turn(name) /\ name \in Handlers /\ name \in Scopeds /\ name # "self"
  BY DEF BatchInfo, Handlers, Scopeds
<1>2. CASE Throw(500) /\ Quietly
  <2>1. Ends(name)
    BY <1>1, <1>2, EndStep
  <2> QED
    BY <1>1, <1>2, <2>1, QuietEnd
<1>3. CASE Did("info", on) /\ Answer(200)
  <2>1. Ends(name)
    BY <1>1, <1>3, EndStep
  <2>2. Contextual(req) /\ req.session = req.token
    BY <1>1, ScopedContext
  <2>3. PICK s \in Sent : req.body = s.body /\ Meant(s, "batchInfo")
    BY <1>1, TurnMeant
  <2>4. req.body \subseteq Seq(STRING) \ {<<>>}
    BY <2>3, BodiesAssumption
  <2>5. ASSUME NEW x \in on
        PROVE  MayRead(x, req.context.user, req.token, req.context.context) /\ Clean(x, req)
    <3>1. PICK v \in validated : x = v.path
      OBVIOUS
    <3>2. PICK path \in req.body : v = Validated(Batched(path, Begins).root, Batched(path, Begins).path) /\ v # No
      BY <3>1
    <3>3. Batched(path, Begins).path \in Seq(Spelt) /\ Batched(path, Begins).path # <<>>
      BY <2>4, <3>2, BatchedType
    <3> QED
      BY <1>1, <3>1, <3>2, <3>3, ValidatedGranted
  <2> HIDE DEF on
  <2> QED
    BY <1>3, <2>1, <2>2, <2>5, FileEffect
<1> HIDE DEF on
<1>4. (Throw(500) /\ Quietly) \/ (Did("info", on) /\ Answer(200))
  BY DEF BatchInfo, on
<1> QED
  BY <1>2, <1>3, <1>4

\* A step that changes nothing.
LEMMA SameStep ==
  ASSUME Inv, UNCHANGED vars
  PROVE  Inv'
<1>1. /\ req' = req /\ chain' = chain /\ at' = at /\ frames' = frames /\ outcome' = outcome
      /\ effect' = effect /\ fingers' = fingers
  BY DEF vars, routerVars
<1>2. Placed'
  BY <1>1 DEF Inv, Placed, IsSent
<1>3. Errors'
  BY <1>1 DEF Inv, Errors, Thrown, ErrorsStayInside
<1>4. Fingers'
  BY <1>1 DEF Inv, Fingers
<1>5. Effects'
  <2>1. SessionBeforeUse' /\ WritesGranted' /\ ReadsGranted' /\ PathsClimbNowhere'
    BY <1>1 DEF Inv, Effects, SessionBeforeUse, WritesGranted, ReadsGranted, PathsClimbNowhere, Doing, Owner, NamedApps
  <2>2. AsksInOwnName' /\ SearchMeansQuery' /\ EqualityAgrees'
    BY <1>1 DEF Inv, Effects, AsksInOwnName, SearchMeansQuery, EqualityAgrees, Doing
  <2> QED
    BY <1>1, <2>1, <2>2 DEF Inv, Effects
<1>6. outcome'.is # "idle" => Sessioned'
  BY <1>1 DEF Inv, Sessioned, Passed
<1>7. outcome'.is \in {"running", "answering", "thrown"} => Under'
  BY <1>1 DEF Inv, Under, Passed
<1> QED
  BY <1>2, <1>3, <1>4, <1>5, <1>6, <1>7 DEF Inv

\* Every step keeps the invariant.
LEMMA NextStep ==
  ASSUME Inv, [Next]_vars
  PROVE  Inv'
<1>1. CASE Come \/ Leave
  BY <1>1, ComeStep, LeaveStep
<1>2. CASE Process
  BY <1>2, UnwindStep, FinishStep, RejectStep DEF Process
<1>3. CASE Log \/ Guard \/ RequireUser \/ OptionalUser \/ ContextIdentifier
  BY <1>3, LogStep, RequireUserStep, ContextIdentifierStep
<1>4. CASE Endpoint \/ Dump \/ MustBeUser \/ TestHandshake
  BY <1>4, EndpointStep, DumpStep, MiddlewareStep
<1>5. CASE DbCall \/ GraphQL
  BY <1>5, DbCallStep, GraphQLStep
<1>6. CASE ValidatePathOf \/ ReadFile \/ WriteFile \/ DeleteFile \/ ListFiles \/ BatchInfo
  BY <1>6, ValidatePathStep, ReadFileStep, ChangeStep, ListFilesStep, BatchInfoStep
<1>7. CASE StorageStats \/ StoreInfo \/ GetInfo
  BY <1>7, WebFingerStep
<1>8. CASE UNCHANGED vars
  BY <1>8, SameStep
<1> QED
  BY <1>1, <1>2, <1>3, <1>4, <1>5, <1>6, <1>7, <1>8 DEF Next
-----------------------------------------------------------------------------
(* What is promised is not forbidden. *)

\* The two sides of what is promised: the file that the URL names, and whose the session is.
Named ==
  LET context == req.url[1]
  IN /\ Len(req.url) > 4 /\ req.url[3] = "files" /\ UserOf(context, req.url[2]) # Nothing
     /\ "~" \notin {context, req.url[2]} /\ {<<"auth", context>>, <<"gaia", context>>} \cap Begins = {}
Theirs ==
  LET context == req.url[1]
      token   == req.token
  IN /\ token # Nothing /\ token.user = UserOf(context, req.url[2])
     /\ \/ token.context = "user"
        \/ token.context = context /\ context # "collections" /\ req.url[4] \in {"public", "private"}

\* Besides what the invariant says: what is forbidden was not promised, and behind validatePath
\* the session has been granted all that it was promised.
Kept ==
  /\ outcome.status = 403 => ~Promised
  /\ outcome.is = "running" /\ Passed({"validatePath"}) /\ Named /\ Theirs => req.context.perm = "write"

\* A promise names a file, and is made to everyone who reads or to the session.
LEMMA PromisedParts == Promised <=> Named /\ ((req.method = "GET" /\ req.url[4] = "public") \/ Theirs)
  BY Zenon DEF Promised, Named, Theirs

\* It depends only on what was sent.
LEMMA SamePromise ==
  ASSUME req'.url = req.url, req'.method = req.method, req'.token = req.token
  PROVE  (Promised' <=> Promised) /\ (Named' <=> Named) /\ (Theirs' <=> Theirs)
<1>1. Promised' <=> Promised
  BY Zenon DEF Promised
<1>2. Named' <=> Named
  BY Zenon DEF Named
<1>3. Theirs' <=> Theirs
  BY Zenon DEF Theirs
<1> QED
  BY <1>1, <1>2, <1>3

\* No handler that may refuse on its own account stands in the chain of a request that names a file.
LEMMA RefusedElsewhere ==
  ASSUME Placed, NEW name \in Refusing, Turn(name)
  PROVE  ~Named
<1>1. At(name)
  BY TurnAt
<1>2. PICK i \in DOMAIN App : chain[at] = App[i] /\ Fits(App[i], req.url, req.method)
  BY <1>1 DEF At, Chained
<1>3. App[i] \in Entries /\ Elsewhere(App[i])
  <2>1. App[i].name \in Refusing
    BY <1>1, <1>2 DEF At
  <2>2. Elsewhere(App[i])
    BY <2>1, AppApart DEF Apart, Aside
  <2>3. App \in Seq(Entries)
    BY AppApart
  <2> HIDE DEF Entries
  <2> QED
    BY <2>2, <2>3
<1>4. req.url \in Seq(STRING)
  BY <1>1, SentAssumption DEF At, IsSent
<1>5. Len(req.url) > 4 => {<<"auth", req.url[1]>>, <<"gaia", req.url[1]>>} \cap Begins # {}
  BY <1>2, <1>3, <1>4, FarAway
<1> QED
  BY <1>5 DEF Named

\* A handler that goes on.
LEMMA KeptPass ==
  ASSUME Inv, Kept, NEW name, Turn(name), name # "validatePath", NEW q, Alike(q), Pass(q),
         q.context = req.context \/ ~Passed({"validatePath"})
  PROVE  Kept'
<1>1. At(name)
  BY TurnAt DEF Inv
<1>2. req' = [q EXCEPT !.params = Params] /\ at' = at + 1 /\ chain' = chain /\ outcome' = outcome
  BY DEF Pass
<1>3. req'.url = req.url /\ req'.method = req.method /\ req'.token = req.token /\ req'.context = q.context
  BY <1>1, <1>2, AlikeSent DEF At
<1>4. outcome'.status # 403
  <2>1. outcome'.status = 0
    BY <1>1, <1>2, Zenon DEF At, Idle
  <2> QED
    BY <2>1
<1>5. Passed({"validatePath"})' <=> Passed({"validatePath"})
  <2>1. Passed({"validatePath"})' <=> Passed({"validatePath"}) \/ name \in {"validatePath"}
    BY <1>1, <1>2, PassedNext
  <2> QED
    BY <2>1
<1>6. (Named' <=> Named) /\ (Theirs' <=> Theirs)
  BY <1>3, SamePromise
<1>7. outcome'.is = "running" /\ Passed({"validatePath"})' /\ Named' /\ Theirs' => req'.context.perm = "write"
  BY <1>2, <1>3, <1>5, <1>6, Zenon DEF Kept
<1> QED
  BY <1>4, <1>7 DEF Kept

\* One that answers or throws.
LEMMA KeptEnd ==
  ASSUME Inv, NEW name, Turn(name), NEW status, Answer(status) \/ Throw(status), status = 403 => ~Promised
  PROVE  Kept'
<1>1. At(name)
  BY TurnAt DEF Inv
<1>2. /\ req' = [req EXCEPT !.params = Params]
      /\ outcome'.is \in {"answering", "thrown"} /\ outcome'.status = status
  <2>1. CASE Answer(status)
    BY <2>1, Zenon DEF Answer, Called, Idle
  <2>2. CASE Throw(status)
    BY <2>2, Zenon DEF Throw, Called
  <2> QED
    BY <2>1, <2>2
<1>3. Alike(req) /\ IsSent(req)
  BY <1>1 DEF At, Alike
<1>4. req'.url = req.url /\ req'.method = req.method /\ req'.token = req.token
  BY <1>2, <1>3, AlikeSent
<1>5. Promised' <=> Promised
  BY <1>4, SamePromise
<1> QED
  BY <1>2, <1>5 DEF Kept

\* The context of a request that names a file is the one that its URL names.
LEMMA NamedContext ==
  ASSUME Contextual(req), IsSent(req), Named
  PROVE  /\ req.context.context = req.url[1] /\ req.context.identifier = req.url[2]
         /\ req.context.user = UserOf(req.url[1], req.url[2]) /\ req.context.user # Nothing
         /\ req.url[1] \notin {"~", NoSession} /\ req.url[2] \notin {"~", NoSession} /\ req.url[1] # "secure"
<1>1. req.url \in Seq(STRING)
  BY SentAssumption DEF IsSent
<1>2. "~" \notin {req.url[1], req.url[2]} /\ UserOf(req.url[1], req.url[2]) # Nothing
  BY DEF Named
<1>3. req.url[1] \in STRING /\ req.url[2] \in STRING
  <2>1. Len(req.url) > 4
    BY DEF Named
  <2> QED
    BY <1>1, <2>1
<1>4. req.url[1] # NoSession /\ req.url[2] # NoSession
  BY <1>3, RequestsAssumption
<1>5. \A identifier : UserOf("secure", identifier) = Nothing
  BY DEF UserOf
<1> QED
  BY <1>2, <1>4, <1>5 DEF Contextual, Resolved

\* validatePath grants what was promised.
LEMMA PathPromised ==
  ASSUME Inv, Turn("validatePath"), Named
  PROVE  LET valid == ValidatePath(Params, req.context.user, req.session)
         IN (req.url[4] = "public" => valid # No) /\ (Theirs => valid.perm = "write")
<1> DEFINE r == ScopeRoute("files") \o PathRoute
           p == ParseParams(r, req.url)
<1>1. "validatePath" \in Scopeds
  BY DEF Scopeds
<1>2. Contextual(req) /\ req.session = req.token /\ IsSent(req)
  BY <1>1, ScopedContext
<1>3. At("validatePath") /\ Chained
  BY TurnAt DEF Inv, At
<1>4. chain[at].route = r
  BY <1>3 DEF At, Chained
<1>5. Matches(r, req.url, TRUE)
  <2>1. Matches(chain[at].route, req.url, chain[at].type = "")
    BY <1>3 DEF At, Chained, Fits
  <2> QED
    BY <1>4, <2>1 DEF Matches
<1>6. req.url \in Seq(STRING)
  BY <1>2, SentAssumption DEF IsSent
<1>7. /\ Len(req.url) >= 5 /\ p.context = req.url[1] /\ p.identifier = req.url[2] /\ p.root = req.url[4]
      /\ p.path = SubSeq(req.url, 5, Len(req.url))
  BY <1>5, <1>6, PathParams
<1>8. p.path \in Seq(STRING) /\ p.path # <<>>
  <2> DEFINE k == 5
  <2>1. k \in 1 .. Len(req.url)
    BY <1>6, <1>7
  <2> HIDE DEF k
  <2>2. SubSeq(req.url, k, Len(req.url)) \in Seq(STRING) /\ SubSeq(req.url, k, Len(req.url)) # <<>>
    BY <1>6, <2>1, RestParts
  <2> QED
    BY <1>7, <2>2 DEF k
<1>9. Params = p
  BY <1>4 DEF Params
<1> HIDE DEF p
<1>10. /\ req.context.user = UserOf(req.url[1], req.url[2])
       /\ p.context \notin {"~", NoSession} /\ p.identifier \notin {"~", NoSession} /\ p.context # "secure"
  BY <1>2, <1>7, NamedContext
<1>11. LET v == ValidatePath(p, req.context.user, req.token) IN
       /\ p.root = "public" => v # No
       /\ req.token # NoSession /\ req.token.user = req.context.user
          /\ \/ req.token.context = "user"
             \/ p.context \notin {"user", "secure", "collections"} /\ p.root \in {"public", "private"}
            => v.perm = "write"
  BY <1>8, <1>10, PathAllowed
<1>12. Theirs => /\ req.token # NoSession /\ req.token.user = req.context.user
                 /\ \/ req.token.context = "user"
                    \/ p.context \notin {"user", "secure", "collections"} /\ p.root \in {"public", "private"}
  BY <1>7, <1>10, RequestsAssumption DEF Theirs
<1> QED
  BY <1>2, <1>7, <1>9, <1>11, <1>12

\* ValidatePathOf: it forbids only what was not promised, and grants what was.
LEMMA ValidatePathKept ==
  ASSUME Inv, Kept, ValidatePathOf
  PROVE  Kept'
<1> DEFINE name == "validatePath"
           valid == ValidatePath(Params, req.context.user, req.session)
           q == [req EXCEPT !.context.path = valid.path, !.context.perm = valid.perm]
<1>1. Turn(name)
  BY DEF ValidatePathOf
<1>2. Named => (req.url[4] = "public" => valid # No) /\ (Theirs => valid.perm = "write")
  BY <1>1, PathPromised
<1>3. Throw(500) \/ (valid = No /\ Throw(403)) \/ Pass(q)
  BY DEF ValidatePathOf
<1> HIDE DEF valid
<1>4. CASE Throw(500)
  BY <1>1, <1>4, KeptEnd
<1>5. CASE valid = No /\ Throw(403)
  <2>1. ~Promised
    BY <1>2, <1>5, PromisedParts DEF No
  <2> QED
    BY <1>1, <1>5, <2>1, KeptEnd
<1>6. CASE Pass(q)
  <2>1. Under /\ At(name) /\ DOMAIN req = Fields /\ DOMAIN req.context = DOMAIN NoContext
    BY <1>1, TurnAt DEF Inv, Turn, Under, At
  <2> DEFINE c == [req.context EXCEPT !.path = valid.path, !.perm = valid.perm]
  <2>2. c.perm = valid.perm
    BY <2>1 DEF NoContext
  <2>3. q = [req EXCEPT !.context = c]
    BY <2>1 DEF Fields, NoContext
  <2> HIDE DEF c
  <2>4. /\ DOMAIN q = Fields /\ q.url = req.url /\ q.method = req.method /\ q.token = req.token /\ q.asks = req.asks
        /\ q.body = req.body /\ q.context = c
    BY <2>1, <2>3 DEF Fields
  <2>5. req' = [q EXCEPT !.params = Params] /\ outcome' = outcome
    BY <1>6 DEF Pass
  <2> HIDE DEF q
  <2>6. Alike(q) /\ IsSent(req)
    BY <2>1, <2>4 DEF Alike, At
  <2>7. req'.url = req.url /\ req'.method = req.method /\ req'.token = req.token /\ req'.context = c
    BY <2>4, <2>5, <2>6, AlikeSent
  <2>8. (Named' <=> Named) /\ (Theirs' <=> Theirs)
    BY <2>7, SamePromise
  <2>9. outcome'.status # 403
    <3>1. outcome'.status = 0
      BY <2>1, <2>5, Zenon DEF At, Idle
    <3> QED
      BY <3>1
  <2> QED
    BY <1>2, <2>2, <2>7, <2>8, <2>9 DEF Kept
<1> QED
  BY <1>3, <1>4, <1>5, <1>6

\* WriteFile and DeleteFile: the session has been granted what it was promised.
LEMMA ChangeKept ==
  ASSUME Inv, Kept, WriteFile \/ DeleteFile
  PROVE  Kept'
<1>1. PICK name \in {"writeFile", "deleteFile"}, op \in {"write", "delete"} : Change(name, op)
  BY DEF WriteFile, DeleteFile
<1>2. Turn(name) /\ name \in FileOps
  BY <1>1 DEF Change, FileOps
<1>3. (req.context.perm # "write" /\ Throw(403)) \/ Answer(204) \/ Throw(500)
  BY <1>1 DEF Change
<1>4. CASE req.context.perm # "write" /\ Throw(403)
  <2>1. Placed /\ At(name) /\ outcome.is = "running" /\ Follows(FileOps, {"validatePath"})
    BY <1>2, TurnAt, ChainFound DEF Inv, Turn, Chained
  <2>2. Passed({"validatePath"})
    BY <1>2, <2>1, TurnPassed
  <2>3. req.method # "GET"
    <3>1. PICK i \in DOMAIN App : chain[at] = App[i] /\ Fits(App[i], req.url, req.method)
      BY <2>1 DEF At, Chained
    <3>2. App[i].type \in {"PUT", "DELETE"}
      BY <2>1, <3>1, AppApart DEF At, Apart, Aside, Typed
    <3>3. App[i].type \in {"", req.method}
      BY <3>1 DEF Fits
    <3> QED
      BY <3>2, <3>3
  <2>4. ~Promised
    BY <1>4, <2>1, <2>2, <2>3, PromisedParts DEF Kept
  <2> QED
    BY <1>2, <1>4, <2>4, KeptEnd
<1>5. CASE Answer(204) \/ Throw(500)
  BY <1>2, <1>5, KeptEnd
<1> QED
  BY <1>3, <1>4, <1>5

\* ListFiles: what is promised there is promised to users alone, whom it lets list anything.
LEMMA ListFilesKept ==
  ASSUME Inv, Kept, ListFiles
  PROVE  Kept'
<1> DEFINE name == "listFiles"
           root == Field(Params, "root", "none")
           path == Field(Params, "path", <<"">>)
           valid == Validated(root, path)
<1>1. Turn(name) /\ name \in Scopeds
  BY DEF ListFiles, Scopeds
<1>2. Throw(500) \/ (valid.perm # "write" /\ Throw(403)) \/ Answer(200)
  BY DEF ListFiles
<1> HIDE DEF root, path
<1>3. CASE valid.perm # "write" /\ Throw(403)
  <2>1. Contextual(req) /\ req.session = req.token /\ IsSent(req)
    BY <1>1, ScopedContext
  <2>2. req.url \in Seq(STRING)
    BY <2>1, SentAssumption DEF IsSent
  <2>3. req.url[4] = "list-files"
    <3>1. At(name) /\ Chained
      BY <1>1, TurnAt DEF Inv, At
    <3>2. chain[at].route = ScopeRoute("files") \o ListRoute
      BY <3>1 DEF At, Chained
    <3>3. Matches(chain[at].route, req.url, chain[at].type = "")
      BY <3>1 DEF At, Chained, Fits
    <3>4. Matches(ScopeRoute("files") \o ListRoute, req.url, TRUE)
      BY <3>2, <3>3 DEF Matches
    <3> QED
      BY <2>2, <3>4, ListedUrl
  <2>4. Named /\ Theirs => valid.perm = "write"
    <3> SUFFICES ASSUME Named, Theirs PROVE valid.perm = "write"
      OBVIOUS
    <3> DEFINE p == [context |-> req.context.context, identifier |-> req.context.identifier, root |-> root, path |-> path]
    <3>1. /\ req.context.user = UserOf(req.url[1], req.url[2])
          /\ req.context.context \notin {"~", NoSession} /\ req.context.identifier \notin {"~", NoSession}
      BY <2>1, NamedContext
    <3>2. req.token # NoSession /\ req.token.user = req.context.user /\ req.token.context = "user"
      BY <2>3, <3>1, RequestsAssumption DEF Theirs
    <3>3. p.context \notin {"~", NoSession} /\ p.identifier \notin {"~", NoSession}
      BY <3>1
    <3>4. valid = ValidatePath(p, req.token.user, req.token)
      BY <2>1, <3>2 DEF Validated
    <3> HIDE DEF p, valid
    <3>5. ValidatePath(p, req.token.user, req.token).perm = "write"
      BY <3>2, <3>3, UserAllowed
    <3> QED
      BY <3>4, <3>5
  <2>5. ~Promised
    BY <1>3, <2>3, <2>4, PromisedParts
  <2> QED
    BY <1>1, <1>3, <2>5, KeptEnd
<1>4. CASE Throw(500) \/ Answer(200)
  BY <1>1, <1>4, KeptEnd
<1> QED
  BY <1>2, <1>3, <1>4

\* Endpoint: those that may refuse are elsewhere.
LEMMA EndpointKept ==
  ASSUME Inv, Endpoint
  PROVE  Kept'
<1>1. PICK name \in DOMAIN Answers : Turn(name) /\ \E status \in Answers[name] : End(status)
  BY Zenon DEF Endpoint
<1>2. PICK status \in Answers[name] : End(status)
  BY <1>1
<1>3. Answer(status) \/ Throw(status)
  BY <1>2 DEF End
<1>4. status = 403 => name \in Refusing
  BY <1>2 DEF Answers, Refusing
<1>5. status = 403 => ~Promised
  BY <1>1, <1>4, RefusedElsewhere, PromisedParts DEF Inv
<1> QED
  BY <1>1, <1>3, <1>5, KeptEnd

\* The loggers, the guards and the middlewares of sessions leave the context alone, and those of
\* them that may refuse are elsewhere.
LEMMA MiddlewareKept ==
  ASSUME Inv, Kept, Log \/ Guard \/ RequireUser \/ OptionalUser \/ MustBeUser \/ TestHandshake
  PROVE  Kept'
<1>1. ASSUME NEW name, Turn(name), Alike(req), name # "validatePath", Pass(req)
      PROVE  Kept'
  BY <1>1, KeptPass
<1>2. ASSUME NEW name, Turn(name) PROVE Alike(req)
  BY <1>2, TurnAt DEF Inv, At, Alike
<1>3. ASSUME NEW name \in Refusing, Turn(name), NEW status, Answer(status) \/ Throw(status)
      PROVE  Kept'
  <2>1. ~Promised
    BY <1>3, RefusedElsewhere, PromisedParts DEF Inv
  <2> QED
    BY <1>3, <2>1, KeptEnd
<1>4. CASE Log
  BY <1>1, <1>2, <1>4 DEF Log
<1>5. CASE Guard
  <2>1. PICK name \in Guards : Turn(name) /\ Pass(req)
    BY <1>5 DEF Guard
  <2>2. name # "validatePath"
    <3>1. "validatePath" \in Handlers
      BY DEF Handlers
    <3> QED
      BY <3>1, HandlersAssumption
  <2> QED
    BY <1>1, <1>2, <2>1, <2>2
<1>6. CASE RequireUser \/ OptionalUser
  <2>1. PICK name \in {"requireUser", "optionalUser"} :
          Turn(name) /\ ((name = "requireUser" /\ Answer(403)) \/ Pass(WithSession(req.token)))
    BY <1>6, Zenon DEF RequireUser, OptionalUser
  <2>2. CASE name = "requireUser" /\ Answer(403)
    BY <1>3, <2>1, <2>2 DEF Refusing
  <2>3. CASE Pass(WithSession(req.token))
    <3> DEFINE q == WithSession(req.token)
    <3>1. DOMAIN req = Fields
      BY <2>1, TurnAt DEF Inv, At
    <3>2. /\ DOMAIN q = Fields /\ q.url = req.url /\ q.method = req.method /\ q.token = req.token /\ q.asks = req.asks
          /\ q.body = req.body /\ q.context = req.context
      BY <3>1 DEF WithSession, Fields
    <3>3. Pass(q)
      BY <2>3
    <3> HIDE DEF q
    <3>4. Alike(q)
      BY <3>2 DEF Alike
    <3> QED
      BY <2>1, <3>2, <3>3, <3>4, KeptPass
  <2> QED
    BY <2>1, <2>2, <2>3
<1>7. CASE MustBeUser \/ TestHandshake
  <2>1. PICK name \in {"mustBeUser", "testHandshake"} : Turn(name) /\ (Pass(req) \/ Throw(403) \/ Throw(404))
    BY <1>7, Zenon DEF MustBeUser, TestHandshake
  <2>2. name \in Refusing /\ name # "validatePath"
    BY DEF Refusing
  <2> QED
    BY <1>1, <1>2, <1>3, <2>1, <2>2
<1> QED
  BY <1>4, <1>5, <1>6, <1>7

\* ContextIdentifier: it comes before validatePath.
LEMMA ContextIdentifierKept ==
  ASSUME Inv, Kept, ContextIdentifier
  PROVE  Kept'
<1> DEFINE name == "contextIdentifier"
           context    == Resolved(Params.context, req.session, "context")
           identifier == Resolved(Params.identifier, req.session, "identifier")
           c == [NoContext EXCEPT !.context = context, !.identifier = identifier, !.user = UserOf(context, identifier)]
           q == [req EXCEPT !.context = c]
<1>1. Turn(name) /\ (Throw(400) \/ Pass(q))
  BY DEF ContextIdentifier
<1> HIDE DEF context, identifier
<1>2. Chained /\ At(name)
  BY <1>1, TurnAt DEF Inv, At
<1>3. ~Passed({"validatePath"})
  <2>1. \A k \in DOMAIN chain : k < at /\ chain[k].name = "validatePath" => chain[at].name # "contextIdentifier"
    BY <1>2 DEF Chained, At
  <2>2. /\ chain[at].name = "contextIdentifier" /\ at \in Nat /\ at <= Len(chain) /\ Len(chain) \in Nat
        /\ DOMAIN chain = 1 .. Len(chain)
    BY <1>2 DEF At
  <2>3. ASSUME NEW k \in 1 .. at - 1 PROVE k < at /\ k \in DOMAIN chain
    BY <2>2
  <2> QED
    BY <2>1, <2>2, <2>3 DEF Passed
<1>4. CASE Throw(400)
  BY <1>1, <1>4, KeptEnd
<1>5. CASE Pass(q)
  <2> HIDE DEF c
  <2>1. DOMAIN req = Fields
    BY <1>2 DEF At
  <2>2. /\ DOMAIN q = Fields /\ q.url = req.url /\ q.method = req.method /\ q.token = req.token /\ q.asks = req.asks
        /\ q.body = req.body
    BY <2>1 DEF Fields
  <2> HIDE DEF q
  <2>3. Alike(q)
    BY <2>2 DEF Alike
  <2> QED
    BY <1>1, <1>3, <1>5, <2>3, KeptPass
<1> QED
  BY <1>1, <1>4, <1>5

\* What the database, the webfinger store and the other handlers of files answer is never that.
LEMMA OthersKept ==
  ASSUME Inv, Dump \/ DbCall \/ GraphQL \/ ReadFile \/ StorageStats \/ BatchInfo \/ StoreInfo \/ GetInfo
  PROVE  Kept'
<1>1. ASSUME NEW name, Turn(name), NEW status \in {200, 204, 302, 400, 404, 405, 406, 500}, Answer(status) \/ Throw(status)
      PROVE  Kept'
  <2>1. status # 403
    OBVIOUS
  <2> QED
    BY <1>1, <2>1, KeptEnd
<1>2. ASSUME NEW op, NEW keys, NEW found, OnDb(op, keys, found) PROVE Throw(500) \/ Answer(200) \/ Throw(400)
  BY <1>2, Zenon DEF OnDb
<1>3. CASE DbCall
  <2>1. PICK name \in DOMAIN DbOps : Turn(name) /\ OnDb(DbOps[name], Keys(name), {})
    BY <1>3, Zenon DEF DbCall
  <2> QED
    BY <1>1, <1>2, <2>1
<1>4. CASE GraphQL
  <2>1. Turn("graphql")
    BY <1>4 DEF GraphQL
  <2>2. CASE Digested # 0
    <3>1. Answer(Digested)
      BY <1>4, <2>2 DEF GraphQL
    <3>2. Digested \in {200, 400, 405, 406}
      BY <2>2 DEF Digested
    <3> QED
      BY <1>1, <2>1, <3>1, <3>2
  <2>3. CASE Digested = 0
    <3>1. OnDb("query", {""}, Selected(Rows, CompileQuery(req.body)))
      BY <1>4, <2>3, Zenon DEF GraphQL
    <3>2. Throw(500) \/ Answer(200) \/ Throw(400)
      BY <1>2, <3>1, Zenon
    <3> QED
      BY <1>1, <2>1, <3>2
  <2> QED
    BY <2>2, <2>3
<1>5. CASE ReadFile \/ StoreInfo
  <2>1. PICK name \in {"readFile", "storeInfo"} : Turn(name) /\ (Answer(200) \/ Throw(404) \/ Throw(400) \/ Answer(204))
    BY <1>5, Zenon DEF ReadFile, StoreInfo
  <2> QED
    BY <1>1, <2>1
<1>6. CASE StorageStats \/ BatchInfo
  <2>1. PICK name \in {"storageStats", "batchInfo"} : Turn(name) /\ (Answer(200) \/ Throw(500))
    BY <1>6, Zenon DEF StorageStats, BatchInfo
  <2> QED
    BY <1>1, <2>1
<1>7. CASE GetInfo
  <2> DEFINE remote == req.body.context = "remote"
             found  == Found(req.body.context, req.body.identifier)
  <2>1. /\ Turn("getInfo")
        /\ \/ Throw(400)
           \/ IF remote THEN Answer(302) ELSE IF found THEN Answer(200) ELSE Throw(404)
    BY <1>7 DEF GetInfo
  <2> HIDE DEF remote, found
  <2>2. Throw(400) \/ Answer(302) \/ Answer(200) \/ Throw(404)
    BY <2>1
  <2> QED
    BY <1>1, <2>1, <2>2
<1>8. CASE Dump
  <2>1. Turn("dump") /\ Answer(200)
    BY <1>8 DEF Dump
  <2>2. ASSUME NEW status, status = 200 PROVE (Answer(status) <=> Answer(200)) /\ status # 403
    BY <2>2
  <2> QED
    BY <2>1, <2>2, KeptEnd
<1> QED
  BY <1>3, <1>4, <1>5, <1>6, <1>7, <1>8

\* The router itself forbids nothing: an error keeps its status, or becomes 500.
LEMMA ProcessKept ==
  ASSUME Inv, Kept, Come \/ Leave \/ Process
  PROVE  Kept'
<1>1. Placed /\ Errors
  BY DEF Inv
<1>2. CASE Come
  <2>1. at' = 1 /\ outcome'.status = 0
    BY <1>2, Zenon DEF Come, Receive, Idle
  <2>2. ~Passed({"validatePath"})'
    BY <2>1 DEF Passed
  <2> QED
    BY <2>1, <2>2 DEF Kept
<1>3. CASE Leave
  <2>1. outcome'.status = 0 /\ outcome'.is = "idle"
    BY <1>3, Zenon DEF Leave, Idle
  <2> QED
    BY <2>1 DEF Kept
<1>4. CASE Unwind
  <2>1. /\ req' = req /\ outcome.is = "thrown"
        /\ outcome'.is \in {"thrown", "answering"} /\ outcome'.status \in {outcome.status, 500}
    <3>1. req' = req /\ outcome.is = "thrown"
      BY <1>1, <1>4, UnwindCases DEF Unwind
    <3>2. CASE outcome' = [outcome EXCEPT !.sync = @ /\ Last(frames) \in Synchronous]
      BY <1>1, <3>1, <3>2 DEF Errors
    <3>3. CASE outcome' = [outcome EXCEPT !.is = "answering", !.by = Last(frames),
                                          !.status = IF Last(frames) \in Guards THEN @ ELSE 500]
      BY <1>1, <3>1, <3>3 DEF Errors
    <3> QED
      BY <1>1, <1>4, <3>1, <3>2, <3>3, UnwindCases
  <2>2. Promised' <=> Promised
    BY <2>1, SamePromise
  <2> QED
    BY <2>1, <2>2 DEF Kept
<1>5. CASE Finish
  <2>1. /\ req' = [req EXCEPT !.query = Host, !.params = Host, !.context = Host]
        /\ outcome' = [outcome EXCEPT !.is = IF @ = "answering" THEN "answered" ELSE "unanswered"]
        /\ outcome.is \in {"answering", "running"}
    BY <1>5 DEF Finish, GivenBack
  <2>2. DOMAIN req = Fields
    BY <1>1, <2>1 DEF Placed
  <2>3. req'.url = req.url /\ req'.method = req.method /\ req'.token = req.token
    BY <2>1, <2>2 DEF Fields
  <2>4. outcome'.status = outcome.status /\ outcome'.is # "running"
    BY <1>1, <2>1 DEF Errors
  <2>5. Promised' <=> Promised
    BY <2>3, SamePromise
  <2> QED
    BY <2>4, <2>5 DEF Kept
<1>6. CASE Reject
  <2>1. req' = req /\ outcome' = [outcome EXCEPT !.is = "rejected"]
    BY <1>6 DEF Reject
  <2>2. outcome'.status = outcome.status /\ outcome'.is = "rejected"
    BY <1>1, <2>1 DEF Errors
  <2>3. Promised' <=> Promised
    BY <2>1, SamePromise
  <2> QED
    BY <2>2, <2>3 DEF Kept
<1> QED
  BY <1>2, <1>3, <1>4, <1>5, <1>6 DEF Process

\* Every step keeps it, given the invariant.
LEMMA NextKept ==
  ASSUME Inv, Kept, [Next]_vars
  PROVE  Kept'
<1>1. CASE Come \/ Leave \/ Process
  BY <1>1, ProcessKept
<1>2. CASE Log \/ Guard \/ RequireUser \/ OptionalUser \/ MustBeUser \/ TestHandshake
  BY <1>2, MiddlewareKept
<1>3. CASE ContextIdentifier
  BY <1>3, ContextIdentifierKept
<1>4. CASE Endpoint
  BY <1>4, EndpointKept
<1>5. CASE ValidatePathOf \/ WriteFile \/ DeleteFile \/ ListFiles
  BY <1>5, ValidatePathKept, ChangeKept, ListFilesKept
<1>6. CASE Dump \/ DbCall \/ GraphQL \/ ReadFile \/ StorageStats \/ BatchInfo \/ StoreInfo \/ GetInfo
  BY <1>6, OthersKept
<1>7. CASE UNCHANGED vars
  <2>1. req' = req /\ chain' = chain /\ at' = at /\ outcome' = outcome
    BY <1>7 DEF vars, routerVars
  <2>2. (Promised' <=> Promised) /\ (Named' <=> Named) /\ (Theirs' <=> Theirs)
    BY <2>1, SamePromise
  <2>3. Passed({"validatePath"})' <=> Passed({"validatePath"})
    BY <2>1 DEF Passed
  <2> QED
    BY <2>1, <2>2, <2>3 DEF Kept
<1> QED
  BY <1>1, <1>2, <1>3, <1>4, <1>5, <1>6, <1>7 DEF Next
-----------------------------------------------------------------------------
(* The theorems. *)

\* The inductive invariant holds in every state of every behaviour.
THEOREM Invariance == Spec => []Inv
<1>1. Init => Inv
  BY InitInv
<1>2. Inv /\ [Next]_vars => Inv'
  BY NextStep
<1> QED
  BY <1>1, <1>2, PTL DEF Spec

\* It says at least what the type invariant says.
LEMMA InvTypeOK == ASSUME Inv PROVE ReqTypeOK
<1>1. Placed /\ Errors /\ Fingers
  BY DEF Inv
<1>2. req = Nothing \/ (DOMAIN req = Fields /\ req.session \in {Nothing, req.token}
                        /\ req.user \in {Nothing} \cup DOMAIN Username)
  <2>1. CASE outcome.is = "idle"
    BY <1>1, <2>1 DEF Placed
  <2>2. CASE outcome.is # "idle"
    <3>1. /\ DOMAIN req = Fields /\ IsSent(req) /\ req.session \in {Nothing, req.token}
          /\ req.user = IF req.session = Nothing THEN Nothing ELSE req.session.user
      BY <1>1, <2>2 DEF Inv, Placed, Sessioned
    <3>2. req.token # Nothing => req.token.user \in DOMAIN Username
      BY <3>1, TokenTypes
    <3> QED
      BY <3>1, <3>2
  <2> QED
    BY <2>1, <2>2
<1>3. /\ at \in 1 .. Len(chain) + 1 /\ Len(frames) < at
      /\ \A i \in DOMAIN frames : frames[i] = chain[i].name
      /\ outcome.is \in Ended \cup {"running", "answering", "thrown"}
  BY <1>1 DEF Placed
<1>4. outcome.is \in {"answered", "unanswered"} => {req.params, req.query, req.context} = {Host}
  BY <1>1 DEF Errors
<1>5. fingers \subseteq (DOMAIN Username) \X STRING
  BY <1>1 DEF Fingers
<1> QED
  BY <1>2, <1>3, <1>4, <1>5 DEF ReqTypeOK

\* The request and its handlers keep their shapes, and process() gives back the fields it had taken.
THEOREM TypeCorrect == Spec => []ReqTypeOK
  BY Invariance, InvTypeOK, PTL

\* Where handleError has guards around a handler, its errors pass none of them: the innermost
\* answers, or a requireUser within it does, with 500, before anything was awaited.
THEOREM ErrorsAnswered == Spec => []ErrorsStayInside
<1>1. Inv => ErrorsStayInside
  BY DEF Inv, Errors
<1> QED
  BY <1>1, Invariance, PTL

\* No route leads round the middlewares of what belongs to an account.
THEOREM SessionsProved == Spec => []SessionBeforeUse
<1>1. Inv => SessionBeforeUse
  BY DEF Inv, Effects
<1> QED
  BY <1>1, Invariance, PTL

\* Whatever the URL, a file is written, deleted or listed only by a session of its owner; by one
\* of an app only in the folders of the app that the URL names, which may be another.
THEOREM WritesAllowed == Spec => []WritesGranted
<1>1. Inv => WritesGranted
  BY DEF Inv, Effects
<1> QED
  BY <1>1, Invariance, PTL

\* Whatever the URL, a file is read only if it is public, or by a session of its owner; by one of
\* an app only in its collections and in the folders of the app that the URL names.
THEOREM ReadsAllowed == Spec => []ReadsGranted
<1>1. Inv => ReadsGranted
  BY DEF Inv, Effects
<1> QED
  BY <1>1, Invariance, PTL

\* No path that reaches the files climbs: what cleanPath leaves has no dots in it.
THEOREM PathsStayDown == Spec => []PathsClimbNowhere
<1>1. Inv => PathsClimbNowhere
  BY DEF Inv, Effects
<1> QED
  BY <1>1, Invariance, PTL

\* The API of the database asks for nothing in another user's name, nor for another scope than
\* the URL names.
THEOREM AskedInOwnName == Spec => []AsksInOwnName
<1>1. Inv => AsksInOwnName
  BY DEF Inv, Effects
<1> QED
  BY <1>1, Invariance, PTL

\* For any rows and any query, SQL finds what the query describes, but for what NULL leaves open.
THEOREM SearchesMean == Spec => []SearchMeansQuery
<1>1. Inv => SearchMeansQuery
  BY DEF Inv, Effects
<1> QED
  BY <1>1, Invariance, PTL

\* For queries that ask for equality alone, the search in memory finds what the SQL statement
\* selects, and what NULL leaves open besides.
THEOREM SearchesAgree == Spec => []EqualityAgrees
<1>1. Inv => EqualityAgrees
  BY DEF Inv, Effects
<1> QED
  BY <1>1, Invariance, PTL

\* For any users and requests, nobody is forbidden what API.md promises.
THEOREM PromisesHold == Spec => []PromisesKept
<1>1. Init => Kept
  <2> SUFFICES ASSUME Init PROVE Kept
    OBVIOUS
  <2>1. outcome.status = 0 /\ outcome.is = "idle"
    BY Zenon DEF Init, RouterInit, Idle
  <2> QED
    BY <2>1 DEF Kept
<1>2. Inv /\ Kept /\ [Next]_vars => Kept'
  BY NextKept
<1>3. Kept => PromisesKept
  BY DEF Kept, PromisesKept
<1> QED
  BY <1>1, <1>2, <1>3, Invariance, PTL DEF Spec
=============================================================================
