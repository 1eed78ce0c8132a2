----------------------------- MODULE RouteProofs ------------------------------
(***************************************************************************)
(* Lemmas about the routes of Requests, for every request: whichever of    *)
(* the routes fit it, the middlewares that a handler needs are in the      *)
(* chain in front of it, and the parameters that contexts and paths are    *)
(* read from are parts of its URL.                                         *)
(*                                                                         *)
(* A step that leads another one fits whatever the other fits; the lists   *)
(* of routes are shown to have a leading step wherever one is needed, and  *)
(* that this survives joining lists and mounting them under a route.       *)
(***************************************************************************)
EXTENDS Requests, Integers, FiniteSetTheorems, TLAPS
-----------------------------------------------------------------------------
(* Steps that lead others. *)

\* What the routes, the methods and the handlers are called.
Words ==
  {".well-known", "address", "approve", "auth", "batch", "batch-info", "can-register", "cancel", "change-pass", "complete",
   "context", "db", "dump", "dyn", "dynamic", "files", "gaia", "generate-session", "graphql", "handshake", "hub_info",
   "id", "identifier", "key", "key-value", "list-files", "login", "logout", "master-key", "name", "path", "read",
   "refresh", "register", "search", "self", "sessions", "start", "storage-stats", "store", "table", "tables", "type",
   "webfinger"}
Parts ==
  {Lit(word) : word \in Words} \cup {Par(word) : word \in Words} \cup {Maybe(Par(word)) : word \in Words}
    \cup {Root4, Maybe(Root4), Rest("path"), Maybe(Rest("path")), Filled("path")}
Types == {"", "HEAD", "GET", "POST", "PUT", "DELETE"}
HandlerNames ==
  {"Auth", "Db", "WebFinger", "addMasterKey", "approveHandshake", "auth-handshake", "auth-master-key", "batchInfo",
   "canRegister", "cancelHandshake", "changePass", "completeHandshake", "contextIdentifier", "delete-self",
   "deleteFile", "deleteMasterKey", "deleteSelf", "deleteSession", "deleteSessions", "dump", "dynDropAll",
   "dynDropTable", "dynGetTable", "dynRegisterTables", "dynReplaceTable", "dynamic", "dynamic-tables", "file-store",
   "findMasterKey", "gaia", "gaiaHead", "gaiaRead", "gaiaToken", "generateSession", "get-self", "getInfo",
   "getMasterKeys", "graphql", "hubInfo", "key-value", "key-value-store", "keyValueAdd", "keyValueBatch",
   "keyValueDel", "keyValueGet", "keyValuePut", "keyValueSearch", "listFiles", "log", "login", "logout",
   "mustBeUser", "optionalUser", "readFile", "refresh", "register", "requireUser", "self", "sessions",
   "startHandshake", "storageStats", "storeInfo", "testHandshake", "type", "updateMasterKey", "validatePath",
   "viewHandshake", "writeFile"}
Entries == [within : SUBSET Seq(Parts), route : Seq(Parts), type : Types, name : HandlerNames]
Names(steps) == {steps[i].name : i \in DOMAIN steps}

\* A step leads another one when it fits every request that the other fits: the routers around
\* it are around the other as well, its methods are the other's, and its route is the other's, one
\* of a router around it, or what it begins with, up to a part that may have more behind it.
Fixed(part) == ~part.opt /\ part.is \in {"literal", "param"}
Plain(route) == \A i \in DOMAIN route : Fixed(route[i])
Begun(part) == part.is = "param" \/ (part.is = "literal" /\ <<part.name, part.name>> \in Begins)
Heads(a, b) == a # <<>> /\ Plain(a) /\ Begun(a[Len(a)]) /\ \E more \in Seq(Parts) : b = a \o more
Leads(m, n) ==
  /\ m.within \subseteq n.within
  /\ m.type \in {"", n.type}
  /\ \/ m.route = n.route
     \/ m.type = "" /\ m.route \in n.within
     \/ m.type = "" /\ n.type # "" /\ Heads(m.route, n.route)
Led(steps, X, Y) ==
  \A i \in DOMAIN steps : steps[i].name \in X =>
    \E j \in 1 .. i - 1 : steps[j].name \in Y /\ Leads(steps[j], steps[i])

\* The numbers up to n are n.
LEMMA CountTo ==
  ASSUME NEW n \in Nat
  PROVE  IsFiniteSet(1 .. n) /\ Cardinality(1 .. n) = n
<1>1. 1 \in Int /\ n \in Int
  OBVIOUS
<1>2. IsFiniteSet(1 .. n) /\ Cardinality(1 .. n) = IF 1 > n THEN 0 ELSE n - 1 + 1
  BY <1>1, FS_Interval
<1> QED
  BY <1>2

\* The first k numbers, when all of them are taken, have their own ranks.
LEMMA RanksOfAll ==
  ASSUME NEW k \in Nat, NEW way, 1 .. k \subseteq way, way \subseteq Nat \ {0}, NEW i \in 1 .. k
  PROVE  Rank(way, i) = i
<1>1. {j \in way : j <= i} = 1 .. i
  <2>1. ASSUME NEW j \in way, j <= i PROVE j \in 1 .. i
    <3>1. j \in Nat /\ j # 0
      OBVIOUS
    <3> QED
      BY <2>1, <3>1
  <2>2. ASSUME NEW j \in 1 .. i PROVE j \in way /\ j <= i
    <3>1. j \in 1 .. k
      OBVIOUS
    <3> QED
      BY <2>2, <3>1
  <2> QED
    BY <2>1, <2>2
<1>2. i \in Nat /\ Rank(way, i) = Cardinality(1 .. i)
  BY <1>1 DEF Rank
<1> QED
  BY <1>2, CountTo

\* What fits a route also fits, with something behind it, the route that it begins with.
LEMMA HeadsExtend ==
  ASSUME NEW a \in Seq(Parts), NEW b \in Seq(Parts), Heads(a, b), NEW url \in Seq(STRING), Ways(b, url) # {}
  PROVE  Extends(a, url)
<1> DEFINE k == Len(a)
           front == Front(a)
           start == SubSeq(url, 1, k - 1)
<1>1. k \in Nat \ {0} /\ Plain(a) /\ Begun(a[k])
  BY DEF Heads
<1>2. PICK more \in Seq(Parts) : b = a \o more
  BY DEF Heads
<1>3. PICK out \in SUBSET Optional(b) : IsWay(b, url, DOMAIN b \ out)
  BY DEF Ways
<1> DEFINE way == DOMAIN b \ out
<1>4. ASSUME NEW i \in 1 .. k PROVE i \in DOMAIN b /\ b[i] = a[i] /\ Fixed(a[i])
  BY <1>1, <1>2 DEF Plain
<1>5. 1 .. k \subseteq way /\ way \subseteq Nat \ {0} /\ IsFiniteSet(way)
  <2>1. ASSUME NEW i \in 1 .. k PROVE i \in way
    BY <1>4 DEF Optional, Fixed
  <2>2. IsFiniteSet(DOMAIN b)
    <3>1. Len(b) \in Nat /\ DOMAIN b = 1 .. Len(b)
      BY DEF Heads
    <3> QED
      BY <3>1, CountTo
  <2> QED
    BY <2>1, <2>2, FS_Subset
<1>6. ASSUME NEW i \in 1 .. k PROVE Takes(a[i], url[i])
  <2>1. Takes(b[i], url[Rank(way, i)])
    BY <1>3, <1>5 DEF IsWay
  <2>2. Rank(way, i) = i
    BY <1>1, <1>5, RanksOfAll
  <2> QED
    BY <1>4, <2>1, <2>2
<1>7. k <= Len(url)
  <2>1. Cardinality(1 .. k) = k /\ IsFiniteSet(1 .. k)
    <3>1. k \in Nat
      BY <1>1
    <3> HIDE DEF k
    <3> QED
      BY <3>1, CountTo
  <2>2. Cardinality(1 .. k) <= Cardinality(way) /\ Cardinality(way) \in Nat
    BY <1>5, FS_Subset, FS_CardinalityType
  <2>3. Cardinality(way) <= Len(url)
    BY <1>3 DEF IsWay
  <2> QED
    BY <1>1, <2>1, <2>2, <2>3
<1>8. /\ front \in Seq(Parts) /\ DOMAIN front = 1 .. k - 1
      /\ \A i \in 1 .. k - 1 : front[i] = a[i]
      /\ Len(start) = k - 1 /\ \A i \in 1 .. k - 1 : start[i] = url[i]
  <2>1. front = SubSeq(a, 1, k - 1) /\ k - 1 \in Nat /\ k - 1 <= Len(a) /\ k - 1 <= Len(url)
    BY <1>1, <1>7 DEF Front
  <2>2. front \in Seq(Parts) /\ DOMAIN front = 1 .. k - 1 /\ \A i \in 1 .. k - 1 : front[i] = a[i]
    BY <2>1
  <2>3. ASSUME NEW to \in Nat, to <= Len(url)
        PROVE  Len(SubSeq(url, 1, to)) = to /\ \A i \in 1 .. to : SubSeq(url, 1, to)[i] = url[i]
    BY <2>3
  <2> QED
    BY <2>1, <2>2, <2>3
<1>9. IsWay(front, start, 1 .. k - 1)
  <2>1. Cardinality(1 .. k - 1) = k - 1
    <3>1. k - 1 \in Nat
      BY <1>1
    <3> HIDE DEF k
    <3> QED
      BY <3>1, CountTo
  <2>2. ASSUME NEW i \in 1 .. k - 1 PROVE Rank(1 .. k - 1, i) = i
    <3>1. k - 1 \in Nat /\ 1 .. k - 1 \subseteq Nat \ {0}
      BY <1>1
    <3> QED
      BY <3>1, RanksOfAll
  <2>3. ASSUME NEW i \in 1 .. k - 1
        PROVE  Takes(front[i], start[Rank(1 .. k - 1, i)]) /\ front[i].is # "rest"
    <3>1. i \in 1 .. k /\ front[i] = a[i] /\ start[i] = url[i]
      BY <1>1, <1>8
    <3>2. Takes(front[i], start[Rank(1 .. k - 1, i)])
      BY <1>6, <2>2, <3>1
    <3> QED
      BY <1>4, <3>1, <3>2 DEF Fixed
  <2>4. Cardinality(1 .. k - 1) = Len(start) /\ k - 1 <= k - 1
    BY <1>1, <1>8, <2>1
  <2> HIDE DEF k, front, start
  <2> QED
    BY <1>8, <2>1, <2>3, <2>4 DEF IsWay
<1>10. Ways(front, start) # {}
  BY <1>8, <1>9 DEF Ways
<1>11. \/ a[k].is = "literal" /\ <<a[k].name, url[k]>> \in Begins
       \/ a[k].is \in {"param", "rest"}
  <2>1. Takes(a[k], url[k])
    BY <1>1, <1>6
  <2>2. CASE a[k].is = "literal" /\ <<a[k].name, a[k].name>> \in Begins
    <3>1. url[k] = a[k].name
      BY <2>1, <2>2 DEF Takes
    <3> QED
      BY <2>2, <3>1
  <2> QED
    BY <1>1, <2>2 DEF Begun
<1>12. k \in 1 .. Len(url) /\ Last(a) = a[k]
  BY <1>1, <1>7 DEF Last
<1>13. Ways(Front(a), SubSeq(url, 1, k - 1)) # {}
  BY <1>10
<1> HIDE DEF k
<1> QED
  BY <1>11, <1>12, <1>13 DEF Extends

\* Whenever a step fits a request, so does one that leads it.
LEMMA LeadsFits ==
  ASSUME NEW m \in Entries, NEW n \in Entries, Leads(m, n), NEW url \in Seq(STRING), NEW method,
         Fits(n, url, method)
  PROVE  Fits(m, url, method)
<1>1. m.type \in {"", method} /\ (n.type = "" => m.type = "")
  BY DEF Leads, Fits
<1>2. \A w \in m.within : Matches(w, url, TRUE)
  BY DEF Leads, Fits
<1>3. Matches(m.route, url, m.type = "")
  <2>1. CASE m.route = n.route
    BY <1>1, <2>1 DEF Fits, Matches
  <2>2. CASE m.type = "" /\ m.route \in n.within
    BY <2>2 DEF Fits
  <2>3. CASE m.type = "" /\ n.type # "" /\ Heads(m.route, n.route)
    <3>1. Ways(n.route, url) # {}
      BY <2>3 DEF Fits, Matches
    <3>2. m.route \in Seq(Parts) /\ n.route \in Seq(Parts)
      BY DEF Entries
    <3>3. Extends(m.route, url)
      BY <2>3, <3>1, <3>2, HeadsExtend
    <3> QED
      BY <2>3, <3>3 DEF Matches
  <2> QED
    BY <2>1, <2>2, <2>3 DEF Leads
<1> QED
  BY <1>1, <1>2, <1>3 DEF Fits
-----------------------------------------------------------------------------
(* Lists of steps, joined and mounted. *)

\* An optional session is followed by a step with the same route, so that nothing comes between.
Beside(steps) ==
  \A i \in DOMAIN steps : steps[i].name = "optionalUser" =>
    /\ i + 1 \in DOMAIN steps /\ steps[i + 1].name \in {"contextIdentifier", "self"}
    /\ steps[i + 1].within = steps[i].within /\ steps[i + 1].route = steps[i].route
    /\ steps[i + 1].type = steps[i].type
\* Once a path is validated, the context does not change any more.
Behind(steps) ==
  \A i \in DOMAIN steps : \A j \in DOMAIN steps :
    i < j /\ steps[i].name = "validatePath" => steps[j].name # "contextIdentifier"
\* Which routes lead to some handlers.
Routed(steps, X, routes) == \A i \in DOMAIN steps : steps[i].name \in X => steps[i].route \in routes

\* Two lists of steps, as a router registers them one after the other: every step keeps its order.
LEMMA JoinedSteps ==
  ASSUME NEW a \in Seq(Entries), NEW b \in Seq(Entries)
  PROVE  /\ a \o b \in Seq(Entries)
         /\ Len(a) \in Nat /\ Len(b) \in Nat /\ Len(a \o b) = Len(a) + Len(b)
         /\ DOMAIN a = 1 .. Len(a) /\ DOMAIN b = 1 .. Len(b) /\ DOMAIN (a \o b) = 1 .. Len(a) + Len(b)
         /\ \A i \in DOMAIN a : i \in DOMAIN (a \o b) /\ (a \o b)[i] = a[i]
         /\ \A i \in DOMAIN b : Len(a) + i \in DOMAIN (a \o b) /\ (a \o b)[Len(a) + i] = b[i]
         /\ \A i \in DOMAIN (a \o b) : i \in DOMAIN a \/ (i - Len(a) \in DOMAIN b /\ (a \o b)[i] = b[i - Len(a)])
  OBVIOUS

\* A handler of two lists together is one of the first or of the second.
LEMMA JoinedNames ==
  ASSUME NEW a \in Seq(Entries), NEW b \in Seq(Entries)
  PROVE  Names(a \o b) = Names(a) \cup Names(b)
<1>1. \A i \in DOMAIN (a \o b) : (a \o b)[i].name \in Names(a) \cup Names(b)
  BY JoinedSteps DEF Names
<1>2. \A i \in DOMAIN a : a[i].name \in Names(a \o b)
  BY JoinedSteps DEF Names
<1>3. ASSUME NEW i \in DOMAIN b PROVE b[i].name \in Names(a \o b)
  <2>1. Len(a) + i \in DOMAIN (a \o b) /\ (a \o b)[Len(a) + i] = b[i]
    BY JoinedSteps
  <2> QED
    BY <2>1 DEF Names
<1> QED
  BY <1>1, <1>2, <1>3 DEF Names

\* In two lists together, a step of the second may be led by one of its own list or of the first.
LEMMA JoinedLed ==
  ASSUME NEW a \in Seq(Entries), NEW b \in Seq(Entries), NEW X, NEW Y, Led(a, X, Y),
         \A i \in DOMAIN b : b[i].name \in X =>
           \/ \E j \in 1 .. i - 1 : b[j].name \in Y /\ Leads(b[j], b[i])
           \/ \E j \in DOMAIN a : a[j].name \in Y /\ Leads(a[j], b[i])
  PROVE  Led(a \o b, X, Y)
<1> DEFINE ab == a \o b
<1>1. SUFFICES ASSUME NEW i \in DOMAIN ab, ab[i].name \in X
               PROVE  \E j \in 1 .. i - 1 : ab[j].name \in Y /\ Leads(ab[j], ab[i])
  BY DEF Led
<1>2. CASE i \in DOMAIN a
  <2>1. ab[i] = a[i]
    BY <1>2, JoinedSteps
  <2>2. PICK j \in 1 .. i - 1 : a[j].name \in Y /\ Leads(a[j], a[i])
    BY <1>1, <1>2, <2>1 DEF Led
  <2>3. j \in DOMAIN a
    BY <1>2, JoinedSteps
  <2>4. ab[j] = a[j]
    BY <2>3, JoinedSteps
  <2> QED
    BY <2>1, <2>2, <2>4
<1>3. CASE i \notin DOMAIN a
  <2> DEFINE k == i - Len(a)
  <2>1. k \in DOMAIN b /\ ab[i] = b[k]
    BY <1>1, <1>3, JoinedSteps
  <2>2. Len(a) \in Nat /\ k \in Int /\ k >= 1 /\ i = Len(a) + k /\ DOMAIN a = 1 .. Len(a)
    BY <2>1, JoinedSteps
  <2>3. CASE \E j \in 1 .. k - 1 : b[j].name \in Y /\ Leads(b[j], b[k])
    <3>1. PICK j \in 1 .. k - 1 : b[j].name \in Y /\ Leads(b[j], b[k])
      BY <2>3
    <3>2. j \in DOMAIN b
      BY <2>1, JoinedSteps
    <3>3. ab[Len(a) + j] = b[j]
      BY <3>2, JoinedSteps
    <3>4. Len(a) + j \in 1 .. i - 1
      BY <2>2
    <3> QED
      BY <2>1, <3>1, <3>3, <3>4
  <2>4. CASE \E j \in DOMAIN a : a[j].name \in Y /\ Leads(a[j], b[k])
    <3>1. PICK j \in DOMAIN a : a[j].name \in Y /\ Leads(a[j], b[k])
      BY <2>4
    <3>2. ab[j] = a[j]
      BY JoinedSteps
    <3>3. j \in 1 .. i - 1
      BY <2>2
    <3> QED
      BY <2>1, <3>1, <3>2, <3>3
  <2>5. b[k].name \in X
    BY <1>1, <2>1
  <2> HIDE DEF k, ab
  <2> QED
    BY <2>1, <2>3, <2>4, <2>5
<1> QED
  BY <1>2, <1>3

\* What is led in both of two lists is led in the two together.
LEMMA LedBoth ==
  ASSUME NEW a \in Seq(Entries), NEW b \in Seq(Entries), NEW X, NEW Y, Led(a, X, Y), Led(b, X, Y)
  PROVE  Led(a \o b, X, Y)
  BY JoinedLed DEF Led

\* Where none of the handlers is there, none of them lacks one that leads it.
LEMMA LedNone ==
  ASSUME NEW a, NEW X, NEW Y, Names(a) \cap X = {}
  PROVE  Led(a, X, Y)
  BY DEF Led, Names

\* If both lists have a step beside each optional session's, so do the two together.
LEMMA JoinedBeside ==
  ASSUME NEW a \in Seq(Entries), NEW b \in Seq(Entries), Beside(a), Beside(b)
  PROVE  Beside(a \o b)
<1> DEFINE ab == a \o b
<1>1. SUFFICES ASSUME NEW i \in DOMAIN ab, ab[i].name = "optionalUser"
               PROVE  /\ i + 1 \in DOMAIN ab /\ ab[i + 1].name \in {"contextIdentifier", "self"}
                      /\ ab[i + 1].within = ab[i].within /\ ab[i + 1].route = ab[i].route
                      /\ ab[i + 1].type = ab[i].type
  BY DEF Beside
<1>2. CASE i \in DOMAIN a
  <2>1. ab[i] = a[i]
    BY <1>2, JoinedSteps
  <2>2. i + 1 \in DOMAIN a
    BY <1>1, <1>2, <2>1 DEF Beside
  <2>3. i + 1 \in DOMAIN ab /\ ab[i + 1] = a[i + 1]
    BY <2>2, JoinedSteps
  <2> HIDE DEF ab
  <2> QED
    BY <1>1, <1>2, <2>1, <2>3 DEF Beside
<1>3. CASE i \notin DOMAIN a
  <2> DEFINE k == i - Len(a)
  <2>1. k \in DOMAIN b /\ ab[i] = b[k] /\ Len(a) \in Nat /\ Len(b) \in Nat /\ i \in Int
    BY <1>1, <1>3, JoinedSteps
  <2>2. k + 1 \in DOMAIN b
    BY <1>1, <2>1 DEF Beside
  <2>3. Len(a) + (k + 1) \in DOMAIN ab /\ ab[Len(a) + (k + 1)] = b[k + 1]
    BY <2>2, JoinedSteps
  <2>4. Len(a) + (k + 1) = i + 1
    BY <2>1
  <2> HIDE DEF ab, k
  <2> QED
    BY <1>1, <2>1, <2>3, <2>4 DEF Beside
<1> QED
  BY <1>2, <1>3

\* A list without an optional session has nothing to stand beside it.
LEMMA BesideNone ==
  ASSUME NEW a, "optionalUser" \notin Names(a)
  PROVE  Beside(a)
  BY DEF Beside, Names

\* Behind a path's validation, the second list may not bring in a context's validator.
LEMMA JoinedBehind ==
  ASSUME NEW a \in Seq(Entries), NEW b \in Seq(Entries), Behind(a), Behind(b),
         "validatePath" \notin Names(a) \/ "contextIdentifier" \notin Names(b)
  PROVE  Behind(a \o b)
<1> DEFINE ab == a \o b
<1>1. SUFFICES ASSUME NEW i \in DOMAIN ab, NEW j \in DOMAIN ab, i < j, ab[i].name = "validatePath",
                      ab[j].name = "contextIdentifier"
               PROVE  FALSE
  BY DEF Behind
<1>2. CASE j \in DOMAIN a
  <2>1. i \in DOMAIN a
    BY <1>1, <1>2, JoinedSteps
  <2>2. ab[i] = a[i] /\ ab[j] = a[j]
    BY <1>2, <2>1, JoinedSteps
  <2> QED
    BY <1>1, <1>2, <2>1, <2>2 DEF Behind
<1>3. CASE j \notin DOMAIN a /\ i \in DOMAIN a
  <2>1. ab[i] = a[i] /\ j - Len(a) \in DOMAIN b /\ ab[j] = b[j - Len(a)]
    BY <1>3, JoinedSteps
  <2> QED
    BY <1>1, <1>3, <2>1 DEF Names
<1>4. CASE j \notin DOMAIN a /\ i \notin DOMAIN a
  <2> DEFINE k == i - Len(a)
             l == j - Len(a)
  <2>1. /\ k \in DOMAIN b /\ ab[i] = b[k]
        /\ l \in DOMAIN b /\ ab[j] = b[l]
    BY <1>4, JoinedSteps
  <2>2. k < l
    BY <1>1, JoinedSteps
  <2> HIDE DEF k, l, ab
  <2> QED
    BY <1>1, <2>1, <2>2 DEF Behind
<1> QED
  BY <1>2, <1>3, <1>4

\* A list that has only one of the two cannot have them in the wrong order.
LEMMA BehindNone ==
  ASSUME NEW a, "validatePath" \notin Names(a) \/ "contextIdentifier" \notin Names(a)
  PROVE  Behind(a)
  BY DEF Behind, Names

\* If in both lists some handlers have only these routes, they have no others in the two together.
LEMMA JoinedRouted ==
  ASSUME NEW a \in Seq(Entries), NEW b \in Seq(Entries), NEW X, NEW routes,
         Routed(a, X, routes), Routed(b, X, routes)
  PROVE  Routed(a \o b, X, routes)
  BY JoinedSteps DEF Routed

\* A handler that is not there has no route at all.
LEMMA RoutedNone ==
  ASSUME NEW a, NEW X, NEW routes, Names(a) \cap X = {}
  PROVE  Routed(a, X, routes)
  BY DEF Routed, Names

\* A router given to use(): each of its steps is put behind the route, and remembers it.
LEMMA MountedSteps ==
  ASSUME NEW r \in Seq(Parts), NEW s \in Seq(Entries)
  PROVE  /\ Mount(r, s) \in Seq(Entries) /\ DOMAIN Mount(r, s) = DOMAIN s
         /\ \A i \in DOMAIN s : /\ Mount(r, s)[i].within = {r} \cup {r \o w : w \in s[i].within}
                                /\ Mount(r, s)[i].route = r \o s[i].route
                                /\ Mount(r, s)[i].type = s[i].type /\ Mount(r, s)[i].name = s[i].name
<1>1. DOMAIN Mount(r, s) = DOMAIN s
  BY DEF Mount
<1>2. ASSUME NEW i \in DOMAIN s
      PROVE  /\ Mount(r, s)[i].within = {r} \cup {r \o w : w \in s[i].within}
             /\ Mount(r, s)[i].route = r \o s[i].route
             /\ Mount(r, s)[i].type = s[i].type /\ Mount(r, s)[i].name = s[i].name
             /\ Mount(r, s)[i] \in Entries
  <2>1. s[i] \in Entries
    OBVIOUS
  <2>2. Mount(r, s)[i] = [s[i] EXCEPT !.within = {r} \cup {r \o w : w \in s[i].within}, !.route = r \o s[i].route]
    BY <2>1 DEF Mount, Entries
  <2>3. r \o s[i].route \in Seq(Parts) /\ {r} \cup {r \o w : w \in s[i].within} \in SUBSET Seq(Parts)
    <3>1. s[i].route \in Seq(Parts) /\ \A w \in s[i].within : w \in Seq(Parts)
      BY <2>1 DEF Entries
    <3> HIDE DEF Parts
    <3>2. r \o s[i].route \in Seq(Parts) /\ \A w \in s[i].within : r \o w \in Seq(Parts)
      BY <3>1
    <3> QED
      BY <3>2
  <2> QED
    BY <2>1, <2>2, <2>3 DEF Entries
<1>3. Mount(r, s) \in Seq(Entries)
  <2>1. Mount(r, s) = [i \in 1 .. Len(s) |-> Mount(r, s)[i]]
    BY <1>1 DEF Mount
  <2>2. \A i \in 1 .. Len(s) : Mount(r, s)[i] \in Entries
    BY <1>2
  <2> QED
    BY <2>1, <2>2
<1> QED
  BY <1>1, <1>2, <1>3

\* Mounting a router keeps the names of its handlers.
LEMMA MountedNames ==
  ASSUME NEW r \in Seq(Parts), NEW s \in Seq(Entries)
  PROVE  Names(Mount(r, s)) = Names(s)
<1> DEFINE ms == Mount(r, s)
<1>1. DOMAIN ms = DOMAIN s /\ \A i \in DOMAIN s : ms[i].name = s[i].name
  BY MountedSteps
<1> HIDE DEF ms
<1>2. Names(ms) = Names(s)
  BY <1>1 DEF Names
<1> QED
  BY <1>2 DEF ms

\* Mounting keeps who stands beside an optional session's step.
LEMMA MountedBeside ==
  ASSUME NEW r \in Seq(Parts), NEW s \in Seq(Entries), Beside(s)
  PROVE  Beside(Mount(r, s))
<1> DEFINE ms == Mount(r, s)
<1>1. /\ DOMAIN ms = DOMAIN s
      /\ \A i \in DOMAIN s : /\ ms[i].within = {r} \cup {r \o w : w \in s[i].within}
                             /\ ms[i].route = r \o s[i].route
                             /\ ms[i].type = s[i].type /\ ms[i].name = s[i].name
  BY MountedSteps
<1> HIDE DEF ms
<1>2. ASSUME NEW i \in DOMAIN ms, ms[i].name = "optionalUser"
      PROVE  /\ i + 1 \in DOMAIN ms /\ ms[i + 1].name \in {"contextIdentifier", "self"}
             /\ ms[i + 1].within = ms[i].within /\ ms[i + 1].route = ms[i].route /\ ms[i + 1].type = ms[i].type
  <2>1. /\ i + 1 \in DOMAIN s /\ s[i + 1].name \in {"contextIdentifier", "self"}
        /\ s[i + 1].within = s[i].within /\ s[i + 1].route = s[i].route /\ s[i + 1].type = s[i].type
    BY <1>1, <1>2 DEF Beside
  <2>2. ms[i + 1].within = ms[i].within
    BY <1>1, <1>2, <2>1
  <2> QED
    BY <1>1, <1>2, <2>1, <2>2
<1>3. Beside(ms)
  BY <1>2 DEF Beside
<1> QED
  BY <1>3 DEF ms

\* Mounting puts the routes of some handlers behind its own.
LEMMA MountedRouted ==
  ASSUME NEW r \in Seq(Parts), NEW s \in Seq(Entries), NEW X, NEW routes, Routed(s, X, routes)
  PROVE  Routed(Mount(r, s), X, {r \o route : route \in routes})
<1> DEFINE ms == Mount(r, s)
<1>1. ASSUME NEW i \in DOMAIN ms, ms[i].name \in X PROVE ms[i].route \in {r \o route : route \in routes}
  <2>1. i \in DOMAIN s /\ s[i].name \in X /\ ms[i].route = r \o s[i].route
    BY <1>1, MountedSteps
  <2>2. s[i].route \in routes
    BY <2>1 DEF Routed
  <2> HIDE DEF ms
  <2> QED
    BY <2>1, <2>2
<1> QED
  BY <1>1 DEF Routed

\* If one route is the beginning of another, it still is when both are mounted.
LEMMA HeadsMounted ==
  ASSUME NEW r \in Seq(Parts), Plain(r), NEW a \in Seq(Parts), NEW b, Heads(a, b)
  PROVE  Heads(r \o a, r \o b)
<1>1. PICK more \in Seq(Parts) : b = a \o more
  BY DEF Heads
<1>2. r \o b = (r \o a) \o more
  BY <1>1
<1>3. r \o a # <<>> /\ (r \o a)[Len(r \o a)] = a[Len(a)]
  BY DEF Heads
<1>4. Plain(r \o a)
  <2>1. ASSUME NEW i \in DOMAIN (r \o a) PROVE Fixed((r \o a)[i])
    <3>1. CASE i \in DOMAIN r
      BY <3>1 DEF Plain
    <3>2. CASE i \notin DOMAIN r
      <4>1. i - Len(r) \in DOMAIN a /\ (r \o a)[i] = a[i - Len(r)]
        BY <3>2
      <4> QED
        BY <4>1 DEF Heads, Plain
    <3> QED
      BY <3>1, <3>2
  <2> QED
    BY <2>1 DEF Plain
<1> QED
  BY <1>2, <1>3, <1>4 DEF Heads

\* Mounting keeps who leads whom, behind a route with nothing to leave out.
LEMMA MountedLed ==
  ASSUME NEW r \in Seq(Parts), NEW s \in Seq(Entries), Plain(r) \/ \A i \in DOMAIN s : s[i].route = <<>>,
         NEW X, NEW Y, Led(s, X, Y)
  PROVE  Led(Mount(r, s), X, Y)
<1>1. ASSUME NEW i \in DOMAIN s, NEW j \in DOMAIN s, Leads(s[j], s[i])
      PROVE  Leads(Mount(r, s)[j], Mount(r, s)[i])
  <2> DEFINE m == s[j]
             n == s[i]
             mm == Mount(r, s)[j]
             nn == Mount(r, s)[i]
  <2>1. m \in Entries /\ n \in Entries
    OBVIOUS
  <2>2. /\ mm.within = {r} \cup {r \o w : w \in m.within} /\ mm.route = r \o m.route /\ mm.type = m.type
        /\ nn.within = {r} \cup {r \o w : w \in n.within} /\ nn.route = r \o n.route /\ nn.type = n.type
    BY MountedSteps
  <2> HIDE DEF m, n, mm, nn
  <2>3. mm.within \subseteq nn.within /\ mm.type \in {"", nn.type}
    BY <1>1, <2>2 DEF Leads, m, n
  <2>4. ASSUME m.route = n.route PROVE Leads(mm, nn)
    BY <2>2, <2>3, <2>4 DEF Leads
  <2>5. ASSUME m.type = "", m.route \in n.within PROVE Leads(mm, nn)
    <3>1. mm.route \in nn.within
      BY <2>2, <2>5
    <3> QED
      BY <2>2, <2>3, <2>5, <3>1 DEF Leads
  <2>6. ASSUME m.type = "", n.type # "", Heads(m.route, n.route) PROVE Leads(mm, nn)
    <3>1. Heads(mm.route, nn.route)
      <4>1. m.route \in Seq(Parts)
        BY <2>1 DEF Entries
      <4>2. Heads(r \o m.route, r \o n.route)
        <5>1. m.route # <<>>
          BY <2>6 DEF Heads
        <5> QED
          BY <2>6, <4>1, <5>1, HeadsMounted DEF m
      <4> QED
        BY <2>2, <4>2
    <3> QED
      BY <2>2, <2>3, <2>6, <3>1 DEF Leads
  <2>7. Leads(mm, nn)
    <3>1. Leads(m, n)
      BY <1>1 DEF m, n
    <3> QED
      BY <3>1, <2>4, <2>5, <2>6 DEF Leads
  <2> QED
    BY <2>7 DEF mm, nn
<1>2. ASSUME NEW i \in DOMAIN s, s[i].name \in X
      PROVE  \E j \in 1 .. i - 1 : Mount(r, s)[j].name \in Y /\ Leads(Mount(r, s)[j], Mount(r, s)[i])
  <2>1. PICK j \in 1 .. i - 1 : s[j].name \in Y /\ Leads(s[j], s[i])
    BY <1>2 DEF Led
  <2>2. j \in DOMAIN s
    OBVIOUS
  <2> QED
    BY <1>1, <2>1, <2>2, MountedSteps
<1> QED
  BY <1>2, MountedSteps DEF Led
-----------------------------------------------------------------------------
(* What lists of routes promise. *)

\* The middlewares against the sessions of apps, and what stands behind which other ones.
Middlewares == {"mustBeUser", "testHandshake"}
FileOps == {"readFile", "writeFile", "deleteFile"}
Scopeds == DOMAIN DbOps \cup {"graphql", "validatePath", "listFiles", "batchInfo"}
Filed == {"contextIdentifier", "validatePath", "listFiles"}
Bound == Own \cup Middlewares \cup FileOps \cup {"optionalUser", "contextIdentifier", "validatePath"}

\* What every list of routes here promises.
Sound(steps) ==
  /\ steps \in Seq(Entries)
  /\ Led(steps, Own, {"requireUser"})
  /\ Led(steps, Users, Middlewares)
  /\ Led(steps, Middlewares, {"requireUser"})
  /\ Led(steps, {"contextIdentifier"}, {"optionalUser"})
  /\ Led(steps, FileOps, {"validatePath"})
  /\ Beside(steps)
\* Of the handlers that need a scope, there is none.
Unscoped(steps) == Names(steps) \cap (Scopeds \cup {"contextIdentifier"}) = {}

\* Two lists in a sound order are in a sound order together.
LEMMA SoundBoth ==
  ASSUME NEW a, NEW b, Sound(a), Sound(b)
  PROVE  Sound(a \o b)
<1>1. a \in Seq(Entries) /\ b \in Seq(Entries)
  BY DEF Sound
<1>2. a \o b \in Seq(Entries)
  BY <1>1, JoinedSteps
<1>3. ASSUME NEW X, NEW Y, Led(a, X, Y), Led(b, X, Y) PROVE Led(a \o b, X, Y)
  BY <1>1, <1>3, LedBoth
<1>4. Beside(a \o b)
  BY <1>1, JoinedBeside DEF Sound
<1> QED
  BY <1>2, <1>3, <1>4, Zenon DEF Sound

\* A router in a sound order stays in one when it is mounted.
LEMMA SoundMounted ==
  ASSUME NEW r \in Seq(Parts), NEW s, Sound(s), Plain(r) \/ \A i \in DOMAIN s : s[i].route = <<>>
  PROVE  Sound(Mount(r, s))
<1>1. s \in Seq(Entries)
  BY DEF Sound
<1>2. Mount(r, s) \in Seq(Entries)
  BY <1>1, MountedSteps
<1>3. ASSUME NEW X, NEW Y, Led(s, X, Y) PROVE Led(Mount(r, s), X, Y)
  BY <1>1, <1>3, MountedLed
<1>4. Beside(Mount(r, s))
  BY <1>1, MountedBeside DEF Sound
<1> QED
  BY <1>2, <1>3, <1>4, Zenon DEF Sound

\* A list with none of the handlers in question is in a sound order.
LEMMA SoundNone ==
  ASSUME NEW s \in Seq(Entries), Names(s) \cap Bound = {}
  PROVE  Sound(s)
<1>1. Users \subseteq Own
  BY DEF Users
<1> HIDE DEF Users, Own
<1>2. /\ Names(s) \cap Own = {} /\ Names(s) \cap Users = {} /\ Names(s) \cap Middlewares = {}
      /\ Names(s) \cap FileOps = {}
      /\ Names(s) \cap {"contextIdentifier"} = {} /\ "optionalUser" \notin Names(s)
  BY <1>1 DEF Bound
<1> QED
  BY <1>2, LedNone, BesideNone, Zenon DEF Sound

\* Two lists without the handlers of a scope have none together.
LEMMA UnscopedBoth ==
  ASSUME NEW a \in Seq(Entries), NEW b \in Seq(Entries), Unscoped(a), Unscoped(b)
  PROVE  Unscoped(a \o b)
  BY JoinedNames DEF Unscoped

\* Mounting brings no handlers of a scope in.
LEMMA UnscopedMounted ==
  ASSUME NEW r \in Seq(Parts), NEW s \in Seq(Entries), Unscoped(s)
  PROVE  Unscoped(Mount(r, s))
  BY MountedNames DEF Unscoped

Is(entry, type, route, name) == entry.within = {} /\ entry.type = type /\ entry.route = route /\ entry.name = name

\* On() makes the step that its arguments say, in no router.
LEMMA OnIs == \A entry, type, route, name : entry = On(type, route, name) => Is(entry, type, route, name)
  BY DEF On, Is

\* A step that On() makes of the routes and names in use is an entry.
LEMMA OnType ==
  \A type \in Types : \A route \in Seq(Parts) : \A name \in HandlerNames : On(type, route, name) \in Entries
  BY DEF On, Entries

\* A literal and a parameter cannot be left out.
LEMMA FixedParts ==
  \A word : /\ Fixed(Lit(word)) /\ Lit(word).is = "literal" /\ Lit(word).name = word
            /\ Fixed(Par(word)) /\ Par(word).is = "param" /\ Par(word).name = word
  BY DEF Part, Lit, Par, Fixed

\* The parts that the routes in use are made of.
LEMMA PartTypes ==
  /\ \A word \in Words : Lit(word) \in Parts /\ Par(word) \in Parts /\ Maybe(Par(word)) \in Parts
  /\ Rest("path") \in Parts /\ Filled("path") \in Parts /\ Maybe(Rest("path")) \in Parts /\ Root4 \in Parts /\ Maybe(Root4) \in Parts
  BY DEF Parts

\* The methods that the routes are for; use() is for all of them.
LEMMA AllTypes ==
  /\ "" \in Types /\ "HEAD" \in Types /\ "GET" \in Types
  /\ "POST" \in Types /\ "PUT" \in Types /\ "DELETE" \in Types
  BY DEF Types

\* Tuples of up to four are sequences.
LEMMA Tuples ==
  \A S : /\ <<>> \in Seq(S)
         /\ \A a, b, c, d \in S : /\ <<a>> \in Seq(S) /\ <<a, b>> \in Seq(S)
                                 /\ <<a, b, c>> \in Seq(S) /\ <<a, b, c, d>> \in Seq(S)
  OBVIOUS

\* Routes of up to two parts, and what they begin with.
LEMMA PlainRoutes ==
  ASSUME NEW a \in Parts, Fixed(a), NEW b \in Parts
  PROVE  /\ Plain(<<>>) /\ Plain(<<a>>) /\ <<a>> \in Seq(Parts)
         /\ Fixed(b) => Plain(<<a, b>>)
         /\ Begun(a) => Heads(<<a>>, <<a, b>>)
<1>1. Plain(<<>>) /\ Plain(<<a>>) /\ (Fixed(b) => Plain(<<a, b>>))
  BY DEF Plain
<1>2. <<a>> \in Seq(Parts) /\ <<b>> \in Seq(Parts) /\ <<a, b>> = <<a>> \o <<b>>
  <2> HIDE DEF Parts
  <2> QED
    OBVIOUS
<1>3. <<a>> # <<>> /\ <<a>>[Len(<<a>>)] = a
  OBVIOUS
<1> QED
  BY <1>1, <1>2, <1>3 DEF Heads

\* A list that is given step by step is a list of entries.
LEMMA IsSteps ==
  ASSUME NEW n \in Nat, NEW s, s = [i \in 1 .. n |-> s[i]], \A i \in 1 .. n : s[i] \in Entries
  PROVE  s \in Seq(Entries) /\ DOMAIN s = 1 .. n
<1> HIDE DEF Entries
<1> QED
  OBVIOUS

\* One step that leads all of those that have to be led is enough.
LEMMA LedByOne ==
  ASSUME NEW t \in Seq(Entries), NEW X, NEW Y, NEW those, NEW j \in Nat \ {0},
         t[j].name \in Y,
         \A i \in DOMAIN t : t[i].name \in X => i \in those,
         \A i \in those : i \in Nat /\ j < i /\ Leads(t[j], t[i])
  PROVE  Led(t, X, Y)
<1>1. ASSUME NEW i \in DOMAIN t, t[i].name \in X PROVE j \in 1 .. i - 1 /\ Leads(t[j], t[i])
  BY <1>1
<1> QED
  BY <1>1 DEF Led
-----------------------------------------------------------------------------
(* The routes of the APIs, one router after the other. *)

\* CoreRoutes: its handlers stand behind the middlewares they rely on.
LEMMA CoreRoutesSound ==
  Sound(CoreRoutes) /\ Unscoped(CoreRoutes)
<1> DEFINE t == CoreRoutes
           r1 == <<Lit("type")>>
           r2 == <<Lit("self")>>
<1>1. r1 \in Seq(Parts) /\ r2 \in Seq(Parts) /\ <<>> \in Seq(Parts)
  <2>1. Lit("self") \in Parts /\ Lit("type") \in Parts
    BY PartTypes DEF Words
  <2> HIDE DEF Parts
  <2> QED
    BY <2>1, Tuples
<1>2. t = [i \in 1 .. 7 |-> t[i]]
  BY DEF CoreRoutes, On, Use
<1>3. /\ t[1] = On("GET", r1, "type")
      /\ t[2] = On("GET", r2, "get-self")
      /\ t[3] = On("GET", r2, "optionalUser")
      /\ t[4] = On("GET", r2, "self")
      /\ t[5] = On("DELETE", r2, "delete-self")
      /\ t[6] = On("DELETE", r2, "requireUser")
      /\ t[7] = On("DELETE", r2, "deleteSelf")
  BY DEF CoreRoutes, Use
<1> HIDE DEF t, r1, r2
<1>4. /\ Is(t[1], "GET", r1, "type")
      /\ Is(t[2], "GET", r2, "get-self")
      /\ Is(t[3], "GET", r2, "optionalUser")
      /\ Is(t[4], "GET", r2, "self")
      /\ Is(t[5], "DELETE", r2, "delete-self")
      /\ Is(t[6], "DELETE", r2, "requireUser")
      /\ Is(t[7], "DELETE", r2, "deleteSelf")
  BY <1>3, OnIs, Zenon
<1>5. /\ "type" \in HandlerNames /\ "get-self" \in HandlerNames /\ "optionalUser" \in HandlerNames
      /\ "self" \in HandlerNames /\ "delete-self" \in HandlerNames /\ "requireUser" \in HandlerNames
      /\ "deleteSelf" \in HandlerNames
  BY DEF HandlerNames
<1>6. /\ t[1] \in Entries /\ t[2] \in Entries /\ t[3] \in Entries /\ t[4] \in Entries /\ t[5] \in Entries
      /\ t[6] \in Entries /\ t[7] \in Entries
  BY <1>1, <1>3, <1>5, OnType, AllTypes, Zenon
<1>7. t \in Seq(Entries) /\ DOMAIN t = 1 .. 7
  <2>1. \A i \in 1 .. 7 : t[i] \in Entries
    BY <1>6
  <2> QED
    BY <1>2, <2>1, IsSteps
<1>8. \A i \in 1 .. 7 : i = 1 \/ i = 2 \/ i = 3 \/ i = 4 \/ i = 5 \/ i = 6 \/ i = 7
  OBVIOUS
<1>9. /\ t[1].name = "type"
      /\ t[2].name = "get-self"
      /\ t[3].name = "optionalUser"
      /\ t[4].name = "self"
      /\ t[5].name = "delete-self"
      /\ t[6].name = "requireUser"
      /\ t[7].name = "deleteSelf"
  BY <1>4, Zenon DEF Is
<1>10. Leads(t[6], t[7])
  BY <1>4 DEF Leads, Is
<1>11. Led(t, Own, {"requireUser"})
  <2>1. ASSUME NEW i \in 1 .. 7, t[i].name \in Own PROVE i \in {7}
    BY <2>1, <1>8, <1>9 DEF Own
  <2>2. 6 \in Nat \ {0} /\ t[6].name \in {"requireUser"}
    BY <1>9
  <2>3. \A i \in {7} : i \in Nat /\ 6 < i /\ Leads(t[6], t[i])
    BY <1>10
  <2> QED
    BY <1>7, <2>1, <2>2, <2>3, LedByOne
<1>12. Led(t, Users, Middlewares)
  <2>1. ASSUME NEW i \in 1 .. 7 PROVE t[i].name \notin Users
    BY <1>8, <1>9 DEF Own, Users
  <2> QED
    BY <1>7, <2>1 DEF Led
<1>13. Led(t, Middlewares, {"requireUser"})
  <2>1. ASSUME NEW i \in 1 .. 7 PROVE t[i].name \notin Middlewares
    BY <1>8, <1>9 DEF Middlewares
  <2> QED
    BY <1>7, <2>1 DEF Led
<1>14. Led(t, {"contextIdentifier"}, {"optionalUser"})
  <2>1. ASSUME NEW i \in 1 .. 7 PROVE t[i].name \notin {"contextIdentifier"}
    BY <1>8, <1>9
  <2> QED
    BY <1>7, <2>1 DEF Led
<1>15. Led(t, FileOps, {"validatePath"})
  <2>1. ASSUME NEW i \in 1 .. 7 PROVE t[i].name \notin FileOps
    BY <1>8, <1>9 DEF FileOps
  <2> QED
    BY <1>7, <2>1 DEF Led
<1>16. Beside(t)
  <2>1. ASSUME NEW i \in 1 .. 7, t[i].name = "optionalUser" PROVE i = 3
    BY <2>1, <1>8, <1>9
  <2>2. 3 + 1 \in 1 .. 7 /\ 3 + 1 = 4
    OBVIOUS
  <2>3. /\ t[4].name \in {"contextIdentifier", "self"} /\ t[4].within = t[3].within
        /\ t[4].route = t[3].route /\ t[4].type = t[3].type
    BY <1>4 DEF Is
  <2> QED
    BY <1>7, <2>1, <2>2, <2>3 DEF Beside
<1>17. Sound(t)
  BY <1>7, <1>11, <1>12, <1>13, <1>14, <1>15, <1>16 DEF Sound
<1>18. Unscoped(t)
  <2>1. ASSUME NEW i \in 1 .. 7 PROVE t[i].name \notin Scopeds \cup {"contextIdentifier"}
    BY <1>8, <1>9 DEF Scopeds, DbOps
  <2> QED
    BY <1>7, <2>1 DEF Unscoped, Names
<1> QED
  BY <1>17, <1>18 DEF t

\* HandshakeRoutes: its handlers stand behind the middlewares they rely on.
LEMMA HandshakeRoutesSound ==
  Sound(HandshakeRoutes) /\ Unscoped(HandshakeRoutes)
<1> DEFINE t == HandshakeRoutes
           r1 == <<Lit("start")>>
           r2 == <<Lit("complete")>>
           r3 == <<Par("id")>>
           r4 == <<Par("id"), Lit("approve")>>
           r5 == <<Par("id"), Lit("cancel")>>
<1>1. /\ r1 \in Seq(Parts) /\ r2 \in Seq(Parts) /\ r3 \in Seq(Parts) /\ r4 \in Seq(Parts) /\ r5 \in Seq(Parts)
      /\ <<>> \in Seq(Parts)
  <2>1. /\ Lit("approve") \in Parts /\ Lit("cancel") \in Parts /\ Lit("complete") \in Parts
        /\ Lit("start") \in Parts /\ Par("id") \in Parts
    BY PartTypes DEF Words
  <2> HIDE DEF Parts
  <2> QED
    BY <2>1, Tuples
<1>2. t = [i \in 1 .. 8 |-> t[i]]
  BY DEF HandshakeRoutes, On, Use
<1>3. /\ t[1] = On("", <<>>, "auth-handshake")
      /\ t[2] = On("GET", r1, "startHandshake")
      /\ t[3] = On("POST", r2, "completeHandshake")
      /\ t[4] = On("", r3, "requireUser")
      /\ t[5] = On("", r3, "testHandshake")
      /\ t[6] = On("GET", r3, "viewHandshake")
      /\ t[7] = On("GET", r4, "approveHandshake")
      /\ t[8] = On("GET", r5, "cancelHandshake")
  BY DEF HandshakeRoutes, Use
<1> HIDE DEF t, r1, r2, r3, r4, r5
<1>4. /\ Is(t[1], "", <<>>, "auth-handshake")
      /\ Is(t[2], "GET", r1, "startHandshake")
      /\ Is(t[3], "POST", r2, "completeHandshake")
      /\ Is(t[4], "", r3, "requireUser")
      /\ Is(t[5], "", r3, "testHandshake")
      /\ Is(t[6], "GET", r3, "viewHandshake")
      /\ Is(t[7], "GET", r4, "approveHandshake")
      /\ Is(t[8], "GET", r5, "cancelHandshake")
  BY <1>3, OnIs, Zenon
<1>5. /\ "auth-handshake" \in HandlerNames /\ "startHandshake" \in HandlerNames
      /\ "completeHandshake" \in HandlerNames /\ "requireUser" \in HandlerNames
      /\ "testHandshake" \in HandlerNames /\ "viewHandshake" \in HandlerNames
      /\ "approveHandshake" \in HandlerNames /\ "cancelHandshake" \in HandlerNames
  BY DEF HandlerNames
<1>6. /\ t[1] \in Entries /\ t[2] \in Entries /\ t[3] \in Entries /\ t[4] \in Entries /\ t[5] \in Entries
      /\ t[6] \in Entries /\ t[7] \in Entries /\ t[8] \in Entries
  BY <1>1, <1>3, <1>5, OnType, AllTypes, Zenon
<1>7. t \in Seq(Entries) /\ DOMAIN t = 1 .. 8
  <2>1. \A i \in 1 .. 8 : t[i] \in Entries
    BY <1>6
  <2> QED
    BY <1>2, <2>1, IsSteps
<1>8. \A i \in 1 .. 8 : i = 1 \/ i = 2 \/ i = 3 \/ i = 4 \/ i = 5 \/ i = 6 \/ i = 7 \/ i = 8
  OBVIOUS
<1>9. /\ t[1].name = "auth-handshake"
      /\ t[2].name = "startHandshake"
      /\ t[3].name = "completeHandshake"
      /\ t[4].name = "requireUser"
      /\ t[5].name = "testHandshake"
      /\ t[6].name = "viewHandshake"
      /\ t[7].name = "approveHandshake"
      /\ t[8].name = "cancelHandshake"
  BY <1>4, Zenon DEF Is
<1>10. Heads(r3, r4) /\ Heads(r3, r5)
  <2>1. Lit("approve") \in Parts /\ Lit("cancel") \in Parts /\ Par("id") \in Parts
    BY PartTypes DEF Words
  <2>2. Fixed(Par("id")) /\ Begun(Par("id"))
    BY FixedParts, BeginsAssumption DEF Begun
  <2> QED
    BY <2>1, <2>2, PlainRoutes DEF r3, r4, r5
<1>11. /\ Leads(t[4], t[5]) /\ Leads(t[4], t[6]) /\ Leads(t[4], t[7]) /\ Leads(t[4], t[8]) /\ Leads(t[5], t[6])
       /\ Leads(t[5], t[7]) /\ Leads(t[5], t[8])
  BY <1>10, <1>4 DEF Leads, Is
<1>12. Led(t, Own, {"requireUser"})
  <2>1. ASSUME NEW i \in 1 .. 8, t[i].name \in Own PROVE i \in {6, 7, 8}
    BY <2>1, <1>8, <1>9 DEF Own
  <2>2. 4 \in Nat \ {0} /\ t[4].name \in {"requireUser"}
    BY <1>9
  <2>3. \A i \in {6, 7, 8} : i \in Nat /\ 4 < i /\ Leads(t[4], t[i])
    BY <1>11
  <2> QED
    BY <1>7, <2>1, <2>2, <2>3, LedByOne
<1>13. Led(t, Users, Middlewares)
  <2>1. ASSUME NEW i \in 1 .. 8, t[i].name \in Users PROVE i \in {6, 7, 8}
    BY <2>1, <1>8, <1>9 DEF Own, Users
  <2>2. 5 \in Nat \ {0} /\ t[5].name \in Middlewares
    BY <1>9 DEF Middlewares
  <2>3. \A i \in {6, 7, 8} : i \in Nat /\ 5 < i /\ Leads(t[5], t[i])
    BY <1>11
  <2> QED
    BY <1>7, <2>1, <2>2, <2>3, LedByOne
<1>14. Led(t, Middlewares, {"requireUser"})
  <2>1. ASSUME NEW i \in 1 .. 8, t[i].name \in Middlewares PROVE i \in {5}
    BY <2>1, <1>8, <1>9 DEF Middlewares
  <2>2. 4 \in Nat \ {0} /\ t[4].name \in {"requireUser"}
    BY <1>9
  <2>3. \A i \in {5} : i \in Nat /\ 4 < i /\ Leads(t[4], t[i])
    BY <1>11
  <2> QED
    BY <1>7, <2>1, <2>2, <2>3, LedByOne
<1>15. Led(t, {"contextIdentifier"}, {"optionalUser"})
  <2>1. ASSUME NEW i \in 1 .. 8 PROVE t[i].name \notin {"contextIdentifier"}
    BY <1>8, <1>9
  <2> QED
    BY <1>7, <2>1 DEF Led
<1>16. Led(t, FileOps, {"validatePath"})
  <2>1. ASSUME NEW i \in 1 .. 8 PROVE t[i].name \notin FileOps
    BY <1>8, <1>9 DEF FileOps
  <2> QED
    BY <1>7, <2>1 DEF Led
<1>17. Beside(t)
  <2>1. ASSUME NEW i \in 1 .. 8 PROVE t[i].name # "optionalUser"
    BY <1>8, <1>9
  <2> QED
    BY <1>7, <2>1 DEF Beside
<1>18. Sound(t)
  BY <1>7, <1>12, <1>13, <1>14, <1>15, <1>16, <1>17 DEF Sound
<1>19. Unscoped(t)
  <2>1. ASSUME NEW i \in 1 .. 8 PROVE t[i].name \notin Scopeds \cup {"contextIdentifier"}
    BY <1>8, <1>9 DEF Scopeds, DbOps
  <2> QED
    BY <1>7, <2>1 DEF Unscoped, Names
<1> QED
  BY <1>18, <1>19 DEF t

\* MasterKeyRoutes: its handlers stand behind the middlewares they rely on.
LEMMA MasterKeyRoutesSound ==
  Sound(MasterKeyRoutes) /\ Unscoped(MasterKeyRoutes)
<1> DEFINE t == MasterKeyRoutes
           r1 == <<Par("id"), Lit("generate-session")>>
           r2 == <<Par("id")>>
<1>1. r1 \in Seq(Parts) /\ r2 \in Seq(Parts) /\ <<>> \in Seq(Parts)
  <2>1. Lit("generate-session") \in Parts /\ Par("id") \in Parts
    BY PartTypes DEF Words
  <2> HIDE DEF Parts
  <2> QED
    BY <2>1, Tuples
<1>2. t = [i \in 1 .. 9 |-> t[i]]
  BY DEF MasterKeyRoutes, On, Use
<1>3. /\ t[1] = On("", <<>>, "auth-master-key")
      /\ t[2] = On("POST", r1, "generateSession")
      /\ t[3] = On("", <<>>, "requireUser")
      /\ t[4] = On("", <<>>, "mustBeUser")
      /\ t[5] = On("GET", <<>>, "getMasterKeys")
      /\ t[6] = On("POST", <<>>, "addMasterKey")
      /\ t[7] = On("", r2, "findMasterKey")
      /\ t[8] = On("PUT", r2, "updateMasterKey")
      /\ t[9] = On("DELETE", r2, "deleteMasterKey")
  BY DEF MasterKeyRoutes, Use
<1> HIDE DEF t, r1, r2
<1>4. /\ Is(t[1], "", <<>>, "auth-master-key")
      /\ Is(t[2], "POST", r1, "generateSession")
      /\ Is(t[3], "", <<>>, "requireUser")
      /\ Is(t[4], "", <<>>, "mustBeUser")
      /\ Is(t[5], "GET", <<>>, "getMasterKeys")
      /\ Is(t[6], "POST", <<>>, "addMasterKey")
      /\ Is(t[7], "", r2, "findMasterKey")
      /\ Is(t[8], "PUT", r2, "updateMasterKey")
      /\ Is(t[9], "DELETE", r2, "deleteMasterKey")
  BY <1>3, OnIs, Zenon
<1>5. /\ "auth-master-key" \in HandlerNames /\ "generateSession" \in HandlerNames
      /\ "requireUser" \in HandlerNames /\ "mustBeUser" \in HandlerNames /\ "getMasterKeys" \in HandlerNames
      /\ "addMasterKey" \in HandlerNames /\ "findMasterKey" \in HandlerNames
      /\ "updateMasterKey" \in HandlerNames /\ "deleteMasterKey" \in HandlerNames
  BY DEF HandlerNames
<1>6. /\ t[1] \in Entries /\ t[2] \in Entries /\ t[3] \in Entries /\ t[4] \in Entries /\ t[5] \in Entries
      /\ t[6] \in Entries /\ t[7] \in Entries /\ t[8] \in Entries /\ t[9] \in Entries
  BY <1>1, <1>3, <1>5, OnType, AllTypes, Zenon
<1>7. t \in Seq(Entries) /\ DOMAIN t = 1 .. 9
  <2>1. \A i \in 1 .. 9 : t[i] \in Entries
    BY <1>6
  <2> QED
    BY <1>2, <2>1, IsSteps
<1>8. \A i \in 1 .. 9 : i = 1 \/ i = 2 \/ i = 3 \/ i = 4 \/ i = 5 \/ i = 6 \/ i = 7 \/ i = 8 \/ i = 9
  OBVIOUS
<1>9. /\ t[1].name = "auth-master-key"
      /\ t[2].name = "generateSession"
      /\ t[3].name = "requireUser"
      /\ t[4].name = "mustBeUser"
      /\ t[5].name = "getMasterKeys"
      /\ t[6].name = "addMasterKey"
      /\ t[7].name = "findMasterKey"
      /\ t[8].name = "updateMasterKey"
      /\ t[9].name = "deleteMasterKey"
  BY <1>4, Zenon DEF Is
<1>10. Leads(t[3], t[4]) /\ Leads(t[3], t[5]) /\ Leads(t[3], t[6]) /\ Leads(t[4], t[5]) /\ Leads(t[4], t[6])
  BY <1>4 DEF Leads, Is
<1>11. Led(t, Own, {"requireUser"})
  <2>1. ASSUME NEW i \in 1 .. 9, t[i].name \in Own PROVE i \in {5, 6}
    BY <2>1, <1>8, <1>9 DEF Own
  <2>2. 3 \in Nat \ {0} /\ t[3].name \in {"requireUser"}
    BY <1>9
  <2>3. \A i \in {5, 6} : i \in Nat /\ 3 < i /\ Leads(t[3], t[i])
    BY <1>10
  <2> QED
    BY <1>7, <2>1, <2>2, <2>3, LedByOne
<1>12. Led(t, Users, Middlewares)
  <2>1. ASSUME NEW i \in 1 .. 9, t[i].name \in Users PROVE i \in {5, 6}
    BY <2>1, <1>8, <1>9 DEF Own, Users
  <2>2. 4 \in Nat \ {0} /\ t[4].name \in Middlewares
    BY <1>9 DEF Middlewares
  <2>3. \A i \in {5, 6} : i \in Nat /\ 4 < i /\ Leads(t[4], t[i])
    BY <1>10
  <2> QED
    BY <1>7, <2>1, <2>2, <2>3, LedByOne
<1>13. Led(t, Middlewares, {"requireUser"})
  <2>1. ASSUME NEW i \in 1 .. 9, t[i].name \in Middlewares PROVE i \in {4}
    BY <2>1, <1>8, <1>9 DEF Middlewares
  <2>2. 3 \in Nat \ {0} /\ t[3].name \in {"requireUser"}
    BY <1>9
  <2>3. \A i \in {4} : i \in Nat /\ 3 < i /\ Leads(t[3], t[i])
    BY <1>10
  <2> QED
    BY <1>7, <2>1, <2>2, <2>3, LedByOne
<1>14. Led(t, {"contextIdentifier"}, {"optionalUser"})
  <2>1. ASSUME NEW i \in 1 .. 9 PROVE t[i].name \notin {"contextIdentifier"}
    BY <1>8, <1>9
  <2> QED
    BY <1>7, <2>1 DEF Led
<1>15. Led(t, FileOps, {"validatePath"})
  <2>1. ASSUME NEW i \in 1 .. 9 PROVE t[i].name \notin FileOps
    BY <1>8, <1>9 DEF FileOps
  <2> QED
    BY <1>7, <2>1 DEF Led
<1>16. Beside(t)
  <2>1. ASSUME NEW i \in 1 .. 9 PROVE t[i].name # "optionalUser"
    BY <1>8, <1>9
  <2> QED
    BY <1>7, <2>1 DEF Beside
<1>17. Sound(t)
  BY <1>7, <1>11, <1>12, <1>13, <1>14, <1>15, <1>16 DEF Sound
<1>18. Unscoped(t)
  <2>1. ASSUME NEW i \in 1 .. 9 PROVE t[i].name \notin Scopeds \cup {"contextIdentifier"}
    BY <1>8, <1>9 DEF Scopeds, DbOps
  <2> QED
    BY <1>7, <2>1 DEF Unscoped, Names
<1> QED
  BY <1>17, <1>18 DEF t

\* SessionsRoutes: its handlers stand behind the middlewares they rely on.
LEMMA SessionsRoutesSound ==
  Sound(SessionsRoutes) /\ Unscoped(SessionsRoutes)
<1> DEFINE t == SessionsRoutes
           r1 == <<Lit("sessions")>>
           r2 == <<Lit("sessions"), Par("id")>>
<1>1. r1 \in Seq(Parts) /\ r2 \in Seq(Parts) /\ <<>> \in Seq(Parts)
  <2>1. Lit("sessions") \in Parts /\ Par("id") \in Parts
    BY PartTypes DEF Words
  <2> HIDE DEF Parts
  <2> QED
    BY <2>1, Tuples
<1>2. t = [i \in 1 .. 5 |-> t[i]]
  <2>1. /\ "requireUser" \in HandlerNames /\ "mustBeUser" \in HandlerNames /\ "sessions" \in HandlerNames
        /\ "deleteSession" \in HandlerNames /\ "deleteSessions" \in HandlerNames
    BY DEF HandlerNames
  <2> HIDE DEF r1, r2
  <2> DEFINE a == On("", r1, "requireUser")
             b == On("", r1, "mustBeUser")
             c == On("GET", r1, "sessions")
             d == On("DELETE", r2, "deleteSession")
             e == On("DELETE", r1, "deleteSessions")
             u == <<a, b>> \o <<c, d, e>>
  <2>2. a \in Entries /\ b \in Entries /\ c \in Entries /\ d \in Entries /\ e \in Entries
    BY <1>1, <2>1, OnType, AllTypes, Zenon
  <2>3. t = u
    BY DEF SessionsRoutes, SessionsMiddleware, Use, r1, r2
  <2> HIDE DEF a, b, c, d, e
  <2>4. <<a, b>> \in Seq(Entries) /\ <<c, d, e>> \in Seq(Entries)
    BY <2>2
  <2>5. u \in Seq(Entries) /\ Len(u) = 5
    BY <2>4
  <2> HIDE DEF t, u
  <2>6. u = [i \in 1 .. 5 |-> u[i]]
    BY <2>5
  <2> QED
    BY <2>3, <2>6
<1>3. /\ t[1] = On("", r1, "requireUser")
      /\ t[2] = On("", r1, "mustBeUser")
      /\ t[3] = On("GET", r1, "sessions")
      /\ t[4] = On("DELETE", r2, "deleteSession")
      /\ t[5] = On("DELETE", r1, "deleteSessions")
  BY DEF SessionsRoutes, Use, SessionsMiddleware
<1> HIDE DEF t, r1, r2
<1>4. /\ Is(t[1], "", r1, "requireUser")
      /\ Is(t[2], "", r1, "mustBeUser")
      /\ Is(t[3], "GET", r1, "sessions")
      /\ Is(t[4], "DELETE", r2, "deleteSession")
      /\ Is(t[5], "DELETE", r1, "deleteSessions")
  BY <1>3, OnIs, Zenon
<1>5. /\ "requireUser" \in HandlerNames /\ "mustBeUser" \in HandlerNames /\ "sessions" \in HandlerNames
      /\ "deleteSession" \in HandlerNames /\ "deleteSessions" \in HandlerNames
  BY DEF HandlerNames
<1>6. t[1] \in Entries /\ t[2] \in Entries /\ t[3] \in Entries /\ t[4] \in Entries /\ t[5] \in Entries
  BY <1>1, <1>3, <1>5, OnType, AllTypes, Zenon
<1>7. t \in Seq(Entries) /\ DOMAIN t = 1 .. 5
  <2>1. \A i \in 1 .. 5 : t[i] \in Entries
    BY <1>6
  <2> QED
    BY <1>2, <2>1, IsSteps
<1>8. \A i \in 1 .. 5 : i = 1 \/ i = 2 \/ i = 3 \/ i = 4 \/ i = 5
  OBVIOUS
<1>9. /\ t[1].name = "requireUser"
      /\ t[2].name = "mustBeUser"
      /\ t[3].name = "sessions"
      /\ t[4].name = "deleteSession"
      /\ t[5].name = "deleteSessions"
  BY <1>4, Zenon DEF Is
<1>10. Heads(r1, r2)
  <2>1. Lit("sessions") \in Parts /\ Par("id") \in Parts
    BY PartTypes DEF Words
  <2>2. Fixed(Lit("sessions")) /\ Begun(Lit("sessions"))
    BY FixedParts, BeginsAssumption DEF Begun
  <2> QED
    BY <2>1, <2>2, PlainRoutes DEF r1, r2
<1>11. /\ Leads(t[1], t[2]) /\ Leads(t[1], t[3]) /\ Leads(t[1], t[4]) /\ Leads(t[1], t[5]) /\ Leads(t[2], t[3])
       /\ Leads(t[2], t[4]) /\ Leads(t[2], t[5])
  BY <1>10, <1>4 DEF Leads, Is
<1>12. Led(t, Own, {"requireUser"})
  <2>1. ASSUME NEW i \in 1 .. 5, t[i].name \in Own PROVE i \in {3, 4, 5}
    BY <2>1, <1>8, <1>9 DEF Own
  <2>2. 1 \in Nat \ {0} /\ t[1].name \in {"requireUser"}
    BY <1>9
  <2>3. \A i \in {3, 4, 5} : i \in Nat /\ 1 < i /\ Leads(t[1], t[i])
    BY <1>11
  <2> QED
    BY <1>7, <2>1, <2>2, <2>3, LedByOne
<1>13. Led(t, Users, Middlewares)
  <2>1. ASSUME NEW i \in 1 .. 5, t[i].name \in Users PROVE i \in {3, 4, 5}
    BY <2>1, <1>8, <1>9 DEF Own, Users
  <2>2. 2 \in Nat \ {0} /\ t[2].name \in Middlewares
    BY <1>9 DEF Middlewares
  <2>3. \A i \in {3, 4, 5} : i \in Nat /\ 2 < i /\ Leads(t[2], t[i])
    BY <1>11
  <2> QED
    BY <1>7, <2>1, <2>2, <2>3, LedByOne
<1>14. Led(t, Middlewares, {"requireUser"})
  <2>1. ASSUME NEW i \in 1 .. 5, t[i].name \in Middlewares PROVE i \in {2}
    BY <2>1, <1>8, <1>9 DEF Middlewares
  <2>2. 1 \in Nat \ {0} /\ t[1].name \in {"requireUser"}
    BY <1>9
  <2>3. \A i \in {2} : i \in Nat /\ 1 < i /\ Leads(t[1], t[i])
    BY <1>11
  <2> QED
    BY <1>7, <2>1, <2>2, <2>3, LedByOne
<1>15. Led(t, {"contextIdentifier"}, {"optionalUser"})
  <2>1. ASSUME NEW i \in 1 .. 5 PROVE t[i].name \notin {"contextIdentifier"}
    BY <1>8, <1>9
  <2> QED
    BY <1>7, <2>1 DEF Led
<1>16. Led(t, FileOps, {"validatePath"})
  <2>1. ASSUME NEW i \in 1 .. 5 PROVE t[i].name \notin FileOps
    BY <1>8, <1>9 DEF FileOps
  <2> QED
    BY <1>7, <2>1 DEF Led
<1>17. Beside(t)
  <2>1. ASSUME NEW i \in 1 .. 5 PROVE t[i].name # "optionalUser"
    BY <1>8, <1>9
  <2> QED
    BY <1>7, <2>1 DEF Beside
<1>18. Sound(t)
  BY <1>7, <1>12, <1>13, <1>14, <1>15, <1>16, <1>17 DEF Sound
<1>19. Unscoped(t)
  <2>1. ASSUME NEW i \in 1 .. 5 PROVE t[i].name \notin Scopeds \cup {"contextIdentifier"}
    BY <1>8, <1>9 DEF Scopeds, DbOps
  <2> QED
    BY <1>7, <2>1 DEF Unscoped, Names
<1> QED
  BY <1>18, <1>19 DEF t

\* AccountRoutes: its handlers stand behind the middlewares they rely on.
LEMMA AccountRoutesSound ==
  Sound(AccountRoutes) /\ Unscoped(AccountRoutes)
<1> DEFINE t == AccountRoutes
           r1 == <<Lit("login")>>
           r2 == <<Lit("register")>>
           r3 == <<Lit("can-register")>>
           r4 == <<Lit("change-pass")>>
<1>1. r1 \in Seq(Parts) /\ r2 \in Seq(Parts) /\ r3 \in Seq(Parts) /\ r4 \in Seq(Parts) /\ <<>> \in Seq(Parts)
  <2>1. /\ Lit("can-register") \in Parts /\ Lit("change-pass") \in Parts /\ Lit("login") \in Parts
        /\ Lit("register") \in Parts
    BY PartTypes DEF Words
  <2> HIDE DEF Parts
  <2> QED
    BY <2>1, Tuples
<1>2. t = [i \in 1 .. 6 |-> t[i]]
  BY DEF AccountRoutes, On, Use
<1>3. /\ t[1] = On("", <<>>, "Auth")
      /\ t[2] = On("POST", r1, "login")
      /\ t[3] = On("POST", r2, "register")
      /\ t[4] = On("GET", r3, "canRegister")
      /\ t[5] = On("POST", r4, "requireUser")
      /\ t[6] = On("POST", r4, "changePass")
  BY DEF AccountRoutes, Use
<1> HIDE DEF t, r1, r2, r3, r4
<1>4. /\ Is(t[1], "", <<>>, "Auth")
      /\ Is(t[2], "POST", r1, "login")
      /\ Is(t[3], "POST", r2, "register")
      /\ Is(t[4], "GET", r3, "canRegister")
      /\ Is(t[5], "POST", r4, "requireUser")
      /\ Is(t[6], "POST", r4, "changePass")
  BY <1>3, OnIs, Zenon
<1>5. /\ "Auth" \in HandlerNames /\ "login" \in HandlerNames /\ "register" \in HandlerNames
      /\ "canRegister" \in HandlerNames /\ "requireUser" \in HandlerNames /\ "changePass" \in HandlerNames
  BY DEF HandlerNames
<1>6. /\ t[1] \in Entries /\ t[2] \in Entries /\ t[3] \in Entries /\ t[4] \in Entries /\ t[5] \in Entries
      /\ t[6] \in Entries
  BY <1>1, <1>3, <1>5, OnType, AllTypes, Zenon
<1>7. t \in Seq(Entries) /\ DOMAIN t = 1 .. 6
  <2>1. \A i \in 1 .. 6 : t[i] \in Entries
    BY <1>6
  <2> QED
    BY <1>2, <2>1, IsSteps
<1>8. \A i \in 1 .. 6 : i = 1 \/ i = 2 \/ i = 3 \/ i = 4 \/ i = 5 \/ i = 6
  OBVIOUS
<1>9. /\ t[1].name = "Auth"
      /\ t[2].name = "login"
      /\ t[3].name = "register"
      /\ t[4].name = "canRegister"
      /\ t[5].name = "requireUser"
      /\ t[6].name = "changePass"
  BY <1>4, Zenon DEF Is
<1>10. Leads(t[5], t[6])
  BY <1>4 DEF Leads, Is
<1>11. Led(t, Own, {"requireUser"})
  <2>1. ASSUME NEW i \in 1 .. 6, t[i].name \in Own PROVE i \in {6}
    BY <2>1, <1>8, <1>9 DEF Own
  <2>2. 5 \in Nat \ {0} /\ t[5].name \in {"requireUser"}
    BY <1>9
  <2>3. \A i \in {6} : i \in Nat /\ 5 < i /\ Leads(t[5], t[i])
    BY <1>10
  <2> QED
    BY <1>7, <2>1, <2>2, <2>3, LedByOne
<1>12. Led(t, Users, Middlewares)
  <2>1. ASSUME NEW i \in 1 .. 6 PROVE t[i].name \notin Users
    BY <1>8, <1>9 DEF Own, Users
  <2> QED
    BY <1>7, <2>1 DEF Led
<1>13. Led(t, Middlewares, {"requireUser"})
  <2>1. ASSUME NEW i \in 1 .. 6 PROVE t[i].name \notin Middlewares
    BY <1>8, <1>9 DEF Middlewares
  <2> QED
    BY <1>7, <2>1 DEF Led
<1>14. Led(t, {"contextIdentifier"}, {"optionalUser"})
  <2>1. ASSUME NEW i \in 1 .. 6 PROVE t[i].name \notin {"contextIdentifier"}
    BY <1>8, <1>9
  <2> QED
    BY <1>7, <2>1 DEF Led
<1>15. Led(t, FileOps, {"validatePath"})
  <2>1. ASSUME NEW i \in 1 .. 6 PROVE t[i].name \notin FileOps
    BY <1>8, <1>9 DEF FileOps
  <2> QED
    BY <1>7, <2>1 DEF Led
<1>16. Beside(t)
  <2>1. ASSUME NEW i \in 1 .. 6 PROVE t[i].name # "optionalUser"
    BY <1>8, <1>9
  <2> QED
    BY <1>7, <2>1 DEF Beside
<1>17. Sound(t)
  BY <1>7, <1>11, <1>12, <1>13, <1>14, <1>15, <1>16 DEF Sound
<1>18. Unscoped(t)
  <2>1. ASSUME NEW i \in 1 .. 6 PROVE t[i].name \notin Scopeds \cup {"contextIdentifier"}
    BY <1>8, <1>9 DEF Scopeds, DbOps
  <2> QED
    BY <1>7, <2>1 DEF Unscoped, Names
<1> QED
  BY <1>17, <1>18 DEF t

\* LeavingRoutes: its handlers stand behind the middlewares they rely on.
LEMMA LeavingRoutesSound ==
  Sound(LeavingRoutes) /\ Unscoped(LeavingRoutes)
<1> DEFINE t == LeavingRoutes
           r1 == <<Lit("logout")>>
           r2 == <<Lit("refresh")>>
<1>1. r1 \in Seq(Parts) /\ r2 \in Seq(Parts) /\ <<>> \in Seq(Parts)
  <2>1. Lit("logout") \in Parts /\ Lit("refresh") \in Parts
    BY PartTypes DEF Words
  <2> HIDE DEF Parts
  <2> QED
    BY <2>1, Tuples
<1>2. t = [i \in 1 .. 4 |-> t[i]]
  BY DEF LeavingRoutes, On, Use
<1>3. /\ t[1] = On("POST", r1, "requireUser")
      /\ t[2] = On("POST", r1, "logout")
      /\ t[3] = On("GET", r2, "requireUser")
      /\ t[4] = On("GET", r2, "refresh")
  BY DEF LeavingRoutes, Use
<1> HIDE DEF t, r1, r2
<1>4. /\ Is(t[1], "POST", r1, "requireUser")
      /\ Is(t[2], "POST", r1, "logout")
      /\ Is(t[3], "GET", r2, "requireUser")
      /\ Is(t[4], "GET", r2, "refresh")
  BY <1>3, OnIs, Zenon
<1>5. /\ "requireUser" \in HandlerNames /\ "logout" \in HandlerNames /\ "requireUser" \in HandlerNames
      /\ "refresh" \in HandlerNames
  BY DEF HandlerNames
<1>6. t[1] \in Entries /\ t[2] \in Entries /\ t[3] \in Entries /\ t[4] \in Entries
  BY <1>1, <1>3, <1>5, OnType, AllTypes, Zenon
<1>7. t \in Seq(Entries) /\ DOMAIN t = 1 .. 4
  <2>1. \A i \in 1 .. 4 : t[i] \in Entries
    BY <1>6
  <2> QED
    BY <1>2, <2>1, IsSteps
<1>8. \A i \in 1 .. 4 : i = 1 \/ i = 2 \/ i = 3 \/ i = 4
  OBVIOUS
<1>9. /\ t[1].name = "requireUser"
      /\ t[2].name = "logout"
      /\ t[3].name = "requireUser"
      /\ t[4].name = "refresh"
  BY <1>4, Zenon DEF Is
<1>10. Leads(t[1], t[2]) /\ Leads(t[3], t[4])
  BY <1>4 DEF Leads, Is
<1>11. Led(t, Own, {"requireUser"})
  <2>1. ASSUME NEW i \in 1 .. 4, t[i].name \in Own PROVE i \in {2, 4}
    BY <2>1, <1>8, <1>9 DEF Own
  <2>2. ASSUME NEW i \in {2} PROVE 1 \in 1 .. i - 1 /\ t[1].name \in {"requireUser"} /\ Leads(t[1], t[i])
    BY <1>9, <1>10
  <2>3. ASSUME NEW i \in {4} PROVE 3 \in 1 .. i - 1 /\ t[3].name \in {"requireUser"} /\ Leads(t[3], t[i])
    BY <1>9, <1>10
  <2> QED
    BY <1>7, <2>1, <2>2, <2>3 DEF Led
<1>12. Led(t, Users, Middlewares)
  <2>1. ASSUME NEW i \in 1 .. 4 PROVE t[i].name \notin Users
    BY <1>8, <1>9 DEF Own, Users
  <2> QED
    BY <1>7, <2>1 DEF Led
<1>13. Led(t, Middlewares, {"requireUser"})
  <2>1. ASSUME NEW i \in 1 .. 4 PROVE t[i].name \notin Middlewares
    BY <1>8, <1>9 DEF Middlewares
  <2> QED
    BY <1>7, <2>1 DEF Led
<1>14. Led(t, {"contextIdentifier"}, {"optionalUser"})
  <2>1. ASSUME NEW i \in 1 .. 4 PROVE t[i].name \notin {"contextIdentifier"}
    BY <1>8, <1>9
  <2> QED
    BY <1>7, <2>1 DEF Led
<1>15. Led(t, FileOps, {"validatePath"})
  <2>1. ASSUME NEW i \in 1 .. 4 PROVE t[i].name \notin FileOps
    BY <1>8, <1>9 DEF FileOps
  <2> QED
    BY <1>7, <2>1 DEF Led
<1>16. Beside(t)
  <2>1. ASSUME NEW i \in 1 .. 4 PROVE t[i].name # "optionalUser"
    BY <1>8, <1>9
  <2> QED
    BY <1>7, <2>1 DEF Beside
<1>17. Sound(t)
  BY <1>7, <1>11, <1>12, <1>13, <1>14, <1>15, <1>16 DEF Sound
<1>18. Unscoped(t)
  <2>1. ASSUME NEW i \in 1 .. 4 PROVE t[i].name \notin Scopeds \cup {"contextIdentifier"}
    BY <1>8, <1>9 DEF Scopeds, DbOps
  <2> QED
    BY <1>7, <2>1 DEF Unscoped, Names
<1> QED
  BY <1>17, <1>18 DEF t

\* StoreRoutes: its handlers stand behind the middlewares they rely on.
LEMMA StoreRoutesSound ==
  Sound(StoreRoutes) /\ Names(StoreRoutes) \cap Filed = {}
<1> DEFINE t == StoreRoutes
           r1 == <<Par("key")>>
<1>1. r1 \in Seq(Parts) /\ <<>> \in Seq(Parts)
  <2>1. Par("key") \in Parts
    BY PartTypes DEF Words
  <2> HIDE DEF Parts
  <2> QED
    BY <2>1, Tuples
<1>2. t = [i \in 1 .. 5 |-> t[i]]
  BY DEF StoreRoutes, On, Use
<1>3. /\ t[1] = On("", <<>>, "key-value-store")
      /\ t[2] = On("GET", r1, "keyValueGet")
      /\ t[3] = On("POST", <<>>, "keyValueAdd")
      /\ t[4] = On("PUT", r1, "keyValuePut")
      /\ t[5] = On("DELETE", r1, "keyValueDel")
  BY DEF StoreRoutes, Use
<1> HIDE DEF t, r1
<1>4. /\ Is(t[1], "", <<>>, "key-value-store")
      /\ Is(t[2], "GET", r1, "keyValueGet")
      /\ Is(t[3], "POST", <<>>, "keyValueAdd")
      /\ Is(t[4], "PUT", r1, "keyValuePut")
      /\ Is(t[5], "DELETE", r1, "keyValueDel")
  BY <1>3, OnIs, Zenon
<1>5. /\ "key-value-store" \in HandlerNames /\ "keyValueGet" \in HandlerNames /\ "keyValueAdd" \in HandlerNames
      /\ "keyValuePut" \in HandlerNames /\ "keyValueDel" \in HandlerNames
  BY DEF HandlerNames
<1>6. t[1] \in Entries /\ t[2] \in Entries /\ t[3] \in Entries /\ t[4] \in Entries /\ t[5] \in Entries
  BY <1>1, <1>3, <1>5, OnType, AllTypes, Zenon
<1>7. t \in Seq(Entries) /\ DOMAIN t = 1 .. 5
  <2>1. \A i \in 1 .. 5 : t[i] \in Entries
    BY <1>6
  <2> QED
    BY <1>2, <2>1, IsSteps
<1>8. \A i \in 1 .. 5 : i = 1 \/ i = 2 \/ i = 3 \/ i = 4 \/ i = 5
  OBVIOUS
<1>9. /\ t[1].name = "key-value-store"
      /\ t[2].name = "keyValueGet"
      /\ t[3].name = "keyValueAdd"
      /\ t[4].name = "keyValuePut"
      /\ t[5].name = "keyValueDel"
  BY <1>4, Zenon DEF Is
<1>10. ASSUME NEW i \in 1 .. 5 PROVE t[i].name \notin Bound
  BY <1>8, <1>9 DEF Bound, Own, Middlewares, FileOps
<1>11. Sound(t)
  <2>1. Names(t) \cap Bound = {}
    BY <1>7, <1>10 DEF Names
  <2> QED
    BY <1>7, <2>1, SoundNone
<1>12. Names(t) \cap Filed = {}
  <2>1. ASSUME NEW i \in 1 .. 5 PROVE t[i].name \notin Filed
    BY <1>8, <1>9 DEF Filed
  <2> QED
    BY <1>7, <2>1 DEF Names
<1> QED
  BY <1>11, <1>12 DEF t

\* TableRoutes: its handlers stand behind the middlewares they rely on.
LEMMA TableRoutesSound ==
  Sound(TableRoutes) /\ Names(TableRoutes) \cap Filed = {}
<1> DEFINE t == TableRoutes
           r1 == <<Maybe(Par("name"))>>
           r2 == <<Par("name")>>
<1>1. r1 \in Seq(Parts) /\ r2 \in Seq(Parts) /\ <<>> \in Seq(Parts)
  <2>1. Maybe(Par("name")) \in Parts /\ Par("name") \in Parts
    BY PartTypes DEF Words
  <2> HIDE DEF Parts
  <2> QED
    BY <2>1, Tuples
<1>2. t = [i \in 1 .. 6 |-> t[i]]
  BY DEF TableRoutes, On, Use
<1>3. /\ t[1] = On("", <<>>, "dynamic-tables")
      /\ t[2] = On("GET", r1, "dynGetTable")
      /\ t[3] = On("POST", <<>>, "dynRegisterTables")
      /\ t[4] = On("PUT", r2, "dynReplaceTable")
      /\ t[5] = On("DELETE", r2, "dynDropTable")
      /\ t[6] = On("DELETE", <<>>, "dynDropAll")
  BY DEF TableRoutes, Use
<1> HIDE DEF t, r1, r2
<1>4. /\ Is(t[1], "", <<>>, "dynamic-tables")
      /\ Is(t[2], "GET", r1, "dynGetTable")
      /\ Is(t[3], "POST", <<>>, "dynRegisterTables")
      /\ Is(t[4], "PUT", r2, "dynReplaceTable")
      /\ Is(t[5], "DELETE", r2, "dynDropTable")
      /\ Is(t[6], "DELETE", <<>>, "dynDropAll")
  BY <1>3, OnIs, Zenon
<1>5. /\ "dynamic-tables" \in HandlerNames /\ "dynGetTable" \in HandlerNames
      /\ "dynRegisterTables" \in HandlerNames /\ "dynReplaceTable" \in HandlerNames
      /\ "dynDropTable" \in HandlerNames /\ "dynDropAll" \in HandlerNames
  BY DEF HandlerNames
<1>6. /\ t[1] \in Entries /\ t[2] \in Entries /\ t[3] \in Entries /\ t[4] \in Entries /\ t[5] \in Entries
      /\ t[6] \in Entries
  BY <1>1, <1>3, <1>5, OnType, AllTypes, Zenon
<1>7. t \in Seq(Entries) /\ DOMAIN t = 1 .. 6
  <2>1. \A i \in 1 .. 6 : t[i] \in Entries
    BY <1>6
  <2> QED
    BY <1>2, <2>1, IsSteps
<1>8. \A i \in 1 .. 6 : i = 1 \/ i = 2 \/ i = 3 \/ i = 4 \/ i = 5 \/ i = 6
  OBVIOUS
<1>9. /\ t[1].name = "dynamic-tables"
      /\ t[2].name = "dynGetTable"
      /\ t[3].name = "dynRegisterTables"
      /\ t[4].name = "dynReplaceTable"
      /\ t[5].name = "dynDropTable"
      /\ t[6].name = "dynDropAll"
  BY <1>4, Zenon DEF Is
<1>10. ASSUME NEW i \in 1 .. 6 PROVE t[i].name \notin Bound
  BY <1>8, <1>9 DEF Bound, Own, Middlewares, FileOps
<1>11. Sound(t)
  <2>1. Names(t) \cap Bound = {}
    BY <1>7, <1>10 DEF Names
  <2> QED
    BY <1>7, <2>1, SoundNone
<1>12. Names(t) \cap Filed = {}
  <2>1. ASSUME NEW i \in 1 .. 6 PROVE t[i].name \notin Filed
    BY <1>8, <1>9 DEF Filed
  <2> QED
    BY <1>7, <2>1 DEF Names
<1> QED
  BY <1>11, <1>12 DEF t

\* GaiaRoutes: its handlers stand behind the middlewares they rely on.
LEMMA GaiaRoutesSound ==
  Sound(GaiaRoutes) /\ Unscoped(GaiaRoutes)
<1> DEFINE t == GaiaRoutes
           r1 == <<Lit("read"), Par("address"), Filled("path")>>
           r2 == <<Lit("hub_info")>>
<1>1. r1 \in Seq(Parts) /\ r2 \in Seq(Parts) /\ <<>> \in Seq(Parts)
  <2>1. Lit("hub_info") \in Parts /\ Lit("read") \in Parts /\ Par("address") \in Parts /\ Filled("path") \in Parts
    BY PartTypes DEF Words
  <2> HIDE DEF Parts
  <2> QED
    BY <2>1, Tuples
<1>2. t = [i \in 1 .. 5 |-> t[i]]
  BY DEF GaiaRoutes, On, Use
<1>3. /\ t[1] = On("", <<>>, "gaia")
      /\ t[2] = On("HEAD", r1, "gaiaHead")
      /\ t[3] = On("GET", r1, "gaiaRead")
      /\ t[4] = On("GET", r2, "hubInfo")
      /\ t[5] = On("", <<>>, "gaiaToken")
  BY DEF GaiaRoutes, Use
<1> HIDE DEF t, r1, r2
<1>4. /\ Is(t[1], "", <<>>, "gaia")
      /\ Is(t[2], "HEAD", r1, "gaiaHead")
      /\ Is(t[3], "GET", r1, "gaiaRead")
      /\ Is(t[4], "GET", r2, "hubInfo")
      /\ Is(t[5], "", <<>>, "gaiaToken")
  BY <1>3, OnIs, Zenon
<1>5. /\ "gaia" \in HandlerNames /\ "gaiaHead" \in HandlerNames /\ "gaiaRead" \in HandlerNames
      /\ "hubInfo" \in HandlerNames /\ "gaiaToken" \in HandlerNames
  BY DEF HandlerNames
<1>6. t[1] \in Entries /\ t[2] \in Entries /\ t[3] \in Entries /\ t[4] \in Entries /\ t[5] \in Entries
  BY <1>1, <1>3, <1>5, OnType, AllTypes, Zenon
<1>7. t \in Seq(Entries) /\ DOMAIN t = 1 .. 5
  <2>1. \A i \in 1 .. 5 : t[i] \in Entries
    BY <1>6
  <2> QED
    BY <1>2, <2>1, IsSteps
<1>8. \A i \in 1 .. 5 : i = 1 \/ i = 2 \/ i = 3 \/ i = 4 \/ i = 5
  OBVIOUS
<1>9. /\ t[1].name = "gaia"
      /\ t[2].name = "gaiaHead"
      /\ t[3].name = "gaiaRead"
      /\ t[4].name = "hubInfo"
      /\ t[5].name = "gaiaToken"
  BY <1>4, Zenon DEF Is
<1>10. ASSUME NEW i \in 1 .. 5 PROVE t[i].name \notin Bound
  BY <1>8, <1>9 DEF Bound, Own, Middlewares, FileOps
<1>11. Sound(t)
  <2>1. Names(t) \cap Bound = {}
    BY <1>7, <1>10 DEF Names
  <2> QED
    BY <1>7, <2>1, SoundNone
<1>12. Unscoped(t)
  <2>1. ASSUME NEW i \in 1 .. 5 PROVE t[i].name \notin Scopeds \cup {"contextIdentifier"}
    BY <1>8, <1>9 DEF Scopeds, DbOps
  <2> QED
    BY <1>7, <2>1 DEF Unscoped, Names
<1> QED
  BY <1>11, <1>12 DEF t

\* WebFingerRoutes: its handlers stand behind the middlewares they rely on.
LEMMA WebFingerRoutesSound ==
  Sound(WebFingerRoutes) /\ Unscoped(WebFingerRoutes)
<1> DEFINE t == WebFingerRoutes
           r1 == <<Lit(".well-known"), Lit("webfinger")>>
<1>1. r1 \in Seq(Parts) /\ <<>> \in Seq(Parts)
  <2>1. Lit(".well-known") \in Parts /\ Lit("webfinger") \in Parts
    BY PartTypes DEF Words
  <2> HIDE DEF Parts
  <2> QED
    BY <2>1, Tuples
<1>2. t = [i \in 1 .. 4 |-> t[i]]
  BY DEF WebFingerRoutes, On, Use, WebFinger
<1>3. /\ t[1] = On("", r1, "WebFinger")
      /\ t[2] = On("PUT", r1, "requireUser")
      /\ t[3] = On("PUT", r1, "storeInfo")
      /\ t[4] = On("GET", r1, "getInfo")
  BY DEF WebFingerRoutes, Use, WebFinger
<1> HIDE DEF t, r1
<1>4. /\ Is(t[1], "", r1, "WebFinger")
      /\ Is(t[2], "PUT", r1, "requireUser")
      /\ Is(t[3], "PUT", r1, "storeInfo")
      /\ Is(t[4], "GET", r1, "getInfo")
  BY <1>3, OnIs, Zenon
<1>5. /\ "WebFinger" \in HandlerNames /\ "requireUser" \in HandlerNames /\ "storeInfo" \in HandlerNames
      /\ "getInfo" \in HandlerNames
  BY DEF HandlerNames
<1>6. t[1] \in Entries /\ t[2] \in Entries /\ t[3] \in Entries /\ t[4] \in Entries
  BY <1>1, <1>3, <1>5, OnType, AllTypes, Zenon
<1>7. t \in Seq(Entries) /\ DOMAIN t = 1 .. 4
  <2>1. \A i \in 1 .. 4 : t[i] \in Entries
    BY <1>6
  <2> QED
    BY <1>2, <2>1, IsSteps
<1>8. \A i \in 1 .. 4 : i = 1 \/ i = 2 \/ i = 3 \/ i = 4
  OBVIOUS
<1>9. /\ t[1].name = "WebFinger"
      /\ t[2].name = "requireUser"
      /\ t[3].name = "storeInfo"
      /\ t[4].name = "getInfo"
  BY <1>4, Zenon DEF Is
<1>10. Leads(t[2], t[3])
  BY <1>4 DEF Leads, Is
<1>11. Led(t, Own, {"requireUser"})
  <2>1. ASSUME NEW i \in 1 .. 4, t[i].name \in Own PROVE i \in {3}
    BY <2>1, <1>8, <1>9 DEF Own
  <2>2. 2 \in Nat \ {0} /\ t[2].name \in {"requireUser"}
    BY <1>9
  <2>3. \A i \in {3} : i \in Nat /\ 2 < i /\ Leads(t[2], t[i])
    BY <1>10
  <2> QED
    BY <1>7, <2>1, <2>2, <2>3, LedByOne
<1>12. Led(t, Users, Middlewares)
  <2>1. ASSUME NEW i \in 1 .. 4 PROVE t[i].name \notin Users
    BY <1>8, <1>9 DEF Own, Users
  <2> QED
    BY <1>7, <2>1 DEF Led
<1>13. Led(t, Middlewares, {"requireUser"})
  <2>1. ASSUME NEW i \in 1 .. 4 PROVE t[i].name \notin Middlewares
    BY <1>8, <1>9 DEF Middlewares
  <2> QED
    BY <1>7, <2>1 DEF Led
<1>14. Led(t, {"contextIdentifier"}, {"optionalUser"})
  <2>1. ASSUME NEW i \in 1 .. 4 PROVE t[i].name \notin {"contextIdentifier"}
    BY <1>8, <1>9
  <2> QED
    BY <1>7, <2>1 DEF Led
<1>15. Led(t, FileOps, {"validatePath"})
  <2>1. ASSUME NEW i \in 1 .. 4 PROVE t[i].name \notin FileOps
    BY <1>8, <1>9 DEF FileOps
  <2> QED
    BY <1>7, <2>1 DEF Led
<1>16. Beside(t)
  <2>1. ASSUME NEW i \in 1 .. 4 PROVE t[i].name # "optionalUser"
    BY <1>8, <1>9
  <2> QED
    BY <1>7, <2>1 DEF Beside
<1>17. Sound(t)
  BY <1>7, <1>11, <1>12, <1>13, <1>14, <1>15, <1>16 DEF Sound
<1>18. Unscoped(t)
  <2>1. ASSUME NEW i \in 1 .. 4 PROVE t[i].name \notin Scopeds \cup {"contextIdentifier"}
    BY <1>8, <1>9 DEF Scopeds, DbOps
  <2> QED
    BY <1>7, <2>1 DEF Unscoped, Names
<1> QED
  BY <1>17, <1>18 DEF t

\* PathRoutes: its handlers stand behind the middlewares they rely on.
LEMMA PathRoutesSound ==
  Sound(PathRoutes) /\ Names(PathRoutes) \cap {"contextIdentifier", "listFiles"} = {}
<1> DEFINE t == PathRoutes
<1>1. <<>> \in Seq(Parts)
  BY Tuples
<1>2. t = [i \in 1 .. 4 |-> t[i]]
  BY DEF PathRoutes, On, Use
<1>3. /\ t[1] = On("", <<>>, "validatePath")
      /\ t[2] = On("GET", <<>>, "readFile")
      /\ t[3] = On("PUT", <<>>, "writeFile")
      /\ t[4] = On("DELETE", <<>>, "deleteFile")
  BY DEF PathRoutes, Use
<1> HIDE DEF t
<1>4. /\ Is(t[1], "", <<>>, "validatePath")
      /\ Is(t[2], "GET", <<>>, "readFile")
      /\ Is(t[3], "PUT", <<>>, "writeFile")
      /\ Is(t[4], "DELETE", <<>>, "deleteFile")
  BY <1>3, OnIs, Zenon
<1>5. /\ "validatePath" \in HandlerNames /\ "readFile" \in HandlerNames /\ "writeFile" \in HandlerNames
      /\ "deleteFile" \in HandlerNames
  BY DEF HandlerNames
<1>6. t[1] \in Entries /\ t[2] \in Entries /\ t[3] \in Entries /\ t[4] \in Entries
  BY <1>1, <1>3, <1>5, OnType, AllTypes, Zenon
<1>7. t \in Seq(Entries) /\ DOMAIN t = 1 .. 4
  <2>1. \A i \in 1 .. 4 : t[i] \in Entries
    BY <1>6
  <2> QED
    BY <1>2, <2>1, IsSteps
<1>8. \A i \in 1 .. 4 : i = 1 \/ i = 2 \/ i = 3 \/ i = 4
  OBVIOUS
<1>9. /\ t[1].name = "validatePath"
      /\ t[2].name = "readFile"
      /\ t[3].name = "writeFile"
      /\ t[4].name = "deleteFile"
  BY <1>4, Zenon DEF Is
<1>10. Leads(t[1], t[2]) /\ Leads(t[1], t[3]) /\ Leads(t[1], t[4])
  BY <1>4 DEF Leads, Is
<1>11. Led(t, Own, {"requireUser"})
  <2>1. ASSUME NEW i \in 1 .. 4 PROVE t[i].name \notin Own
    BY <1>8, <1>9 DEF Own
  <2> QED
    BY <1>7, <2>1 DEF Led
<1>12. Led(t, Users, Middlewares)
  <2>1. ASSUME NEW i \in 1 .. 4 PROVE t[i].name \notin Users
    BY <1>8, <1>9 DEF Own, Users
  <2> QED
    BY <1>7, <2>1 DEF Led
<1>13. Led(t, Middlewares, {"requireUser"})
  <2>1. ASSUME NEW i \in 1 .. 4 PROVE t[i].name \notin Middlewares
    BY <1>8, <1>9 DEF Middlewares
  <2> QED
    BY <1>7, <2>1 DEF Led
<1>14. Led(t, {"contextIdentifier"}, {"optionalUser"})
  <2>1. ASSUME NEW i \in 1 .. 4 PROVE t[i].name \notin {"contextIdentifier"}
    BY <1>8, <1>9
  <2> QED
    BY <1>7, <2>1 DEF Led
<1>15. Led(t, FileOps, {"validatePath"})
  <2>1. ASSUME NEW i \in 1 .. 4, t[i].name \in FileOps PROVE i \in {2, 3, 4}
    BY <2>1, <1>8, <1>9 DEF FileOps
  <2>2. 1 \in Nat \ {0} /\ t[1].name \in {"validatePath"}
    BY <1>9
  <2>3. \A i \in {2, 3, 4} : i \in Nat /\ 1 < i /\ Leads(t[1], t[i])
    BY <1>10
  <2> QED
    BY <1>7, <2>1, <2>2, <2>3, LedByOne
<1>16. Beside(t)
  <2>1. ASSUME NEW i \in 1 .. 4 PROVE t[i].name # "optionalUser"
    BY <1>8, <1>9
  <2> QED
    BY <1>7, <2>1 DEF Beside
<1>17. Sound(t)
  BY <1>7, <1>11, <1>12, <1>13, <1>14, <1>15, <1>16 DEF Sound
<1>18. Names(t) \cap {"contextIdentifier", "listFiles"} = {}
  <2>1. ASSUME NEW i \in 1 .. 4 PROVE t[i].name \notin {"contextIdentifier", "listFiles"}
    BY <1>8, <1>9
  <2> QED
    BY <1>7, <2>1 DEF Names
<1> QED
  BY <1>17, <1>18 DEF t

\* Short tables, and the names in them.
LEMMA FewSteps ==
  ASSUME NEW a \in Entries, NEW b \in Entries, NEW c \in Entries
  PROVE  /\ <<a>> \in Seq(Entries) /\ Names(<<a>>) = {a.name}
         /\ <<a, b>> \in Seq(Entries) /\ Names(<<a, b>>) = {a.name, b.name}
         /\ <<a, b, c>> \in Seq(Entries) /\ Names(<<a, b, c>>) = {a.name, b.name, c.name}
<1>1. <<a>> \in Seq(Entries) /\ <<a, b>> \in Seq(Entries) /\ <<a, b, c>> \in Seq(Entries)
  OBVIOUS
<1>2. Names(<<a>>) = {a.name}
  BY DEF Names
<1>3. Names(<<a, b>>) = {a.name, b.name}
  <2>1. DOMAIN <<a, b>> = {1, 2}
    OBVIOUS
  <2> QED
    BY <2>1 DEF Names
<1>4. Names(<<a, b, c>>) = {a.name, b.name, c.name}
  <2>1. DOMAIN <<a, b, c>> = {1, 2, 3}
    OBVIOUS
  <2> QED
    BY <2>1 DEF Names
<1> QED
  BY <1>1, <1>2, <1>3, <1>4

\* A router's entry in a table.
LEMMA OneStep ==
  ASSUME NEW type \in Types, NEW route \in Seq(Parts), NEW name \in HandlerNames
  PROVE  /\ On(type, route, name) \in Entries /\ On(type, route, name).name = name
         /\ <<On(type, route, name)>> \in Seq(Entries) /\ Names(<<On(type, route, name)>>) = {name}
<1> DEFINE a == On(type, route, name)
<1>1. a \in Entries /\ Is(a, type, route, name)
  BY OnType, OnIs, Zenon
<1> HIDE DEF a
<1>2. a.name = name
  BY <1>1 DEF Is
<1>3. <<a>> \in Seq(Entries) /\ Names(<<a>>) = {a.name}
  BY <1>1, FewSteps
<1> QED
  BY <1>1, <1>2, <1>3 DEF a

\* The names of three steps in a row.
LEMMA ThreeSteps ==
  ASSUME NEW a \in Seq(Entries), NEW b \in Seq(Entries), NEW c \in Seq(Entries)
  PROVE  (a \o b) \o c \in Seq(Entries) /\ Names((a \o b) \o c) = Names(a) \cup Names(b) \cup Names(c)
<1>1. a \o b \in Seq(Entries) /\ Names(a \o b) = Names(a) \cup Names(b)
  BY JoinedSteps, JoinedNames
<1> DEFINE ab == a \o b
<1> HIDE DEF ab
<1>2. ab \in Seq(Entries) /\ Names(ab) = Names(a) \cup Names(b)
  BY <1>1 DEF ab
<1>3. ab \o c \in Seq(Entries) /\ Names(ab \o c) = Names(ab) \cup Names(c)
  BY <1>2, JoinedSteps, JoinedNames
<1> QED
  BY <1>2, <1>3 DEF ab

\* AuthRoutes: its handlers stand behind the middlewares they rely on.
LEMMA AuthRoutesSound == Sound(AuthRoutes) /\ Unscoped(AuthRoutes)
<1> DEFINE a == AccountRoutes
           b == SessionsRoutes
           c == LeavingRoutes
           d == Mount(<<Lit("handshake")>>, HandshakeRoutes)
           e == Mount(<<Lit("master-key")>>, MasterKeyRoutes)
<1>1. Plain(<<Lit("handshake")>>) /\ <<Lit("handshake")>> \in Seq(Parts)
      /\ Plain(<<Lit("master-key")>>) /\ <<Lit("master-key")>> \in Seq(Parts)
  <2>1. Lit("handshake") \in Parts /\ Lit("master-key") \in Parts
    BY PartTypes DEF Words
  <2> QED
    BY <2>1, PlainRoutes, FixedParts
<1>2. Sound(a) /\ Unscoped(a) /\ Sound(b) /\ Unscoped(b) /\ Sound(c) /\ Unscoped(c)
  BY AccountRoutesSound, SessionsRoutesSound, LeavingRoutesSound
<1>3. Sound(d) /\ Unscoped(d)
  BY <1>1, HandshakeRoutesSound, SoundMounted, UnscopedMounted DEF Sound
<1>4. Sound(e) /\ Unscoped(e)
  BY <1>1, MasterKeyRoutesSound, SoundMounted, UnscopedMounted DEF Sound
<1>5. AuthRoutes = a \o b \o c \o d \o e
  BY DEF AuthRoutes
<1>6. ASSUME NEW x, NEW y, Sound(x), Unscoped(x), Sound(y), Unscoped(y) PROVE Sound(x \o y) /\ Unscoped(x \o y)
  BY <1>6, SoundBoth, UnscopedBoth DEF Sound
<1> HIDE DEF a, b, c, d, e
<1>7. Sound(a \o b) /\ Unscoped(a \o b)
  BY <1>2, <1>6
<1>8. Sound(a \o b \o c) /\ Unscoped(a \o b \o c)
  BY <1>2, <1>6, <1>7
<1>9. Sound(a \o b \o c \o d) /\ Unscoped(a \o b \o c \o d)
  BY <1>3, <1>6, <1>8
<1>10. Sound(a \o b \o c \o d \o e) /\ Unscoped(a \o b \o c \o d \o e)
  BY <1>4, <1>6, <1>9
<1> QED
  BY <1>5, <1>10

\* KeyValueRoutes and DynamicRoutes have none of the handlers of files.
LEMMA KeyValueRoutesSound == Sound(KeyValueRoutes) /\ Names(KeyValueRoutes) \cap Filed = {}
<1> DEFINE p == On("POST", <<Lit("search")>>, "keyValueSearch")
           q == On("POST", <<Lit("batch")>>, "keyValueBatch")
           h == On("", <<>>, "key-value")
           a == <<h>>
           b == Mount(<<Lit("store")>>, StoreRoutes)
           c == <<p, q>>
<1>1. Plain(<<Lit("store")>>) /\ <<Lit("store")>> \in Seq(Parts)
      /\ <<Lit("search")>> \in Seq(Parts) /\ <<Lit("batch")>> \in Seq(Parts) /\ <<>> \in Seq(Parts)
  <2>1. Lit("store") \in Parts /\ Lit("search") \in Parts /\ Lit("batch") \in Parts
    BY PartTypes DEF Words
  <2> QED
    BY <2>1, PlainRoutes, FixedParts, Tuples
<1>2. Sound(b) /\ Names(b) \cap Filed = {}
  BY <1>1, StoreRoutesSound, SoundMounted, MountedNames DEF Sound
<1>3. "key-value" \in HandlerNames /\ "keyValueSearch" \in HandlerNames /\ "keyValueBatch" \in HandlerNames
  BY DEF HandlerNames
<1>4. /\ h \in Entries /\ h.name = "key-value"
      /\ p \in Entries /\ p.name = "keyValueSearch"
      /\ q \in Entries /\ q.name = "keyValueBatch"
  BY <1>1, <1>3, AllTypes, OneStep
<1> HIDE DEF p, q, h
<1>5. /\ a \in Seq(Entries) /\ Names(a) = {"key-value"} /\ c \in Seq(Entries)
      /\ Names(c) = {"keyValueSearch", "keyValueBatch"}
  BY <1>4, FewSteps
<1>6. KeyValueRoutes = a \o b \o c
  BY DEF KeyValueRoutes, Use, h, p, q
<1> HIDE DEF a, b, c
<1>7. Names(a) \cap Bound = {} /\ Names(c) \cap Bound = {} /\ Names(a) \cap Filed = {} /\ Names(c) \cap Filed = {}
  BY <1>5 DEF Bound, Own, Middlewares, FileOps, Filed
<1>8. Sound(a) /\ Sound(c)
  BY <1>5, <1>7, SoundNone
<1>9. Sound(a \o b)
  BY <1>2, <1>8, SoundBoth
<1>10. Sound(a \o b \o c)
  BY <1>8, <1>9, SoundBoth
<1>11. Names(a \o b \o c) = Names(a) \cup Names(b) \cup Names(c)
  BY <1>2, <1>5, ThreeSteps DEF Sound
<1> QED
  BY <1>2, <1>6, <1>7, <1>10, <1>11

\* DynamicRoutes: the routes of the tables, and graphql beside them.
LEMMA DynamicRoutesSound == Sound(DynamicRoutes) /\ Names(DynamicRoutes) \cap Filed = {}
<1> DEFINE p == On("", <<Lit("graphql")>>, "graphql")
           h == On("", <<>>, "dynamic")
           a == <<h>>
           b == Mount(<<Lit("tables")>>, TableRoutes)
           c == <<p>>
<1>1. Plain(<<Lit("tables")>>) /\ <<Lit("tables")>> \in Seq(Parts)
      /\ <<Lit("graphql")>> \in Seq(Parts) /\ <<>> \in Seq(Parts)
  <2>1. Lit("tables") \in Parts /\ Lit("graphql") \in Parts
    BY PartTypes DEF Words
  <2> QED
    BY <2>1, PlainRoutes, FixedParts, Tuples
<1>2. Sound(b) /\ Names(b) \cap Filed = {}
  BY <1>1, TableRoutesSound, SoundMounted, MountedNames DEF Sound
<1>3. "dynamic" \in HandlerNames /\ "graphql" \in HandlerNames
  BY DEF HandlerNames
<1>4. a \in Seq(Entries) /\ Names(a) = {"dynamic"} /\ c \in Seq(Entries) /\ Names(c) = {"graphql"}
  BY <1>1, <1>3, AllTypes, OneStep
<1>6. DynamicRoutes = a \o b \o c
  BY DEF DynamicRoutes, Use
<1> HIDE DEF a, b, c
<1>7. Names(a) \cap Bound = {} /\ Names(c) \cap Bound = {} /\ Names(a) \cap Filed = {} /\ Names(c) \cap Filed = {}
  BY <1>4 DEF Bound, Own, Middlewares, FileOps, Filed
<1>8. Sound(a) /\ Sound(c)
  BY <1>4, <1>7, SoundNone
<1>9. Sound(a \o b)
  BY <1>2, <1>8, SoundBoth
<1>10. Sound(a \o b \o c)
  BY <1>8, <1>9, SoundBoth
<1>11. Names(a \o b \o c) = Names(a) \cup Names(b) \cup Names(c)
  BY <1>2, <1>4, ThreeSteps DEF Sound
<1> QED
  BY <1>2, <1>6, <1>7, <1>10, <1>11

\* DbRoutes: nothing in it needs a session by itself, and it has none of the handlers of files.
LEMMA DbRoutesSound == Sound(DbRoutes) /\ Names(DbRoutes) \cap Filed = {}
<1> DEFINE a == <<On("", <<>>, "Db")>>
           b == Mount(<<Lit("key-value")>>, KeyValueRoutes)
           c == Mount(<<Lit("dynamic")>>, DynamicRoutes)
<1>1. Plain(<<Lit("key-value")>>) /\ <<Lit("key-value")>> \in Seq(Parts)
      /\ Plain(<<Lit("dynamic")>>) /\ <<Lit("dynamic")>> \in Seq(Parts) /\ <<>> \in Seq(Parts)
  <2>1. Lit("key-value") \in Parts /\ Lit("dynamic") \in Parts
    BY PartTypes DEF Words
  <2> QED
    BY <2>1, PlainRoutes, FixedParts, Tuples
<1>2. Sound(b) /\ Names(b) \cap Filed = {}
  BY <1>1, KeyValueRoutesSound, SoundMounted, MountedNames DEF Sound
<1>3. Sound(c) /\ Names(c) \cap Filed = {}
  BY <1>1, DynamicRoutesSound, SoundMounted, MountedNames DEF Sound
<1>4. a \in Seq(Entries) /\ Names(a) = {"Db"}
  <2>1. "Db" \in HandlerNames
    BY DEF HandlerNames
  <2> QED
    BY <1>1, <2>1, AllTypes, OneStep
<1>5. DbRoutes = a \o b \o c
  BY DEF DbRoutes, Use
<1> HIDE DEF a, b, c
<1>6. Names(a) \cap Bound = {} /\ Names(a) \cap Filed = {}
  BY <1>4 DEF Bound, Own, Middlewares, FileOps, Filed
<1>7. Sound(a)
  BY <1>4, <1>6, SoundNone
<1>8. Sound(a \o b)
  BY <1>2, <1>7, SoundBoth
<1>9. Sound(a \o b \o c)
  BY <1>3, <1>8, SoundBoth
<1>10. Names(a \o b \o c) = Names(a) \cup Names(b) \cup Names(c)
  BY <1>2, <1>3, <1>4, ThreeSteps DEF Sound
<1> QED
  BY <1>2, <1>3, <1>5, <1>6, <1>9, <1>10

\* The route of list-files.
ListRoute == <<Lit("list-files"), Maybe(Root4), Maybe(Rest("path"))>>

\* The routes to one file and to a list of files.
LEMMA PathRouteTypes ==
  /\ PathRoute \in Seq(Parts) /\ ListRoute \in Seq(Parts)
  /\ PathRoute \o <<>> = PathRoute
  /\ \A i \in DOMAIN PathRoutes : PathRoutes[i].route = <<>>
<1>1. Root4 \in Parts /\ Rest("path") \in Parts /\ Lit("list-files") \in Parts /\ Maybe(Root4) \in Parts
      /\ Maybe(Rest("path")) \in Parts
  BY PartTypes DEF Words
<1>2. PathRoute \in Seq(Parts) /\ ListRoute \in Seq(Parts)
  BY <1>1, Tuples DEF PathRoute, ListRoute
<1>3. ASSUME NEW r \in Seq(Parts) PROVE r \o <<>> = r
  <2> HIDE DEF Parts
  <2> QED
    OBVIOUS
<1>4. \A i \in DOMAIN PathRoutes : PathRoutes[i].route = <<>>
  <2> DEFINE t == PathRoutes
  <2>1. /\ t[1] = On("", <<>>, "validatePath") /\ t[2] = On("GET", <<>>, "readFile")
        /\ t[3] = On("PUT", <<>>, "writeFile") /\ t[4] = On("DELETE", <<>>, "deleteFile")
    BY DEF PathRoutes, Use
  <2>2. DOMAIN t = 1 .. 4
    BY DEF PathRoutes, Use
  <2> HIDE DEF t
  <2>3. t[1].route = <<>> /\ t[2].route = <<>> /\ t[3].route = <<>> /\ t[4].route = <<>>
    <3>1. /\ Is(t[1], "", <<>>, "validatePath") /\ Is(t[2], "GET", <<>>, "readFile")
          /\ Is(t[3], "PUT", <<>>, "writeFile") /\ Is(t[4], "DELETE", <<>>, "deleteFile")
      BY <2>1, OnIs, Zenon
    <3> QED
      BY <3>1, Zenon DEF Is
  <2>4. \A i \in 1 .. 4 : i = 1 \/ i = 2 \/ i = 3 \/ i = 4
    OBVIOUS
  <2>5. \A i \in DOMAIN t : t[i].route = <<>>
    BY <2>2, <2>3, <2>4
  <2> QED
    BY <2>5 DEF t
<1> QED
  BY <1>2, <1>3, <1>4

\* FileRoutes: what reads and changes files stands behind validatePath.
LEMMA FileRoutesSound ==
  /\ Sound(FileRoutes) /\ "contextIdentifier" \notin Names(FileRoutes)
  /\ Routed(FileRoutes, {"validatePath"}, {PathRoute})
  /\ Routed(FileRoutes, {"listFiles"}, {ListRoute})
<1> DEFINE p == On("GET", ListRoute, "listFiles")
           q == On("GET", <<Lit("storage-stats")>>, "storageStats")
           r == On("POST", <<Lit("batch-info")>>, "batchInfo")
           a == <<On("", PathRoute, "file-store")>>
           b == Mount(PathRoute, PathRoutes)
           c == <<p, q, r>>
<1>1. /\ PathRoute \in Seq(Parts) /\ ListRoute \in Seq(Parts)
      /\ <<Lit("storage-stats")>> \in Seq(Parts) /\ <<Lit("batch-info")>> \in Seq(Parts)
  <2>1. Lit("storage-stats") \in Parts /\ Lit("batch-info") \in Parts
    BY PartTypes DEF Words
  <2> QED
    BY <2>1, PathRouteTypes, Tuples
<1>2. Sound(b) /\ Names(b) \cap {"contextIdentifier", "listFiles"} = {}
  BY <1>1, PathRouteTypes, PathRoutesSound, SoundMounted, MountedNames DEF Sound
<1>3. Routed(b, {"validatePath"}, {PathRoute})
  <2>1. ASSUME NEW i \in DOMAIN b PROVE b[i].route = PathRoute
    <3>1. PathRoutes \in Seq(Entries)
      BY PathRoutesSound DEF Sound
    <3>2. i \in DOMAIN PathRoutes /\ b[i].route = PathRoute \o PathRoutes[i].route
      BY <1>1, <2>1, <3>1, MountedSteps
    <3> HIDE DEF b
    <3> QED
      BY <3>2, PathRouteTypes
  <2> QED
    BY <2>1 DEF Routed
<1>4. /\ "file-store" \in HandlerNames /\ "listFiles" \in HandlerNames /\ "storageStats" \in HandlerNames
      /\ "batchInfo" \in HandlerNames
  BY DEF HandlerNames
<1>5. a \in Seq(Entries) /\ Names(a) = {"file-store"}
  BY <1>1, <1>4, AllTypes, OneStep
<1>6. /\ p \in Entries /\ p.name = "listFiles"
      /\ q \in Entries /\ q.name = "storageStats"
      /\ r \in Entries /\ r.name = "batchInfo"
  BY <1>1, <1>4, AllTypes, OneStep
<1>7. p.route = ListRoute
  <2>1. Is(p, "GET", ListRoute, "listFiles")
    BY OnIs, Zenon
  <2> QED
    BY <2>1 DEF Is
<1>8. FileRoutes = a \o b \o c
  BY DEF FileRoutes, Use, ListRoute
<1> HIDE DEF p, q, r
<1>9. c \in Seq(Entries) /\ Names(c) = {"listFiles", "storageStats", "batchInfo"}
  <2>1. c \in Seq(Entries) /\ Names(c) = {p.name, q.name, r.name}
    BY <1>6, FewSteps
  <2> QED
    BY <1>6, <2>1, Zenon
<1>10. Routed(c, {"listFiles"}, {ListRoute}) /\ Routed(c, {"validatePath"}, {PathRoute})
  <2>1. ASSUME NEW i \in DOMAIN c PROVE c[i].name # "validatePath" /\ (c[i].name = "listFiles" => c[i].route = ListRoute)
    BY <1>6, <1>7
  <2> QED
    BY <2>1 DEF Routed
<1> HIDE DEF a, b, c
<1>11. Names(a) \cap Bound = {} /\ Names(c) \cap Bound = {}
  BY <1>5, <1>9 DEF Bound, Own, Middlewares, FileOps
<1>12. Sound(a) /\ Sound(c)
  BY <1>5, <1>9, <1>11, SoundNone
<1>13. Sound(a \o b)
  BY <1>2, <1>12, SoundBoth
<1>14. Sound(a \o b \o c)
  BY <1>12, <1>13, SoundBoth
<1>15. Names(a \o b \o c) = Names(a) \cup Names(b) \cup Names(c)
  BY <1>2, <1>5, <1>9, ThreeSteps DEF Sound
<1>16. ASSUME NEW X, NEW S, Routed(a, X, S), Routed(b, X, S), Routed(c, X, S) PROVE Routed(a \o b \o c, X, S)
  <2>1. Routed(a \o b, X, S)
    BY <1>2, <1>12, <1>16, JoinedRouted DEF Sound
  <2> QED
    BY <1>12, <1>13, <1>16, <2>1, JoinedRouted DEF Sound
<1>17. /\ Routed(a, {"validatePath"}, {PathRoute}) /\ Routed(a, {"listFiles"}, {ListRoute})
       /\ Routed(b, {"listFiles"}, {ListRoute})
  <2>1. Names(a) \cap {"validatePath"} = {} /\ Names(a) \cap {"listFiles"} = {} /\ Names(b) \cap {"listFiles"} = {}
    BY <1>2, <1>5
  <2> QED
    BY <2>1, RoutedNone
<1>18. "contextIdentifier" \notin Names(a \o b \o c)
  BY <1>2, <1>5, <1>9, <1>15
<1> QED
  BY <1>3, <1>8, <1>10, <1>14, <1>16, <1>17, <1>18

\* A feature's routes stand behind the middlewares of its scope.
Behold(feature, steps) ==
  /\ Sound(steps)
  /\ Led(steps, Scopeds, {"contextIdentifier"})
  /\ Routed(steps, {"contextIdentifier"}, {ScopeRoute(feature)})

\* A scope's route has parts that cannot be left out.
LEMMA ScopeRouteTypes ==
  ASSUME NEW feature \in {"db", "files"}
  PROVE  ScopeRoute(feature) \in Seq(Parts) /\ Plain(ScopeRoute(feature))
<1> DEFINE a == Par("context")
           b == Par("identifier")
           c == Lit(feature)
<1>1. a \in Parts /\ b \in Parts /\ c \in Parts
  <2>1. "context" \in Words /\ "identifier" \in Words /\ feature \in Words
    BY DEF Words
  <2> QED
    BY <2>1, PartTypes
<1>2. Fixed(a) /\ Fixed(b) /\ Fixed(c)
  BY FixedParts
<1>3. ScopeRoute(feature) = <<a, b, c>>
  BY DEF ScopeRoute
<1> HIDE DEF a, b, c
<1>4. Plain(<<a, b, c>>)
  BY <1>2 DEF Plain
<1> QED
  BY <1>1, <1>3, <1>4, Tuples

\* Scoped(): the optional session, the context's validator and the feature's routes.
LEMMA ScopedSound ==
  ASSUME NEW feature \in {"db", "files"}, NEW routes, Sound(routes), "contextIdentifier" \notin Names(routes)
  PROVE  /\ Behold(feature, Scoped(feature, routes))
         /\ Names(Scoped(feature, routes)) \subseteq Names(routes) \cup {"optionalUser", "contextIdentifier"}
<1> DEFINE s == ScopeRoute(feature)
           p == On("", s, "optionalUser")
           q == On("", s, "contextIdentifier")
           a == <<p, q>>
           b == Mount(s, routes)
<1>1. s \in Seq(Parts) /\ Plain(s)
  BY ScopeRouteTypes
<1> HIDE DEF s
<1>2. Is(p, "", s, "optionalUser") /\ Is(q, "", s, "contextIdentifier")
  BY OnIs, Zenon
<1>3. p \in Entries /\ q \in Entries
  <2>1. "optionalUser" \in HandlerNames /\ "contextIdentifier" \in HandlerNames
    BY DEF HandlerNames
  <2> QED
    BY <1>1, <2>1, AllTypes, OneStep
<1>4. Scoped(feature, routes) = a \o b
  BY DEF Scoped, Use, s
<1> HIDE DEF p, q
<1>5. /\ a \in Seq(Entries) /\ Names(a) = {"optionalUser", "contextIdentifier"} /\ DOMAIN a = {1, 2} /\ a[1] = p
      /\ a[2] = q
  <2>1. DOMAIN a = {1, 2}
    OBVIOUS
  <2> QED
    BY <1>2, <1>3, <2>1, FewSteps DEF Is
<1> HIDE DEF a
<1>6. Leads(p, q)
  BY <1>2 DEF Is, Leads
<1>7. Sound(a)
  <2>1. Led(a, {"contextIdentifier"}, {"optionalUser"})
    <3>1. ASSUME NEW i \in DOMAIN a, a[i].name \in {"contextIdentifier"}
          PROVE  1 \in 1 .. i - 1 /\ a[1].name \in {"optionalUser"} /\ Leads(a[1], a[i])
      <4>1. i = 2
        BY <1>2, <1>5, <3>1 DEF Is
      <4>2. a[1].name \in {"optionalUser"} /\ Leads(a[1], a[2])
        BY <1>2, <1>5, <1>6 DEF Is
      <4>3. 1 \in 1 .. 2 - 1
        OBVIOUS
      <4> QED
        BY <4>1, <4>2, <4>3
    <3> QED
      BY <3>1 DEF Led
  <2>2. Beside(a)
    <3>1. ASSUME NEW i \in DOMAIN a, a[i].name = "optionalUser" PROVE i = 1
      BY <1>2, <1>5, <3>1 DEF Is
    <3>2. 1 + 1 \in DOMAIN a /\ a[1 + 1] = q /\ a[1] = p
      BY <1>5
    <3> QED
      BY <1>2, <3>1, <3>2 DEF Beside, Is
  <2>3. /\ Names(a) \cap Own = {} /\ Names(a) \cap Users = {} /\ Names(a) \cap Middlewares = {}
        /\ Names(a) \cap FileOps = {}
    BY <1>5 DEF Own, Users, Middlewares, FileOps
  <2> QED
    BY <1>5, <2>1, <2>2, <2>3, LedNone, Zenon DEF Sound
<1>8. Sound(b) /\ Names(b) = Names(routes)
  BY <1>1, SoundMounted, MountedNames DEF Sound
<1>9. b \in Seq(Entries) /\ \A i \in DOMAIN b : s \in b[i].within
  BY <1>1, MountedSteps DEF Sound
<1>10. Names(a \o b) = Names(a) \cup Names(b)
  BY <1>5, <1>9, JoinedNames
<1> HIDE DEF b
<1>11. Sound(a \o b)
  BY <1>7, <1>8, SoundBoth
<1>12. Led(a \o b, Scopeds, {"contextIdentifier"})
  <2>1. Led(a, Scopeds, {"contextIdentifier"})
    <3>1. Names(a) \cap Scopeds = {}
      BY <1>5 DEF Scopeds, DbOps
    <3> QED
      BY <3>1, LedNone
  <2>2. ASSUME NEW i \in DOMAIN b PROVE 2 \in DOMAIN a /\ a[2].name \in {"contextIdentifier"} /\ Leads(a[2], b[i])
    <3>1. s \in b[i].within
      BY <1>9, <2>2
    <3> QED
      BY <1>2, <1>5, <3>1 DEF Is, Leads
  <2> QED
    BY <1>5, <1>9, <2>1, <2>2, JoinedLed
<1>13. Routed(a \o b, {"contextIdentifier"}, {s})
  <2>1. Routed(a, {"contextIdentifier"}, {s})
    BY <1>2, <1>5 DEF Routed, Is
  <2>2. Routed(b, {"contextIdentifier"}, {s})
    BY <1>8, RoutedNone
  <2> QED
    BY <1>5, <1>9, <2>1, <2>2, JoinedRouted
<1> QED
  BY <1>4, <1>5, <1>8, <1>10, <1>11, <1>12, <1>13 DEF Behold, s

\* App: every handler stands behind the middlewares that it relies on.
LEMMA AppSound ==
  /\ Sound(App)
  /\ Led(App, Scopeds, {"contextIdentifier"})
  /\ Behind(App)
  /\ Routed(App, {"contextIdentifier"}, {ScopeRoute("db"), ScopeRoute("files")})
  /\ Routed(App, {"validatePath"}, {ScopeRoute("files") \o PathRoute})
  /\ Routed(App, {"listFiles"}, {ScopeRoute("files") \o ListRoute})
<1> DEFINE scopes == {ScopeRoute("db"), ScopeRoute("files")}
           paths  == {ScopeRoute("files") \o PathRoute}
           lists  == {ScopeRoute("files") \o ListRoute}
           Fine(steps) ==
             /\ Sound(steps)
             /\ Led(steps, Scopeds, {"contextIdentifier"})
             /\ Routed(steps, {"contextIdentifier"}, scopes)
             /\ Routed(steps, {"validatePath"}, paths)
             /\ Routed(steps, {"listFiles"}, lists)
             /\ Behind(steps)
<1>1. ASSUME NEW s, Sound(s), Unscoped(s) PROVE Fine(s) /\ "contextIdentifier" \notin Names(s)
  <2>1. /\ Names(s) \cap Scopeds = {} /\ Names(s) \cap {"contextIdentifier"} = {}
        /\ Names(s) \cap {"validatePath"} = {} /\ Names(s) \cap {"listFiles"} = {}
    BY <1>1 DEF Unscoped, Scopeds
  <2>2. "contextIdentifier" \notin Names(s)
    BY <2>1
  <2> HIDE DEF scopes, paths, lists
  <2> QED
    BY <1>1, <2>1, <2>2, LedNone, RoutedNone, BehindNone, Zenon
<1>2. ASSUME NEW a, NEW b, Fine(a), Fine(b), "validatePath" \notin Names(a) \/ "contextIdentifier" \notin Names(b)
      PROVE  Fine(a \o b) /\ Names(a \o b) = Names(a) \cup Names(b)
  <2>1. a \in Seq(Entries) /\ b \in Seq(Entries)
    BY <1>2 DEF Sound
  <2>2. Sound(a \o b)
    BY <1>2, SoundBoth
  <2>3. Led(a \o b, Scopeds, {"contextIdentifier"})
    BY <1>2, <2>1, LedBoth
  <2>4. ASSUME NEW X, NEW S, Routed(a, X, S), Routed(b, X, S) PROVE Routed(a \o b, X, S)
    BY <2>1, <2>4, JoinedRouted
  <2>5. Behind(a \o b)
    BY <1>2, <2>1, JoinedBehind
  <2>6. Names(a \o b) = Names(a) \cup Names(b)
    BY <2>1, JoinedNames
  <2> HIDE DEF scopes, paths, lists
  <2> QED
    BY <1>2, <2>2, <2>3, <2>4, <2>5, <2>6, Zenon
<1>3. ASSUME NEW r \in Seq(Parts), Plain(r), NEW s, Sound(s), Unscoped(s)
      PROVE  Sound(Mount(r, s)) /\ Unscoped(Mount(r, s))
  BY <1>3, SoundMounted, UnscopedMounted DEF Sound
<1>4. /\ <<>> \in Seq(Parts) /\ Plain(<<>>)
      /\ <<Lit("auth")>> \in Seq(Parts) /\ Plain(<<Lit("auth")>>)
      /\ <<Lit("gaia")>> \in Seq(Parts) /\ Plain(<<Lit("gaia")>>)
  <2>1. Lit("auth") \in Parts /\ Lit("gaia") \in Parts
    BY PartTypes DEF Words
  <2> QED
    BY <2>1, PlainRoutes, FixedParts, Tuples
<1> DEFINE a == <<Use(<<>>, "log")>>
           b == CoreRoutes
           c == Mount(<<Lit("auth")>>, AuthRoutes)
           d == Scoped("db", DbRoutes)
           e == Scoped("files", FileRoutes)
           f == Mount(<<Lit("gaia")>>, GaiaRoutes)
           g == Mount(<<>>, WebFingerRoutes)
           h == << On("GET", <<Lit("dump"), Lit("dyn"), Maybe(Par("table")), Maybe(Par("key"))>>, "dump"),
                   On("GET", <<Lit("dump"), Lit("key-value"), Maybe(Par("key"))>>, "dump"),
                   Use(<<>>, "log") >>
<1>5. App = a \o b \o c \o d \o e \o f \o g \o h
  BY DEF App
<1>6. Sound(b) /\ Unscoped(b) /\ Sound(c) /\ Unscoped(c) /\ Sound(f) /\ Unscoped(f) /\ Sound(g) /\ Unscoped(g)
  BY <1>3, <1>4, CoreRoutesSound, AuthRoutesSound, GaiaRoutesSound, WebFingerRoutesSound
<1>7. Sound(a) /\ Unscoped(a) /\ Sound(h) /\ Unscoped(h)
  <2> DEFINE r1 == <<Lit("dump"), Lit("dyn"), Maybe(Par("table")), Maybe(Par("key"))>>
             r2 == <<Lit("dump"), Lit("key-value"), Maybe(Par("key"))>>
             p == On("GET", r1, "dump")
             q == On("GET", r2, "dump")
             l == On("", <<>>, "log")
  <2>1. r1 \in Seq(Parts) /\ r2 \in Seq(Parts)
    <3>1. Lit("dump") \in Parts /\ Lit("dyn") \in Parts /\ Lit("key-value") \in Parts /\ Maybe(Par("table")) \in Parts
          /\ Maybe(Par("key")) \in Parts
      BY PartTypes DEF Words
    <3> QED
      BY <3>1, Tuples
  <2>2. "dump" \in HandlerNames /\ "log" \in HandlerNames
    BY DEF HandlerNames
  <2> HIDE DEF r1, r2
  <2>3. /\ p \in Entries /\ p.name = "dump"
        /\ q \in Entries /\ q.name = "dump"
        /\ l \in Entries /\ l.name = "log"
    BY <1>4, <2>1, <2>2, AllTypes, OneStep
  <2>4. a = <<l>> /\ h = <<p, q, l>>
    BY DEF Use, r1, r2
  <2> HIDE DEF p, q, l, a, h
  <2>5. a \in Seq(Entries) /\ Names(a) = {l.name} /\ h \in Seq(Entries) /\ Names(h) = {p.name, q.name, l.name}
    BY <2>3, <2>4, FewSteps
  <2>6. Names(a) \subseteq {"log", "dump"} /\ Names(h) \subseteq {"log", "dump"}
    BY <2>3, <2>5, Zenon
  <2>7. {"log", "dump"} \cap (Bound \cup Scopeds \cup {"contextIdentifier"}) = {}
    BY DEF Bound, Own, Middlewares, FileOps, Scopeds, DbOps
  <2>8. Names(a) \cap Bound = {} /\ Names(h) \cap Bound = {} /\ Unscoped(a) /\ Unscoped(h)
    BY <2>6, <2>7 DEF Unscoped
  <2> QED
    BY <2>5, <2>8, SoundNone
<1>8. Fine(d) /\ "validatePath" \notin Names(d)
  <2>1. Sound(DbRoutes) /\ Names(DbRoutes) \cap Filed = {}
    BY DbRoutesSound
  <2>2. Behold("db", d) /\ Names(d) \subseteq Names(DbRoutes) \cup {"optionalUser", "contextIdentifier"}
    BY <2>1, ScopedSound DEF Filed
  <2>3. Names(d) \cap {"validatePath"} = {} /\ Names(d) \cap {"listFiles"} = {} /\ "validatePath" \notin Names(d)
    BY <2>1, <2>2 DEF Filed
  <2>4. Routed(d, {"contextIdentifier"}, scopes)
    BY <2>2 DEF Behold, Routed
  <2> HIDE DEF scopes, paths, lists, d
  <2> QED
    BY <2>2, <2>3, <2>4, RoutedNone, BehindNone DEF Behold
<1>9. Fine(e)
  <2>1. Sound(FileRoutes) /\ "contextIdentifier" \notin Names(FileRoutes)
        /\ Routed(FileRoutes, {"validatePath"}, {PathRoute}) /\ Routed(FileRoutes, {"listFiles"}, {ListRoute})
    BY FileRoutesSound
  <2>2. Behold("files", e)
    BY <2>1, ScopedSound
  <2>3. Routed(e, {"contextIdentifier"}, scopes)
    BY <2>2 DEF Behold, Routed
  <2> DEFINE s == ScopeRoute("files")
             x == <<Use(s, "optionalUser"), Use(s, "contextIdentifier")>>
             y == Mount(s, FileRoutes)
  <2>4. e = x \o y
    BY DEF Scoped
  <2>5. s \in Seq(Parts)
    BY ScopeRouteTypes
  <2>6. x \in Seq(Entries) /\ Names(x) = {"optionalUser", "contextIdentifier"}
    <3> DEFINE p == On("", s, "optionalUser")
               q == On("", s, "contextIdentifier")
    <3>1. x = <<p, q>>
      BY DEF Use
    <3>2. "optionalUser" \in HandlerNames /\ "contextIdentifier" \in HandlerNames
      BY DEF HandlerNames
    <3> HIDE DEF s
    <3>3. /\ p \in Entries /\ p.name = "optionalUser"
          /\ q \in Entries /\ q.name = "contextIdentifier"
      BY <2>5, <3>2, AllTypes, OneStep
    <3> HIDE DEF p, q, x
    <3>4. x \in Seq(Entries) /\ Names(x) = {p.name, q.name}
      BY <3>1, <3>3, FewSteps
    <3> QED
      BY <3>3, <3>4, Zenon
  <2>7. y \in Seq(Entries) /\ Names(y) = Names(FileRoutes)
    BY <2>1, <2>5, MountedSteps, MountedNames DEF Sound
  <2>8. Routed(y, {"validatePath"}, paths) /\ Routed(y, {"listFiles"}, lists)
    <3>1. FileRoutes \in Seq(Entries)
      BY <2>1 DEF Sound
    <3>2. /\ Routed(y, {"validatePath"}, {s \o route : route \in {PathRoute}})
          /\ Routed(y, {"listFiles"}, {s \o route : route \in {ListRoute}})
      BY <2>1, <2>5, <3>1, MountedRouted, Zenon
    <3> QED
      BY <3>2 DEF Routed
  <2> HIDE DEF scopes, paths, lists, x, y, e
  <2>9. Routed(x, {"validatePath"}, paths) /\ Routed(x, {"listFiles"}, lists)
    <3>1. Names(x) \cap {"validatePath"} = {} /\ Names(x) \cap {"listFiles"} = {}
      BY <2>6
    <3> QED
      BY <3>1, RoutedNone
  <2>10. Routed(e, {"validatePath"}, paths) /\ Routed(e, {"listFiles"}, lists)
    BY <2>4, <2>6, <2>7, <2>8, <2>9, JoinedRouted
  <2>11. Behind(e)
    <3>1. "validatePath" \notin Names(x) /\ "contextIdentifier" \notin Names(y)
      BY <2>1, <2>6, <2>7
    <3>2. Behind(x) /\ Behind(y)
      BY <3>1, BehindNone
    <3> QED
      BY <2>4, <2>6, <2>7, <3>1, <3>2, JoinedBehind
  <2> QED
    BY <2>2, <2>3, <2>10, <2>11 DEF Behold
<1>10. /\ Fine(a) /\ "contextIdentifier" \notin Names(a) /\ "validatePath" \notin Names(a)
       /\ Fine(b) /\ "contextIdentifier" \notin Names(b) /\ "validatePath" \notin Names(b)
       /\ Fine(c) /\ "contextIdentifier" \notin Names(c) /\ "validatePath" \notin Names(c)
       /\ Fine(f) /\ "contextIdentifier" \notin Names(f)
       /\ Fine(g) /\ "contextIdentifier" \notin Names(g)
       /\ Fine(h) /\ "contextIdentifier" \notin Names(h)
  <2>1. ASSUME NEW s, Unscoped(s) PROVE "validatePath" \notin Names(s)
    BY <2>1 DEF Unscoped, Scopeds
  <2> HIDE DEF a, b, c, f, g, h, Fine
  <2> QED
    BY <1>1, <1>6, <1>7, <2>1, Zenon
<1> HIDE DEF a, b, c, d, e, f, g, h, Fine
<1>11. Fine(a \o b) /\ Names(a \o b) = Names(a) \cup Names(b)
  BY <1>2, <1>10
<1>12. Fine(a \o b \o c) /\ Names(a \o b \o c) = Names(a \o b) \cup Names(c)
  BY <1>2, <1>10, <1>11
<1>13. "validatePath" \notin Names(a \o b \o c)
  BY <1>10, <1>11, <1>12
<1>14. Fine(a \o b \o c \o d) /\ Names(a \o b \o c \o d) = Names(a \o b \o c) \cup Names(d)
  BY <1>2, <1>8, <1>12, <1>13
<1>15. "validatePath" \notin Names(a \o b \o c \o d)
  BY <1>8, <1>13, <1>14
<1>16. Fine(a \o b \o c \o d \o e)
  BY <1>2, <1>9, <1>14, <1>15
<1>17. Fine(a \o b \o c \o d \o e \o f)
  BY <1>2, <1>10, <1>16
<1>18. Fine(a \o b \o c \o d \o e \o f \o g)
  BY <1>2, <1>10, <1>17
<1>19. Fine(a \o b \o c \o d \o e \o f \o g \o h)
  BY <1>2, <1>10, <1>18
<1>20. Fine(App)
  BY <1>5, <1>19
<1> QED
  BY <1>20 DEF Fine
-----------------------------------------------------------------------------
(* Who may answer that something is forbidden. *)

\* Besides the handlers of files, these may; the routes that lead to them are in the routers of
\* auth and gaia, or end before the path of a file begins.
Refusing ==
  {"requireUser", "mustBeUser", "testHandshake", "deleteSelf", "register", "canRegister", "changePass",
   "startHandshake", "completeHandshake", "gaiaToken"}
Unrest(route) == \A i \in DOMAIN route : route[i].is # "rest"
Brief(step) == step.type # "" /\ Len(step.route) <= 4 /\ Unrest(step.route)
Elsewhere(step) == {<<Lit("auth")>>, <<Lit("gaia")>>} \cap step.within # {} \/ Brief(step)
Typed(step) == step.name \in {"writeFile", "deleteFile"} => step.type \in {"PUT", "DELETE"}
Mild(step) == step.name \notin Refusing /\ Typed(step)
Obliging(steps) == \A i \in DOMAIN steps : Mild(steps[i])
Aside(step) == (step.name \in Refusing => Elsewhere(step)) /\ Typed(step)
Apart(steps) == \A i \in DOMAIN steps : Aside(steps[i])

\* A route without a rest fits no URL that is longer than it.
LEMMA NoRest ==
  ASSUME NEW route \in Seq(Parts), Unrest(route), NEW url \in Seq(STRING), Ways(route, url) # {}
  PROVE  Len(url) <= Len(route)
<1>1. PICK way \in SUBSET (DOMAIN route) : IsWay(route, url, way)
  BY DEF Ways
<1>2. Len(route) \in Nat /\ Len(url) \in Nat /\ DOMAIN route = 1 .. Len(route)
  OBVIOUS
<1>3. IsFiniteSet(1 .. Len(route)) /\ Cardinality(1 .. Len(route)) = Len(route)
  <2>1. ASSUME NEW n \in Nat PROVE IsFiniteSet(1 .. n) /\ Cardinality(1 .. n) = n
    <3>1. 1 \in Int /\ n \in Int
      OBVIOUS
    <3>2. IsFiniteSet(1 .. n) /\ Cardinality(1 .. n) = IF 1 > n THEN 0 ELSE n - 1 + 1
      BY <3>1, FS_Interval
    <3> QED
      BY <3>2
  <2> QED
    BY <1>2, <2>1
<1>4. Cardinality(way) <= Len(route)
  BY <1>2, <1>3, FS_Subset
<1>5. Cardinality(way) = Len(url)
  BY <1>1 DEF IsWay, Unrest
<1> QED
  BY <1>4, <1>5

\* What is inside a router under one name begins as that name does, if it is longer.
LEMMA UnderName ==
  ASSUME NEW word \in Words, NEW url \in Seq(STRING), Len(url) > 1, Matches(<<Lit(word)>>, url, TRUE)
  PROVE  <<word, url[1]>> \in Begins
<1> DEFINE r == <<Lit(word)>>
<1>1. Lit(word) \in Parts /\ Lit(word).is = "literal" /\ Lit(word).name = word
  BY PartTypes, FixedParts
<1>2. r \in Seq(Parts) /\ Len(r) = 1 /\ Last(r) = Lit(word) /\ r # <<>>
  <2>1. ASSUME NEW a \in Parts PROVE <<a>> \in Seq(Parts) /\ Len(<<a>>) = 1 /\ Last(<<a>>) = a /\ <<a>> # <<>>
    <3> HIDE DEF Parts
    <3> QED
      BY <2>1 DEF Last
  <2> QED
    BY <1>1, <2>1
<1>3. Front(r) = <<>>
  <2>1. ASSUME NEW a \in Parts PROVE Front(<<a>>) = <<>>
    <3> HIDE DEF Parts
    <3> QED
      BY <2>1 DEF Front
  <2> QED
    BY <1>1, <2>1
<1>4. Unrest(r) /\ Unrest(<<>>)
  <2>1. ASSUME NEW a, a.is = "literal" PROVE Unrest(<<a>>)
    BY <2>1 DEF Unrest
  <2> QED
    BY <1>1, <2>1 DEF Unrest
<1> HIDE DEF r
<1>5. Ways(r, url) = {}
  <2> SUFFICES ASSUME Ways(r, url) # {} PROVE FALSE
    OBVIOUS
  <2>1. Len(url) <= Len(r)
    BY <1>2, <1>4, NoRest
  <2>2. Len(url) \in Nat
    OBVIOUS
  <2> QED
    BY <1>2, <2>1, <2>2
<1>6. PICK k \in 1 .. Len(url) : /\ Ways(Front(r), SubSeq(url, 1, k - 1)) # {}
                                 /\ \/ Last(r).is = "literal" /\ <<Last(r).name, url[k]>> \in Begins
                                    \/ Last(r).is \in {"param", "rest"}
  BY <1>2, <1>5 DEF Matches, Extends, r
<1>7. k = 1
  <2> DEFINE start == SubSeq(url, 1, k - 1)
  <2>1. start \in Seq(STRING) /\ Len(start) = k - 1
    OBVIOUS
  <2> HIDE DEF start
  <2>2. <<>> \in Seq(Parts) /\ Len(<<>>) = 0
    BY Tuples
  <2>3. Ways(<<>>, start) # {}
    BY <1>3, <1>6 DEF start
  <2>4. Len(start) <= 0
    BY <1>4, <2>1, <2>2, <2>3, NoRest
  <2> QED
    BY <2>1, <2>4
<1> QED
  BY <1>1, <1>2, <1>6, <1>7

\* The routes that end elsewhere fit no URL of a file, but for one that begins as theirs do.
LEMMA FarAway ==
  ASSUME NEW step \in Entries, Elsewhere(step), NEW url \in Seq(STRING), NEW method, Len(url) > 4,
         Fits(step, url, method)
  PROVE  {<<"auth", url[1]>>, <<"gaia", url[1]>>} \cap Begins # {}
<1>1. ~Brief(step)
  <2> SUFFICES ASSUME Brief(step) PROVE FALSE
    OBVIOUS
  <2>1. Ways(step.route, url) # {}
    BY DEF Brief, Fits, Matches
  <2>2. step.route \in Seq(Parts)
    BY DEF Entries
  <2>3. Len(url) <= Len(step.route) /\ Len(step.route) <= 4
    BY <2>1, <2>2, NoRest DEF Brief
  <2>4. Len(url) \in Nat /\ Len(step.route) \in Nat
    BY <2>2
  <2> QED
    BY <2>3, <2>4
<1>2. <<Lit("auth")>> \in step.within \/ <<Lit("gaia")>> \in step.within
  BY <1>1 DEF Elsewhere
<1>3. "auth" \in Words /\ "gaia" \in Words /\ Len(url) > 1
  BY DEF Words
<1>4. ASSUME NEW word \in Words, <<Lit(word)>> \in step.within PROVE <<word, url[1]>> \in Begins
  <2>1. Matches(<<Lit(word)>>, url, TRUE)
    BY <1>4 DEF Fits
  <2> QED
    BY <1>3, <2>1, UnderName
<1> QED
  BY <1>2, <1>3, <1>4

\* Lists of steps that are apart are so when they are joined ...
LEMMA JoinedApart ==
  ASSUME NEW a \in Seq(Entries), NEW b \in Seq(Entries)
  PROVE  /\ Obliging(a) => Apart(a)
         /\ Obliging(a) /\ Obliging(b) => Obliging(a \o b)
         /\ Apart(a) /\ Apart(b) => Apart(a \o b)
<1> DEFINE ab == a \o b
<1>1. \A i \in DOMAIN ab : (i \in DOMAIN a /\ ab[i] = a[i]) \/ \E j \in DOMAIN b : ab[i] = b[j]
  BY JoinedSteps
<1> HIDE DEF ab
<1>2. Obliging(a) /\ Obliging(b) => Obliging(ab)
  BY <1>1 DEF Obliging
<1>3. Apart(a) /\ Apart(b) => Apart(ab)
  BY <1>1 DEF Apart
<1>4. Obliging(a) => Apart(a)
  BY DEF Obliging, Mild, Apart, Aside
<1> QED
  BY <1>2, <1>3, <1>4 DEF ab

\* ... and when they are mounted.
LEMMA MountedApart ==
  ASSUME NEW r \in Seq(Parts), NEW s \in Seq(Entries)
  PROVE  /\ Obliging(s) => Obliging(Mount(r, s))
         /\ r \in {<<Lit("auth")>>, <<Lit("gaia")>>} /\ Names(s) \cap FileOps = {} => Apart(Mount(r, s))
         /\ r = <<>> /\ (\A i \in DOMAIN s : Brief(s[i]) \/ s[i].name \notin Refusing) /\ Names(s) \cap FileOps = {}
              => Apart(Mount(r, s))
<1> DEFINE ms == Mount(r, s)
<1>1. /\ DOMAIN ms = DOMAIN s
      /\ \A i \in DOMAIN s : /\ r \in ms[i].within /\ ms[i].route = r \o s[i].route
                             /\ ms[i].type = s[i].type /\ ms[i].name = s[i].name
  BY MountedSteps
<1> HIDE DEF ms
<1>2. Obliging(s) => Obliging(ms)
  BY <1>1 DEF Obliging, Mild, Typed
<1>3. ASSUME Names(s) \cap FileOps = {} PROVE \A i \in DOMAIN ms : Typed(ms[i])
  BY <1>1, <1>3 DEF Names, FileOps, Typed
<1>4. ASSUME r \in {<<Lit("auth")>>, <<Lit("gaia")>>}, Names(s) \cap FileOps = {} PROVE Apart(ms)
  <2>1. ASSUME NEW i \in DOMAIN ms PROVE Elsewhere(ms[i])
    <3>1. {<<Lit("auth")>>, <<Lit("gaia")>>} \cap ms[i].within # {}
      BY <1>1, <1>4
    <3> QED
      BY <3>1 DEF Elsewhere
  <2> QED
    BY <1>3, <1>4, <2>1 DEF Apart, Aside
<1>5. ASSUME r = <<>>, \A i \in DOMAIN s : Brief(s[i]) \/ s[i].name \notin Refusing, Names(s) \cap FileOps = {}
      PROVE  Apart(ms)
  <2>1. ASSUME NEW i \in DOMAIN s PROVE ms[i].route = s[i].route
    <3>1. s[i].route \in Seq(Parts)
      <4>1. s[i] \in Entries
        OBVIOUS
      <4> QED
        BY <4>1 DEF Entries
    <3>2. ASSUME NEW route \in Seq(Parts) PROVE <<>> \o route = route
      <4> HIDE DEF Parts
      <4> QED
        BY <3>2
    <3> QED
      BY <1>1, <1>5, <3>1, <3>2
  <2>2. ASSUME NEW i \in DOMAIN ms, ms[i].name \in Refusing PROVE Elsewhere(ms[i])
    <3>1. Brief(s[i]) /\ ms[i].route = s[i].route /\ ms[i].type = s[i].type
      BY <1>1, <1>5, <2>1, <2>2
    <3>2. Brief(ms[i])
      BY <3>1 DEF Brief
    <3> QED
      BY <3>2 DEF Elsewhere
  <2> QED
    BY <1>3, <1>5, <2>2 DEF Apart, Aside
<1> QED
  BY <1>2, <1>4, <1>5 DEF ms

\* Steps in a row, none of which may refuse.
LEMMA MildSteps ==
  /\ \A type, route, name : name \notin Refusing /\ (name \in {"writeFile", "deleteFile"} => type \in {"PUT", "DELETE"})
                               => Mild(On(type, route, name))
  /\ \A a, b, c, d, e, f :
       Mild(a) /\ Mild(b) /\ Mild(c) /\ Mild(d) =>
         /\ Obliging(<<a, b, c, d>>)
         /\ Mild(e) => Obliging(<<a, b, c, d, e>>)
         /\ Mild(e) /\ Mild(f) => Obliging(<<a, b, c, d, e, f>>)
<1>1. ASSUME NEW type, NEW route, NEW name, name \notin Refusing,
             name \in {"writeFile", "deleteFile"} => type \in {"PUT", "DELETE"}
      PROVE  Mild(On(type, route, name))
  BY <1>1 DEF On, Mild, Typed
<1>2. ASSUME NEW a, NEW b, NEW c, NEW d, NEW e, NEW f, Mild(a), Mild(b), Mild(c), Mild(d)
      PROVE  /\ Obliging(<<a, b, c, d>>)
             /\ Mild(e) => Obliging(<<a, b, c, d, e>>)
             /\ Mild(e) /\ Mild(f) => Obliging(<<a, b, c, d, e, f>>)
  BY <1>2 DEF Obliging
<1> QED
  BY <1>1, <1>2

\* The routers of keys, of tables and of paths have none of the handlers that may refuse.
LEMMA RoutersOblige == Obliging(StoreRoutes) /\ Obliging(TableRoutes) /\ Obliging(PathRoutes)
<1> DEFINE names == {"key-value-store", "keyValueGet", "keyValueAdd", "keyValuePut", "keyValueDel", "dynamic-tables",
                     "dynGetTable", "dynRegisterTables", "dynReplaceTable", "dynDropTable", "dynDropAll", "validatePath", "readFile"}
<1>1. \A name \in names : name \notin Refusing /\ name \notin {"writeFile", "deleteFile"}
  BY DEF Refusing
<1>2. "writeFile" \notin Refusing /\ "deleteFile" \notin Refusing
  BY DEF Refusing
<1>3. Obliging(StoreRoutes)
  BY <1>1, MildSteps, Zenon DEF StoreRoutes, Use
<1>4. Obliging(TableRoutes)
  BY <1>1, MildSteps, Zenon DEF TableRoutes, Use
<1>5. Obliging(PathRoutes)
  BY <1>1, <1>2, MildSteps, Zenon DEF PathRoutes, Use
<1> QED
  BY <1>3, <1>4, <1>5

\* Nor have these steps in a row.
LEMMA NoneRefuses ==
  ASSUME NEW s, Names(s) \cap (Refusing \cup FileOps) = {}
  PROVE  Obliging(s)
  BY DEF Obliging, Mild, Typed, Names, FileOps

\* A list whose handlers of files are led by validatePath has none of them without it.
LEMMA NoFileOps ==
  ASSUME NEW s, Sound(s), "validatePath" \notin Names(s)
  PROVE  s \in Seq(Entries) /\ Names(s) \cap FileOps = {}
<1>1. s \in Seq(Entries) /\ DOMAIN s = 1 .. Len(s) /\ Len(s) \in Nat
  BY DEF Sound
<1>2. ASSUME NEW i \in DOMAIN s, s[i].name \in FileOps PROVE FALSE
  <2>1. PICK j \in 1 .. i - 1 : s[j].name = "validatePath"
    BY <1>2 DEF Sound, Led
  <2>2. j \in DOMAIN s
    <3> HIDE DEF Entries
    <3> QED
      BY <1>1, <1>2
  <2> QED
    BY <2>1, <2>2 DEF Names
<1> QED
  BY <1>1, <1>2 DEF Names

\* The routers of a scope oblige: neither the database's nor the files' routes lead to a handler that may refuse,
\* but for those of files themselves.
LEMMA ScopesOblige ==
  /\ Scoped("db", DbRoutes) \in Seq(Entries) /\ Obliging(Scoped("db", DbRoutes))
  /\ Scoped("files", FileRoutes) \in Seq(Entries) /\ Obliging(Scoped("files", FileRoutes))
<1> DEFINE mild == {"optionalUser", "contextIdentifier", "Db", "key-value", "dynamic", "keyValueSearch", "keyValueBatch",
                    "graphql", "file-store", "listFiles", "storageStats", "batchInfo"}
           Good(s) == s \in Seq(Entries) /\ Obliging(s)
<1>1. \A name \in mild : name \notin Refusing \cup FileOps /\ name \in HandlerNames
  BY DEF Refusing, FileOps, HandlerNames
<1> DEFINE Ok(x) == x \in Entries /\ x.name \in mild
<1>2. ASSUME NEW type \in Types, NEW route \in Seq(Parts), NEW name \in mild PROVE Ok(On(type, route, name))
  BY <1>1, <1>2, OneStep
<1>3. ASSUME NEW a, NEW b, NEW c, Ok(a), Ok(b), Ok(c) PROVE Good(<<a>>) /\ Good(<<a, b>>) /\ Good(<<a, b, c>>)
  <2>1. {a.name, b.name, c.name} \cap (Refusing \cup FileOps) = {}
    BY <1>1, <1>3
  <2>2. /\ <<a>> \in Seq(Entries) /\ Names(<<a>>) \cap (Refusing \cup FileOps) = {}
        /\ <<a, b>> \in Seq(Entries) /\ Names(<<a, b>>) \cap (Refusing \cup FileOps) = {}
        /\ <<a, b, c>> \in Seq(Entries) /\ Names(<<a, b, c>>) \cap (Refusing \cup FileOps) = {}
    BY <1>3, <2>1, FewSteps
  <2> QED
    BY <2>2, NoneRefuses
<1>4. ASSUME NEW a, NEW b, Good(a), Good(b) PROVE Good(a \o b)
  BY <1>4, JoinedSteps, JoinedApart
<1>5. ASSUME NEW r \in Seq(Parts), NEW s, Good(s) PROVE Good(Mount(r, s))
  BY <1>5, MountedSteps, MountedApart
<1>6. Good(StoreRoutes) /\ Good(TableRoutes) /\ Good(PathRoutes)
  BY RoutersOblige, StoreRoutesSound, TableRoutesSound, PathRoutesSound DEF Sound
<1>7. /\ \A word \in Words : <<Lit(word)>> \in Seq(Parts)
      /\ <<>> \in Seq(Parts) /\ ScopeRoute("db") \in Seq(Parts) /\ ScopeRoute("files") \in Seq(Parts)
      /\ PathRoute \in Seq(Parts) /\ ListRoute \in Seq(Parts)
  BY PartTypes, Tuples, ScopeRouteTypes, PathRouteTypes
<1> DEFINE words == {"store", "search", "batch", "tables", "graphql", "key-value", "dynamic", "storage-stats", "batch-info"}
<1>8. \A word \in words : <<Lit(word)>> \in Seq(Parts)
  <2>1. words \subseteq Words
    BY DEF Words
  <2> QED
    BY <1>7, <2>1
<1>9. /\ "optionalUser" \in mild /\ "contextIdentifier" \in mild /\ "Db" \in mild /\ "key-value" \in mild
      /\ "dynamic" \in mild /\ "keyValueSearch" \in mild /\ "keyValueBatch" \in mild /\ "graphql" \in mild
      /\ "file-store" \in mild /\ "listFiles" \in mild /\ "storageStats" \in mild /\ "batchInfo" \in mild
      /\ "store" \in words /\ "search" \in words /\ "batch" \in words /\ "tables" \in words /\ "graphql" \in words
      /\ "key-value" \in words /\ "dynamic" \in words /\ "storage-stats" \in words /\ "batch-info" \in words
  OBVIOUS
<1> DEFINE p == On("POST", <<Lit("search")>>, "keyValueSearch")
           q == On("POST", <<Lit("batch")>>, "keyValueBatch")
           g == On("", <<Lit("graphql")>>, "graphql")
           l == On("GET", ListRoute, "listFiles")
           st == On("GET", <<Lit("storage-stats")>>, "storageStats")
           bi == On("POST", <<Lit("batch-info")>>, "batchInfo")
           kv == On("", <<>>, "key-value")
           dy == On("", <<>>, "dynamic")
           db == On("", <<>>, "Db")
           fs == On("", PathRoute, "file-store")
<1> HIDE DEF mild, words, Good, Ok
<1>10. Ok(p) /\ Ok(q) /\ Ok(g) /\ Ok(l) /\ Ok(st) /\ Ok(bi) /\ Ok(kv) /\ Ok(dy) /\ Ok(db) /\ Ok(fs)
  BY <1>2, <1>7, <1>8, <1>9, AllTypes, Zenon
<1>11. KeyValueRoutes = <<kv>> \o Mount(<<Lit("store")>>, StoreRoutes) \o <<p, q>>
  BY DEF KeyValueRoutes, Use
<1>12. DynamicRoutes = <<dy>> \o Mount(<<Lit("tables")>>, TableRoutes) \o <<g>>
  BY DEF DynamicRoutes, Use
<1>13. DbRoutes = <<db>> \o Mount(<<Lit("key-value")>>, KeyValueRoutes) \o Mount(<<Lit("dynamic")>>, DynamicRoutes)
  BY DEF DbRoutes, Use
<1>14. FileRoutes = <<fs>> \o Mount(PathRoute, PathRoutes) \o <<l, st, bi>>
  BY DEF FileRoutes, Use, ListRoute
<1> HIDE DEF p, q, g, l, st, bi, kv, dy, db, fs
<1>15. ASSUME NEW x, NEW y, NEW z, Good(x), Good(y), Good(z) PROVE Good(x \o y \o z)
  BY <1>4, <1>15
<1>16. Good(KeyValueRoutes)
  <2>1. Good(<<kv>>) /\ Good(<<p, q>>) /\ Good(Mount(<<Lit("store")>>, StoreRoutes))
    BY <1>3, <1>5, <1>6, <1>8, <1>9, <1>10, Zenon
  <2> QED
    BY <1>11, <1>15, <2>1, Zenon
<1>17. Good(DynamicRoutes)
  <2>1. Good(<<dy>>) /\ Good(<<g>>) /\ Good(Mount(<<Lit("tables")>>, TableRoutes))
    BY <1>3, <1>5, <1>6, <1>8, <1>9, <1>10, Zenon
  <2> QED
    BY <1>12, <1>15, <2>1, Zenon
<1>18. Good(DbRoutes)
  <2>1. Good(<<db>>) /\ Good(Mount(<<Lit("key-value")>>, KeyValueRoutes)) /\ Good(Mount(<<Lit("dynamic")>>, DynamicRoutes))
    BY <1>3, <1>5, <1>8, <1>9, <1>10, <1>16, <1>17, Zenon
  <2> QED
    BY <1>13, <1>15, <2>1, Zenon
<1>19. Good(FileRoutes)
  <2>1. Good(<<fs>>) /\ Good(Mount(PathRoute, PathRoutes)) /\ Good(<<l, st, bi>>)
    BY <1>3, <1>5, <1>6, <1>7, <1>10, Zenon
  <2> QED
    BY <1>14, <1>15, <2>1, Zenon
<1>20. ASSUME NEW feature \in {"db", "files"}, NEW routes, Good(routes) PROVE Good(Scoped(feature, routes))
  <2> DEFINE r == ScopeRoute(feature)
             user == On("", r, "optionalUser")
             context == On("", r, "contextIdentifier")
  <2>1. Scoped(feature, routes) = <<user, context>> \o Mount(r, routes)
    BY DEF Scoped, Use
  <2>2. r \in Seq(Parts)
    BY <1>7
  <2>3. Ok(user) /\ Ok(context)
    BY <1>2, <1>9, <2>2, AllTypes, Zenon
  <2> HIDE DEF r, user, context
  <2>4. Good(<<user, context>>) /\ Good(Mount(r, routes))
    BY <1>3, <1>5, <1>20, <2>2, <2>3, Zenon
  <2> QED
    BY <1>4, <2>1, <2>4, Zenon
<1>21. Good(Scoped("db", DbRoutes)) /\ Good(Scoped("files", FileRoutes))
  BY <1>18, <1>19, <1>20
<1> QED
  BY <1>21 DEF Good

\* Core's two refusing steps and WebFinger's one are brief.
LEMMA BriefSteps ==
  \A type, name : \A word, other \in Words : type # "" =>
    Brief(On(type, <<Lit(word)>>, name)) /\ Brief(On(type, <<Lit(word), Lit(other)>>, name))
<1>1. ASSUME NEW a, NEW b, a.is # "rest", b.is # "rest"
      PROVE  Len(<<a>>) <= 4 /\ Len(<<a, b>>) <= 4 /\ Unrest(<<a>>) /\ Unrest(<<a, b>>)
  BY <1>1 DEF Unrest
<1> SUFFICES ASSUME NEW type, NEW name, NEW word \in Words, NEW other \in Words, type # ""
             PROVE  Brief(On(type, <<Lit(word)>>, name)) /\ Brief(On(type, <<Lit(word), Lit(other)>>, name))
  OBVIOUS
<1>2. Lit(word).is # "rest" /\ Lit(other).is # "rest"
  BY FixedParts
<1>3. ASSUME NEW route, Len(route) <= 4, Unrest(route) PROVE Brief(On(type, route, name))
  <2> DEFINE x == On(type, route, name)
  <2>1. Is(x, type, route, name)
    BY OnIs, Zenon
  <2> HIDE DEF x
  <2>2. x.type # "" /\ x.route = route
    BY <2>1, Zenon DEF Is
  <2>3. Brief(x)
    BY <1>3, <2>2, Zenon DEF Brief
  <2> QED
    BY <2>3 DEF x
<1> QED
  BY <1>1, <1>2, <1>3, Zenon

\* The routes of Core and of WebFinger, mounted at the root.
LEMMA RootApart ==
  /\ CoreRoutes \in Seq(Entries) /\ Apart(CoreRoutes)
  /\ Mount(<<>>, WebFingerRoutes) \in Seq(Entries) /\ Apart(Mount(<<>>, WebFingerRoutes))
<1> DEFINE P(x) == Brief(x) \/ x.name \notin Refusing
           mild == {"type", "get-self", "optionalUser", "self", "delete-self", "WebFinger", "storeInfo", "getInfo"}
<1>1. \A name \in mild : name \notin Refusing
  BY DEF Refusing
<1>2. /\ "type" \in mild /\ "get-self" \in mild /\ "optionalUser" \in mild /\ "self" \in mild
      /\ "delete-self" \in mild /\ "WebFinger" \in mild /\ "storeInfo" \in mild /\ "getInfo" \in mild
  OBVIOUS
<1> HIDE DEF mild
<1>3. ASSUME NEW type, NEW route, NEW name \in mild PROVE P(On(type, route, name))
  <2>1. On(type, route, name).name = name
    BY DEF On
  <2> QED
    BY <1>1, <2>1
<1>4. "self" \in Words /\ ".well-known" \in Words /\ "webfinger" \in Words /\ "DELETE" # "" /\ "PUT" # ""
  <2>1. "DELETE" # "" /\ "PUT" # ""
    BY Zenon
  <2> QED
    BY <2>1 DEF Words
<1>5. ASSUME NEW name
      PROVE  P(On("DELETE", <<Lit("self")>>, name)) /\ P(On("PUT", <<Lit(".well-known"), Lit("webfinger")>>, name))
  BY <1>4, BriefSteps, Zenon
<1> HIDE DEF P
<1>6. \A a, b, c, d, e, f, g :
        P(a) /\ P(b) /\ P(c) /\ P(d) /\ P(e) /\ P(f) /\ P(g) =>
          /\ \A i \in DOMAIN <<a, b, c, d, e, f, g>> : P(<<a, b, c, d, e, f, g>>[i])
          /\ \A i \in DOMAIN <<a, b, c, d>> : P(<<a, b, c, d>>[i])
  OBVIOUS
<1>7. \A i \in DOMAIN CoreRoutes : P(CoreRoutes[i])
  BY <1>2, <1>3, <1>5, <1>6, Zenon DEF CoreRoutes, Use
<1>8. \A i \in DOMAIN WebFingerRoutes : P(WebFingerRoutes[i])
  BY <1>2, <1>3, <1>5, <1>6, Zenon DEF WebFingerRoutes, WebFinger, Use
<1>9. ASSUME NEW s, Unscoped(s) PROVE "validatePath" \notin Names(s)
  BY <1>9 DEF Unscoped, Scopeds
<1>10. CoreRoutes \in Seq(Entries) /\ Names(CoreRoutes) \cap FileOps = {}
  BY <1>9, CoreRoutesSound, NoFileOps
<1>11. WebFingerRoutes \in Seq(Entries) /\ Names(WebFingerRoutes) \cap FileOps = {}
  BY <1>9, WebFingerRoutesSound, NoFileOps
<1>12. Apart(CoreRoutes)
  <2> DEFINE t == CoreRoutes
  <2> HIDE DEF t
  <2>1. ASSUME NEW i \in DOMAIN t PROVE Aside(t[i])
    <3>1. P(t[i]) /\ t[i].name \notin FileOps
      BY <1>7, <1>10, <2>1 DEF t, Names
    <3> QED
      BY <3>1 DEF P, Aside, Elsewhere, Typed, FileOps
  <2> QED
    BY <2>1 DEF Apart, t
<1>13. <<>> \in Seq(Parts)
  BY Tuples
<1>14. Mount(<<>>, WebFingerRoutes) \in Seq(Entries)
  BY <1>11, <1>13, MountedSteps
<1>15. Apart(Mount(<<>>, WebFingerRoutes))
  BY <1>8, <1>11, <1>13, MountedApart DEF P
<1> QED
  BY <1>10, <1>12, <1>14, <1>15

\* App: wherever a handler may refuse a request, but for those of files, its route leads elsewhere.
LEMMA AppApart == App \in Seq(Entries) /\ Apart(App)
<1> DEFINE Good(s) == s \in Seq(Entries) /\ Apart(s)
           r1 == <<Lit("dump"), Lit("dyn"), Maybe(Par("table")), Maybe(Par("key"))>>
           r2 == <<Lit("dump"), Lit("key-value"), Maybe(Par("key"))>>
           p == On("GET", r1, "dump")
           q == On("GET", r2, "dump")
           l == On("", <<>>, "log")
           a == <<l>>
           b == CoreRoutes
           c == Mount(<<Lit("auth")>>, AuthRoutes)
           d == Scoped("db", DbRoutes)
           e == Scoped("files", FileRoutes)
           f == Mount(<<Lit("gaia")>>, GaiaRoutes)
           g == Mount(<<>>, WebFingerRoutes)
           h == <<p, q, l>>
<1>1. App = a \o b \o c \o d \o e \o f \o g \o h
  BY DEF App, Use
<1>2. <<Lit("auth")>> \in Seq(Parts) /\ <<Lit("gaia")>> \in Seq(Parts) /\ r1 \in Seq(Parts) /\ r2 \in Seq(Parts)
      /\ <<>> \in Seq(Parts)
  <2>1. Lit("auth") \in Parts /\ Lit("gaia") \in Parts /\ Lit("dump") \in Parts /\ Lit("dyn") \in Parts
        /\ Lit("key-value") \in Parts /\ Maybe(Par("table")) \in Parts /\ Maybe(Par("key")) \in Parts
    BY PartTypes DEF Words
  <2> QED
    BY <2>1, Tuples
<1>3. ASSUME NEW s, Sound(s), Unscoped(s) PROVE s \in Seq(Entries) /\ Names(s) \cap FileOps = {}
  <2>1. "validatePath" \notin Names(s)
    BY <1>3 DEF Unscoped, Scopeds
  <2> QED
    BY <1>3, <2>1, NoFileOps
<1>4. Good(c)
  <2>1. AuthRoutes \in Seq(Entries) /\ Names(AuthRoutes) \cap FileOps = {}
    BY <1>3, AuthRoutesSound
  <2> QED
    BY <1>2, <2>1, MountedSteps, MountedApart
<1>5. Good(f)
  <2>1. GaiaRoutes \in Seq(Entries) /\ Names(GaiaRoutes) \cap FileOps = {}
    BY <1>3, GaiaRoutesSound
  <2> QED
    BY <1>2, <2>1, MountedSteps, MountedApart
<1>6. Good(b) /\ Good(g)
  BY RootApart
<1>7. Good(d) /\ Good(e)
  BY ScopesOblige, JoinedApart
<1>8. Good(a) /\ Good(h)
  <2>1. "dump" \in HandlerNames /\ "log" \in HandlerNames /\ {"dump", "log"} \cap (Refusing \cup FileOps) = {}
    BY DEF HandlerNames, Refusing, FileOps
  <2> HIDE DEF r1, r2
  <2>2. /\ p \in Entries /\ p.name = "dump"
        /\ q \in Entries /\ q.name = "dump"
        /\ l \in Entries /\ l.name = "log"
    BY <1>2, <2>1, AllTypes, OneStep
  <2> HIDE DEF p, q, l
  <2>3. a \in Seq(Entries) /\ Names(a) = {l.name} /\ h \in Seq(Entries) /\ Names(h) = {p.name, q.name, l.name}
    BY <2>2, FewSteps
  <2> HIDE DEF a, h
  <2>4. Names(a) \cap (Refusing \cup FileOps) = {} /\ Names(h) \cap (Refusing \cup FileOps) = {}
    BY <2>1, <2>2, <2>3
  <2>5. Obliging(a) /\ Obliging(h)
    BY <2>4, NoneRefuses
  <2> QED
    BY <2>3, <2>5, JoinedApart
<1>9. ASSUME NEW x, NEW y, Good(x), Good(y) PROVE Good(x \o y)
  BY <1>9, JoinedSteps, JoinedApart
<1> HIDE DEF a, b, c, d, e, f, g, h, Good
<1>10. Good(a \o b \o c \o d)
  BY <1>4, <1>6, <1>7, <1>8, <1>9
<1>11. Good(a \o b \o c \o d \o e \o f)
  BY <1>5, <1>7, <1>9, <1>10
<1>12. Good(a \o b \o c \o d \o e \o f \o g \o h)
  BY <1>6, <1>8, <1>9, <1>11
<1> QED
  BY <1>1, <1>12 DEF Good
-----------------------------------------------------------------------------
(* The places that pathfind picks. *)

\* Places in a sequence are integers, finitely many.
LEMMA PlacesFinite ==
  ASSUME NEW n \in Nat, NEW places \in SUBSET (1 .. n)
  PROVE  IsFiniteSet(places) /\ Cardinality(places) \in Nat /\ places \subseteq Int
<1>1. IsFiniteSet(1 .. n)
  <2>1. 1 \in Int /\ n \in Int
    OBVIOUS
  <2> QED
    BY <2>1, FS_Interval
<1>2. IsFiniteSet(places)
  BY <1>1, FS_Subset
<1>3. places \subseteq Int
  OBVIOUS
<1> QED
  BY <1>2, <1>3, FS_CardinalityType

\* As many places come up to one of them as its rank says: no fewer than one, no more than there are.
LEMMA RankType ==
  ASSUME NEW n \in Nat, NEW places \in SUBSET (1 .. n), NEW i \in places
  PROVE  IsFiniteSet(places) /\ Rank(places, i) \in 1 .. Cardinality(places)
<1> DEFINE upTo == {j \in places : j <= i}
<1>1. IsFiniteSet(places)
  BY PlacesFinite
<1>2. IsFiniteSet(upTo) /\ Cardinality(upTo) <= Cardinality(places)
  BY <1>1, FS_Subset
<1>3. Cardinality(upTo) \in Nat /\ Cardinality(places) \in Nat
  BY <1>1, <1>2, FS_CardinalityType
<1>4. i \in upTo
  OBVIOUS
<1>5. Cardinality(upTo) # 0
  BY <1>2, <1>4, FS_EmptySet
<1> QED
  BY <1>1, <1>2, <1>3, <1>5 DEF Rank

\* Ranks grow with the places.
LEMMA RankGrows ==
  ASSUME NEW n \in Nat, NEW places \in SUBSET (1 .. n), NEW i \in places, NEW j \in places, i < j
  PROVE  Rank(places, i) < Rank(places, j)
<1> DEFINE upTo(k) == {l \in places : l <= k}
<1>1. IsFiniteSet(places) /\ places \subseteq Int
  BY PlacesFinite
<1>2. IsFiniteSet(upTo(j))
  BY <1>1, FS_Subset
<1>3. upTo(i) \in SUBSET upTo(j) /\ j \in upTo(j) /\ j \notin upTo(i)
  <2>1. i \in Int /\ j \in Int
    BY <1>1
  <2>2. ASSUME NEW l \in places, l <= i PROVE l <= j
    <3>1. l \in Int
      BY <1>1
    <3> QED
      BY <2>1, <2>2, <3>1
  <2>3. ~(j <= i) /\ j <= j
    BY <2>1
  <2> QED
    BY <2>2, <2>3
<1>4. Cardinality(upTo(i)) <= Cardinality(upTo(j)) /\ Cardinality(upTo(j)) # Cardinality(upTo(i))
  BY <1>2, <1>3, FS_Subset
<1>5. Rank(places, i) \in Nat /\ Rank(places, j) \in Nat
  <2>1. ASSUME NEW k \in places PROVE Rank(places, k) \in Nat
    <3>1. Rank(places, k) \in 1 .. Cardinality(places) /\ Cardinality(places) \in Nat
      BY PlacesFinite, RankType
    <3> QED
      BY <3>1
  <2> QED
    BY <2>1
<1> QED
  BY <1>4, <1>5 DEF Rank

\* The next place has the next rank.
LEMMA RankOfNext ==
  ASSUME NEW n \in Nat, NEW places \in SUBSET (1 .. n), NEW i \in places, i + 1 \in places
  PROVE  Rank(places, i + 1) = Rank(places, i) + 1
<1> DEFINE upTo(k) == {l \in places : l <= k}
<1>1. IsFiniteSet(upTo(i))
  BY RankType, FS_Subset
<1>2. upTo(i + 1) = upTo(i) \cup {i + 1} /\ i + 1 \notin upTo(i)
  <2>1. i \in Int /\ places \subseteq Int
    BY PlacesFinite
  <2>2. ASSUME NEW l \in places PROVE l <= i + 1 <=> l <= i \/ l = i + 1
    <3>1. l \in Int
      BY <2>1
    <3> QED
      BY <2>1, <3>1
  <2>3. i + 1 <= i + 1 /\ ~(i + 1 <= i)
    BY <2>1
  <2>4. ASSUME NEW l PROVE l \in upTo(i + 1) <=> l \in upTo(i) \/ l = i + 1
    BY <2>2, <2>3
  <2> QED
    BY <2>3, <2>4
<1>3. Cardinality(upTo(i + 1)) = Cardinality(upTo(i)) + 1
  BY <1>1, <1>2, FS_AddElement
<1> QED
  BY <1>3 DEF Rank

\* Every number up to that of the places is the rank of one of them, and of no other.
LEMMA NthRank ==
  ASSUME NEW n \in Nat, NEW places \in SUBSET (1 .. n)
  PROVE  /\ \A k \in 1 .. Cardinality(places) : Nth(places, k) \in places /\ Rank(places, Nth(places, k)) = k
         /\ \A i \in places : Nth(places, Rank(places, i)) = i
<1> DEFINE rank == [i \in places |-> Rank(places, i)]
           count == Cardinality(places)
<1>1. IsFiniteSet(places) /\ count \in Nat
  BY PlacesFinite
<1>2. rank \in [places -> 1 .. count]
  BY RankType
<1>3. ASSUME NEW i \in places, NEW j \in places, rank[i] = rank[j] PROVE i = j
  <2>1. Rank(places, i) = Rank(places, j) /\ Rank(places, i) \in Int
    BY <1>2, <1>3
  <2>2. ~(i < j) /\ ~(j < i)
    <3>1. ~(Rank(places, i) < Rank(places, j)) /\ ~(Rank(places, j) < Rank(places, i))
      BY <2>1
    <3> QED
      BY <3>1, RankGrows
  <2>3. i \in Int /\ j \in Int
    BY PlacesFinite
  <2> QED
    BY <2>2, <2>3
<1>4. rank \in Injection(places, 1 .. count)
  BY <1>2, <1>3 DEF Injection, IsInjective
<1>5. IsFiniteSet(1 .. count) /\ Cardinality(1 .. count) = count
  BY <1>1, FS_Interval
<1>6. rank \in Surjection(places, 1 .. count)
  <2> HIDE DEF rank, count
  <2> QED
    BY <1>4, <1>5, FS_Injection DEF count
<1>7. ASSUME NEW k \in 1 .. count
      PROVE  Nth(places, k) \in places /\ Rank(places, Nth(places, k)) = k
  <2>1. \E i \in places : Rank(places, i) = k
    BY <1>6, <1>7 DEF Surjection
  <2> QED
    BY <2>1 DEF Nth
<1>8. ASSUME NEW i \in places PROVE Nth(places, Rank(places, i)) = i
  <2>1. Rank(places, i) \in 1 .. count
    BY RankType
  <2>2. Nth(places, Rank(places, i)) \in places /\ rank[Nth(places, Rank(places, i))] = rank[i]
    BY <1>7, <2>1
  <2> QED
    BY <1>3, <2>2
<1> QED
  BY <1>7, <1>8

\* Later numbers stand at later places.
LEMMA NthGrows ==
  ASSUME NEW n \in Nat, NEW places \in SUBSET (1 .. n),
         NEW k \in 1 .. Cardinality(places), NEW l \in 1 .. Cardinality(places), k < l
  PROVE  Nth(places, k) < Nth(places, l)
<1>1. /\ Nth(places, k) \in places /\ Rank(places, Nth(places, k)) = k
      /\ Nth(places, l) \in places /\ Rank(places, Nth(places, l)) = l
  BY NthRank
<1>2. Nth(places, l) # Nth(places, k)
  BY <1>1
<1>3. ~(Nth(places, l) < Nth(places, k))
  <2>1. SUFFICES ASSUME Nth(places, l) < Nth(places, k) PROVE FALSE
    OBVIOUS
  <2>2. Rank(places, Nth(places, l)) < Rank(places, Nth(places, k))
    BY <1>1, <2>1, RankGrows
  <2>3. k \in Int /\ l \in Int
    BY PlacesFinite
  <2> QED
    BY <1>1, <2>2, <2>3
<1>4. Nth(places, k) \in Int /\ Nth(places, l) \in Int
  BY <1>1, PlacesFinite
<1> QED
  BY <1>2, <1>3, <1>4
-----------------------------------------------------------------------------
(* The chain that it finds. *)

\* What Pick makes of a sequence: the elements at the places.
LEMMA PickType ==
  ASSUME NEW S, NEW seq \in Seq(S), NEW places \in SUBSET DOMAIN seq
  PROVE  /\ Pick(seq, places) \in Seq(S) /\ Len(Pick(seq, places)) = Cardinality(places)
         /\ DOMAIN Pick(seq, places) = 1 .. Cardinality(places)
         /\ \A k \in 1 .. Cardinality(places) : Nth(places, k) \in places /\ Pick(seq, places)[k] = seq[Nth(places, k)]
<1>1. Len(seq) \in Nat /\ places \in SUBSET (1 .. Len(seq))
  OBVIOUS
<1>2. Cardinality(places) \in Nat
  BY <1>1, PlacesFinite
<1>3. \A k \in 1 .. Cardinality(places) : Nth(places, k) \in places
  BY <1>1, NthRank
<1>4. \A k \in 1 .. Cardinality(places) : seq[Nth(places, k)] \in S
  BY <1>3
<1> DEFINE p == Pick(seq, places)
           n == Cardinality(places)
<1>5. p = [k \in 1 .. n |-> seq[Nth(places, k)]]
  BY DEF Pick
<1> HIDE DEF p, n
<1>6. \A k \in 1 .. n : p[k] = seq[Nth(places, k)]
  BY <1>5
<1>7. p \in Seq(S) /\ Len(p) = n
  <2>1. p = [k \in 1 .. n |-> p[k]]
    BY <1>5
  <2>2. \A k \in 1 .. n : p[k] \in S
    BY <1>4, <1>6 DEF n
  <2>3. n \in Nat
    BY <1>2 DEF n
  <2> QED
    BY <2>1, <2>2, <2>3
<1> QED
  BY <1>3, <1>5, <1>6, <1>7 DEF p, n

Fitting(steps, url, method) == {i \in DOMAIN steps : Fits(steps[i], url, method)}

\* A handler found has a place in the table, and so it is for every place that fits.
LEMMA FoundPlace ==
  ASSUME NEW steps \in Seq(Entries), NEW url, NEW method
  PROVE  LET c == Pathfind(steps, url, method)
             places == Fitting(steps, url, method)
         IN /\ c \in Seq(Entries) /\ DOMAIN c = 1 .. Cardinality(places) /\ Cardinality(places) \in Nat
            /\ \A k \in DOMAIN c : Nth(places, k) \in places /\ c[k] = steps[Nth(places, k)]
            /\ \A i \in places : Rank(places, i) \in DOMAIN c /\ c[Rank(places, i)] = steps[i]
            /\ \A k \in DOMAIN c : \A i \in places : i < Nth(places, k) => Rank(places, i) < k
<1> DEFINE c == Pathfind(steps, url, method)
           places == Fitting(steps, url, method)
           n == Len(steps)
<1>1. n \in Nat /\ places \in SUBSET (1 .. n) /\ places \in SUBSET DOMAIN steps
  BY DEF Fitting
<1>2. c = Pick(steps, places)
  BY DEF Pathfind, Fitting
<1> HIDE DEF c, places, n
<1>3. /\ c \in Seq(Entries) /\ DOMAIN c = 1 .. Cardinality(places)
      /\ \A k \in 1 .. Cardinality(places) : Nth(places, k) \in places /\ c[k] = steps[Nth(places, k)]
  <2> HIDE DEF Entries
  <2> QED
    BY <1>1, <1>2, PickType
<1>4. Cardinality(places) \in Nat
  BY <1>1, PlacesFinite
<1>5. ASSUME NEW i \in places PROVE Rank(places, i) \in DOMAIN c /\ c[Rank(places, i)] = steps[i]
  <2>1. Rank(places, i) \in 1 .. Cardinality(places)
    BY <1>1, RankType
  <2>2. Nth(places, Rank(places, i)) = i
    BY <1>1, NthRank
  <2> QED
    BY <1>3, <2>1, <2>2
<1>6. ASSUME NEW k \in DOMAIN c, NEW i \in places, i < Nth(places, k) PROVE Rank(places, i) < k
  <2>1. Nth(places, k) \in places /\ Rank(places, Nth(places, k)) = k
    BY <1>1, <1>3, NthRank
  <2> QED
    BY <1>1, <1>6, <2>1, RankGrows
<1> QED
  BY <1>3, <1>4, <1>5, <1>6 DEF c, places

\* A handler that a request finds fits it.
LEMMA FoundFits ==
  ASSUME NEW steps \in Seq(Entries), NEW url, NEW method
  PROVE  \A k \in DOMAIN Pathfind(steps, url, method) :
           \E i \in DOMAIN steps : /\ Pathfind(steps, url, method)[k] = steps[i]
                                   /\ Fits(steps[i], url, method)
<1> DEFINE c == Pathfind(steps, url, method)
           places == Fitting(steps, url, method)
<1>1. ASSUME NEW k \in DOMAIN c PROVE \E i \in DOMAIN steps : c[k] = steps[i] /\ Fits(steps[i], url, method)
  <2>1. Nth(places, k) \in places /\ c[k] = steps[Nth(places, k)]
    BY FoundPlace
  <2> HIDE DEF c
  <2> QED
    BY <2>1 DEF Fitting
<1> QED
  BY <1>1

\* Who is led in the table is led in the chain.
LEMMA FoundLed ==
  ASSUME NEW steps \in Seq(Entries), NEW url \in Seq(STRING), NEW method, NEW X, NEW Y, Led(steps, X, Y)
  PROVE  LET c == Pathfind(steps, url, method) IN
         \A k \in DOMAIN c : c[k].name \in X => \E j \in 1 .. k - 1 : c[j].name \in Y
<1> DEFINE c == Pathfind(steps, url, method)
           places == Fitting(steps, url, method)
<1>1. SUFFICES ASSUME NEW k \in DOMAIN c, c[k].name \in X
               PROVE  \E j \in 1 .. k - 1 : c[j].name \in Y
  OBVIOUS
<1> DEFINE i == Nth(places, k)
<1>2. i \in places /\ c[k] = steps[i]
  BY FoundPlace
<1>3. i \in DOMAIN steps /\ Fits(steps[i], url, method)
  BY <1>2 DEF Fitting
<1> HIDE DEF i, c
<1>4. PICK j \in 1 .. i - 1 : steps[j].name \in Y /\ Leads(steps[j], steps[i])
  BY <1>1, <1>2, <1>3 DEF Led
<1>5. j \in DOMAIN steps /\ j < i
  BY <1>3
<1>6. Fits(steps[j], url, method)
  <2>1. steps[i] \in Entries /\ steps[j] \in Entries
    BY <1>3, <1>5
  <2> QED
    BY <1>3, <1>4, <2>1, LeadsFits
<1>7. j \in places
  BY <1>5, <1>6 DEF Fitting
<1> DEFINE l == Rank(places, j)
<1>8. l \in DOMAIN c /\ c[l] = steps[j] /\ l < k
  BY <1>5, <1>7, FoundPlace DEF c, i
<1>9. DOMAIN c \in SUBSET Nat /\ \A m \in DOMAIN c : m >= 1
  BY FoundPlace DEF c
<1> HIDE DEF l, places
<1>10. l \in 1 .. k - 1
  BY <1>8, <1>9
<1> QED
  BY <1>4, <1>8, <1>10

\* Who stands beside another in the table does so in the chain.
LEMMA FoundBeside ==
  ASSUME NEW steps \in Seq(Entries), NEW url, NEW method, Beside(steps)
  PROVE  LET c == Pathfind(steps, url, method) IN
         \A k \in DOMAIN c : c[k].name = "optionalUser" =>
           k + 1 \in DOMAIN c /\ c[k + 1].name \in {"contextIdentifier", "self"}
<1> DEFINE c == Pathfind(steps, url, method)
           places == Fitting(steps, url, method)
<1>1. SUFFICES ASSUME NEW k \in DOMAIN c, c[k].name = "optionalUser"
               PROVE  k + 1 \in DOMAIN c /\ c[k + 1].name \in {"contextIdentifier", "self"}
  OBVIOUS
<1> DEFINE i == Nth(places, k)
<1>2. i \in places /\ c[k] = steps[i] /\ DOMAIN c = 1 .. Cardinality(places)
  BY FoundPlace
<1>3. i \in DOMAIN steps /\ Fits(steps[i], url, method)
  BY <1>2 DEF Fitting
<1> HIDE DEF i, c
<1>4. /\ i + 1 \in DOMAIN steps /\ steps[i + 1].name \in {"contextIdentifier", "self"}
      /\ steps[i + 1].within = steps[i].within /\ steps[i + 1].route = steps[i].route
      /\ steps[i + 1].type = steps[i].type
  BY <1>1, <1>2, <1>3 DEF Beside
<1>5. i + 1 \in places
  BY <1>3, <1>4 DEF Fitting, Fits
<1>6. Rank(places, i + 1) = Rank(places, i) + 1 /\ Rank(places, i) = k
  <2>1. Len(steps) \in Nat /\ places \in SUBSET (1 .. Len(steps))
    BY DEF Fitting
  <2> HIDE DEF places
  <2>2. Rank(places, i) = k
    BY <1>2, <2>1, NthRank DEF i
  <2> QED
    BY <1>2, <1>5, <2>1, <2>2, RankOfNext
<1>7. Rank(places, i + 1) \in DOMAIN c /\ c[Rank(places, i + 1)] = steps[i + 1]
  BY <1>5, FoundPlace DEF c
<1> HIDE DEF places
<1> QED
  BY <1>4, <1>6, <1>7

\* No handler of the chain stands where the table lets none stand.
LEMMA FoundBehind ==
  ASSUME NEW steps \in Seq(Entries), NEW url, NEW method, Behind(steps)
  PROVE  LET c == Pathfind(steps, url, method) IN
         \A k \in DOMAIN c : \A l \in DOMAIN c :
           k < l /\ c[k].name = "validatePath" => c[l].name # "contextIdentifier"
<1> DEFINE c == Pathfind(steps, url, method)
           places == Fitting(steps, url, method)
<1>1. SUFFICES ASSUME NEW k \in DOMAIN c, NEW l \in DOMAIN c, k < l, c[k].name = "validatePath"
               PROVE  c[l].name # "contextIdentifier"
  OBVIOUS
<1>2. /\ Nth(places, k) \in places /\ c[k] = steps[Nth(places, k)]
      /\ Nth(places, l) \in places /\ c[l] = steps[Nth(places, l)]
  BY FoundPlace
<1>3. DOMAIN c = 1 .. Cardinality(places)
  BY FoundPlace
<1>4. Nth(places, k) < Nth(places, l)
  <2>1. Len(steps) \in Nat /\ places \in SUBSET (1 .. Len(steps))
    BY DEF Fitting
  <2> HIDE DEF places, c
  <2> QED
    BY <1>1, <1>3, <2>1, NthGrows
<1>5. Nth(places, k) \in DOMAIN steps /\ Nth(places, l) \in DOMAIN steps
  BY <1>2 DEF Fitting
<1> HIDE DEF places, c
<1> QED
  BY <1>1, <1>2, <1>4, <1>5 DEF Behind

\* The route by which a handler of the chain was found is one of its routes in the table.
LEMMA FoundRouted ==
  ASSUME NEW steps \in Seq(Entries), NEW url, NEW method, NEW X, NEW routes, Routed(steps, X, routes)
  PROVE  LET c == Pathfind(steps, url, method) IN
         \A k \in DOMAIN c : c[k].name \in X => c[k].route \in routes
<1> DEFINE c == Pathfind(steps, url, method)
<1>1. ASSUME NEW k \in DOMAIN c, c[k].name \in X PROVE c[k].route \in routes
  <2>1. PICK i \in DOMAIN steps : c[k] = steps[i]
    BY FoundFits
  <2> HIDE DEF c
  <2> QED
    BY <1>1, <2>1 DEF Routed
<1> QED
  BY <1>1
-----------------------------------------------------------------------------
(* The parameters that parseParams reads. *)

\* Of some ways to leave out of three parts one is the greediest.
LEMMA GreedyFound ==
  ASSUME NEW ways, NEW a \in Nat, NEW b \in Nat, NEW c \in Nat, a < b, b < c, ways # {}, ways \subseteq SUBSET Nat,
         \A v \in ways : \A w \in ways : \A j \in Nat \ {a, b, c} : j \in v <=> j \in w
  PROVE  Greedy(ways) \in ways
<1> DEFINE A == {w \in ways : a \in w}
           W1 == IF A = {} THEN ways ELSE A
           B == {w \in W1 : b \in w}
           W2 == IF B = {} THEN W1 ELSE B
           C == {w \in W2 : c \in w}
           W3 == IF C = {} THEN W2 ELSE C
<1>1. W1 # {} /\ W1 \subseteq ways
  OBVIOUS
<1>2. W2 # {} /\ W2 \subseteq W1
  BY <1>1
<1>3. W3 # {} /\ W3 \subseteq W2
  BY <1>2
<1>4. PICK way \in ways : way \in W3
  BY <1>1, <1>2, <1>3
<1>5. \A w \in ways : w \in SUBSET Nat
  OBVIOUS
<1>6. ASSUME NEW other \in ways \ {way}
      PROVE  \E i \in way \ other : \A j \in 1 .. i - 1 : j \in way <=> j \in other
  <2>1. \A j \in Nat : j \notin {a, b, c} => (j \in way <=> j \in other)
    BY <1>4, <1>6
  <2>2. \A j \in Nat \ {a} : j < a => j \notin {a, b, c}
    OBVIOUS
  <2>3. \A j \in Nat \ {a, b} : j < b => j \notin {a, b, c}
    OBVIOUS
  <2>4. \A j \in Nat \ {a, b, c} : j \notin {a, b, c}
    OBVIOUS
  <2>5. \A i \in Nat : \A j \in 1 .. i - 1 : j \in Nat /\ j < i
    OBVIOUS
  <2>6. CASE ~(a \in way <=> a \in other)
    <3>1. a \in way /\ a \notin other
      BY <1>1, <1>2, <1>3, <1>4, <1>6, <2>6
    <3>2. \A j \in 1 .. a - 1 : j \in way <=> j \in other
      BY <2>1, <2>2, <2>5
    <3> QED
      BY <3>1, <3>2
  <2>7. CASE (a \in way <=> a \in other) /\ ~(b \in way <=> b \in other)
    <3>1. other \in W1
      BY <1>1, <1>2, <1>3, <1>4, <1>6, <2>7
    <3>2. b \in way /\ b \notin other
      BY <1>2, <1>3, <1>4, <2>7, <3>1
    <3>3. \A j \in 1 .. b - 1 : j \in way <=> j \in other
      BY <2>1, <2>3, <2>5, <2>7
    <3> QED
      BY <3>2, <3>3
  <2>8. CASE (a \in way <=> a \in other) /\ (b \in way <=> b \in other)
    <3>1. other \in W1 /\ other \in W2
      BY <1>1, <1>2, <1>3, <1>4, <1>6, <2>8
    <3>2. ~(c \in way <=> c \in other)
      <4>1. ASSUME c \in way <=> c \in other PROVE FALSE
        <5>1. \A j \in Nat : j \in way <=> j \in other
          BY <2>1, <2>8, <4>1
        <5>2. way \in SUBSET Nat /\ other \in SUBSET Nat
          BY <1>4, <1>5, <1>6
        <5>3. \A j : j \in way <=> j \in other
          BY <5>1, <5>2, Zenon
        <5>4. way = other
          BY <5>3, Zenon
        <5> QED
          BY <1>6, <5>4
      <4> QED
        BY <4>1
    <3>3. c \in way /\ c \notin other
      BY <1>3, <1>4, <3>1, <3>2
    <3>4. \A j \in 1 .. c - 1 : j \in way <=> j \in other
      BY <2>1, <2>4, <2>5, <2>8
    <3> QED
      BY <3>3, <3>4
  <2> QED
    BY <2>6, <2>7, <2>8
<1> QED
  <2>1. \E w \in ways : \A other \in ways \ {w} :
          \E i \in w \ other : \A j \in 1 .. i - 1 : j \in w <=> j \in other
    BY <1>6
  <2> QED
    BY <2>1, Zenon DEF Greedy

\* A route with at most three parts that may be left out, the last of them the rest that
\* parseParams appends: what is bound is a part of the URL at its rank in some way to fit.
With(route) == Append(route, Maybe(Rest("tiny_else")))
ReadFrom(route, url) ==
  \/ Ways(With(route), url) = {} /\ ParseParams(route, url) = <<>>
  \/ \E way \in Ways(With(route), url) :
       /\ DOMAIN ParseParams(route, url) = {With(route)[i].name : i \in {j \in way : With(route)[j].is # "literal"}} \ {"tiny_else"}
       /\ \A n \in DOMAIN ParseParams(route, url) :
            \E i \in way : /\ With(route)[i].is # "literal" /\ With(route)[i].name = n
                           /\ ParseParams(route, url)[n] =
                                IF With(route)[i].is = "rest" THEN SubSeq(url, Rank(way, i), Len(url))
                                                              ELSE url[Rank(way, i)]
LeavesOut(with, a, b, c) ==
  /\ a \in Nat /\ b \in Nat /\ c \in Nat /\ a < b /\ b < c
  /\ DOMAIN with \subseteq Nat /\ Optional(with) \subseteq {a, b, c}

\* parseParams reads what it binds from some way to fit the URL.
LEMMA Parsed ==
  ASSUME NEW route, NEW url, NEW a, NEW b, NEW c, LeavesOut(With(route), a, b, c)
  PROVE  ReadFrom(route, url)
<1> DEFINE with == With(route)
           ways == Ways(with, url)
           way  == Greedy(ways)
           p    == ParseParams(route, url)
           named == {i \in way : with[i].is # "literal"}
           bound == Bind(with, url, way)
<1>0. /\ a \in Nat /\ b \in Nat /\ c \in Nat /\ a < b /\ b < c
      /\ DOMAIN With(route) \subseteq Nat /\ Optional(With(route)) \subseteq {a, b, c}
  BY DEF LeavesOut
<1>1. CASE ways = {}
  BY <1>1 DEF ParseParams, With, ReadFrom
<1>2. CASE ways # {}
  <2>1. way \in ways
    <3>1. ways \subseteq SUBSET Nat /\ \A v \in ways : \A w \in ways : \A j \in Nat \ {a, b, c} : j \in v <=> j \in w
      BY <1>0 DEF Ways
    <3> HIDE DEF ways
    <3> QED
      BY <1>0, <1>2, <3>1, GreedyFound, Zenon
  <2>2. p = [n \in DOMAIN bound \ {"tiny_else"} |-> bound[n]]
    BY <1>2 DEF ParseParams, With
  <2>3. bound = [n \in {with[i].name : i \in named} |->
                   LET i == CHOOSE i \in named : with[i].name = n
                   IN IF with[i].is = "rest" THEN SubSeq(url, Rank(way, i), Len(url)) ELSE url[Rank(way, i)]]
    BY DEF Bind
  <2> HIDE DEF bound, named, p, way, ways, with
  <2>4. DOMAIN bound = {with[i].name : i \in named} /\ DOMAIN p = {with[i].name : i \in named} \ {"tiny_else"}
    BY <2>2, <2>3
  <2>5. ASSUME NEW n \in DOMAIN p
        PROVE \E i \in named : with[i].name = n /\ p[n] = (IF with[i].is = "rest" THEN SubSeq(url, Rank(way, i), Len(url))
                                                                      ELSE url[Rank(way, i)])
    <3> DEFINE i == CHOOSE i \in named : with[i].name = n
    <3>1. n \in {with[j].name : j \in named}
      BY <2>4, <2>5
    <3>2. \E j \in named : with[j].name = n
      BY <3>1
    <3>3. i \in named /\ with[i].name = n
      BY <3>2
    <3>4. p[n] = bound[n]
      BY <2>2, <2>4, <2>5
    <3>5. bound[n] = IF with[i].is = "rest" THEN SubSeq(url, Rank(way, i), Len(url)) ELSE url[Rank(way, i)]
      BY <2>3, <3>1
    <3> HIDE DEF i
    <3> QED
      BY <3>3, <3>4, <3>5
  <2>6. \A n \in DOMAIN p : \E i \in way : /\ with[i].is # "literal" /\ with[i].name = n
                                           /\ p[n] = IF with[i].is = "rest" THEN SubSeq(url, Rank(way, i), Len(url))
                                                                            ELSE url[Rank(way, i)]
    BY <2>5 DEF named
  <2>7. /\ way \in ways
        /\ DOMAIN p = {with[i].name : i \in {j \in way : with[j].is # "literal"}} \ {"tiny_else"}
        /\ \A n \in DOMAIN p : \E i \in way : /\ with[i].is # "literal" /\ with[i].name = n
                                           /\ p[n] = IF with[i].is = "rest" THEN SubSeq(url, Rank(way, i), Len(url))
                                                                            ELSE url[Rank(way, i)]
    BY <2>1, <2>4, <2>6 DEF named
  <2>8. \E w \in ways : 
        /\ DOMAIN p = {with[i].name : i \in {j \in w : with[j].is # "literal"}} \ {"tiny_else"}
        /\ \A n \in DOMAIN p : \E i \in w : /\ with[i].is # "literal" /\ with[i].name = n
                                           /\ p[n] = IF with[i].is = "rest" THEN SubSeq(url, Rank(w, i), Len(url))
                                                                            ELSE url[Rank(w, i)]
    BY <2>7, Zenon
  <2> QED
    BY <2>8, Zenon DEF p, ways, with, ReadFrom
<1> QED
  BY <1>1, <1>2

\* What a way to fit a URL begins with.
StartsWith(w, n, k, url, way) ==
  /\ way \subseteq 1 .. n /\ k <= Len(url)
  /\ \A i \in 1 .. k : i \in way /\ Rank(way, i) = i /\ Takes(w[i], url[i])
  /\ \A i \in way : Rank(way, i) \in 1 .. Len(url) /\ Takes(w[i], url[Rank(way, i)])
  /\ \A i \in way : w[i].is = "rest" => Rank(way, i) = Cardinality(way)

\* The parts at the beginning of a route that cannot be left out take those of the URL.
LEMMA WayBegins ==
  ASSUME NEW n \in Nat, NEW w, DOMAIN w = 1 .. n, NEW k \in 0 .. n, \A i \in 1 .. k : ~w[i].opt,
         NEW url \in Seq(STRING), NEW way \in Ways(w, url)
  PROVE  StartsWith(w, n, k, url, way)
<1>1. way \in SUBSET (1 .. n) /\ IsWay(w, url, way)
  BY DEF Ways
<1>2. \A i \in 1 .. k : i \in way
  BY DEF Ways, Optional
<1>3. ASSUME NEW i \in 1 .. k PROVE Rank(way, i) = i
  <2>1. 1 .. k \subseteq way /\ way \subseteq Nat \ {0} /\ k \in Nat
    BY <1>1, <1>2
  <2> QED
    BY <2>1, RanksOfAll
<1>4. \A i \in way : Takes(w[i], url[Rank(way, i)]) /\ (w[i].is = "rest" => Rank(way, i) = Cardinality(way))
  BY <1>1 DEF IsWay
<1>5. Cardinality(way) <= Len(url) /\ Cardinality(way) \in Nat
  BY <1>1, PlacesFinite DEF IsWay
<1>6. \A i \in way : Rank(way, i) \in 1 .. Cardinality(way)
  BY <1>1, RankType
<1>7. \A i \in way : Rank(way, i) \in 1 .. Len(url)
  BY <1>5, <1>6
<1>8. k <= Len(url)
  <2>1. CASE k = 0
    BY <2>1
  <2>2. CASE k # 0
    <3>1. k \in 1 .. k
      BY <2>2
    <3>2. Rank(way, k) = k /\ k \in way
      BY <1>2, <1>3, <3>1
    <3> QED
      BY <1>7, <3>2
  <2> QED
    BY <2>1, <2>2
<1> QED
  BY <1>1, <1>2, <1>3, <1>4, <1>7, <1>8 DEF StartsWith

\* The parts of the routes of the features.
LEMMA PartFields ==
  /\ \A word : /\ ~Lit(word).opt /\ Lit(word).is = "literal" /\ Lit(word).name = word
               /\ ~Par(word).opt /\ Par(word).is = "param" /\ Par(word).name = word
               /\ ~Rest(word).opt /\ Rest(word).is = "rest" /\ Rest(word).name = word
               /\ Maybe(Rest(word)).is = "rest" /\ Maybe(Rest(word)).name = word /\ Maybe(Rest(word)).opt
  /\ ~Root4.opt /\ Root4.is = "oneOf" /\ Root4.name = "root"
  /\ Maybe(Root4).is = "oneOf" /\ Maybe(Root4).name = "root"
<1>1. \A word : /\ ~Lit(word).opt /\ Lit(word).is = "literal" /\ Lit(word).name = word
               /\ ~Par(word).opt /\ Par(word).is = "param" /\ Par(word).name = word
               /\ ~Rest(word).opt /\ Rest(word).is = "rest" /\ Rest(word).name = word
               /\ Maybe(Rest(word)).is = "rest" /\ Maybe(Rest(word)).name = word /\ Maybe(Rest(word)).opt
  BY DEF Part, Lit, Par, Rest, Maybe
<1>2. /\ ~Root4.opt /\ Root4.is = "oneOf" /\ Root4.name = "root" /\ Maybe(Root4).is = "oneOf"
      /\ Maybe(Root4).name = "root"
  BY DEF Root4, OneOf, Part, Maybe
<1> QED
  BY <1>1, <1>2

\* A scope's middleware takes context and identifier from the URL's first two parts.
LEMMA ScopeParams ==
  ASSUME NEW feature \in {"db", "files"}, NEW url \in Seq(STRING),
         "context" \in DOMAIN ParseParams(ScopeRoute(feature), url),
         "identifier" \in DOMAIN ParseParams(ScopeRoute(feature), url)
  PROVE  /\ Len(url) >= 3 /\ url[1] # "" /\ url[2] # ""
         /\ ParseParams(ScopeRoute(feature), url).context = url[1]
         /\ ParseParams(ScopeRoute(feature), url).identifier = url[2]
<1> DEFINE r == ScopeRoute(feature)
           w == With(r)
           p == ParseParams(r, url)
<1>1. /\ DOMAIN w = 1 .. 4 /\ w[1] = Par("context") /\ w[2] = Par("identifier") /\ w[3] = Lit(feature)
      /\ w[4] = Maybe(Rest("tiny_else"))
  BY DEF With, ScopeRoute
<1> HIDE DEF w, r, p
<1>2. /\ ~w[1].opt /\ w[1].is = "param" /\ w[1].name = "context"
      /\ ~w[2].opt /\ w[2].is = "param" /\ w[2].name = "identifier"
      /\ ~w[3].opt /\ w[3].is = "literal"
      /\ w[4].is = "rest" /\ w[4].name = "tiny_else"
  BY <1>1, PartFields
<1>3. \A i \in 1 .. 4 : i = 1 \/ i = 2 \/ i = 3 \/ i = 4
  OBVIOUS
<1>4. \A i \in 1 .. 3 : i = 1 \/ i = 2 \/ i = 3
  OBVIOUS
<1>5. DOMAIN w \subseteq Nat /\ Optional(w) \subseteq {4, 5, 6}
  BY <1>1, <1>2, <1>3 DEF Optional
<1>6. p # <<>>
  <2>1. "context" \in DOMAIN p
    BY DEF p, r
  <2> QED
    BY <2>1
<1>7. PICK way \in Ways(w, url) :
         \A n \in DOMAIN p : \E i \in way : /\ w[i].is # "literal" /\ w[i].name = n
                                            /\ p[n] = IF w[i].is = "rest" THEN SubSeq(url, Rank(way, i), Len(url))
                                                                          ELSE url[Rank(way, i)]
  <2>1. LeavesOut(With(r), 4, 5, 6)
    BY <1>5 DEF w, LeavesOut
  <2>2. ReadFrom(r, url)
    BY <2>1, Parsed
  <2> QED
    BY <1>6, <2>2, Zenon DEF w, p, ReadFrom
<1>8. \A i \in 1 .. 3 : ~w[i].opt
  BY <1>2, <1>4
<1>9. /\ way \subseteq 1 .. 4 /\ 3 <= Len(url)
      /\ \A i \in 1 .. 3 : i \in way /\ Rank(way, i) = i /\ Takes(w[i], url[i])
  <2>1. 4 \in Nat /\ 3 \in 0 .. 4
    OBVIOUS
  <2> QED
    <3>1. StartsWith(w, 4, 3, url, way)
      BY <1>1, <1>8, <2>1, WayBegins
    <3> QED
      BY <3>1 DEF StartsWith
<1>10. 1 \in 1 .. 3 /\ 2 \in 1 .. 3
  OBVIOUS
<1>11. url[1] # "" /\ url[2] # ""
  <2>1. Takes(w[1], url[1]) /\ Takes(w[2], url[2])
    BY <1>9, <1>10
  <2> QED
    BY <1>2, <2>1 DEF Takes
<1>12. ASSUME NEW n \in {"context", "identifier"}, NEW j \in {1, 2}, w[j].name = n, n \in DOMAIN p
       PROVE  p[n] = url[j]
  <2>1. PICK i \in way : /\ w[i].is # "literal" /\ w[i].name = n
                         /\ p[n] = IF w[i].is = "rest" THEN SubSeq(url, Rank(way, i), Len(url))
                                                       ELSE url[Rank(way, i)]
    BY <1>7, <1>12
  <2>2. i = j
    BY <1>2, <1>3, <1>9, <1>12, <2>1
  <2>3. w[j].is # "rest"
    BY <1>2
  <2>4. Rank(way, j) = j
    BY <1>9, <1>10
  <2> QED
    BY <2>1, <2>2, <2>3, <2>4
<1>13. p["context"] = url[1] /\ p["identifier"] = url[2]
  <2>1. "context" \in DOMAIN p /\ "identifier" \in DOMAIN p
    BY DEF p, r
  <2> QED
    BY <1>2, <1>12, <2>1
<1> QED
  BY <1>9, <1>11, <1>13 DEF p, r

\* A sequence with one more element, and one without what comes before a place.
LEMMA AppendParts ==
  ASSUME NEW S, NEW s \in Seq(S), NEW e \in S
  PROVE  /\ DOMAIN Append(s, e) = 1 .. Len(s) + 1 /\ Append(s, e)[Len(s) + 1] = e
         /\ \A i \in 1 .. Len(s) : Append(s, e)[i] = s[i]
  OBVIOUS

\* What is left of a sequence from one of its places on.
LEMMA RestParts ==
  ASSUME NEW S, NEW s \in Seq(S), NEW k \in 1 .. Len(s)
  PROVE  SubSeq(s, k, Len(s)) \in Seq(S) /\ Len(SubSeq(s, k, Len(s))) = Len(s) - k + 1 /\ SubSeq(s, k, Len(s)) # <<>>
<1>1. SubSeq(s, k, Len(s)) \in Seq(S) /\ Len(SubSeq(s, k, Len(s))) = Len(s) - k + 1
  OBVIOUS
<1>2. Len(s) - k + 1 # 0
  OBVIOUS
<1> QED
  BY <1>1, <1>2

\* The routes of the files, part by part.
LEMMA FileRouteParts ==
  /\ LET r == ScopeRoute("files") \o PathRoute
         w == With(r)
     IN /\ DOMAIN r = 1 .. 5 /\ DOMAIN w = 1 .. 6
        /\ \A i \in 1 .. 5 : w[i] = r[i]
        /\ w[1] = Par("context") /\ w[2] = Par("identifier") /\ w[3] = Lit("files") /\ w[4] = Root4
        /\ w[5] = Rest("path") /\ w[6] = Maybe(Rest("tiny_else"))
        /\ Len(r) = 5 /\ Last(r) = Rest("path") /\ DOMAIN Front(r) = 1 .. 4 /\ \A i \in 1 .. 4 : Front(r)[i] = r[i]
  /\ LET w == With(ScopeRoute("files") \o ListRoute)
     IN /\ DOMAIN w = 1 .. 7
        /\ w[1] = Par("context") /\ w[2] = Par("identifier") /\ w[3] = Lit("files") /\ w[4] = Lit("list-files")
        /\ w[5] = Maybe(Root4) /\ w[6] = Maybe(Rest("path")) /\ w[7] = Maybe(Rest("tiny_else"))
<1> DEFINE a == Par("context")
           b == Par("identifier")
           c == Lit("files")
           d == Root4
           e == Rest("path")
           f == Maybe(Rest("tiny_else"))
           g == Lit("list-files")
           h == Maybe(Root4)
           k == Maybe(Rest("path"))
           S == {a, b, c, d, e, f, g, h, k}
           r == ScopeRoute("files") \o PathRoute
           l == ScopeRoute("files") \o ListRoute
<1>1. r = <<a, b, c>> \o <<d, e>> /\ l = <<a, b, c>> \o <<g, h, k>>
  BY DEF ScopeRoute, PathRoute, ListRoute
<1>2. With(r) = Append(r, f) /\ With(l) = Append(l, f) /\ Last(r) = r[Len(r)] /\ Front(r) = SubSeq(r, 1, Len(r) - 1)
  BY DEF With, Last, Front
<1> HIDE DEF r, l, a, b, c, d, e, f, g, h, k
<1>3. /\ r \in Seq(S) /\ Len(r) = 5 /\ r[1] = a /\ r[2] = b /\ r[3] = c /\ r[4] = d /\ r[5] = e
      /\ l \in Seq(S) /\ Len(l) = 6 /\ l[1] = a /\ l[2] = b /\ l[3] = c /\ l[4] = g /\ l[5] = h /\ l[6] = k
  <2>1. <<a, b, c>> \in Seq(S) /\ <<d, e>> \in Seq(S) /\ <<g, h, k>> \in Seq(S)
    OBVIOUS
  <2> QED
    BY <1>1, <2>1
<1>4. f \in S
  OBVIOUS
<1> DEFINE w == With(r)
           v == With(l)
<1>5. /\ w = Append(r, f) /\ DOMAIN w = 1 .. 6 /\ \A i \in 1 .. 5 : w[i] = r[i]
      /\ v = Append(l, f) /\ DOMAIN v = 1 .. 7 /\ \A i \in 1 .. 6 : v[i] = l[i]
      /\ w[6] = f /\ v[7] = f
  <2> HIDE DEF S
  <2>1. /\ w = Append(r, f) /\ DOMAIN w = 1 .. Len(r) + 1 /\ w[Len(r) + 1] = f /\ \A i \in 1 .. Len(r) : w[i] = r[i]
        /\ v = Append(l, f) /\ DOMAIN v = 1 .. Len(l) + 1 /\ v[Len(l) + 1] = f /\ \A i \in 1 .. Len(l) : v[i] = l[i]
    <3>1. r \in Seq(S) /\ l \in Seq(S)
      BY <1>3
    <3>2. /\ DOMAIN Append(r, f) = 1 .. Len(r) + 1 /\ Append(r, f)[Len(r) + 1] = f
          /\ \A i \in 1 .. Len(r) : Append(r, f)[i] = r[i]
      BY <1>4, <3>1, AppendParts
    <3>3. /\ DOMAIN Append(l, f) = 1 .. Len(l) + 1 /\ Append(l, f)[Len(l) + 1] = f
          /\ \A i \in 1 .. Len(l) : Append(l, f)[i] = l[i]
      BY <1>4, <3>1, AppendParts
    <3> QED
      BY <1>2, <3>2, <3>3, Zenon
  <2>2. Len(r) = 5 /\ Len(l) = 6 /\ 5 + 1 = 6 /\ 6 + 1 = 7
    BY <1>3
  <2> HIDE DEF w, v
  <2> QED
    BY <2>1, <2>2
<1>6. DOMAIN r = 1 .. 5 /\ Last(r) = e /\ DOMAIN Front(r) = 1 .. 4 /\ \A i \in 1 .. 4 : Front(r)[i] = r[i]
  <2> HIDE DEF S
  <2> QED
    BY <1>2, <1>3
<1> HIDE DEF w, v, S
<1>7. /\ w[1] = a /\ w[2] = b /\ w[3] = c /\ w[4] = d /\ w[5] = e
      /\ v[1] = a /\ v[2] = b /\ v[3] = c /\ v[4] = g /\ v[5] = h /\ v[6] = k
  BY <1>3, <1>5
<1> QED
  BY <1>3, <1>5, <1>6, <1>7 DEF w, v, r, l, a, b, c, d, e, f, g, h, k

\* validatePath, when a request finds it, has the root and a path of at least one part.
LEMMA PathParams ==
  ASSUME NEW url \in Seq(STRING), Matches(ScopeRoute("files") \o PathRoute, url, TRUE)
  PROVE  LET p == ParseParams(ScopeRoute("files") \o PathRoute, url) IN
         /\ Len(url) >= 5 /\ url[1] # "" /\ url[2] # ""
         /\ p.context = url[1] /\ p.identifier = url[2] /\ p.root = url[4] /\ p.path = SubSeq(url, 5, Len(url))
<1> DEFINE r == ScopeRoute("files") \o PathRoute
           w == With(r)
           p == ParseParams(r, url)
<1>1. /\ DOMAIN r = 1 .. 5 /\ DOMAIN w = 1 .. 6
      /\ \A i \in 1 .. 5 : w[i] = r[i]
      /\ w[1] = Par("context") /\ w[2] = Par("identifier") /\ w[3] = Lit("files") /\ w[4] = Root4
      /\ w[5] = Rest("path") /\ w[6] = Maybe(Rest("tiny_else"))
      /\ Len(r) = 5 /\ Last(r) = Rest("path") /\ DOMAIN Front(r) = 1 .. 4 /\ \A i \in 1 .. 4 : Front(r)[i] = r[i]
  BY FileRouteParts
<1> HIDE DEF w, r, p
<1>2. /\ ~w[1].opt /\ w[1].is = "param" /\ w[1].name = "context"
      /\ ~w[2].opt /\ w[2].is = "param" /\ w[2].name = "identifier"
      /\ ~w[3].opt /\ w[3].is = "literal"
      /\ ~w[4].opt /\ w[4].is = "oneOf" /\ w[4].name = "root"
      /\ ~w[5].opt /\ w[5].is = "rest" /\ w[5].name = "path"
      /\ w[6].is = "rest" /\ w[6].name = "tiny_else"
  BY <1>1, PartFields
<1>3. \A i \in 1 .. 6 : i = 1 \/ i = 2 \/ i = 3 \/ i = 4 \/ i = 5 \/ i = 6
  OBVIOUS
<1>4. \A i \in 1 .. 5 : ~w[i].opt
  <2>1. \A i \in 1 .. 5 : i = 1 \/ i = 2 \/ i = 3 \/ i = 4 \/ i = 5
    OBVIOUS
  <2> QED
    BY <1>2, <2>1
<1>5. LeavesOut(w, 4, 5, 6)
  BY <1>1, <1>2, <1>3 DEF LeavesOut, Optional
<1>6. Ways(r, url) # {}
  <2>1. CASE Extends(r, url)
    <3> DEFINE front == Front(r)
    <3>1. r # <<>>
      <4>1. Len(r) # Len(<<>>)
        BY <1>1
      <4> QED
        BY <4>1
    <3>2. PICK k \in 1 .. Len(url) : Ways(front, SubSeq(url, 1, k - 1)) # {}
      BY <2>1, <3>1 DEF Extends
    <3> DEFINE start == SubSeq(url, 1, k - 1)
    <3>3. start \in Seq(STRING) /\ Len(start) = k - 1 /\ \A i \in 1 .. k - 1 : start[i] = url[i]
      <4>1. k - 1 \in Nat /\ k - 1 <= Len(url)
        OBVIOUS
      <4>2. ASSUME NEW to \in Nat, to <= Len(url)
            PROVE  SubSeq(url, 1, to) \in Seq(STRING) /\ Len(SubSeq(url, 1, to)) = to /\ \A i \in 1 .. to : SubSeq(url, 1, to)[i] = url[i]
        BY <4>2
      <4> QED
        BY <4>1, <4>2
    <3>4. PICK way \in Ways(front, start) : TRUE
      BY <3>2
    <3> HIDE DEF front, start
    <3>5. StartsWith(front, 4, 4, start, way)
      <4>1. 4 \in Nat /\ 4 \in 0 .. 4 /\ DOMAIN front = 1 .. 4
        BY <1>1 DEF front
      <4>2. \A i \in 1 .. 4 : ~front[i].opt
        <5>1. \A i \in 1 .. 4 : i \in 1 .. 5 /\ front[i] = w[i]
          BY <1>1 DEF front
        <5> QED
          BY <1>4, <5>1
      <4> QED
        BY <3>3, <3>4, <4>1, <4>2, WayBegins
    <3>6. \A i \in 1 .. 4 : front[i] = r[i] /\ w[i] = r[i] /\ w[i].is # "rest"
      <4>1. \A i \in 1 .. 4 : front[i] = r[i] /\ w[i] = r[i]
        BY <1>1 DEF front
      <4>2. \A i \in 1 .. 4 : i = 1 \/ i = 2 \/ i = 3 \/ i = 4
        OBVIOUS
      <4> QED
        BY <1>2, <4>1, <4>2
    <3>7. way = 1 .. 4
      BY <3>5 DEF StartsWith
    <3>8. Len(start) = 4
      <4>1. IsWay(front, start, way)
        BY <3>4 DEF Ways
      <4>2. Cardinality(way) = 4
        <5>1. 1 \in Int /\ 4 \in Int
          OBVIOUS
        <5>2. Cardinality(1 .. 4) = IF 1 > 4 THEN 0 ELSE 4 - 1 + 1
          BY <5>1, FS_Interval
        <5> QED
          BY <3>7, <5>2
      <4> QED
        BY <3>6, <3>7, <4>1, <4>2 DEF IsWay
    <3>9. Len(url) >= 5 /\ \A i \in 1 .. 4 : start[i] = url[i]
      <4>1. k = 5
        <5>1. k \in Int
          OBVIOUS
        <5>2. k - 1 = 4
          BY <3>3, <3>8, Zenon
        <5> QED
          BY <5>1, <5>2
      <4>2. \A i \in 1 .. 5 - 1 : start[i] = url[i]
        BY <3>3, <4>1
      <4>3. 5 - 1 = 4
        OBVIOUS
      <4>4. Len(url) \in Nat /\ k <= Len(url)
        OBVIOUS
      <4> QED
        BY <4>1, <4>2, <4>3, <4>4
    <3>10. \A i \in 1 .. 4 : Takes(r[i], url[i])
      BY <3>5, <3>6, <3>9 DEF StartsWith
    <3>11. IsWay(r, url, 1 .. 5)
      <4>1. Cardinality(1 .. 5) = 5
        <5>1. 1 \in Int /\ 5 \in Int
          OBVIOUS
        <5>2. Cardinality(1 .. 5) = IF 1 > 5 THEN 0 ELSE 5 - 1 + 1
          BY <5>1, FS_Interval
        <5> QED
          BY <5>2
      <4>2. ASSUME NEW i \in 1 .. 5 PROVE Rank(1 .. 5, i) = i
        <5>1. 5 \in Nat /\ 1 .. 5 \subseteq 1 .. 5 /\ 1 .. 5 \subseteq Nat \ {0}
          OBVIOUS
        <5> QED
          BY <5>1, RanksOfAll
      <4>3. r[5].is = "rest"
        BY <1>1, <1>2
      <4>4. Takes(r[5], url[5])
        BY <4>3 DEF Takes
      <4>5. \A i \in 1 .. 5 : i \in 1 .. 4 \/ i = 5
        OBVIOUS
      <4>6. \A i \in 1 .. 5 : Takes(r[i], url[Rank(1 .. 5, i)])
        BY <3>10, <4>2, <4>4, <4>5
      <4>7. \A i \in 1 .. 5 : r[i].is = "rest" => Rank(1 .. 5, i) = Cardinality(1 .. 5)
        <5>1. \A i \in 1 .. 4 : r[i].is # "rest"
          BY <3>6
        <5> QED
          BY <4>1, <4>2, <4>5, <5>1
      <4>8. 5 <= Len(url) /\ 5 \in 1 .. 5
        BY <3>9
      <4>9. \A i \in 1 .. 5 : r[i].is = "rest" => r[i].of = {}
        <5>1. \A i \in 1 .. 4 : r[i].is # "rest"
          BY <3>6
        <5>2. r[5].of = {}
          BY <1>1 DEF Rest, Part
        <5> QED
          BY <4>5, <5>1, <5>2
      <4> QED
        BY <4>1, <4>3, <4>6, <4>7, <4>8, <4>9 DEF IsWay
    <3> QED
      <4>1. 1 .. 5 = DOMAIN r \ {}
        BY <1>1
      <4> QED
        BY <3>11, <4>1 DEF Ways
  <2> QED
    BY <2>1 DEF Matches, r
<1>7. Ways(w, url) # {}
  <2>1. PICK way \in Ways(r, url) : TRUE
    BY <1>6
  <2>2. StartsWith(r, 5, 5, url, way)
    <3>1. 5 \in Nat /\ 5 \in 0 .. 5
      OBVIOUS
    <3>2. \A i \in 1 .. 5 : ~r[i].opt
      BY <1>1, <1>4
    <3> QED
      BY <1>1, <2>1, <3>1, <3>2, WayBegins
  <2>3. way = 1 .. 5
    BY <2>2 DEF StartsWith
  <2>4. IsWay(r, url, 1 .. 5)
    BY <2>1, <2>3 DEF Ways
  <2>5. IsWay(w, url, 1 .. 5)
    BY <1>1, <2>4, Zenon DEF IsWay
  <2>6. 1 .. 5 = DOMAIN w \ {6} /\ {6} \in SUBSET Optional(w)
    <3>1. w[6].opt
      BY <1>1, PartFields
    <3> QED
      BY <1>1, <3>1 DEF Optional
  <2> QED
    BY <2>5, <2>6 DEF Ways
<1>8. ReadFrom(r, url)
  BY <1>5, Parsed DEF w
<1>9. PICK way \in Ways(w, url) :
       /\ DOMAIN p = {w[i].name : i \in {j \in way : w[j].is # "literal"}} \ {"tiny_else"}
       /\ \A n \in DOMAIN p : \E i \in way : /\ w[i].is # "literal" /\ w[i].name = n
                                            /\ p[n] = IF w[i].is = "rest" THEN SubSeq(url, Rank(way, i), Len(url))
                                                                          ELSE url[Rank(way, i)]
  BY <1>7, <1>8, Zenon DEF w, p, ReadFrom
<1>10. StartsWith(w, 6, 5, url, way)
  <2>1. 6 \in Nat /\ 5 \in 0 .. 6
    OBVIOUS
  <2> QED
    BY <1>1, <1>4, <2>1, WayBegins
<1>11. /\ 1 \in way /\ 2 \in way /\ 4 \in way /\ 5 \in way /\ way \subseteq 1 .. 6 /\ 5 <= Len(url)
       /\ Rank(way, 1) = 1 /\ Rank(way, 2) = 2 /\ Rank(way, 4) = 4 /\ Rank(way, 5) = 5
       /\ Takes(w[1], url[1]) /\ Takes(w[2], url[2])
  <2>1. 1 \in 1 .. 5 /\ 2 \in 1 .. 5 /\ 4 \in 1 .. 5 /\ 5 \in 1 .. 5
    OBVIOUS
  <2> QED
    BY <1>10, <2>1 DEF StartsWith
<1>12. url[1] # "" /\ url[2] # ""
  <2>1. Takes(w[1], url[1]) /\ Takes(w[2], url[2]) /\ w[1].is = "param" /\ w[2].is = "param"
    BY <1>2, <1>11
  <2> QED
    BY <2>1 DEF Takes
<1>13. "context" \in DOMAIN p /\ "identifier" \in DOMAIN p /\ "root" \in DOMAIN p /\ "path" \in DOMAIN p
  <2>1. /\ 1 \in {j \in way : w[j].is # "literal"} /\ 2 \in {j \in way : w[j].is # "literal"}
        /\ 4 \in {j \in way : w[j].is # "literal"} /\ 5 \in {j \in way : w[j].is # "literal"}
    BY <1>2, <1>11
  <2>2. w[1].name \in DOMAIN p /\ w[2].name \in DOMAIN p /\ w[4].name \in DOMAIN p /\ w[5].name \in DOMAIN p
    BY <1>2, <1>9, <2>1
  <2> QED
    BY <1>2, <2>2
<1>14. ASSUME NEW n \in DOMAIN p, NEW j \in {1, 2, 4, 5}, w[j].name = n
       PROVE  p[n] = IF w[j].is = "rest" THEN SubSeq(url, Rank(way, j), Len(url)) ELSE url[Rank(way, j)]
  <2>1. PICK i \in way : /\ w[i].is # "literal" /\ w[i].name = n
                         /\ p[n] = IF w[i].is = "rest" THEN SubSeq(url, Rank(way, i), Len(url))
                                                       ELSE url[Rank(way, i)]
    BY <1>9, <1>14
  <2>2. i = j
    BY <1>2, <1>3, <1>11, <1>14, <2>1
  <2> QED
    BY <2>1, <2>2
<1>15. /\ p["context"] = url[1] /\ p["identifier"] = url[2] /\ p["root"] = url[4]
       /\ p["path"] = SubSeq(url, 5, Len(url))
  BY <1>2, <1>11, <1>13, <1>14
<1>16. Len(url) >= 5
  BY <1>11
<1>17. p.context = url[1] /\ p.identifier = url[2] /\ p.root = url[4] /\ p.path = SubSeq(url, 5, Len(url))
  BY <1>15
<1> QED
  BY <1>12, <1>16, <1>17, Zenon DEF p, r

\* listFiles has a path of at least one part, if any.
LEMMA ListParams ==
  ASSUME NEW url \in Seq(STRING), "path" \in DOMAIN ParseParams(ScopeRoute("files") \o ListRoute, url)
  PROVE  LET p == ParseParams(ScopeRoute("files") \o ListRoute, url) IN p.path \in Seq(STRING) /\ p.path # <<>>
<1> DEFINE r == ScopeRoute("files") \o ListRoute
           w == With(r)
           p == ParseParams(r, url)
<1>1. /\ DOMAIN w = 1 .. 7
      /\ w[1] = Par("context") /\ w[2] = Par("identifier") /\ w[3] = Lit("files") /\ w[4] = Lit("list-files")
      /\ w[5] = Maybe(Root4) /\ w[6] = Maybe(Rest("path")) /\ w[7] = Maybe(Rest("tiny_else"))
  BY FileRouteParts
<1>2. "path" \in DOMAIN p
  OBVIOUS
<1> HIDE DEF w, r, p
<1>3. /\ ~w[1].opt /\ w[1].is = "param" /\ w[1].name = "context"
      /\ ~w[2].opt /\ w[2].is = "param" /\ w[2].name = "identifier"
      /\ ~w[3].opt /\ w[3].is = "literal"
      /\ ~w[4].opt /\ w[4].is = "literal"
      /\ w[5].is = "oneOf" /\ w[5].name = "root"
      /\ w[6].is = "rest" /\ w[6].name = "path"
      /\ w[7].is = "rest" /\ w[7].name = "tiny_else"
  BY <1>1, PartFields
<1>4. \A i \in 1 .. 7 : i = 1 \/ i = 2 \/ i = 3 \/ i = 4 \/ i = 5 \/ i = 6 \/ i = 7
  OBVIOUS
<1>5. LeavesOut(w, 5, 6, 7)
  BY <1>1, <1>3, <1>4 DEF LeavesOut, Optional
<1>6. ReadFrom(r, url)
  BY <1>5, Parsed DEF w
<1>7. PICK way \in Ways(w, url) :
         \A n \in DOMAIN p : \E i \in way : /\ w[i].is # "literal" /\ w[i].name = n
                                            /\ p[n] = IF w[i].is = "rest" THEN SubSeq(url, Rank(way, i), Len(url))
                                                                          ELSE url[Rank(way, i)]
  <2>1. p # <<>>
    BY <1>2
  <2> QED
    BY <1>6, <2>1, Zenon DEF w, p, ReadFrom
<1>8. StartsWith(w, 7, 0, url, way)
  <2>1. 7 \in Nat /\ 0 \in 0 .. 7 /\ \A i \in 1 .. 0 : ~w[i].opt
    OBVIOUS
  <2> QED
    BY <1>1, <2>1, WayBegins
<1>9. PICK i \in way : /\ w[i].is # "literal" /\ w[i].name = "path"
                       /\ p["path"] = IF w[i].is = "rest" THEN SubSeq(url, Rank(way, i), Len(url))
                                                          ELSE url[Rank(way, i)]
  BY <1>2, <1>7
<1>10. i = 6
  BY <1>3, <1>4, <1>8, <1>9 DEF StartsWith
<1>11. Rank(way, 6) \in 1 .. Len(url)
  BY <1>8, <1>9, <1>10 DEF StartsWith
<1> DEFINE k == Rank(way, 6)
<1>12. p["path"] = SubSeq(url, k, Len(url))
  BY <1>3, <1>9, <1>10
<1> HIDE DEF k
<1>13. SubSeq(url, k, Len(url)) \in Seq(STRING) /\ SubSeq(url, k, Len(url)) # <<>>
  <2>1. k \in 1 .. Len(url)
    BY <1>11 DEF k
  <2> QED
    BY <2>1, RestParts
<1> QED
  BY <1>12, <1>13 DEF p, r

\* listFiles is found only for a URL whose fourth part says so.
LEMMA ListedUrl ==
  ASSUME NEW url \in Seq(STRING), Matches(ScopeRoute("files") \o ListRoute, url, TRUE)
  PROVE  Len(url) >= 4 /\ url[4] = "list-files"
<1> DEFINE a == Par("context")
           b == Par("identifier")
           c == Lit("files")
           d == Lit("list-files")
           e == Maybe(Root4)
           f == Maybe(Rest("path"))
           S == {a, b, c, d, e, f}
           r == ScopeRoute("files") \o ListRoute
           front == Front(r)
<1>1. r = <<a, b, c>> \o <<d, e, f>> /\ front = SubSeq(r, 1, Len(r) - 1)
  BY DEF ScopeRoute, ListRoute, Front
<1>2. ~a.opt /\ ~b.opt /\ ~c.opt /\ ~d.opt /\ d.is = "literal" /\ d.name = "list-files"
  BY PartFields
<1> HIDE DEF r, a, b, c, d, e, f, front
<1>3. r \in Seq(S) /\ Len(r) = 6 /\ r[1] = a /\ r[2] = b /\ r[3] = c /\ r[4] = d
  <2>1. <<a, b, c>> \in Seq(S) /\ <<d, e, f>> \in Seq(S)
    OBVIOUS
  <2> QED
    BY <1>1, <2>1
<1>4. DOMAIN r = 1 .. 6 /\ DOMAIN front = 1 .. 5 /\ \A i \in 1 .. 5 : front[i] = r[i]
  <2> HIDE DEF S
  <2> QED
    BY <1>1, <1>3
<1>5. \A i \in 1 .. 4 : i = 1 \/ i = 2 \/ i = 3 \/ i = 4
  OBVIOUS
<1>6. ASSUME NEW n \in {5, 6}, NEW w, DOMAIN w = 1 .. n, \A i \in 1 .. 4 : w[i] = r[i],
             NEW u \in Seq(STRING), Ways(w, u) # {}
      PROVE  Len(u) >= 4 /\ u[4] = "list-files"
  <2>1. PICK way \in Ways(w, u) : TRUE
    BY <1>6
  <2>2. \A i \in 1 .. 4 : ~w[i].opt
    BY <1>2, <1>3, <1>5, <1>6
  <2>3. n \in Nat /\ 4 \in 0 .. n /\ 4 \in 1 .. 4
    OBVIOUS
  <2>4. StartsWith(w, n, 4, u, way)
    BY <1>6, <2>1, <2>2, <2>3, WayBegins
  <2>5. 4 <= Len(u) /\ Takes(w[4], u[4])
    BY <2>3, <2>4 DEF StartsWith
  <2>6. w[4] = d
    BY <1>3, <1>6, <2>3
  <2>7. u[4] = "list-files"
    BY <1>2, <2>5, <2>6 DEF Takes
  <2> QED
    BY <2>5, <2>7
<1>7. CASE Ways(r, url) # {}
  <2>1. 6 \in {5, 6} /\ \A i \in 1 .. 4 : r[i] = r[i]
    OBVIOUS
  <2> QED
    BY <1>4, <1>6, <1>7, <2>1
<1>8. CASE Ways(r, url) = {}
  <2>1. r # <<>>
    <3>1. ASSUME NEW T, NEW s \in Seq(T), Len(s) = 6 PROVE s # <<>>
      BY <3>1
    <3> HIDE DEF S
    <3> QED
      BY <1>3, <3>1
  <2>2. PICK k \in 1 .. Len(url) : Ways(front, SubSeq(url, 1, k - 1)) # {}
    BY <1>8, <2>1 DEF Matches, Extends, r, front
  <2> DEFINE start == SubSeq(url, 1, k - 1)
  <2>3. start \in Seq(STRING) /\ Len(start) = k - 1 /\ \A i \in 1 .. k - 1 : start[i] = url[i]
    OBVIOUS
  <2>4. Ways(front, start) # {}
    BY <2>2
  <2> HIDE DEF start
  <2>5. 5 \in {5, 6} /\ \A i \in 1 .. 4 : front[i] = r[i]
    BY <1>4
  <2>6. Len(start) >= 4 /\ start[4] = "list-files"
    BY <1>4, <1>6, <2>3, <2>4, <2>5
  <2>7. Len(url) \in Nat
    OBVIOUS
  <2> QED
    BY <2>3, <2>6, <2>7
<1> QED
  BY <1>7, <1>8
=============================================================================
