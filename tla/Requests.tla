------------------------------ MODULE Requests ------------------------------
(***************************************************************************)
(* A request's way through a Tiny node: the routes of the Core, Auth, Db,  *)
(* File, Gaia and WebFinger APIs, wired together as in the examples, and   *)
(* what their handlers do with it: which session they take it for, whose   *)
(* files and keys they reach, what they answer and who answers an error.   *)
(* What then happens to accounts, handshakes, tables and files is the      *)
(* subject of the other modules; here it succeeds or fails.                *)
(*                                                                         *)
(* Nothing that a handler keeps between two requests decides where the     *)
(* next one goes, so that one request at a time shows all of it.           *)
(***************************************************************************)
EXTENDS Router, FileAccess, Query

CONSTANTS
  Username,   \* of each user id
  Sent,       \* the requests: url, method, token (a session or Nothing), asks (the
              \* names in its ?query, and what it accepts), body
  Rows        \* what the searched table holds

ASSUME RequestsAssumption == Nothing = NoSession /\ Nothing \notin DOMAIN Username /\ Nothing \notin STRING
\* A session names its user, context and identifier (auth-api.ts:328, :407, :469).
ASSUME SentAssumption ==
  \A s \in Sent :
    /\ s.url \in Seq(STRING)
    /\ s.token # Nothing => /\ s.token.user \in DOMAIN Username \ {""}
                            /\ {s.token.context, s.token.identifier} \subseteq STRING \ {""}
ASSUME BeginsAssumption == <<"sessions", "sessions">> \in Begins

VARIABLES
  effect,     \* what the last handler did to files, keys or tables
  fingers     \* the keys of the webfinger store

vars == <<routerVars, effect, fingers>>

NoEffect == [op |-> "none", on |-> {}, found |-> {}]
Quietly == UNCHANGED <<effect, fingers>>
Did(op, on) == effect' = [NoEffect EXCEPT !.op = op, !.on = on] /\ UNCHANGED fingers
Field(f, name, default) == IF name \in DOMAIN f THEN f[name] ELSE default
-----------------------------------------------------------------------------
(* Routes. *)

CoreRoutes ==
  << On("GET", <<Lit("type")>>, "type"),
     On("GET", <<Lit("self")>>, "get-self"),
     On("GET", <<Lit("self")>>, "optionalUser"), On("GET", <<Lit("self")>>, "self"),
     On("DELETE", <<Lit("self")>>, "delete-self"),
     On("DELETE", <<Lit("self")>>, "requireUser"), On("DELETE", <<Lit("self")>>, "deleteSelf") >>

HandshakeRoutes ==
  << Use(<<>>, "auth-handshake"),
     On("GET", <<Lit("start")>>, "startHandshake"),
     On("POST", <<Lit("complete")>>, "completeHandshake"),
     Use(<<Par("id")>>, "requireUser"), Use(<<Par("id")>>, "testHandshake"),
     On("GET", <<Par("id")>>, "viewHandshake"),
     On("GET", <<Par("id"), Lit("approve")>>, "approveHandshake"),
     On("GET", <<Par("id"), Lit("cancel")>>, "cancelHandshake") >>

\* findKey lets nobody through to the two routes behind it.
MasterKeyRoutes ==
  << Use(<<>>, "auth-master-key"),
     On("POST", <<Par("id"), Lit("generate-session")>>, "generateSession"),
     Use(<<>>, "requireUser"), Use(<<>>, "mustBeUser"),
     On("GET", <<>>, "getMasterKeys"),
     On("POST", <<>>, "addMasterKey"),
     Use(<<Par("id")>>, "findMasterKey"),
     On("PUT", <<Par("id")>>, "updateMasterKey"),
     On("DELETE", <<Par("id")>>, "deleteMasterKey") >>

OnlyForGet ==   \* (a bug the code avoids)
  << On("GET", <<Lit("sessions")>>, "requireUser"), On("GET", <<Lit("sessions")>>, "mustBeUser") >>
SessionsMiddleware ==
  << Use(<<Lit("sessions")>>, "requireUser"), Use(<<Lit("sessions")>>, "mustBeUser") >>
SessionsRoutes ==
  SessionsMiddleware
    \o << On("GET", <<Lit("sessions")>>, "sessions"),
          On("DELETE", <<Lit("sessions"), Par("id")>>, "deleteSession"),
          On("DELETE", <<Lit("sessions")>>, "deleteSessions") >>
AccountRoutes ==
  << Use(<<>>, "Auth"),
     On("POST", <<Lit("login")>>, "login"),
     On("POST", <<Lit("register")>>, "register"),
     On("GET", <<Lit("can-register")>>, "canRegister"),
     On("POST", <<Lit("change-pass")>>, "requireUser"), On("POST", <<Lit("change-pass")>>, "changePass") >>
LeavingRoutes ==
  << On("POST", <<Lit("logout")>>, "requireUser"), On("POST", <<Lit("logout")>>, "logout"),
     On("GET", <<Lit("refresh")>>, "requireUser"), On("GET", <<Lit("refresh")>>, "refresh") >>
AuthRoutes ==
  AccountRoutes \o SessionsRoutes \o LeavingRoutes
    \o Mount(<<Lit("handshake")>>, HandshakeRoutes) \o Mount(<<Lit("master-key")>>, MasterKeyRoutes)

StoreRoutes ==
  << Use(<<>>, "key-value-store"),
     On("GET", <<Par("key")>>, "keyValueGet"),
     On("POST", <<>>, "keyValueAdd"),
     On("PUT", <<Par("key")>>, "keyValuePut"),
     On("DELETE", <<Par("key")>>, "keyValueDel") >>
KeyValueRoutes ==
  <<Use(<<>>, "key-value")>> \o Mount(<<Lit("store")>>, StoreRoutes)
    \o <<On("POST", <<Lit("search")>>, "keyValueSearch"), On("POST", <<Lit("batch")>>, "keyValueBatch")>>

TableRoutes ==
  << Use(<<>>, "dynamic-tables"),
     On("GET", <<Maybe(Par("name"))>>, "dynGetTable"),
     On("POST", <<>>, "dynRegisterTables"),
     On("PUT", <<Par("name")>>, "dynReplaceTable"),
     On("DELETE", <<Par("name")>>, "dynDropTable"),
     On("DELETE", <<>>, "dynDropAll") >>
DynamicRoutes ==
  <<Use(<<>>, "dynamic")>> \o Mount(<<Lit("tables")>>, TableRoutes) \o <<Use(<<Lit("graphql")>>, "graphql")>>

DbRoutes ==
  <<Use(<<>>, "Db")>> \o Mount(<<Lit("key-value")>>, KeyValueRoutes) \o Mount(<<Lit("dynamic")>>, DynamicRoutes)

Root4 == OneOf("root", {Roots[i] : i \in DOMAIN Roots})
PathRoute == <<Root4, Rest("path")>>
PathRoutes ==
  <<Use(<<>>, "validatePath"), On("GET", <<>>, "readFile"), On("PUT", <<>>, "writeFile"), On("DELETE", <<>>, "deleteFile")>>
FileRoutes ==
  <<Use(PathRoute, "file-store")>> \o Mount(PathRoute, PathRoutes)
    \o << On("GET", <<Lit("list-files"), Maybe(Root4), Maybe(Rest("path"))>>, "listFiles"),
          On("GET", <<Lit("storage-stats")>>, "storageStats"),
          On("POST", <<Lit("batch-info")>>, "batchInfo") >>

\* gaiaToken lets nobody through to the routes that are left out here.
GaiaRoutes ==
  << Use(<<>>, "gaia"),
     On("HEAD", <<Lit("read"), Par("address"), Filled("path")>>, "gaiaHead"),
     On("GET", <<Lit("read"), Par("address"), Filled("path")>>, "gaiaRead"),
     On("GET", <<Lit("hub_info")>>, "hubInfo"),
     Use(<<>>, "gaiaToken") >>

WebFinger == <<Lit(".well-known"), Lit("webfinger")>>
WebFingerRoutes ==
  <<Use(WebFinger, "WebFinger"), On("PUT", WebFinger, "requireUser"), On("PUT", WebFinger, "storeInfo"),
    On("GET", WebFinger, "getInfo")>>

ScopeRoute(feature) == <<Par("context"), Par("identifier"), Lit(feature)>>
Scoped(feature, routes) ==
  <<Use(ScopeRoute(feature), "optionalUser"), Use(ScopeRoute(feature), "contextIdentifier")>>
    \o Mount(ScopeRoute(feature), routes)
App ==
  <<Use(<<>>, "log")>> \o CoreRoutes \o Mount(<<Lit("auth")>>, AuthRoutes)
    \o Scoped("db", DbRoutes) \o Scoped("files", FileRoutes)
    \o Mount(<<Lit("gaia")>>, GaiaRoutes) \o Mount(<<>>, WebFingerRoutes)
    \o << On("GET", <<Lit("dump"), Lit("dyn"), Maybe(Par("table")), Maybe(Par("key"))>>, "dump"),
          On("GET", <<Lit("dump"), Lit("key-value"), Maybe(Par("key"))>>, "dump"),
          Use(<<>>, "log") >>

\* The bodies, as far as the handlers they are meant for take them.
Meant(s, name) == \E i \in DOMAIN App : App[i].name = name /\ Fits(App[i], s.url, s.method)
ASSUME BodiesAssumption ==
  /\ \A row \in Rows : row \in [DOMAIN row -> Cells]
  /\ \A s \in Sent :
       /\ s.body # Nothing /\ Meant(s, "graphql") => \A row \in Rows : s.body \in Queries(row)
       /\ Meant(s, "batchInfo") => s.body \subseteq Seq(STRING) \ {<<>>}
-----------------------------------------------------------------------------
(* The handlers. *)

\* The two loggers and handleError's guards go on to the next one.
Log == Turn("log") /\ Pass(req) /\ Quietly
Guard == (\E name \in Guards : Turn(name)) /\ Pass(req) /\ Quietly

\* validateUserSession: a token stands here for what it names and proves.
WithSession(token) ==
  [req EXCEPT !.session = token, !.user = IF token = Nothing THEN Nothing ELSE token.user]
RequireUser ==
  /\ Turn("requireUser")
  /\ IF req.token = Nothing THEN Answer(403) ELSE Pass(WithSession(req.token))
  /\ Quietly
OptionalUser == Turn("optionalUser") /\ Pass(WithSession(req.token)) /\ Quietly

\* makeContextIdentifierValidator, with the example's way to find the user.
NotResolved(name, session, field) == name   \* (a bug the code avoids)
Resolved(name, session, field) == IF name = "~" THEN session[field] ELSE name
UserOf(context, identifier) ==
  LET ids == {id \in DOMAIN Username : context # "secure" /\ Username[id] = identifier}
  IN IF ids = {} THEN Nothing ELSE CHOOSE id \in ids : TRUE
ContextIdentifier ==
  /\ Turn("contextIdentifier")
  /\ IF ~({"context", "identifier"} \subseteq DOMAIN Params)
        \/ ("~" \in {Params.context, Params.identifier} /\ req.session = Nothing)
     THEN Throw(400)
     ELSE LET context    == Resolved(Params.context, req.session, "context")
              identifier == Resolved(Params.identifier, req.session, "identifier")
          IN Pass([req EXCEPT !.context = [NoContext EXCEPT !.context = context, !.identifier = identifier,
                                                            !.user = UserOf(context, identifier)]])
  /\ Quietly

\* What the endpoints that need nothing of the request but its session end with.
Answers ==
  [type |-> {200}, self |-> {200}, deleteSelf |-> {204, 400, 403},
   login |-> {200, 400, 401}, register |-> {204, 400, 403}, canRegister |-> {204, 403},
   changePass |-> {204, 400, 403}, sessions |-> {200}, deleteSession |-> {204, 404},
   deleteSessions |-> {500}, logout |-> {204}, refresh |-> {200},
   startHandshake |-> {302, 400, 403}, completeHandshake |-> {200, 400, 403, 404},
   viewHandshake |-> {200}, approveHandshake |-> {302}, cancelHandshake |-> {302},
   generateSession |-> {200, 400, 404}, getMasterKeys |-> {200}, addMasterKey |-> {200},
   findMasterKey |-> {404}, gaiaHead |-> {204, 404}, gaiaRead |-> {404, 500},
   hubInfo |-> {200}, gaiaToken |-> {400, 403}]
UserOnly == [changePass |-> {403}, deleteSelf |-> {400, 403}]
End(status) == IF status < 400 THEN Answer(status) ELSE Throw(status)
Endpoint ==
  \E name \in DOMAIN Answers :
    /\ Turn(name)
    /\ \E status \in Answers[name] :
         /\ name \in DOMAIN UserOnly /\ req.session.context # "user" => status \in UserOnly[name]
         /\ End(status)
    /\ Did(name, {})

\* The dumps ask for no session, and give what the URL names of all that there is.
Dump ==
  /\ Turn("dump")
  /\ Did("dump", {<<Field(Params, "table", ""), Field(Params, "key", "")>>})
  /\ Answer(200)

\* The middlewares that keep the sessions of apps out; the one of handshakes awaits.
MustBeUser ==
  /\ Turn("mustBeUser")
  /\ IF req.session.context = "user" THEN Pass(req) ELSE Throw(403)
  /\ Quietly
TestHandshake ==
  /\ Turn("testHandshake")
  /\ IF req.session.context = "user"
     THEN Pass(req) \/ Throw(403) \/ Throw(404)
     ELSE Throw(403)
  /\ Quietly
-----------------------------------------------------------------------------
(* The database. *)

ParseScope(context, identifier) ==
  IF context = "user" THEN "" ELSE IF context = "secure" THEN identifier ELSE context

DbOps ==
  [keyValueGet |-> "get", keyValueAdd |-> "add", keyValuePut |-> "put", keyValueDel |-> "del",
   keyValueSearch |-> "search", keyValueBatch |-> "batch",
   dynGetTable |-> "schema", dynRegisterTables |-> "register", dynReplaceTable |-> "register",
   dynDropTable |-> "drop", dynDropAll |-> "drop"]
\* The keys or tables that a call names: in its route, in its body, or none ("").
Keys(name) ==
  CASE name = "keyValueBatch"     -> req.body
    [] name = "keyValueAdd"       -> {"new"}
    [] name = "dynRegisterTables" -> req.body
    [] OTHER -> {Field(Params, "key", Field(Params, "name", ""))}
\* What is asked of the database, in three words: the session's user, the scope of the
\* request and the key.  The name that it joins of them, and what else begins like that
\* name, is the subject of TinyDb.
OnDb(op, keys, found) ==
  LET scope == ParseScope(req.context.context, req.context.identifier) IN
  IF req.user = Nothing
  THEN Throw(500) /\ Quietly
  ELSE /\ effect' = [op |-> op, on |-> {<<req.user, scope, k>> : k \in keys}, found |-> found]
       /\ UNCHANGED fingers
       /\ Answer(200) \/ Throw(400)
DbCall == \E name \in DOMAIN DbOps : Turn(name) /\ OnDb(DbOps[name], Keys(name), {})

\* digestGraphQL answers itself what is no query, and the browser's request for a page.
Digested ==
  IF "other" \in req.asks THEN 406
  ELSE IF req.method \notin {"GET", "PUT", "POST", "PATCH"} THEN 405
  ELSE IF "html" \in req.asks THEN IF req.method = "GET" THEN 200 ELSE 406
  ELSE IF req.body = Nothing THEN 400
  ELSE 0
GraphQL ==
  /\ Turn("graphql")
  /\ IF Digested # 0
     THEN Answer(Digested) /\ Quietly
     ELSE OnDb("query", {""}, Selected(Rows, CompileQuery(req.body)))
-----------------------------------------------------------------------------
(* The files. *)

Validated(root, path) ==
  ValidatePath([context |-> req.context.context, identifier |-> req.context.identifier,
                root |-> root, path |-> path], req.context.user, req.session)

\* The middleware takes context and identifier as the URL has them.
ValidatePathOf ==
  /\ Turn("validatePath")
  /\ IF req.context.user = Nothing
     THEN Throw(500)
     ELSE LET valid == ValidatePath(Params, req.context.user, req.session) IN
          IF valid = No THEN Throw(403)
          ELSE Pass([req EXCEPT !.context.path = valid.path, !.context.perm = valid.perm])
  /\ Quietly

ReadFile ==
  /\ Turn("readFile")
  /\ Did(IF "info" \in req.query THEN "info" ELSE "read", {req.context.path})
  /\ Answer(200) \/ Throw(404)
Change(name, op) ==
  /\ Turn(name)
  /\ IF req.context.perm # "write"
     THEN Throw(403) /\ Quietly
     ELSE Did(op, {req.context.path}) /\ (Answer(204) \/ Throw(500))
WriteFile  == Change("writeFile", "write")
DeleteFile == Change("deleteFile", "delete")

\* Both branches of list() give the advanced form: without ?advance, the plain one
\* is taken for what it is not.
ListFiles ==
  /\ Turn("listFiles")
  /\ IF req.context.user = Nothing
     THEN Throw(500) /\ Quietly
     ELSE LET valid == Validated(Field(Params, "root", "none"), Field(Params, "path", <<"">>)) IN
          IF valid.perm # "write"
          THEN Throw(403) /\ Quietly
          ELSE /\ Did("list", {valid.path})
               /\ IF "advance" \in req.query THEN Answer(200) ELSE Throw(500)

\* The store is given the user instead of an id.
StorageStats ==
  /\ Turn("storageStats") /\ Quietly
  /\ IF req.user = Nothing THEN Answer(200) ELSE Throw(500)

BatchInfo ==
  /\ Turn("batchInfo")
  /\ IF req.context.user = Nothing /\ req.body # {}
     THEN Throw(500) /\ Quietly
     ELSE LET batched   == {Batched(path, Begins) : path \in req.body}
              validated == {Validated(b.root, b.path) : b \in batched} \ {No}
          IN Did("info", {v.path : v \in validated}) /\ Answer(200)
-----------------------------------------------------------------------------
(* WebFinger. *)

\* It stores under the user's id ...
Stored(session) == fingers \cup {<<session.user, session.context>>}
StoreInfo ==
  /\ Turn("storeInfo")
  /\ \/ Throw(400) /\ Quietly
     \/ /\ fingers' = Stored(req.session)
        /\ effect' = [NoEffect EXCEPT !.op = "storeInfo"]
        /\ Answer(204)

\* ... and looks up under the user's name.  A resource is [identifier, context], the
\* context "remote" when its domain is another node's; Nothing is a malformed one.
Found(context, identifier) ==
  /\ UserOf(context, identifier) # Nothing
  /\ context = "root" \/ <<identifier, context>> \in fingers
GetInfo ==
  /\ Turn("getInfo") /\ Quietly
  /\ LET resource == req.body IN
     \/ resource = Nothing /\ Throw(400)
     \/ /\ resource # Nothing
        /\ IF resource.context = "remote" THEN Answer(302)
           ELSE IF Found(resource.context, resource.identifier) THEN Answer(200) ELSE Throw(404)
\* Which handlers are whose, and which of them are async.
Handlers ==
  DOMAIN Answers \cup DOMAIN DbOps
    \cup {"", "dump", "log", "requireUser", "optionalUser", "contextIdentifier", "mustBeUser", "testHandshake", "graphql",
          "validatePath", "readFile", "writeFile", "deleteFile", "listFiles", "storageStats", "batchInfo",
          "storeInfo", "getInfo"}
ASSUME HandlersAssumption ==
  Guards \cap Handlers = {} /\ Sessions = {"requireUser", "optionalUser"} /\ "contextIdentifier" \notin Synchronous
-----------------------------------------------------------------------------
(* The host: a request comes, is processed, and its response leaves. *)

Init == RouterInit /\ effect = NoEffect /\ fingers = {}

Come ==
  /\ outcome.is = "idle"
  /\ \E s \in Sent :
       Receive([url |-> s.url, method |-> s.method, token |-> s.token, asks |-> s.asks, body |-> s.body,
                params |-> Host, query |-> Host, context |-> Host, session |-> Nothing, user |-> Nothing], App)
  /\ UNCHANGED <<effect, fingers>>
Leave ==
  /\ outcome.is \in Ended \ {"idle"}
  /\ req' = Nothing /\ chain' = <<>> /\ at' = 1 /\ frames' = <<>> /\ outcome' = Idle
  /\ effect' = NoEffect /\ UNCHANGED fingers

Process == (Unwind \/ Finish \/ Reject) /\ Quietly

Next ==
  \/ Come \/ Leave \/ Process
  \/ Log \/ Guard \/ RequireUser \/ OptionalUser \/ ContextIdentifier
  \/ Endpoint \/ Dump \/ MustBeUser \/ TestHandshake
  \/ DbCall \/ GraphQL
  \/ ValidatePathOf \/ ReadFile \/ WriteFile \/ DeleteFile \/ ListFiles \/ StorageStats \/ BatchInfo
  \/ StoreInfo \/ GetInfo

Spec == Init /\ [][Next]_vars
-----------------------------------------------------------------------------
(* Properties. *)

\* The request and its handlers keep their shapes, and what process() had put on the
\* request is what the host had there again when it ends normally (router.ts:248).
Fields == {"url", "method", "token", "asks", "body", "params", "query", "context", "session", "user"}
ReqTypeOK ==
  /\ req = Nothing \/ (DOMAIN req = Fields /\ req.session \in {Nothing, req.token}
                       /\ req.user \in {Nothing} \cup DOMAIN Username)
  /\ at \in 1 .. Len(chain) + 1 /\ Len(frames) < at
  /\ \A i \in DOMAIN frames : frames[i] = chain[i].name
  /\ outcome.is \in Ended \cup {"running", "answering", "thrown"}
  /\ fingers \subseteq (DOMAIN Username) \X STRING
  /\ outcome.is \in {"answered", "unanswered"} => {req.params, req.query, req.context} = {Host}

\* An error under one of handleError's guards does not pass it (middleware.ts:17): the
\* innermost of them answers it, or, further in, requireUser does, with 500 whatever the
\* error was, when it comes back before anything was awaited, through handlers of which none
\* is async (auth-middleware.ts:46-54).
ErrorsStayInside ==
  LET under == outcome.under
      guards == {i \in DOMAIN under : under[i] \in Guards}
      AtOnce(i) == chain[at].name \in Synchronous /\ \A j \in i + 1 .. Len(under) : under[j] \in Synchronous
  IN /\ outcome.is = "rejected" => guards = {}
     /\ outcome.is \in {"answering", "answered"} /\ under # <<>> =>
          \E i \in DOMAIN under :
            /\ outcome.by = under[i] /\ \A j \in guards : j <= i
            /\ i \in guards \/ (under[i] = "requireUser" /\ outcome.status = 500 /\ AtOnce(i))

\* What belongs to one account is done only for the session that the request's token
\* proves, whichever of the middlewares of auth-api.ts and web-finger-api.ts had to see to
\* that: no route leads round them.
Own == {"deleteSelf", "changePass", "sessions", "deleteSession", "deleteSessions", "logout", "refresh",
        "viewHandshake", "approveHandshake", "cancelHandshake", "getMasterKeys", "addMasterKey", "storeInfo"}
Users == Own \ {"logout", "refresh", "deleteSelf", "changePass", "storeInfo"}
SessionBeforeUse ==
  /\ effect.op \in Own => req.session = req.token /\ req.session # Nothing /\ req.user = req.session.user
  /\ effect.op \in Users => req.session.context = "user"

Doing(ops) == effect.op \in ops /\ outcome.is \in {"answering", "thrown"}

\* The user whose files the URL names, and the folders there of the app that the URL
\* names, whichever app the session is of.
Owner == UserOf(req.context.context, req.context.identifier)
NamedApps(path) ==
  LET u == req.session.user
      app == req.context.context
  IN \/ Inside(path, <<u, "appdata", app>>)
     \/ Inside(path, <<u, "public", "appdata", app>>)
     \/ \E c \in req.session.collections : Inside(path, <<u, "collections", c, app>>)

\* A file is written, deleted or listed only in the folder of the user whom the URL
\* names, with a session of that user; with the session of any app, only in the folders of
\* the app that the URL names (file-api.ts:107-119): not only in its own, see below.
WritesGranted ==
  Doing({"write", "delete", "list"}) =>
    /\ req.session # Nothing /\ req.session = req.token /\ req.session.user = Owner
    /\ \A path \in effect.on : /\ Inside(path, <<Owner>>)
                               /\ req.session.context = "user" \/ NamedApps(path)

\* A file, or its info, is read only in that user's folder: by anyone if it is public,
\* by the session of any app also in the folders of the app that the URL names and in the
\* session's collections, by the user's own session anywhere (file-api.ts:87-131);
\* batch-info skips the others.
ReadsGranted ==
  Doing({"read", "info"}) =>
    \A path \in effect.on :
      /\ Inside(path, <<Owner>>)
      /\ \/ Inside(path, <<Owner, "public">>)
         \/ /\ req.session # Nothing /\ req.session = req.token /\ req.session.user = Owner
            /\ \/ req.session.context = "user" \/ NamedApps(path)
               \/ \E c \in req.session.collections : Inside(path, <<Owner, "collections", c>>)

\* What types.ts:36-43 says of apps: the session of an app writes only in that app's own
\* folders, and only in the app's child folder of its collections.
AppsWriteTheirOwn ==
  Doing({"write", "delete"}) /\ req.session.context \notin {"user", "secure"} =>
    \A path \in effect.on :
      \E f \in WriteFolders(req.session, req.session.context, req.session.identifier) : Inside(path, f)

\* No path that reaches the files climbs (disk-file-store.ts joins it to its root): a name
\* of dots is there only when the user, the context or the identifier is called so.
PathsClimbNowhere ==
  Doing({"write", "delete", "list", "read", "info"}) =>
    \A path \in effect.on : \A i \in DOMAIN path :
      path[i] \in Dots => path[i] \in {Owner, req.context.context, req.context.identifier}

\* What API.md:97-107 promises is not forbidden: anyone reads what is public of a user
\* or an app; a session writes in the public and private folders of its own context, and a
\* user's anywhere.  Left out are the names that mean something else: "~", which makePath does
\* not resolve, the folder of collections, and what begins like the routes of other APIs.
Promised ==
  LET context == req.url[1]
      owner   == UserOf(context, req.url[2])
      token   == req.token
  IN /\ Len(req.url) > 4 /\ req.url[3] = "files" /\ owner # Nothing
     /\ "~" \notin {context, req.url[2]} /\ {<<"auth", context>>, <<"gaia", context>>} \cap Begins = {}
     /\ \/ req.method = "GET" /\ req.url[4] = "public"
        \/ /\ token # Nothing /\ token.user = owner
           /\ \/ token.context = "user"
              \/ token.context = context /\ context # "collections" /\ req.url[4] \in {"public", "private"}
PromisesKept ==
  outcome.is \in {"answering", "answered", "rejected"} /\ outcome.status = 403 => ~Promised

\* The API of the database asks for keys and tables only in the name of the session's user,
\* whatever user the URL names, and of the scope that the URL names, or the session for ~
\* (db/tiny-db-api.ts:18).  (The session of one app may name the scope of another.)
AsksInOwnName ==
  Doing({"query"} \cup {DbOps[name] : name \in DOMAIN DbOps}) =>
    LET context    == IF req.url[1] = "~" THEN req.token.context ELSE req.url[1]
        identifier == IF req.url[2] = "~" THEN req.token.identifier ELSE req.url[2]
    IN \A asked \in effect.on :
         /\ req.token # Nothing /\ asked[1] = req.token.user
         /\ asked[2] = CASE context = "user"   -> ""
                         [] context = "secure" -> identifier
                         [] OTHER              -> context

\* A search of a table finds the rows that the query describes (common/types.ts:
\* after Mongoose), but for those that SQL's NULL leaves undecided.
SearchMeansQuery ==
  Doing({"query"}) =>
    effect.found = {row \in Rows : Meets(req.body, row) /\ ~Undecided(req.body, row)}

\* Where only equality is asked for, a search in memory finds the rows that the SQL statement
\* selects, and one without a value in a column that must differ from one, which SQL does not
\* select, when it meets the query otherwise.
EqualityAgrees ==
  Doing({"query"}) /\ ~Throws(req.body) /\ (\A i \in DOMAIN req.body : req.body[i].op \in {"", "$eq", "$ne"})
    => \A row \in Rows :
         ResolveQuery(req.body, row) <=>
           \/ row \in Selected(Rows, CompileQuery(req.body))
           \/ Undecided(req.body, row) /\ Meets(req.body, row)
=============================================================================
