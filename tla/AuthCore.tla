------------------------------ MODULE AuthCore ------------------------------
(***************************************************************************)
(* Users, sessions and master keys of a node: the routes of CoreApi and of *)
(* AuthApi (handshakes apart, see Handshakes), the session middleware they *)
(* run behind, and the event that purges a deleted user's sessions.        *)
(*                                                                         *)
(* The server is one event loop.  A request runs until it awaits, and any  *)
(* other request may run before it resumes, so a request is a record of    *)
(* local state and each action is the code between two awaits that holds   *)
(* one SQL statement.  A crash loses the requests; the tables persist.     *)
(***************************************************************************)
EXTENDS DynTable, FiniteSets, Naturals

CONSTANTS
  UserIds, SessionIds, KeyIds, HandshakeIds,   \* ids maylily() draws, by table
  Names, Passwords, Apps,        \* what clients register, present and name
  Scopes, NoScope,               \* collections and permissions of a session; none
  Whitelist,                     \* config.whitelist; {} switches it off
  Reqs,                          \* slots of requests in flight
  Ops,                           \* the routes the clients of this instance call
  MayCrash,                      \* whether the process may die
  Expiring,                      \* bound: the sessions that may outlive their time
  MaxPurges                      \* bound: sweeps only start while fewer deletions run

Contexts == Apps \cup {"user"}

\* The routes behind the session middleware.  (The handlers of the handshake
\* routes are in Handshakes.)
PasswordOps  == {"changePass", "deleteSelf"}
HandshakeOps == {"viewHandshake", "approveHandshake", "cancelHandshake"}
AuthedOps == PasswordOps \cup HandshakeOps \cup
               {"deleteSession", "deleteSessions", "logout", "refresh",
                "addMasterKey", "dropMasterKey"}
SessionMakers == {"login", "refresh", "generateSession", "completeHandshake"}
AllOps == AuthedOps \cup SessionMakers \cup {"register"}

ASSUME ConstantsAssumption ==
  /\ Ops \subseteq AllOps
  /\ Whitelist \subseteq Names
  /\ NoScope \in Scopes
  /\ Expiring \subseteq SessionIds
  /\ UserIds \cap SessionIds = {} /\ UserIds \cap KeyIds = {} /\ SessionIds \cap KeyIds = {}
  /\ MayCrash \in BOOLEAN /\ MaxPurges \in Nat

UserRows    == [name : Names, pass : Passwords]
SessionRows == [user : UserIds, context : Contexts, scope : Scopes]
KeyRows     == [user : UserIds]

ASSUME NoRowAssumption ==
  NoRow \notin UserRows \cup SessionRows \cup KeyRows \cup UserIds \cup SessionIds
               \cup KeyIds \cup HandshakeIds \cup Passwords

VARIABLES
  users, sessions, masterKeys,  \* the tables of HelpfulAuthDb
  used,      \* every id drawn so far: maylily() never repeats one
  expired,   \* sessions whose lifetime has passed
  tokens,    \* sessions whose signed JWT a client has received
  req,       \* the local state of each request
  purges     \* deletions running in the background, each the ids it deletes

stored == <<users, sessions, masterKeys, used, expired, tokens, purges>>
vars == <<users, sessions, masterKeys, used, expired, tokens, req, purges>>
-----------------------------------------------------------------------------
(* A request. *)

Steps == {"idle", "addUser", "verify", "handler", "listIds", "delMany", "del",
          "delUser", "post", "keyUser", "addSession", "sign", "dropOld",
          "elsewhere"}   \* in a handler of Handshakes

Locals == [
  pc      : Steps,                        \* where it resumes
  op      : AllOps \cup {"none"},
  pass    : Passwords \cup {NoRow},       \* password in the body or query
  newpass : Passwords \cup {NoRow},
  target  : SessionIds \cup KeyIds \cup HandshakeIds \cup {NoRow},  \* :id of the route
  sid     : SessionIds \cup {NoRow},      \* req.session.id
  ses     : SessionRows \cup {NoRow},     \* req.session, as it was read
  usr     : UserRows \cup {NoRow},        \* req.user, as it was read
  row     : SessionRows \cup {NoRow},     \* the session it will insert
  new     : SessionIds \cup {NoRow},      \* the session it inserted
  ids     : SUBSET SessionIds,            \* ids it listed and will delete
  stale   : BOOLEAN,   \* history: its session or its user was gone when it began
  must    : SUBSET SessionIds]            \* history: what changePass has to revoke

\* The steps of a request that carried a session's token.
WithSession == {"verify", "handler", "listIds", "delMany", "del", "delUser", "post", "dropOld"}

\* What a request already holds at the step where it resumes.
Holds(q) ==
  /\ q.pc = "addUser" => q.usr # NoRow
  /\ q.pc \in {"keyUser", "addSession"} => q.row # NoRow
  /\ q.pc \in {"sign", "dropOld"} => q.new # NoRow
  /\ q.pc \in WithSession \/ q.op = "refresh" =>
       q.sid # NoRow /\ q.ses # NoRow
  /\ q.pc \in {"verify", "handler"} => q.op \in AuthedOps
  /\ q.pc \in {"verify", "handler"} /\ q.op = "changePass" => q.newpass # NoRow
  /\ q.pc = "handler" /\ q.op \in PasswordOps => q.usr # NoRow

Request == {q \in Locals : Holds(q)}

Blank == [pc |-> "idle", op |-> "none", pass |-> NoRow,
          newpass |-> NoRow, target |-> NoRow, sid |-> NoRow, ses |-> NoRow,
          usr |-> NoRow, row |-> NoRow, new |-> NoRow, ids |-> {}, stale |-> FALSE,
          must |-> {}]

\* The handler returned, or threw and handleError made a response of it.
Answer(r, status) == req' = [req EXCEPT ![r] = Blank]

Idle(r) == req[r].pc = "idle"
At(r, step) == req[r].pc = step
Handling(r, op) == At(r, "handler") /\ req[r].op = op

\* The user a request acts for once it is past its checks.
Subject(r) == IF req[r].ses # NoRow THEN req[r].ses.user ELSE req[r].row.user

\* Bounds of the instance: clients only start what there are ids left for.
Pending(ops) == {q \in Reqs : req[q].op \in ops /\ req[q].new = NoRow}
RoomForSession == Cardinality(SessionIds \ used)
                    > Cardinality(Pending(SessionMakers))
RoomForUser == Cardinality(UserIds \ used) > Cardinality(Pending({"register"}))
RoomForKey  == Cardinality(KeyIds \ used) > Cardinality(Pending({"addMasterKey"}))
RoomFor(op) == CASE op \in SessionMakers -> RoomForSession
                 [] op = "register" -> RoomForUser
                 [] op = "addMasterKey" -> RoomForKey
                 [] OTHER -> TRUE

\* Ids are opaque, so drawing the first unused one loses no behaviour.
Fresh(S) == CHOOSE i \in S : i \notin used

UsersNamed(name) == {u \in Live(users) : users[u].name = name}
SessionsOf(u) == {s \in Live(sessions) : sessions[s].user = u}
Listed(name) == Whitelist = {} \/ name \in Whitelist
-----------------------------------------------------------------------------
(* Routes that need no session. *)

\* POST /login up to the hash of the password: the user as read here is the
\* one the password is compared with.
StartLogin(r, name, pass) ==
  /\ "login" \in Ops /\ Idle(r) /\ RoomFor("login")
  /\ LET found == {u \in UsersNamed(name) : Listed(name) /\ users[u].pass = pass}
     IN  \/ /\ found = {}
            /\ Answer(r, "401")
         \/ \E u \in found :
              req' = [req EXCEPT ![r] =
                        [Blank EXCEPT !.pc = "addSession", !.op = "login",
                                      !.row = [user |-> u, context |-> "user", scope |-> NoScope]]]
  /\ UNCHANGED stored

\* POST /register up to the hash of the password: is the name taken?
StartRegister(r, name, pass) ==
  /\ "register" \in Ops /\ Idle(r) /\ RoomFor("register")
  /\ IF Listed(name) /\ UsersNamed(name) = {}
     THEN req' = [req EXCEPT ![r] =
                    [Blank EXCEPT !.pc = "addUser", !.op = "register",
                                  !.usr = [name |-> name, pass |-> pass]]]
     ELSE Answer(r, "403")
  /\ UNCHANGED stored

\* A users table without its unique index (a bug the code avoids).
InsertAny(name) == TRUE

\* The unique index on username refuses a second row with the name.
Insertable(name) == UsersNamed(name) = {}

\* addUser: somebody may have taken the name since it was looked up.
AddUser(r) ==
  /\ At(r, "addUser")
  /\ IF Insertable(req[r].usr.name)
     THEN LET u == Fresh(UserIds)
          IN  /\ UserIds \ used # {}
              /\ users' = Add(users, u, req[r].usr)
              /\ used' = used \cup {u}
              /\ Answer(r, "204")
     ELSE /\ Answer(r, "500")
          /\ UNCHANGED <<users, used>>
  /\ UNCHANGED <<sessions, masterKeys, expired, tokens, purges>>

\* POST /master-key/:id/generate-session: find the key ...
StartGenerate(r, key, context, scope) ==
  /\ "generateSession" \in Ops /\ Idle(r) /\ RoomFor("generateSession")
  /\ IF masterKeys[key] = NoRow
     THEN Answer(r, "404")
     ELSE req' = [req EXCEPT ![r] =
                    [Blank EXCEPT !.pc = "keyUser", !.op = "generateSession",
                       !.stale = masterKeys[key].user \notin Live(users),
                       !.row = [user |-> masterKeys[key].user, context |-> context, scope |-> scope]]]
  /\ UNCHANGED stored

\* ... then the key's user.
KeyUser(r) ==
  /\ At(r, "keyUser")
  /\ IF users[req[r].row.user] = NoRow
     THEN Answer(r, "404")
     ELSE req' = [req EXCEPT ![r].pc = "addSession"]
  /\ UNCHANGED stored

\* addSession, for a login, a master key, a handshake or a refresh.
AddSession(r) ==
  /\ At(r, "addSession")
  /\ SessionIds \ used # {}
  /\ LET s == Fresh(SessionIds)
     IN  /\ sessions' = Add(sessions, s, req[r].row)
         /\ used' = used \cup {s}
         /\ req' = [req EXCEPT ![r].new = s,
                               ![r].pc = IF req[r].op = "refresh" THEN "dropOld" ELSE "sign"]
  /\ UNCHANGED <<users, masterKeys, expired, tokens, purges>>

\* #createSessionJWT reads the session back to sign its id with its secret;
\* when it is gone by now there is nothing to sign and the answer is empty.
Sign(r) ==
  /\ At(r, "sign")
  /\ tokens' = IF sessions[req[r].new] = NoRow THEN tokens ELSE tokens \cup {req[r].new}
  /\ Answer(r, "200")
  /\ UNCHANGED <<users, sessions, masterKeys, used, expired, purges>>
-----------------------------------------------------------------------------
(* validateUserSession: the middleware of every authenticated route. *)

\* What a client sends along with its token: [pass, newpass, target].
Bodies(op) ==
  [pass    : IF op \in PasswordOps THEN Passwords ELSE {NoRow},
   newpass : IF op = "changePass" THEN Passwords ELSE {NoRow},
   target  : CASE op = "deleteSession" -> SessionIds \cap used
               [] op = "dropMasterKey" -> KeyIds \cap used
               [] op \in HandshakeOps -> HandshakeIds
               [] OTHER -> {NoRow}]

\* A request carries the JWT of session sid; the session is looked up.
StartAuthed(r, op, sid, body) ==
  /\ op \in Ops /\ Idle(r) /\ RoomFor(op)
  /\ IF sessions[sid] = NoRow
     THEN Answer(r, "403")
     ELSE req' = [req EXCEPT ![r] =
                    [Blank EXCEPT !.pc = "verify", !.op = op,
                       !.stale = sid \in expired \/ sessions[sid].user \notin Live(users),
                       !.pass = body.pass, !.newpass = body.newpass, !.target = body.target,
                       !.sid = sid, !.ses = sessions[sid]]]
  /\ UNCHANGED stored

\* A middleware that leaves it to the routes that need more than the user's id
\* to find out whether there is such a user (a bug the code avoids).
TokenOnly(r) == /\ req[r].sid \notin expired
                /\ req[r].op \in PasswordOps => users[req[r].ses.user] # NoRow

\* jwtVerify rejects a token past its lifetime; then the user must exist.
Authentic(r) == req[r].sid \notin expired /\ users[req[r].ses.user] # NoRow

\* The session and the user become req.session and req.user: the handler
\* works with them as they were read here.  (The routes that ask for a password
\* are the only ones that use more of the user than its id.)
Verify(r) ==
  /\ At(r, "verify")
  /\ IF Authentic(r)
     THEN req' = [req EXCEPT
            ![r].usr = IF req[r].op \in PasswordOps THEN users[req[r].ses.user] ELSE NoRow,
            ![r].row = IF req[r].op = "refresh" THEN req[r].ses ELSE NoRow,
            ![r].pc  = IF req[r].op = "refresh" THEN "addSession" ELSE "handler"]
     ELSE Answer(r, "403")
  /\ UNCHANGED stored

\* A route open to the sessions of apps (a bug the code avoids).
AnyContext(r) == TRUE

\* Everything but logout and refresh is for sessions of the user itself.
ContextAllowed(r) ==
  req[r].op \in {"logout", "refresh"} \/ req[r].ses.context = "user"

\* An async handler refuses with 403.  The middlewares of /sessions and
\* /master-key throw inside next(), which validateUserSession catches as a
\* failure of its own.
RefuseContext(r) ==
  /\ At(r, "handler") /\ ~ContextAllowed(r)
  /\ Answer(r, IF req[r].op \in PasswordOps \cup HandshakeOps THEN "403" ELSE "500")
  /\ UNCHANGED stored

\* The password is compared with the user as the middleware read it.
PasswordMatches(r) == req[r].pass = req[r].usr.pass

RefusePassword(r) ==
  /\ At(r, "handler") /\ ContextAllowed(r)
  /\ req[r].op \in PasswordOps /\ ~PasswordMatches(r)
  /\ Answer(r, "403")
  /\ UNCHANGED stored
-----------------------------------------------------------------------------
(* POST /change-pass: store the password, list the sessions, delete them. *)

ChangePass(r) ==
  /\ Handling(r, "changePass") /\ ContextAllowed(r) /\ PasswordMatches(r)
  /\ LET u == Subject(r)
     IN  /\ users' = Put(users, u, [req[r].usr EXCEPT !.pass = req[r].newpass])
         /\ req' = [req EXCEPT ![r].pc = "listIds",
                               ![r].must = SessionsOf(u) \ {req[r].sid}]
  /\ UNCHANGED <<sessions, masterKeys, used, expired, tokens, purges>>

\* Listing only what the session list shows as the user's own devices (a bug
\* the code avoids).
UserContextOnly(r) ==
  {s \in SessionsOf(Subject(r)) : sessions[s].context = "user"} \ {req[r].sid}

\* Every session of the user but the one that changes the password.
ToRevoke(r) == SessionsOf(Subject(r)) \ {req[r].sid}

ListIds(r) ==
  /\ At(r, "listIds")
  /\ req' = [req EXCEPT ![r].ids = ToRevoke(r), ![r].pc = "delMany"]
  /\ UNCHANGED stored

DelManySessions(r) ==
  /\ At(r, "delMany")
  /\ sessions' = DelMany(sessions, req[r].ids)
  /\ Answer(r, "204")
  /\ UNCHANGED <<users, masterKeys, used, expired, tokens, purges>>
-----------------------------------------------------------------------------
(* DELETE /sessions/:id, DELETE /sessions, POST /logout, GET /refresh. *)

\* A lookup that forgets whose session it is (a bug the code avoids).
FoundAny(r) == sessions[req[r].target] # NoRow

FoundOwn(r) == req[r].target \in SessionsOf(Subject(r))

FindSession(r) ==
  /\ Handling(r, "deleteSession") /\ ContextAllowed(r)
  /\ IF FoundOwn(r) THEN req' = [req EXCEPT ![r].pc = "del"] ELSE Answer(r, "404")
  /\ UNCHANGED stored

DelSession(r) ==
  /\ At(r, "del")
  /\ sessions' = Del(sessions, req[r].target)
  /\ Answer(r, "204")
  /\ UNCHANGED <<users, masterKeys, used, expired, tokens, purges>>

\* The route passes the user, not its id: the search compares columns that
\* the sessions table does not have, and throws.
DeleteSessions(r) ==
  /\ Handling(r, "deleteSessions") /\ ContextAllowed(r)
  /\ Answer(r, "500")
  /\ UNCHANGED stored

Logout(r) ==
  /\ Handling(r, "logout")
  /\ sessions' = Del(sessions, req[r].sid)
  /\ Answer(r, "204")
  /\ UNCHANGED <<users, masterKeys, used, expired, tokens, purges>>

\* The answer is the bare id of the new session, not a JWT: tokens stays.
DropOld(r) ==
  /\ At(r, "dropOld")
  /\ sessions' = Del(sessions, req[r].sid)
  /\ Answer(r, "200")
  /\ UNCHANGED <<users, masterKeys, used, expired, tokens, purges>>
-----------------------------------------------------------------------------
(* DELETE /self: delUser reads the row, deletes it and posts the event. *)

DeleteSelf(r) ==
  /\ Handling(r, "deleteSelf") /\ ContextAllowed(r) /\ PasswordMatches(r)
  /\ IF users[Subject(r)] = NoRow
     THEN Answer(r, "204")
     ELSE req' = [req EXCEPT ![r].pc = "delUser"]
  /\ UNCHANGED stored

DelUser(r) ==
  /\ At(r, "delUser")
  /\ users' = Del(users, Subject(r))
  /\ req' = [req EXCEPT ![r].pc = "post"]
  /\ UNCHANGED <<sessions, masterKeys, used, expired, tokens, purges>>

\* Listeners that find nothing to do, or take the rows for the ids (bugs the
\* code avoids).
NoListing(r) == {}
ListRows(r) == {sessions[s] : s \in SessionsOf(Subject(r))}

\* What the listener of onUserDelete finds.
PurgeList(r) == SessionsOf(Subject(r))

\* The listener of onUserDelete runs up to its first await inside post: it
\* lists the sessions.  Nobody waits for the rest of it.
PostUserDelete(r) ==
  /\ At(r, "post")
  /\ purges' = purges \cup {PurgeList(r)}
  /\ Answer(r, "204")
  /\ UNCHANGED <<users, sessions, masterKeys, used, expired, tokens>>
-----------------------------------------------------------------------------
(* POST /master-key, PUT and DELETE /master-key/:id. *)

AddMasterKey(r) ==
  /\ Handling(r, "addMasterKey") /\ ContextAllowed(r)
  /\ KeyIds \ used # {}
  /\ LET k == Fresh(KeyIds)
     IN  /\ masterKeys' = Add(masterKeys, k, [user |-> Subject(r)])
         /\ used' = used \cup {k}
  /\ Answer(r, "200")
  /\ UNCHANGED <<users, sessions, expired, tokens, purges>>

\* AuthApi.getMasterKey(user, id).
OwnKey(user, id) ==
  IF id \in Live(masterKeys) /\ masterKeys[id].user = user THEN masterKeys[id] ELSE NoRow

\* The middleware of /master-key/:id passes the two arguments the other way
\* round and looks for a key whose id is the user's: there is none, so the
\* handlers that update and delete a key are never reached.
DropMasterKey(r) ==
  /\ Handling(r, "dropMasterKey") /\ ContextAllowed(r)
  /\ OwnKey(req[r].target, Subject(r)) = NoRow
  /\ Answer(r, "404")
  /\ UNCHANGED stored
-----------------------------------------------------------------------------
(* What happens beside the requests. *)

\* sessionExpTime passes since a session was created.
Expire(s) ==
  /\ s \in (Live(sessions) \cap Expiring) \ expired
  /\ expired' = expired \cup {s}
  /\ UNCHANGED <<users, sessions, masterKeys, used, tokens, req, purges>>

ExpiredSessions == Live(sessions) \cap expired

\* cleanSessions, called by whoever embeds the library: list the expired.
CleanSessions ==
  /\ ExpiredSessions # {} /\ Cardinality(purges) < MaxPurges
  /\ purges' = purges \cup {ExpiredSessions}
  /\ UNCHANGED <<users, sessions, masterKeys, used, expired, tokens, req>>

\* The delManySessions that ends the listener or cleanSessions.
Purge(ids) ==
  /\ sessions' = DelMany(sessions, ids)
  /\ purges' = purges \ {ids}
  /\ UNCHANGED <<users, masterKeys, used, expired, tokens, req>>

\* The process dies: requests and background work are lost, the tables stay.
Crash ==
  /\ MayCrash
  /\ req' = [r \in Reqs |-> Blank]
  /\ purges' = {}
  /\ UNCHANGED <<users, sessions, masterKeys, used, expired, tokens>>
-----------------------------------------------------------------------------
Init ==
  /\ users = [u \in UserIds |-> NoRow]
  /\ sessions = [s \in SessionIds |-> NoRow]
  /\ masterKeys = [k \in KeyIds |-> NoRow]
  /\ used = {} /\ expired = {} /\ tokens = {} /\ purges = {}
  /\ req = [r \in Reqs |-> Blank]

Start(r) ==
  \/ \E name \in Names, pass \in Passwords : StartLogin(r, name, pass) \/ StartRegister(r, name, pass)
  \/ \E key \in KeyIds, context \in Contexts, scope \in Scopes :
       StartGenerate(r, key, context, scope)
  \/ \E op \in AuthedOps, sid \in tokens : \E body \in Bodies(op) : StartAuthed(r, op, sid, body)

\* What the event loop does with a request it has begun.
Continue(r) ==
  \/ AddUser(r) \/ KeyUser(r) \/ AddSession(r) \/ Sign(r)
  \/ Verify(r) \/ RefuseContext(r) \/ RefusePassword(r)
  \/ ChangePass(r) \/ ListIds(r) \/ DelManySessions(r)
  \/ FindSession(r) \/ DelSession(r) \/ DeleteSessions(r) \/ Logout(r) \/ DropOld(r)
  \/ DeleteSelf(r) \/ DelUser(r) \/ PostUserDelete(r)
  \/ AddMasterKey(r) \/ DropMasterKey(r)

Next ==
  \/ \E r \in Reqs : Start(r) \/ Continue(r)
  \/ \E s \in SessionIds : Expire(s)
  \/ CleanSessions
  \/ \E ids \in purges : Purge(ids)
  \/ Crash

Spec == Init /\ [][Next]_vars

\* The event loop resumes every continuation whose SQL has run; what clients
\* start, and when time passes, is up to them.
Fairness ==
  /\ \A r \in Reqs : WF_vars(Continue(r))
  /\ \A ids \in SUBSET SessionIds : WF_vars(ids \in purges /\ Purge(ids))

FairSpec == Spec /\ Fairness
-----------------------------------------------------------------------------
(* Properties. *)

TypeOK ==
  /\ users \in [UserIds -> UserRows \cup {NoRow}]
  /\ sessions \in [SessionIds -> SessionRows \cup {NoRow}]
  /\ masterKeys \in [KeyIds -> KeyRows \cup {NoRow}]
  /\ used \subseteq UserIds \cup SessionIds \cup KeyIds
  /\ expired \subseteq SessionIds /\ tokens \subseteq SessionIds
  /\ req \in [Reqs -> Request]
  /\ purges \subseteq SUBSET SessionIds

\* Two registrations that both found a name free never both store it: the
\* check-then-insert of register is backed by the unique index (auth-api
\* register, the users table of HelpfulAuthDb).
UsernamesUnique ==
  \A u, v \in Live(users) : users[u].name = users[v].name => u = v

ActingSteps == Steps \ {"idle", "addUser", "verify", "keyUser", "elsewhere"}

\* A request that is past its checks never acts for a user that was deleted,
\* nor through a session that was revoked or expired, before it began.  Logins
\* and refreshes in flight leave sessions behind that no purge sees; this is
\* what makes them harmless (validateUserSession, generateSessionFromMasterKey).
NeverActsForTheGone ==
  \A r \in Reqs : req[r].pc \in ActingSteps => ~req[r].stale

\* When change-pass answers 204, every session the user had when the new
\* password was stored is gone, but the one that asked; whatever ran between
\* the listing and the deletion (changePass).
RevocationComplete ==
  [][\A r \in Reqs : DelManySessions(r) =>
       \A s \in req[r].must : sessions'[s] = NoRow]_vars

\* What was deleted stays deleted: a request that still holds the row of a
\* user that is deleted meanwhile cannot write it back (putUser is an UPDATE),
\* and no id is drawn twice.
NothingReturns ==
  [][/\ \A u \in UserIds \cap used : users[u] = NoRow => users'[u] = NoRow
     /\ \A s \in SessionIds \cap used : sessions[s] = NoRow => sessions'[s] = NoRow
     /\ \A k \in KeyIds \cap used : masterKeys[k] = NoRow => masterKeys'[k] = NoRow]_vars

\* A session disappears only through a request of its own user, after its
\* user was deleted, or after it expired: no list that a purge, a sweep or a
\* change-pass took earlier holds anybody else's session by the time it is used.
OnlyOwnerRevokes ==
  [][\A s \in Live(sessions) : sessions'[s] = NoRow =>
       \/ s \in expired
       \/ users[sessions[s].user] = NoRow
       \/ \E r \in Reqs : /\ req'[r] # req[r]
                          /\ req[r].ses # NoRow
                          /\ req[r].ses.user = sessions[s].user]_vars

\* The row of a user changes or goes only through a request made with a
\* session of that user itself, never of an app, and with the password the
\* user had when the request was authenticated (changePass, deleteSelf).
AccountNeedsOwner ==
  [][\A u \in Live(users) : users'[u] # users[u] =>
       \E r \in Reqs : /\ req'[r] # req[r]
                       /\ req[r].ses # NoRow
                       /\ req[r].ses.user = u /\ req[r].ses.context = "user"
                       /\ req[r].pass = req[r].usr.pass]_vars

\* Every session a user has when its row has been deleted is eventually
\* deleted too, although no request waits for the listener that does it;
\* provided the process survives (AuthDb's listener of onUserDelete).
DeletedUsersSessionsGo ==
  \A s \in SessionIds :
    (\E r \in Reqs : At(r, "post") /\ s \in SessionsOf(Subject(r))) ~> (s \notin Live(sessions))

\* API.md: "Revoke all or one session".  A DELETE /sessions that the user may
\* make leaves no session of the user but the one that asked.
RevokeAllRevokes ==
  [][\A r \in Reqs : DeleteSessions(r) =>
       \A s \in SessionsOf(Subject(r)) \ {req[r].sid} : sessions'[s] = NoRow]_vars

\* API.md: DELETE /self "deletes all user data".  With nothing left running,
\* no master key belongs to a deleted user.
DeletedUserLeavesNothing ==
  (purges = {} /\ \A r \in Reqs : Idle(r)) =>
    \A k \in Live(masterKeys) : users[masterKeys[k].user] # NoRow
=============================================================================
