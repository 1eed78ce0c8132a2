-------------------------- MODULE OwnershipProofs ---------------------------
(***************************************************************************)
(* Theorems about AuthCore: who can take a session or an account away, and *)
(* what a change of password revokes.  A handler deletes what it, or an    *)
(* event before it, has listed an await or more ago; the invariant says    *)
(* what is still true of such lists when they are used.                    *)
(***************************************************************************)
EXTENDS AuthCoreProofs

\* A session that r holds the id of was drawn, and is of r's user as long as it is
\* there (a session never changes hands).
Mine(r, s) == s \in used /\ (sessions[s] # NoRow => sessions[s].user = req[r].ses.user)

\* What a request may rely on at the step where it resumes.
Owned(r) ==
  /\ req[r].sid # NoRow => Mine(r, req[r].sid)
  /\ req[r].pc = "listIds" => \A s \in req[r].must : s # req[r].sid /\ Mine(r, s)
  /\ req[r].pc = "delMany" =>
       /\ \A s \in req[r].ids : Mine(r, s)
       /\ \A s \in req[r].must : s \in used /\ (s \in req[r].ids \/ sessions[s] = NoRow)
  /\ req[r].pc = "del" => req[r].target \in SessionIds /\ Mine(r, req[r].target)
  /\ req[r].pc = "delUser" => req[r].ses.context = "user" /\ req[r].pass = req[r].usr.pass
  /\ req[r].pc = "post" => users[req[r].ses.user] = NoRow

\* What runs in the background deletes only what is nobody's or has expired.
Purgeable ==
  \A ids \in purges : \A s \in ids :
    s \in used /\ (s \in expired \/ sessions[s] = NoRow \/ users[sessions[s].user] = NoRow)

OwnerInv == ActsInv /\ Purgeable /\ \A r \in Reqs : Owned(r)
-----------------------------------------------------------------------------
(* What stays true when others take a step. *)

\* A session that was drawn stays as it is, or goes.
LEMMA SessionsStand ==
  ASSUME TypeOK, [Next]_vars, NEW s \in SessionIds, s \in used
  PROVE  s \in used' /\ (sessions'[s] = sessions[s] \/ sessions'[s] = NoRow)
BY SessionsChange, UsedGrows DEF SessionStep

\* A user that is gone stays gone.
LEMMA UsersStayGone ==
  ASSUME TypeOK, [Next]_vars, NEW u \in UserIds, u \in used, users[u] = NoRow
  PROVE  users'[u] = NoRow
BY UsersChange DEF UserStep

\* Whose session it is stays true, for a request that keeps its own.
LEMMA MineStands ==
  ASSUME TypeOK, [Next]_vars, NEW r \in Reqs, NEW s \in SessionIds, Mine(r, s),
         req'[r].ses = req[r].ses
  PROVE  Mine(r, s)'
BY SessionsStand DEF Mine

\* A listed session of the user of r is r's.
LEMMA ListedAreMine ==
  ASSUME ActsInv, NEW r \in Reqs, req[r].ses # NoRow, NEW s \in SessionsOf(Subject(r))
  PROVE  s \in SessionIds /\ Mine(r, s)
BY DEF ActsInv, TypeOK, IdsDrawn, SessionsOf, Live, Subject, Mine

\* What a request holds has its type.
LEMMA HeldHasType ==
  ASSUME TypeOK, NEW r \in Reqs
  PROVE  /\ req[r] \in Locals /\ Holds(req[r])
         /\ req[r].sid # NoRow => req[r].sid \in SessionIds
         /\ req[r].ids \subseteq SessionIds /\ req[r].must \subseteq SessionIds
BY DEF TypeOK, Request, Locals

\* A request that rests loses nothing by the steps of others.
LEMMA StandingStaysOwned ==
  ASSUME ActsInv, [Next]_vars, NEW r \in Reqs, Owned(r), req'[r] = req[r]
  PROVE  Owned(r)'
<1> USE DEF ActsInv
<1>0. /\ req[r].sid # NoRow => req[r].sid \in SessionIds
      /\ req[r].ids \subseteq SessionIds /\ req[r].must \subseteq SessionIds
  BY HeldHasType
<1>1. req[r].sid # NoRow => Mine(r, req[r].sid)'
  BY <1>0, MineStands DEF Owned
<1>2. req[r].pc = "listIds" => \A s \in req[r].must : s # req[r].sid /\ Mine(r, s)'
  BY <1>0, MineStands DEF Owned
<1>3. req[r].pc = "delMany" =>
        /\ \A s \in req[r].ids : Mine(r, s)'
        /\ \A s \in req[r].must : s \in used' /\ (s \in req[r].ids \/ sessions'[s] = NoRow)
  BY <1>0, MineStands, SessionsStand DEF Owned
<1>4. req[r].pc = "del" => req[r].target \in SessionIds /\ Mine(r, req[r].target)'
  BY MineStands DEF Owned
<1>5. req[r].pc = "post" => users'[req[r].ses.user] = NoRow
  <2> SUFFICES ASSUME req[r].pc = "post"
               PROVE  users'[req[r].ses.user] = NoRow
    OBVIOUS
  <2>1. req[r].ses \in SessionRows /\ req[r].ses # NoRow
    BY HeldHasType DEF Locals, Holds, WithSession
  <2>2. req[r].ses.user \in UserIds /\ req[r].ses.user \in used
    BY <2>1 DEF SessionRows, Sound
  <2> QED
    BY <2>2, UsersStayGone DEF Owned
<1> QED
  BY <1>1, <1>2, <1>3, <1>4, <1>5 DEF Owned, Mine

\* A slot that was freed relies on nothing.
LEMMA BlankIsOwned ==
  ASSUME NEW r \in Reqs, req'[r] = Blank
  PROVE  Owned(r)'
BY DEF Owned, Blank
-----------------------------------------------------------------------------
(* What a request's own steps establish. *)

\* Only the middleware takes a session's token, and looks the session up.
LEMMA StartIsOwned ==
  ASSUME ActsInv, [Next]_vars, NEW r \in Reqs, Start(r)
  PROVE  Owned(r)'
<1> USE DEF ActsInv, TypeOK
<1>0. ASSUME NEW status, Answer(r, status)
      PROVE  Owned(r)'
  BY <1>0, BlankIsOwned DEF Answer
<1>1. ASSUME NEW q, q.sid = NoRow, q.pc \in {"addSession", "addUser", "keyUser"},
             req' = [req EXCEPT ![r] = q]
      PROVE  Owned(r)'
  <2>1. req'[r] = q
    BY <1>1
  <2> QED
    BY <1>1, <2>1 DEF Owned
<1>2. ASSUME NEW name \in Names, NEW pass \in Passwords, StartLogin(r, name, pass)
      PROVE  Owned(r)'
  <2> DEFINE q(u) == [Blank EXCEPT !.pc = "addSession", !.op = "login",
                        !.row = [user |-> u, context |-> "user", scope |-> NoScope]]
  <2>1. Answer(r, "401") \/ \E u \in UserIds : req' = [req EXCEPT ![r] = q(u)]
    BY <1>2 DEF StartLogin, UsersNamed, Live
  <2>2. \A u : q(u).pc = "addSession" /\ q(u).sid = NoRow
    BY DEF Blank
  <2> HIDE DEF q
  <2> QED
    BY <1>0, <1>1, <2>1, <2>2
<1>3. ASSUME NEW name \in Names, NEW pass \in Passwords, StartRegister(r, name, pass)
      PROVE  Owned(r)'
  <2> DEFINE q == [Blank EXCEPT !.pc = "addUser", !.op = "register",
                     !.usr = [name |-> name, pass |-> pass]]
  <2>1. Answer(r, "403") \/ req' = [req EXCEPT ![r] = q]
    BY <1>3 DEF StartRegister
  <2>2. q.pc = "addUser" /\ q.sid = NoRow
    BY DEF Blank
  <2> HIDE DEF q
  <2> QED
    BY <1>0, <1>1, <2>1, <2>2
<1>4. ASSUME NEW key \in KeyIds, NEW context \in Contexts, NEW scope \in Scopes,
             StartGenerate(r, key, context, scope)
      PROVE  Owned(r)'
  <2> DEFINE q == [Blank EXCEPT !.pc = "keyUser", !.op = "generateSession",
                     !.stale = masterKeys[key].user \notin Live(users),
                     !.row = [user |-> masterKeys[key].user, context |-> context, scope |-> scope]]
  <2>1. Answer(r, "404") \/ req' = [req EXCEPT ![r] = q]
    BY <1>4 DEF StartGenerate
  <2>2. q.pc = "keyUser" /\ q.sid = NoRow
    BY DEF Blank
  <2> HIDE DEF q
  <2> QED
    BY <1>0, <1>1, <2>1, <2>2
<1>5. ASSUME NEW op \in AuthedOps, NEW sid \in tokens,
             \E body \in Bodies(op) : StartAuthed(r, op, sid, body)
      PROVE  Owned(r)'
  <2> PICK body \in Bodies(op) : StartAuthed(r, op, sid, body)
    BY <1>5
  <2> DEFINE q == [Blank EXCEPT !.pc = "verify", !.op = op,
                     !.stale = sid \in expired \/ sessions[sid].user \notin Live(users),
                     !.pass = body.pass, !.newpass = body.newpass, !.target = body.target,
                     !.sid = sid, !.ses = sessions[sid]]
  <2>1. Answer(r, "403") \/ (sessions[sid] # NoRow /\ req' = [req EXCEPT ![r] = q])
    BY DEF StartAuthed
  <2>2. q.pc = "verify" /\ q.sid = sid /\ q.ses = sessions[sid]
    BY DEF Blank
  <2> HIDE DEF q
  <2>3. ASSUME sessions[sid] # NoRow, req' = [req EXCEPT ![r] = q]
        PROVE  Owned(r)'
    <3>1. req'[r].pc = "verify" /\ req'[r].sid = sid /\ req'[r].ses = sessions[sid]
      BY <2>2, <2>3
    <3>2. sid \in used
      BY <2>3 DEF IdsDrawn, Live
    <3>3. UNCHANGED <<used, sessions>>
      BY DEF StartAuthed, stored
    <3> QED
      BY <3>1, <3>2, <3>3 DEF Owned, Mine
  <2> QED
    BY <1>0, <2>1, <2>3
<1> QED
  BY <1>2, <1>3, <1>4, <1>5 DEF Start

\* Each handler leaves its next step what that one relies on.
LEMMA ContinueIsOwned ==
  ASSUME ActsInv, [Next]_vars, NEW r \in Reqs, Owned(r), Continue(r)
  PROVE  Owned(r)'
<1> USE DEF ActsInv, At, Handling
<1>a. req \in [Reqs -> Request]
  BY DEF TypeOK
<1>b. /\ req[r] \in Locals /\ Holds(req[r])
      /\ req[r].sid # NoRow => req[r].sid \in SessionIds
      /\ req[r].ids \subseteq SessionIds /\ req[r].must \subseteq SessionIds
  BY HeldHasType
<1>0. ASSUME NEW status, Answer(r, status)
      PROVE  Owned(r)'
  BY <1>0, <1>a, BlankIsOwned DEF Answer
\* The session of a request stays its own; the rest is a matter of the next step.
<1>1. ASSUME req'[r].sid = req[r].sid, req'[r].ses = req[r].ses
      PROVE  (req[r].sid # NoRow => Mine(r, req[r].sid))'
  <2> SUFFICES ASSUME NEW s \in SessionIds, s = req[r].sid
               PROVE  Mine(r, s)'
    BY <1>1, <1>b DEF Mine
  <2>1. Mine(r, s)
    BY RowsAreNotNoRow DEF Owned
  <2> QED
    BY <1>1, <2>1, MineStands
<1>2. ASSUME req'[r].sid = req[r].sid, req'[r].ses = req[r].ses,
             req'[r].pc \in {"addSession", "handler", "dropOld", "sign"}
      PROVE  Owned(r)'
  BY <1>1, <1>2 DEF Owned, Mine
<1>3. CASE KeyUser(r) \/ Verify(r) \/ AddSession(r)
  <2>1. \/ Answer(r, "404") \/ Answer(r, "403")
        \/ /\ req'[r].sid = req[r].sid /\ req'[r].ses = req[r].ses
           /\ req'[r].pc \in {"addSession", "handler", "dropOld", "sign"}
    BY <1>3, <1>a, <1>b DEF KeyUser, Verify, AddSession, Locals
  <2> QED
    BY <1>0, <1>2, <2>1
<1>4. CASE ChangePass(r)
  <2>1. /\ req'[r].pc = "listIds" /\ req'[r].sid = req[r].sid /\ req'[r].ses = req[r].ses
        /\ req'[r].must = SessionsOf(Subject(r)) \ {req[r].sid}
        /\ req[r].ses # NoRow
    BY <1>4, <1>a, <1>b DEF ChangePass, Locals, Holds, WithSession
  <2>2. \A s \in req'[r].must : s # req'[r].sid /\ Mine(r, s)'
    BY <2>1, ListedAreMine, MineStands
  <2> QED
    BY <1>1, <2>1, <2>2 DEF Owned, Mine
<1>5. CASE ListIds(r)
  <2>1. /\ req'[r].pc = "delMany" /\ req'[r].sid = req[r].sid /\ req'[r].ses = req[r].ses
        /\ req'[r].must = req[r].must /\ req'[r].ids = SessionsOf(Subject(r)) \ {req[r].sid}
        /\ req[r].ses # NoRow
    BY <1>5, <1>a, <1>b DEF ListIds, ToRevoke, Locals, Holds, WithSession
  <2>2. \A s \in req'[r].ids : Mine(r, s)'
    BY <2>1, ListedAreMine, MineStands
  <2>3. \A s \in req'[r].must : s \in used' /\ (s \in req'[r].ids \/ sessions'[s] = NoRow)
    <3> SUFFICES ASSUME NEW s \in req[r].must
                 PROVE  s \in used' /\ (s \in req'[r].ids \/ sessions'[s] = NoRow)
      BY <2>1
    <3>1. s \in SessionIds /\ s # req[r].sid /\ Mine(r, s)
      BY <1>b, <1>5 DEF ListIds, Owned
    <3>2. sessions[s] # NoRow => s \in SessionsOf(Subject(r))
      BY <2>1, <3>1 DEF Mine, SessionsOf, Live, Subject, TypeOK
    <3>3. sessions' = sessions /\ used' = used
      BY <1>5 DEF ListIds, stored
    <3> QED
      BY <2>1, <3>1, <3>2, <3>3 DEF Mine
  <2> QED
    BY <1>1, <2>1, <2>2, <2>3 DEF Owned, Mine
<1>6. CASE FindSession(r)
  <2>1. CASE FoundOwn(r)
    <3>1. /\ req'[r].pc = "del" /\ req'[r].sid = req[r].sid /\ req'[r].ses = req[r].ses
          /\ req'[r].target = req[r].target /\ req[r].ses # NoRow
      BY <1>6, <2>1, <1>a, <1>b DEF FindSession, Locals, Holds, WithSession
    <3>2. req[r].target \in SessionIds /\ Mine(r, req[r].target)'
      BY <2>1, <3>1, ListedAreMine, MineStands DEF FoundOwn
    <3> QED
      BY <1>1, <3>1, <3>2 DEF Owned, Mine
  <2> QED
    BY <1>0, <1>6, <2>1 DEF FindSession
<1>7. CASE DeleteSelf(r)
  <2>1. CASE users[Subject(r)] # NoRow
    <3>1. /\ req'[r].pc = "delUser" /\ req'[r].sid = req[r].sid /\ req'[r].ses = req[r].ses
          /\ req'[r].pass = req[r].pass /\ req'[r].usr = req[r].usr
      BY <1>7, <2>1, <1>a, <1>b DEF DeleteSelf, Locals
    <3>2. req[r].ses.context = "user" /\ req[r].pass = req[r].usr.pass
      BY <1>7 DEF DeleteSelf, ContextAllowed, PasswordMatches
    <3> QED
      BY <1>1, <3>1, <3>2 DEF Owned, Mine
  <2> QED
    BY <1>0, <1>7, <2>1 DEF DeleteSelf
<1>8. CASE DelUser(r)
  <2>1. /\ req'[r].pc = "post" /\ req'[r].sid = req[r].sid /\ req'[r].ses = req[r].ses
        /\ req[r].ses # NoRow /\ req[r].ses \in SessionRows
    BY <1>8, <1>a, <1>b DEF DelUser, Locals, Holds, WithSession
  <2>2. users'[req[r].ses.user] = NoRow
    BY <1>8, <2>1 DEF DelUser, Del, DelMany, Subject, SessionRows, TypeOK
  <2> QED
    BY <1>1, <2>1, <2>2 DEF Owned, Mine
<1> QED
  BY <1>0, <1>3, <1>4, <1>5, <1>6, <1>7, <1>8
  DEF Continue, AddUser, Sign, RefuseContext, RefusePassword, DelManySessions, DelSession,
    DeleteSessions, Logout, DropOld, PostUserDelete, AddMasterKey, DropMasterKey

\* What runs in the background lists sessions of a user that is gone, or sessions
\* that have expired; and they stay that.
LEMMA PurgesStay ==
  ASSUME OwnerInv, [Next]_vars
  PROVE  Purgeable'
<1> USE DEF OwnerInv, ActsInv
<1> DEFINE Dead(s) == /\ s \in used
                      /\ s \in expired \/ sessions[s] = NoRow \/ users[sessions[s].user] = NoRow
<1>1. ASSUME NEW s \in SessionIds, Dead(s)
      PROVE  Dead(s)'
  <2>1. s \in used' /\ (sessions'[s] = sessions[s] \/ sessions'[s] = NoRow)
    BY <1>1, SessionsStand
  <2>2. CASE s \in expired
    BY <2>1, <2>2, UsedGrows
  <2>3. CASE sessions[s] = NoRow
    BY <2>1, <2>3
  <2>4. CASE sessions[s] # NoRow /\ users[sessions[s].user] = NoRow
    <3>1. sessions[s].user \in UserIds /\ sessions[s].user \in used
      BY <2>4 DEF TypeOK, SessionRows, IdsDrawn, Live
    <3> QED
      BY <2>1, <2>4, <3>1, UsersStayGone
  <2> QED
    BY <1>1, <2>2, <2>3, <2>4
<1>2. ASSUME NEW ids \in purges
      PROVE  \A s \in ids : Dead(s)'
  BY <1>1, <1>2 DEF Purgeable, TypeOK
<1>3. CASE purges' \subseteq purges
  BY <1>2, <1>3 DEF Purgeable
<1>4. ASSUME NEW r \in Reqs, PostUserDelete(r)
      PROVE  Purgeable'
  <2>1. req[r].ses # NoRow /\ users[Subject(r)] = NoRow
    BY <1>4, HeldHasType DEF PostUserDelete, At, Holds, WithSession, Owned, Subject
  <2>2. \A s \in SessionsOf(Subject(r)) : s \in SessionIds /\ Dead(s)
    BY <2>1 DEF SessionsOf, Live, IdsDrawn, TypeOK
  <2>3. \A s \in SessionsOf(Subject(r)) : Dead(s)'
    BY <1>1, <2>2
  <2> QED
    BY <1>2, <1>4, <2>3 DEF PostUserDelete, PurgeList, Purgeable
<1>5. CASE CleanSessions
  <2>1. \A s \in ExpiredSessions : s \in SessionIds /\ Dead(s)
    BY DEF ExpiredSessions, Live, IdsDrawn, TypeOK
  <2>2. \A s \in ExpiredSessions : Dead(s)'
    BY <1>1, <2>1
  <2> QED
    BY <1>2, <1>5, <2>2 DEF CleanSessions, Purgeable
<1>6. ASSUME NEW r \in Reqs, Start(r)
      PROVE  purges' = purges
  BY <1>6 DEF Start, StartLogin, StartRegister, StartGenerate, StartAuthed, stored
<1>7. ASSUME NEW r \in Reqs, Continue(r), ~PostUserDelete(r)
      PROVE  purges' = purges
  BY <1>7 DEF Continue, AddUser, KeyUser, AddSession, Sign, Verify, RefuseContext, RefusePassword,
    ChangePass, ListIds, DelManySessions, FindSession, DelSession, DeleteSessions, Logout,
    DropOld, DeleteSelf, DelUser, AddMasterKey, DropMasterKey, stored
<1>8. ASSUME \A r \in Reqs : ~Start(r) /\ ~Continue(r), ~CleanSessions
      PROVE  purges' \subseteq purges
  BY <1>8 DEF Next, Expire, Purge, Crash, vars
<1> QED
  BY <1>3, <1>4, <1>5, <1>6, <1>7, <1>8

\* The invariant holds of the empty database.
LEMMA InitOwner == Init => OwnerInv
<1> SUFFICES ASSUME Init
             PROVE  OwnerInv
  OBVIOUS
<1>1. \A r \in Reqs : Owned(r)
  BY DEF Init, Owned, Blank
<1> QED
  BY <1>1, InitActs DEF OwnerInv, Purgeable, Init

\* Every step keeps it.
LEMMA NextOwner ==
  ASSUME OwnerInv, [Next]_vars
  PROVE  OwnerInv'
<1> USE DEF OwnerInv
<1>1. ASSUME NEW r \in Reqs
      PROVE  Owned(r)'
  <2>1. req'[r] = req[r] \/ req'[r] = Blank \/ Start(r) \/ Continue(r)
    BY RequestsChange DEF ActsInv
  <2> QED
    BY <2>1, StandingStaysOwned, BlankIsOwned, StartIsOwned, ContinueIsOwned
<1> QED
  BY <1>1, NextActs, PurgesStay

\* The inductive invariant holds throughout.
LEMMA OwnerInvariant == Spec => []OwnerInv
<1>1. OwnerInv /\ [Next]_vars => OwnerInv'
  BY NextOwner
<1> QED
  BY InitOwner, <1>1, PTL DEF Spec
-----------------------------------------------------------------------------
(* Theorems. *)

\* When change-pass answers, every session that the user had when the new password was
\* stored is gone but the one that asked, whatever happened between the listing and the
\* deletion.
THEOREM PasswordRevokesAll == Spec => RevocationComplete
<1>1. ASSUME OwnerInv, NEW r \in Reqs, DelManySessions(r), NEW s \in req[r].must
      PROVE  sessions'[s] = NoRow
  <2>1. s \in SessionIds
    BY <1>1, HeldHasType DEF OwnerInv, ActsInv
  <2>2. s \in req[r].ids \/ sessions[s] = NoRow
    BY <1>1 DEF OwnerInv, Owned, DelManySessions, At
  <2> QED
    BY <1>1, <2>1, <2>2 DEF DelManySessions, DelMany, OwnerInv, ActsInv, TypeOK
<1>2. OwnerInv /\ [Next]_vars =>
        [\A r \in Reqs : DelManySessions(r) => \A s \in req[r].must : sessions'[s] = NoRow]_vars
  BY <1>1
<1> QED
  BY <1>2, OwnerInvariant, PTL DEF Spec, RevocationComplete

\* The row of a user changes or goes only through a request with a session of the user's
\* own, never an app's, and with the password that the user had when it was read.
THEOREM OwnersAccount == Spec => AccountNeedsOwner
<1> DEFINE By(r, u) == /\ req'[r] # req[r] /\ req[r].ses # NoRow
                       /\ req[r].ses.user = u /\ req[r].ses.context = "user"
                       /\ req[r].pass = req[r].usr.pass
<1>1. ASSUME OwnerInv, [Next]_vars, NEW u \in Live(users), users'[u] # users[u]
      PROVE  \E r \in Reqs : By(r, u)
  <2> USE DEF OwnerInv, ActsInv
  <2>0. req \in [Reqs -> Request] /\ u \in UserIds /\ users[u] # NoRow /\ u \in used
    BY <1>1 DEF TypeOK, Live, IdsDrawn
  <2>1. ASSUME NEW r \in Reqs, ChangePass(r)
        PROVE  By(r, u)
    <3>1. req[r].ses # NoRow /\ req[r].pc = "handler" /\ req'[r].pc = "listIds"
      BY <1>1, <2>0, <2>1, HeldHasType DEF ChangePass, Handling, At, Locals, Holds, WithSession
    <3>2. Subject(r) = u
      BY <1>1, <2>0, <2>1 DEF ChangePass, Put, TypeOK
    <3> QED
      BY <2>1, <3>1, <3>2
      DEF ChangePass, Handling, ContextAllowed, PasswordMatches, Subject
  <2>2. ASSUME NEW r \in Reqs, DelUser(r)
        PROVE  By(r, u)
    <3>1. req[r].ses # NoRow /\ req[r].pc = "delUser" /\ req'[r].pc = "post"
      BY <1>1, <2>0, <2>2, HeldHasType DEF DelUser, At, Locals, Holds, WithSession
    <3>2. Subject(r) = u
      BY <1>1, <2>0, <2>2 DEF DelUser, Del, DelMany, TypeOK
    <3> QED
      BY <1>1, <3>1, <3>2 DEF Owned, Subject
  <2>3. ASSUME NEW r \in Reqs, AddUser(r)
        PROVE  FALSE
    <3>1. UserIds \ used # {} => Fresh(UserIds) # u
      BY <2>0, FreshIsUnused
    <3> QED
      BY <1>1, <2>0, <2>3, <3>1 DEF AddUser, Add, TypeOK
  <2>4. ASSUME NEW r \in Reqs, Start(r)
        PROVE  FALSE
    BY <1>1, <2>4 DEF Start, StartLogin, StartRegister, StartGenerate, StartAuthed, stored
  <2>5. ASSUME NEW r \in Reqs, Continue(r), ~AddUser(r), ~ChangePass(r), ~DelUser(r)
        PROVE  FALSE
    BY <1>1, <2>5 DEF Continue, KeyUser, AddSession, Sign, Verify, RefuseContext, RefusePassword,
      ListIds, DelManySessions, FindSession, DelSession, DeleteSessions, Logout, DropOld,
      DeleteSelf, PostUserDelete, AddMasterKey, DropMasterKey, stored
  <2>6. ASSUME \A r \in Reqs : ~Start(r) /\ ~Continue(r)
        PROVE  FALSE
    BY <1>1, <2>6 DEF Next, Expire, CleanSessions, Purge, Crash, vars
  <2> QED
    BY <2>1, <2>2, <2>3, <2>4, <2>5, <2>6
<1>2. OwnerInv /\ [Next]_vars => 
        [\A u \in Live(users) : users'[u] # users[u] =>
           \E r \in Reqs : /\ req'[r] # req[r]
                           /\ req[r].ses # NoRow
                           /\ req[r].ses.user = u /\ req[r].ses.context = "user"
                           /\ req[r].pass = req[r].usr.pass]_vars
  BY <1>1
<1> QED
  BY <1>2, OwnerInvariant, PTL DEF Spec, AccountNeedsOwner

\* A session goes only by a request of its own user, after that user went, or after it
\* expired: what a handler, the listener or a sweep has listed is still theirs to delete
\* when they delete it.
THEOREM OwnersRevoke == Spec => OnlyOwnerRevokes
<1> DEFINE By(r, s) == /\ req'[r] # req[r] /\ req[r].ses # NoRow
                       /\ req[r].ses.user = sessions[s].user
           Allowed(s) == s \in expired \/ users[sessions[s].user] = NoRow \/ \E r \in Reqs : By(r, s)
<1>1. ASSUME OwnerInv, [Next]_vars, NEW s \in Live(sessions), sessions'[s] = NoRow
      PROVE  Allowed(s)
  <2> USE DEF OwnerInv, ActsInv
  <2>0. req \in [Reqs -> Request] /\ s \in SessionIds /\ sessions[s] # NoRow /\ s \in used
    BY <1>1 DEF TypeOK, Live, IdsDrawn
  <2>1. ASSUME NEW r \in Reqs, DelManySessions(r) \/ DelSession(r) \/ Logout(r) \/ DropOld(r)
        PROVE  By(r, s)
    <3>1. req[r].ses # NoRow /\ req[r].sid # NoRow /\ req[r].pc # "idle" /\ req'[r].pc = "idle"
      BY <1>1, <2>0, <2>1, HeldHasType
      DEF DelManySessions, DelSession, Logout, DropOld, Handling, At, Holds, WithSession, Answer, Blank
    <3>2. Mine(r, s)
      <4>1. CASE DelManySessions(r)
        <5>1. s \in req[r].ids
          BY <1>1, <2>0, <4>1 DEF DelManySessions, DelMany, TypeOK
        <5> QED
          BY <1>1, <4>1, <5>1 DEF DelManySessions, At, Owned
      <4>2. CASE DelSession(r)
        <5>1. s = req[r].target
          BY <1>1, <2>0, <4>2 DEF DelSession, Del, DelMany, TypeOK
        <5> QED
          BY <1>1, <4>2, <5>1 DEF DelSession, At, Owned
      <4>3. CASE Logout(r) \/ DropOld(r)
        <5>1. s = req[r].sid
          BY <1>1, <2>0, <4>3 DEF Logout, DropOld, Del, DelMany, TypeOK
        <5> QED
          BY <1>1, <3>1, <5>1 DEF Owned
      <4> QED
        BY <2>1, <4>1, <4>2, <4>3
    <3> QED
      BY <2>0, <3>1, <3>2 DEF Mine
  <2>2. ASSUME NEW ids \in purges, Purge(ids)
        PROVE  Allowed(s)
    <3>1. s \in ids
      BY <1>1, <2>0, <2>2 DEF Purge, DelMany, TypeOK
    <3> QED
      BY <1>1, <2>0, <3>1 DEF Purgeable
  <2>3. ASSUME NEW r \in Reqs, AddSession(r)
        PROVE  FALSE
    <3>1. Fresh(SessionIds) # s
      BY <2>0, <2>3, FreshIsUnused DEF AddSession
    <3> QED
      BY <1>1, <2>0, <2>3, <3>1 DEF AddSession, Add, TypeOK
  <2>4. ASSUME sessions' = sessions
        PROVE  FALSE
    BY <1>1, <2>0, <2>4
  <2>5. ASSUME NEW r \in Reqs, Start(r)
        PROVE  sessions' = sessions
    BY <2>5 DEF Start, StartLogin, StartRegister, StartGenerate, StartAuthed, stored
  <2>6. ASSUME NEW r \in Reqs, Continue(r), ~AddSession(r),
               ~DelManySessions(r), ~DelSession(r), ~Logout(r), ~DropOld(r)
        PROVE  sessions' = sessions
    BY <2>6 DEF Continue, AddUser, KeyUser, Sign, Verify, RefuseContext, RefusePassword,
      ChangePass, ListIds, FindSession, DeleteSessions, DeleteSelf, DelUser, PostUserDelete,
      AddMasterKey, DropMasterKey, stored
  <2>7. ASSUME \A r \in Reqs : ~Start(r) /\ ~Continue(r), \A ids \in purges : ~Purge(ids)
        PROVE  sessions' = sessions
    BY <1>1, <2>7 DEF Next, Expire, CleanSessions, Crash, vars
  <2> QED
    BY <2>1, <2>2, <2>3, <2>4, <2>5, <2>6, <2>7
<1>2. OwnerInv /\ [Next]_vars => 
        [\A s \in Live(sessions) : sessions'[s] = NoRow =>
           \/ s \in expired
           \/ users[sessions[s].user] = NoRow
           \/ \E r \in Reqs : /\ req'[r] # req[r]
                              /\ req[r].ses # NoRow
                              /\ req[r].ses.user = sessions[s].user]_vars
  BY <1>1
<1> QED
  BY <1>2, OwnerInvariant, PTL DEF Spec, OnlyOwnerRevokes
=============================================================================
