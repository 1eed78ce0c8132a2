--------------------------- MODULE AuthCoreProofs ---------------------------
(***************************************************************************)
(* Theorems about AuthCore, for any number of users, sessions, keys and    *)
(* requests in flight.                                                     *)
(***************************************************************************)
EXTENDS AuthCore, TLAPS

(* Tables and ids. *)

\* An INSERT of a row keeps a table's type.
LEMMA AddKeepsType ==
  ASSUME NEW S, NEW R, NEW t \in [S -> R \cup {NoRow}], NEW i \in S, NEW row \in R
  PROVE  Add(t, i, row) \in [S -> R \cup {NoRow}]
BY DEF Add

\* So does an UPDATE, whether or not it finds the row.
LEMMA PutKeepsType ==
  ASSUME NEW S, NEW R, NEW t \in [S -> R \cup {NoRow}], NEW i \in S, NEW row \in R
  PROVE  Put(t, i, row) \in [S -> R \cup {NoRow}]
BY DEF Put

\* So does a DELETE, whatever ids it names.
LEMMA DelManyKeepsType ==
  ASSUME NEW S, NEW R, NEW t \in [S -> R \cup {NoRow}], NEW ids
  PROVE  DelMany(t, ids) \in [S -> R \cup {NoRow}]
BY DEF DelMany

\* While ids are left, the one drawn was never drawn before.
LEMMA FreshIsUnused ==
  ASSUME NEW S, S \ used # {}
  PROVE  Fresh(S) \in S /\ Fresh(S) \notin used
BY DEF Fresh

\* A free slot is a request that holds nothing.
LEMMA BlankIsRequest == Blank \in Request
BY DEF Blank, Request, Locals, Holds, WithSession, Steps, AllOps

\* Answering frees the slot.
LEMMA AnswerKeepsType ==
  ASSUME req \in [Reqs -> Request], NEW r \in Reqs, NEW status, Answer(r, status)
  PROVE  req' \in [Reqs -> Request]
BY BlankIsRequest DEF Answer

\* No row, no id and no password is NoRow.
LEMMA RowsAreNotNoRow ==
  /\ NoRow \notin UserRows /\ NoRow \notin SessionRows /\ NoRow \notin KeyRows
  /\ NoRow \notin UserIds /\ NoRow \notin SessionIds /\ NoRow \notin KeyIds
  /\ NoRow \notin Passwords
BY NoRowAssumption

\* A slot may take any record of the right fields that holds what its step needs.
LEMMA MoveKeepsType ==
  ASSUME req \in [Reqs -> Request], NEW r \in Reqs, NEW q \in Locals, Holds(q),
         req' = [req EXCEPT ![r] = q]
  PROVE  req' \in [Reqs -> Request]
BY DEF Request

-----------------------------------------------------------------------------
(* Types. *)

\* POST /login up to its first await.
LEMMA LoginKeepsType ==
  ASSUME TypeOK, NEW r \in Reqs, NEW name \in Names, NEW pass \in Passwords,
         StartLogin(r, name, pass)
  PROVE  TypeOK'
<1> USE DEF TypeOK
<1>1. UNCHANGED stored
  BY DEF StartLogin
<1>2. req' \in [Reqs -> Request]
  <2>1. CASE Answer(r, "401")
    BY <2>1, AnswerKeepsType
  <2>2. ASSUME NEW u \in UsersNamed(name),
               req' = [req EXCEPT ![r] =
                         [Blank EXCEPT !.pc = "addSession", !.op = "login",
                                       !.row = [user |-> u, context |-> "user", scope |-> NoScope]]]
        PROVE  req' \in [Reqs -> Request]
    <3> DEFINE row == [user |-> u, context |-> "user", scope |-> NoScope]
               q == [Blank EXCEPT !.pc = "addSession", !.op = "login", !.row = row]
    <3>1. row \in SessionRows
      BY ConstantsAssumption DEF UsersNamed, Live, SessionRows, Contexts
    <3> HIDE DEF row
    <3>2. q \in Locals
      BY <3>1 DEF Blank, Locals, Steps, AllOps, SessionMakers
    <3>3. Holds(q)
      BY <3>1, RowsAreNotNoRow DEF Blank, Holds, WithSession
    <3> QED
      BY <2>2, <3>2, <3>3, MoveKeepsType DEF row
  <2> QED
    BY <2>1, <2>2 DEF StartLogin
<1> QED
  BY <1>1, <1>2 DEF stored

\* POST /register up to its first await.
LEMMA RegisterKeepsType ==
  ASSUME TypeOK, NEW r \in Reqs, NEW name \in Names, NEW pass \in Passwords,
         StartRegister(r, name, pass)
  PROVE  TypeOK'
<1> USE DEF TypeOK
<1> DEFINE row == [name |-> name, pass |-> pass]
           q == [Blank EXCEPT !.pc = "addUser", !.op = "register", !.usr = row]
<1>1. row \in UserRows
  BY DEF UserRows
<1> HIDE DEF row
<1>2. q \in Locals
  BY <1>1 DEF Blank, Locals, Steps, AllOps
<1>3. Holds(q)
  BY <1>1, RowsAreNotNoRow DEF Blank, Holds, WithSession
<1>4. req' \in [Reqs -> Request]
  BY <1>2, <1>3, MoveKeepsType, AnswerKeepsType DEF StartRegister, row
<1> QED
  BY <1>4 DEF StartRegister, stored

\* POST /master-key/:id/generate-session up to its first await.
LEMMA GenerateKeepsType ==
  ASSUME TypeOK, NEW r \in Reqs, NEW key \in KeyIds, NEW context \in Contexts,
         NEW scope \in Scopes, StartGenerate(r, key, context, scope)
  PROVE  TypeOK'
<1> USE DEF TypeOK
<1>1. CASE masterKeys[key] = NoRow
  BY <1>1, AnswerKeepsType DEF StartGenerate, stored
<1>2. CASE masterKeys[key] # NoRow
  <2> DEFINE row == [user |-> masterKeys[key].user, context |-> context, scope |-> scope]
             gone == masterKeys[key].user \notin Live(users)
             q == [Blank EXCEPT !.pc = "keyUser", !.op = "generateSession",
                                !.stale = gone, !.row = row]
  <2>1. row \in SessionRows
    BY <1>2 DEF SessionRows, KeyRows
  <2>2. gone \in BOOLEAN
    OBVIOUS
  <2>3. req' = [req EXCEPT ![r] = q] /\ UNCHANGED stored
    BY <1>2 DEF StartGenerate
  <2> HIDE DEF row, gone
  <2>4. q \in Locals
    BY <2>1, <2>2 DEF Blank, Locals, Steps, AllOps, SessionMakers
  <2>5. Holds(q)
    BY <2>1, RowsAreNotNoRow DEF Blank, Holds, WithSession
  <2> QED
    BY <2>3, <2>4, <2>5, MoveKeepsType DEF stored
<1> QED
  BY <1>1, <1>2

\* The session middleware up to its first await.
LEMMA AuthedKeepsType ==
  ASSUME TypeOK, NEW r \in Reqs, NEW op \in AuthedOps, NEW sid \in tokens,
         NEW body \in Bodies(op), StartAuthed(r, op, sid, body)
  PROVE  TypeOK'
<1> USE DEF TypeOK
<1>1. CASE sessions[sid] = NoRow
  BY <1>1, AnswerKeepsType DEF StartAuthed, stored
<1>2. CASE sessions[sid] # NoRow
  <2> DEFINE gone == sid \in expired \/ sessions[sid].user \notin Live(users)
             q == [Blank EXCEPT !.pc = "verify", !.op = op, !.stale = gone,
                     !.pass = body.pass, !.newpass = body.newpass, !.target = body.target,
                     !.sid = sid, !.ses = sessions[sid]]
  <2>1. /\ body.pass \in Passwords \cup {NoRow}
        /\ body.newpass \in Passwords \cup {NoRow}
        /\ op = "changePass" => body.newpass \in Passwords
        /\ body.target \in SessionIds \cup KeyIds \cup HandshakeIds \cup {NoRow}
    BY DEF Bodies
  <2>2. sid \in SessionIds /\ sessions[sid] \in SessionRows
    BY <1>2
  <2>3. gone \in BOOLEAN
    OBVIOUS
  <2>4. req' = [req EXCEPT ![r] = q] /\ UNCHANGED stored
    BY <1>2 DEF StartAuthed
  <2> HIDE DEF gone
  <2>5. q \in Locals
    BY <2>1, <2>2, <2>3 DEF Blank, Locals, Steps, AllOps
  <2>6. Holds(q)
    BY <2>1, <2>2, RowsAreNotNoRow DEF Blank, Holds, WithSession
  <2> QED
    BY <2>4, <2>5, <2>6, MoveKeepsType DEF stored
<1> QED
  BY <1>1, <1>2

\* Whatever a client starts keeps the types.
LEMMA StartKeepsType ==
  ASSUME TypeOK, NEW r \in Reqs, Start(r)
  PROVE  TypeOK'
<1>1. ASSUME NEW op \in AuthedOps, NEW sid \in tokens,
             \E body \in Bodies(op) : StartAuthed(r, op, sid, body)
      PROVE  TypeOK'
  <2> PICK body \in Bodies(op) : StartAuthed(r, op, sid, body)
    BY <1>1
  <2> QED
    BY AuthedKeepsType
<1> QED
  BY <1>1, LoginKeepsType, RegisterKeepsType, GenerateKeepsType DEF Start

\* Wherever a handler uses the user of its session, there is one to use.
LEMMA SubjectIsUser ==
  ASSUME TypeOK, NEW r \in Reqs,
         req[r].pc \in WithSession \/ req[r].pc \in {"keyUser", "addSession"}
  PROVE  Subject(r) \in UserIds
BY DEF TypeOK, Request, Locals, Holds, Subject, SessionRows

\* Whatever a request does when it resumes keeps the types.
LEMMA ContinueKeepsType ==
  ASSUME TypeOK, NEW r \in Reqs, Continue(r)
  PROVE  TypeOK'
<1> USE DEF TypeOK, At, Handling
<1>0. req[r] \in Locals /\ Holds(req[r])
  BY DEF Request
<1>1. CASE AddUser(r)
  <2>1. req' \in [Reqs -> Request]
    BY <1>1, AnswerKeepsType DEF AddUser
  <2>2. CASE Insertable(req[r].usr.name)
    <3>1. Fresh(UserIds) \in UserIds
      BY <1>1, <2>2, FreshIsUnused DEF AddUser
    <3>2. req[r].usr \in UserRows
      BY <1>0, <1>1 DEF AddUser, Locals, Holds
    <3>3. users' = Add(users, Fresh(UserIds), req[r].usr) /\ used' = used \cup {Fresh(UserIds)}
      BY <1>1, <2>2 DEF AddUser
    <3>4. users' \in [UserIds -> UserRows \cup {NoRow}]
      BY <3>1, <3>2, <3>3, AddKeepsType
    <3> QED
      BY <1>1, <2>1, <3>1, <3>3, <3>4 DEF AddUser
  <2> QED
    BY <1>1, <2>1, <2>2 DEF AddUser
<1>2. CASE KeyUser(r)
  <2> DEFINE q == [req[r] EXCEPT !.pc = "addSession"]
  <2>1. q \in Locals
    BY <1>0 DEF Locals, Steps
  <2>2. Holds(q)
    BY <1>0, <1>2 DEF KeyUser, Locals, Holds, WithSession
  <2>3. req' = [req EXCEPT ![r] = q] \/ Answer(r, "404")
    BY <1>2 DEF KeyUser
  <2>4. req' \in [Reqs -> Request]
    BY <2>1, <2>2, <2>3, MoveKeepsType, AnswerKeepsType
  <2> QED
    BY <1>2, <2>4 DEF KeyUser, stored
<1>3. CASE AddSession(r)
  <2> DEFINE s == Fresh(SessionIds)
             step == IF req[r].op = "refresh" THEN "dropOld" ELSE "sign"
             q == [req[r] EXCEPT !.new = s, !.pc = step]
  <2>1. s \in SessionIds
    BY <1>3, FreshIsUnused DEF AddSession
  <2>2. req[r].row \in SessionRows
    BY <1>0, <1>3 DEF AddSession, Locals, Holds
  <2>3. sessions' = Add(sessions, s, req[r].row) /\ used' = used \cup {s}
    BY <1>3 DEF AddSession
  <2>4. sessions' \in [SessionIds -> SessionRows \cup {NoRow}]
    BY <2>1, <2>2, <2>3, AddKeepsType
  <2>5. req' = [req EXCEPT ![r] = q]
    BY <1>3 DEF AddSession
  <2>6. step \in {"dropOld", "sign"} /\ (step = "dropOld" => req[r].op = "refresh")
    OBVIOUS
  <2> HIDE DEF s, step
  <2>7. q \in Locals
    BY <1>0, <2>1, <2>6 DEF Locals, Steps
  <2>8. Holds(q)
    BY <1>0, <1>3, <2>1, <2>6, RowsAreNotNoRow DEF AddSession, Locals, Holds, WithSession
  <2>9. req' \in [Reqs -> Request]
    BY <2>5, <2>7, <2>8, MoveKeepsType
  <2> QED
    BY <1>3, <2>1, <2>3, <2>4, <2>9 DEF AddSession
<1>4. CASE Sign(r)
  <2>1. req[r].new \in SessionIds
    BY <1>0, <1>4 DEF Sign, Locals, Holds
  <2>2. req' \in [Reqs -> Request]
    BY <1>4, AnswerKeepsType DEF Sign
  <2> QED
    BY <1>4, <2>1, <2>2 DEF Sign
<1>5. CASE Verify(r)
  <2>1. CASE Authentic(r)
    <3> DEFINE usr == IF req[r].op \in PasswordOps THEN users[req[r].ses.user] ELSE NoRow
               row == IF req[r].op = "refresh" THEN req[r].ses ELSE NoRow
               step == IF req[r].op = "refresh" THEN "addSession" ELSE "handler"
               q == [req[r] EXCEPT !.usr = usr, !.row = row, !.pc = step]
    <3>1. req[r].ses \in SessionRows /\ req[r].sid \in SessionIds
      BY <1>0, <1>5 DEF Verify, Locals, Holds, WithSession
    <3>2. users[req[r].ses.user] \in UserRows
      BY <2>1, <3>1 DEF Authentic, SessionRows
    <3>3. /\ req[r].op \in PasswordOps => usr \in UserRows
          /\ req[r].op = "refresh" => row \in SessionRows
          /\ step = "addSession" => req[r].op = "refresh"
      BY <3>1, <3>2
    <3>4. /\ usr \in UserRows \cup {NoRow}
          /\ row \in SessionRows \cup {NoRow}
          /\ step \in {"addSession", "handler"} /\ step \in Steps
      BY <3>1, <3>2 DEF Steps
    <3>5. req' = [req EXCEPT ![r] = q]
      BY <1>5, <2>1 DEF Verify
    <3> HIDE DEF usr, row, step
    <3>6. q \in Locals
      <4>1. [req[r] EXCEPT !.usr = usr] \in Locals
        BY <1>0, <3>4 DEF Locals
      <4>2. [req[r] EXCEPT !.usr = usr, !.row = row] \in Locals
        BY <4>1, <3>4 DEF Locals
      <4> QED
        BY <4>2, <3>4 DEF Locals
    <3>7. /\ req[r].op \in AuthedOps
          /\ req[r].op = "changePass" => req[r].newpass # NoRow
      <4>1. req[r].pc = "verify"
        BY <1>5 DEF Verify
      <4> QED
        BY <1>0, <4>1 DEF Holds
    <3>8. /\ q.pc = step /\ q.usr = usr /\ q.row = row /\ q.sid = req[r].sid
          /\ q.ses = req[r].ses /\ q.op = req[r].op /\ q.newpass = req[r].newpass
      BY <1>0 DEF Locals
    <3>9. Holds(q)
      BY <3>4, <3>1, <3>3, <3>7, <3>8, RowsAreNotNoRow DEF Holds, WithSession
    <3>10. req' \in [Reqs -> Request]
      BY <3>5, <3>6, <3>9, MoveKeepsType
    <3> QED
      BY <1>5, <3>10 DEF Verify, stored
  <2>2. CASE ~Authentic(r)
    BY <1>5, <2>2, AnswerKeepsType DEF Verify, stored
  <2> QED
    BY <2>1, <2>2
<1>6. CASE RefuseContext(r) \/ RefusePassword(r) \/ DeleteSessions(r) \/ DropMasterKey(r)
  BY <1>6, AnswerKeepsType
  DEF RefuseContext, RefusePassword, DeleteSessions, DropMasterKey, stored
<1>7. CASE ChangePass(r)
  <2> DEFINE u == Subject(r)
             row == [req[r].usr EXCEPT !.pass = req[r].newpass]
             must == SessionsOf(u) \ {req[r].sid}
             q == [req[r] EXCEPT !.pc = "listIds", !.must = must]
  <2>1. u \in UserIds
    BY <1>7, SubjectIsUser DEF ChangePass, WithSession
  <2>2. row \in UserRows
    BY <1>0, <1>7 DEF ChangePass, Locals, Holds, PasswordOps, UserRows
  <2>3. must \subseteq SessionIds
    BY DEF SessionsOf, Live
  <2>4. users' = Put(users, u, row) /\ req' = [req EXCEPT ![r] = q]
    BY <1>7 DEF ChangePass
  <2> HIDE DEF u, row, must
  <2>5. users' \in [UserIds -> UserRows \cup {NoRow}]
    BY <2>1, <2>2, <2>4, PutKeepsType
  <2>6. q \in Locals
    BY <1>0, <2>3 DEF Locals, Steps
  <2>7. Holds(q)
    BY <1>0, <1>7 DEF ChangePass, Locals, Holds, WithSession
  <2>8. req' \in [Reqs -> Request]
    BY <2>4, <2>6, <2>7, MoveKeepsType
  <2> QED
    BY <1>7, <2>5, <2>8 DEF ChangePass
<1>8. CASE ListIds(r)
  <2> DEFINE ids == ToRevoke(r)
             q == [req[r] EXCEPT !.ids = ids, !.pc = "delMany"]
  <2>1. ids \subseteq SessionIds
    BY DEF ToRevoke, SessionsOf, Live
  <2>2. req' = [req EXCEPT ![r] = q] /\ UNCHANGED stored
    BY <1>8 DEF ListIds
  <2> HIDE DEF ids
  <2>3. q \in Locals
    BY <1>0, <2>1 DEF Locals, Steps
  <2>4. Holds(q)
    BY <1>0, <1>8 DEF ListIds, Locals, Holds, WithSession
  <2> QED
    BY <2>2, <2>3, <2>4, MoveKeepsType DEF stored
<1>9. CASE DelManySessions(r) \/ DelSession(r) \/ Logout(r) \/ DropOld(r)
  <2>1. req' \in [Reqs -> Request]
    BY <1>9, AnswerKeepsType DEF DelManySessions, DelSession, Logout, DropOld
  <2>2. PICK ids : sessions' = DelMany(sessions, ids)
    BY <1>9 DEF DelManySessions, DelSession, Logout, DropOld, Del
  <2>3. sessions' \in [SessionIds -> SessionRows \cup {NoRow}]
    BY <2>2, DelManyKeepsType
  <2> QED
    BY <1>9, <2>1, <2>3 DEF DelManySessions, DelSession, Logout, DropOld
<1>10. CASE FindSession(r) \/ DeleteSelf(r)
  <2>1. ASSUME NEW step \in {"del", "delUser"}, req' = [req EXCEPT ![r].pc = step],
               req[r].pc = "handler"
        PROVE  req' \in [Reqs -> Request]
    <3> DEFINE q == [req[r] EXCEPT !.pc = step]
    <3>1. q \in Locals
      BY <1>0 DEF Locals, Steps
    <3>2. Holds(q)
      BY <1>0, <2>1 DEF Locals, Holds, WithSession
    <3> QED
      BY <2>1, <3>1, <3>2, MoveKeepsType
  <2>2. req' \in [Reqs -> Request]
    BY <1>10, <2>1, AnswerKeepsType DEF FindSession, DeleteSelf
  <2> QED
    BY <1>10, <2>2 DEF FindSession, DeleteSelf, stored
<1>11. CASE DelUser(r)
  <2> DEFINE q == [req[r] EXCEPT !.pc = "post"]
  <2>1. users' \in [UserIds -> UserRows \cup {NoRow}]
    BY <1>11, DelManyKeepsType DEF DelUser, Del
  <2>2. q \in Locals
    BY <1>0 DEF Locals, Steps
  <2>3. Holds(q)
    BY <1>0, <1>11 DEF DelUser, Locals, Holds, WithSession
  <2>4. req' \in [Reqs -> Request]
    BY <1>11, <2>2, <2>3, MoveKeepsType DEF DelUser
  <2> QED
    BY <1>11, <2>1, <2>4 DEF DelUser
<1>12. CASE PostUserDelete(r)
  <2>1. PurgeList(r) \subseteq SessionIds
    BY DEF PurgeList, SessionsOf, Live
  <2>2. req' \in [Reqs -> Request]
    BY <1>12, AnswerKeepsType DEF PostUserDelete
  <2> QED
    BY <1>12, <2>1, <2>2 DEF PostUserDelete
<1>13. CASE AddMasterKey(r)
  <2> DEFINE k == Fresh(KeyIds)
             row == [user |-> Subject(r)]
  <2>1. k \in KeyIds
    BY <1>13, FreshIsUnused DEF AddMasterKey
  <2>2. row \in KeyRows
    BY <1>13, SubjectIsUser DEF AddMasterKey, KeyRows, WithSession
  <2>3. masterKeys' = Add(masterKeys, k, row) /\ used' = used \cup {k}
    BY <1>13 DEF AddMasterKey
  <2>4. masterKeys' \in [KeyIds -> KeyRows \cup {NoRow}]
    BY <2>1, <2>2, <2>3, AddKeepsType
  <2>5. req' \in [Reqs -> Request]
    BY <1>13, AnswerKeepsType DEF AddMasterKey
  <2> QED
    BY <1>13, <2>1, <2>3, <2>4, <2>5 DEF AddMasterKey
<1> QED
  BY <1>1, <1>2, <1>3, <1>4, <1>5, <1>6, <1>7, <1>8, <1>9, <1>10, <1>11, <1>12, <1>13
  DEF Continue

\* The empty database is of the type.
LEMMA InitHasType == Init => TypeOK
BY BlankIsRequest DEF Init, TypeOK

\* Every step keeps the types.
LEMMA NextKeepsType ==
  ASSUME TypeOK, [Next]_vars
  PROVE  TypeOK'
<1>1. ASSUME NEW r \in Reqs, Start(r) \/ Continue(r)
      PROVE  TypeOK'
  BY <1>1, StartKeepsType, ContinueKeepsType
<1>2. ASSUME NEW s \in SessionIds, Expire(s)
      PROVE  TypeOK'
  BY <1>2 DEF TypeOK, Expire
<1>3. CASE CleanSessions
  BY <1>3 DEF TypeOK, CleanSessions, ExpiredSessions
<1>4. ASSUME NEW ids \in purges, Purge(ids)
      PROVE  TypeOK'
  <2>1. sessions' \in [SessionIds -> SessionRows \cup {NoRow}]
    BY <1>4, DelManyKeepsType DEF TypeOK, Purge
  <2> QED
    BY <1>4, <2>1 DEF TypeOK, Purge
<1>5. CASE Crash
  BY <1>5, BlankIsRequest DEF TypeOK, Crash
<1>6. CASE UNCHANGED vars
  BY <1>6 DEF TypeOK, vars
<1> QED
  BY <1>1, <1>2, <1>3, <1>4, <1>5, <1>6 DEF Next

\* The tables and the requests keep their types, and a request holds what the
\* handler uses at each step it resumes at: no continuation of CoreApi or
\* AuthApi finds a row, an id or a password missing that it reads.
THEOREM TypeCorrect == Spec => []TypeOK
<1>1. TypeOK /\ [Next]_vars => TypeOK'
  BY NextKeepsType
<1> QED
  BY InitHasType, <1>1, PTL DEF Spec
-----------------------------------------------------------------------------
(* What a step does to the tables. *)

\* What one step may do to the row of a user: nothing, delete it, insert it
\* under an id never drawn, or store another password in it.
UserStep(u) ==
  \/ users'[u] = users[u]
  \/ users'[u] = NoRow
  \/ u \notin used /\ u \in used' /\ \E r \in Reqs : AddUser(r)
  \/ users[u] # NoRow /\ \E r \in Reqs : ChangePass(r) /\ Subject(r) = u

SessionStep(s) ==
  \/ sessions'[s] = sessions[s]
  \/ sessions'[s] = NoRow
  \/ s \notin used /\ s \in used' /\ \E r \in Reqs : AddSession(r) /\ sessions'[s] = req[r].row

KeyStep(k) ==
  \/ masterKeys'[k] = masterKeys[k]
  \/ /\ k \notin used /\ k \in used'
     /\ \E r \in Reqs : AddMasterKey(r) /\ masterKeys'[k] = [user |-> Subject(r)]

\* Only register inserts a user, under a new id; only change-pass writes one.
LEMMA UsersChange ==
  ASSUME TypeOK, [Next]_vars
  PROVE  \A u \in UserIds : UserStep(u)
<1> USE DEF TypeOK
<1>1. ASSUME NEW r \in Reqs, AddUser(r), NEW u \in UserIds
      PROVE  UserStep(u)
  <2>1. UserIds \ used # {} => Fresh(UserIds) \notin used
    BY FreshIsUnused
  <2> QED
    BY <1>1, <2>1 DEF AddUser, Add, UserStep
<1>2. ASSUME NEW r \in Reqs, ChangePass(r), NEW u \in UserIds
      PROVE  UserStep(u)
  BY <1>2 DEF ChangePass, Put, UserStep
<1>3. ASSUME NEW r \in Reqs, DelUser(r), NEW u \in UserIds
      PROVE  UserStep(u)
  BY <1>3 DEF DelUser, Del, DelMany, UserStep
<1>4. ASSUME NEW r \in Reqs, Start(r)
      PROVE  users' = users
  BY <1>4 DEF Start, StartLogin, StartRegister, StartGenerate, StartAuthed, stored
<1>5. ASSUME NEW r \in Reqs, Continue(r), ~AddUser(r), ~ChangePass(r), ~DelUser(r)
      PROVE  users' = users
  BY <1>5 DEF Continue, KeyUser, AddSession, Sign, Verify, RefuseContext, RefusePassword,
    ListIds, DelManySessions, FindSession, DelSession, DeleteSessions, Logout, DropOld,
    DeleteSelf, PostUserDelete, AddMasterKey, DropMasterKey, stored
<1>6. ASSUME \A r \in Reqs : ~Start(r) /\ ~Continue(r)
      PROVE  users' = users
  BY <1>6 DEF Next, Expire, CleanSessions, Purge, Crash, vars
<1> QED
  BY <1>1, <1>2, <1>3, <1>4, <1>5, <1>6 DEF UserStep

\* Only addSession inserts a session, under a new id; nothing writes one.
LEMMA SessionsChange ==
  ASSUME TypeOK, [Next]_vars
  PROVE  \A s \in SessionIds : SessionStep(s)
<1> USE DEF TypeOK
<1>1. ASSUME NEW r \in Reqs, AddSession(r), NEW s \in SessionIds
      PROVE  SessionStep(s)
  <2>1. Fresh(SessionIds) \notin used
    BY <1>1, FreshIsUnused DEF AddSession
  <2> QED
    BY <1>1, <2>1 DEF AddSession, Add, SessionStep
<1>2. ASSUME NEW ids, sessions' = DelMany(sessions, ids), NEW s \in SessionIds
      PROVE  SessionStep(s)
  BY <1>2 DEF DelMany, SessionStep
<1>3. ASSUME NEW r \in Reqs, DelManySessions(r) \/ DelSession(r) \/ Logout(r) \/ DropOld(r)
      PROVE  \E ids : sessions' = DelMany(sessions, ids)
  BY <1>3 DEF DelManySessions, DelSession, Logout, DropOld, Del
<1>4. ASSUME NEW r \in Reqs, Start(r)
      PROVE  sessions' = sessions
  BY <1>4 DEF Start, StartLogin, StartRegister, StartGenerate, StartAuthed, stored
<1>5. ASSUME NEW r \in Reqs, Continue(r), ~AddSession(r),
             ~DelManySessions(r), ~DelSession(r), ~Logout(r), ~DropOld(r)
      PROVE  sessions' = sessions
  BY <1>5 DEF Continue, AddUser, KeyUser, Sign, Verify, RefuseContext, RefusePassword,
    ChangePass, ListIds, FindSession, DeleteSessions, DeleteSelf, DelUser, PostUserDelete,
    AddMasterKey, DropMasterKey, stored
<1>6. ASSUME NEW ids \in purges, Purge(ids)
      PROVE  sessions' = DelMany(sessions, ids)
  BY <1>6 DEF Purge
<1>7. ASSUME \A r \in Reqs : ~Start(r) /\ ~Continue(r), \A ids \in purges : ~Purge(ids)
      PROVE  sessions' = sessions
  BY <1>7 DEF Next, Expire, CleanSessions, Crash, vars
<1> QED
  BY <1>1, <1>2, <1>3, <1>4, <1>5, <1>6, <1>7 DEF SessionStep

\* Only POST /master-key inserts a key, under a new id; nothing deletes one.
LEMMA KeysChange ==
  ASSUME TypeOK, [Next]_vars
  PROVE  \A k \in KeyIds : KeyStep(k)
<1> USE DEF TypeOK
<1>1. ASSUME NEW r \in Reqs, AddMasterKey(r), NEW k \in KeyIds
      PROVE  KeyStep(k)
  <2>1. Fresh(KeyIds) \notin used
    BY <1>1, FreshIsUnused DEF AddMasterKey
  <2> QED
    BY <1>1, <2>1 DEF AddMasterKey, Add, KeyStep
<1>2. ASSUME NEW r \in Reqs, Start(r)
      PROVE  masterKeys' = masterKeys
  BY <1>2 DEF Start, StartLogin, StartRegister, StartGenerate, StartAuthed, stored
<1>3. ASSUME NEW r \in Reqs, Continue(r), ~AddMasterKey(r)
      PROVE  masterKeys' = masterKeys
  BY <1>3 DEF Continue, AddUser, KeyUser, AddSession, Sign, Verify, RefuseContext, RefusePassword,
    ChangePass, ListIds, DelManySessions, FindSession, DelSession, DeleteSessions, Logout,
    DropOld, DeleteSelf, DelUser, PostUserDelete, DropMasterKey, stored
<1>4. ASSUME \A r \in Reqs : ~Start(r) /\ ~Continue(r)
      PROVE  masterKeys' = masterKeys
  BY <1>4 DEF Next, Expire, CleanSessions, Purge, Crash, vars
<1> QED
  BY <1>1, <1>2, <1>3, <1>4 DEF KeyStep

\* What was deleted stays deleted, in all three tables: a continuation that
\* still holds the row of a deleted user or session cannot bring it back.
THEOREM DeletedStaysDeleted == Spec => NothingReturns
<1>1. TypeOK /\ [Next]_vars =>
        /\ \A u \in UserIds \cap used : users[u] = NoRow => users'[u] = NoRow
        /\ \A s \in SessionIds \cap used : sessions[s] = NoRow => sessions'[s] = NoRow
        /\ \A k \in KeyIds \cap used : masterKeys[k] = NoRow => masterKeys'[k] = NoRow
  BY UsersChange, SessionsChange, KeysChange DEF UserStep, SessionStep, KeyStep
<1> QED
  BY <1>1, TypeCorrect, PTL DEF Spec, NothingReturns
-----------------------------------------------------------------------------
(* No request acts for the gone. *)

\* The inductive invariant.  Users that rows and requests name were drawn, so
\* that they cannot appear after they were gone ...
IdsDrawn ==
  /\ Live(users) \cup Live(sessions) \cup Live(masterKeys) \subseteq used
  /\ \A s \in Live(sessions) : sessions[s].user \in used
  /\ \A k \in Live(masterKeys) : masterKeys[k].user \in used

\* ... and what was gone when a request began is still gone when the request
\* gets to the check that is meant to find it.
Sound(r) ==
  /\ req[r].ses # NoRow => req[r].ses.user \in used
  /\ req[r].row # NoRow => req[r].row.user \in used
  /\ req[r].pc \in ActingSteps => ~req[r].stale
  /\ req[r].pc = "verify" /\ req[r].stale =>
       req[r].sid \in expired \/ users[req[r].ses.user] = NoRow
  /\ req[r].pc = "keyUser" /\ req[r].stale => users[req[r].row.user] = NoRow

ActsInv == TypeOK /\ IdsDrawn /\ \A r \in Reqs : Sound(r)

\* No id becomes unused, and no session young, again.
LEMMA UsedGrows ==
  ASSUME [Next]_vars
  PROVE  used \subseteq used' /\ expired \subseteq expired'
<1>1. ASSUME NEW r \in Reqs, Start(r)
      PROVE  used \subseteq used' /\ expired \subseteq expired'
  BY <1>1 DEF Start, StartLogin, StartRegister, StartGenerate, StartAuthed, stored
<1>2. ASSUME NEW r \in Reqs, Continue(r)
      PROVE  used \subseteq used' /\ expired \subseteq expired'
  BY <1>2 DEF Continue, AddUser, KeyUser, AddSession, Sign, Verify, RefuseContext, RefusePassword,
    ChangePass, ListIds, DelManySessions, FindSession, DelSession, DeleteSessions, Logout,
    DropOld, DeleteSelf, DelUser, PostUserDelete, AddMasterKey, DropMasterKey, stored
<1>3. ASSUME \A r \in Reqs : ~Start(r) /\ ~Continue(r)
      PROVE  used \subseteq used' /\ expired \subseteq expired'
  BY <1>3 DEF Next, Expire, CleanSessions, Purge, Crash, vars
<1> QED
  BY <1>1, <1>2, <1>3

\* A request that did not move was overtaken by nothing that it relies on.
LEMMA StandingStaysSound ==
  ASSUME TypeOK, [Next]_vars, NEW r \in Reqs, Sound(r), req'[r] = req[r]
  PROVE  Sound(r)'
<1>1. \A u \in UserIds \cap used : users[u] = NoRow => users'[u] = NoRow
  BY UsersChange DEF UserStep
<1>2. /\ req[r].pc = "verify" => req[r].ses \in SessionRows
      /\ req[r].pc = "keyUser" => req[r].row \in SessionRows
  BY DEF TypeOK, Request, Locals, Holds, WithSession
<1>3. /\ req[r].pc = "verify" => req[r].ses.user \in UserIds \cap used
      /\ req[r].pc = "keyUser" => req[r].row.user \in UserIds \cap used
  BY <1>2, RowsAreNotNoRow DEF Sound, SessionRows
<1> QED
  BY <1>1, <1>3, UsedGrows DEF Sound

\* A slot that was freed claims nothing.
LEMMA BlankIsSound ==
  ASSUME NEW r \in Reqs, req'[r] = Blank
  PROVE  Sound(r)'
BY DEF Sound, Blank, ActingSteps

\* A request that starts records what is gone and what it names was drawn.
LEMMA StartIsSound ==
  ASSUME TypeOK, IdsDrawn, NEW r \in Reqs, Start(r)
  PROVE  Sound(r)'
<1> USE DEF TypeOK
<1>0. Answer(r, "401") \/ Answer(r, "403") \/ Answer(r, "404") => Sound(r)'
  BY BlankIsSound DEF Answer
<1>1. ASSUME NEW name \in Names, NEW pass \in Passwords, StartLogin(r, name, pass)
      PROVE  Sound(r)'
  <2>1. ASSUME NEW u \in UsersNamed(name),
               req' = [req EXCEPT ![r] =
                         [Blank EXCEPT !.pc = "addSession", !.op = "login",
                                       !.row = [user |-> u, context |-> "user", scope |-> NoScope]]]
        PROVE  Sound(r)'
    <3>1. u \in used' /\ ActingSteps' = ActingSteps
      BY <1>1 DEF IdsDrawn, UsersNamed, StartLogin, stored
    <3> QED
      BY <2>1, <3>1 DEF Sound, Blank
  <2> QED
    BY <1>0, <1>1, <2>1 DEF StartLogin
<1>2. ASSUME NEW name \in Names, NEW pass \in Passwords, StartRegister(r, name, pass)
      PROVE  Sound(r)'
  <2>1. CASE req' = [req EXCEPT ![r] =
                       [Blank EXCEPT !.pc = "addUser", !.op = "register",
                                     !.usr = [name |-> name, pass |-> pass]]]
    <3>1. req'[r].pc = "addUser" /\ req'[r].ses = NoRow /\ req'[r].row = NoRow
      BY <2>1 DEF Blank
    <3> QED
      BY <3>1 DEF Sound, ActingSteps
  <2> QED
    BY <1>0, <1>2, <2>1 DEF StartRegister
<1>3. ASSUME NEW key \in KeyIds, NEW context \in Contexts, NEW scope \in Scopes,
             StartGenerate(r, key, context, scope)
      PROVE  Sound(r)'
  <2>1. CASE masterKeys[key] # NoRow
    <3> DEFINE owner == masterKeys[key].user
               gone == owner \notin Live(users)
    <3>1. owner \in used' /\ owner \in UserIds /\ UNCHANGED users
      BY <1>3, <2>1 DEF IdsDrawn, Live, KeyRows, StartGenerate, stored
    <3>2. gone => users[owner] = NoRow
      BY <3>1 DEF Live
    <3>3. req' = [req EXCEPT ![r] =
                    [Blank EXCEPT !.pc = "keyUser", !.op = "generateSession", !.stale = gone,
                       !.row = [user |-> owner, context |-> context, scope |-> scope]]]
      BY <1>3, <2>1 DEF StartGenerate
    <3> HIDE DEF gone, owner
    <3> QED
      BY <3>1, <3>2, <3>3 DEF Sound, Blank, ActingSteps
  <2> QED
    BY <1>0, <1>3, <2>1 DEF StartGenerate
<1>4. ASSUME NEW op \in AuthedOps, NEW sid \in tokens,
             \E body \in Bodies(op) : StartAuthed(r, op, sid, body)
      PROVE  Sound(r)'
  <2> PICK body \in Bodies(op) : StartAuthed(r, op, sid, body)
    BY <1>4
  <2>1. CASE sessions[sid] # NoRow
    <3> DEFINE owner == sessions[sid].user
               gone == sid \in expired \/ owner \notin Live(users)
    <3>1. owner \in used' /\ owner \in UserIds /\ UNCHANGED <<users, expired>>
      BY <2>1 DEF IdsDrawn, Live, SessionRows, StartAuthed, stored
    <3>2. gone => sid \in expired \/ users[owner] = NoRow
      BY <3>1 DEF Live
    <3>3. req' = [req EXCEPT ![r] =
                    [Blank EXCEPT !.pc = "verify", !.op = op, !.stale = gone,
                       !.pass = body.pass, !.newpass = body.newpass, !.target = body.target,
                       !.sid = sid, !.ses = sessions[sid]]]
      BY <2>1 DEF StartAuthed
    <3> HIDE DEF gone
    <3> QED
      BY <3>1, <3>2, <3>3 DEF Sound, Blank, ActingSteps
  <2> QED
    BY <1>0, <2>1 DEF StartAuthed
<1> QED
  BY <1>1, <1>2, <1>3, <1>4 DEF Start

\* The check that a request passes is the one that finds the gone.
LEMMA ContinueIsSound ==
  ASSUME TypeOK, [Next]_vars, NEW r \in Reqs, Sound(r), Continue(r)
  PROVE  Sound(r)'
<1> USE DEF TypeOK, At, Handling
<1>0. ASSUME NEW status, Answer(r, status)
      PROVE  Sound(r)'
  BY <1>0, BlankIsSound DEF Answer
<1>1. CASE KeyUser(r)
  <2>1. CASE users[req[r].row.user] # NoRow
    BY <1>1, <2>1, UsedGrows DEF KeyUser, Sound, Request, Locals
  <2> QED
    BY <1>0, <1>1, <2>1 DEF KeyUser
<1>2. CASE Verify(r)
  <2>1. CASE Authentic(r)
    <3>1. req[r] \in Locals /\ ~req[r].stale
      BY <1>2, <2>1 DEF Verify, Authentic, Sound, Request
    <3>2. /\ req'[r].ses = req[r].ses /\ req'[r].row \in {req[r].ses, NoRow}
          /\ req'[r].stale = req[r].stale
          /\ req'[r].pc \in {"addSession", "handler"}
      BY <1>2, <2>1, <3>1 DEF Verify, Locals
    <3> QED
      BY <3>1, <3>2, UsedGrows DEF Sound
  <2> QED
    BY <1>0, <1>2, <2>1 DEF Verify
<1>3. ASSUME req[r].pc \in ActingSteps, req'[r].ses = req[r].ses, req'[r].row = req[r].row,
             req'[r].stale = req[r].stale, req'[r].pc \notin {"verify", "keyUser"}
      PROVE  Sound(r)'
  BY <1>3, UsedGrows DEF Sound
<1>4. CASE AddSession(r)
  <2>1. req'[r].pc \in {"dropOld", "sign"} /\ req[r].pc = "addSession"
    BY <1>4 DEF AddSession, Request, Locals
  <2>2. /\ req'[r].ses = req[r].ses /\ req'[r].row = req[r].row
        /\ req'[r].stale = req[r].stale
    BY <1>4 DEF AddSession, Request, Locals
  <2> QED
    BY <1>3, <2>1, <2>2 DEF ActingSteps, Steps
<1>5. CASE ChangePass(r)
  <2>1. /\ req'[r].pc = "listIds" /\ req[r].pc = "handler"
        /\ req'[r].ses = req[r].ses /\ req'[r].row = req[r].row
        /\ req'[r].stale = req[r].stale
    BY <1>5 DEF ChangePass, Request, Locals
  <2> QED
    BY <1>3, <2>1 DEF ActingSteps, Steps
<1>6. CASE ListIds(r)
  <2>1. /\ req'[r].pc = "delMany" /\ req[r].pc = "listIds"
        /\ req'[r].ses = req[r].ses /\ req'[r].row = req[r].row
        /\ req'[r].stale = req[r].stale
    BY <1>6 DEF ListIds, Request, Locals
  <2> QED
    BY <1>3, <2>1 DEF ActingSteps, Steps
<1>7. ASSUME NEW step \in {"del", "delUser", "post"}, req' = [req EXCEPT ![r].pc = step],
             req[r].pc \in {"handler", "delUser"}
      PROVE  Sound(r)'
  <2>1. /\ req'[r].pc = step
        /\ req'[r].ses = req[r].ses /\ req'[r].row = req[r].row
        /\ req'[r].stale = req[r].stale
    BY <1>7 DEF Request, Locals
  <2> QED
    BY <1>3, <1>7, <2>1 DEF ActingSteps, Steps
<1>8. CASE FindSession(r) \/ DeleteSelf(r)
  BY <1>0, <1>7, <1>8 DEF FindSession, DeleteSelf
<1>9. CASE DelUser(r)
  BY <1>7, <1>9 DEF DelUser
<1> QED
  BY <1>0, <1>1, <1>2, <1>4, <1>5, <1>6, <1>8, <1>9
  DEF Continue, AddUser, Sign, RefuseContext, RefusePassword, DelManySessions, DelSession,
    DeleteSessions, Logout, DropOld, PostUserDelete, AddMasterKey, DropMasterKey

\* In one step a request stays, is answered or lost, starts or continues.
LEMMA RequestsChange ==
  ASSUME TypeOK, [Next]_vars, NEW r \in Reqs
  PROVE  req'[r] = req[r] \/ req'[r] = Blank \/ Start(r) \/ Continue(r)
<1> USE DEF TypeOK
<1>1. ASSUME NEW i \in Reqs, i # r, Start(i)
      PROVE  req'[r] = req[r]
  BY <1>1 DEF Start, StartLogin, StartRegister, StartGenerate, StartAuthed, Answer
<1>2. ASSUME NEW i \in Reqs, i # r, Continue(i)
      PROVE  req'[r] = req[r]
  BY <1>2 DEF Continue, AddUser, KeyUser, AddSession, Sign, Verify, RefuseContext, RefusePassword,
    ChangePass, ListIds, DelManySessions, FindSession, DelSession, DeleteSessions, Logout,
    DropOld, DeleteSelf, DelUser, PostUserDelete, AddMasterKey, DropMasterKey, stored, Answer
<1>3. ASSUME \A i \in Reqs : ~Start(i) /\ ~Continue(i)
      PROVE  req'[r] = req[r] \/ req'[r] = Blank
  BY <1>3 DEF Next, Expire, CleanSessions, Purge, Crash, vars
<1> QED
  BY <1>1, <1>2, <1>3

\* Rows keep naming users that were drawn.
LEMMA RowsNameTheDrawn ==
  ASSUME TypeOK, IdsDrawn, \A r \in Reqs : Sound(r), [Next]_vars
  PROVE  IdsDrawn'
<1> USE DEF TypeOK
<1>1. \A u \in UserIds : UserStep(u)
  BY UsersChange
<1>2. \A s \in SessionIds : SessionStep(s)
  BY SessionsChange
<1>3. \A k \in KeyIds : KeyStep(k)
  BY KeysChange
<1>4. TypeOK'
  BY NextKeepsType
<1>5. used \subseteq used'
  BY UsedGrows
<1>6. (Live(users) \cup Live(sessions) \cup Live(masterKeys) \subseteq used)'
  BY <1>1, <1>2, <1>3, <1>4, <1>5 DEF IdsDrawn, Live, UserStep, SessionStep, KeyStep
<1>7. (\A s \in Live(sessions) : sessions[s].user \in used)'
  <2> SUFFICES ASSUME NEW s \in SessionIds, sessions'[s] # NoRow
               PROVE  sessions'[s].user \in used'
    BY <1>4 DEF Live
  <2>1. CASE sessions'[s] = sessions[s]
    BY <1>5, <2>1 DEF IdsDrawn, Live
  <2>2. ASSUME NEW r \in Reqs, AddSession(r), sessions'[s] = req[r].row
        PROVE  sessions'[s].user \in used'
    BY <1>5, <2>2 DEF Sound
  <2> QED
    BY <1>2, <2>1, <2>2 DEF SessionStep
<1>8. (\A k \in Live(masterKeys) : masterKeys[k].user \in used)'
  <2> SUFFICES ASSUME NEW k \in KeyIds, masterKeys'[k] # NoRow
               PROVE  masterKeys'[k].user \in used'
    BY <1>4 DEF Live
  <2>1. CASE masterKeys'[k] = masterKeys[k]
    BY <1>5, <2>1 DEF IdsDrawn, Live
  <2>2. ASSUME NEW r \in Reqs, AddMasterKey(r), masterKeys'[k] = [user |-> Subject(r)]
        PROVE  masterKeys'[k].user \in used'
    <3>1. req[r].ses # NoRow
      BY <2>2 DEF AddMasterKey, Handling, At, Request, Holds, WithSession
    <3> QED
      BY <1>5, <2>2, <3>1 DEF Sound, Subject
  <2> QED
    BY <1>3, <2>1, <2>2 DEF KeyStep
<1> QED
  BY <1>6, <1>7, <1>8 DEF IdsDrawn

\* The invariant holds of the empty database.
LEMMA InitActs == Init => ActsInv
<1> SUFFICES ASSUME Init
             PROVE  ActsInv
  OBVIOUS
<1>1. IdsDrawn
  BY DEF Init, IdsDrawn, Live
<1>2. ASSUME NEW r \in Reqs
      PROVE  Sound(r)
  BY DEF Init, Sound, Blank, ActingSteps
<1> QED
  BY <1>1, <1>2, InitHasType DEF ActsInv

\* Every step keeps it.
LEMMA NextActs ==
  ASSUME ActsInv, [Next]_vars
  PROVE  ActsInv'
<1> USE DEF ActsInv
<1>1. TypeOK' /\ IdsDrawn'
  BY NextKeepsType, RowsNameTheDrawn
<1>2. ASSUME NEW r \in Reqs
      PROVE  Sound(r)'
  BY RequestsChange, StandingStaysSound, BlankIsSound, StartIsSound, ContinueIsSound
<1> QED
  BY <1>1, <1>2

\* The inductive invariant holds throughout.
LEMMA ActsInvariant == Spec => []ActsInv
<1>1. ActsInv /\ [Next]_vars => ActsInv'
  BY NextActs
<1> QED
  BY InitActs, <1>1, PTL DEF Spec

\* No request past its checks acts for a user, or through a session, that was
\* gone when the request began: the sessions that logins, refreshes and keys in
\* flight leave behind after DELETE /self open nothing.
THEOREM GoneUsersDoNotAct == Spec => []NeverActsForTheGone
<1>1. ActsInv => NeverActsForTheGone
  BY DEF ActsInv, Sound, NeverActsForTheGone
<1> QED
  BY <1>1, ActsInvariant, PTL
-----------------------------------------------------------------------------
(* Usernames. *)

\* The user that the middleware read still has its name when the handler
\* stores the whole row with another password.
NameKept(r) ==
  At(r, "handler") /\ req[r].op \in PasswordOps /\ users[Subject(r)] # NoRow =>
    users[Subject(r)].name = req[r].usr.name

NamesInv == ActsInv /\ UsernamesUnique /\ \A r \in Reqs : NameKept(r)

\* No step renames a user.
LEMMA NamesStay ==
  ASSUME ActsInv, \A r \in Reqs : NameKept(r), [Next]_vars,
         NEW u \in UserIds, u \in used, users'[u] # NoRow
  PROVE  users[u] # NoRow /\ users'[u].name = users[u].name
<1> USE DEF ActsInv, TypeOK
<1>1. UserStep(u)
  BY UsersChange
<1>2. ASSUME users[u] # NoRow, NEW r \in Reqs, ChangePass(r), Subject(r) = u
      PROVE  users'[u].name = users[u].name
  <2>1. users' = Put(users, u, [req[r].usr EXCEPT !.pass = req[r].newpass])
    BY <1>2 DEF ChangePass
  <2>2. req[r].usr \in UserRows /\ req[r].usr.name = users[u].name
    BY <1>2 DEF ChangePass, Handling, At, Request, Locals, Holds, PasswordOps, NameKept
  <2> QED
    BY <1>2, <2>1, <2>2 DEF Put, UserRows
<1> QED
  BY <1>1, <1>2 DEF UserStep

\* Every step keeps the names unique.
LEMMA NamesStayUnique ==
  ASSUME NamesInv, [Next]_vars
  PROVE  UsernamesUnique'
<1> USE DEF NamesInv, ActsInv, TypeOK
<1>1. SUFFICES ASSUME NEW u \in UserIds, NEW v \in UserIds,
                      users'[u] # NoRow, users'[v] # NoRow, users'[u].name = users'[v].name
               PROVE  u = v
  <2>1. TypeOK'
    BY NextKeepsType
  <2> QED
    BY <2>1 DEF UsernamesUnique, Live
<1>2. CASE u \in used /\ v \in used
  BY <1>1, <1>2, NamesStay DEF UsernamesUnique, Live
<1>3. CASE ~(u \in used /\ v \in used)
  <2>1. PICK r \in Reqs : AddUser(r) /\ users' # users
    <3>1. PICK w \in UserIds : w \notin used /\ users'[w] # NoRow
      BY <1>1, <1>3
    <3>2. users[w] = NoRow
      BY <3>1 DEF IdsDrawn, Live
    <3>3. UserStep(w)
      BY UsersChange
    <3> QED
      BY <3>1, <3>2, <3>3 DEF UserStep
  <2> DEFINE new == Fresh(UserIds)
  <2>2. /\ users' = Add(users, new, req[r].usr) /\ new \in UserIds
        /\ \A w \in Live(users) : users[w].name # req[r].usr.name
    BY <2>1, FreshIsUnused DEF AddUser, Insertable, UsersNamed
  <2>3. \A w \in UserIds : w # new => users'[w] = users[w]
    BY <2>2 DEF Add
  <2>4. users'[new] = req[r].usr
    BY <2>2 DEF Add
  <2> HIDE DEF new
  <2> QED
    BY <1>1, <2>2, <2>3, <2>4 DEF UsernamesUnique, Live
<1> QED
  BY <1>2, <1>3

\* No request starts in its handler: the middleware comes first.
LEMMA StartedAt ==
  ASSUME TypeOK, NEW r \in Reqs, Start(r)
  PROVE  req'[r].pc # "handler"
<1> USE DEF TypeOK
<1>0. ASSUME NEW q, q.pc # "handler", req' = [req EXCEPT ![r] = q]
      PROVE  req'[r].pc # "handler"
  BY <1>0
<1>1. ASSUME NEW status, Answer(r, status)
      PROVE  req'[r].pc # "handler"
  BY <1>1 DEF Answer, Blank
<1>2. ASSUME NEW name \in Names, NEW pass \in Passwords, StartLogin(r, name, pass)
      PROVE  req'[r].pc # "handler"
  <2> DEFINE q(u) == [Blank EXCEPT !.pc = "addSession", !.op = "login",
                        !.row = [user |-> u, context |-> "user", scope |-> NoScope]]
  <2>1. Answer(r, "401") \/ \E u \in UserIds : req' = [req EXCEPT ![r] = q(u)]
    BY <1>2 DEF StartLogin, UsersNamed, Live
  <2>2. \A u : q(u).pc = "addSession"
    BY DEF Blank
  <2> HIDE DEF q
  <2> QED
    BY <1>0, <1>1, <2>1, <2>2
<1>3. ASSUME NEW name \in Names, NEW pass \in Passwords, StartRegister(r, name, pass)
      PROVE  req'[r].pc # "handler"
  <2> DEFINE q == [Blank EXCEPT !.pc = "addUser", !.op = "register",
                     !.usr = [name |-> name, pass |-> pass]]
  <2>1. Answer(r, "403") \/ req' = [req EXCEPT ![r] = q]
    BY <1>3 DEF StartRegister
  <2>2. q.pc = "addUser"
    BY DEF Blank
  <2> HIDE DEF q
  <2> QED
    BY <1>0, <1>1, <2>1, <2>2
<1>4. ASSUME NEW key \in KeyIds, NEW context \in Contexts, NEW scope \in Scopes,
             StartGenerate(r, key, context, scope)
      PROVE  req'[r].pc # "handler"
  <2> DEFINE q == [Blank EXCEPT !.pc = "keyUser", !.op = "generateSession",
                     !.stale = masterKeys[key].user \notin Live(users),
                     !.row = [user |-> masterKeys[key].user, context |-> context, scope |-> scope]]
  <2>1. Answer(r, "404") \/ req' = [req EXCEPT ![r] = q]
    BY <1>4 DEF StartGenerate
  <2>2. q.pc = "keyUser"
    BY DEF Blank
  <2> HIDE DEF q
  <2> QED
    BY <1>0, <1>1, <2>1, <2>2
<1>5. ASSUME NEW op \in AuthedOps, NEW sid \in tokens,
             \E body \in Bodies(op) : StartAuthed(r, op, sid, body)
      PROVE  req'[r].pc # "handler"
  <2> PICK body \in Bodies(op) : StartAuthed(r, op, sid, body)
    BY <1>5
  <2> DEFINE q == [Blank EXCEPT !.pc = "verify", !.op = op,
                     !.stale = sid \in expired \/ sessions[sid].user \notin Live(users),
                     !.pass = body.pass, !.newpass = body.newpass, !.target = body.target,
                     !.sid = sid, !.ses = sessions[sid]]
  <2>1. Answer(r, "403") \/ req' = [req EXCEPT ![r] = q]
    BY DEF StartAuthed
  <2>2. q.pc = "verify"
    BY DEF Blank
  <2> HIDE DEF q
  <2> QED
    BY <1>0, <1>1, <2>1, <2>2
<1> QED
  BY <1>2, <1>3, <1>4, <1>5 DEF Start

\* Every step keeps the names that handlers hold true.
LEMMA NamesStayKept ==
  ASSUME NamesInv, [Next]_vars, NEW r \in Reqs
  PROVE  NameKept(r)'
<1> USE DEF NamesInv, ActsInv, TypeOK
<1>1. CASE req'[r] = req[r]
  <2> SUFFICES ASSUME At(r, "handler"), req[r].op \in PasswordOps, users'[Subject(r)] # NoRow
               PROVE  users'[Subject(r)].name = req[r].usr.name
    BY <1>1 DEF NameKept, At, Subject
  <2>1. Subject(r) \in UserIds /\ Subject(r) \in used
    BY SubjectIsUser DEF At, Request, Holds, WithSession, Sound, Subject
  <2> QED
    BY <2>1, NamesStay DEF NameKept
<1>2. CASE Verify(r)
  <2>1. CASE Authentic(r)
    BY <1>2, <2>1 DEF Verify, At, NameKept, Subject, Request, Locals, Holds, WithSession, stored
  <2> QED
    BY <1>2, <2>1 DEF Verify, Answer, Blank, NameKept, At
<1>3. CASE req'[r].pc # "handler"
  BY <1>3 DEF NameKept, At
<1>4. CASE Start(r)
  BY <1>3, <1>4, StartedAt
<1>5. CASE Continue(r) /\ ~Verify(r)
  <2>1. req'[r].pc # "handler"
    BY <1>5 DEF Continue, AddUser, KeyUser, AddSession, Sign, RefuseContext, RefusePassword,
      ChangePass, ListIds, DelManySessions, FindSession, DelSession, DeleteSessions, Logout,
      DropOld, DeleteSelf, DelUser, PostUserDelete, AddMasterKey, DropMasterKey, Answer, Blank,
      Request, Locals
  <2> QED
    BY <1>3, <2>1
<1> QED
  BY <1>1, <1>2, <1>3, <1>4, <1>5, RequestsChange DEF Blank

\* Every step keeps the invariant of the names.
LEMMA NextNames ==
  ASSUME NamesInv, [Next]_vars
  PROVE  NamesInv'
BY NextActs, NamesStayUnique, NamesStayKept DEF NamesInv

\* It holds of the empty database.
LEMMA InitNames == Init => NamesInv
<1> SUFFICES ASSUME Init
             PROVE  NamesInv
  OBVIOUS
<1>1. UsernamesUnique
  BY DEF Init, UsernamesUnique, Live
<1>2. \A r \in Reqs : NameKept(r)
  BY DEF Init, NameKept, At, Blank
<1> QED
  BY <1>1, <1>2, InitActs DEF NamesInv

\* No two users share a name: neither two registrations that both found the
\* name free, nor a change of password that writes back a row read earlier.
THEOREM NamesAreUnique == Spec => []UsernamesUnique
<1>1. NamesInv /\ [Next]_vars => NamesInv'
  BY NextNames
<1>2. NamesInv => UsernamesUnique
  BY DEF NamesInv
<1> QED
  BY InitNames, <1>1, <1>2, PTL DEF Spec
=============================================================================
