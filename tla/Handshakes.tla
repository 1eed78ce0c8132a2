----------------------------- MODULE Handshakes -----------------------------
(***************************************************************************)
(* The handshakes by which an app obtains a session: the app starts one, a *)
(* user approves or cancels it, the app completes it with the code that    *)
(* the approval gave it.  The module composes with AuthCore: the routes of *)
(* the user run behind its session middleware (steps "verify", "handler"), *)
(* completeHandshake ends in its addSession and its signing of the token,  *)
(* and its DELETE /self takes users away in the meantime.                  *)
(***************************************************************************)
EXTENDS AuthCore

CONSTANTS
  Codes,      \* what getSalt() draws: 16 random bytes, never the same twice
  Redirects,
  Terms,      \* what apps ask for: [app, redirect, scope]
  Started     \* bound: the terms that handshakes of this instance start with

ASSUME TermsAssumption ==
  /\ Terms \subseteq [app : Apps, redirect : Redirects, scope : Scopes]
  /\ Started \subseteq Terms

HandshakeRows == [terms : Terms, user : UserIds \cup {NoRow}, code : Codes \cup {NoRow}]

ASSUME HandshakeAssumption == NoRow \notin HandshakeRows \cup Codes

VARIABLES
  handshakes,  \* the table
  drawn,       \* ids and codes drawn so far
  overdue,     \* handshakes older than handshakeExpTime
  given,       \* codes that an approval has handed to an app
  approved,    \* history: by code, who drew it and for which terms
  sweep,       \* the ids cleanHandshakes has listed and will delete
  hreq         \* by slot, what a handshake handler holds between awaits

hvars == <<handshakes, drawn, overdue, given, approved, sweep, hreq>>
allvars == <<vars, hvars>>

HandshakeSteps == {"none", "dropOverdue", "pickCode", "put", "cancel", "drop", "owner"}
HandshakeRequest == [
  step  : HandshakeSteps,
  id    : HandshakeIds \cup {NoRow},
  hs    : HandshakeRows \cup {NoRow},   \* the handshake as it was read
  code  : Codes \cup {NoRow},           \* the code it was asked for or has drawn
  terms : Terms \cup {NoRow}]           \* what the body of /complete says

NoHandshake == [step |-> "none", id |-> NoRow, hs |-> NoRow, code |-> NoRow, terms |-> NoRow]

\* The handler of slot r is at this step of its own.
In(r, step) == At(r, "elsewhere") /\ hreq[r].step = step

Respond(r, status) == Answer(r, status) /\ hreq' = [hreq EXCEPT ![r] = NoHandshake]
GoTo(r, step) == /\ hreq' = [hreq EXCEPT ![r].step = step]
                 /\ UNCHANGED req
-----------------------------------------------------------------------------
\* No app may call itself what the keys of secure apps begin with.
Reserved(terms) == terms.app = "secure"

\* GET /handshake/start, for anybody.
StartHandshake(terms) ==
  /\ ~Reserved(terms)
  /\ HandshakeIds \ drawn # {}
  /\ LET h == CHOOSE i \in HandshakeIds : i \notin drawn
     IN  /\ handshakes' = Add(handshakes, h, [terms |-> terms, user |-> NoRow, code |-> NoRow])
         /\ drawn' = drawn \cup {h}
  /\ UNCHANGED <<vars, overdue, given, approved, sweep, hreq>>

\* testHandshake, in the middleware of /handshake/:id.
TestHandshake(r) ==
  /\ At(r, "handler") /\ req[r].op \in HandshakeOps /\ ContextAllowed(r)
  /\ LET h  == req[r].target
         hs == handshakes[h]
         Read(step) == /\ req' = [req EXCEPT ![r].pc = "elsewhere"]
                       /\ hreq' = [hreq EXCEPT ![r] =
                                     [NoHandshake EXCEPT !.step = step, !.id = h, !.hs = hs]]
     IN  IF hs = NoRow \/ hs.user \notin {NoRow, Subject(r)}
         THEN Respond(r, "404")
         ELSE CASE h \in overdue -> Read("dropOverdue")
                [] h \notin overdue /\ req[r].op = "viewHandshake" -> Respond(r, "200")
                [] h \notin overdue /\ req[r].op = "approveHandshake" -> Read("pickCode")
                [] h \notin overdue /\ req[r].op = "cancelHandshake" -> Read("cancel")
  /\ UNCHANGED <<stored, handshakes, drawn, overdue, given, approved, sweep>>

\* delHandshake, for a handshake that is overdue or that the user cancels.
DelHandshake(r) ==
  /\ In(r, "dropOverdue") \/ In(r, "cancel")
  /\ handshakes' = Del(handshakes, hreq[r].id)
  /\ Respond(r, IF In(r, "cancel") THEN "302" ELSE "404")
  /\ UNCHANGED <<stored, drawn, overdue, given, approved, sweep>>

\* approveHandshake draws codes until it has one that no handshake carries.
PickCode(r) ==
  /\ In(r, "pickCode")
  /\ Codes \ drawn # {}
  /\ LET c == CHOOSE i \in Codes : i \notin drawn
     IN  /\ drawn' = drawn \cup {c}
         /\ hreq' = [hreq EXCEPT ![r].step = "put", ![r].code = c]
  /\ UNCHANGED <<vars, handshakes, overdue, given, approved, sweep>>

\* An approval that leaves the user of an earlier one (a bug the code avoids).
FirstApprover(r) ==
  LET old == handshakes[hreq[r].id]
  IN  [hreq[r].hs EXCEPT !.code = hreq[r].code,
                         !.user = IF old # NoRow /\ old.user # NoRow THEN old.user ELSE Subject(r)]

\* An approval that stores the user where its id belongs (a bug the code avoids).
WholeUser(r) == [hreq[r].hs EXCEPT !.user = users[Subject(r)], !.code = hreq[r].code]

\* The handshake as it was read by testHandshake, with user and code set.
ApprovedRow(r) == [hreq[r].hs EXCEPT !.user = Subject(r), !.code = hreq[r].code]

\* Another approval, a cancel or a complete may have come in between.
PutHandshake(r) ==
  /\ In(r, "put")
  /\ handshakes' = Put(handshakes, hreq[r].id, ApprovedRow(r))
  /\ given' = given \cup {hreq[r].code}
  /\ approved' = [approved EXCEPT ![hreq[r].code] =
                    [user |-> Subject(r), terms |-> hreq[r].hs.terms]]
  /\ Respond(r, "302")
  /\ UNCHANGED <<stored, drawn, overdue, sweep>>
-----------------------------------------------------------------------------
\* POST /handshake/complete with a code and what the app asked for.
WithCode(code) == {h \in Live(handshakes) : handshakes[h].code = code}

Complete(r, code, terms) ==
  /\ "completeHandshake" \in Ops /\ Idle(r) /\ RoomFor("completeHandshake")
  /\ \/ Reserved(terms) /\ Respond(r, "403")
     \/ ~Reserved(terms) /\ WithCode(code) = {} /\ Respond(r, "404")
     \/ /\ ~Reserved(terms)
        /\ \E h \in WithCode(code) :
             /\ req' = [req EXCEPT ![r] =
                          [Blank EXCEPT !.pc = "elsewhere", !.op = "completeHandshake",
                                        !.stale = handshakes[h].user \notin Live(users)]]
             /\ hreq' = [hreq EXCEPT ![r] = [step |-> "drop", id |-> h, hs |-> handshakes[h],
                                             code |-> code, terms |-> terms]]
  /\ UNCHANGED <<stored, handshakes, drawn, overdue, given, approved, sweep>>

\* The handshake is deleted first; a wrong redirect is found out after that.
SpendHandshake(r) ==
  /\ In(r, "drop")
  /\ handshakes' = Del(handshakes, hreq[r].id)
  /\ IF hreq[r].hs.terms.redirect = hreq[r].terms.redirect
     THEN GoTo(r, "owner")
     ELSE Respond(r, "400")
  /\ UNCHANGED <<stored, drawn, overdue, given, approved, sweep>>

\* A completion that trusts the row for its user (a bug the code avoids).
SameTerms(r) == hreq[r].hs.terms = hreq[r].terms

\* The user still exists, and app, permissions and collections are the ones
\* the handshake was started with.
Completable(r) == users[hreq[r].hs.user] # NoRow /\ SameTerms(r)

\* addSession gets user, app and username, and nothing of what was approved.
OwnerOfHandshake(r) ==
  /\ In(r, "owner")
  /\ IF Completable(r)
     THEN /\ req' = [req EXCEPT ![r].pc = "addSession",
                       ![r].row = [user |-> hreq[r].hs.user, context |-> hreq[r].hs.terms.app,
                                   scope |-> NoScope]]
          /\ UNCHANGED hreq
     ELSE Respond(r, IF users[hreq[r].hs.user] = NoRow THEN "404" ELSE "400")
  /\ UNCHANGED <<stored, handshakes, drawn, overdue, given, approved, sweep>>
-----------------------------------------------------------------------------
\* handshakeExpTime passes since a handshake was started.
Overdue(h) ==
  /\ h \in Live(handshakes) \ overdue
  /\ overdue' = overdue \cup {h}
  /\ UNCHANGED <<vars, handshakes, drawn, given, approved, sweep, hreq>>

\* cleanHandshakes lists what is overdue, then deletes what it has listed.
CleanHandshakes ==
  /\ sweep = {} /\ overdue \cap Live(handshakes) # {}
  /\ sweep' = overdue \cap Live(handshakes)
  /\ UNCHANGED <<vars, handshakes, drawn, overdue, given, approved, hreq>>

DelManyHandshakes ==
  /\ sweep # {}
  /\ handshakes' = DelMany(handshakes, sweep)
  /\ sweep' = {}
  /\ UNCHANGED <<vars, drawn, overdue, given, approved, hreq>>
-----------------------------------------------------------------------------
HsInit ==
  /\ Init
  /\ handshakes = [h \in HandshakeIds |-> NoRow]
  /\ drawn = {} /\ overdue = {} /\ given = {} /\ sweep = {}
  /\ approved = [c \in Codes |-> NoRow]
  /\ hreq = [r \in Reqs |-> NoHandshake]

\* A step of AuthCore; the slot of a completion is given back by its Sign, and
\* a crash takes what the handlers hold.
CoreStep ==
  /\ \/ (\E r \in Reqs : Start(r) \/ Continue(r))
     \/ (\E s \in SessionIds : Expire(s))
     \/ CleanSessions
     \/ (\E ids \in purges : Purge(ids))
  /\ hreq' = [r \in Reqs |-> IF Idle(r)' THEN NoHandshake ELSE hreq[r]]
  /\ UNCHANGED <<handshakes, drawn, overdue, given, approved, sweep>>

HsCrash ==
  /\ Crash
  /\ hreq' = [r \in Reqs |-> NoHandshake] /\ sweep' = {}
  /\ UNCHANGED <<handshakes, drawn, overdue, given, approved>>

HsNext ==
  \/ CoreStep
  \/ HsCrash
  \/ \E terms \in Started : StartHandshake(terms)
  \/ \E r \in Reqs : \/ TestHandshake(r) \/ DelHandshake(r) \/ PickCode(r) \/ PutHandshake(r)
                     \/ SpendHandshake(r) \/ OwnerOfHandshake(r)
                     \/ \E code \in given, terms \in Terms : Complete(r, code, terms)
  \/ \E h \in HandshakeIds : Overdue(h)
  \/ CleanHandshakes
  \/ DelManyHandshakes

HsSpec == HsInit /\ [][HsNext]_allvars
-----------------------------------------------------------------------------
(* Properties. *)

HsTypeOK ==
  /\ TypeOK
  /\ handshakes \in [HandshakeIds -> HandshakeRows \cup {NoRow}]
  /\ drawn \subseteq HandshakeIds \cup Codes
  /\ overdue \subseteq HandshakeIds /\ sweep \subseteq HandshakeIds
  /\ given \subseteq Codes
  /\ approved \in [Codes -> [user : UserIds, terms : Terms] \cup {NoRow}]
  /\ hreq \in [Reqs -> HandshakeRequest]

\* The session a completion adds is the app's, with the user who drew the code
\* it presented, and for the terms that user was shown: also when two users
\* approve the same handshake at once and the second overwrites the first
\* (approveHandshake, completeHandshake).
SessionIsApprovers ==
  \A r \in Reqs :
    req[r].op = "completeHandshake" /\ req[r].pc \in {"addSession", "sign"} =>
      /\ req[r].row.user = approved[hreq[r].code].user
      /\ req[r].row.context = approved[hreq[r].code].terms.app
      /\ hreq[r].terms = approved[hreq[r].code].terms

\* A handshake that was completed, cancelled or swept never comes back: an
\* approval that read it before writes nothing (putHandshake is an UPDATE).
HandshakesStayClosed ==
  [][\A h \in HandshakeIds \cap drawn : handshakes[h] = NoRow => handshakes'[h] = NoRow]_allvars

\* common/types.ts: a session "should also provide access to the requested
\* collection folders".  A completed handshake's session has the scope that the
\* user approved.
SessionHasApprovedScope ==
  \A r \in Reqs :
    req[r].op = "completeHandshake" /\ req[r].pc = "sign" /\ sessions[req[r].new] # NoRow =>
      sessions[req[r].new].scope = approved[hreq[r].code].terms.scope

\* A completion has read the row; what it will be given is settled from then on.
ToApp(user, terms) == [user |-> user, context |-> terms.app, scope |-> NoScope]
Consents == {ToApp(approved[c].user, approved[c].terms) : c \in given}

\* The session that a request has yet to be given: it asked when what it presents was
\* looked up, and that was good then.
Owed(r) ==
  CASE At(r, "addSession")                                         -> req[r].row
    [] At(r, "keyUser") /\ ~req[r].stale                           -> req[r].row
    [] At(r, "verify") /\ req[r].op = "refresh" /\ ~req[r].stale   -> req[r].ses
    [] At(r, "elsewhere") /\ req[r].op = "completeHandshake" /\ ~req[r].stale ->
         ToApp(hreq[r].hs.user, hreq[r].hs.terms)
    [] OTHER -> NoRow
Owings == [r \in Reqs |-> Owed(r)]

Service == INSTANCE Sessions WITH
  Users <- UserIds, Ids <- SessionIds, Keys <- KeyIds, Clients <- Reqs, None <- NoRow,
  accounts <- users, given <- sessions, keys <- masterKeys, known <- used,
  consents <- Consents, owed <- Owings

\* Whatever requests overlap, accounts and sessions are those of Sessions: every session
\* was given for a login, a session, a key or a consent that was good when it was looked up,
\* with its user there, although the row is added several awaits later, and none changes
\* or comes back (auth-api.ts, auth-middleware.ts).
SessionsAreGiven == Service!Spec
=============================================================================
