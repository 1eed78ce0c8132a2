-------------------------- MODULE HandshakeProofs ---------------------------
(***************************************************************************)
(* Theorems about Handshakes, composed with AuthCore, for any number of    *)
(* users, apps, handshakes and requests: whose session a completion gives, *)
(* that a handshake that is over stays over, that neither the routes of    *)
(* AuthApi nor those of handshakes let the deleted act, and that all of it *)
(* together implements Sessions.                                           *)
(***************************************************************************)
EXTENDS Handshakes, OwnershipProofs

\* What a handshake's row says: a code in it was drawn by its user's approval, for the
\* terms it has.
RowsHeld ==
  \A h \in Live(handshakes) :
    /\ handshakes[h].user # NoRow => handshakes[h].user \in used
    /\ handshakes[h].code # NoRow =>
         /\ handshakes[h].user # NoRow /\ handshakes[h].code \in given
         /\ approved[handshakes[h].code] =
              [user |-> handshakes[h].user, terms |-> handshakes[h].terms]

UserSteps == {"dropOverdue", "pickCode", "put", "cancel"}
AppSteps  == {"drop", "owner"}

\* A user's request in a handler of its handshake ...
Deciding(r) ==
  req[r].op \in HandshakeOps /\ req[r].ses # NoRow /\ hreq[r].step \in UserSteps

\* ... and an app's: what it read of the row outlives the row.
Completing(r) ==
  /\ req[r].op = "completeHandshake" /\ hreq[r].step \in AppSteps
  /\ req[r].ses = NoRow /\ req[r].row = NoRow
  /\ hreq[r].code \in given /\ hreq[r].terms \in Terms
  /\ hreq[r].hs.user \in UserIds /\ hreq[r].hs.user \in used
  /\ approved[hreq[r].code] = [user |-> hreq[r].hs.user, terms |-> hreq[r].hs.terms]
  /\ req[r].stale => users[hreq[r].hs.user] = NoRow

\* What a slot holds at its step.
Held(r) ==
  /\ req[r].op = "completeHandshake" => req[r].pc \in {"elsewhere", "addSession", "sign"}
  /\ req[r].op \in HandshakeOps /\ req[r].pc \in {"verify", "handler"} => req[r].target \in HandshakeIds
  /\ req[r].pc = "elsewhere" =>
       /\ hreq[r].id \in HandshakeIds /\ hreq[r].hs \in HandshakeRows
       /\ Deciding(r) \/ Completing(r)
       /\ hreq[r].step = "put" =>
            hreq[r].code \in Codes /\ hreq[r].code \in drawn /\ hreq[r].code \notin given
  /\ req[r].op = "completeHandshake" /\ req[r].pc \in {"addSession", "sign"} =>
       /\ hreq[r].code \in given
       /\ req[r].row.user = approved[hreq[r].code].user
       /\ req[r].row.context = approved[hreq[r].code].terms.app
       /\ hreq[r].terms = approved[hreq[r].code].terms

\* No two approvals under way have drawn the same code.
CodesApart ==
  \A r, s \in Reqs : r # s /\ In(r, "put") /\ In(s, "put") => hreq[r].code # hreq[s].code

HsInv ==
  /\ ActsInv /\ HsTypeOK /\ given \subseteq drawn
  /\ RowsHeld /\ (\A r \in Reqs : Held(r)) /\ CodesApart

\* The types of the variables that Handshakes adds.
HsTypes ==
  /\ handshakes \in [HandshakeIds -> HandshakeRows \cup {NoRow}]
  /\ drawn \subseteq HandshakeIds \cup Codes
  /\ overdue \subseteq HandshakeIds /\ sweep \subseteq HandshakeIds
  /\ given \subseteq Codes
  /\ approved \in [Codes -> [user : UserIds, terms : Terms] \cup {NoRow}]
  /\ hreq \in [Reqs -> HandshakeRequest]
-----------------------------------------------------------------------------
(* What stays true when others take a step. *)

\* Ids and codes stay drawn, codes given, the gone gone, and a code that was given is of
\* the approval it was given for.
Grows ==
  /\ used \subseteq used' /\ given \subseteq given' /\ drawn \subseteq drawn'
  /\ \A c \in given : approved'[c] = approved[c]
  /\ \A u \in UserIds \cap used : users[u] = NoRow => users'[u] = NoRow

\* No slot, row or id is the mark for its absence.
LEMMA HsNames ==
  /\ NoRow \notin Codes /\ NoRow \notin HandshakeRows /\ NoRow \notin HandshakeIds
  /\ NoHandshake \in HandshakeRequest
BY HandshakeAssumption, NoRowAssumption DEF NoHandshake, HandshakeRequest, HandshakeSteps

\* A slot that rests holds what it held, unless its code was given by another.
LEMMA HeldStands ==
  ASSUME HsInv, Grows, NEW r \in Reqs, req'[r] = req[r], hreq'[r] = hreq[r],
         In(r, "put") => hreq[r].code \notin given'
  PROVE  Held(r)'
<1> USE DEF HsInv
<1>1. Held(r)
  OBVIOUS
<1>2. req[r].pc = "elsewhere" => (Deciding(r) \/ Completing(r))'
  BY <1>1 DEF Held, Deciding, Completing, Grows
<1>3. req[r].pc = "elsewhere" /\ hreq[r].step = "put" =>
        hreq[r].code \in Codes /\ hreq[r].code \in drawn' /\ hreq[r].code \notin given'
  BY <1>1 DEF Held, In, At, Grows
<1>4. req[r].op = "completeHandshake" /\ req[r].pc \in {"addSession", "sign"} =>
        hreq[r].code \in given' /\ approved'[hreq[r].code] = approved[hreq[r].code]
  BY <1>1 DEF Held, Grows
<1> QED
  BY <1>1, <1>2, <1>3, <1>4 DEF Held

\* A slot that was freed holds nothing.
LEMMA BlankHolds ==
  ASSUME NEW r \in Reqs, req'[r] = Blank
  PROVE  Held(r)'
BY DEF Held, Blank, HandshakeOps

\* A row that stays or goes says nothing new.
LEMMA RowsStand ==
  ASSUME HsInv, Grows, DOMAIN handshakes' = HandshakeIds,
         NEW h \in Live(handshakes'), handshakes'[h] = handshakes[h]
  PROVE  /\ handshakes'[h].user # NoRow => handshakes'[h].user \in used'
         /\ handshakes'[h].code # NoRow =>
              /\ handshakes'[h].user # NoRow /\ handshakes'[h].code \in given'
              /\ approved'[handshakes'[h].code] =
                   [user |-> handshakes'[h].user, terms |-> handshakes'[h].terms]
<1>1. h \in Live(handshakes)
  BY DEF HsInv, HsTypeOK, Live
<1> QED
  BY <1>1 DEF HsInv, RowsHeld, Grows

\* So rows that only stay or go keep what they say.
LEMMA FewerRows ==
  ASSUME HsInv, Grows, handshakes' \in [HandshakeIds -> HandshakeRows \cup {NoRow}],
         \A h \in HandshakeIds : handshakes'[h] \in {handshakes[h], NoRow}
  PROVE  RowsHeld'
<1>1. \A h \in Live(handshakes') : handshakes'[h] = handshakes[h]
  BY DEF Live
<1> QED
  BY <1>1, RowsStand DEF RowsHeld

\* A statement that deletes handshakes only lets rows go.
LEMMA DeletedRows ==
  ASSUME HsInv, NEW ids, handshakes' = DelMany(handshakes, ids)
  PROVE  /\ handshakes' \in [HandshakeIds -> HandshakeRows \cup {NoRow}]
         /\ \A h \in HandshakeIds : handshakes'[h] \in {handshakes[h], NoRow}
BY DEF HsInv, HsTypeOK, DelMany
-----------------------------------------------------------------------------
(* What one slot does in a handler of a handshake. *)

\* The tables of AuthCore stay as they are, and one slot moves.
SlotMoves(r, q, x) ==
  /\ UNCHANGED stored
  /\ req' = [req EXCEPT ![r] = q] /\ hreq' = [hreq EXCEPT ![r] = x]

\* Types and soundness of AuthCore's part.
LEMMA SlotActs ==
  ASSUME HsInv, NEW r \in Reqs, NEW q \in Request, NEW x, SlotMoves(r, q, x),
         Sound(r)'
  PROVE  ActsInv'
<1> USE DEF HsInv, ActsInv, SlotMoves
<1>1. TypeOK'
  BY DEF TypeOK, stored
<1>2. IdsDrawn'
  BY DEF IdsDrawn, stored
<1>3. ASSUME NEW o \in Reqs, o # r
      PROVE  Sound(o)'
  <2>1. req'[o] = req[o] /\ Sound(o)
    BY <1>3 DEF TypeOK
  <2> QED
    BY <2>1 DEF Sound, stored
<1> QED
  BY <1>1, <1>2, <1>3

\* The other slots hold what they held.
LEMMA OthersHold ==
  ASSUME HsInv, Grows, NEW r \in Reqs, NEW q, NEW x, SlotMoves(r, q, x), Held(r)',
         \A o \in Reqs : o # r /\ In(o, "put") => hreq[o].code \notin given'
  PROVE  \A o \in Reqs : Held(o)'
<1>1. ASSUME NEW o \in Reqs, o # r
      PROVE  req'[o] = req[o] /\ hreq'[o] = hreq[o]
  BY <1>1 DEF SlotMoves, HsInv, HsTypeOK, TypeOK
<1> QED
  BY <1>1, HeldStands

\* Codes stay apart when the slot that moves has no code to give.
LEMMA CodesStayApart ==
  ASSUME HsInv, NEW r \in Reqs, NEW q, NEW x, SlotMoves(r, q, x), ~In(r, "put")'
  PROVE  CodesApart'
<1>1. ASSUME NEW o \in Reqs, o # r
      PROVE  req'[o] = req[o] /\ hreq'[o] = hreq[o]
  BY <1>1 DEF SlotMoves, HsInv, HsTypeOK, TypeOK
<1> QED
  BY <1>1 DEF CodesApart, In, At, HsInv

\* With its tables unchanged AuthCore's part only grows.
LEMMA StoredGrows ==
  ASSUME UNCHANGED <<stored, drawn, given, approved>>
  PROVE  Grows
BY DEF Grows, stored

\* A step of one slot that changes at most rows of handshakes, by letting them go, and
\* leaves no code to give.
LEMMA SlotKeeps ==
  ASSUME HsInv, NEW r \in Reqs, NEW q \in Request, NEW x \in HandshakeRequest,
         SlotMoves(r, q, x), Sound(r)', Held(r)', ~In(r, "put")',
         UNCHANGED <<drawn, given, approved, overdue, sweep>>,
         handshakes' \in [HandshakeIds -> HandshakeRows \cup {NoRow}],
         \A h \in HandshakeIds : handshakes'[h] \in {handshakes[h], NoRow}
  PROVE  HsInv'
<1>1. Grows
  BY StoredGrows DEF SlotMoves
<1>2. ActsInv'
  BY SlotActs
<1>3. \A o \in Reqs : o # r /\ In(o, "put") => hreq[o].code \notin given'
  BY DEF HsInv, Held, In, At
<1>4. \A o \in Reqs : Held(o)'
  BY <1>1, <1>3, OthersHold
<1>5. HsTypeOK'
  BY <1>2 DEF HsTypeOK, ActsInv, SlotMoves, HsInv
<1> QED
  BY <1>1, <1>2, <1>4, <1>5, FewerRows, CodesStayApart DEF HsInv

\* A handler that answers lets go of everything.
LEMMA RespondKeeps ==
  ASSUME HsInv, NEW r \in Reqs, NEW status, Respond(r, status), UNCHANGED stored,
         UNCHANGED <<drawn, given, approved, overdue, sweep>>,
         handshakes' \in [HandshakeIds -> HandshakeRows \cup {NoRow}],
         \A h \in HandshakeIds : handshakes'[h] \in {handshakes[h], NoRow}
  PROVE  HsInv'
<1>1. SlotMoves(r, Blank, NoHandshake)
  BY DEF Respond, Answer, SlotMoves
<1>2. req'[r] = Blank /\ req'[r].pc = "idle"
  BY <1>1 DEF SlotMoves, HsInv, HsTypeOK, TypeOK, Blank
<1>3. Sound(r)' /\ Held(r)' /\ ~In(r, "put")'
  BY <1>2, BlankIsSound, BlankHolds DEF In, At
<1> QED
  BY <1>1, <1>3, BlankIsRequest, HsNames, SlotKeeps

\* What a slot in a handler has: types, and a user if it is a user's.
LEMMA InHandler ==
  ASSUME HsInv, NEW r \in Reqs
  PROVE  /\ req[r] \in Request /\ req[r] \in Locals /\ Holds(req[r]) /\ hreq[r] \in HandshakeRequest
         /\ Sound(r) /\ Held(r)
         /\ req[r].ses # NoRow => Subject(r) \in UserIds /\ Subject(r) \in used
BY DEF HsInv, HsTypeOK, TypeOK, ActsInv, Request, Locals, Subject, Sound, SessionRows

\* testHandshake.
LEMMA TestKeeps ==
  ASSUME HsInv, NEW r \in Reqs, TestHandshake(r)
  PROVE  HsInv'
<1> DEFINE h == req[r].target
           q == [req[r] EXCEPT !.pc = "elsewhere"]
           x(step) == [NoHandshake EXCEPT !.step = step, !.id = h, !.hs = handshakes[h]]
<1>0. /\ req[r] \in Locals /\ Holds(req[r]) /\ Sound(r) /\ Held(r)
      /\ req[r].pc = "handler" /\ req[r].op \in HandshakeOps /\ h \in HandshakeIds
      /\ UNCHANGED <<stored, handshakes, drawn, overdue, given, approved, sweep>>
      /\ handshakes \in [HandshakeIds -> HandshakeRows \cup {NoRow}]
  BY InHandler DEF TestHandshake, At, Held, HsInv, HsTypeOK
<1>1. ASSUME NEW status, Respond(r, status)
      PROVE  HsInv'
  BY <1>0, <1>1, RespondKeeps
<1>2. ASSUME NEW step \in {"dropOverdue", "pickCode", "cancel"}, handshakes[h] # NoRow,
             req' = [req EXCEPT ![r] = q], hreq' = [hreq EXCEPT ![r] = x(step)]
      PROVE  HsInv'
  <2>1. q \in Request
    BY <1>0 DEF Request, Locals, Holds, Steps, HandshakeOps, WithSession
  <2>2. handshakes[h] \in HandshakeRows
    BY <1>0, <1>2
  <2>3. x(step) \in HandshakeRequest
    BY <1>0, <2>2 DEF NoHandshake, HandshakeRequest, HandshakeSteps
  <2>4. /\ req'[r].pc = "elsewhere" /\ req'[r].op = req[r].op /\ req'[r].ses = req[r].ses
        /\ req'[r].row = req[r].row
    BY <1>0, <1>2 DEF HsInv, HsTypeOK, TypeOK, Locals
  <2>5. hreq'[r].step = step /\ hreq'[r].id = h /\ hreq'[r].hs = handshakes[h]
    BY <1>2 DEF HsInv, HsTypeOK, NoHandshake
  <2>6. req[r].ses # NoRow
    BY <1>0 DEF Holds, WithSession
  <2>7. SlotMoves(r, q, x(step))
    BY <1>0, <1>2 DEF SlotMoves
  <2>8. Sound(r)'
    BY <1>0, <2>4 DEF Sound, stored, ActingSteps
  <2>9. Held(r)'
    BY <1>0, <2>2, <2>4, <2>5, <2>6 DEF Held, Deciding, UserSteps, HandshakeOps
  <2>10. ~In(r, "put")'
    BY <2>5 DEF In
  <2> HIDE DEF q, x
  <2> QED
    BY <1>0, <2>1, <2>3, <2>7, <2>8, <2>9, <2>10, SlotKeeps
<1>3. \/ Respond(r, "404") \/ Respond(r, "200")
      \/ /\ handshakes[h] # NoRow
         /\ \E step \in {"dropOverdue", "pickCode", "cancel"} :
              req' = [req EXCEPT ![r] = q] /\ hreq' = [hreq EXCEPT ![r] = x(step)]
  BY <1>0 DEF TestHandshake, HandshakeOps
<1> HIDE DEF q, x
<1> QED
  BY <1>1, <1>2, <1>3

\* delHandshake.
LEMMA DelKeeps ==
  ASSUME HsInv, NEW r \in Reqs, DelHandshake(r)
  PROVE  HsInv'
<1>1. PICK status : Respond(r, status)
  BY DEF DelHandshake
<1>2. /\ handshakes' = DelMany(handshakes, {hreq[r].id})
      /\ UNCHANGED <<stored, drawn, overdue, given, approved, sweep>>
  BY DEF DelHandshake, Del
<1> QED
  BY <1>1, <1>2, DeletedRows, RespondKeeps

\* Nothing of AuthCore changes, no slot but r moves, and r only in its handler.
LEMMA HandlerKeeps ==
  ASSUME HsInv, Grows, UNCHANGED vars, HsTypes', given' \subseteq drawn', RowsHeld',
         \A r \in Reqs : Held(r)', CodesApart'
  PROVE  HsInv'
<1>1. TypeOK' /\ IdsDrawn'
  BY DEF HsInv, ActsInv, TypeOK, IdsDrawn, vars
<1>2. \A r \in Reqs : Sound(r)'
  BY DEF HsInv, ActsInv, Sound, vars
<1> QED
  BY <1>1, <1>2 DEF HsInv, ActsInv, HsTypeOK, HsTypes

\* What is the same for a slot at "put" when no code is given.
LEMMA NoneGiven ==
  ASSUME HsInv, given' = given, NEW r \in Reqs
  PROVE  In(r, "put") => hreq[r].code \notin given'
BY DEF HsInv, Held, In, At

\* startHandshake: the row names nobody yet.
LEMMA StartHsKeeps ==
  ASSUME HsInv, NEW terms \in Terms, StartHandshake(terms)
  PROVE  HsInv'
<1> DEFINE h == CHOOSE i \in HandshakeIds : i \notin drawn
           row == [terms |-> terms, user |-> NoRow, code |-> NoRow]
<1>1. h \in HandshakeIds /\ row \in HandshakeRows
  BY DEF StartHandshake, HandshakeRows
<1>2. /\ handshakes' = [handshakes EXCEPT ![h] = row] /\ drawn' = drawn \cup {h}
      /\ UNCHANGED <<vars, overdue, given, approved, sweep, hreq>>
  BY DEF StartHandshake, Add
<1>3. row.user = NoRow /\ row.code = NoRow
  OBVIOUS
<1> HIDE DEF h, row
<1>4. Grows
  BY <1>2 DEF Grows, vars
<1>5. HsTypes'
  BY <1>1, <1>2 DEF HsInv, HsTypeOK, HsTypes
<1>6. RowsHeld'
  <2>1. DOMAIN handshakes' = HandshakeIds
    BY <1>5 DEF HsTypes
  <2>2. ASSUME NEW i \in Live(handshakes'), i # h
        PROVE  handshakes'[i] = handshakes[i]
    BY <1>2, <2>1, <2>2 DEF Live, HsInv, HsTypeOK
  <2>3. handshakes'[h] = row
    BY <1>1, <1>2 DEF HsInv, HsTypeOK
  <2> QED
    BY <1>3, <1>4, <2>1, <2>2, <2>3, RowsStand DEF RowsHeld
<1>7. \A r \in Reqs : Held(r)'
  BY <1>2, <1>4, NoneGiven, HeldStands DEF vars
<1>8. CodesApart' /\ given' \subseteq drawn'
  BY <1>2 DEF CodesApart, HsInv, In, At, vars
<1> QED
  BY <1>2, <1>4, <1>5, <1>6, <1>7, <1>8, HandlerKeeps

\* approveHandshake draws a code that nobody has.
LEMMA PickKeeps ==
  ASSUME HsInv, NEW r \in Reqs, PickCode(r)
  PROVE  HsInv'
<1> DEFINE c == CHOOSE i \in Codes : i \notin drawn
<1>1. c \in Codes /\ c \notin drawn
  BY DEF PickCode
<1>2. /\ drawn' = drawn \cup {c} /\ hreq' = [hreq EXCEPT ![r].step = "put", ![r].code = c]
      /\ UNCHANGED <<vars, handshakes, overdue, given, approved, sweep>>
      /\ In(r, "pickCode")
  BY DEF PickCode
<1> HIDE DEF c
<1>3. Grows
  BY <1>2 DEF Grows, vars
<1>4. /\ hreq'[r].step = "put" /\ hreq'[r].code = c /\ hreq'[r].id = hreq[r].id
      /\ hreq'[r].hs = hreq[r].hs
      /\ hreq' \in [Reqs -> HandshakeRequest]
  <2> DEFINE x == [hreq[r] EXCEPT !.step = "put", !.code = c]
  <2>1. hreq \in [Reqs -> HandshakeRequest] /\ hreq[r] \in HandshakeRequest
    BY DEF HsInv, HsTypeOK
  <2>2. hreq' = [hreq EXCEPT ![r] = x]
    BY <1>2, <2>1
  <2>3. /\ x.step = "put" /\ x.code = c /\ x.id = hreq[r].id /\ x.hs = hreq[r].hs
        /\ x \in HandshakeRequest
    BY <1>1, <2>1 DEF HandshakeRequest, HandshakeSteps
  <2> HIDE DEF x
  <2> QED
    BY <2>1, <2>2, <2>3
<1>5. HsTypes'
  BY <1>1, <1>2, <1>4 DEF HsInv, HsTypeOK, HsTypes
<1>6. RowsHeld'
  BY <1>2, <1>3, FewerRows DEF HsInv, HsTypeOK
<1>7. \A o \in Reqs : o # r => hreq'[o] = hreq[o] /\ req'[o] = req[o]
  BY <1>2 DEF HsInv, HsTypeOK, vars
<1>8. Held(r)'
  <2>1. /\ req'[r] = req[r] /\ Held(r) /\ req[r].pc = "elsewhere" /\ hreq[r].step = "pickCode"
        /\ c \notin given'
    BY <1>1, <1>2 DEF HsInv, vars, In, At
  <2>2. Deciding(r)
    BY <2>1 DEF Held, Completing, AppSteps
  <2> QED
    BY <1>1, <1>2, <1>4, <2>1, <2>2 DEF Held, Deciding, UserSteps
<1>9. \A o \in Reqs : Held(o)'
  BY <1>2, <1>3, <1>7, <1>8, NoneGiven, HeldStands
<1>10. CodesApart'
  <2>1. \A o \in Reqs : o # r /\ In(o, "put")' => hreq'[o].code \in drawn
    BY <1>7 DEF HsInv, Held, In, At
  <2> QED
    BY <1>1, <1>4, <1>7, <2>1 DEF CodesApart, HsInv, In, At
<1>11. given' \subseteq drawn'
  BY <1>2 DEF HsInv
<1> QED
  BY <1>2, <1>3, <1>5, <1>6, <1>9, <1>10, <1>11, HandlerKeeps

\* putHandshake: the row that is there, if any, names its approver and the code.
LEMMA PutKeeps ==
  ASSUME HsInv, NEW r \in Reqs, PutHandshake(r)
  PROVE  HsInv'
<1> DEFINE h == hreq[r].id
           code == hreq[r].code
           row == ApprovedRow(r)
           entry == [user |-> Subject(r), terms |-> hreq[r].hs.terms]
<1>1. /\ h \in HandshakeIds /\ code \in Codes /\ code \in drawn /\ code \notin given
      /\ hreq[r].hs \in HandshakeRows /\ Subject(r) \in UserIds /\ Subject(r) \in used
  <2>1. Held(r) /\ req[r].pc = "elsewhere" /\ hreq[r].step = "put"
    BY DEF HsInv, PutHandshake, In, At
  <2>2. Deciding(r)
    BY <2>1 DEF Held, Completing, AppSteps
  <2> QED
    BY <2>1, <2>2, InHandler DEF Held, Deciding
<1>2. /\ row \in HandshakeRows /\ row.user = Subject(r) /\ row.code = code
      /\ row.terms = hreq[r].hs.terms /\ entry \in [user : UserIds, terms : Terms]
  BY <1>1 DEF ApprovedRow, HandshakeRows
<1>3. /\ handshakes' = Put(handshakes, h, row) /\ given' = given \cup {code}
      /\ approved' = [approved EXCEPT ![code] = entry]
      /\ Respond(r, "302") /\ UNCHANGED <<stored, drawn, overdue, sweep>>
  BY DEF PutHandshake
<1>4. entry = [user |-> row.user, terms |-> row.terms] /\ Subject(r) # NoRow
  BY <1>1, <1>2, NoRowAssumption
<1>5. \A o \in Reqs : o # r /\ In(o, "put") => hreq[o].code \notin given'
  BY <1>3 DEF HsInv, Held, CodesApart, In, At, PutHandshake
<1> HIDE DEF row, entry
<1>6. Grows
  BY <1>1, <1>3 DEF Grows, stored, HsInv, HsTypeOK
<1>7. SlotMoves(r, Blank, NoHandshake)
  BY <1>3 DEF Respond, Answer, SlotMoves
<1>8. req'[r] = Blank /\ req'[r].pc = "idle"
  BY <1>7 DEF SlotMoves, HsInv, HsTypeOK, TypeOK, Blank
<1>9. ActsInv' /\ (\A o \in Reqs : Held(o)') /\ CodesApart'
  <2>1. Sound(r)' /\ Held(r)' /\ ~In(r, "put")'
    BY <1>8, BlankIsSound, BlankHolds DEF In, At
  <2> QED
    BY <1>5, <1>6, <1>7, <2>1, BlankIsRequest, SlotActs, OthersHold, CodesStayApart
<1>10. HsTypeOK'
  <2>1. handshakes' \in [HandshakeIds -> HandshakeRows \cup {NoRow}]
    BY <1>1, <1>2, <1>3, PutKeepsType DEF HsInv, HsTypeOK
  <2>2. hreq' \in [Reqs -> HandshakeRequest]
    BY <1>7, HsNames DEF SlotMoves, HsInv, HsTypeOK
  <2> QED
    BY <1>1, <1>2, <1>3, <1>9, <2>1, <2>2 DEF HsTypeOK, HsInv, ActsInv
<1>11. RowsHeld'
  <2>1. DOMAIN handshakes' = HandshakeIds
    BY <1>10 DEF HsTypeOK
  <2>2. ASSUME NEW i \in Live(handshakes')
        PROVE  handshakes'[i] = handshakes[i] \/ handshakes'[i] = row
    BY <1>3, <2>1 DEF Live, Put, HsInv, HsTypeOK
  <2>3. /\ row.user \in used' /\ row.user # NoRow /\ row.code \in given'
        /\ approved'[row.code] = [user |-> row.user, terms |-> row.terms]
    BY <1>1, <1>2, <1>3, <1>4 DEF stored, HsInv, HsTypeOK
  <2> QED
    BY <1>6, <2>1, <2>2, <2>3, RowsStand DEF RowsHeld
<1>12. given' \subseteq drawn'
  BY <1>1, <1>3 DEF HsInv
<1> QED
  BY <1>9, <1>10, <1>11, <1>12 DEF HsInv

\* completeHandshake finds the row that carries the code.
LEMMA CompleteKeeps ==
  ASSUME HsInv, NEW r \in Reqs, NEW code \in given, NEW terms \in Terms, Complete(r, code, terms)
  PROVE  HsInv'
<1> USE DEF HsInv
<1>0. /\ UNCHANGED <<stored, handshakes, drawn, overdue, given, approved, sweep>>
      /\ handshakes \in [HandshakeIds -> HandshakeRows \cup {NoRow}]
  BY DEF Complete, HsTypeOK
<1>1. CASE Respond(r, "403") \/ Respond(r, "404")
  BY <1>0, <1>1, RespondKeeps
<1>2. ASSUME NEW h \in WithCode(code),
             req' = [req EXCEPT ![r] =
                       [Blank EXCEPT !.pc = "elsewhere", !.op = "completeHandshake",
                                     !.stale = handshakes[h].user \notin Live(users)]],
             hreq' = [hreq EXCEPT ![r] = [step |-> "drop", id |-> h, hs |-> handshakes[h],
                                          code |-> code, terms |-> terms]]
      PROVE  HsInv'
  <2> DEFINE owner == handshakes[h].user
             gone == owner \notin Live(users)
             q == [Blank EXCEPT !.pc = "elsewhere", !.op = "completeHandshake", !.stale = gone]
             x == [step |-> "drop", id |-> h, hs |-> handshakes[h], code |-> code, terms |-> terms]
  <2>1. /\ h \in HandshakeIds /\ handshakes[h] \in HandshakeRows /\ handshakes[h].code = code
        /\ code \in Codes /\ code # NoRow /\ h \in Live(handshakes)
    BY <1>0, HsNames DEF WithCode, Live, HsTypeOK
  <2>2. /\ owner \in UserIds /\ owner \in used
        /\ approved[code] = [user |-> owner, terms |-> handshakes[h].terms]
    BY <2>1 DEF RowsHeld, HandshakeRows
  <2>3. gone \in BOOLEAN /\ (gone => users[owner] = NoRow)
    BY <2>2 DEF Live, HsTypeOK, TypeOK
  <2>4. req' = [req EXCEPT ![r] = q] /\ hreq' = [hreq EXCEPT ![r] = x]
    BY <1>2
  <2> HIDE DEF gone
  <2>5. q \in Request
    BY <2>3 DEF Blank, Request, Locals, Holds, WithSession, Steps, AllOps, SessionMakers
  <2>6. /\ q.pc = "elsewhere" /\ q.op = "completeHandshake" /\ q.stale = gone
        /\ q.ses = NoRow /\ q.row = NoRow
    BY DEF Blank
  <2>7. x \in HandshakeRequest
    BY <2>1 DEF HandshakeRequest, HandshakeSteps
  <2> HIDE DEF q
  <2>8. req'[r] = q /\ hreq'[r] = x
    BY <2>4 DEF HsTypeOK, TypeOK
  <2>9. Sound(r)'
    BY <2>6, <2>8 DEF Sound, ActingSteps
  <2>10. Held(r)'
    BY <1>0, <2>1, <2>2, <2>3, <2>6, <2>8 DEF Held, Completing, AppSteps, HandshakeOps, stored
  <2>11. ~In(r, "put")'
    BY <2>8 DEF In
  <2> HIDE DEF x
  <2> QED
    BY <1>0, <2>4, <2>5, <2>7, <2>9, <2>10, <2>11, SlotKeeps DEF SlotMoves
<1> QED
  BY <1>1, <1>2 DEF Complete

\* A completion that is past the lookup.
LEMMA InCompletion ==
  ASSUME HsInv, NEW r \in Reqs, NEW step \in AppSteps, In(r, step)
  PROVE  /\ req[r].pc = "elsewhere" /\ Completing(r)
         /\ hreq[r].id \in HandshakeIds /\ hreq[r].hs \in HandshakeRows
BY DEF HsInv, Held, Deciding, UserSteps, AppSteps, In, At

\* The handshake is deleted before anything else is known to be right.
LEMMA SpendKeeps ==
  ASSUME HsInv, NEW r \in Reqs, SpendHandshake(r)
  PROVE  HsInv'
<1>1. /\ handshakes' = DelMany(handshakes, {hreq[r].id})
      /\ UNCHANGED <<stored, drawn, overdue, given, approved, sweep>>
  BY DEF SpendHandshake, Del
<1>2. CASE Respond(r, "400")
  BY <1>1, <1>2, DeletedRows, RespondKeeps
<1>3. CASE GoTo(r, "owner")
  <2> DEFINE x == [hreq[r] EXCEPT !.step = "owner"]
  <2>1. /\ req[r].pc = "elsewhere" /\ Completing(r)
        /\ hreq[r].id \in HandshakeIds /\ hreq[r].hs \in HandshakeRows
    BY InCompletion DEF SpendHandshake, AppSteps
  <2>2. req[r] \in Request /\ hreq[r] \in HandshakeRequest /\ Sound(r) /\ Held(r)
    BY InHandler
  <2>3. req' = req /\ hreq' = [hreq EXCEPT ![r] = x]
    BY <1>3 DEF GoTo, HsInv, HsTypeOK
  <2>4. req' = [req EXCEPT ![r] = req[r]]
    BY <2>3 DEF HsInv, HsTypeOK, TypeOK
  <2>5. /\ x \in HandshakeRequest /\ x.step = "owner" /\ x.id = hreq[r].id
        /\ x.hs = hreq[r].hs /\ x.code = hreq[r].code /\ x.terms = hreq[r].terms
    BY <2>2 DEF HandshakeRequest, HandshakeSteps
  <2> HIDE DEF x
  <2>6. hreq'[r] = x /\ req'[r] = req[r]
    BY <2>3 DEF HsInv, HsTypeOK
  <2>7. Sound(r)'
    BY <1>1, <2>2, <2>6 DEF Sound, stored
  <2>8. Held(r)'
    BY <1>1, <2>1, <2>2, <2>5, <2>6 DEF Held, Completing, AppSteps, stored
  <2>9. ~In(r, "put")'
    BY <2>5, <2>6 DEF In
  <2> QED
    BY <1>1, <2>2, <2>3, <2>4, <2>5, <2>7, <2>8, <2>9, DeletedRows, SlotKeeps DEF SlotMoves
<1> QED
  BY <1>2, <1>3 DEF SpendHandshake

\* Then comes the user, and what the app asked for.
LEMMA OwnerKeeps ==
  ASSUME HsInv, NEW r \in Reqs, OwnerOfHandshake(r)
  PROVE  HsInv'
<1>0. /\ UNCHANGED <<stored, handshakes, drawn, overdue, given, approved, sweep>>
      /\ handshakes \in [HandshakeIds -> HandshakeRows \cup {NoRow}]
  BY DEF OwnerOfHandshake, HsInv, HsTypeOK
<1>1. ASSUME NEW status, Respond(r, status)
      PROVE  HsInv'
  BY <1>0, <1>1, RespondKeeps
<1>2. CASE Completable(r)
  <2> DEFINE row == [user |-> hreq[r].hs.user, context |-> hreq[r].hs.terms.app, scope |-> NoScope]
             q == [req[r] EXCEPT !.pc = "addSession", !.row = row]
  <2>1. /\ req[r].pc = "elsewhere" /\ Completing(r) /\ hreq[r].hs \in HandshakeRows
    BY InCompletion DEF OwnerOfHandshake, AppSteps
  <2>2. /\ req[r] \in Locals /\ Holds(req[r]) /\ hreq[r] \in HandshakeRequest
        /\ Sound(r) /\ req[r] \in Request
    BY InHandler
  <2>3. row \in SessionRows /\ row # NoRow
    BY <2>1, TermsAssumption, ConstantsAssumption, NoRowAssumption
    DEF Completing, HandshakeRows, SessionRows, Contexts
  <2>4. req' = [req EXCEPT ![r] = q] /\ hreq' = hreq
    BY <1>2, <2>2 DEF OwnerOfHandshake, HsInv, HsTypeOK, TypeOK
  <2>5. row.user = hreq[r].hs.user /\ row.context = hreq[r].hs.terms.app
    OBVIOUS
  <2> HIDE DEF row
  <2>6. q \in Request
    <3>1. q \in Locals
      BY <2>2, <2>3 DEF Locals, Steps
    <3>2. Holds(q)
      BY <2>1, <2>2, <2>3 DEF Completing, Locals, Holds, WithSession
    <3> QED
      BY <3>1, <3>2 DEF Request
  <2>7. /\ q.pc = "addSession" /\ q.row = row /\ q.op = req[r].op /\ q.ses = req[r].ses
        /\ q.stale = req[r].stale
    BY <2>2 DEF Locals
  <2> HIDE DEF q
  <2>8. req'[r] = q /\ hreq'[r] = hreq[r]
    BY <2>4 DEF HsInv, HsTypeOK, TypeOK
  <2>9. Sound(r)'
    BY <1>0, <1>2, <2>1, <2>3, <2>5, <2>7, <2>8 DEF Sound, Completing, Completable, stored
  <2>10. Held(r)'
    BY <1>0, <1>2, <2>1, <2>5, <2>7, <2>8 DEF Held, Completing, Completable, SameTerms, HandshakeOps
  <2>11. ~In(r, "put")'
    BY <2>7, <2>8 DEF In, At
  <2>12. hreq' = [hreq EXCEPT ![r] = hreq[r]]
    BY <2>4 DEF HsInv, HsTypeOK
  <2> QED
    BY <1>0, <2>2, <2>4, <2>6, <2>9, <2>10, <2>11, <2>12, SlotKeeps DEF SlotMoves
<1> QED
  BY <1>1, <1>2 DEF OwnerOfHandshake
-----------------------------------------------------------------------------
(* Sweeps, AuthCore's steps, and all of them. *)

\* Handshakes grow old, and are listed and deleted when they have.
LEMMA SweepKeeps ==
  ASSUME HsInv, (\E h \in HandshakeIds : Overdue(h)) \/ CleanHandshakes \/ DelManyHandshakes
  PROVE  HsInv'
<1>1. UNCHANGED <<vars, drawn, given, approved, hreq>>
  BY DEF Overdue, CleanHandshakes, DelManyHandshakes
<1>2. Grows
  BY <1>1, StoredGrows DEF vars, stored
<1>3. handshakes' = handshakes \/ \E ids : handshakes' = DelMany(handshakes, ids)
  BY DEF Overdue, CleanHandshakes, DelManyHandshakes
<1>4. /\ handshakes' \in [HandshakeIds -> HandshakeRows \cup {NoRow}]
      /\ \A h \in HandshakeIds : handshakes'[h] \in {handshakes[h], NoRow}
  BY <1>3, DeletedRows DEF HsInv, HsTypeOK
<1>5. overdue' \subseteq HandshakeIds /\ sweep' \subseteq HandshakeIds
  BY DEF Overdue, CleanHandshakes, DelManyHandshakes, HsInv, HsTypeOK
<1>6. HsTypes'
  BY <1>1, <1>4, <1>5 DEF HsInv, HsTypeOK, HsTypes
<1>7. \A r \in Reqs : Held(r)'
  BY <1>1, <1>2, NoneGiven, HeldStands DEF vars
<1>8. CodesApart' /\ given' \subseteq drawn'
  BY <1>1 DEF CodesApart, HsInv, In, At, vars
<1> QED
  BY <1>1, <1>2, <1>4, <1>6, <1>7, <1>8, FewerRows, HandlerKeeps

\* A request that starts is not yet in a handler.
LEMMA StartMoves ==
  ASSUME TypeOK, NEW r \in Reqs, Start(r)
  PROVE  \/ req'[r] = Blank
         \/ /\ req'[r].pc \in {"addSession", "addUser", "keyUser", "verify"}
            /\ req'[r].op # "completeHandshake"
            /\ req'[r].op \in HandshakeOps => req'[r].target \in HandshakeIds
<1> USE DEF TypeOK
<1>0. ASSUME NEW status, Answer(r, status)
      PROVE  req'[r] = Blank
  BY <1>0 DEF Answer
<1>1. ASSUME NEW q, q.pc \in {"addSession", "addUser", "keyUser", "verify"},
             q.op # "completeHandshake", q.op \in HandshakeOps => q.target \in HandshakeIds,
             req' = [req EXCEPT ![r] = q]
      PROVE  /\ req'[r].pc \in {"addSession", "addUser", "keyUser", "verify"}
             /\ req'[r].op # "completeHandshake"
             /\ req'[r].op \in HandshakeOps => req'[r].target \in HandshakeIds
  <2>1. req'[r] = q
    BY <1>1
  <2> QED
    BY <1>1, <2>1
<1> DEFINE Moved == /\ req'[r].pc \in {"addSession", "addUser", "keyUser", "verify"}
                    /\ req'[r].op # "completeHandshake"
                    /\ req'[r].op \in HandshakeOps => req'[r].target \in HandshakeIds
<1>2. ASSUME NEW name \in Names, NEW pass \in Passwords, StartLogin(r, name, pass)
      PROVE  req'[r] = Blank \/ Moved
  <2> DEFINE q(u) == [Blank EXCEPT !.pc = "addSession", !.op = "login",
                        !.row = [user |-> u, context |-> "user", scope |-> NoScope]]
  <2>1. Answer(r, "401") \/ \E u \in UserIds : req' = [req EXCEPT ![r] = q(u)]
    BY <1>2 DEF StartLogin, UsersNamed, Live
  <2>2. \A u : q(u).pc = "addSession" /\ q(u).op = "login"
    BY DEF Blank
  <2> HIDE DEF q
  <2> QED
    BY <1>0, <1>1, <2>1, <2>2 DEF HandshakeOps
<1>3. ASSUME NEW name \in Names, NEW pass \in Passwords, StartRegister(r, name, pass)
      PROVE  req'[r] = Blank \/ Moved
  <2> DEFINE q == [Blank EXCEPT !.pc = "addUser", !.op = "register",
                     !.usr = [name |-> name, pass |-> pass]]
  <2>1. Answer(r, "403") \/ req' = [req EXCEPT ![r] = q]
    BY <1>3 DEF StartRegister
  <2>2. q.pc = "addUser" /\ q.op = "register"
    BY DEF Blank
  <2> HIDE DEF q
  <2> QED
    BY <1>0, <1>1, <2>1, <2>2 DEF HandshakeOps
<1>4. ASSUME NEW key \in KeyIds, NEW context \in Contexts, NEW scope \in Scopes,
             StartGenerate(r, key, context, scope)
      PROVE  req'[r] = Blank \/ Moved
  <2> DEFINE q == [Blank EXCEPT !.pc = "keyUser", !.op = "generateSession",
                     !.stale = masterKeys[key].user \notin Live(users),
                     !.row = [user |-> masterKeys[key].user, context |-> context, scope |-> scope]]
  <2>1. Answer(r, "404") \/ req' = [req EXCEPT ![r] = q]
    BY <1>4 DEF StartGenerate
  <2>2. q.pc = "keyUser" /\ q.op = "generateSession"
    BY DEF Blank
  <2> HIDE DEF q
  <2> QED
    BY <1>0, <1>1, <2>1, <2>2 DEF HandshakeOps
<1>5. ASSUME NEW op \in AuthedOps, NEW sid \in tokens,
             \E body \in Bodies(op) : StartAuthed(r, op, sid, body)
      PROVE  req'[r] = Blank \/ Moved
  <2> PICK body \in Bodies(op) : StartAuthed(r, op, sid, body)
    BY <1>5
  <2> DEFINE q == [Blank EXCEPT !.pc = "verify", !.op = op,
                     !.stale = sid \in expired \/ sessions[sid].user \notin Live(users),
                     !.pass = body.pass, !.newpass = body.newpass, !.target = body.target,
                     !.sid = sid, !.ses = sessions[sid]]
  <2>1. Answer(r, "403") \/ req' = [req EXCEPT ![r] = q]
    BY DEF StartAuthed
  <2>2. q.pc = "verify" /\ q.op = op /\ q.target = body.target
    BY DEF Blank
  <2>3. op # "completeHandshake" /\ (op \in HandshakeOps => body.target \in HandshakeIds)
    BY DEF AuthedOps, PasswordOps, HandshakeOps, Bodies
  <2> HIDE DEF q
  <2> QED
    BY <1>0, <1>1, <2>1, <2>2, <2>3
<1> QED
  BY <1>2, <1>3, <1>4, <1>5 DEF Start

\* A handler of AuthApi or CoreApi goes on with its own request; the only steps of a
\* completion it takes are addSession and the signing of the token.
LEMMA ContinueMoves ==
  ASSUME HsInv, NEW r \in Reqs, Continue(r)
  PROVE  \/ req'[r] = Blank
         \/ /\ req'[r].op = req[r].op /\ req'[r].target = req[r].target
            /\ req'[r].pc \notin {"idle", "elsewhere", "verify"}
            /\ req'[r].pc = "handler" => req[r].pc = "verify"
            /\ req[r].op = "completeHandshake" =>
                 req[r].pc = "addSession" /\ req'[r].pc = "sign" /\ req'[r].row = req[r].row
<1> USE DEF At, Handling
<1>1. req \in [Reqs -> Request] /\ req[r] \in Locals /\ Holds(req[r]) /\ Held(r)
  BY InHandler DEF HsInv, HsTypeOK, TypeOK
<1>2. ASSUME NEW status, Answer(r, status)
      PROVE  req'[r] = Blank
  BY <1>1, <1>2 DEF Answer
<1>3. CASE KeyUser(r)
  BY <1>1, <1>2, <1>3 DEF KeyUser, Held, Locals
<1>4. CASE AddSession(r)
  <2>1. /\ req'[r].op = req[r].op /\ req'[r].target = req[r].target /\ req'[r].row = req[r].row
        /\ req'[r].pc = IF req[r].op = "refresh" THEN "dropOld" ELSE "sign"
        /\ req[r].pc = "addSession"
    BY <1>1, <1>4 DEF AddSession, Locals
  <2> QED
    BY <2>1
<1>5. CASE Verify(r)
  BY <1>1, <1>2, <1>5 DEF Verify, Held, Locals
<1>6. CASE ChangePass(r) \/ ListIds(r) \/ FindSession(r) \/ DeleteSelf(r) \/ DelUser(r)
  BY <1>1, <1>2, <1>6 DEF ChangePass, ListIds, FindSession, DeleteSelf, DelUser, Held, Locals
<1> QED
  BY <1>2, <1>3, <1>4, <1>5, <1>6
  DEF Continue, AddUser, Sign, RefuseContext, RefusePassword, DelManySessions, DelSession,
    DeleteSessions, Logout, DropOld, PostUserDelete, AddMasterKey, DropMasterKey

\* A step of AuthCore.
LEMMA CoreKeeps ==
  ASSUME HsInv, CoreStep \/ HsCrash
  PROVE  HsInv'
<1>1. [Next]_vars /\ UNCHANGED <<handshakes, drawn, overdue, given, approved>>
  BY DEF CoreStep, HsCrash, Next
<1>2. ActsInv'
  BY <1>1, NextActs DEF HsInv
<1>3. Grows
  <2>1. \A u \in UserIds \cap used : users[u] = NoRow => users'[u] = NoRow
    BY <1>1, UsersStayGone DEF HsInv, ActsInv
  <2>2. used \subseteq used'
    BY <1>1, UsedGrows
  <2> QED
    BY <1>1, <2>1, <2>2 DEF Grows
<1>4. ASSUME NEW r \in Reqs
      PROVE  /\ hreq'[r] = NoHandshake \/ (hreq'[r] = hreq[r] /\ req'[r].pc # "idle")
             /\ hreq'[r] = hreq[r] \/ req'[r].pc = "idle"
  BY DEF CoreStep, HsCrash, Crash, Idle, Blank
<1>5. hreq' \in [Reqs -> HandshakeRequest] /\ sweep' \subseteq HandshakeIds
  BY HsNames DEF CoreStep, HsCrash, HsInv, HsTypeOK
<1>6. HsTypeOK'
  BY <1>1, <1>2, <1>5 DEF HsInv, HsTypeOK, ActsInv
<1>7. RowsHeld'
  BY <1>1, <1>3, <1>6, FewerRows DEF HsTypeOK
<1>8. ASSUME NEW r \in Reqs
      PROVE  /\ Held(r)'
             /\ In(r, "put")' => In(r, "put") /\ hreq'[r] = hreq[r]
  <2>1. req'[r] = req[r] \/ req'[r] = Blank \/ Start(r) \/ Continue(r)
    BY <1>1, RequestsChange DEF HsInv, ActsInv
  <2>2. Held(r) /\ req[r] \in Locals
    BY InHandler
  <2>3. CASE req'[r] = Blank
    <3>1. Held(r)'
      BY <2>3, BlankHolds
    <3>2. req'[r].pc = "idle"
      BY <2>3 DEF Blank
    <3>3. ~In(r, "put")'
      BY <3>2 DEF In, At
    <3> QED
      BY <3>1, <3>3
  <2>4. CASE req'[r] = req[r] /\ req[r].pc # "idle"
    <3>1. hreq'[r] = hreq[r]
      BY <1>4, <2>4
    <3> QED
      BY <1>1, <1>3, <2>4, <3>1, NoneGiven, HeldStands DEF In, At
  <2>5. CASE req'[r] = req[r] /\ req[r].pc = "idle"
    BY <2>2, <2>5 DEF Held, In, At
  <2>6. CASE Start(r) /\ req'[r] # Blank
    <3>1. /\ req'[r].pc \in {"addSession", "addUser", "keyUser", "verify"}
          /\ req'[r].op # "completeHandshake"
          /\ req'[r].op \in HandshakeOps => req'[r].target \in HandshakeIds
      BY <2>6, StartMoves DEF HsInv, ActsInv
    <3> QED
      BY <3>1 DEF Held, In, At
  <2>7. CASE Continue(r) /\ req'[r] # Blank
    <3>1. /\ req'[r].op = req[r].op /\ req'[r].target = req[r].target
          /\ req'[r].pc \notin {"idle", "elsewhere", "verify"}
          /\ req'[r].pc = "handler" => req[r].pc = "verify"
          /\ req[r].op = "completeHandshake" =>
               req[r].pc = "addSession" /\ req'[r].pc = "sign" /\ req'[r].row = req[r].row
      BY <2>7, ContinueMoves
    <3>2. hreq'[r] = hreq[r]
      BY <1>4, <3>1
    <3> QED
      BY <1>1, <2>2, <3>1, <3>2 DEF Held, In, At
  <2> QED
    BY <2>1, <2>3, <2>4, <2>5, <2>6, <2>7
<1>9. CodesApart'
  BY <1>8 DEF CodesApart, HsInv
<1>10. given' \subseteq drawn'
  BY <1>1 DEF HsInv
<1> QED
  BY <1>2, <1>6, <1>7, <1>8, <1>9, <1>10 DEF HsInv

\* The invariant holds when nothing was started.
LEMMA InitHs == HsInit => HsInv
<1> SUFFICES ASSUME HsInit
             PROVE  HsInv
  OBVIOUS
<1>1. ActsInv
  BY InitActs DEF HsInit
<1>2. \A r \in Reqs : req[r] = Blank /\ hreq[r] = NoHandshake
  BY DEF HsInit, Init
<1>3. HsTypeOK
  BY <1>1, HsNames DEF HsInit, HsTypeOK, ActsInv
<1>4. RowsHeld
  BY DEF HsInit, RowsHeld, Live
<1>5. (\A r \in Reqs : Held(r)) /\ CodesApart
  BY <1>2 DEF Held, CodesApart, In, At, Blank, HandshakeOps
<1> QED
  BY <1>1, <1>3, <1>4, <1>5 DEF HsInv, HsInit

\* Every step keeps it.
LEMMA NextHs ==
  ASSUME HsInv, [HsNext]_allvars
  PROVE  HsInv'
<1>1. CASE UNCHANGED allvars
  <2>1. UNCHANGED <<vars, handshakes, drawn, overdue, given, approved, sweep, hreq>>
    BY <1>1 DEF allvars, hvars
  <2>2. Grows
    BY <2>1, StoredGrows DEF vars, stored
  <2>3. HsTypes' /\ RowsHeld' /\ CodesApart' /\ given' \subseteq drawn'
    BY <2>1, <2>2, FewerRows DEF HsInv, HsTypeOK, HsTypes, CodesApart, In, At, vars
  <2>4. \A r \in Reqs : Held(r)'
    BY <2>1, <2>2, NoneGiven, HeldStands DEF vars
  <2> QED
    BY <2>1, <2>2, <2>3, <2>4, HandlerKeeps
<1>2. CASE \E terms \in Started : StartHandshake(terms)
  BY <1>2, StartHsKeeps, TermsAssumption
<1> QED
  BY <1>1, <1>2, CoreKeeps, TestKeeps, DelKeeps, PickKeeps, PutKeeps, SpendKeeps, OwnerKeeps,
    CompleteKeeps, SweepKeeps DEF HsNext

\* The inductive invariant holds throughout.
LEMMA HsInvariant == HsSpec => []HsInv
<1>1. HsInv /\ [HsNext]_allvars => HsInv'
  BY NextHs
<1> QED
  BY InitHs, <1>1, PTL DEF HsSpec
-----------------------------------------------------------------------------
(* What AuthCore's requests rely on holds between handshakes too. *)

ServiceInv == HsInv /\ OwnerInv /\ NamesInv

\* A handler of a handshake moves its own slot, and touches no table of AuthCore.
Handled(r) ==
  /\ UNCHANGED stored
  /\ \A o \in Reqs : o # r => req'[o] = req[o] /\ hreq'[o] = hreq[o]
  /\ \/ req'[r] = Blank
     \/ /\ req'[r].pc \in {"elsewhere", "addSession"}
        /\ req'[r].sid = NoRow \/ (req'[r].sid = req[r].sid /\ req'[r].ses = req[r].ses)

Handlers(r) ==
  \/ TestHandshake(r) \/ DelHandshake(r) \/ PickCode(r) \/ PutHandshake(r)
  \/ SpendHandshake(r) \/ OwnerOfHandshake(r)
  \/ \E code \in given, terms \in Terms : Complete(r, code, terms)

LEMMA HandlersHandle ==
  ASSUME HsInv, NEW r \in Reqs, Handlers(r)
  PROVE  Handled(r)
<1>0. /\ req \in [Reqs -> Request] /\ req[r] \in Locals
      /\ hreq \in [Reqs -> HandshakeRequest] /\ hreq[r] \in HandshakeRequest
  BY InHandler DEF HsInv, HsTypeOK, TypeOK
<1>1. ASSUME NEW status, Respond(r, status), UNCHANGED stored
      PROVE  Handled(r)
  BY <1>0, <1>1 DEF Respond, Answer, Handled
<1>2. ASSUME NEW q, NEW x, SlotMoves(r, q, x), q.pc \in {"elsewhere", "addSession"},
             q.sid = NoRow \/ (q.sid = req[r].sid /\ q.ses = req[r].ses)
      PROVE  Handled(r)
  BY <1>0, <1>2 DEF SlotMoves, Handled
<1>3. CASE TestHandshake(r)
  <2> DEFINE q == [req[r] EXCEPT !.pc = "elsewhere"]
             x(step) == [NoHandshake EXCEPT !.step = step, !.id = req[r].target,
                                            !.hs = handshakes[req[r].target]]
  <2>1. \/ Respond(r, "404") \/ Respond(r, "200")
        \/ \E step \in {"dropOverdue", "pickCode", "cancel"} :
             req' = [req EXCEPT ![r] = q] /\ hreq' = [hreq EXCEPT ![r] = x(step)]
    BY <1>3 DEF TestHandshake, HandshakeOps
  <2>2. q.pc = "elsewhere" /\ q.sid = req[r].sid /\ q.ses = req[r].ses
    BY <1>0 DEF Locals
  <2>3. UNCHANGED stored
    BY <1>3 DEF TestHandshake
  <2> HIDE DEF q, x
  <2> QED
    BY <1>1, <1>2, <2>1, <2>2, <2>3 DEF SlotMoves
<1>4. CASE DelHandshake(r) \/ PutHandshake(r)
  BY <1>1, <1>4 DEF DelHandshake, PutHandshake
<1>5. CASE PickCode(r)
  <2>1. UNCHANGED vars /\ In(r, "pickCode")
    BY <1>5 DEF PickCode
  <2>2. \A o \in Reqs : o # r => hreq'[o] = hreq[o]
    BY <1>0, <1>5 DEF PickCode
  <2> QED
    BY <2>1, <2>2 DEF vars, stored, Handled, In, At
<1>6. CASE SpendHandshake(r)
  <2>1. CASE GoTo(r, "owner")
    BY <1>0, <1>6, <2>1 DEF SpendHandshake, GoTo, Handled, In, At
  <2> QED
    BY <1>1, <1>6, <2>1 DEF SpendHandshake
<1>7. CASE OwnerOfHandshake(r)
  <2>1. CASE Completable(r)
    <3> DEFINE row == [user |-> hreq[r].hs.user, context |-> hreq[r].hs.terms.app, scope |-> NoScope]
    <3>1. req' = [req EXCEPT ![r].pc = "addSession", ![r].row = row] /\ hreq' = hreq
          /\ UNCHANGED stored
      BY <1>7, <2>1 DEF OwnerOfHandshake
    <3> HIDE DEF row
    <3>2. req'[r].pc = "addSession" /\ req'[r].sid = req[r].sid /\ req'[r].ses = req[r].ses
      BY <1>0, <3>1 DEF Locals
    <3>3. \A o \in Reqs : o # r => req'[o] = req[o]
      BY <1>0, <3>1
    <3> QED
      BY <3>1, <3>2, <3>3 DEF Handled
  <2> QED
    BY <1>1, <1>7, <2>1 DEF OwnerOfHandshake
<1>8. ASSUME NEW code \in given, NEW terms \in Terms, Complete(r, code, terms)
      PROVE  Handled(r)
  <2> DEFINE q(h) == [Blank EXCEPT !.pc = "elsewhere", !.op = "completeHandshake",
                                   !.stale = handshakes[h].user \notin Live(users)]
             x(h) == [step |-> "drop", id |-> h, hs |-> handshakes[h], code |-> code, terms |-> terms]
  <2>1. \/ Respond(r, "403") \/ Respond(r, "404")
        \/ \E h \in WithCode(code) : req' = [req EXCEPT ![r] = q(h)] /\ hreq' = [hreq EXCEPT ![r] = x(h)]
    BY <1>8 DEF Complete
  <2>2. \A h : q(h).pc = "elsewhere" /\ q(h).sid = NoRow
    BY DEF Blank
  <2>3. UNCHANGED stored
    BY <1>8 DEF Complete
  <2> HIDE DEF q, x
  <2> QED
    BY <1>1, <1>2, <2>1, <2>2, <2>3 DEF SlotMoves
<1> QED
  BY <1>3, <1>4, <1>5, <1>6, <1>7, <1>8 DEF Handlers

\* What is in the tables and with the other slots stays as it was.
LEMMA HandledKeeps ==
  ASSUME ServiceInv, HsInv', UNCHANGED vars \/ \E r \in Reqs : Handled(r)
  PROVE  ServiceInv'
<1> USE DEF ServiceInv, OwnerInv, NamesInv
<1>1. UNCHANGED stored
  BY DEF vars, stored, Handled
<1>2. ActsInv'
  BY DEF HsInv
<1>3. Purgeable' /\ UsernamesUnique'
  BY <1>1 DEF Purgeable, UsernamesUnique, stored
<1>4. ASSUME NEW o \in Reqs
      PROVE  Owned(o)' /\ NameKept(o)'
  <2>1. CASE req'[o] = req[o]
    BY <1>1, <2>1 DEF Owned, Mine, NameKept, At, Subject, stored
  <2>2. CASE req'[o] = Blank
    BY <2>2 DEF Owned, NameKept, At, Blank
  <2>3. CASE /\ req'[o].pc \in {"elsewhere", "addSession"}
             /\ req'[o].sid = NoRow \/ (req'[o].sid = req[o].sid /\ req'[o].ses = req[o].ses)
    BY <1>1, <2>3 DEF Owned, Mine, NameKept, At, stored
  <2>4. req'[o] = req[o] \/ req'[o] = Blank
        \/ /\ req'[o].pc \in {"elsewhere", "addSession"}
           /\ req'[o].sid = NoRow \/ (req'[o].sid = req[o].sid /\ req'[o].ses = req[o].ses)
    BY DEF vars, Handled
  <2> QED
    BY <2>1, <2>2, <2>3, <2>4
<1> QED
  BY <1>2, <1>3, <1>4

\* Every step keeps it.
LEMMA NextService ==
  ASSUME ServiceInv, [HsNext]_allvars
  PROVE  ServiceInv'
<1>1. HsInv'
  BY NextHs DEF ServiceInv
<1>2. CASE CoreStep \/ HsCrash
  <2>1. [Next]_vars
    BY <1>2 DEF CoreStep, HsCrash, Next
  <2> QED
    BY <1>1, <2>1, NextOwner, NextNames DEF ServiceInv
<1>3. CASE \E r \in Reqs : Handlers(r)
  BY <1>1, <1>3, HandlersHandle, HandledKeeps DEF ServiceInv
<1>4. CASE UNCHANGED vars
  BY <1>1, <1>4, HandledKeeps
<1> QED
  BY <1>2, <1>3, <1>4
  DEF HsNext, Handlers, StartHandshake, Overdue, CleanHandshakes, DelManyHandshakes, allvars

\* So it holds throughout.
LEMMA ServiceInvariant == HsSpec => []ServiceInv
<1>1. HsInit => ServiceInv
  BY InitHs, InitOwner, InitNames DEF HsInit, ServiceInv
<1>2. ServiceInv /\ [HsNext]_allvars => ServiceInv'
  BY NextService
<1> QED
  BY <1>1, <1>2, PTL DEF HsSpec
-----------------------------------------------------------------------------
(* Accounts and sessions are those of Sessions. *)

\* What a slot is owed changes with the slot alone ...
LEMMA OwedStands ==
  ASSUME NEW o, req'[o] = req[o], hreq'[o] = hreq[o] \/ req[o].pc # "elsewhere"
  PROVE  Owed(o)' = Owed(o)
BY DEF Owed, At

\* ... and so, when others rest, what all are owed.
LEMMA OneOwes ==
  ASSUME NEW r \in Reqs, \A o \in Reqs : o # r => Owed(o)' = Owed(o)
  PROVE  Owings' = [Owings EXCEPT ![r] = Owed(r)']
BY DEF Owings

\* A slot that is free is owed nothing.
LEMMA BlankOwes ==
  ASSUME NEW r, req'[r] = Blank
  PROVE  Owed(r)' = NoRow
BY DEF Owed, At, Blank

\* The tables stay, and one slot is refused, asks for what is good, or is owed what it was.
Owes(r) ==
  \/ Owed(r)' \in {NoRow, Owed(r)}
  \/ Owed(r) = NoRow /\ \E g \in SessionRows : Service!Good(g) /\ Owed(r)' = g

LEMMA OwingServes ==
  ASSUME NEW r \in Reqs, UNCHANGED <<users, sessions, masterKeys, used, expired, Consents>>,
         \A o \in Reqs : o # r => Owed(o)' = Owed(o), Owes(r)
  PROVE  [Service!Next]_(Service!service)
<1> DEFINE owes == Owed(r)'
<1>0. Owings' = [Owings EXCEPT ![r] = owes] /\ Owings[r] = Owed(r) /\ DOMAIN Owings = Reqs
  BY OneOwes DEF Owings
<1> HIDE DEF owes
<1>1. CASE owes = NoRow
  <2>1. Owings' = [c \in Reqs |-> IF c \in {r} THEN NoRow ELSE Owings[c]]
    BY <1>0, <1>1 DEF Owings
  <2>2. Service!Refuse({r})
    BY <2>1 DEF Service!Refuse
  <2> QED
    BY <2>2 DEF Service!Next
<1>2. CASE owes = Owed(r)
  <2>1. Owings' = Owings
    BY <1>0, <1>2 DEF Owings
  <2> QED
    BY <2>1 DEF Service!service
<1>3. ASSUME Owed(r) = NoRow, NEW g \in SessionRows, Service!Good(g), owes = g
      PROVE  Service!Ask(r)
  <2>1. Owings'[r] = g /\ Owings[r] = NoRow
    BY <1>0, <1>3
  <2> QED
    BY <1>0, <1>3, <2>1 DEF Service!Ask, Service!Grants, SessionRows
<1> QED
  BY <1>1, <1>2, <1>3 DEF Owes, owes, Service!Next

\* A step that leaves what all are owed alone changes the tables as Sessions says.
LEMMA RestServes ==
  ASSUME UNCHANGED <<users, sessions, masterKeys, used, expired, Consents, Owings>>
  PROVE  [Service!Next]_(Service!service)
BY DEF Service!service
-----------------------------------------------------------------------------
(* The requests of AuthCore. *)

\* A request that starts is owed what it has found to be good.
LEMMA StartOwes ==
  ASSUME ServiceInv, NEW r \in Reqs, Start(r)
  PROVE  Owes(r)
<1> USE DEF ServiceInv, HsInv, ActsInv, TypeOK
<1>0. ASSUME NEW status, Answer(r, status)
      PROVE  Owes(r)
  BY <1>0, BlankOwes DEF Answer, Owes
<1>1. ASSUME NEW q, req' = [req EXCEPT ![r] = q]
      PROVE  req'[r] = q
  BY <1>1
<1>2. Idle(r) => Owed(r) = NoRow
  BY DEF Idle, Owed, At
<1>3. ASSUME NEW name \in Names, NEW pass \in Passwords, StartLogin(r, name, pass)
      PROVE  Owes(r)
  <2> DEFINE g(u) == [user |-> u, context |-> "user", scope |-> NoScope]
             q(u) == [Blank EXCEPT !.pc = "addSession", !.op = "login", !.row = g(u)]
  <2>1. Answer(r, "401") \/ \E u \in Live(users) : req' = [req EXCEPT ![r] = q(u)]
    BY <1>3 DEF StartLogin, UsersNamed
  <2>2. ASSUME NEW u \in Live(users), req' = [req EXCEPT ![r] = q(u)]
        PROVE  Owes(r)
    <3>1. Owed(r)' = g(u)
      <4>1. q(u).pc = "addSession" /\ q(u).row = g(u)
        BY DEF Blank
      <4> HIDE DEF q, g
      <4> QED
        BY <1>1, <2>2, <4>1 DEF Owed, At
    <3>2. g(u) \in SessionRows /\ g(u).user = u /\ g(u).context = "user" /\ g(u).scope = NoScope
      BY ConstantsAssumption DEF SessionRows, Contexts, Live
    <3>3. Service!Good(g(u))
      BY <3>2 DEF Service!Good, Service!Registered, Service!OfLogin, Live
    <3>4. Owed(r) = NoRow
      BY <1>2, <1>3 DEF StartLogin
    <3> HIDE DEF g
    <3> QED
      BY <3>1, <3>2, <3>3, <3>4 DEF Owes
  <2> QED
    BY <1>0, <2>1, <2>2
<1>4. ASSUME NEW name \in Names, NEW pass \in Passwords, StartRegister(r, name, pass)
      PROVE  Owes(r)
  <2> DEFINE q == [Blank EXCEPT !.pc = "addUser", !.op = "register",
                     !.usr = [name |-> name, pass |-> pass]]
  <2>1. Answer(r, "403") \/ req' = [req EXCEPT ![r] = q]
    BY <1>4 DEF StartRegister
  <2>2. q.pc = "addUser"
    BY DEF Blank
  <2> HIDE DEF q
  <2>3. req' = [req EXCEPT ![r] = q] => Owed(r)' = NoRow
    BY <1>1, <2>2 DEF Owed, At
  <2> QED
    BY <1>0, <2>1, <2>3 DEF Owes
<1>5. ASSUME NEW key \in KeyIds, NEW context \in Contexts, NEW scope \in Scopes,
             StartGenerate(r, key, context, scope)
      PROVE  Owes(r)
  <2> DEFINE owner == masterKeys[key].user
             gone == owner \notin Live(users)
             g == [user |-> owner, context |-> context, scope |-> scope]
             q == [Blank EXCEPT !.pc = "keyUser", !.op = "generateSession",
                     !.stale = gone, !.row = g]
  <2>1. Answer(r, "404") \/ (masterKeys[key] # NoRow /\ req' = [req EXCEPT ![r] = q])
    BY <1>5 DEF StartGenerate
  <2>2. q.pc = "keyUser" /\ q.stale = gone /\ q.row = g
    BY DEF Blank
  <2>3. ASSUME masterKeys[key] # NoRow, req' = [req EXCEPT ![r] = q]
        PROVE  Owes(r)
    <3>1. g \in SessionRows /\ g.user = owner
      BY <2>3 DEF SessionRows, KeyRows
    <3>2. ~gone => Service!Good(g)
      BY <2>3, <3>1 DEF Service!Good, Service!Registered, Service!OfKey, Live
    <3>3. Owed(r) = NoRow
      BY <1>2, <1>5 DEF StartGenerate
    <3> HIDE DEF q, g, gone
    <3>4. Owed(r)' = IF gone THEN NoRow ELSE g
      BY <1>1, <2>2, <2>3 DEF Owed, At
    <3> QED
      BY <3>1, <3>2, <3>3, <3>4 DEF Owes
  <2> QED
    BY <1>0, <2>1, <2>3
<1>6. ASSUME NEW op \in AuthedOps, NEW sid \in tokens,
             \E body \in Bodies(op) : StartAuthed(r, op, sid, body)
      PROVE  Owes(r)
  <2> PICK body \in Bodies(op) : StartAuthed(r, op, sid, body)
    BY <1>6
  <2> DEFINE gone == sid \in expired \/ sessions[sid].user \notin Live(users)
             q == [Blank EXCEPT !.pc = "verify", !.op = op, !.stale = gone,
                     !.pass = body.pass, !.newpass = body.newpass, !.target = body.target,
                     !.sid = sid, !.ses = sessions[sid]]
  <2>1. Answer(r, "403") \/ (sessions[sid] # NoRow /\ req' = [req EXCEPT ![r] = q])
    BY DEF StartAuthed
  <2>2. q.pc = "verify" /\ q.op = op /\ q.stale = gone /\ q.ses = sessions[sid]
    BY DEF Blank
  <2>3. ASSUME sessions[sid] # NoRow, req' = [req EXCEPT ![r] = q]
        PROVE  Owes(r)
    <3>1. sessions[sid] \in SessionRows /\ sid \in SessionIds
      BY <2>3
    <3>2. ~gone => Service!Good(sessions[sid])
      BY <2>3, <3>1 DEF Service!Good, Service!Registered, Service!OfSession, Service!There, Live
    <3>3. Owed(r) = NoRow
      BY <1>2 DEF StartAuthed
    <3> HIDE DEF q, gone
    <3>4. Owed(r)' = IF op = "refresh" /\ ~gone THEN sessions[sid] ELSE NoRow
      BY <1>1, <2>2, <2>3 DEF Owed, At
    <3> QED
      BY <3>1, <3>2, <3>3, <3>4 DEF Owes
  <2> QED
    BY <1>0, <2>1, <2>3
<1> QED
  BY <1>3, <1>4, <1>5, <1>6 DEF Start

\* The other slots rest while one starts or continues.
LEMMA OthersRest ==
  ASSUME TypeOK, NEW r \in Reqs, Start(r) \/ Continue(r), NEW o \in Reqs, o # r
  PROVE  req'[o] = req[o]
<1> USE DEF TypeOK
<1>1. CASE Start(r)
  BY <1>1 DEF Start, StartLogin, StartRegister, StartGenerate, StartAuthed, Answer
<1>2. CASE Continue(r)
  BY <1>2 DEF Continue, AddUser, KeyUser, AddSession, Sign, Verify, RefuseContext, RefusePassword,
    ChangePass, ListIds, DelManySessions, FindSession, DelSession, DeleteSessions, Logout,
    DropOld, DeleteSelf, DelUser, PostUserDelete, AddMasterKey, DropMasterKey, stored, Answer
<1> QED
  BY <1>1, <1>2

\* The checks of a master key's user and of a session refuse what was not good when it was
\* looked up; what they let pass was, and is owed still.
LEMMA CheckOwes ==
  ASSUME ServiceInv, NEW r \in Reqs, KeyUser(r) \/ Verify(r)
  PROVE  Owes(r)
<1> USE DEF ServiceInv, HsInv, ActsInv, At
<1>0. req \in [Reqs -> Request] /\ req[r] \in Locals /\ Holds(req[r]) /\ Sound(r)
  BY InHandler DEF TypeOK
<1>1. ASSUME NEW status, Answer(r, status)
      PROVE  Owes(r)
  BY <1>0, <1>1, BlankOwes DEF Answer, Owes
<1>2. CASE KeyUser(r) /\ users[req[r].row.user] # NoRow
  <2>1. /\ req[r].pc = "keyUser" /\ ~req[r].stale
        /\ req'[r].pc = "addSession" /\ req'[r].row = req[r].row
    BY <1>0, <1>2 DEF KeyUser, Sound, Locals
  <2> QED
    BY <2>1 DEF Owed, Owes
<1>3. CASE Verify(r) /\ Authentic(r)
  <2>1. req[r].pc = "verify" /\ ~req[r].stale
    BY <1>0, <1>3 DEF Verify, Authentic, Sound
  <2>2. IF req[r].op = "refresh" THEN req'[r].pc = "addSession" /\ req'[r].row = req[r].ses
                                 ELSE req'[r].pc = "handler"
    BY <1>0, <1>3 DEF Verify, Locals
  <2> QED
    BY <2>1, <2>2 DEF Owed, Owes
<1> QED
  BY <1>1, <1>2, <1>3 DEF KeyUser, Verify

\* No other request but one that adds its session is owed any.
LEMMA QuietOwes ==
  ASSUME ServiceInv, NEW r \in Reqs, Continue(r), ~KeyUser(r), ~Verify(r), ~AddSession(r)
  PROVE  Owed(r) = NoRow /\ Owed(r)' = NoRow
<1> USE DEF At, Handling
<1>0. req \in [Reqs -> Request] /\ req[r] \in Locals
  BY InHandler DEF ServiceInv, HsInv, HsTypeOK, TypeOK
<1>1. req[r].pc \notin {"addSession", "keyUser", "verify", "elsewhere"}
  BY DEF Continue, AddUser, Sign, RefuseContext, RefusePassword, ChangePass, ListIds,
    DelManySessions, FindSession, DelSession, DeleteSessions, Logout, DropOld, DeleteSelf, DelUser,
    PostUserDelete, AddMasterKey, DropMasterKey
<1>2. ASSUME NEW status, Answer(r, status)
      PROVE  req'[r].pc = "idle"
  BY <1>0, <1>2 DEF Answer, Blank
<1>3. req'[r].pc \in {"idle", "listIds", "delMany", "del", "delUser", "post"}
  <2>1. CASE ChangePass(r) \/ ListIds(r) \/ FindSession(r) \/ DeleteSelf(r) \/ DelUser(r)
    BY <1>0, <1>2, <2>1 DEF ChangePass, ListIds, FindSession, DeleteSelf, DelUser, Locals
  <2> QED
    BY <1>2, <2>1 DEF Continue, AddUser, Sign, RefuseContext, RefusePassword, DelManySessions,
      DelSession, DeleteSessions, Logout, DropOld, PostUserDelete, AddMasterKey, DropMasterKey
<1> QED
  BY <1>1, <1>3 DEF Owed

\* addSession gives what is owed.
LEMMA AddServes ==
  ASSUME ServiceInv, NEW r \in Reqs, AddSession(r), UNCHANGED Consents,
         \A o \in Reqs : o # r => Owed(o)' = Owed(o)
  PROVE  Service!Give(r)
<1> USE DEF ServiceInv, HsInv, ActsInv, At
<1>0. req \in [Reqs -> Request] /\ req[r] \in Locals /\ Holds(req[r]) /\ req[r].pc = "addSession"
  BY InHandler DEF TypeOK, AddSession
<1>1. Owings[r] = req[r].row /\ req[r].row # NoRow
  BY <1>0 DEF Owings, Owed, Holds
<1>2. req'[r].pc \in {"dropOld", "sign"}
  BY <1>0 DEF AddSession, Locals
<1>3. Owings' = [Owings EXCEPT ![r] = NoRow]
  <2>1. Owed(r)' = NoRow
    BY <1>2 DEF Owed
  <2> QED
    BY <2>1, OneOwes
<1>4. Fresh(SessionIds) \in SessionIds \ used
  BY FreshIsUnused DEF AddSession
<1>5. /\ sessions' = [sessions EXCEPT ![Fresh(SessionIds)] = req[r].row]
      /\ used' = used \cup {Fresh(SessionIds)} /\ UNCHANGED <<users, masterKeys, expired>>
  BY DEF AddSession, Add
<1> HIDE DEF ServiceInv
<1> QED
  BY <1>1, <1>3, <1>4, <1>5 DEF Service!Give

\* Whoever deletes sessions deletes those of one user, or what is nobody's or has expired.
LEMMA DeletionServes ==
  ASSUME TypeOK, NEW ids, sessions' = DelMany(sessions, ids),
         UNCHANGED <<users, masterKeys, used, expired, Consents, Owings>>,
         \/ \E u \in UserIds : \A s \in ids \cap Live(sessions) : sessions[s].user = u
         \/ \A s \in ids \cap Live(sessions) : s \in expired \/ users[sessions[s].user] = NoRow
  PROVE  [Service!Next]_(Service!service)
<1> DEFINE S == ids \cap Live(sessions)
<1>1. S \in SUBSET Service!There
  BY DEF Live, TypeOK, Service!There
<1>2. sessions' = [s \in SessionIds |-> IF s \in S THEN NoRow ELSE sessions[s]]
  BY DEF TypeOK, DelMany, Live
<1> HIDE DEF S
<1>3. Service!Revoke(S)
  BY <1>2 DEF Service!Revoke, Service!Registered, S
<1> QED
  BY <1>1, <1>3 DEF Service!Next

\* What a request deletes is of its user.
LEMMA RevocationServes ==
  ASSUME ServiceInv, NEW r \in Reqs,
         DelManySessions(r) \/ DelSession(r) \/ Logout(r) \/ DropOld(r),
         UNCHANGED <<Consents, Owings>>
  PROVE  [Service!Next]_(Service!service)
<1> USE DEF ServiceInv, OwnerInv, ActsInv
<1>1. req[r].ses # NoRow /\ req[r].sid # NoRow
  BY HeldHasType
  DEF DelManySessions, DelSession, Logout, DropOld, Handling, At, Holds, WithSession
<1>2. req[r].ses.user \in UserIds
  BY <1>1, HeldHasType DEF Locals, SessionRows
<1>3. ASSUME NEW ids, sessions' = DelMany(sessions, ids), \A s \in ids : Mine(r, s),
             UNCHANGED <<users, masterKeys, used, expired>>
      PROVE  [Service!Next]_(Service!service)
  BY <1>2, <1>3, DeletionServes DEF Mine, Live
<1>4. CASE DelManySessions(r)
  BY <1>3, <1>4 DEF DelManySessions, At, Owned
<1>5. CASE DelSession(r)
  BY <1>3, <1>5 DEF DelSession, At, Owned, Del
<1>6. CASE Logout(r) \/ DropOld(r)
  BY <1>1, <1>3, <1>6 DEF Logout, DropOld, Owned, Del
<1> QED
  BY <1>4, <1>5, <1>6

\* A registration finds no account of the name, a change of password keeps the name, and
\* a deletion takes the row: each is one step of Sessions.
LEMMA AccountsServe ==
  ASSUME ServiceInv, NEW r \in Reqs, AddUser(r) \/ ChangePass(r) \/ DelUser(r),
         UNCHANGED <<Consents, Owings>>
  PROVE  [Service!Next]_(Service!service)
<1> USE DEF ServiceInv, HsInv, ActsInv, TypeOK, At, Handling
<1>0. /\ req[r] \in Locals /\ Holds(req[r]) /\ NameKept(r)
      /\ UNCHANGED <<sessions, masterKeys, expired>>
  BY InHandler DEF NamesInv, AddUser, ChangePass, DelUser
<1>1. CASE AddUser(r)
  <2>1. CASE Insertable(req[r].usr.name)
    <3> DEFINE u == Fresh(UserIds)
    <3>1. u \in UserIds \ used /\ users' = [users EXCEPT ![u] = req[r].usr] /\ used' = used \cup {u}
      BY <1>1, <2>1, FreshIsUnused DEF AddUser, Add
    <3> HIDE DEF u
    <3>2. req[r].usr \in UserRows
      BY <1>0, <1>1 DEF AddUser, Locals, Holds
    <3>3. \A v \in UserIds : users[v] # NoRow => users[v].name # req[r].usr.name
      BY <2>1 DEF Insertable, UsersNamed, Live
    <3>4. Service!Register(u)
      BY <1>0, <3>1, <3>2, <3>3 DEF Service!Register, Service!Accounts, Service!Registered, UserRows
    <3> QED
      BY <3>1, <3>4 DEF Service!Next
  <2> QED
    BY <1>0, <1>1, <2>1, RestServes DEF AddUser
<1>2. ASSUME ChangePass(r) \/ DelUser(r)
      PROVE  Subject(r) \in UserIds /\ UNCHANGED used
  BY <1>2, SubjectIsUser DEF ChangePass, DelUser, WithSession
<1>3. CASE ChangePass(r)
  <2> DEFINE u == Subject(r)
             pass == req[r].newpass
  <2>1. users' = Put(users, u, [req[r].usr EXCEPT !.pass = pass])
    BY <1>3 DEF ChangePass
  <2>2. CASE users[u] # NoRow
    <3>1. /\ req[r].usr \in UserRows /\ users[u] \in UserRows /\ pass \in Passwords
          /\ users[u].name = req[r].usr.name
      BY <1>0, <1>2, <1>3, <2>2 DEF ChangePass, Locals, Holds, PasswordOps, NameKept
    <3>2. [req[r].usr EXCEPT !.pass = pass] = [users[u] EXCEPT !.pass = pass]
      BY <3>1 DEF UserRows
    <3>3. users' = [users EXCEPT ![u] = [users[u] EXCEPT !.pass = pass]]
      BY <2>1, <2>2, <3>2 DEF Put
    <3> HIDE DEF u, pass
    <3>4. Service!SetPassword(u)
      BY <1>0, <1>2, <1>3, <3>1, <3>3 DEF Service!SetPassword
    <3> QED
      BY <1>2, <1>3, <2>2, <3>4 DEF Service!Next, Service!Registered, u
  <2> QED
    BY <1>0, <1>2, <1>3, <2>1, <2>2, RestServes DEF Put
<1>4. CASE DelUser(r)
  <2> DEFINE u == Subject(r)
  <2>1. users' = [v \in UserIds |-> IF v = u THEN NoRow ELSE users[v]]
    BY <1>4 DEF DelUser, Del, DelMany
  <2>2. u \in UserIds /\ UNCHANGED used
    BY <1>2, <1>4
  <2> HIDE DEF u
  <2>3. CASE users[u] # NoRow
    <3>1. users' = [users EXCEPT ![u] = NoRow]
      BY <2>1, <2>2
    <3>2. Service!Leave(u)
      BY <1>0, <2>2, <3>1 DEF Service!Leave
    <3> QED
      BY <2>2, <2>3, <3>2 DEF Service!Next, Service!Registered
  <2>4. CASE users[u] = NoRow
    <3>1. users' = users
      BY <2>1, <2>4
    <3> QED
      BY <1>0, <2>2, <3>1, RestServes
  <2> QED
    BY <2>3, <2>4
<1> QED
  BY <1>1, <1>3, <1>4

\* A new master key is its user's.
LEMMA KeyServes ==
  ASSUME ServiceInv, NEW r \in Reqs, AddMasterKey(r), UNCHANGED <<Consents, Owings>>
  PROVE  [Service!Next]_(Service!service)
<1> USE DEF ServiceInv, HsInv, ActsInv
<1>1. Subject(r) \in UserIds \cap used
  <2>1. req[r].ses # NoRow
    BY InHandler DEF AddMasterKey, Handling, At, Holds, WithSession
  <2> QED
    BY <2>1, InHandler
<1> DEFINE k == Fresh(KeyIds)
           u == Subject(r)
<1>2. /\ k \in KeyIds \ used /\ masterKeys' = [masterKeys EXCEPT ![k] = [user |-> u]]
      /\ used' = used \cup {k} /\ UNCHANGED <<users, sessions, expired>>
  BY FreshIsUnused DEF AddMasterKey, Add
<1> HIDE DEF k, u
<1>3. Service!AddKey(k, u)
  BY <1>2 DEF Service!AddKey
<1> QED
  BY <1>1, <1>2, <1>3 DEF Service!Next, u

\* Whatever a request of AuthCore does is a step of Sessions, or none.
LEMMA ContinueServes ==
  ASSUME ServiceInv, NEW r \in Reqs, Continue(r), UNCHANGED Consents,
         \A o \in Reqs : o # r => Owed(o)' = Owed(o)
  PROVE  [Service!Next]_(Service!service)
<1>1. CASE AddSession(r)
  BY <1>1, AddServes DEF Service!Next
<1>2. CASE KeyUser(r) \/ Verify(r)
  <2>1. UNCHANGED <<users, sessions, masterKeys, used, expired>>
    BY <1>2 DEF KeyUser, Verify, stored
  <2> QED
    BY <1>2, <2>1, CheckOwes, OwingServes
<1>3. CASE ~AddSession(r) /\ ~KeyUser(r) /\ ~Verify(r)
  <2>1. UNCHANGED Owings
    BY <1>3, QuietOwes DEF Owings
  <2>2. CASE \/ Sign(r) \/ RefuseContext(r) \/ RefusePassword(r) \/ ListIds(r) \/ FindSession(r)
             \/ DeleteSessions(r) \/ DeleteSelf(r) \/ PostUserDelete(r) \/ DropMasterKey(r)
    <3>1. UNCHANGED <<users, sessions, masterKeys, used, expired>>
      BY <2>2 DEF Sign, RefuseContext, RefusePassword, ListIds, FindSession, DeleteSessions,
        DeleteSelf, PostUserDelete, DropMasterKey, stored
    <3> QED
      BY <2>1, <3>1, RestServes
  <2> QED
    BY <1>3, <2>1, <2>2, AccountsServe, KeyServes, RevocationServes DEF Continue
<1> QED
  BY <1>1, <1>2, <1>3

\* So is whatever AuthCore does besides.
LEMMA CoreServes ==
  ASSUME ServiceInv, CoreStep \/ HsCrash
  PROVE  [Service!Next]_(Service!service)
<1> USE DEF ServiceInv, HsInv, ActsInv
<1>0. UNCHANGED Consents
  BY DEF CoreStep, HsCrash, Consents, ToApp
<1>1. ASSUME NEW r \in Reqs, Start(r) \/ Continue(r), CoreStep
      PROVE  [Service!Next]_(Service!service)
  <2>1. ASSUME NEW o \in Reqs, o # r
        PROVE  Owed(o)' = Owed(o)
    <3>1. req'[o] = req[o]
      BY <1>1, <2>1, OthersRest
    <3>2. hreq'[o] = hreq[o] \/ req[o].pc # "elsewhere"
      BY <1>1, <3>1 DEF CoreStep, Idle
    <3> QED
      BY <3>1, <3>2, OwedStands
  <2>2. CASE Start(r)
    <3>1. UNCHANGED <<users, sessions, masterKeys, used, expired>>
      BY <2>2 DEF Start, StartLogin, StartRegister, StartGenerate, StartAuthed, stored
    <3> QED
      BY <1>0, <2>1, <2>2, <3>1, StartOwes, OwingServes
  <2> QED
    BY <1>0, <1>1, <2>1, <2>2, ContinueServes
<1>2. ASSUME UNCHANGED req, CoreStep
      PROVE  UNCHANGED Owings
  <2>1. ASSUME NEW o \in Reqs
        PROVE  Owed(o)' = Owed(o)
    BY <1>2, OwedStands DEF CoreStep, Idle
  <2> QED
    BY <2>1 DEF Owings
<1>3. ASSUME NEW s \in SessionIds, Expire(s), CoreStep
      PROVE  [Service!Next]_(Service!service)
  <2>1. UNCHANGED Owings
    BY <1>2, <1>3 DEF Expire
  <2>2. s \in Service!There
    BY <1>3 DEF Expire, Live, Service!There, TypeOK
  <2>3. Service!Expire(s)
    BY <1>0, <1>3, <2>1 DEF Expire, Service!Expire
  <2> QED
    BY <2>2, <2>3 DEF Service!Next
<1>4. ASSUME CleanSessions, CoreStep
      PROVE  [Service!Next]_(Service!service)
  BY <1>0, <1>2, <1>4, RestServes DEF CleanSessions
<1>5. ASSUME NEW ids \in purges, Purge(ids), CoreStep
      PROVE  [Service!Next]_(Service!service)
  <2>1. UNCHANGED <<users, masterKeys, used, expired, Owings>> /\ sessions' = DelMany(sessions, ids)
    BY <1>2, <1>5 DEF Purge
  <2>2. \A s \in ids \cap Live(sessions) : s \in expired \/ users[sessions[s].user] = NoRow
    BY DEF OwnerInv, Purgeable, Live
  <2> QED
    BY <1>0, <2>1, <2>2, DeletionServes
<1>6. CASE HsCrash
  <2>1. UNCHANGED <<users, sessions, masterKeys, used, expired>> /\ req' = [r \in Reqs |-> Blank]
    BY <1>6 DEF HsCrash, Crash
  <2>2. ASSUME NEW o \in Reqs
        PROVE  Owed(o)' = NoRow
    BY <2>1, BlankOwes
  <2>3. Owings' = [c \in Reqs |-> IF c \in Reqs THEN NoRow ELSE Owings[c]]
    BY <2>2 DEF Owings
  <2>4. Service!Refuse(Reqs)
    BY <1>0, <2>1, <2>3 DEF Service!Refuse
  <2> QED
    BY <2>4 DEF Service!Next
<1> QED
  BY <1>1, <1>3, <1>4, <1>5, <1>6 DEF CoreStep
-----------------------------------------------------------------------------
(* The handlers of handshakes. *)

\* A user's request for a handshake is owed nothing.
LEMMA DecidingOwes ==
  ASSUME HsInv, NEW r \in Reqs, NEW step \in UserSteps, In(r, step)
  PROVE  req[r].pc = "elsewhere" /\ Deciding(r) /\ Owed(r) = NoRow
<1>1. req[r].pc = "elsewhere" /\ Deciding(r)
  BY DEF HsInv, Held, Completing, UserSteps, AppSteps, In, At
<1> QED
  BY <1>1 DEF Deciding, HandshakeOps, Owed, At

\* Looking at a handshake, approving it up to the statement that stores it, and cancelling it
\* owe nobody anything.
LEMMA DecisionOwes ==
  ASSUME HsInv, NEW r \in Reqs,
         TestHandshake(r) \/ DelHandshake(r) \/ PickCode(r) \/ PutHandshake(r)
  PROVE  Owed(r) = NoRow /\ Owed(r)' = NoRow
<1>0. /\ req \in [Reqs -> Request] /\ req[r] \in Locals
      /\ hreq \in [Reqs -> HandshakeRequest] /\ hreq[r] \in HandshakeRequest
  BY InHandler DEF HsInv, HsTypeOK, TypeOK
<1>1. ASSUME NEW status, Respond(r, status)
      PROVE  Owed(r)' = NoRow
  BY <1>0, <1>1, BlankOwes DEF Respond, Answer
<1>2. CASE TestHandshake(r)
  <2>1. req[r].pc = "handler" /\ req[r].op \in HandshakeOps
    BY <1>2 DEF TestHandshake, At
  <2>2. \/ Respond(r, "404") \/ Respond(r, "200")
        \/ req' = [req EXCEPT ![r].pc = "elsewhere"]
    BY <1>2, <2>1 DEF TestHandshake, HandshakeOps
  <2>3. req' = [req EXCEPT ![r].pc = "elsewhere"] => Owed(r)' = NoRow
    BY <1>0, <2>1 DEF Owed, At, Locals, HandshakeOps
  <2> QED
    BY <1>1, <2>1, <2>2, <2>3 DEF Owed, At
<1>3. CASE DelHandshake(r) \/ PutHandshake(r)
  BY <1>1, <1>3, DecidingOwes DEF DelHandshake, PutHandshake, UserSteps
<1>4. CASE PickCode(r)
  <2>1. req' = req /\ In(r, "pickCode")
    BY <1>4 DEF PickCode, vars
  <2>2. req[r].pc = "elsewhere" /\ Deciding(r) /\ Owed(r) = NoRow
    BY <2>1, DecidingOwes DEF UserSteps
  <2> QED
    BY <2>1, <2>2 DEF Deciding, HandshakeOps, Owed, At
<1> QED
  BY <1>2, <1>3, <1>4

\* A completion is owed what the approval of its code consented to, if its user was there
\* when the code was looked up; and it is refused if not.
LEMMA CompletionOwes ==
  ASSUME HsInv, NEW r \in Reqs,
         \/ SpendHandshake(r) \/ OwnerOfHandshake(r)
         \/ \E code \in given, terms \in Terms : Complete(r, code, terms)
  PROVE  Owes(r)
<1>0. /\ req \in [Reqs -> Request] /\ req[r] \in Locals
      /\ hreq \in [Reqs -> HandshakeRequest] /\ hreq[r] \in HandshakeRequest
  BY InHandler DEF HsInv, HsTypeOK, TypeOK
<1>1. ASSUME NEW status, Respond(r, status)
      PROVE  Owes(r)
  BY <1>0, <1>1, BlankOwes DEF Respond, Answer, Owes
<1>2. CASE SpendHandshake(r)
  <2>1. CASE GoTo(r, "owner")
    <3>1. req' = req /\ hreq'[r].hs = hreq[r].hs
      BY <1>0, <2>1 DEF GoTo, HandshakeRequest
    <3> QED
      BY <3>1 DEF Owed, Owes, At, ToApp
  <2> QED
    BY <1>1, <1>2, <2>1 DEF SpendHandshake
<1>3. CASE OwnerOfHandshake(r)
  <2>1. CASE Completable(r)
    <3> DEFINE row == ToApp(hreq[r].hs.user, hreq[r].hs.terms)
    <3>1. req[r].pc = "elsewhere" /\ Completing(r)
      BY <1>3, InCompletion DEF OwnerOfHandshake, AppSteps
    <3>2. req[r].op = "completeHandshake" /\ ~req[r].stale
      BY <2>1, <3>1, <1>0 DEF Completing, Completable, Locals
    <3>3. Owed(r) = row
      BY <3>1, <3>2 DEF Owed, At
    <3>4. req' = [req EXCEPT ![r].pc = "addSession", ![r].row = row]
      BY <1>3, <2>1 DEF OwnerOfHandshake, ToApp
    <3> HIDE DEF row
    <3>5. req'[r].pc = "addSession" /\ req'[r].row = row
      BY <1>0, <3>4 DEF Locals
    <3> QED
      BY <3>3, <3>5 DEF Owed, At, Owes
  <2> QED
    BY <1>1, <1>3, <2>1 DEF OwnerOfHandshake
<1>4. ASSUME NEW code \in given, NEW terms \in Terms, Complete(r, code, terms)
      PROVE  Owes(r)
  <2> DEFINE gone(h) == handshakes[h].user \notin Live(users)
             q(h) == [Blank EXCEPT !.pc = "elsewhere", !.op = "completeHandshake", !.stale = gone(h)]
             x(h) == [step |-> "drop", id |-> h, hs |-> handshakes[h], code |-> code, terms |-> terms]
  <2>1. \/ Respond(r, "403") \/ Respond(r, "404")
        \/ \E h \in WithCode(code) : req' = [req EXCEPT ![r] = q(h)] /\ hreq' = [hreq EXCEPT ![r] = x(h)]
    BY <1>4 DEF Complete
  <2>2. ASSUME NEW h \in WithCode(code), req' = [req EXCEPT ![r] = q(h)],
               hreq' = [hreq EXCEPT ![r] = x(h)]
        PROVE  Owes(r)
    <3> DEFINE owner == handshakes[h].user
               g == ToApp(owner, handshakes[h].terms)
    <3>1. h \in Live(handshakes) /\ handshakes[h].code = code /\ handshakes[h] \in HandshakeRows
      BY DEF WithCode, Live, HsInv, HsTypeOK
    <3>2. code \in Codes /\ code # NoRow
      BY HsNames DEF HsInv, HsTypeOK
    <3>3. owner \in UserIds /\ approved[code] = [user |-> owner, terms |-> handshakes[h].terms]
      BY <3>1, <3>2 DEF HsInv, RowsHeld, HandshakeRows
    <3>4. g \in Consents
      BY <3>3 DEF Consents
    <3>5. g \in SessionRows /\ g.user = owner
      BY <3>1, <3>3, TermsAssumption, ConstantsAssumption
      DEF HandshakeRows, SessionRows, Contexts, ToApp
    <3>6. ~gone(h) => Service!Good(g)
      BY <3>4, <3>5 DEF Service!Good, Service!Registered, Live
    <3>7. req'[r] = q(h) /\ hreq'[r] = x(h)
      BY <1>0, <2>2
    <3>8. /\ q(h).pc = "elsewhere" /\ q(h).op = "completeHandshake" /\ q(h).stale = gone(h)
          /\ x(h).hs = handshakes[h]
      BY DEF Blank
    <3>9. Owed(r) = NoRow
      BY <1>4 DEF Complete, Idle, Owed, At
    <3> HIDE DEF gone, q, x
    <3>10. Owed(r)' = IF gone(h) THEN NoRow ELSE g
      BY <3>7, <3>8 DEF Owed, At, ToApp
    <3> HIDE DEF g
    <3> QED
      BY <3>5, <3>6, <3>9, <3>10 DEF Owes
  <2> QED
    BY <1>1, <2>1, <2>2
<1> QED
  BY <1>2, <1>3, <1>4

\* An approval is the user's consent, also when there is no row left to store it in.
LEMMA ApprovalServes ==
  ASSUME HsInv, NEW r \in Reqs, PutHandshake(r), UNCHANGED Owings
  PROVE  [Service!Next]_(Service!service)
<1> DEFINE code == hreq[r].code
           g == ToApp(Subject(r), hreq[r].hs.terms)
<1>1. req[r].pc = "elsewhere" /\ Deciding(r) /\ Held(r) /\ hreq[r].step = "put"
  BY DecidingOwes DEF PutHandshake, UserSteps, In, HsInv
<1>2. /\ Subject(r) \in UserIds \cap used /\ hreq[r].hs \in HandshakeRows
      /\ code \in Codes /\ code \notin given
  BY <1>1, InHandler DEF Held, Deciding
<1>3. g \in Service!Grants /\ g.user \in used
  BY <1>2, TermsAssumption, ConstantsAssumption
  DEF HandshakeRows, Service!Grants, Contexts, ToApp
<1>4. Consents' = Consents \cup {g}
  <2>1. given' = given \cup {code} /\ approved \in [Codes -> [user : UserIds, terms : Terms] \cup {NoRow}]
        /\ given \subseteq Codes
    BY DEF PutHandshake, HsInv, HsTypeOK
  <2>2. approved'[code] = [user |-> Subject(r), terms |-> hreq[r].hs.terms]
    BY <1>2, <2>1 DEF PutHandshake
  <2>3. \A c \in given : approved'[c] = approved[c]
    BY <1>2, <2>1 DEF PutHandshake
  <2>4. ToApp(approved'[code].user, approved'[code].terms) = g
    BY <2>2
  <2> HIDE DEF code, g
  <2>5. Consents' = {ToApp(approved'[c].user, approved'[c].terms) : c \in given'}
    BY DEF Consents, ToApp
  <2> QED
    BY <2>1, <2>3, <2>4, <2>5 DEF Consents
<1>5. UNCHANGED <<users, sessions, masterKeys, used, expired>>
  BY DEF PutHandshake, stored
<1> HIDE DEF g
<1>6. Service!Consent(g)
  BY <1>4, <1>5 DEF Service!Consent
<1> QED
  BY <1>3, <1>6 DEF Service!Next

\* Every step is one of Sessions, or none.
LEMMA NextServes ==
  ASSUME ServiceInv, [HsNext]_allvars
  PROVE  [Service!Next]_(Service!service)
<1>1. CASE CoreStep \/ HsCrash
  BY <1>1, CoreServes
<1>2. ASSUME NEW r \in Reqs, Handlers(r)
      PROVE  [Service!Next]_(Service!service)
  <2>1. Handled(r)
    BY <1>2, HandlersHandle DEF ServiceInv
  <2>2. \A o \in Reqs : o # r => Owed(o)' = Owed(o)
    BY <2>1, OwedStands DEF Handled
  <2>3. UNCHANGED <<users, sessions, masterKeys, used, expired>>
    BY <2>1 DEF Handled, stored
  <2>4. CASE PutHandshake(r)
    <3>1. UNCHANGED Owings
      BY <2>2, <2>4, DecisionOwes DEF ServiceInv, Owings
    <3> QED
      BY <2>4, <3>1, ApprovalServes DEF ServiceInv
  <2>5. CASE ~PutHandshake(r)
    <3>1. UNCHANGED Consents
      BY <1>2, <2>5 DEF Handlers, TestHandshake, DelHandshake, PickCode, SpendHandshake,
        OwnerOfHandshake, Complete, Consents, ToApp
    <3>2. Owes(r)
      BY <1>2, <2>5, DecisionOwes, CompletionOwes DEF Handlers, ServiceInv, Owes
    <3> QED
      BY <2>2, <2>3, <3>1, <3>2, OwingServes
  <2> QED
    BY <2>4, <2>5
<1>3. CASE \/ \E terms \in Started : StartHandshake(terms)
           \/ \E h \in HandshakeIds : Overdue(h)
           \/ CleanHandshakes
           \/ DelManyHandshakes
           \/ UNCHANGED allvars
  <2>1. UNCHANGED <<vars, given, approved, hreq>>
    BY <1>3 DEF StartHandshake, Overdue, CleanHandshakes, DelManyHandshakes, allvars, hvars
  <2>2. UNCHANGED <<users, sessions, masterKeys, used, expired>> /\ UNCHANGED Consents
    BY <2>1 DEF vars, Consents, ToApp
  <2>3. UNCHANGED Owings
    BY <2>1 DEF vars, Owings, Owed, At, ToApp
  <2> QED
    BY <2>2, <2>3, RestServes
<1> QED
  BY <1>1, <1>2, <1>3 DEF HsNext, Handlers

\* A node without accounts is a service without accounts.
LEMMA InitServes == HsInit => Service!Init
<1> SUFFICES ASSUME HsInit
             PROVE  Service!Init
  OBVIOUS
<1>1. Consents = {}
  BY DEF HsInit, Consents
<1>2. Owings = [c \in Reqs |-> NoRow]
  BY DEF HsInit, Init, Owings, Owed, At, Blank
<1> QED
  BY <1>1, <1>2 DEF HsInit, Init, Service!Init, Service!Registered, Service!There
-----------------------------------------------------------------------------
(* Theorems. *)

\* Tables, requests and handlers of handshakes keep their types: an approval never
\* writes a row without a user, and a completion never looks up a user that is none.
THEOREM HandshakeTypes == HsSpec => []HsTypeOK
<1>1. HsInv => HsTypeOK
  BY DEF HsInv
<1> QED
  BY <1>1, HsInvariant, PTL

\* A completion gives a session of the user who drew the code that it presents, and for
\* the terms that this user was shown, however many users approve the handshake at once.
THEOREM CompletionIsApprovers == HsSpec => []SessionIsApprovers
<1>1. HsInv => SessionIsApprovers
  BY DEF HsInv, Held, SessionIsApprovers
<1> QED
  BY <1>1, HsInvariant, PTL

\* With handshakes as one more way to a session, no request past its checks acts for what
\* was gone when it began.
THEOREM CompletionsDoNotActForTheGone == HsSpec => []NeverActsForTheGone
<1>1. HsInv => NeverActsForTheGone
  BY DEF HsInv, ActsInv, Sound, NeverActsForTheGone
<1> QED
  BY <1>1, HsInvariant, PTL

\* A handshake that was completed, cancelled or swept never comes back.
THEOREM ClosedForGood == HsSpec => HandshakesStayClosed
<1>1. ASSUME HsInv, [HsNext]_allvars, NEW h \in HandshakeIds \cap drawn, handshakes[h] = NoRow
      PROVE  handshakes'[h] = NoRow
  <2>1. h \in DOMAIN handshakes /\ h \in drawn
    BY <1>1 DEF HsInv, HsTypeOK
  <2>2. CASE handshakes' = handshakes
    BY <1>1, <2>2
  <2>3. ASSUME NEW ids, handshakes' = DelMany(handshakes, ids)
        PROVE  handshakes'[h] = NoRow
    BY <1>1, <2>1, <2>3 DEF DelMany
  <2>4. ASSUME NEW i, NEW row, handshakes' = Put(handshakes, i, row)
        PROVE  handshakes'[h] = NoRow
    BY <1>1, <2>1, <2>4 DEF Put
  <2>5. ASSUME NEW terms \in Started, StartHandshake(terms)
        PROVE  handshakes'[h] = NoRow
    <3> DEFINE new == CHOOSE i \in HandshakeIds : i \notin drawn
    <3>1. new \notin drawn /\ \E row : handshakes' = [handshakes EXCEPT ![new] = row]
      BY <2>5 DEF StartHandshake, Add
    <3> HIDE DEF new
    <3> QED
      BY <1>1, <2>1, <3>1
  <2>6. ASSUME NEW r \in Reqs, DelHandshake(r) \/ SpendHandshake(r)
        PROVE  \E ids : handshakes' = DelMany(handshakes, ids)
    BY <2>6 DEF DelHandshake, SpendHandshake, Del
  <2> QED
    BY <1>1, <2>2, <2>3, <2>4, <2>5, <2>6
    DEF HsNext, CoreStep, HsCrash, TestHandshake, PickCode, PutHandshake, OwnerOfHandshake,
      Complete, Overdue, CleanHandshakes, DelManyHandshakes, allvars, hvars
<1>2. HsInv /\ [HsNext]_allvars =>
        [\A h \in HandshakeIds \cap drawn : handshakes[h] = NoRow => handshakes'[h] = NoRow]_allvars
  BY <1>1
<1> QED
  BY <1>2, HsInvariant, PTL DEF HsSpec, HandshakesStayClosed

\* However requests, handshakes, sweeps and crashes overlap, accounts and sessions are those of
\* Sessions: a session is given for what was good when it was looked up and says what that said,
\* it stays as it is until its user, its user's deletion or its age takes it, and nothing comes
\* back.
THEOREM AccountsAreService == HsSpec => SessionsAreGiven
BY InitServes, NextServes, ServiceInvariant, PTL DEF HsSpec, SessionsAreGiven, Service!Spec
=============================================================================
