---------------------------- MODULE MCHandshakes ----------------------------
(***************************************************************************)
(* Handshakes from a database in which ada and bob are registered and each *)
(* logged in, or bob has left since, and no handshake was started yet.     *)
(***************************************************************************)
EXTENDS Handshakes, TLC

CONSTANTS ada, bob, s1, s2, s3, s4, k1, h1, h2, c1, c2, r1, r2, r3

Account(u) == [name |-> IF u = ada THEN "ada" ELSE "bob", pass |-> "old"]
LoggedIn(u) == [user |-> u, context |-> "user", scope |-> NoScope]

\* When bob left, his session went with him; the ids stay known.
MCInit ==
  /\ \E here \in {{ada}, UserIds} :
       /\ users = [u \in UserIds |-> IF u \in here THEN Account(u) ELSE NoRow]
       /\ sessions = [s \in SessionIds |->
                        CASE s = s1                 -> LoggedIn(ada)
                          [] s = s2 /\ bob \in here -> LoggedIn(bob)
                          [] OTHER                  -> NoRow]
  /\ masterKeys = [k \in KeyIds |-> NoRow]
  /\ used = UserIds \cup ({s1, s2} \cap SessionIds) /\ tokens = Live(sessions)
  /\ expired = {} /\ purges = {}
  /\ req = [r \in Reqs |-> Blank]
  /\ handshakes = [h \in HandshakeIds |-> NoRow]
  /\ drawn = {} /\ overdue = {} /\ given = {} /\ sweep = {}
  /\ approved = [c \in Codes |-> NoRow]
  /\ hreq = [r \in Reqs |-> NoHandshake]

MCSpec == MCInit /\ [][HsNext]_allvars

\* What apps ask for: the right thing, the right thing for a wrong place, and more.
Right   == [app |-> "app", redirect |-> "there", scope |-> "docs"]
Astray  == [Right EXCEPT !.redirect = "astray"]
Greedy  == [Right EXCEPT !.scope = "all"]
Secure  == [Right EXCEPT !.app = "secure"]
MCTerms == {Right, Astray, Greedy, Secure}
MCStarted == {Right, Secure}

\* Bound: where bob was here at first, requests are about handshakes and deletions, and no
\* time passes; where he was not, about all but cancelling, with one code and the right terms.
\* No master key is used for an app called "secure", which nothing would refuse.
Two == s2 \in tokens
Traffic ==
  /\ Two =>
       /\ overdue' = {} /\ expired' = {}
       /\ \A r \in Reqs :
            req'[r].op \notin {"login", "refresh", "addMasterKey", "generateSession"}
  /\ ~Two =>
       /\ given' \subseteq {c1}
       /\ \A r \in Reqs : hreq'[r].terms \in {NoRow, Right} /\ req'[r].op # "cancelHandshake"
  /\ \A r \in Reqs : req'[r].row # NoRow => req'[r].row.context # "secure"

\* The slots of requests are interchangeable.
SlotSymmetry == Permutations(Reqs)
=============================================================================
