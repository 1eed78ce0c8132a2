----------------------------- MODULE MCAuthCore -----------------------------
(***************************************************************************)
(* AuthCore from a database that an earlier run left: ada (and bob, where  *)
(* the instance has him) registered, ada logged in as s1, and s2 is the    *)
(* session of an app of hers; so that the routes behind the middleware are *)
(* few steps away.                                                         *)
(***************************************************************************)
EXTENDS AuthCore, TLC

CONSTANTS ada, bob, u3, u4, s1, s2, s3, k1, r1, r2, r3

MCInit ==
  /\ users = [u \in UserIds |->
                CASE u = ada -> [name |-> "ada", pass |-> "old"]
                  [] u = bob -> [name |-> "bob", pass |-> "old"]
                  [] OTHER   -> NoRow]
  /\ sessions = [s \in SessionIds |->
                   CASE s = s1 -> [user |-> ada, context |-> "user", scope |-> NoScope]
                     [] s = s2 -> [user |-> ada, context |-> "app", scope |-> NoScope]
                     [] OTHER  -> NoRow]
  /\ masterKeys = [k \in KeyIds |-> NoRow]
  /\ used = Live(users) \cup Live(sessions)
  /\ tokens = Live(sessions)
  /\ expired = {} /\ purges = {}
  /\ req = [r \in Reqs |-> Blank]

MCSpec == MCInit /\ [][Next]_vars
MCFairSpec == MCSpec /\ Fairness

\* The same with bob and the app's session, or without, who have left since.
MCInitTwo ==
  \E here \in {{ada, s1}, {ada, bob, s1, s2}} :
    /\ users = [u \in UserIds |->
                  CASE u = ada               -> [name |-> "ada", pass |-> "old"]
                    [] u = bob /\ u \in here -> [name |-> "bob", pass |-> "old"]
                    [] OTHER                 -> NoRow]
    /\ sessions = [s \in SessionIds |->
                     CASE s = s1              -> [user |-> ada, context |-> "user", scope |-> NoScope]
                       [] s = s2 /\ s \in here -> [user |-> ada, context |-> "app", scope |-> NoScope]
                       [] OTHER               -> NoRow]
    /\ masterKeys = [k \in KeyIds |-> NoRow]
    /\ used = {ada, bob, s1, s2} /\ tokens = here \cap SessionIds
    /\ expired = {} /\ purges = {}
    /\ req = [r \in Reqs |-> Blank]
MCSpecTwo == MCInitTwo /\ [][Next]_vars

\* Bound: with the two of them, sessions and passwords are what requests are about; with
\* ada alone, registrations, master keys and expiry, and one password will do.
Two == s2 \in tokens
Traffic ==
  \A r \in Reqs :
    LET q == req'[r] IN
    /\ Two => /\ q.op \in {"none", "login", "changePass", "deleteSession", "refresh", "deleteSelf"}
              /\ expired' = {}
    /\ ~Two => /\ q.op \notin {"deleteSession", "refresh"}
               /\ q.pass # "new" /\ q.newpass # "new"
               /\ q.usr # NoRow => q.usr.name = "ada" /\ q.usr.pass = "old"

\* The slots of requests are interchangeable (used in the safety runs only).
SlotSymmetry == Permutations(Reqs)
=============================================================================
