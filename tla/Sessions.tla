------------------------------ MODULE Sessions ------------------------------
(***************************************************************************)
(* What the accounts of a node promise, whatever requests overlap: a       *)
(* session is given for something that was good at one moment after it was *)
(* asked for (a login, a session, a master key, a user's consent), and     *)
(* says what that said; it does not change, and goes by its user's will,   *)
(* with its user, or when it has expired.  No id comes back.               *)
(***************************************************************************)
CONSTANTS Users, Ids, Keys, Names, Passwords, Contexts, Scopes, NoScope, Clients,
          None   \* no account, no session, no key, nothing owed

VARIABLES
  accounts,   \* of users
  given,      \* the sessions
  keys,       \* the master keys
  known,      \* the ids of all that there is or ever was
  expired,
  consents,   \* the sessions that users have consented to
  owed        \* by client, the session it has yet to be given

service == <<accounts, given, keys, known, expired, consents, owed>>

Accounts == [name : Names, pass : Passwords]
Grants   == [user : Users, context : Contexts, scope : Scopes]

Registered(u) == accounts[u] # None
There == {s \in Ids : given[s] # None}

\* What a client may ask for now.
OfLogin(g)   == g.context = "user" /\ g.scope = NoScope
OfSession(g) == \E s \in There \ expired : given[s] = g
OfKey(g)     == \E k \in Keys : keys[k] # None /\ keys[k].user = g.user
Good(g) ==
  /\ Registered(g.user)
  /\ OfLogin(g) \/ OfSession(g) \/ OfKey(g) \/ g \in consents
-----------------------------------------------------------------------------
Init ==
  /\ accounts \in [Users -> Accounts \cup {None}]
  /\ given \in [Ids -> Grants \cup {None}]
  /\ keys \in [Keys -> [user : Users] \cup {None}]
  /\ {u \in Users : Registered(u)} \cup There \subseteq known
  /\ expired = {} /\ consents = {}
  /\ owed = [c \in Clients |-> None]

Ask(c) ==
  /\ owed[c] = None
  /\ owed'[c] \in Grants /\ Good(owed'[c])
  /\ owed' = [owed EXCEPT ![c] = owed'[c]]
  /\ UNCHANGED <<accounts, given, keys, known, expired, consents>>

Give(c) ==
  /\ owed[c] # None
  /\ \E s \in Ids \ known : /\ given' = [given EXCEPT ![s] = owed[c]]
                            /\ known' = known \cup {s}
  /\ owed' = [owed EXCEPT ![c] = None]
  /\ UNCHANGED <<accounts, keys, expired, consents>>

\* It was refused, or the server died.
Refuse(C) ==
  /\ owed' = [c \in Clients |-> IF c \in C THEN None ELSE owed[c]]
  /\ UNCHANGED <<accounts, given, keys, known, expired, consents>>

\* Sessions go: of one user, of users that are gone, or that have expired.
Revoke(S) ==
  /\ \/ \E u \in Users : \A s \in S : given[s].user = u
     \/ \A s \in S : s \in expired \/ ~Registered(given[s].user)
  /\ given' = [s \in Ids |-> IF s \in S THEN None ELSE given[s]]
  /\ UNCHANGED <<accounts, keys, known, expired, consents, owed>>

Expire(s) ==
  /\ expired' = expired \cup {s}
  /\ UNCHANGED <<accounts, given, keys, known, consents, owed>>

Register(u) ==
  /\ \E a \in Accounts : /\ \A v \in Users : Registered(v) => accounts[v].name # a.name
                         /\ accounts' = [accounts EXCEPT ![u] = a]
  /\ known' = known \cup {u}
  /\ UNCHANGED <<given, keys, expired, consents, owed>>

SetPassword(u) ==
  /\ \E pass \in Passwords : accounts' = [accounts EXCEPT ![u] = [@ EXCEPT !.pass = pass]]
  /\ UNCHANGED <<given, keys, known, expired, consents, owed>>

Leave(u) ==
  /\ accounts' = [accounts EXCEPT ![u] = None]
  /\ UNCHANGED <<given, keys, known, expired, consents, owed>>

AddKey(k, u) ==
  /\ keys' = [keys EXCEPT ![k] = [user |-> u]]
  /\ known' = known \cup {k}
  /\ UNCHANGED <<accounts, given, expired, consents, owed>>

\* A user of an app's handshake approves.
Consent(g) ==
  /\ consents' = consents \cup {g}
  /\ UNCHANGED <<accounts, given, keys, known, expired, owed>>

Next ==
  \/ \E c \in Clients : Ask(c) \/ Give(c)
  \/ \E C \in SUBSET Clients : Refuse(C)
  \/ \E S \in SUBSET There : Revoke(S)
  \/ \E s \in There : Expire(s)
  \/ \E u \in Users \ known : Register(u)
  \/ \E u \in Users : Registered(u) /\ (SetPassword(u) \/ Leave(u))
  \/ \E k \in Keys \ known, u \in Users \cap known : AddKey(k, u)
  \/ \E g \in Grants : g.user \in known /\ Consent(g)

Spec == Init /\ [][Next]_service
=============================================================================
