-------------------------------- MODULE Gaia --------------------------------
(***************************************************************************)
(* GaiaApi's store and delete: conditions on the version of a file, and a  *)
(* set of locked paths, around the write and delete of FileApi.            *)
(*                                                                         *)
(* Handlers are modelled from where the permission middleware lets them    *)
(* through.  As registered in compile() (gaia-api.ts:202) the middleware   *)
(* has no :address in its route, so that under the Router of this node it  *)
(* answers 403 to everybody (AddressInParams = FALSE); the handlers run    *)
(* for a host that fills req.params itself.                                *)
(*                                                                         *)
(* A handler that awaits the database resumes as soon as the code queued   *)
(* before it has run, while a disk operation's result arrives later, when  *)
(* the queue is empty.  That is why a handler that has read an etag takes  *)
(* up its work again before anybody who took a lock in the meantime can    *)
(* get through a write: see "ahead".                                       *)
(***************************************************************************)
EXTENDS FileStore

CONSTANTS
  AddressInParams,   \* whether req.params.address reaches the middleware
  Any                \* the * of If-Match

ASSUME GaiaAssumption ==
  /\ AddressInParams \in BOOLEAN
  /\ Any # Nothing /\ {Any, Nothing} \cap (1 .. MaxTime) = {}
  /\ Nothing \notin [path : Paths, delete : BOOLEAN, over : SUBSET (1 .. MaxTime \cup {Nothing})]

VARIABLES
  locks,   \* #locks: the paths in use
  ahead    \* for each request, those whose code was queued when it took its lock

gaiaVars == <<dirs, files, info, clock, req, last, locks, ahead>>

Etags == 1 .. MaxTime
-----------------------------------------------------------------------------
\* What If-Match and If-None-Match ask of the row that was read.
IgnoreEtag(q) == TRUE   \* (a bug the code avoids)
SameEtag(q) == q.match \in Etags => q.seen # Nothing /\ q.seen.modified = q.match
Storable(q) ==
  /\ ~(q.none /\ q.seen # Nothing)      \* cannot create: it exists
  /\ q.seen # Nothing                   \* cannot update: it does not
  /\ SameEtag(q)
Deletable(q) == (q.seen # Nothing \/ q.match = Any) /\ SameEtag(q)

\* #locks is looked at again when an await has passed.
NotLookedAt(p) == TRUE   \* (a bug the code avoids)
Unlocked(p) == p \notin locks

\* The lock is taken and work begins in the same breath.
Lock(r, q) ==
  /\ locks' = locks \cup {q.path}
  /\ ahead' = [o \in Reqs |-> IF o = r THEN {x \in Reqs \ {r} : At(x, "etag")}
                                       ELSE ahead[o] \ {r}]
  /\ Enter(r, IF q.op = "write" THEN Descend(q, 0) ELSE [q EXCEPT !.pc = "remove"])
  /\ UNCHANGED <<disk, info, clock>>

\* 409 or 412
Refuse(r) ==
  /\ Go(r, Blank)
  /\ ahead' = [o \in Reqs |-> ahead[o] \ {r}]
  /\ UNCHANGED <<disk, info, clock, last, locks>>

\* A request goes straight for the lock, or reads the file's row first.
Begin(r, q, reads) ==
  /\ AddressInParams /\ At(r, "idle") /\ q.path \notin locks
  /\ IF reads
     THEN /\ Go(r, [q EXCEPT !.pc = "etag", !.seen = info[q.path]])
          /\ UNCHANGED <<disk, info, clock, last, locks, ahead>>
     ELSE Lock(r, q)

\* POST /store/:address/:path
Store(r, p, body, match, none) ==
  Begin(r, [Blank EXCEPT !.via = "gaia", !.op = "write", !.path = p, !.body = body,
                         !.match = match, !.none = none], match # Any)

\* DELETE /delete/:address/:path
Delete(r, p, match) ==
  Begin(r, [Blank EXCEPT !.via = "gaia", !.op = "delete", !.path = p, !.match = match],
        match # Nothing)

\* The row has been read.
Check(r) ==
  /\ At(r, "etag")
  /\ LET q == req[r] IN
     IF (IF q.op = "write" THEN Storable(q) ELSE Deletable(q)) /\ Unlocked(q.path)
     THEN Lock(r, q) ELSE Refuse(r)

\* A body without a stream is collected by req.text() behind the lock.
LoseBody(r) ==
  /\ MayAbort /\ req[r].via = "gaia" /\ req[r].pc \in {"ls", "open"} /\ req[r].depth = 0
  /\ Fail(r)

\* finally: the lock goes, whether the operation succeeded or not.
Unlock(r) ==
  /\ At(r, "unlock")
  /\ locks' = locks \ {req[r].path}
  /\ Go(r, Blank)
  /\ UNCHANGED <<disk, info, clock, last, ahead>>

GaiaStep(r) ==
  \/ Check(r) \/ Unlock(r)
  \/ /\ ahead[r] = {}
     /\ FileStep(r) \/ LoseBody(r)
     /\ UNCHANGED <<locks, ahead>>

GaiaCrash ==
  /\ Crash
  /\ locks' = {} /\ ahead' = [r \in Reqs |-> {}]

Begins(r) ==
  \E p \in Paths :
    \/ \E b \in Bodies, m \in Etags \cup {Any, Nothing}, n \in BOOLEAN : Store(r, p, b, m, n)
    \/ \E m \in Etags \cup {Any, Nothing} : Delete(r, p, m)

GaiaInit == Init /\ locks = {} /\ ahead = [r \in Reqs |-> {}]
GaiaNext ==
  \/ \E r \in Reqs : Begins(r) \/ GaiaStep(r)
  \/ Tick /\ UNCHANGED <<locks, ahead>>
  \/ GaiaCrash

\* The server's own steps come to an end; a client that sends a body need not.
Waiting(r) ==
  \/ At(r, "pipe")
  \/ req[r].op = "write" /\ req[r].pc \in {"ls", "open"} /\ req[r].depth = 0   \* req.text()

GaiaFairness == \A r \in Reqs : WF_gaiaVars(GaiaStep(r) /\ ~Waiting(r))
GaiaSpec == GaiaInit /\ [][GaiaNext]_gaiaVars
GaiaFairSpec == GaiaSpec /\ GaiaFairness
-----------------------------------------------------------------------------
(* Properties. *)

\* Two requests of GaiaApi never work on one file at once (gaia-api.ts:235,
\* "If we're already writing to the file, return '409 Conflict'"), although each
\* looks at the lock before an await and takes it after.
NoTwoWriters ==
  \A r, s \in Reqs :
    r # s /\ req[r].pc \in Working /\ req[s].pc \in Working => req[r].path # req[s].path

\* However a request ends, its lock goes: a path is unlocked again and again, unless
\* some upload waits for its client for ever.  Nothing ends that: there is no timeout
\* (gaia-api.ts:268), so such a client keeps everybody from the file.
LocksFreed ==
  \A p \in Paths :
    \/ []<>(p \notin locks)
    \/ \E r \in Reqs : <>[](Waiting(r) /\ req[r].path = p)

\* The versions a request may replace (the comment at gaia-api.ts:230).  Without
\* headers the API is "a little looser" and takes any file that exists.
Over(q) == IF q.match \in Etags THEN {q.match}
           ELSE IF q.match = Any \/ q.op = "delete" THEN Etags \cup {Nothing}
           ELSE IF q.none THEN {Nothing} ELSE Etags

Asked(q) == IF q.pc \in Working \cup {"etag"}
            THEN [path |-> q.path, delete |-> (q.op = "delete"), over |-> Over(q)]
            ELSE Nothing

Versioned == INSTANCE Register WITH
  Clients <- Reqs, NoFile <- Nothing, NoCall <- Nothing,
  reg  <- [p \in Paths |-> IF info[p] = Nothing THEN Nothing ELSE info[p].modified],
  call <- [r \in Reqs |-> Asked(req[r])]

\* Conditional writes and deletions are conditional: the rows of the files are a
\* Register, although the condition is looked at several awaits before the row
\* changes, and the row changes after the file.
ConditionsHold == Versioned!Spec
=============================================================================
