----------------------------- MODULE GaiaProofs -----------------------------
(***************************************************************************)
(* Theorems about Gaia, for any paths, bodies, times and number of         *)
(* requests: its lock keeps two requests off one file, and its rows are    *)
(* the conditional register of module Register.                            *)
(***************************************************************************)
EXTENDS Gaia, Integers, TLAPS

(* The inductive invariant. *)

\* What a walk through a folder may name.
Names == {Folder(p, n) : p \in Paths, n \in Int} \cup Folders \cup Paths \cup {<<>>}

Row == [modified : Etags, size : Nat]
Request ==
  [pc : Steps, via : {"file", "gaia"}, op : {"none", "write", "delete"},
   path : Paths \cup {<<>>}, body : Bodies \cup {<<>>}, depth : Int, sent : Nat,
   linked : BOOLEAN, left : SUBSET Names, dir : Names, bytes : BOOLEAN, size : Nat, match : Etags \cup {Any, Nothing},
   seen : Row \cup {Nothing}, none : BOOLEAN, alone : BOOLEAN]

Typed ==
  /\ files \in [Paths -> Seq(Bytes) \cup {Nothing}]
  /\ info \in [Paths -> Row \cup {Nothing}]
  /\ clock \in Etags
  /\ req \in [Reqs -> Request]
  /\ ahead \in [Reqs -> SUBSET Reqs]

\* What a request holds at the step it is at.
Sound(q) ==
  /\ q.pc # "idle" => q.via = "gaia" /\ q.path \in Paths /\ q.op # "none"
  /\ q.pc \in Saving => q.op = "write"
  /\ q.pc \in Deleting => q.op = "delete"
  /\ q.pc = "pipe" => q.sent < Len(q.body)
AllSound == \A r \in Reqs : Sound(req[r])

\* A file that is being written, and has its name, is there.
Linked == \A r \in Reqs : req[r].pc = "pipe" /\ req[r].linked => files[req[r].path] # Nothing

Holding == Working \cup {"unlock"}
\* Who works holds the lock, and nobody else holds it.
Held == \A r \in Reqs : req[r].pc \in Holding => req[r].path \in locks
Apart == \A r, s \in Reqs :
           r # s /\ req[r].pc \in Holding /\ req[s].pc \in Holding => req[r].path # req[s].path

\* The row that a request has read is still the file's: whoever works on the file has to
\* let those go first that had read it.
Fresh == \A r \in Reqs : At(r, "etag") => req[r].seen = info[req[r].path]
Waits == \A r, s \in Reqs :
           At(r, "etag") /\ req[s].pc \in Working /\ req[r].path = req[s].path => r \in ahead[s]

\* The version that a working request found is one that it may replace, until it does.
Version(p) == IF info[p] = Nothing THEN Nothing ELSE info[p].modified
Allowed == \A r \in Reqs : req[r].pc \in Working => Version(req[r].path) \in Over(req[r])

IInv == Typed /\ AllSound /\ Linked /\ Held /\ Apart /\ Fresh /\ Waits /\ Allowed
-----------------------------------------------------------------------------
(* A step of a file operation. *)

\* The record n of a request that took no step, and that of one that did.
Same(q, n) ==
  /\ n.pc = q.pc /\ n.via = q.via /\ n.op = q.op /\ n.path = q.path /\ n.body = q.body
  /\ n.sent = q.sent /\ n.match = q.match /\ n.seen = q.seen /\ n.none = q.none
  /\ n.linked => q.linked
Onward(q, n) ==
  /\ n.op = q.op /\ n.path = q.path /\ n.match = q.match /\ n.none = q.none
  /\ n.pc \in Holding /\ Sound(n)

\* What a step of r may do: nothing to the other requests, and to the rows only its last.
Effect(r) ==
  /\ req' \in [Reqs -> Request] /\ files' \in [Paths -> Seq(Bytes) \cup {Nothing}] /\ clock' = clock
  /\ \A o \in Reqs \ {r} : Same(req[o], req'[o])
  /\ Onward(req[r], req'[r]) /\ req[r].pc \in Working
  /\ Linked'
  /\ \/ info' = info
     \/ /\ req'[r].pc = "unlock"
        /\ \/ req[r].op = "delete" /\ info' = [info EXCEPT ![req[r].path] = Nothing]
           \/ req[r].op = "write"
              /\ info' = [info EXCEPT ![req[r].path] = [modified |-> clock, size |-> req[r].size]]

\* The names of the steps.
LEMMA StepNames ==
  /\ Working \subseteq Holding /\ Holding \subseteq Steps /\ "unlock" \in Holding
  /\ "idle" \notin Holding /\ "etag" \notin Holding
  /\ "unlock" \notin Working /\ "unlock" # "pipe"
  /\ {"idle", "etag", "unlock"} \subseteq Steps
BY DEF Working, Holding, Steps, Saving, Deleting

\* A free slot holds nothing.
LEMMA BlankIsRequest == Blank \in Request /\ Sound(Blank) /\ Blank.pc = "idle"
BY GaiaAssumption DEF Blank, Request, Names, Sound, Steps, Saving, Deleting

\* A request that moves on by itself changes no other.
LEMMA GoKeeps ==
  ASSUME req \in [Reqs -> Request], NEW r \in Reqs, NEW n \in Request, Go(r, n)
  PROVE  /\ req' \in [Reqs -> Request] /\ req'[r] = n
         /\ \A o \in Reqs \ {r} : req'[o] = req[o] /\ Same(req[o], req'[o])
BY DEF Go, Same

\* Steps that leave the rows alone and take no file away.
LEMMA MoveEffect ==
  ASSUME Typed, AllSound, Linked, NEW r \in Reqs, req[r].pc \in Working,
         NEW n \in Request, Go(r, n), Onward(req[r], n), UNCHANGED <<info, clock>>,
         files' \in [Paths -> Seq(Bytes) \cup {Nothing}],
         \A p \in Paths : files[p] # Nothing => files'[p] # Nothing,
         n.pc = "pipe" /\ n.linked => files'[n.path] # Nothing
  PROVE  Effect(r)
<1>1. /\ req' \in [Reqs -> Request] /\ req'[r] = n
      /\ \A o \in Reqs \ {r} : req'[o] = req[o] /\ Same(req[o], req'[o])
  BY GoKeeps DEF Typed
<1>2. \A o \in Reqs : req[o].pc = "pipe" => req[o].path \in Paths
  BY DEF AllSound, Sound
<1>3. Linked'
  BY <1>1, <1>2 DEF Linked
<1> QED
  BY <1>1, <1>3 DEF Effect, Typed

\* What is left of a request of GaiaApi when its operation has ended.
LEMMA AfterOnward ==
  ASSUME NEW q \in Request, Sound(q), q.pc \in Working
  PROVE  /\ After(q) \in Request /\ Onward(q, After(q)) /\ After(q).pc = "unlock"
<1>1. q.via = "gaia" /\ q.path \in Paths /\ q.op # "none"
  BY StepNames DEF Sound, Working, Saving, Deleting
<1>2. After(q) = [q EXCEPT !.pc = "unlock"]
  BY <1>1 DEF After
<1>3. After(q) \in Request
  BY <1>2, StepNames DEF Request
<1>4. /\ After(q).pc = "unlock" /\ After(q).op = q.op /\ After(q).path = q.path /\ After(q).via = q.via
      /\ After(q).match = q.match /\ After(q).none = q.none
  BY <1>2 DEF Request
<1>5. Sound(After(q))
  BY <1>1, <1>4 DEF Sound, Saving, Deleting
<1> QED
  BY <1>3, <1>4, <1>5, StepNames DEF Onward

\* A failure ends the operation.
LEMMA FailEffect ==
  ASSUME Typed, AllSound, Linked, NEW r \in Reqs, req[r].pc \in Working, Fail(r)
  PROVE  Effect(r)
<1>1. req[r] \in Request /\ Sound(req[r])
  BY DEF Typed, AllSound
<1>2. After(req[r]) \in Request /\ Onward(req[r], After(req[r])) /\ After(req[r]).pc = "unlock"
  BY <1>1, AfterOnward
<1>3. Go(r, After(req[r])) /\ UNCHANGED <<files, info, clock>>
  BY DEF Fail
<1> QED
  BY <1>2, <1>3, MoveEffect, StepNames DEF Typed

\* ensurePath's way down.
LEMMA DescendOnward ==
  ASSUME NEW q \in Request, q.via = "gaia", q.path \in Paths, q.op = "write", NEW n \in Int
  PROVE  /\ Descend(q, n) \in Request /\ Onward(q, Descend(q, n))
         /\ Descend(q, n).pc \in {"ls", "open"} /\ Descend(q, n).via = "gaia"
<1> DEFINE to == IF n + 1 = Len(q.path) THEN "open" ELSE "ls"
           m == Descend(q, n)
<1>1. m = [q EXCEPT !.depth = n, !.pc = to] /\ to \in {"ls", "open"}
  BY DEF Descend
<1>2. to \in Steps /\ to \in Holding /\ to \notin Deleting /\ to # "pipe"
  BY <1>1 DEF Steps, Holding, Working, Saving, Deleting
<1> HIDE DEF to
<1>3. m \in Request
  BY <1>1, <1>2 DEF Request
<1>4. /\ m.pc = to /\ m.op = q.op /\ m.path = q.path /\ m.via = q.via
      /\ m.match = q.match /\ m.none = q.none
  BY <1>1 DEF Request
<1> QED
  BY <1>1, <1>2, <1>3, <1>4 DEF Onward, Sound

\* The tidying's way up.
LEMMA AscendOnward ==
  ASSUME NEW q \in Request, q.via = "gaia", q.path \in Paths, q.op = "delete", NEW n \in Int
  PROVE  /\ Ascend(q, n) \in Request /\ Onward(q, Ascend(q, n))
         /\ Ascend(q, n).pc \in {"tidy", "delInfo"}
<1> DEFINE to == IF n = 0 THEN "delInfo" ELSE "tidy"
           m == Ascend(q, n)
<1>1. /\ m = [q EXCEPT !.depth = n, !.left = {Folder(q.path, n)}, !.dir = <<>>, !.bytes = FALSE, !.pc = to]
      /\ to \in {"tidy", "delInfo"}
  BY DEF Ascend
<1>2. to \in Steps /\ to \in Holding /\ to \notin Saving /\ to # "pipe"
  BY <1>1 DEF Steps, Holding, Working, Saving, Deleting
<1>3. PICK w \in SUBSET Names : w = {Folder(q.path, n)}
  <2>1. Folder(q.path, n) \in Names
    BY DEF Names
  <2> QED
    BY <2>1
<1>4. PICK top \in Names : top = <<>>
  BY DEF Names
<1>5. m = [q EXCEPT !.depth = n, !.left = w, !.dir = top, !.bytes = FALSE, !.pc = to]
  BY <1>1, <1>3, <1>4
<1> HIDE DEF to, m
<1>6. m \in Request
  BY <1>2, <1>5 DEF Request
<1>7. /\ m.pc = to /\ m.op = q.op /\ m.path = q.path /\ m.via = q.via
      /\ m.match = q.match /\ m.none = q.none
  BY <1>5 DEF Request
<1> QED
  BY <1>1, <1>2, <1>6, <1>7 DEF Onward, Sound, m

\* The walk goes on, or has come to its end.
LEMMA WalkOnward ==
  ASSUME NEW q \in Request, q.via = "gaia", q.path \in Paths, q.op = "delete",
         NEW left \in SUBSET Names, NEW found \in BOOLEAN
  PROVE  /\ Walk(q, left, found) \in Request /\ Onward(q, Walk(q, left, found))
         /\ Walk(q, left, found).pc # "pipe"
<1> DEFINE to == IF left # {} THEN "tidy" ELSE IF q.bytes \/ found THEN "delInfo" ELSE "rmdir"
           m == Walk(q, left, found)
<1>1. m = [q EXCEPT !.left = left, !.dir = <<>>, !.bytes = (q.bytes \/ found), !.pc = to]
  BY DEF Walk
<1>2. to \in Steps /\ to \in Holding /\ to \notin Saving /\ to # "pipe" /\ to # "idle"
  BY DEF Steps, Holding, Working, Saving, Deleting
<1>3. (q.bytes \/ found) \in BOOLEAN
  BY DEF Request
<1>4. PICK top \in Names : top = <<>>
  BY DEF Names
<1>5. m = [q EXCEPT !.left = left, !.dir = top, !.bytes = (q.bytes \/ found), !.pc = to]
  BY <1>1, <1>4
<1> HIDE DEF to, m
<1>6. m \in Request
  BY <1>2, <1>3, <1>5 DEF Request
<1>7. /\ m.pc = to /\ m.op = q.op /\ m.path = q.path /\ m.via = q.via
      /\ m.match = q.match /\ m.none = q.none
  BY <1>5 DEF Request
<1> QED
  BY <1>2, <1>6, <1>7 DEF Onward, Sound, m

\* The same request at another step of its operation.
LEMMA StepOnward ==
  ASSUME NEW q \in Request, q.via = "gaia", q.path \in Paths, NEW to \in Working,
         \/ q.op = "write" /\ to \in Saving /\ to # "pipe"
         \/ q.op = "delete" /\ to \in Deleting
  PROVE  /\ [q EXCEPT !.pc = to] \in Request /\ Onward(q, [q EXCEPT !.pc = to])
         /\ [q EXCEPT !.pc = to].pc = to
<1> DEFINE m == [q EXCEPT !.pc = to]
<1>1. to \in Steps /\ to \in Holding /\ ~(to \in Saving /\ to \in Deleting)
  BY DEF Steps, Holding, Working, Saving, Deleting
<1>2. "pipe" \notin Deleting
  BY DEF Deleting
<1>3. m \in Request
  BY <1>1 DEF Request
<1>4. /\ m.pc = to /\ m.op = q.op /\ m.path = q.path /\ m.via = q.via
      /\ m.match = q.match /\ m.none = q.none
  BY DEF Request
<1> QED
  BY <1>1, <1>2, <1>3, <1>4 DEF Onward, Sound

\* The body's way to the disk: after n chunks, n < Len(body) if there is another.
LEMMA PipedOnward ==
  ASSUME NEW q \in Request, q.via = "gaia", q.path \in Paths, q.op = "write",
         NEW n \in Nat, n <= Len(q.body)
  PROVE  /\ Piped(q, n) \in Request /\ Onward(q, Piped(q, n))
         /\ Piped(q, n).linked = q.linked
<1> DEFINE to == IF n = Len(q.body) THEN "stat" ELSE "pipe"
           m == Piped(q, n)
<1>1. m = [q EXCEPT !.sent = n, !.pc = to]
  BY DEF Piped
<1>2. to \in Steps /\ to \in Holding /\ to \notin Deleting
  BY DEF Steps, Holding, Working, Saving, Deleting
<1>3. Len(q.body) \in Nat
  BY BodiesAssumption DEF Request
<1>4. to = "pipe" => n < Len(q.body)
  BY <1>3
<1> HIDE DEF to
<1>5. m \in Request
  BY <1>1, <1>2 DEF Request
<1>6. /\ m.pc = to /\ m.op = q.op /\ m.path = q.path /\ m.via = q.via /\ m.linked = q.linked
      /\ m.match = q.match /\ m.none = q.none /\ m.sent = n /\ m.body = q.body
  BY <1>1 DEF Request
<1> QED
  BY <1>2, <1>4, <1>5, <1>6 DEF Onward, Sound

\* Where a request of GaiaApi is, and what it knows there.
LEMMA AtStep ==
  ASSUME Typed, AllSound, NEW r \in Reqs, req[r].pc \in Working
  PROVE  /\ req[r] \in Request /\ Sound(req[r])
         /\ req[r].via = "gaia" /\ req[r].path \in Paths
         /\ req[r].pc \in Saving => req[r].op = "write"
         /\ req[r].pc \in Deleting => req[r].op = "delete"
         /\ files[req[r].path] \in Seq(Bytes) \cup {Nothing}
BY DEF Typed, AllSound, Sound, Working, Saving, Deleting

\* Looking for a folder changes nothing but where the request is.
LEMMA LsEffect ==
  ASSUME Typed, AllSound, Linked, NEW r \in Reqs, Ls(r)
  PROVE  Effect(r)
<1> DEFINE q == req[r]
<1>1. q.pc \in Saving /\ q.pc \in Working /\ q.pc # "pipe"
  BY DEF Ls, At, Saving, Working
<1>2. q \in Request /\ q.via = "gaia" /\ q.path \in Paths /\ q.op = "write"
  BY <1>1, AtStep
<1>3. CASE Fail(r)
  BY <1>1, <1>3, FailEffect
<1>4. CASE Go(r, Descend(q, q.depth + 1)) /\ UNCHANGED <<disk, info, clock, last>>
  <2>1. q.depth + 1 \in Int
    BY <1>2 DEF Request
  <2> QED
    BY <1>1, <1>2, <1>4, <2>1, DescendOnward, MoveEffect DEF Typed, disk
<1>5. CASE Go(r, [q EXCEPT !.pc = "mkdir"]) /\ UNCHANGED <<disk, info, clock, last>>
  <2>1. "mkdir" \in Saving /\ "mkdir" \in Working /\ "mkdir" # "pipe"
    BY DEF Saving, Working
  <2> QED
    BY <1>1, <1>2, <1>5, <2>1, StepOnward, MoveEffect DEF Typed, disk
<1> QED
  BY <1>3, <1>4, <1>5 DEF Ls

\* Nor does making one, as far as files and rows go.
LEMMA MkdirEffect ==
  ASSUME Typed, AllSound, Linked, NEW r \in Reqs, Mkdir(r)
  PROVE  Effect(r)
<1> DEFINE q == req[r]
<1>1. q.pc \in Saving /\ q.pc \in Working
  BY DEF Mkdir, At, Saving, Working
<1>2. q \in Request /\ q.via = "gaia" /\ q.path \in Paths /\ q.op = "write"
  BY <1>1, AtStep
<1>3. CASE Fail(r)
  BY <1>1, <1>3, FailEffect
<1>4. CASE Go(r, Descend(q, q.depth + 1)) /\ UNCHANGED <<files, info, clock>>
  <2>1. q.depth + 1 \in Int
    BY <1>2 DEF Request
  <2> QED
    BY <1>1, <1>2, <1>4, <2>1, DescendOnward, MoveEffect DEF Typed
<1> QED
  BY <1>3, <1>4 DEF Mkdir

\* What is written is a sequence of chunks.
LEMMA BodyIsFile == ASSUME NEW q \in Request PROVE q.body \in Seq(Bytes)
<1>1. q.body \in Bodies \cup {<<>>}
  BY DEF Request
<1>2. <<>> \in Seq(Bytes)
  OBVIOUS
<1> QED
  BY <1>1, <1>2, BodiesAssumption

\* A file may be empty, and then it is there.
LEMMA EmptyIsFile == <<>> \in Seq(Bytes) /\ <<>> # Nothing
<1>1. <<>> \in Seq(Bytes)
  OBVIOUS
<1>2. Nothing \notin Seq(Bytes)
  BY Zenon, NothingAssumption
<1> QED
  BY Zenon, <1>1, <1>2

\* Opening a file leaves it there, and empty.
LEMMA OpenEffect ==
  ASSUME Typed, AllSound, Linked, NEW r \in Reqs, Open(r)
  PROVE  Effect(r)
<1> DEFINE q == req[r]
           l == [q EXCEPT !.linked = TRUE]
<1>1. q.pc \in Saving /\ q.pc \in Working
  BY DEF Open, At, Saving, Working
<1>2. q \in Request /\ q.via = "gaia" /\ q.path \in Paths /\ q.op = "write"
  BY <1>1, AtStep
<1>3. CASE Fail(r)
  BY <1>1, <1>3, FailEffect
<1>4. CASE /\ files' = [files EXCEPT ![q.path] = Truncated(@)]
           /\ Go(r, Piped(l, 0)) /\ UNCHANGED <<info, clock>>
  <2>1. /\ l \in Request /\ l.via = "gaia" /\ l.path = q.path /\ l.op = "write" /\ l.match = q.match
        /\ l.none = q.none /\ l.body = q.body
    BY <1>2 DEF Request
  <2>2. 0 \in Nat /\ 0 <= Len(l.body)
    <3>1. q.body \in Seq(Bytes)
      BY <1>2, BodyIsFile
    <3> QED
      BY <2>1, <3>1
  <2>3. Piped(l, 0) \in Request /\ Onward(q, Piped(l, 0)) /\ Piped(l, 0).path = q.path
    BY <1>2, <2>1, <2>2, PipedOnward DEF Onward
  <2>4. /\ files' \in [Paths -> Seq(Bytes) \cup {Nothing}]
        /\ \A p \in Paths : files[p] # Nothing => files'[p] # Nothing
        /\ files'[q.path] # Nothing
    <3> DEFINE empty == <<>>
    <3>1. empty \in Seq(Bytes) \cup {Nothing} /\ empty # Nothing
      BY EmptyIsFile
    <3>2. files' = [files EXCEPT ![q.path] = empty]
      BY <1>4 DEF Truncated
    <3> HIDE DEF empty
    <3>3. files \in [Paths -> Seq(Bytes) \cup {Nothing}]
      BY DEF Typed
    <3> QED
      BY <1>2, <3>1, <3>2, <3>3
  <2> QED
    BY <1>1, <1>4, <2>3, <2>4, MoveEffect
<1> QED
  BY <1>3, <1>4 DEF Open

\* What a file of chunks becomes when one more is put in it.
LEMMA PutIsFile ==
  ASSUME NEW data \in Seq(Bytes), NEW i \in Nat \ {0}, NEW chunk \in Bytes
  PROVE  Put(data, i, chunk) \in Seq(Bytes)
<1> DEFINE m == IF i > Len(data) THEN i ELSE Len(data)
<1>1. m \in Nat
  OBVIOUS
<1>2. Hole \in Bytes
  BY DEF Bytes
<1>3. \A n \in 1 .. m : (IF n = i THEN chunk ELSE IF n <= Len(data) THEN data[n] ELSE Hole) \in Bytes
  BY <1>1, <1>2
<1>4. Put(data, i, chunk) \in [1 .. m -> Bytes]
  BY <1>3 DEF Put
<1> QED
  BY <1>1, <1>4

\* So does writing a chunk to it, if it still has its name.
LEMMA PipeEffect ==
  ASSUME Typed, AllSound, Linked, NEW r \in Reqs, Pipe(r)
  PROVE  Effect(r)
<1> DEFINE q == req[r]
           n == q.sent + 1
<1>1. q.pc \in Saving /\ q.pc \in Working /\ q.pc = "pipe"
  BY DEF Pipe, At, Saving, Working
<1>2. q \in Request /\ q.via = "gaia" /\ q.path \in Paths /\ q.op = "write" /\ q.sent < Len(q.body)
  BY <1>1, AtStep DEF Sound
<1>3. /\ q.sent \in Nat /\ n \in Nat /\ n <= Len(q.body) /\ n \in Nat \ {0} /\ q.body[n] \in Bytes
  <2>1. q.body \in Seq(Bytes) /\ q.sent \in Nat
    BY <1>2, BodiesAssumption DEF Request
  <2> QED
    BY <1>2, <2>1
<1>4. Piped(q, n) \in Request /\ Onward(q, Piped(q, n)) /\ Piped(q, n).linked = q.linked
  BY <1>2, <1>3, PipedOnward
<1>5. /\ files' \in [Paths -> Seq(Bytes) \cup {Nothing}]
      /\ \A p \in Paths : files[p] # Nothing => files'[p] # Nothing
      /\ q.linked => files'[q.path] # Nothing
  <2>1. CASE ~q.linked
    BY <2>1 DEF Pipe, Typed
  <2>2. CASE q.linked
    <3>1. files[q.path] \in Seq(Bytes)
      BY <1>1, <1>2, <2>2 DEF Linked, Typed
    <3>2. Put(files[q.path], n, q.body[n]) \in Seq(Bytes)
      BY <1>3, <3>1, PutIsFile
    <3>3. files' = [files EXCEPT ![q.path] = Put(files[q.path], n, q.body[n])]
      BY <2>2 DEF Pipe
    <3> QED
      BY <1>2, <3>2, <3>3, NothingAssumption DEF Typed
  <2> QED
    BY <1>2, <2>1, <2>2 DEF Request
<1>6. Go(r, Piped(q, n)) /\ UNCHANGED <<info, clock>>
  BY DEF Pipe
<1> QED
  BY <1>1, <1>4, <1>5, <1>6, MoveEffect DEF Onward

\* stat tells a size.
LEMMA StatEffect ==
  ASSUME Typed, AllSound, Linked, NEW r \in Reqs, Stat(r)
  PROVE  Effect(r)
<1> DEFINE q == req[r]
           size == IF IsFile(q.path) THEN Len(files[q.path]) ELSE SizeOfFolder
           l == [q EXCEPT !.size = size]
<1>1. q.pc \in Saving /\ q.pc \in Working
  BY DEF Stat, At, Saving, Working
<1>2. q \in Request /\ q.via = "gaia" /\ q.path \in Paths /\ q.op = "write"
  BY <1>1, AtStep
<1>3. CASE Fail(r)
  BY <1>1, <1>3, FailEffect
<1>4. CASE /\ Go(r, [q EXCEPT !.pc = "setInfo", !.size = size])
           /\ UNCHANGED <<disk, info, clock, last>>
  <2>1. size \in Nat
    BY <1>1, AtStep DEF IsFile, SizeOfFolder
  <2> HIDE DEF size
  <2>2. /\ l \in Request /\ l.via = "gaia" /\ l.path = q.path /\ l.op = "write" /\ l.match = q.match
        /\ l.none = q.none
    BY <1>2, <2>1 DEF Request
  <2>3. "setInfo" \in Working /\ "setInfo" \in Saving /\ "setInfo" # "pipe"
    BY DEF Working, Saving
  <2>4. /\ [l EXCEPT !.pc = "setInfo"] \in Request /\ Onward(l, [l EXCEPT !.pc = "setInfo"])
        /\ [l EXCEPT !.pc = "setInfo"].pc = "setInfo"
    BY <1>2, <2>2, <2>3, StepOnward
  <2>5. [l EXCEPT !.pc = "setInfo"] = [q EXCEPT !.pc = "setInfo", !.size = size]
    BY <1>2 DEF Request
  <2> QED
    BY <1>1, <1>2, <1>4, <2>2, <2>3, <2>4, <2>5, MoveEffect DEF Onward, Typed, disk
<1> QED
  BY <1>3, <1>4 DEF Stat

\* The last step of a write sets the row.
LEMMA SetInfoEffect ==
  ASSUME Typed, AllSound, Linked, NEW r \in Reqs, SetInfo(r)
  PROVE  Effect(r)
<1> DEFINE q == req[r]
<1>1. q.pc \in Saving /\ q.pc \in Working
  BY DEF SetInfo, At, Saving, Working
<1>2. q \in Request /\ Sound(q) /\ q.path \in Paths /\ q.op = "write"
  BY <1>1, AtStep
<1>3. After(q) \in Request /\ Onward(q, After(q)) /\ After(q).pc = "unlock"
  BY <1>1, <1>2, AfterOnward
<1>4. /\ Go(r, After(q)) /\ UNCHANGED <<files, clock>>
      /\ info' = [info EXCEPT ![q.path] = [modified |-> clock, size |-> q.size]]
  BY DEF SetInfo, Succeed, disk
<1>5. /\ req' \in [Reqs -> Request] /\ req'[r] = After(q)
      /\ \A o \in Reqs \ {r} : req'[o] = req[o] /\ Same(req[o], req'[o])
  BY <1>3, <1>4, GoKeeps DEF Typed
<1>6. Linked'
  BY <1>3, <1>4, <1>5, StepNames DEF Linked
<1> QED
  BY <1>1, <1>2, <1>3, <1>4, <1>5, <1>6 DEF Effect, Typed

\* The last step of a deletion removes the row.
LEMMA DelInfoEffect ==
  ASSUME Typed, AllSound, Linked, NEW r \in Reqs, DelInfo(r)
  PROVE  Effect(r)
<1> DEFINE q == req[r]
<1>1. q.pc \in Deleting /\ q.pc \in Working
  BY DEF DelInfo, At, Deleting, Working
<1>2. q \in Request /\ Sound(q) /\ q.path \in Paths /\ q.op = "delete"
  BY <1>1, AtStep
<1>3. After(q) \in Request /\ Onward(q, After(q)) /\ After(q).pc = "unlock"
  BY <1>1, <1>2, AfterOnward
<1>4. /\ Go(r, After(q)) /\ UNCHANGED <<files, clock>>
      /\ info' = [info EXCEPT ![q.path] = Nothing]
  BY DEF DelInfo, Succeed, disk
<1>5. /\ req' \in [Reqs -> Request] /\ req'[r] = After(q)
      /\ \A o \in Reqs \ {r} : req'[o] = req[o] /\ Same(req[o], req'[o])
  BY <1>3, <1>4, GoKeeps DEF Typed
<1>6. Linked'
  BY <1>3, <1>4, <1>5, StepNames DEF Linked
<1> QED
  BY <1>1, <1>2, <1>3, <1>4, <1>5, <1>6 DEF Effect, Typed

\* Removing a file or a folder takes files away, and tells whoever has one of them open.
LEMMA UnlinkEffect ==
  ASSUME Typed, AllSound, Linked, NEW r \in Reqs, req[r].pc \in Working,
         NEW n \in Request, Onward(req[r], n), n.pc # "pipe",
         NEW p, Unlink(r, p, n), UNCHANGED <<info, clock>>
  PROVE  Effect(r)
<1> DEFINE gone == {p} \cup Below(p)
           Told(q) == [q EXCEPT !.linked = @ /\ q.path \notin gone]
<1>1. /\ files' = [f \in Paths |-> IF f \in gone THEN Nothing ELSE files[f]]
      /\ req' = [o \in Reqs |-> IF o = r THEN n ELSE Told(req[o])]
  BY DEF Unlink
<1> HIDE DEF gone
<1>2. files' \in [Paths -> Seq(Bytes) \cup {Nothing}]
  BY <1>1 DEF Typed
<1>3. ASSUME NEW q \in Request
      PROVE  /\ Told(q) \in Request /\ Same(q, Told(q))
             /\ Told(q).linked => q.linked /\ q.path \notin gone
  <2> DEFINE new == q.linked /\ q.path \notin gone
  <2>1. new \in BOOLEAN /\ Told(q) = [q EXCEPT !.linked = new]
    OBVIOUS
  <2>2. new => q.linked /\ q.path \notin gone
    OBVIOUS
  <2> HIDE DEF new, Told
  <2> QED
    BY <1>3, <2>1, <2>2 DEF Request, Same
<1>4. \A o \in Reqs : req[o] \in Request /\ (req[o].pc = "pipe" => req[o].path \in Paths)
  BY DEF Typed, AllSound, Sound
<1> HIDE DEF Told
<1>5. req' \in [Reqs -> Request] /\ req'[r] = n
  BY <1>1, <1>3, <1>4
<1>6. \A o \in Reqs \ {r} : /\ Same(req[o], req'[o])
                            /\ req'[o].linked => req[o].linked /\ req[o].path \notin gone
  BY <1>1, <1>3, <1>4
<1>7. Linked'
  <2> SUFFICES ASSUME NEW o \in Reqs, req'[o].pc = "pipe", req'[o].linked
               PROVE  files'[req'[o].path] # Nothing
    BY DEF Linked
  <2>1. o # r
    BY <1>5
  <2>2. /\ req'[o].path = req[o].path /\ req[o].pc = "pipe" /\ req[o].linked
        /\ req[o].path \notin gone
    BY <1>6, <2>1 DEF Same
  <2> QED
    BY <1>1, <1>4, <2>2 DEF Linked
<1> QED
  BY <1>2, <1>5, <1>6, <1>7 DEF Effect

\* The file that is deleted goes ...
LEMMA RemoveEffect ==
  ASSUME Typed, AllSound, Linked, NEW r \in Reqs, Remove(r)
  PROVE  Effect(r)
<1> DEFINE q == req[r]
           n == Ascend(q, Len(q.path) - 1)
<1>1. q.pc \in Deleting /\ q.pc \in Working
  BY DEF Remove, At, Deleting, Working
<1>2. q \in Request /\ q.via = "gaia" /\ q.path \in Paths /\ q.op = "delete"
  BY <1>1, AtStep
<1>3. CASE Fail(r)
  BY <1>1, <1>3, FailEffect
<1>4. CASE Unlink(r, q.path, n) /\ UNCHANGED <<info, clock>>
  <2>1. Len(q.path) - 1 \in Int
    BY <1>2, FileAssumption
  <2>2. n \in Request /\ Onward(q, n) /\ n.pc # "pipe"
    BY <1>2, <2>1, AscendOnward
  <2> QED
    BY <1>1, <1>4, <2>2, UnlinkEffect
<1> QED
  BY <1>3, <1>4 DEF Remove

\* ... the folder it was in is walked through ...
LEMMA TidyEffect ==
  ASSUME Typed, AllSound, Linked, NEW r \in Reqs, Tidy(r)
  PROVE  Effect(r)
<1> DEFINE q == req[r]
<1>1. q.pc \in Deleting /\ q.pc \in Working
  BY DEF Tidy, At, Deleting, Working
<1>2. q \in Request /\ q.via = "gaia" /\ q.path \in Paths /\ q.op = "delete"
  BY <1>1, AtStep
<1>3. PICK x \in Deepest(q.left) :
        \/ Fail(r)
        \/ /\ UNCHANGED <<disk, info, clock, last>>
           /\ Go(r, IF IsFile(x) THEN Walk(q, q.left \ {x}, files[x] # <<>>)
                    ELSE [q EXCEPT !.left = @ \ {x}, !.dir = x, !.pc = "list"])
  BY DEF Tidy
<1>4. CASE Fail(r)
  BY <1>1, <1>4, FailEffect
<1>5. x \in Names /\ q.left \ {x} \in SUBSET Names
  BY <1>2 DEF Request, Deepest
<1>6. CASE ~Fail(r) /\ IsFile(x)
  <2> DEFINE n == Walk(q, q.left \ {x}, files[x] # <<>>)
  <2>1. n \in Request /\ Onward(q, n) /\ n.pc # "pipe"
    BY <1>2, <1>5, WalkOnward
  <2>2. Go(r, n) /\ UNCHANGED <<disk, info, clock, last>>
    BY <1>3, <1>6
  <2> HIDE DEF n
  <2> QED
    BY <1>1, <2>1, <2>2, MoveEffect DEF Typed, disk
<1>7. CASE ~Fail(r) /\ ~IsFile(x)
  <2> DEFINE n == [q EXCEPT !.left = q.left \ {x}, !.dir = x, !.pc = "list"]
  <2>1. Go(r, n) /\ UNCHANGED <<disk, info, clock, last>>
    BY <1>2, <1>3, <1>7
  <2>2. "list" \in Steps /\ "list" \in Holding /\ "list" \notin Saving /\ "list" \in Deleting
    BY DEF Steps, Holding, Working, Saving, Deleting
  <2>3. n \in Request
    BY <1>2, <1>5, <2>2 DEF Request
  <2>4. /\ n.pc = "list" /\ n.op = q.op /\ n.path = q.path /\ n.via = q.via
        /\ n.match = q.match /\ n.none = q.none
    BY <1>2 DEF Request
  <2> HIDE DEF n
  <2>5. Onward(q, n) /\ n.pc # "pipe"
    BY <1>2, <2>2, <2>4 DEF Onward, Sound
  <2> QED
    BY <1>1, <2>1, <2>3, <2>5, MoveEffect DEF Typed, disk
<1> QED
  BY <1>3, <1>4, <1>6, <1>7

\* ... and through what is in it ...
LEMMA ListEffect ==
  ASSUME Typed, AllSound, Linked, NEW r \in Reqs, List(r)
  PROVE  Effect(r)
<1> DEFINE q == req[r]
           n == Walk(q, q.left \cup Entries(q.dir), FALSE)
<1>1. q.pc \in Deleting /\ q.pc \in Working
  BY DEF List, At, Deleting, Working
<1>2. q \in Request /\ q.via = "gaia" /\ q.path \in Paths /\ q.op = "delete"
  BY <1>1, AtStep
<1>3. CASE Fail(r)
  BY <1>1, <1>3, FailEffect
<1>4. CASE Go(r, n) /\ UNCHANGED <<disk, info, clock, last>>
  <2>1. q.left \cup Entries(q.dir) \in SUBSET Names
    BY <1>2 DEF Request, Entries, Names
  <2>2. n \in Request /\ Onward(q, n) /\ n.pc # "pipe"
    BY <1>2, <2>1, WalkOnward
  <2> HIDE DEF n
  <2> QED
    BY <1>1, <1>4, <2>2, MoveEffect DEF Typed, disk
<1> QED
  BY <1>3, <1>4 DEF List

\* ... and goes too, if it can.
LEMMA RmdirEffect ==
  ASSUME Typed, AllSound, Linked, NEW r \in Reqs, Rmdir(r)
  PROVE  Effect(r)
<1> DEFINE q == req[r]
           n == Ascend(q, q.depth - 1)
<1>1. q.pc \in Deleting /\ q.pc \in Working
  BY DEF Rmdir, At, Deleting, Working
<1>2. q \in Request /\ q.via = "gaia" /\ q.path \in Paths /\ q.op = "delete"
  BY <1>1, AtStep
<1>3. CASE Fail(r)
  BY <1>1, <1>3, FailEffect
<1>4. CASE Unlink(r, Folder(q.path, q.depth), n) /\ UNCHANGED <<info, clock>>
  <2>1. q.depth - 1 \in Int
    BY <1>2 DEF Request
  <2>2. n \in Request /\ Onward(q, n) /\ n.pc # "pipe"
    BY <1>2, <2>1, AscendOnward
  <2> QED
    BY <1>1, <1>4, <2>2, UnlinkEffect
<1> QED
  BY <1>3, <1>4 DEF Rmdir

\* Every step of a file operation that runs behind the lock is one of these.
LEMMA FileEffect ==
  ASSUME Typed, AllSound, Linked, NEW r \in Reqs, FileStep(r) \/ LoseBody(r)
  PROVE  Effect(r)
<1>1. ASSUME Abort(r) \/ LoseBody(r) PROVE Effect(r)
  <2>1. req[r].pc \in Working /\ Fail(r)
    BY <1>1 DEF Abort, LoseBody, At, Working, Saving
  <2> QED
    BY <2>1, FailEffect
<1> QED
  BY <1>1, LsEffect, MkdirEffect, OpenEffect, PipeEffect, StatEffect, SetInfoEffect,
     RemoveEffect, TidyEffect, ListEffect, RmdirEffect, DelInfoEffect DEF FileStep
-----------------------------------------------------------------------------
(* The invariant. *)

\* The versions a request may replace do not change on its way.
LEMMA OverKept ==
  ASSUME NEW q, NEW n, n.match = q.match, n.op = q.op, n.none = q.none
  PROVE  Over(n) = Over(q)
BY DEF Over

\* A request that holds a lock and goes on keeps the invariant.
LEMMA EffectKeeps ==
  ASSUME IInv, NEW r \in Reqs, Effect(r), ahead[r] = {}, UNCHANGED <<locks, ahead>>
  PROVE  IInv'
<1> DEFINE p == req[r].path
<1>1. /\ req[r].pc \in Working /\ req[r].pc \in Holding /\ p \in Paths /\ req[r] \in Request
      /\ req'[r].path = p /\ req'[r].pc \in Holding /\ Sound(req'[r])
  BY AtStep, StepNames DEF Effect, Onward, IInv
<1>2. \A o \in Reqs \ {r} : Same(req[o], req'[o])
  BY DEF Effect
<1>3. \A o \in Reqs : /\ req'[o].path = req[o].path
                      /\ req'[o].pc \in Holding => req[o].pc \in Holding
                      /\ req'[o].pc \in Working => req[o].pc \in Working
                      /\ req'[o].pc = "etag" => o # r /\ req[o].pc = "etag"
  BY <1>1, <1>2, StepNames DEF Same
<1>4. /\ info' \in [Paths -> Row \cup {Nothing}]
      /\ \A o \in Paths : o # p => info'[o] = info[o]
      /\ req'[r].pc # "unlock" => info' = info
  <2>1. CASE info' = info
    BY <2>1 DEF IInv, Typed
  <2>2. CASE info' = [info EXCEPT ![p] = Nothing] /\ req'[r].pc = "unlock"
    BY <2>2 DEF IInv, Typed
  <2>3. CASE /\ info' = [info EXCEPT ![p] = [modified |-> clock, size |-> req[r].size]]
             /\ req'[r].pc = "unlock"
    <3>1. [modified |-> clock, size |-> req[r].size] \in Row
      BY <1>1 DEF Row, IInv, Typed, Request
    <3> QED
      BY <2>3, <3>1 DEF IInv, Typed
  <2> QED
    BY <2>1, <2>2, <2>3 DEF Effect
<1>5. Typed'
  BY <1>4 DEF Effect, IInv, Typed
<1>6. AllSound'
  <2> SUFFICES ASSUME NEW o \in Reqs, o # r PROVE Sound(req'[o])
    BY <1>1 DEF AllSound
  <2> QED
    BY <1>2 DEF Same, Sound, IInv, AllSound
<1>7. Linked'
  BY DEF Effect
<1>8. Held' /\ Apart'
  BY <1>3 DEF IInv, Held, Apart
<1>9. Fresh'
  <2> SUFFICES ASSUME NEW o \in Reqs, req'[o].pc = "etag"
               PROVE  req'[o].seen = info'[req'[o].path]
    BY DEF Fresh, At
  <2>1. o # r /\ req[o].pc = "etag" /\ req'[o].seen = req[o].seen /\ req'[o].path = req[o].path
    BY <1>2, <1>3 DEF Same
  <2>2. req[o].path # p /\ req[o].path \in Paths
    BY <1>1, <2>1, StepNames DEF IInv, Waits, At, AllSound, Sound
  <2> QED
    BY <1>4, <2>1, <2>2 DEF IInv, Fresh, At
<1>10. Waits'
  BY <1>3 DEF IInv, Waits, At
<1>11. Allowed'
  <2> SUFFICES ASSUME NEW o \in Reqs, req'[o].pc \in Working
               PROVE  Version(req[o].path)' \in Over(req'[o])
    BY DEF Allowed
  <2>1. req[o].pc \in Working /\ req'[o].path = req[o].path /\ req[o].path \in Paths
    BY <1>3, AtStep DEF IInv
  <2>2. info'[req[o].path] = info[req[o].path]
    BY <1>1, <1>4, <2>1, StepNames DEF IInv, Apart
  <2>3. Over(req'[o]) = Over(req[o])
    BY <1>2, OverKept DEF Same, Effect, Onward
  <2>4. Version(req[o].path) \in Over(req[o])
    BY <2>1 DEF IInv, Allowed
  <2> QED
    BY <2>1, <2>2, <2>3, <2>4 DEF Version
<1> QED
  BY <1>5, <1>6, <1>7, <1>8, <1>9, <1>10, <1>11 DEF IInv

\* What a request looks like that has just taken the lock.
Locked(r, q) ==
  /\ req' \in [Reqs -> Request]
  /\ \A o \in Reqs \ {r} : Same(req[o], req'[o])
  /\ Onward(q, req'[r]) /\ req'[r].pc \in Working /\ req'[r].pc # "pipe"
  /\ UNCHANGED <<files, info, clock>>

\* The lock is taken with the first step of a write or a deletion.
LEMMA LockMoves ==
  ASSUME Typed, NEW r \in Reqs, NEW q \in Request, q.via = "gaia", q.path \in Paths,
         q.op # "none", Lock(r, q)
  PROVE  Locked(r, q)
<1> DEFINE n == IF q.op = "write" THEN Descend(q, 0) ELSE [q EXCEPT !.pc = "remove"]
           others == WorkingOn(n.path) \ {r}
           lone == others = {}
<1>1. n \in Request /\ Onward(q, n) /\ n.pc \in Working /\ n.pc # "pipe"
  <2>1. CASE q.op = "write"
    <3>1. 0 \in Int /\ {"ls", "open"} \subseteq Working
      BY DEF Working, Saving
    <3>2. /\ Descend(q, 0) \in Request /\ Onward(q, Descend(q, 0))
          /\ Descend(q, 0).pc \in {"ls", "open"}
      BY <2>1, <3>1, DescendOnward
    <3> QED
      BY <2>1, <3>1, <3>2
  <2>2. CASE q.op = "delete"
    <3>1. "remove" \in Deleting /\ "remove" \in Working
      BY DEF Working, Deleting
    <3> QED
      BY <2>2, <3>1, StepOnward
  <2> QED
    BY <2>1, <2>2 DEF Request
<1>2. Enter(r, n) /\ UNCHANGED <<files, info, clock>>
  BY DEF Lock, disk
<1>3. req' = [o \in Reqs |->
               CASE o = r         -> [n EXCEPT !.alone = lone]
                 [] o \in others  -> [req[o] EXCEPT !.alone = FALSE]
                 [] OTHER         -> req[o]]
  BY <1>2 DEF Enter
<1>4. lone \in BOOLEAN /\ r \notin others
  OBVIOUS
<1> HIDE DEF n, lone, others
<1>5. ASSUME NEW k \in Request, NEW a \in BOOLEAN
      PROVE  /\ [k EXCEPT !.alone = a] \in Request /\ Same(k, [k EXCEPT !.alone = a])
             /\ Sound(k) => Sound([k EXCEPT !.alone = a])
  BY <1>5 DEF Request, Same, Sound
<1>6. \A o \in Reqs : req[o] \in Request /\ Same(req[o], req[o])
  BY DEF Typed, Same
<1>7. req'[r] = [n EXCEPT !.alone = lone]
  BY <1>3, <1>4
<1>8. \A o \in Reqs \ {r} : req'[o] = [req[o] EXCEPT !.alone = FALSE] \/ req'[o] = req[o]
  BY <1>3
<1>9. req' \in [Reqs -> Request] /\ \A o \in Reqs \ {r} : Same(req[o], req'[o])
  <2>1. \A o \in Reqs : req'[o] \in Request
    <3>1. req'[r] \in Request
      BY <1>1, <1>4, <1>5, <1>7
    <3>2. ASSUME NEW o \in Reqs, o # r PROVE req'[o] \in Request
      BY <1>5, <1>6, <1>8, <3>2
    <3> QED
      BY <3>1, <3>2
  <2>2. req' = [o \in Reqs |-> req'[o]]
    BY <1>3
  <2> QED
    BY <1>5, <1>6, <1>8, <2>1, <2>2
<1>10. Onward(q, req'[r]) /\ req'[r].pc = n.pc
  BY <1>1, <1>4, <1>5, <1>7 DEF Onward, Same
<1> QED
  BY <1>1, <1>2, <1>9, <1>10 DEF Locked

\* Taking a lock that is free keeps the invariant, if the version found will do.
LEMMA LockKeeps ==
  ASSUME IInv, NEW r \in Reqs, req[r].pc \in {"idle", "etag"},
         NEW q \in Request, q.via = "gaia", q.path \in Paths, q.op # "none",
         q.path \notin locks, Version(q.path) \in Over(q), Lock(r, q)
  PROVE  IInv'
<1> DEFINE p == q.path
<1>1. Locked(r, q)
  BY LockMoves DEF IInv
<1>2. /\ locks' = locks \cup {p}
      /\ ahead' = [o \in Reqs |-> IF o = r THEN {x \in Reqs \ {r} : At(x, "etag")}
                                           ELSE ahead[o] \ {r}]
  BY DEF Lock
<1>3. /\ req'[r].path = p /\ req'[r].pc \in Working /\ req'[r].pc \in Holding
      /\ req'[r].pc # "etag" /\ req'[r].pc # "pipe" /\ Sound(req'[r])
      /\ Over(req'[r]) = Over(q)
  BY <1>1, StepNames, OverKept DEF Locked, Onward
<1>4. \A o \in Reqs \ {r} : Same(req[o], req'[o])
  BY <1>1 DEF Locked
<1>5. \A o \in Reqs : req[o].pc \in Holding => req[o].path # p
  BY DEF IInv, Held
<1>6. UNCHANGED <<files, info, clock>> /\ req' \in [Reqs -> Request]
  BY <1>1 DEF Locked
<1>7. Typed'
  BY <1>2, <1>6 DEF IInv, Typed
<1>8. AllSound'
  <2> SUFFICES ASSUME NEW o \in Reqs, o # r PROVE Sound(req'[o])
    BY <1>3 DEF AllSound
  <2> QED
    BY <1>4 DEF Same, Sound, IInv, AllSound
<1>9. Linked'
  BY <1>3, <1>4, <1>6 DEF IInv, Linked, Same
<1>10. Held'
  BY <1>2, <1>3, <1>4 DEF IInv, Held, Same
<1>11. Apart'
  <2> SUFFICES ASSUME NEW o \in Reqs, NEW s \in Reqs, o # s,
                      req'[o].pc \in Holding, req'[s].pc \in Holding
               PROVE  req'[o].path # req'[s].path
    BY DEF Apart
  <2>1. CASE o = r
    BY <1>3, <1>4, <1>5, <2>1 DEF Same
  <2>2. CASE s = r
    BY <1>3, <1>4, <1>5, <2>2 DEF Same
  <2>3. CASE o # r /\ s # r
    BY <1>4, <2>3 DEF Same, IInv, Apart
  <2> QED
    BY <2>1, <2>2, <2>3
<1>12. Fresh'
  BY <1>3, <1>4, <1>6 DEF Same, IInv, Fresh, At
<1>13. Waits'
  <2> SUFFICES ASSUME NEW o \in Reqs, NEW s \in Reqs, req'[o].pc = "etag",
                      req'[s].pc \in Working, req'[o].path = req'[s].path
               PROVE  o \in ahead'[s]
    BY DEF Waits, At
  <2>1. o # r /\ req[o].pc = "etag" /\ req[o].path = req'[o].path
    BY <1>3, <1>4 DEF Same
  <2>2. CASE s = r
    BY <1>2, <2>1, <2>2 DEF At
  <2>3. CASE s # r
    <3>1. o \in ahead[s]
      BY <1>4, <2>1, <2>3 DEF Same, IInv, Waits, At
    <3> QED
      BY <1>2, <2>1, <2>3, <3>1
  <2> QED
    BY <2>2, <2>3
<1>14. Allowed'
  <2> SUFFICES ASSUME NEW o \in Reqs, req'[o].pc \in Working
               PROVE  Version(req'[o].path) \in Over(req'[o])
    BY <1>6 DEF Allowed, Version
  <2>1. CASE o = r
    BY <1>3, <2>1
  <2>2. CASE o # r
    <3>1. Same(req[o], req'[o])
      BY <1>4, <2>2
    <3>2. Over(req'[o]) = Over(req[o])
      BY <3>1, OverKept DEF Same
    <3> QED
      BY <3>1, <3>2 DEF Same, IInv, Allowed
  <2> QED
    BY <2>1, <2>2
<1> QED
  BY <1>7, <1>8, <1>9, <1>10, <1>11, <1>12, <1>13, <1>14 DEF IInv

\* A request may leave, if the locks that are left are still those of the others.
LEMMA LeaveKeeps ==
  ASSUME IInv, NEW r \in Reqs, Go(r, Blank), UNCHANGED <<files, info, clock>>,
         ahead' \in [Reqs -> SUBSET Reqs],
         \A o, s \in Reqs : o # r /\ o \in ahead[s] => o \in ahead'[s],
         \A o \in Reqs \ {r} : req[o].pc \in Holding => req[o].path \in locks'
  PROVE  IInv'
<1>1. /\ req' \in [Reqs -> Request] /\ req'[r] = Blank
      /\ \A o \in Reqs \ {r} : req'[o] = req[o]
  BY GoKeeps, BlankIsRequest DEF IInv, Typed
<1>2. /\ req'[r].pc \notin Holding /\ req'[r].pc \notin Working
      /\ req'[r].pc # "etag" /\ req'[r].pc # "pipe" /\ Sound(req'[r])
  BY <1>1, BlankIsRequest, StepNames
<1>3. Typed'
  BY <1>1 DEF IInv, Typed
<1>4. AllSound'
  BY <1>1, <1>2 DEF IInv, AllSound
<1>5. Linked'
  BY <1>1, <1>2 DEF IInv, Linked
<1>6. Held'
  BY <1>1, <1>2 DEF Held
<1>7. Apart'
  BY <1>1, <1>2 DEF IInv, Apart
<1>8. Fresh'
  BY <1>1, <1>2 DEF IInv, Fresh, At
<1>9. Waits'
  BY <1>1, <1>2 DEF IInv, Waits, At
<1>10. Allowed'
  <2> SUFFICES ASSUME NEW o \in Reqs, req'[o].pc \in Working
               PROVE  Version(req'[o].path) \in Over(req'[o])
    BY DEF Allowed, Version
  <2> QED
    BY <1>1, <1>2 DEF IInv, Allowed
<1> QED
  BY <1>3, <1>4, <1>5, <1>6, <1>7, <1>8, <1>9, <1>10 DEF IInv

\* What is waiting to read a row is not there yet when the request that reads it begins.
LEMMA ReadKeeps ==
  ASSUME IInv, NEW r \in Reqs, NEW n \in Request, n.pc = "etag", n.path \notin locks,
         Sound(n), n.seen = info[n.path], Go(r, n), UNCHANGED <<files, info, clock, locks, ahead>>
  PROVE  IInv'
<1>1. /\ req' \in [Reqs -> Request] /\ req'[r] = n
      /\ \A o \in Reqs \ {r} : req'[o] = req[o]
  BY GoKeeps DEF IInv, Typed
<1>2. n.pc \notin Holding /\ n.pc \notin Working /\ n.pc # "pipe"
  BY StepNames
<1>3. Typed'
  BY <1>1 DEF IInv, Typed
<1>4. AllSound'
  BY <1>1 DEF IInv, AllSound
<1>5. Linked'
  BY <1>1, <1>2 DEF IInv, Linked
<1>6. Held' /\ Apart'
  BY <1>1, <1>2 DEF IInv, Held, Apart
<1>7. Fresh'
  BY <1>1 DEF IInv, Fresh, At
<1>8. Waits'
  <2> SUFFICES ASSUME NEW o \in Reqs, NEW s \in Reqs, req'[o].pc = "etag",
                      req'[s].pc \in Working, req'[o].path = req'[s].path
               PROVE  o \in ahead[s]
    BY DEF Waits, At
  <2>1. s # r /\ req[s].pc \in Working /\ req[s].pc \in Holding /\ req[s].path = req'[s].path
    BY <1>1, <1>2, StepNames
  <2>2. o # r
    BY <1>1, <2>1 DEF IInv, Held
  <2> QED
    BY <1>1, <2>1, <2>2 DEF IInv, Waits, At
<1>9. Allowed'
  <2> SUFFICES ASSUME NEW o \in Reqs, req'[o].pc \in Working
               PROVE  Version(req'[o].path) \in Over(req'[o])
    BY DEF Allowed, Version
  <2> QED
    BY <1>1, <1>2 DEF IInv, Allowed
<1> QED
  BY <1>3, <1>4, <1>5, <1>6, <1>7, <1>8, <1>9 DEF IInv

\* A row holds one of the etags, or there is none.
LEMMA VersionOfRow ==
  ASSUME Typed, NEW p \in Paths
  PROVE  Version(p) \in Etags \cup {Nothing}
BY DEF Version, Typed, Row

\* A request that takes the lock at once asks nothing of the version.
LEMMA BeginKeeps ==
  ASSUME IInv, NEW r \in Reqs, NEW q \in Request, NEW reads \in BOOLEAN, Begin(r, q, reads),
         q.via = "gaia", q.path \in Paths, q.op \in {"write", "delete"},
         ~reads => Over(q) = Etags \cup {Nothing}
  PROVE  IInv'
<1>1. req[r].pc = "idle" /\ q.path \notin locks
  BY DEF Begin, At
<1>2. CASE reads
  <2> DEFINE n == [q EXCEPT !.pc = "etag", !.seen = info[q.path]]
  <2>1. Go(r, n) /\ UNCHANGED <<files, info, clock, locks, ahead>>
    BY <1>2 DEF Begin, disk
  <2>2. info[q.path] \in Row \cup {Nothing} /\ "etag" \in Steps
    BY StepNames DEF IInv, Typed
  <2>3. n \in Request
    BY <2>2 DEF Request
  <2>4. /\ n.pc = "etag" /\ n.path = q.path /\ n.via = q.via /\ n.op = q.op
        /\ n.seen = info[q.path]
    BY DEF Request
  <2>5. Sound(n)
    BY <2>4 DEF Sound, Saving, Deleting
  <2> HIDE DEF n
  <2> QED
    BY <1>1, <2>1, <2>3, <2>4, <2>5, ReadKeeps
<1>3. CASE ~reads
  <2>1. Lock(r, q) /\ Version(q.path) \in Over(q)
    BY <1>3, VersionOfRow DEF Begin, IInv
  <2> QED
    BY <1>1, <2>1, LockKeeps
<1> QED
  BY <1>2, <1>3

\* The requests of POST /store and DELETE /delete.
Storing(p, b, m, n) == [Blank EXCEPT !.via = "gaia", !.op = "write", !.path = p, !.body = b,
                                     !.match = m, !.none = n]
Removing(p, m) == [Blank EXCEPT !.via = "gaia", !.op = "delete", !.path = p, !.match = m]

\* They are requests of GaiaApi.
LEMMA AskingIsRequest ==
  ASSUME NEW p \in Paths, NEW m \in Etags \cup {Any, Nothing}
  PROVE  /\ \A b \in Bodies, n \in BOOLEAN :
              LET q == Storing(p, b, m, n)
              IN q \in Request /\ q.via = "gaia" /\ q.path = p /\ q.op = "write" /\ q.match = m
         /\ LET q == Removing(p, m)
            IN q \in Request /\ q.via = "gaia" /\ q.path = p /\ q.op = "delete" /\ q.match = m
<1>1. PICK z \in Request : z = Blank
  BY BlankIsRequest
<1>2. ASSUME NEW b \in Bodies, NEW n \in BOOLEAN
      PROVE  LET q == Storing(p, b, m, n)
             IN q \in Request /\ q.via = "gaia" /\ q.path = p /\ q.op = "write" /\ q.match = m
  BY <1>1 DEF Storing, Request
<1>3. LET q == Removing(p, m)
      IN q \in Request /\ q.via = "gaia" /\ q.path = p /\ q.op = "delete" /\ q.match = m
  BY <1>1 DEF Removing, Request
<1> QED
  BY <1>2, <1>3

\* Requests begin.
LEMMA BeginsKeeps ==
  ASSUME IInv, NEW r \in Reqs, Begins(r)
  PROVE  IInv'
<1>1. ASSUME NEW p \in Paths, NEW b \in Bodies, NEW m \in Etags \cup {Any, Nothing},
             NEW n \in BOOLEAN, Store(r, p, b, m, n)
      PROVE  IInv'
  <2> DEFINE q == Storing(p, b, m, n)
  <2>1. q \in Request /\ q.via = "gaia" /\ q.path = p /\ q.op = "write" /\ q.match = m
    BY AskingIsRequest
  <2>2. Begin(r, q, m # Any)
    BY <1>1 DEF Store, Storing
  <2> HIDE DEF q
  <2>3. m = Any => Over(q) = Etags \cup {Nothing}
    BY <2>1, GaiaAssumption DEF Over, Etags
  <2> QED
    BY <2>1, <2>2, <2>3, BeginKeeps
<1>2. ASSUME NEW p \in Paths, NEW m \in Etags \cup {Any, Nothing}, Delete(r, p, m)
      PROVE  IInv'
  <2> DEFINE q == Removing(p, m)
  <2>1. q \in Request /\ q.via = "gaia" /\ q.path = p /\ q.op = "delete" /\ q.match = m
    BY AskingIsRequest
  <2>2. Begin(r, q, m # Nothing)
    BY <1>2 DEF Delete, Removing
  <2> HIDE DEF q
  <2>3. m = Nothing => Over(q) = Etags \cup {Nothing}
    BY <2>1, GaiaAssumption DEF Over, Etags
  <2> QED
    BY <2>1, <2>2, <2>3, BeginKeeps
<1> QED
  BY <1>1, <1>2 DEF Begins

\* The row that was read is the file's still, so that what was asked of it is true.
LEMMA CheckedVersion ==
  ASSUME Typed, NEW q \in Request, q.path \in Paths, q.op \in {"write", "delete"},
         q.seen = info[q.path], IF q.op = "write" THEN Storable(q) ELSE Deletable(q)
  PROVE  Version(q.path) \in Over(q)
<1>1. Version(q.path) \in Etags \cup {Nothing}
  BY VersionOfRow
<1>2. q.match \in Etags => q.match # Any /\ Version(q.path) = q.match
  BY GaiaAssumption DEF Storable, Deletable, SameEtag, Version, Etags
<1>3. q.op = "write" => q.seen # Nothing /\ ~q.none
  BY DEF Storable
<1>4. q.op = "write" => Version(q.path) \in Etags
  BY <1>3 DEF Version, Typed, Row
<1> QED
  BY <1>1, <1>2, <1>3, <1>4 DEF Over

\* A request that is refused leaves nothing behind.
LEMMA RefuseKeeps ==
  ASSUME IInv, NEW r \in Reqs, At(r, "etag"), Refuse(r)
  PROVE  IInv'
<1>1. /\ Go(r, Blank) /\ UNCHANGED <<files, info, clock, locks>>
      /\ ahead' = [o \in Reqs |-> ahead[o] \ {r}]
  BY DEF Refuse, disk
<1>2. /\ ahead' \in [Reqs -> SUBSET Reqs]
      /\ \A o, s \in Reqs : o # r /\ o \in ahead[s] => o \in ahead'[s]
  BY <1>1 DEF IInv, Typed
<1>3. \A o \in Reqs \ {r} : req[o].pc \in Holding => req[o].path \in locks'
  BY <1>1 DEF IInv, Held
<1> QED
  BY <1>1, <1>2, <1>3, LeaveKeeps

\* When the row has been read, the request is refused or takes the lock.
LEMMA CheckKeeps ==
  ASSUME IInv, NEW r \in Reqs, Check(r)
  PROVE  IInv'
<1> DEFINE q == req[r]
<1>1. /\ At(r, "etag") /\ q.pc = "etag" /\ q \in Request /\ q.seen = info[q.path]
      /\ q.via = "gaia" /\ q.path \in Paths /\ q.op # "none" /\ q.op \in {"write", "delete"}
  BY DEF Check, At, IInv, Fresh, Typed, AllSound, Sound, Request
<1>2. CASE Refuse(r)
  BY <1>1, <1>2, RefuseKeeps
<1>3. CASE /\ Lock(r, q) /\ q.path \notin locks
           /\ IF q.op = "write" THEN Storable(q) ELSE Deletable(q)
  <2>1. Version(q.path) \in Over(q)
    BY <1>1, <1>3, CheckedVersion DEF IInv
  <2> QED
    BY <1>1, <1>3, <2>1, LockKeeps
<1> QED
  BY <1>2, <1>3 DEF Check, Unlocked

\* The lock is given up.
LEMMA UnlockKeeps ==
  ASSUME IInv, NEW r \in Reqs, Unlock(r)
  PROVE  IInv'
<1>1. /\ Go(r, Blank) /\ UNCHANGED <<files, info, clock, ahead>>
      /\ locks' = locks \ {req[r].path} /\ req[r].pc \in Holding
  BY StepNames DEF Unlock, At, disk
<1>2. ahead' \in [Reqs -> SUBSET Reqs] /\ \A o, s \in Reqs : o \in ahead[s] => o \in ahead'[s]
  BY <1>1 DEF IInv, Typed
<1>3. \A o \in Reqs \ {r} : req[o].pc \in Holding => req[o].path \in locks'
  BY <1>1 DEF IInv, Held, Apart
<1> QED
  BY <1>1, <1>2, <1>3, LeaveKeeps

\* A clock that goes on changes nothing.
LEMMA TickKeeps ==
  ASSUME IInv, Tick, UNCHANGED <<locks, ahead>>
  PROVE  IInv'
<1>1. clock' \in Etags /\ UNCHANGED <<files, info, req, locks, ahead>>
  BY FileAssumption DEF Tick, disk, IInv, Typed, Etags
<1> QED
  BY <1>1 DEF IInv, Typed, AllSound, Linked, Held, Apart, Fresh, Waits, Allowed, Version, At

\* After a crash nobody holds anything.
LEMMA CrashKeeps ==
  ASSUME IInv, GaiaCrash
  PROVE  IInv'
<1>1. /\ req' = [r \in Reqs |-> Blank] /\ UNCHANGED <<files, info, clock>>
      /\ locks' = {} /\ ahead' = [r \in Reqs |-> {}]
  BY DEF GaiaCrash, Crash, disk
<1>2. /\ Blank \in Request /\ Sound(Blank) /\ Blank.pc \notin Holding /\ Blank.pc \notin Working
      /\ Blank.pc # "etag" /\ Blank.pc # "pipe"
  BY BlankIsRequest, StepNames
<1>3. Typed' /\ AllSound'
  BY <1>1, <1>2 DEF IInv, Typed, AllSound
<1>4. Linked' /\ Held' /\ Apart' /\ Fresh' /\ Waits' /\ Allowed'
  BY <1>1, <1>2 DEF Linked, Held, Apart, Fresh, Waits, Allowed, At
<1> QED
  BY <1>3, <1>4 DEF IInv

\* The invariant is true at the start ...
LEMMA InitHolds == GaiaInit => IInv
<1> SUFFICES ASSUME GaiaInit PROVE IInv
  OBVIOUS
<1>1. /\ req = [r \in Reqs |-> Blank] /\ files = [p \in Paths |-> Nothing]
      /\ info = [p \in Paths |-> Nothing] /\ clock = 1 /\ ahead = [r \in Reqs |-> {}]
  BY DEF GaiaInit, Init
<1>2. /\ Blank \in Request /\ Sound(Blank) /\ Blank.pc \notin Holding /\ Blank.pc \notin Working
      /\ Blank.pc # "etag" /\ Blank.pc # "pipe"
  BY BlankIsRequest, StepNames
<1>3. 1 \in Etags
  BY FileAssumption DEF Etags
<1> QED
  BY <1>1, <1>2, <1>3 DEF IInv, Typed, AllSound, Linked, Held, Apart, Fresh, Waits, Allowed, At

\* ... and every step keeps it.
LEMMA NextKeeps == IInv /\ [GaiaNext]_gaiaVars => IInv'
<1> SUFFICES ASSUME IInv, [GaiaNext]_gaiaVars PROVE IInv'
  OBVIOUS
<1>1. ASSUME NEW r \in Reqs, GaiaStep(r) PROVE IInv'
  <2>1. CASE ahead[r] = {} /\ (FileStep(r) \/ LoseBody(r)) /\ UNCHANGED <<locks, ahead>>
    BY <2>1, FileEffect, EffectKeeps DEF IInv
  <2> QED
    BY <1>1, <2>1, CheckKeeps, UnlockKeeps DEF GaiaStep
<1>2. CASE UNCHANGED gaiaVars
  BY <1>2 DEF gaiaVars, IInv, Typed, AllSound, Linked, Held, Apart, Fresh, Waits, Allowed,
              Version, At
<1> QED
  BY <1>1, <1>2, BeginsKeeps, TickKeeps, CrashKeeps DEF GaiaNext

\* So it is always true.
LEMMA Invariant == GaiaSpec => []IInv
BY InitHolds, NextKeeps, PTL DEF GaiaSpec
-----------------------------------------------------------------------------
(* The rows are a Register. *)

\* The call that a request stands for.
Entry(q) == [path |-> q.path, delete |-> (q.op = "delete"), over |-> Over(q)]

\* It is a call, which is not the absence of one.
LEMMA EntryIsCall ==
  ASSUME NEW q \in Request, q.path \in Paths
  PROVE  Entry(q) \in Versioned!Calls /\ Entry(q) # Nothing
<1>1. Over(q) \in SUBSET (Etags \cup {Nothing})
  BY DEF Over, Request
<1>2. (q.op = "delete") \in BOOLEAN
  OBVIOUS
<1>3. Entry(q) \in [path : Paths, delete : BOOLEAN, over : SUBSET (Etags \cup {Nothing})]
  BY <1>1, <1>2 DEF Entry
<1> QED
  BY <1>3, GaiaAssumption DEF Versioned!Calls, Versioned!Versions, Etags

\* It does not change on the way.
LEMMA EntryKept ==
  ASSUME NEW q, NEW n, n.match = q.match, n.op = q.op, n.none = q.none, n.path = q.path
  PROVE  Entry(n) = Entry(q)
BY OverKept DEF Entry

\* A request that did not move stands for what it stood for.
LEMMA SameAsked ==
  ASSUME NEW q, NEW n, Same(q, n)
  PROVE  Asked(n) = Asked(q)
BY EntryKept DEF Asked, Entry, Same

\* The abstract state.
Reg == [p \in Paths |-> Version(p)]
Call == [r \in Reqs |-> Asked(req[r])]

\* One request changes what it stands for, and no other does.
LEMMA CallChanges ==
  ASSUME NEW r \in Reqs, \A o \in Reqs \ {r} : Same(req[o], req'[o])
  PROVE  Call' = [Call EXCEPT ![r] = Asked(req'[r])]
<1>1. \A o \in Reqs \ {r} : Asked(req'[o]) = Asked(req[o])
  BY SameAsked
<1> QED
  BY <1>1 DEF Call

\* What the steps of the register look like from here.
Stays == Reg' = Reg /\ Call' = Call
Asks(r) == /\ Call[r] = Nothing /\ Reg' = Reg
           /\ \E k \in Versioned!Calls : Call' = [Call EXCEPT ![r] = k]
Ends(r) == Call[r] # Nothing /\ Reg' = Reg /\ Call' = [Call EXCEPT ![r] = Nothing]
Replaces(r) ==
  /\ Call[r] # Nothing /\ Reg[Call[r].path] \in Call[r].over
  /\ \E v \in IF Call[r].delete THEN {Nothing} ELSE Etags : Reg' = [Reg EXCEPT ![Call[r].path] = v]
  /\ Call' = [Call EXCEPT ![r] = Nothing]

\* They are steps of the register.
LEMMA Abstract ==
  ASSUME Stays \/ \E r \in Reqs : Asks(r) \/ Ends(r) \/ Replaces(r)
  PROVE  [Versioned!Next]_(Versioned!registers)
<1>1. CASE Stays
  BY <1>1 DEF Stays, Reg, Call, Version, Versioned!registers
<1>2. ASSUME NEW r \in Reqs, Asks(r) PROVE Versioned!Ask(r)
  BY <1>2 DEF Asks, Reg, Call, Version, Versioned!Ask
<1>3. ASSUME NEW r \in Reqs, Ends(r) PROVE Versioned!Refuse(r)
  BY <1>3 DEF Ends, Reg, Call, Version, Versioned!Refuse
<1>4. ASSUME NEW r \in Reqs, Replaces(r) PROVE Versioned!Replace(r)
  BY <1>4 DEF Replaces, Reg, Call, Version, Versioned!Replace
<1> QED
  BY <1>1, <1>2, <1>3, <1>4 DEF Versioned!Next

\* The rows did not change.
LEMMA RegKept == ASSUME info' = info PROVE Reg' = Reg
BY DEF Reg, Version

\* The last step of an operation is the moment at which it takes effect.
LEMMA EffectImplements ==
  ASSUME IInv, NEW r \in Reqs, Effect(r)
  PROVE  [Versioned!Next]_(Versioned!registers)
<1> DEFINE q == req[r]
           n == req'[r]
<1>1. /\ q.pc \in Working /\ q.path \in Paths /\ q \in Request
      /\ n.op = q.op /\ n.path = q.path /\ n.match = q.match /\ n.none = q.none
      /\ n.pc \in Working \cup {"unlock"}
  BY AtStep DEF Effect, Onward, IInv, Holding
<1>2. Call' = [Call EXCEPT ![r] = Asked(n)] /\ Call[r] = Asked(q)
  BY CallChanges DEF Effect, Call
<1>3. Asked(q) = Entry(q) /\ Asked(q) # Nothing
  BY <1>1, EntryIsCall DEF Asked, Entry
<1>4. CASE n.pc \in Working
  <2>1. Asked(n) = Asked(q)
    BY <1>1, <1>4, EntryKept DEF Asked, Entry
  <2>2. Call' = Call
    BY <1>2, <2>1 DEF Call
  <2>3. Reg' = Reg
    BY <1>4, StepNames, RegKept DEF Effect
  <2> QED
    BY <2>2, <2>3, Abstract DEF Stays
<1>5. CASE n.pc = "unlock"
  <2>1. Asked(n) = Nothing
    BY <1>5, StepNames DEF Asked
  <2>2. CASE info' = info
    BY <1>2, <1>3, <2>1, <2>2, RegKept, Abstract DEF Ends
  <2>3. Reg[Call[r].path] \in Call[r].over /\ Call[r].path = q.path
    <3>1. Version(q.path) \in Over(q)
      BY <1>1 DEF IInv, Allowed
    <3>2. Call[r].path = q.path /\ Call[r].over = Over(q)
      BY <1>2, <1>3 DEF Entry
    <3> QED
      BY <1>1, <3>1, <3>2 DEF Reg
  <2>4. Call[r].delete = (q.op = "delete")
    BY <1>2, <1>3 DEF Entry
  <2>5. CASE q.op = "delete" /\ info' = [info EXCEPT ![q.path] = Nothing]
    <3>1. Reg' = [Reg EXCEPT ![q.path] = Nothing]
      BY <1>1, <2>5 DEF Reg, Version, IInv, Typed
    <3> QED
      BY <1>2, <1>3, <2>1, <2>3, <2>4, <2>5, <3>1, Abstract DEF Replaces
  <2>6. CASE /\ q.op = "write"
             /\ info' = [info EXCEPT ![q.path] = [modified |-> clock, size |-> q.size]]
    <3>1. clock \in Etags /\ [modified |-> clock, size |-> q.size] # Nothing
      BY <1>1, NothingAssumption DEF IInv, Typed, Request, Etags
    <3>2. Reg' = [Reg EXCEPT ![q.path] = clock]
      BY <1>1, <2>6, <3>1 DEF Reg, Version, IInv, Typed
    <3> QED
      BY <1>2, <1>3, <2>1, <2>3, <2>4, <2>6, <3>1, <3>2, Abstract DEF Replaces
  <2> QED
    BY <2>2, <2>5, <2>6 DEF Effect
<1> QED
  BY <1>1, <1>4, <1>5

\* A request that takes the lock stands for what it asked.
LEMMA LockImplements ==
  ASSUME IInv, NEW r \in Reqs, req[r].pc \in {"idle", "etag"},
         NEW q \in Request, q.via = "gaia", q.path \in Paths, q.op # "none",
         req[r].pc = "etag" => q = req[r], Lock(r, q)
  PROVE  [Versioned!Next]_(Versioned!registers)
<1>1. Locked(r, q)
  BY LockMoves DEF IInv
<1>2. Call' = [Call EXCEPT ![r] = Asked(req'[r])] /\ Call[r] = Asked(req[r])
  BY <1>1, CallChanges DEF Locked, Call
<1>3. Asked(req'[r]) = Entry(q)
  BY <1>1, EntryKept DEF Locked, Onward, Asked, Entry
<1>4. Reg' = Reg
  BY <1>1, RegKept DEF Locked
<1>5. CASE req[r].pc = "idle"
  <2>1. Asked(req[r]) = Nothing
    BY <1>5, StepNames DEF Asked
  <2> QED
    BY <1>2, <1>3, <1>4, <2>1, EntryIsCall, Abstract DEF Asks
<1>6. CASE req[r].pc = "etag"
  <2>1. Asked(req[r]) = Entry(q)
    BY <1>6 DEF Asked, Entry
  <2>2. Call' = Call
    BY <1>2, <1>3, <2>1 DEF Call
  <2> QED
    BY <1>4, <2>2, Abstract DEF Stays
<1> QED
  BY <1>5, <1>6

\* So does one that reads the row first.
LEMMA BeginImplements ==
  ASSUME IInv, NEW r \in Reqs, NEW q \in Request, NEW reads, Begin(r, q, reads),
         q.via = "gaia", q.path \in Paths, q.op \in {"write", "delete"}
  PROVE  [Versioned!Next]_(Versioned!registers)
<1>1. req[r].pc = "idle"
  BY DEF Begin, At
<1>2. CASE reads
  <2> DEFINE n == [q EXCEPT !.pc = "etag", !.seen = info[q.path]]
  <2>1. Go(r, n) /\ info' = info
    BY <1>2 DEF Begin
  <2>2. info[q.path] \in Row \cup {Nothing} /\ "etag" \in Steps
    BY StepNames DEF IInv, Typed
  <2>3. n \in Request
    BY <2>2 DEF Request
  <2>4. /\ n.pc = "etag" /\ n.path = q.path /\ n.op = q.op
        /\ n.match = q.match /\ n.none = q.none
    BY DEF Request
  <2> HIDE DEF n
  <2>5. req'[r] = n /\ \A o \in Reqs \ {r} : Same(req[o], req'[o])
    BY <2>1, <2>3, GoKeeps DEF IInv, Typed
  <2>6. Asked(n) = Entry(n) /\ Asked(req[r]) = Nothing
    BY <1>1, <2>4, StepNames DEF Asked, Entry
  <2>7. Entry(n) \in Versioned!Calls
    BY <2>3, <2>4, EntryIsCall
  <2>8. Call' = [Call EXCEPT ![r] = Entry(n)] /\ Call[r] = Nothing
    BY <2>5, <2>6, CallChanges DEF Call
  <2> QED
    BY <2>1, <2>7, <2>8, RegKept, Abstract DEF Asks
<1>3. CASE ~reads
  BY <1>1, <1>3, LockImplements DEF Begin
<1> QED
  BY <1>2, <1>3

\* A request that gives up, or is done, stands for nothing.
LEMMA LeaveImplements ==
  ASSUME IInv, NEW r \in Reqs, Go(r, Blank), info' = info
  PROVE  [Versioned!Next]_(Versioned!registers)
<1>1. /\ req'[r] = Blank /\ \A o \in Reqs \ {r} : Same(req[o], req'[o])
  BY GoKeeps, BlankIsRequest DEF IInv, Typed
<1>2. Asked(Blank) = Nothing
  BY BlankIsRequest, StepNames DEF Asked
<1>3. Call' = [Call EXCEPT ![r] = Nothing]
  BY <1>1, <1>2, CallChanges
<1>4. CASE Call[r] = Nothing
  BY <1>3, <1>4, RegKept, Abstract DEF Stays, Call
<1>5. CASE Call[r] # Nothing
  BY <1>3, <1>5, RegKept, Abstract DEF Ends
<1> QED
  BY <1>4, <1>5

\* Every step of GaiaApi is one of the register's, or changes nothing in it.
LEMMA NextImplements ==
  IInv /\ [GaiaNext]_gaiaVars => [Versioned!Next]_(Versioned!registers)
<1> SUFFICES ASSUME IInv, [GaiaNext]_gaiaVars
             PROVE  [Versioned!Next]_(Versioned!registers)
  OBVIOUS
<1>1. ASSUME NEW r \in Reqs, Begins(r) PROVE [Versioned!Next]_(Versioned!registers)
  <2>1. ASSUME NEW p \in Paths, NEW b \in Bodies, NEW m \in Etags \cup {Any, Nothing},
               NEW n \in BOOLEAN, Store(r, p, b, m, n)
        PROVE  [Versioned!Next]_(Versioned!registers)
    <3> DEFINE q == Storing(p, b, m, n)
    <3>1. q \in Request /\ q.via = "gaia" /\ q.path = p /\ q.op = "write"
      BY AskingIsRequest
    <3>2. Begin(r, q, m # Any)
      BY <2>1 DEF Store, Storing
    <3> HIDE DEF q
    <3> QED
      BY <3>1, <3>2, BeginImplements
  <2>2. ASSUME NEW p \in Paths, NEW m \in Etags \cup {Any, Nothing}, Delete(r, p, m)
        PROVE  [Versioned!Next]_(Versioned!registers)
    <3> DEFINE q == Removing(p, m)
    <3>1. q \in Request /\ q.via = "gaia" /\ q.path = p /\ q.op = "delete"
      BY AskingIsRequest
    <3>2. Begin(r, q, m # Nothing)
      BY <2>2 DEF Delete, Removing
    <3> HIDE DEF q
    <3> QED
      BY <3>1, <3>2, BeginImplements
  <2> QED
    BY <1>1, <2>1, <2>2 DEF Begins
<1>2. ASSUME NEW r \in Reqs, Check(r) PROVE [Versioned!Next]_(Versioned!registers)
  <2>1. CASE Refuse(r)
    BY <2>1, LeaveImplements DEF Refuse
  <2>2. CASE Lock(r, req[r])
    <3>1. /\ req[r].pc = "etag" /\ req[r] \in Request /\ req[r].via = "gaia"
          /\ req[r].path \in Paths /\ req[r].op # "none"
      BY <1>2 DEF Check, At, IInv, Typed, AllSound, Sound
    <3> QED
      BY <2>2, <3>1, LockImplements
  <2> QED
    BY <1>2, <2>1, <2>2 DEF Check
<1>3. ASSUME NEW r \in Reqs, GaiaStep(r) PROVE [Versioned!Next]_(Versioned!registers)
  <2>1. CASE FileStep(r) \/ LoseBody(r)
    BY <2>1, FileEffect, EffectImplements DEF IInv
  <2>2. CASE Unlock(r)
    BY <2>2, LeaveImplements DEF Unlock
  <2> QED
    BY <1>2, <1>3, <2>1, <2>2 DEF GaiaStep
<1>4. CASE UNCHANGED <<info, req>>
  <2>1. Reg' = Reg /\ Call' = Call
    BY <1>4, RegKept DEF Call
  <2> QED
    BY <2>1, Abstract DEF Stays
<1>5. CASE GaiaCrash
  <2>1. info' = info /\ req' = [r \in Reqs |-> Blank]
    BY <1>5 DEF GaiaCrash, Crash
  <2>2. Asked(Blank) = Nothing
    BY BlankIsRequest, StepNames DEF Asked
  <2>3. Reg' = Reg /\ Call' = [r \in Reqs |-> Nothing]
    BY <2>1, <2>2, RegKept DEF Call
  <2>4. Versioned!RefuseAll
    BY <2>3 DEF Reg, Call, Version, Versioned!RefuseAll
  <2> QED
    BY <2>4 DEF Versioned!Next
<1> QED
  BY <1>1, <1>3, <1>4, <1>5 DEF GaiaNext, Tick, gaiaVars

\* It starts like one.
LEMMA InitImplements == GaiaInit => Versioned!Init
<1> SUFFICES ASSUME GaiaInit PROVE Versioned!Init
  OBVIOUS
<1>1. Asked(Blank) = Nothing
  BY BlankIsRequest, StepNames DEF Asked
<1>2. req = [r \in Reqs |-> Blank] /\ info = [p \in Paths |-> Nothing]
  BY DEF GaiaInit, Init
<1> QED
  BY <1>1, <1>2 DEF Versioned!Init
-----------------------------------------------------------------------------
(* Theorems. *)

\* Two requests of GaiaApi never work on one file at once (gaia-api.ts:235).
THEOREM OneWriter == GaiaSpec => []NoTwoWriters
<1>1. IInv => NoTwoWriters
  BY StepNames DEF IInv, Apart, NoTwoWriters
<1> QED
  BY <1>1, Invariant, PTL

\* The rows of the files are a Register: whatever path a write or a deletion takes, and
\* whoever is under way besides it, it replaces only a version that its headers allow.
THEOREM RowsAreRegister == GaiaSpec => ConditionsHold
BY InitImplements, NextImplements, Invariant, PTL DEF GaiaSpec, ConditionsHold, Versioned!Spec
=============================================================================
