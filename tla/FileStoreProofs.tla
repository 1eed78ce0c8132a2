--------------------------- MODULE FileStoreProofs ---------------------------
(***************************************************************************)
(* Theorems about FileStore, for any paths, bodies and number of requests: *)
(* the tree keeps its shape, a file changes by requests of its own (or     *)
(* goes with the name of a folder that it took), and what undisturbed      *)
(* operations leave is what they were asked for.                           *)
(***************************************************************************)
EXTENDS FileStore, Integers, SequenceTheorems, TLAPS

(* The inductive invariant. *)

Request ==
  [pc : Working \cup {"idle"}, via : {"file"}, op : {"none", "write", "delete"},
   path : Paths \cup {<<>>}, body : Bodies \cup {<<>>}, depth : Nat, sent : Nat,
   linked : BOOLEAN, left : SUBSET (Folders \cup Paths), dir : Folders \cup {<<>>}, bytes : BOOLEAN,
   size : Nat, match : {Nothing}, seen : {Nothing},
   none : BOOLEAN, alone : BOOLEAN]

\* What a request holds at the step it is at.
Sound(q) ==
  /\ q.depth <= Len(q.path)
  /\ q.pc \in Working => q.path \in Paths
  /\ q.pc \in Saving => q.body \in Bodies
  /\ q.pc \in {"ls", "mkdir"} => q.depth + 1 < Len(q.path)
  /\ q.pc \in {"tidy", "list", "rmdir"} => 0 < q.depth /\ q.depth < Len(q.path)
  /\ q.pc = "pipe" => q.sent < Len(q.body)
  /\ q.pc = "setInfo" => q.size \in Lengths \cup {SizeOfFolder}

Typed ==
  /\ files \in [Paths -> Contents \cup {Nothing}]
  /\ info \in [Paths -> Rows \cup {Nothing}]
  /\ clock \in 1 .. MaxTime /\ last \in [Paths -> Bodies \cup {Nothing, Torn}]
  /\ req \in [Reqs -> Request] /\ \A r \in Reqs : Sound(req[r])

\* The folder that something is in.
Parent(p) == Folder(p, Len(p) - 1)

Tree ==
  /\ dirs \subseteq Folders /\ <<>> \in dirs
  /\ \A p \in dirs \ {<<>>} : Parent(p) \in dirs
  /\ \A p \in Paths : files[p] # Nothing => Parent(p) \in dirs /\ p \notin dirs

\* A file that is being written, and has its name, is there.
Linked == \A r \in Reqs : req[r].pc = "pipe" /\ req[r].linked => files[req[r].path] # Nothing

\* Who is alone on a path is the only one, and the others have torn it.
Alone ==
  \A r \in Reqs : req[r].pc \in Working =>
    IF req[r].alone THEN \A o \in Reqs : req[o].pc \in Working /\ req[o].path = req[r].path => o = r
                    ELSE last[req[r].path] = Torn

\* How far a request that is alone on its path has come with the file.
Kept(r) ==
  LET q == req[r]
      data == files[q.path]
  IN q.alone /\ q.path \in Plain =>
     /\ q.pc = "pipe" => /\ q.linked /\ data # Nothing /\ Len(data) = q.sent
                         /\ \A i \in 1 .. q.sent : data[i] = q.body[i]
     /\ q.pc \in {"stat", "setInfo"} => data = q.body
     /\ q.pc = "setInfo" => q.size = Len(q.body)
     /\ q.pc \in {"tidy", "list", "rmdir", "delInfo"} => data = Nothing

\* Whatever is not torn agrees, but for the file that an operation is halfway through.
Whole ==
  \A p \in Plain :
    /\ last[p] # Torn
    /\ \A o \in Reqs : req[o].pc \in Halfway => req[o].path # p
    => Agree(p)

IInv == Typed /\ Tree /\ Linked /\ Alone /\ (\A r \in Reqs : Kept(r)) /\ Whole
-----------------------------------------------------------------------------
(* Paths and folders. *)

\* A folder of a path is a path that is shorter, and its folders are the path's.
LEMMA FolderFacts ==
  ASSUME NEW p \in Seq(STRING), NEW n \in 0 .. Len(p)
  PROVE  /\ Folder(p, n) \in Seq(STRING) /\ Len(Folder(p, n)) = n
         /\ \A m \in 0 .. n : Folder(Folder(p, n), m) = Folder(p, m)
<1>1. /\ Folder(p, n) \in Seq(STRING) /\ Len(Folder(p, n)) = n
  BY SubSeqProperties, ElementOfSeq, LenProperties DEF Folder
<1>2. ASSUME NEW m \in 0 .. n
      PROVE  Folder(Folder(p, n), m) = Folder(p, m)
  <2>1. CASE m = 0
    BY <2>1, SubSeqEmpty DEF Folder
  <2>2. CASE m \in 1 .. n
    <3>1. /\ 1 \in 1 .. Len(p) /\ n \in 1 .. Len(p) /\ 1 \in 1 .. n - 1 + 1 /\ m \in 1 .. n - 1 + 1
      BY <2>2, LenProperties
    <3>2. SubSeq(SubSeq(p, 1, n), 1, m) = SubSeq(p, 1 + 1 - 1, 1 + m - 1)
      BY <3>1, SubSeqOfSubSeq
    <3> QED
      BY <3>2 DEF Folder
  <2> QED
    BY <2>1, <2>2
<1> QED
  BY <1>1, <1>2

\* What is known of a path.
LEMMA PathFacts ==
  ASSUME NEW p \in Paths
  PROVE  p \in Seq(STRING) /\ Len(p) \in Nat \ {0} /\ Folder(p, Len(p)) = p
BY FileAssumption, SubSeqFull, LenProperties DEF Folder

\* The folders above a path are folders, and are in one another.
LEMMA FolderOfPath ==
  ASSUME NEW p \in Paths, NEW n \in 0 .. Len(p) - 1
  PROVE  /\ Folder(p, n) \in Folders /\ IsFolderOf(Folder(p, n), p) /\ Len(Folder(p, n)) = n
         /\ n > 0 => Parent(Folder(p, n)) = Folder(p, n - 1)
<1>1. p \in Seq(STRING) /\ n \in 0 .. Len(p) /\ Len(p) \in Nat
  BY PathFacts
<1>2. Len(Folder(p, n)) = n /\ \A m \in 0 .. n : Folder(Folder(p, n), m) = Folder(p, m)
  BY <1>1, FolderFacts
<1> QED
  BY <1>1, <1>2 DEF Folders, IsFolderOf, Parent

\* What has a parent is below it.
LEMMA ParentIsFolder ==
  ASSUME NEW p \in Seq(STRING), Len(p) > 0
  PROVE  IsFolderOf(Parent(p), p)
<1>1. Len(p) \in Nat /\ Len(p) - 1 \in 0 .. Len(p)
  BY LenProperties
<1>2. Len(Parent(p)) = Len(p) - 1
  BY <1>1, FolderFacts DEF Parent
<1> QED
  BY <1>1, <1>2 DEF IsFolderOf, Parent

\* A folder is a path itself, and nonempty if it is not the root.
LEMMA FoldersArePaths ==
  ASSUME NEW d \in Folders
  PROVE  d \in Seq(STRING) /\ Len(d) \in Nat /\ (d # <<>> => Len(d) > 0)
<1>1. PICK p \in Paths : \E n \in 0 .. Len(p) - 1 : d = Folder(p, n)
  BY DEF Folders
<1>2. PICK n \in 0 .. Len(p) - 1 : d = Folder(p, n)
  BY <1>1
<1>3. d \in Seq(STRING)
  BY <1>2, PathFacts, FolderFacts
<1> QED
  BY <1>3, EmptySeq, LenProperties

\* A plain path is no folder.
LEMMA PlainIsNoFolder ==
  ASSUME NEW p \in Plain
  PROVE  p \in Paths /\ p \notin Folders /\ \A o \in Paths : ~IsFolderOf(p, o)
BY FolderOfPath DEF Plain, Folders
-----------------------------------------------------------------------------
(* What is in files. *)

\* The contents of files are sequences of bytes, as long as a body or shorter.
LEMMA ContentsAreSeqs ==
  /\ \A data \in Contents : data \in Seq(Bytes) /\ Len(data) \in Lengths /\ data # Nothing
  /\ \A data \in Seq(Bytes) : Len(data) \in Lengths => data \in Contents
  /\ Lengths \subseteq Nat
<1>1. Lengths \subseteq Nat
  BY DEF Lengths
<1>2. ASSUME NEW data \in Contents
      PROVE  data \in Seq(Bytes) /\ Len(data) \in Lengths
  <2>1. PICK n \in Lengths : data \in [1 .. n -> Bytes]
    BY DEF Contents
  <2> QED
    BY <1>1, <2>1
<1>3. \A data \in Seq(Bytes) : data # Nothing
  BY Zenon, NothingAssumption
<1>4. ASSUME NEW data \in Seq(Bytes), Len(data) \in Lengths
      PROVE  data \in Contents
  BY <1>4, LenProperties DEF Contents
<1> QED
  BY <1>1, <1>2, <1>3, <1>4

\* So are bodies.
LEMMA BodiesAreContents ==
  ASSUME NEW b \in Bodies
  PROVE  /\ b \in Contents /\ b \in Seq(Bytes) /\ Len(b) \in Nat /\ b # Nothing
         /\ \A n \in 0 .. Len(b) : n \in Lengths
<1>1. b \in Seq(Bytes) /\ Len(b) \in Nat
  BY BodiesAssumption, LenProperties
<1>2. \A n \in 0 .. Len(b) : n \in Lengths
  BY DEF Lengths
<1>3. Len(b) \in Lengths
  BY <1>1, <1>2
<1>4. b \in Contents
  BY <1>1, <1>3, ContentsAreSeqs
<1> QED
  BY <1>1, <1>2, <1>4, ContentsAreSeqs

\* A chunk goes where the last one ended; the file is as long as is needed.
LEMMA PutFacts ==
  ASSUME NEW b \in Bodies, NEW i \in 1 .. Len(b), NEW data \in Seq(Bytes), Len(data) \in Lengths
  PROVE  /\ Put(data, i, b[i]) \in Contents
         /\ Len(data) = i - 1 =>
              /\ Len(Put(data, i, b[i])) = i /\ Put(data, i, b[i])[i] = b[i]
              /\ \A n \in 1 .. i - 1 : Put(data, i, b[i])[n] = data[n]
<1> DEFINE m == IF i > Len(data) THEN i ELSE Len(data)
           new == Put(data, i, b[i])
<1>1. b \in Seq(Bytes) /\ Len(b) \in Nat /\ b[i] \in Bytes /\ Hole \in Bytes
  BY BodiesAreContents, ElementOfSeq DEF Bytes
<1>2. Len(data) \in Nat /\ data \in [1 .. Len(data) -> Bytes]
  BY LenProperties
<1>3. m \in Nat /\ m \in Lengths
  BY <1>1, <1>2, BodiesAreContents
<1>4. new = [n \in 1 .. m |-> IF n = i THEN b[i] ELSE IF n <= Len(data) THEN data[n] ELSE Hole]
  BY DEF Put
<1> HIDE DEF m
<1>5. new \in [1 .. m -> Bytes]
  BY <1>1, <1>2, <1>3, <1>4
<1>6. new \in Contents
  BY <1>3, <1>5 DEF Contents
<1>7. ASSUME Len(data) = i - 1
      PROVE  Len(new) = i /\ new[i] = b[i] /\ \A n \in 1 .. i - 1 : new[n] = data[n]
  <2>1. m = i
    BY <1>2, <1>7 DEF m
  <2> HIDE DEF new
  <2>2. Len(new) = i
    BY <1>3, <1>5, <2>1
  <2> QED
    BY <1>4, <1>7, <2>1, <2>2
<1> QED
  BY <1>6, <1>7

\* A file that has all the chunks of a body is the body.
LEMMA AllChunks ==
  ASSUME NEW b \in Bodies, NEW data \in Contents, Len(data) = Len(b),
         \A i \in 1 .. Len(b) : data[i] = b[i]
  PROVE  data = b
BY ContentsAreSeqs, BodiesAreContents, SeqEqual
-----------------------------------------------------------------------------
(* A step of a request. *)

\* What becomes of another request o: it may lose the name of its file, no more.
Same(o, r) ==
  /\ req'[o] \in Request
  /\ req'[o].pc = req[o].pc /\ req'[o].path = req[o].path /\ req'[o].body = req[o].body
  /\ req'[o].depth = req[o].depth /\ req'[o].sent = req[o].sent
  /\ req'[o].size = req[o].size /\ req'[o].alone = req[o].alone
  /\ \/ req'[o].linked = req[o].linked
     \/ req[o].path = req[r].path \/ IsFolderOf(req[o].path, req[r].path)

\* What a request goes on as: nothing, or the same operation.
Onward(q, n) ==
  /\ n \in Request /\ Sound(n)
  /\ \/ n.pc = "idle"
     \/ n.pc \in Working /\ n.path = q.path /\ n.alone = q.alone

DataTyped ==
  /\ files \in [Paths -> Contents \cup {Nothing}]
  /\ info \in [Paths -> Rows \cup {Nothing}]
  /\ clock \in 1 .. MaxTime /\ last \in [Paths -> Bodies \cup {Nothing, Torn}]

\* What is not r's stays, but for a file that has the name of a folder of r's path.
OthersStay(r) ==
  \A p \in Paths \ {req[r].path} :
    /\ last'[p] = last[p] /\ info'[p] = info[p]
    /\ files'[p] = files[p] \/ IsFolderOf(p, req[r].path)

\* What r says of its own path after the step.
Leaves(r) ==
  IF req[r].alone
  THEN req[r].path \in Plain =>
         /\ Kept(r)'
         /\ req'[r].pc \notin Halfway =>
              \A p \in {req[r].path} : last'[p] # Torn => Agree(p)'
  ELSE last'[req[r].path] \in {last[req[r].path], Torn}

Effect(r) ==
  /\ req[r].pc \in Working /\ req' \in [Reqs -> Request]
  /\ \A o \in Reqs \ {r} : Same(o, r)
  /\ Onward(req[r], req'[r])
  /\ OthersStay(r) /\ DataTyped' /\ Tree' /\ Linked' /\ Leaves(r)

\* The names of the steps.
LEMMA StepNames ==
  /\ "idle" \notin Working /\ Halfway \subseteq Working
  /\ {"ls", "mkdir", "open", "remove"} \cap Halfway = {}
  /\ Saving \cap Deleting = {} /\ Working = Saving \cup Deleting
BY DEF Working, Halfway, Saving, Deleting

\* A free slot holds nothing.
LEMMA BlankFacts == Blank \in Request /\ Sound(Blank) /\ Blank.pc = "idle" /\ Blank.alone = FALSE
<1>1. Blank.pc = "idle" /\ Blank.alone = FALSE /\ Blank.depth = 0 /\ Blank.path = <<>>
  BY DEF Blank
<1>2. Sound(Blank)
  <2>1. Len(Blank.path) = 0
    BY <1>1, EmptySeq
  <2> QED
    BY <1>1, <2>1 DEF Sound, Working, Saving, Deleting
<1> QED
  BY <1>1, <1>2 DEF Blank, Request

\* Where a working request is, and what it knows there.
LEMMA AtStep ==
  ASSUME IInv, NEW r \in Reqs, req[r].pc \in Working
  PROVE  /\ req[r] \in Request /\ Sound(req[r]) /\ req[r].path \in Paths
         /\ req[r].path \in Seq(STRING) /\ Len(req[r].path) \in Nat \ {0}
         /\ After(req[r]) = Blank
<1>1. req[r] \in Request /\ Sound(req[r])
  BY DEF IInv, Typed
<1>2. req[r].path \in Paths /\ req[r].via = "file"
  BY <1>1 DEF Sound, Request
<1> QED
  BY <1>1, <1>2, PathFacts DEF After

\* A request that moves on by itself leaves the others as they are.
LEMMA GoKeeps ==
  ASSUME req \in [Reqs -> Request], NEW r \in Reqs, NEW n \in Request, Go(r, n)
  PROVE  /\ req' \in [Reqs -> Request] /\ req'[r] = n
         /\ \A o \in Reqs \ {r} : req'[o] = req[o] /\ Same(o, r)
BY DEF Go, Same

\* Where nothing was begun, file and row are in agreement.
LEMMA NotBegun ==
  ASSUME IInv, NEW r \in Reqs, req[r].pc \in Working \ Halfway, req[r].alone,
         req[r].path \in Plain, last[req[r].path] # Torn
  PROVE  Agree(req[r].path)
<1>1. \A o \in Reqs : req[o].pc \in Halfway => req[o].path # req[r].path
  BY StepNames DEF IInv, Alone
<1> QED
  BY <1>1 DEF IInv, Whole

\* No file is lost to those who write it by a step that leaves the files.
LEMMA LinkedStays ==
  ASSUME Linked, NEW r \in Reqs, files' = files, \A o \in Reqs \ {r} : req'[o] = req[o],
         req'[r].pc = "pipe" => ~req'[r].linked
  PROVE  Linked'
<1> SUFFICES ASSUME NEW o \in Reqs, req'[o].pc = "pipe", req'[o].linked
             PROVE  files'[req'[o].path] # Nothing
  BY DEF Linked
<1>1. o # r /\ req'[o] = req[o]
  OBVIOUS
<1> QED
  BY <1>1 DEF Linked

\* A step that changes nothing but where the request is.
LEMMA MoveEffect ==
  ASSUME IInv, NEW r \in Reqs, req[r].pc \in Working, NEW n, Onward(req[r], n), Go(r, n),
         UNCHANGED <<files, info, clock, last>>, Tree', n.pc = "pipe" => ~n.linked,
         req[r].alone /\ req[r].path \in Plain =>
           Kept(r)' /\ (n.pc \notin Halfway => req[r].pc \notin Halfway)
  PROVE  Effect(r)
<1>1. /\ req' \in [Reqs -> Request] /\ req'[r] = n
      /\ \A o \in Reqs \ {r} : req'[o] = req[o] /\ Same(o, r)
  BY GoKeeps DEF IInv, Typed, Onward
<1>2. OthersStay(r) /\ DataTyped'
  BY DEF OthersStay, DataTyped, IInv, Typed
<1>3. Leaves(r)
  BY <1>1, NotBegun DEF Leaves, Agree
<1>4. Linked'
  BY <1>1, LinkedStays DEF IInv
<1> QED
  BY <1>1, <1>2, <1>3, <1>4 DEF Effect

\* What holds of a request that is not halfway: nothing is expected of its file.
LEMMA KeptNot ==
  ASSUME NEW r \in Reqs, req'[r].pc \notin Halfway
  PROVE  Kept(r)'
BY DEF Kept, Halfway

\* A failure ends the operation, and tears what it was halfway through.
LEMMA FailEffect ==
  ASSUME IInv, NEW r \in Reqs, req[r].pc \in Working, Fail(r)
  PROVE  Effect(r)
<1>1. /\ Go(r, Blank) /\ UNCHANGED <<dirs, files, info, clock>>
      /\ last' = IF req[r].pc \in Halfway THEN [last EXCEPT ![req[r].path] = Torn] ELSE last
      /\ req[r].path \in Paths
  BY AtStep DEF Fail
<1>2. /\ req' \in [Reqs -> Request] /\ req'[r] = Blank
      /\ \A o \in Reqs \ {r} : req'[o] = req[o] /\ Same(o, r)
  BY <1>1, BlankFacts, GoKeeps DEF IInv, Typed
<1>3. OthersStay(r) /\ DataTyped' /\ Tree'
  BY <1>1 DEF OthersStay, DataTyped, IInv, Typed, Tree
<1>4. Onward(req[r], req'[r]) /\ req'[r].pc \notin Halfway /\ Linked'
  <2>1. req'[r].pc = "idle" /\ req'[r].pc # "pipe"
    BY <1>2, BlankFacts
  <2> QED
    BY <1>1, <1>2, <2>1, BlankFacts, StepNames, LinkedStays DEF Onward, IInv
<1>5. Leaves(r)
  <2>1. CASE req[r].pc \in Halfway
    <3>1. last'[req[r].path] = Torn
      BY <1>1, <2>1 DEF IInv, Typed
    <3> QED
      BY <1>4, <3>1, KeptNot DEF Leaves
  <2>2. CASE req[r].pc \notin Halfway
    <3>1. last' = last
      BY <1>1, <2>2
    <3> QED
      BY <1>1, <1>4, <2>2, <3>1, KeptNot, NotBegun DEF Leaves, Agree
  <2> QED
    BY <2>1, <2>2
<1> QED
  BY <1>2, <1>3, <1>4, <1>5 DEF Effect
-----------------------------------------------------------------------------
(* FileApi.write, step by step. *)

\* ensurePath's way down.
LEMMA DescendFacts ==
  ASSUME NEW q \in Request, q.path \in Paths, q.body \in Bodies, NEW n \in Nat, n < Len(q.path)
  PROVE  /\ Descend(q, n) \in Request /\ Sound(Descend(q, n))
         /\ Descend(q, n).pc \in {"ls", "open"}
         /\ Descend(q, n).path = q.path /\ Descend(q, n).alone = q.alone
<1> DEFINE to == IF n + 1 = Len(q.path) THEN "open" ELSE "ls"
           m == Descend(q, n)
<1>1. m = [q EXCEPT !.depth = n, !.pc = to] /\ to \in {"ls", "open"}
  BY DEF Descend
<1>2. Len(q.path) \in Nat
  BY PathFacts
<1>3. to = "ls" => n + 1 < Len(q.path)
  BY <1>2
<1>4. to \in Working
  BY DEF Working, Saving
<1> HIDE DEF to
<1>5. m \in Request
  BY <1>1, <1>4 DEF Request
<1>6. /\ m.pc = to /\ m.path = q.path /\ m.body = q.body /\ m.depth = n /\ m.alone = q.alone
  BY <1>1 DEF Request
<1>7. Sound(m)
  BY <1>1, <1>2, <1>3, <1>6 DEF Sound
<1> QED
  BY <1>1, <1>5, <1>6, <1>7

\* Looking for a folder.
LEMMA LsEffect ==
  ASSUME IInv, NEW r \in Reqs, Ls(r)
  PROVE  Effect(r)
<1> DEFINE q == req[r]
<1>1. q.pc = "ls" /\ q.pc \in Working /\ q.pc \in Saving /\ q.pc \notin Halfway
  BY StepNames DEF Ls, At, Saving
<1>2. /\ q \in Request /\ Sound(q) /\ q.path \in Paths /\ Len(q.path) \in Nat
      /\ q.depth \in Nat /\ q.depth + 1 < Len(q.path) /\ q.body \in Bodies
  BY <1>1, AtStep DEF Sound, Request
<1>3. CASE Fail(r)
  BY <1>1, <1>3, FailEffect
<1>4. ASSUME NEW n, Go(r, n), UNCHANGED <<disk, info, clock, last>>,
             n \in {Descend(q, q.depth + 1), [q EXCEPT !.pc = "mkdir"]}
      PROVE  Effect(r)
  <2>1. n \in Request /\ Sound(n) /\ n.pc \in {"ls", "open", "mkdir"} /\ n.path = q.path /\ n.alone = q.alone
    <3>1. CASE n = Descend(q, q.depth + 1)
      BY <1>2, <3>1, DescendFacts
    <3>2. CASE n = [q EXCEPT !.pc = "mkdir"]
      <4>1. /\ n.pc = "mkdir" /\ n.path = q.path /\ n.body = q.body /\ n.depth = q.depth /\ n.alone = q.alone
        BY <1>2, <3>2 DEF Request
      <4>2. "mkdir" \in Working
        BY DEF Working, Saving
      <4>3. n \in Request
        BY <1>2, <3>2, <4>2 DEF Request
      <4> QED
        BY <1>2, <4>1, <4>3 DEF Sound
    <3> QED
      BY <1>4, <3>1, <3>2
  <2>2. n.pc \in Working /\ n.pc \notin Halfway /\ n.pc # "pipe"
    BY <2>1 DEF Working, Saving, Halfway
  <2>3. Onward(q, n)
    BY <2>1, <2>2 DEF Onward
  <2>4. Kept(r)'
    BY <1>4, <2>1, <2>2, GoKeeps, KeptNot DEF IInv, Typed
  <2>5. Tree'
    BY <1>4 DEF IInv, Tree, disk
  <2> QED
    BY <1>1, <1>4, <2>2, <2>3, <2>4, <2>5, MoveEffect DEF disk
<1> QED
  BY <1>3, <1>4 DEF Ls

\* Making one, in a folder that is there.
LEMMA MkdirEffect ==
  ASSUME IInv, NEW r \in Reqs, Mkdir(r)
  PROVE  Effect(r)
<1> DEFINE q == req[r]
           new == Folder(q.path, q.depth + 1)
           n == Descend(q, q.depth + 1)
<1>1. q.pc = "mkdir" /\ q.pc \in Working /\ q.pc \in Saving /\ q.pc \notin Halfway
  BY StepNames DEF Mkdir, At, Saving
<1>2. /\ q \in Request /\ Sound(q) /\ q.path \in Paths /\ Len(q.path) \in Nat
      /\ q.depth \in Nat /\ q.depth + 1 < Len(q.path) /\ q.body \in Bodies
  BY <1>1, AtStep DEF Sound, Request
<1>3. CASE Fail(r)
  BY <1>1, <1>3, FailEffect
<1>4. CASE /\ Folder(q.path, q.depth) \in dirs /\ ~Exists(new)
           /\ dirs' = dirs \cup {new}
           /\ Go(r, n) /\ UNCHANGED <<files, info, clock, last>>
  <2>1. n \in Request /\ Sound(n) /\ n.pc \in {"ls", "open"} /\ n.path = q.path /\ n.alone = q.alone
    BY <1>2, DescendFacts
  <2>2. n.pc \in Working /\ n.pc \notin Halfway /\ n.pc # "pipe"
    BY <2>1 DEF Working, Saving, Halfway
  <2>3. Onward(q, n)
    BY <2>1, <2>2 DEF Onward
  <2>4. Kept(r)'
    BY <1>4, <2>1, <2>2, GoKeeps, KeptNot DEF IInv, Typed
  <2>5. new \in Folders /\ Parent(new) = Folder(q.path, q.depth)
    <3>1. q.depth + 1 \in 0 .. Len(q.path) - 1 /\ q.depth + 1 > 0 /\ q.depth + 1 - 1 = q.depth
      BY <1>2
    <3> QED
      BY <1>2, <3>1, FolderOfPath
  <2>6. \A p \in Paths : files[p] # Nothing => p # new
    BY <1>4 DEF Exists, IsFile
  <2> HIDE DEF new, n
  <2>7. Tree'
    BY <1>4, <2>5, <2>6 DEF IInv, Tree
  <2> QED
    BY <1>1, <1>4, <2>2, <2>3, <2>4, <2>7, MoveEffect
<1> QED
  BY <1>3, <1>4 DEF Mkdir

\* The body's way to the disk: after n chunks.
LEMMA PipedFacts ==
  ASSUME NEW q \in Request, q.path \in Paths, q.body \in Bodies, q.depth <= Len(q.path),
         NEW n \in Nat, n <= Len(q.body)
  PROVE  /\ Piped(q, n) \in Request /\ Sound(Piped(q, n))
         /\ Piped(q, n).pc = IF n = Len(q.body) THEN "stat" ELSE "pipe"
         /\ Piped(q, n).path = q.path /\ Piped(q, n).alone = q.alone /\ Piped(q, n).body = q.body
         /\ Piped(q, n).linked = q.linked /\ Piped(q, n).sent = n
<1> DEFINE to == IF n = Len(q.body) THEN "stat" ELSE "pipe"
           m == Piped(q, n)
<1>1. m = [q EXCEPT !.sent = n, !.pc = to] /\ to \in {"stat", "pipe"}
  BY DEF Piped
<1>2. Len(q.body) \in Nat
  BY BodiesAreContents
<1>3. to = "pipe" => n < Len(q.body)
  BY <1>2
<1>4. to \in Working
  BY DEF Working, Saving
<1> HIDE DEF to
<1>5. m \in Request
  BY <1>1, <1>4 DEF Request
<1>6. /\ m.pc = to /\ m.path = q.path /\ m.body = q.body /\ m.depth = q.depth /\ m.alone = q.alone
      /\ m.linked = q.linked /\ m.sent = n
  BY <1>1 DEF Request
<1>7. Sound(m)
  BY <1>1, <1>3, <1>6 DEF Sound
<1> QED
  BY <1>5, <1>6, <1>7 DEF to

\* A step that writes to r's own file.
LEMMA FilesEffect ==
  ASSUME IInv, NEW r \in Reqs, req[r].pc \in Working, NEW n, Onward(req[r], n), Go(r, n),
         UNCHANGED <<dirs, info, clock, last>>,
         NEW data \in Contents, files' = [files EXCEPT ![req[r].path] = data],
         Parent(req[r].path) \in dirs, req[r].path \notin dirs,
         req[r].alone /\ req[r].path \in Plain => Kept(r)' /\ n.pc \in Halfway
  PROVE  Effect(r)
<1>1. /\ req' \in [Reqs -> Request] /\ req'[r] = n
      /\ \A o \in Reqs \ {r} : req'[o] = req[o] /\ Same(o, r)
  BY GoKeeps DEF IInv, Typed, Onward
<1>2. data # Nothing /\ req[r].path \in Paths
  BY ContentsAreSeqs, AtStep
<1>3. files' \in [Paths -> Contents \cup {Nothing}] /\ files'[req[r].path] = data
      /\ \A p \in Paths \ {req[r].path} : files'[p] = files[p]
  BY <1>2 DEF IInv, Typed
<1>4. OthersStay(r) /\ DataTyped'
  BY <1>3 DEF OthersStay, DataTyped, IInv, Typed
<1>5. Tree'
  BY <1>3 DEF IInv, Tree
<1>6. Leaves(r)
  BY <1>1 DEF Leaves
<1>7. Linked'
  <2>1. \A o \in Reqs : req'[o].pc = "pipe" => req'[o].path \in Paths
    <3>1. n.pc = "pipe" => n.path \in Paths
      BY DEF Onward, Sound, Working, Saving
    <3>2. \A o \in Reqs : req[o].pc = "pipe" => req[o].path \in Paths
      BY DEF IInv, Typed, Sound, Working, Saving
    <3> QED
      BY <1>1, <3>1, <3>2
  <2>2. n.pc = "pipe" => n.path = req[r].path
    BY DEF Onward
  <2> QED
    BY <1>1, <1>2, <1>3, <2>1, <2>2 DEF Linked, IInv
<1> QED
  BY <1>1, <1>4, <1>5, <1>6, <1>7 DEF Effect

\* Opening the file empties it.
LEMMA OpenEffect ==
  ASSUME IInv, NEW r \in Reqs, Open(r)
  PROVE  Effect(r)
<1> DEFINE q == req[r]
           l == [q EXCEPT !.linked = TRUE]
           n == Piped(l, 0)
<1>1. q.pc = "open" /\ q.pc \in Working /\ q.pc \in Saving
  BY StepNames DEF Open, At, Saving
<1>2. q \in Request /\ Sound(q) /\ q.path \in Paths /\ q.body \in Bodies /\ q.depth <= Len(q.path)
  BY <1>1, AtStep DEF Sound
<1>3. CASE Fail(r)
  BY <1>1, <1>3, FailEffect
<1>4. CASE /\ Folder(q.path, Len(q.path) - 1) \in dirs /\ q.path \notin dirs
           /\ files' = [files EXCEPT ![q.path] = Truncated(@)]
           /\ Go(r, n) /\ UNCHANGED <<dirs, info, clock, last>>
  <2>1. /\ l \in Request /\ l.path = q.path /\ l.alone = q.alone /\ l.body = q.body /\ l.depth = q.depth
        /\ l.linked = TRUE
    BY <1>2 DEF Request
  <2>2. 0 \in Nat /\ 0 <= Len(l.body) /\ 0 \in Lengths
    BY <1>2, <2>1, BodiesAreContents
  <2> HIDE DEF l
  <2>3. /\ n \in Request /\ Sound(n) /\ n.path = q.path /\ n.alone = q.alone /\ n.body = q.body
        /\ n.linked = TRUE /\ n.sent = 0 /\ n.pc = IF 0 = Len(q.body) THEN "stat" ELSE "pipe"
    BY <1>2, <2>1, <2>2, PipedFacts
  <2> HIDE DEF n
  <2>4. n.pc \in Working /\ n.pc \in Halfway
    BY <2>3 DEF Working, Saving, Halfway
  <2>5. Onward(q, n)
    BY <2>3, <2>4 DEF Onward
  <2> DEFINE empty == <<>>
  <2>6. empty \in Contents /\ Len(empty) = 0 /\ empty \in Seq(Bytes)
    BY <2>2, EmptySeq, ContentsAreSeqs
  <2> HIDE DEF empty
  <2>7. files' = [files EXCEPT ![q.path] = empty]
    BY <1>4 DEF Truncated, empty
  <2>8. files'[q.path] = empty /\ req'[r] = n /\ empty # Nothing
    BY <1>2, <1>4, <2>3, <2>6, <2>7, GoKeeps, ContentsAreSeqs DEF IInv, Typed
  <2>9. Kept(r)'
    <3>1. CASE n.pc = "pipe"
      BY <2>3, <2>6, <2>8, <3>1 DEF Kept
    <3>2. CASE n.pc = "stat"
      <4>1. Len(q.body) = Len(empty)
        BY <2>3, <2>6, <3>2
      <4>2. empty = q.body
        BY <1>2, <2>6, <4>1, BodiesAreContents, AllChunks
      <4> QED
        BY <2>3, <2>8, <3>2, <4>2 DEF Kept
    <3> QED
      BY <2>3, <3>1, <3>2
  <2> QED
    BY <1>1, <1>4, <2>4, <2>5, <2>6, <2>7, <2>9, FilesEffect DEF Parent
<1> QED
  BY <1>3, <1>4 DEF Open

\* Each chunk goes behind the last one.
LEMMA PipeEffect ==
  ASSUME IInv, NEW r \in Reqs, Pipe(r)
  PROVE  Effect(r)
<1> DEFINE q == req[r]
           n == Piped(q, q.sent + 1)
           old == files[q.path]
           k == q.sent + 1
           data == Put(old, k, q.body[k])
<1>1. q.pc = "pipe" /\ q.pc \in Working /\ q.pc \in Saving /\ q.pc \in Halfway
  BY StepNames DEF Pipe, At, Saving, Halfway
<1>2. /\ q \in Request /\ Sound(q) /\ q.path \in Paths /\ q.body \in Bodies /\ q.depth <= Len(q.path)
      /\ q.sent \in Nat /\ q.sent < Len(q.body) /\ Len(q.body) \in Nat
  BY <1>1, AtStep, BodiesAreContents DEF Sound, Request
<1>3. /\ n \in Request /\ Sound(n) /\ n.path = q.path /\ n.alone = q.alone /\ n.body = q.body
      /\ n.linked = q.linked /\ n.sent = q.sent + 1
      /\ n.pc = IF q.sent + 1 = Len(q.body) THEN "stat" ELSE "pipe"
  <2>1. q.sent + 1 \in Nat /\ q.sent + 1 <= Len(q.body)
    BY <1>2
  <2> QED
    BY <1>2, <2>1, PipedFacts
<1>4. Go(r, n) /\ UNCHANGED <<dirs, info, clock, last>>
  BY DEF Pipe
<1>5. files' = IF q.linked THEN [files EXCEPT ![q.path] = data] ELSE files
  BY DEF Pipe
<1>6. q.linked => old \in Contents /\ old # Nothing
  BY <1>1, <1>2 DEF IInv, Linked, Typed
<1> HIDE DEF n
<1>7. Onward(q, n) /\ n.pc \in Halfway
  BY <1>3 DEF Onward, Working, Saving, Halfway
<1>8. req'[r] = n
  BY <1>3, <1>4, GoKeeps DEF IInv, Typed
<1>9. CASE q.linked
  <2>1. /\ k \in 1 .. Len(q.body) /\ k - 1 = q.sent /\ old \in Seq(Bytes) /\ Len(old) \in Lengths
    BY <1>2, <1>6, <1>9, ContentsAreSeqs
  <2> HIDE DEF k
  <2>2. /\ data \in Contents
        /\ Len(old) = k - 1 =>
             /\ Len(data) = k /\ data[k] = q.body[k]
             /\ \A i \in 1 .. k - 1 : data[i] = old[i]
    BY <1>2, <2>1, PutFacts
  <2> HIDE DEF data
  <2>3. files' = [files EXCEPT ![q.path] = data] /\ files'[q.path] = data
    BY <1>2, <1>5, <1>9 DEF IInv, Typed
  <2>4. Parent(q.path) \in dirs /\ q.path \notin dirs
    BY <1>2, <1>6, <1>9 DEF IInv, Tree
  <2>5. ASSUME q.alone, q.path \in Plain
        PROVE  Kept(r)'
    <3>1. Len(old) = q.sent /\ \A i \in 1 .. q.sent : old[i] = q.body[i]
      BY <1>1, <2>5 DEF IInv, Kept
    <3>2. Len(data) = k /\ data[k] = q.body[k] /\ \A i \in 1 .. k - 1 : data[i] = q.body[i]
      BY <2>1, <2>2, <3>1
    <3>3. \A i \in 1 .. k : data[i] = q.body[i]
      BY <2>1, <3>2
    <3>4. n.sent = k /\ n.pc = IF k = Len(q.body) THEN "stat" ELSE "pipe"
      BY <1>3 DEF k
    <3>5. CASE n.pc = "pipe"
      <4>1. data # Nothing
        BY <2>2, ContentsAreSeqs
      <4>2. /\ req'[r].pc = "pipe" /\ req'[r].path = q.path /\ req'[r].body = q.body
            /\ req'[r].linked /\ req'[r].sent = k
        BY <1>3, <1>8, <1>9, <3>4, <3>5
      <4>3. files'[req'[r].path] = data
        BY <2>3, <4>2
      <4> QED
        BY <3>2, <3>3, <4>1, <4>2, <4>3 DEF Kept
    <3>6. CASE n.pc = "stat"
      <4>1. Len(data) = Len(q.body)
        BY <3>2, <3>4, <3>6
      <4>2. \A i \in 1 .. Len(q.body) : data[i] = q.body[i]
        BY <3>2, <3>3, <4>1
      <4>3. data = q.body
        BY <1>2, <2>2, <4>1, <4>2, AllChunks
      <4>4. req'[r].pc = "stat" /\ req'[r].path = q.path /\ req'[r].body = q.body
        BY <1>3, <1>8, <3>6
      <4>5. files'[req'[r].path] = req'[r].body
        BY <2>3, <4>3, <4>4
      <4> QED
        BY <4>4, <4>5 DEF Kept
    <3> QED
      BY <3>4, <3>5, <3>6
  <2> QED
    BY <1>1, <1>4, <1>7, <2>2, <2>3, <2>4, <2>5, FilesEffect
<1>10. CASE ~q.linked
  <2>1. Tree'
    BY <1>4, <1>5, <1>10 DEF IInv, Tree
  <2>2. ~(q.alone /\ q.path \in Plain)
    BY <1>1, <1>10 DEF IInv, Kept
  <2> QED
    BY <1>1, <1>3, <1>4, <1>5, <1>7, <1>10, <2>1, <2>2, MoveEffect
<1> QED
  BY <1>9, <1>10

\* An upload that breaks off fails.
LEMMA AbortEffect ==
  ASSUME IInv, NEW r \in Reqs, Abort(r)
  PROVE  Effect(r)
<1>1. req[r].pc \in Working /\ Fail(r)
  BY DEF Abort, At, Working, Saving
<1> QED
  BY <1>1, FailEffect

\* What stat tells is the file's length.
LEMMA StatEffect ==
  ASSUME IInv, NEW r \in Reqs, Stat(r)
  PROVE  Effect(r)
<1> DEFINE q == req[r]
           size == IF IsFile(q.path) THEN Len(files[q.path]) ELSE SizeOfFolder
           n == [q EXCEPT !.pc = "setInfo", !.size = size]
<1>1. q.pc = "stat" /\ q.pc \in Working /\ q.pc \in Saving /\ q.pc \in Halfway
  BY StepNames DEF Stat, At, Saving, Halfway
<1>2. q \in Request /\ Sound(q) /\ q.path \in Paths /\ q.body \in Bodies
  BY <1>1, AtStep DEF Sound
<1>3. CASE Fail(r)
  BY <1>1, <1>3, FailEffect
<1>4. CASE Go(r, n) /\ UNCHANGED <<disk, info, clock, last>>
  <2>1. size \in Lengths \cup {SizeOfFolder} /\ size \in Nat
    BY <1>2, ContentsAreSeqs DEF IInv, Typed, IsFile, SizeOfFolder
  <2>2. q.alone /\ q.path \in Plain => files[q.path] = q.body /\ size = Len(q.body)
    BY <1>1, <1>2, BodiesAreContents DEF IInv, Kept, IsFile
  <2> HIDE DEF size
  <2>3. /\ n.pc = "setInfo" /\ n.path = q.path /\ n.body = q.body /\ n.depth = q.depth
        /\ n.alone = q.alone /\ n.size = size
    BY <1>2 DEF Request
  <2>4. n.pc \in Working /\ n.pc \in Halfway
    BY <2>3 DEF Working, Saving, Halfway
  <2>5. n \in Request
    BY <1>2, <2>1, <2>4 DEF Request
  <2> HIDE DEF n
  <2>6. Onward(q, n)
    BY <1>2, <2>1, <2>3, <2>4, <2>5 DEF Onward, Sound
  <2>7. Tree'
    BY <1>4 DEF IInv, Tree, disk
  <2>8. req'[r] = n
    BY <1>4, <2>5, GoKeeps DEF IInv, Typed
  <2>9. q.alone /\ q.path \in Plain => Kept(r)'
    BY <1>4, <2>2, <2>3, <2>8 DEF Kept, disk
  <2> QED
    BY <1>1, <1>4, <2>3, <2>4, <2>6, <2>7, <2>9, MoveEffect DEF disk
<1> QED
  BY <1>3, <1>4 DEF Stat

\* An operation that succeeds leaves a row for what it did, or none.
LEMMA SucceedEffect ==
  ASSUME IInv, NEW r \in Reqs, req[r].pc \in Working, NEW result \in Bodies \cup {Nothing},
         NEW row \in Rows \cup {Nothing}, Succeed(r, result), UNCHANGED <<disk, clock>>,
         info' = [info EXCEPT ![req[r].path] = row],
         req[r].alone /\ req[r].path \in Plain =>
           /\ files[req[r].path] = result
           /\ row = Nothing <=> result = Nothing
           /\ row # Nothing => row.size = Len(result)
  PROVE  Effect(r)
<1> DEFINE p == req[r].path
           end == IF req[r].alone THEN result ELSE Torn
<1>1. /\ Go(r, Blank) /\ p \in Paths
      /\ last' = [last EXCEPT ![p] = end] /\ end \in Bodies \cup {Nothing, Torn}
  BY AtStep DEF Succeed
<1>2. /\ req' \in [Reqs -> Request] /\ req'[r] = Blank
      /\ \A o \in Reqs \ {r} : req'[o] = req[o] /\ Same(o, r)
  BY <1>1, BlankFacts, GoKeeps DEF IInv, Typed
<1>3. UNCHANGED <<files, dirs, clock>>
  BY DEF disk
<1>4. /\ last' \in [Paths -> Bodies \cup {Nothing, Torn}] /\ last'[p] = end
      /\ info' \in [Paths -> Rows \cup {Nothing}] /\ info'[p] = row
      /\ \A o \in Paths \ {p} : last'[o] = last[o] /\ info'[o] = info[o]
  BY <1>1 DEF IInv, Typed
<1>5. OthersStay(r) /\ DataTyped' /\ Tree'
  BY <1>3, <1>4 DEF OthersStay, DataTyped, IInv, Typed, Tree
<1>6. req'[r].pc = "idle" /\ Onward(req[r], req'[r])
  BY <1>2, BlankFacts DEF Onward
<1>7. Linked'
  BY <1>2, <1>3, <1>6, LinkedStays DEF IInv
<1>8. Leaves(r)
  <2>1. CASE ~req[r].alone
    BY <1>4, <2>1 DEF Leaves
  <2>2. CASE req[r].alone
    <3>1. Kept(r)'
      BY <1>6, KeptNot, StepNames
    <3>2. p \in Plain => \A x \in {p} : Agree(x)'
      BY <1>3, <1>4, <2>2 DEF Agree
    <3> QED
      BY <2>2, <3>1, <3>2 DEF Leaves
  <2> QED
    BY <2>1, <2>2
<1> QED
  BY <1>2, <1>5, <1>6, <1>7, <1>8 DEF Effect

\* The row of a file that was written.
LEMMA SetInfoEffect ==
  ASSUME IInv, NEW r \in Reqs, SetInfo(r)
  PROVE  Effect(r)
<1> DEFINE q == req[r]
           row == [modified |-> clock, size |-> q.size]
<1>1. q.pc = "setInfo" /\ q.pc \in Working /\ q.pc \in Saving
  BY StepNames DEF SetInfo, At, Saving
<1>2. q.body \in Bodies /\ q.size \in Lengths \cup {SizeOfFolder} /\ clock \in 1 .. MaxTime
  BY <1>1, AtStep DEF Sound, IInv, Typed
<1>3. row \in Rows /\ row # Nothing /\ row.size = q.size
  <2>1. q.size \in Nat
    BY <1>1, AtStep DEF Request
  <2>2. row \in [modified : 1 .. MaxTime, size : Nat] /\ row.size = q.size
    BY <1>2, <2>1
  <2>3. row \in Rows
    BY <1>2 DEF Rows
  <2> HIDE DEF row
  <2>4. row # Nothing
    BY Zenon, <2>2, NothingAssumption
  <2> QED
    BY <2>2, <2>3, <2>4
<1>4. q.alone /\ q.path \in Plain => files[q.path] = q.body /\ q.size = Len(q.body)
  BY <1>1 DEF IInv, Kept
<1>5. q.body # Nothing
  BY <1>2, BodiesAreContents
<1>6. Succeed(r, q.body) /\ UNCHANGED <<disk, clock>> /\ info' = [info EXCEPT ![q.path] = row]
  BY DEF SetInfo
<1> HIDE DEF row
<1> QED
  BY <1>1, <1>2, <1>3, <1>4, <1>5, <1>6, SucceedEffect
-----------------------------------------------------------------------------
(* FileApi.delete, step by step. *)

\* Removing what is empty leaves a tree, and takes its name from whoever has it open.
LEMMA UnlinkEffect ==
  ASSUME IInv, NEW r \in Reqs, req[r].pc \in Working, NEW d \in Seq(STRING), d # <<>>,
         d = req[r].path \/ IsFolderOf(d, req[r].path), Removable(d),
         NEW n, Onward(req[r], n), n.pc \in {"tidy", "delInfo"},
         Unlink(r, d, n), UNCHANGED <<info, clock, last>>,
         req[r].alone /\ req[r].path \in Plain => d = req[r].path \/ files[req[r].path] = Nothing
  PROVE  Effect(r)
<1> DEFINE p == req[r].path
<1>1. Below(d) = {} /\ n \in Request /\ p \in Paths /\ n.path = p
  BY AtStep DEF Removable, Onward, Working, Saving, Deleting
<1>2. /\ dirs' = dirs \ {d}
      /\ files' = [f \in Paths |-> IF f = d THEN Nothing ELSE files[f]]
      /\ req' = [o \in Reqs |-> IF o = r THEN n
                                ELSE [req[o] EXCEPT !.linked = @ /\ req[o].path # d]]
  BY <1>1 DEF Unlink
<1>3. ASSUME NEW o \in Reqs \ {r}
      PROVE  /\ Same(o, r)
             /\ req'[o].linked => req[o].linked /\ req[o].path # d
  <2>1. req[o] \in Request
    BY DEF IInv, Typed
  <2>2. req'[o] = [req[o] EXCEPT !.linked = req[o].linked /\ req[o].path # d]
    BY <1>2, <2>1 DEF Request
  <2>3. /\ req'[o].pc = req[o].pc /\ req'[o].path = req[o].path /\ req'[o].body = req[o].body
        /\ req'[o].depth = req[o].depth /\ req'[o].sent = req[o].sent
        /\ req'[o].size = req[o].size /\ req'[o].alone = req[o].alone
        /\ req'[o].linked = (req[o].linked /\ req[o].path # d)
    BY <2>1, <2>2 DEF Request
  <2>4. req'[o] \in Request
    BY <2>1, <2>2 DEF Request
  <2>5. req[o].linked \in BOOLEAN
    BY <2>1 DEF Request
  <2>6. req[o].path # d => req'[o].linked = req[o].linked
    BY <2>3, <2>5
  <2> QED
    BY <2>3, <2>4, <2>6 DEF Same
<1>4. req'[r] = n /\ req' \in [Reqs -> Request]
  BY <1>1, <1>2, <1>3 DEF Same
<1>5. files' \in [Paths -> Contents \cup {Nothing}]
      /\ \A f \in Paths : files'[f] = IF f = d THEN Nothing ELSE files[f]
  BY <1>2 DEF IInv, Typed
<1>6. OthersStay(r) /\ DataTyped'
  BY <1>5 DEF OthersStay, DataTyped, IInv, Typed
<1>7. Tree'
  <2>1. ASSUME NEW x \in dirs \ {<<>>}
        PROVE  Parent(x) \in dirs \ {d}
    <3>1. x \in Seq(STRING) /\ Len(x) > 0 /\ Parent(x) \in dirs
      BY FoldersArePaths DEF IInv, Tree
    <3>2. IsFolderOf(Parent(x), x)
      BY <3>1, ParentIsFolder
    <3> QED
      BY <1>1, <3>1, <3>2 DEF Below
  <2>2. ASSUME NEW f \in Paths, files[f] # Nothing
        PROVE  Parent(f) \in dirs \ {d} /\ f \notin dirs
    <3>1. f \in Seq(STRING) /\ Len(f) > 0 /\ Parent(f) \in dirs /\ f \notin dirs
      BY <2>2, PathFacts DEF IInv, Tree
    <3>2. IsFolderOf(Parent(f), f)
      BY <3>1, ParentIsFolder
    <3> QED
      BY <1>1, <2>2, <3>1, <3>2 DEF Below, IsFile
  <2>3. dirs \subseteq Folders /\ <<>> \in dirs
    BY DEF IInv, Tree
  <2> QED
    BY <1>2, <1>5, <2>1, <2>2, <2>3 DEF Tree
<1>8. Linked'
  <2> SUFFICES ASSUME NEW o \in Reqs, req'[o].pc = "pipe", req'[o].linked
               PROVE  files'[req'[o].path] # Nothing
    BY DEF Linked
  <2>1. o # r
    BY <1>4
  <2>2. req[o].pc = "pipe" /\ req[o].linked /\ req'[o].path = req[o].path /\ req[o].path # d
    BY <1>3, <2>1 DEF Same
  <2>3. req[o].path \in Paths
    BY <2>2 DEF IInv, Typed, Sound, Working, Saving
  <2> QED
    BY <1>5, <2>2, <2>3 DEF IInv, Linked
<1>9. Leaves(r)
  <2>1. p \in Plain /\ req[r].alone => files'[p] = Nothing
    BY <1>1, <1>5
  <2>2. n.pc \in Halfway
    BY DEF Halfway
  <2>3. Kept(r)' \/ ~(p \in Plain /\ req[r].alone)
    BY <1>1, <1>4, <2>1 DEF Kept
  <2> QED
    BY <1>4, <2>2, <2>3 DEF Leaves
<1> QED
  BY <1>3, <1>4, <1>6, <1>7, <1>8, <1>9 DEF Effect

\* The tidying's way up.
LEMMA AscendFacts ==
  ASSUME NEW q \in Request, q.path \in Paths, NEW m \in Nat, m < Len(q.path)
  PROVE  Onward(q, Ascend(q, m)) /\ Ascend(q, m).pc \in {"tidy", "delInfo"}
<1> DEFINE to == IF m = 0 THEN "delInfo" ELSE "tidy"
           n == Ascend(q, m)
<1>1. /\ n = [q EXCEPT !.depth = m, !.left = {Folder(q.path, m)}, !.dir = <<>>, !.bytes = FALSE, !.pc = to]
      /\ to \in {"tidy", "delInfo"}
  BY DEF Ascend
<1>2. Len(q.path) \in Nat
  BY PathFacts
<1>3. to = "tidy" => 0 < m
  OBVIOUS
<1>4. to \in Working /\ to \notin Saving
  BY DEF Working, Saving, Deleting
<1>8. PICK w \in SUBSET (Folders \cup Paths) : w = {Folder(q.path, m)}
  <2>1. Folder(q.path, m) \in Folders
    BY <1>2 DEF Folders
  <2> QED
    BY <2>1
<1>9. n = [q EXCEPT !.depth = m, !.left = w, !.dir = <<>>, !.bytes = FALSE, !.pc = to]
  BY <1>1, <1>8
<1> HIDE DEF to, n
<1>5. n \in Request
  BY <1>9, <1>4 DEF Request
<1>6. /\ n.pc = to /\ n.path = q.path /\ n.depth = m /\ n.alone = q.alone
  BY <1>9 DEF Request
<1>7. Sound(n)
  BY <1>1, <1>2, <1>3, <1>4, <1>6 DEF Sound
<1> QED
  BY <1>1, <1>4, <1>5, <1>6, <1>7 DEF Onward, n

\* The file goes, or the empty folder that has its name.
LEMMA RemoveEffect ==
  ASSUME IInv, NEW r \in Reqs, Remove(r)
  PROVE  Effect(r)
<1> DEFINE q == req[r]
           n == Ascend(q, Len(q.path) - 1)
<1>1. q.pc \in Working
  BY DEF Remove, At, Working, Deleting
<1>2. q \in Request /\ q.path \in Paths /\ q.path \in Seq(STRING) /\ Len(q.path) \in Nat \ {0}
  BY <1>1, AtStep
<1>3. CASE Fail(r)
  BY <1>1, <1>3, FailEffect
<1>4. CASE Removable(q.path) /\ Unlink(r, q.path, n) /\ UNCHANGED <<info, clock, last>>
  <2>1. Len(q.path) - 1 \in Nat /\ Len(q.path) - 1 < Len(q.path) /\ q.path # <<>>
    BY <1>2, EmptySeq
  <2>2. Onward(q, n) /\ n.pc \in {"tidy", "delInfo"}
    BY <1>2, <2>1, AscendFacts
  <2> HIDE DEF n
  <2> QED
    BY <1>1, <1>2, <1>4, <2>1, <2>2, UnlinkEffect
<1> QED
  BY <1>3, <1>4 DEF Remove

\* A step of the walk through a folder.
WalkSteps == {"tidy", "list", "rmdir", "delInfo"}
LEMMA WalkEffect ==
  ASSUME IInv, NEW r \in Reqs, req[r].pc \in {"tidy", "list"}, NEW n \in Request, Go(r, n),
         UNCHANGED <<disk, info, clock, last>>, n.pc \in WalkSteps,
         n.path = req[r].path, n.depth = req[r].depth, n.alone = req[r].alone
  PROVE  Effect(r)
<1> DEFINE q == req[r]
<1>1. q.pc \in Working /\ q.pc \in Halfway
  BY DEF Working, Deleting, Halfway
<1>2. q \in Request /\ Sound(q) /\ q.path \in Paths /\ 0 < q.depth /\ q.depth < Len(q.path)
  BY <1>1, AtStep DEF Sound
<1>3. n.pc \in Working /\ n.pc \in Halfway /\ n.pc \notin Saving
  BY DEF WalkSteps, Working, Saving, Deleting, Halfway
<1>4. Onward(q, n)
  BY <1>2, <1>3 DEF Onward, Sound, WalkSteps
<1>5. Tree' /\ files' = files
  BY DEF IInv, Tree, disk
<1>6. req'[r] = n
  BY GoKeeps DEF IInv, Typed
<1>7. q.alone /\ q.path \in Plain => files[q.path] = Nothing
  BY DEF IInv, Kept
<1>8. q.alone /\ q.path \in Plain => Kept(r)'
  BY <1>5, <1>6, <1>7 DEF Kept, WalkSteps
<1> QED
  BY <1>1, <1>3, <1>4, <1>5, <1>8, MoveEffect DEF disk, WalkSteps

\* What the walk goes on as.
LEMMA WalkFacts ==
  ASSUME NEW q \in Request, NEW left \in SUBSET (Folders \cup Paths), NEW found \in BOOLEAN
  PROVE  /\ Walk(q, left, found) \in Request /\ Walk(q, left, found).pc \in WalkSteps
         /\ Walk(q, left, found).path = q.path /\ Walk(q, left, found).depth = q.depth
         /\ Walk(q, left, found).alone = q.alone
<1> DEFINE to == IF left # {} THEN "tidy" ELSE IF q.bytes \/ found THEN "delInfo" ELSE "rmdir"
           n == Walk(q, left, found)
<1>1. n = [q EXCEPT !.left = left, !.dir = <<>>, !.bytes = (q.bytes \/ found), !.pc = to]
  BY DEF Walk
<1>2. to \in WalkSteps /\ WalkSteps \subseteq Working /\ (q.bytes \/ found) \in BOOLEAN
  BY DEF WalkSteps, Working, Deleting, Request
<1> HIDE DEF to
<1> QED
  BY <1>1, <1>2 DEF Request

\* Looking at one entry.
LEMMA TidyEffect ==
  ASSUME IInv, NEW r \in Reqs, Tidy(r)
  PROVE  Effect(r)
<1> DEFINE q == req[r]
<1>1. q.pc = "tidy" /\ q.pc \in Working
  BY DEF Tidy, At, Working, Deleting
<1>2. q \in Request
  BY <1>1, AtStep
<1>3. PICK x \in Deepest(q.left) :
        \/ Fail(r)
        \/ /\ Exists(x) /\ UNCHANGED <<disk, info, clock, last>>
           /\ Go(r, IF IsFile(x) THEN Walk(q, q.left \ {x}, files[x] # <<>>)
                    ELSE [q EXCEPT !.left = @ \ {x}, !.dir = x, !.pc = "list"])
  BY DEF Tidy
<1>4. CASE Fail(r)
  BY <1>1, <1>4, FailEffect
<1>5. q.left \ {x} \in SUBSET (Folders \cup Paths)
  BY <1>2 DEF Request
<1>6. CASE ~Fail(r) /\ IsFile(x)
  <2> DEFINE n == Walk(q, q.left \ {x}, files[x] # <<>>)
  <2>1. n \in Request /\ n.pc \in WalkSteps /\ n.path = q.path /\ n.depth = q.depth /\ n.alone = q.alone
    BY <1>2, <1>5, WalkFacts
  <2>2. Go(r, n) /\ UNCHANGED <<disk, info, clock, last>>
    BY <1>3, <1>6
  <2> HIDE DEF n
  <2> QED
    BY <1>1, <2>1, <2>2, WalkEffect
<1>7. CASE ~Fail(r) /\ ~IsFile(x)
  <2> DEFINE n == [q EXCEPT !.left = q.left \ {x}, !.dir = x, !.pc = "list"]
  <2>1. Go(r, n) /\ UNCHANGED <<disk, info, clock, last>> /\ x \in dirs
    BY <1>2, <1>3, <1>7 DEF Exists, Request
  <2>2. x \in Folders
    BY <2>1 DEF IInv, Tree
  <2>3. n \in Request /\ n.pc = "list" /\ n.path = q.path /\ n.depth = q.depth /\ n.alone = q.alone
    BY <1>2, <1>5, <2>2 DEF Request, Working, Deleting
  <2>4. n.pc \in WalkSteps
    BY <2>3 DEF WalkSteps
  <2> HIDE DEF n
  <2> QED
    BY <1>1, <2>1, <2>3, <2>4, WalkEffect
<1> QED
  BY <1>3, <1>4, <1>6, <1>7

\* Listing a folder.
LEMMA ListEffect ==
  ASSUME IInv, NEW r \in Reqs, List(r)
  PROVE  Effect(r)
<1> DEFINE q == req[r]
           n == Walk(q, q.left \cup Entries(q.dir), FALSE)
<1>1. q.pc = "list" /\ q.pc \in Working
  BY DEF List, At, Working, Deleting
<1>2. q \in Request
  BY <1>1, AtStep
<1>3. CASE Fail(r)
  BY <1>1, <1>3, FailEffect
<1>4. CASE Go(r, n) /\ UNCHANGED <<disk, info, clock, last>>
  <2>1. Entries(q.dir) \subseteq Folders \cup Paths
    BY DEF Entries
  <2>2. q.left \cup Entries(q.dir) \in SUBSET (Folders \cup Paths)
    BY <1>2, <2>1 DEF Request
  <2>3. n \in Request /\ n.pc \in WalkSteps /\ n.path = q.path /\ n.depth = q.depth /\ n.alone = q.alone
    BY <1>2, <2>2, WalkFacts
  <2> HIDE DEF n
  <2> QED
    BY <1>1, <1>4, <2>3, WalkEffect
<1> QED
  BY <1>3, <1>4 DEF List

\* The folder goes, if it is empty by now.
LEMMA RmdirEffect ==
  ASSUME IInv, NEW r \in Reqs, Rmdir(r)
  PROVE  Effect(r)
<1> DEFINE q == req[r]
           d == Folder(q.path, q.depth)
           n == Ascend(q, q.depth - 1)
<1>1. q.pc = "rmdir" /\ q.pc \in Working
  BY DEF Rmdir, At, Working, Deleting
<1>2. /\ q \in Request /\ Sound(q) /\ q.path \in Paths /\ q.path \in Seq(STRING)
      /\ q.depth \in Nat /\ 0 < q.depth /\ q.depth < Len(q.path) /\ Len(q.path) \in Nat
  BY <1>1, AtStep DEF Sound, Request
<1>3. CASE Fail(r)
  BY <1>1, <1>3, FailEffect
<1>4. CASE Removable(d) /\ Unlink(r, d, n) /\ UNCHANGED <<info, clock, last>>
  <2>1. /\ q.depth - 1 \in Nat /\ q.depth - 1 < Len(q.path)
        /\ q.depth \in 0 .. Len(q.path) - 1 /\ q.depth \in 0 .. Len(q.path)
    BY <1>2
  <2>2. Onward(q, n) /\ n.pc \in {"tidy", "delInfo"}
    BY <1>2, <2>1, AscendFacts
  <2>3. d \in Seq(STRING) /\ Len(d) = q.depth /\ IsFolderOf(d, q.path)
    BY <1>2, <2>1, FolderFacts, FolderOfPath
  <2>4. d # <<>>
    BY <1>2, <2>3, EmptySeq
  <2>5. q.alone /\ q.path \in Plain => files[q.path] = Nothing
    BY <1>1 DEF IInv, Kept
  <2> HIDE DEF n, d
  <2> QED
    BY <1>1, <1>4, <2>2, <2>3, <2>4, <2>5, UnlinkEffect
<1> QED
  BY <1>3, <1>4 DEF Rmdir

\* The row goes last.
LEMMA DelInfoEffect ==
  ASSUME IInv, NEW r \in Reqs, DelInfo(r)
  PROVE  Effect(r)
<1>1. req[r].pc = "delInfo" /\ req[r].pc \in Working
  BY DEF DelInfo, At, Working, Deleting
<1>2. req[r].alone /\ req[r].path \in Plain => files[req[r].path] = Nothing
  BY <1>1 DEF IInv, Kept
<1>3. Succeed(r, Nothing) /\ UNCHANGED <<disk, clock>> /\ info' = [info EXCEPT ![req[r].path] = Nothing]
  BY DEF DelInfo
<1> QED
  BY <1>1, <1>2, <1>3, SucceedEffect
-----------------------------------------------------------------------------
(* The invariant. *)

\* What one request does to its own path is all that happens.
LEMMA EffectKeeps ==
  ASSUME IInv, NEW r \in Reqs, Effect(r)
  PROVE  IInv'
<1> DEFINE p == req[r].path
<1>1. /\ req[r].pc \in Working /\ p \in Paths /\ Onward(req[r], req'[r])
      /\ \A o \in Reqs \ {r} : Same(o, r)
  BY AtStep DEF Effect
<1>2. Typed'
  <2>1. ASSUME NEW o \in Reqs
        PROVE  Sound(req'[o])
    BY <1>1 DEF Same, Onward, Sound, IInv, Typed
  <2> QED
    BY <2>1 DEF Effect, DataTyped, Typed
<1>3. ASSUME NEW o \in Reqs, req'[o].pc \in Working
      PROVE  req[o].pc \in Working /\ req'[o].path = req[o].path /\ req'[o].alone = req[o].alone
  BY <1>1, <1>3, StepNames DEF Same, Onward
<1>4. ASSUME NEW o \in Reqs \ {r}, req[o].pc \in Working, req[o].path = p
      PROVE  ~req[r].alone /\ ~req[o].alone
  BY <1>1, <1>4 DEF IInv, Alone
<1>5. ~req[r].alone => last[p] = Torn /\ last'[p] = Torn
  BY <1>1 DEF IInv, Alone, Effect, Leaves
<1>6. Alone'
  <2> SUFFICES ASSUME NEW o \in Reqs, req'[o].pc \in Working
               PROVE  IF req'[o].alone
                      THEN \A s \in Reqs : req'[s].pc \in Working /\ req'[s].path = req'[o].path => s = o
                      ELSE last'[req'[o].path] = Torn
    BY DEF Alone
  <2>1. req[o].pc \in Working /\ req'[o].path = req[o].path /\ req'[o].alone = req[o].alone
    BY <1>3
  <2>2. CASE req[o].alone
    BY <1>3, <2>1, <2>2 DEF IInv, Alone
  <2>3. CASE ~req[o].alone
    <3>1. last[req[o].path] = Torn /\ req[o].path \in Paths
      BY <2>1, <2>3, AtStep DEF IInv, Alone
    <3>2. CASE req[o].path = p
      <4>1. ~req[r].alone
        BY <1>4, <2>1, <2>3, <3>2
      <4> QED
        BY <1>5, <2>1, <2>3, <3>2, <4>1
    <3>3. CASE req[o].path # p
      BY <2>1, <2>3, <3>1, <3>3 DEF Effect, OthersStay
    <3> QED
      BY <3>2, <3>3
  <2> QED
    BY <2>2, <2>3
<1>7. ASSUME NEW x \in Plain, x # p
      PROVE  files'[x] = files[x] /\ info'[x] = info[x] /\ last'[x] = last[x]
  BY <1>1, <1>7, PlainIsNoFolder DEF Effect, OthersStay
<1>8. ASSUME NEW o \in Reqs
      PROVE  Kept(o)'
  <2>1. CASE req'[o].pc \notin Working
    BY <2>1, KeptNot, StepNames
  <2>2. CASE o = r /\ req'[o].pc \in Working
    <3>1. req'[r].path = p /\ req'[r].alone = req[r].alone
      BY <1>3, <2>2
    <3>2. CASE req[r].alone /\ p \in Plain
      BY <2>2, <3>2 DEF Effect, Leaves
    <3>3. CASE ~(req[r].alone /\ p \in Plain)
      BY <2>2, <3>1, <3>3 DEF Kept
    <3> QED
      BY <3>2, <3>3
  <2>3. CASE o # r /\ req'[o].pc \in Working
    <3>1. Same(o, r) /\ Kept(o)
      BY <1>1, <2>3 DEF IInv
    <3>2. CASE req[o].alone /\ req[o].path \in Plain
      <4>1. req[o].path # p
        BY <1>3, <1>4, <2>3, <3>2
      <4>2. files'[req[o].path] = files[req[o].path] /\ ~IsFolderOf(req[o].path, p)
        BY <1>1, <1>7, <3>2, <4>1, PlainIsNoFolder
      <4>3. req'[o].linked = req[o].linked
        BY <3>1, <4>1, <4>2 DEF Same
      <4> QED
        BY <3>1, <4>2, <4>3 DEF Kept, Same
    <3>3. CASE ~(req[o].alone /\ req[o].path \in Plain)
      BY <3>1, <3>3 DEF Kept, Same
    <3> QED
      BY <3>2, <3>3
  <2> QED
    BY <2>1, <2>2, <2>3
<1>9. Whole'
  <2> SUFFICES ASSUME NEW x \in Plain, last'[x] # Torn,
                      \A o \in Reqs : req'[o].pc \in Halfway => req'[o].path # x
               PROVE  Agree(x)'
    BY DEF Whole
  <2>1. CASE x = p
    <3>1. req[r].alone
      BY <1>5, <2>1
    <3>2. req'[r].pc \notin Halfway
      BY <1>3, <2>1, StepNames
    <3>3. x \in {p} /\ p \in Plain
      BY <2>1
    <3>4. \A y \in {p} : last'[y] # Torn => Agree(y)'
      BY <3>1, <3>2, <3>3 DEF Effect, Leaves
    <3> QED
      BY <3>3, <3>4
  <2>2. CASE x # p
    <3>1. files'[x] = files[x] /\ info'[x] = info[x] /\ last'[x] = last[x]
      BY <1>7, <2>2
    <3>2. ASSUME NEW o \in Reqs, req[o].pc \in Halfway
          PROVE  req[o].path # x
      BY <1>1, <2>2, <3>2 DEF Same
    <3>3. Agree(x)
      BY <3>1, <3>2 DEF IInv, Whole
    <3> QED
      BY <3>1, <3>3 DEF Agree
  <2> QED
    BY <2>1, <2>2
<1>10. Tree' /\ Linked'
  BY DEF Effect
<1> QED
  BY <1>2, <1>6, <1>8, <1>9, <1>10 DEF IInv

\* A request that begins tears what others are working on, and nothing else.
LEMMA EnterKeeps ==
  ASSUME IInv, NEW r \in Reqs, req[r].pc = "idle", NEW q \in Request, Sound(q),
         q.pc \in Working \ Halfway, Enter(r, q), UNCHANGED <<disk, info, clock>>
  PROVE  IInv'
<1> DEFINE others == WorkingOn(q.path) \ {r}
<1>1. q.path \in Paths
  BY DEF Sound
<1>2. others = {o \in Reqs : req[o].pc \in Working /\ req[o].path = q.path}
  BY StepNames DEF WorkingOn
<1>3. /\ req' = [o \in Reqs |-> CASE o = r        -> [q EXCEPT !.alone = (others = {})]
                                  [] o \in others -> [req[o] EXCEPT !.alone = FALSE]
                                  [] OTHER        -> req[o]]
      /\ last' = IF others = {} THEN last ELSE [last EXCEPT ![q.path] = Torn]
      /\ UNCHANGED <<dirs, files, info, clock>>
  BY DEF Enter, disk
<1> HIDE DEF others
<1>4. /\ req'[r] \in Request /\ Sound(req'[r])
      /\ req'[r].pc = q.pc /\ req'[r].path = q.path /\ req'[r].alone = (others = {})
  <2>1. req'[r] = [q EXCEPT !.alone = (others = {})]
    <3> DEFINE only == others = {}
    <3>1. req' = [o \in Reqs |-> CASE o = r        -> [q EXCEPT !.alone = only]
                                   [] o \in others -> [req[o] EXCEPT !.alone = FALSE]
                                   [] OTHER        -> req[o]]
      BY <1>3
    <3> HIDE DEF only
    <3>2. r \notin others
      BY <1>2, StepNames
    <3>3. req'[r] = [q EXCEPT !.alone = only]
      BY <3>1, <3>2
    <3> QED
      BY <3>3 DEF only
  <2>2. (others = {}) \in BOOLEAN
    OBVIOUS
  <2> QED
    BY <2>1, <2>2 DEF Request, Sound
<1>5. ASSUME NEW o \in Reqs \ {r}
      PROVE  /\ req'[o] \in Request /\ Sound(req'[o])
             /\ req'[o].pc = req[o].pc /\ req'[o].path = req[o].path /\ req'[o].body = req[o].body
             /\ req'[o].sent = req[o].sent /\ req'[o].size = req[o].size
             /\ req'[o].linked = req[o].linked
             /\ req'[o].alone = IF o \in others THEN FALSE ELSE req[o].alone
  <2>1. req[o] \in Request /\ Sound(req[o])
    BY DEF IInv, Typed
  <2>2. req'[o] = IF o \in others THEN [req[o] EXCEPT !.alone = FALSE] ELSE req[o]
    BY <1>3
  <2>3. CASE o \in others
    <3>1. req'[o] = [req[o] EXCEPT !.alone = FALSE]
      BY <2>2, <2>3
    <3>2. req'[o] \in Request
      BY <2>1, <3>1 DEF Request
    <3>3. /\ req'[o].pc = req[o].pc /\ req'[o].path = req[o].path /\ req'[o].body = req[o].body
          /\ req'[o].sent = req[o].sent /\ req'[o].size = req[o].size /\ req'[o].depth = req[o].depth
          /\ req'[o].linked = req[o].linked /\ req'[o].alone = FALSE
      BY <2>1, <3>1 DEF Request
    <3> QED
      BY <2>1, <2>3, <3>2, <3>3 DEF Sound
  <2>4. CASE o \notin others
    BY <2>1, <2>2, <2>4
  <2> QED
    BY <2>3, <2>4
<1>6. /\ last' \in [Paths -> Bodies \cup {Nothing, Torn}]
      /\ \A p \in Paths : last'[p] = IF p = q.path /\ others # {} THEN Torn ELSE last[p]
  BY <1>1, <1>3 DEF IInv, Typed
<1>7. Typed'
  <2>1. req' \in [Reqs -> Request]
    BY <1>3, <1>4, <1>5
  <2> QED
    BY <1>3, <1>4, <1>5, <1>6, <2>1 DEF IInv, Typed
<1>8. Tree'
  BY <1>3 DEF IInv, Tree
<1>9. Linked'
  <2> SUFFICES ASSUME NEW o \in Reqs, req'[o].pc = "pipe", req'[o].linked
               PROVE  files'[req'[o].path] # Nothing
    BY DEF Linked
  <2>1. o # r
    BY <1>4 DEF Halfway
  <2> QED
    BY <1>3, <1>5, <2>1 DEF IInv, Linked
<1>10. Alone'
  <2> SUFFICES ASSUME NEW o \in Reqs, req'[o].pc \in Working
               PROVE  IF req'[o].alone
                      THEN \A s \in Reqs : req'[s].pc \in Working /\ req'[s].path = req'[o].path => s = o
                      ELSE last'[req'[o].path] = Torn
    BY DEF Alone
  <2>1. CASE o = r /\ others = {}
    <3>1. ASSUME NEW s \in Reqs, s # r, req'[s].pc \in Working, req'[s].path = q.path
          PROVE  FALSE
      BY <1>2, <1>5, <2>1, <3>1
    <3>2. req'[r].alone = TRUE
      BY <1>4, <2>1
    <3> QED
      BY <1>4, <2>1, <3>1, <3>2
  <2>4. CASE o = r /\ others # {}
    <3>1. req'[r].alone = FALSE
      BY <1>4, <2>4
    <3>2. last'[q.path] = Torn
      BY <1>1, <1>6, <2>4
    <3> QED
      BY <1>4, <2>4, <3>1, <3>2
  <2>2. CASE o # r /\ o \in others
    <3>1. req'[o].alone = FALSE /\ req'[o].path = q.path
      BY <1>2, <1>5, <2>2
    <3>2. last'[q.path] = Torn
      BY <1>1, <1>6, <2>2
    <3> QED
      BY <3>1, <3>2
  <2>3. CASE o # r /\ o \notin others
    <3>1. req[o].path # q.path /\ req'[o].alone = req[o].alone /\ req[o].pc \in Working
      BY <1>2, <1>5, <2>3
    <3>2. req[o].path \in Paths
      BY <3>1, AtStep
    <3>3. last'[req[o].path] = last[req[o].path]
      BY <1>6, <3>1, <3>2
    <3> QED
      BY <1>4, <1>5, <2>3, <3>1, <3>3 DEF IInv, Alone
  <2> QED
    BY <2>1, <2>2, <2>3, <2>4
<1>11. ASSUME NEW o \in Reqs
       PROVE  Kept(o)'
  <2>1. CASE o = r
    BY <1>4, <2>1, KeptNot
  <2>2. CASE o # r
    BY <1>3, <1>5, <2>2 DEF IInv, Kept
  <2> QED
    BY <2>1, <2>2
<1>12. Whole'
  <2> SUFFICES ASSUME NEW p \in Plain, last'[p] # Torn,
                      \A o \in Reqs : req'[o].pc \in Halfway => req'[o].path # p
               PROVE  Agree(p)'
    BY DEF Whole
  <2>1. p \in Paths /\ last'[p] = last[p]
    BY <1>6, PlainIsNoFolder
  <2>2. ASSUME NEW o \in Reqs, req[o].pc \in Halfway
        PROVE  req[o].path # p
    <3>1. o # r
      BY <2>2, StepNames
    <3> QED
      BY <1>5, <2>2, <3>1
  <2>3. Agree(p)
    BY <2>1, <2>2 DEF IInv, Whole
  <2> QED
    BY <1>3, <2>1, <2>3 DEF Agree
<1> QED
  BY <1>7, <1>8, <1>9, <1>10, <1>11, <1>12 DEF IInv

\* What a request begins with.
LEMMA StartKeeps ==
  ASSUME IInv, NEW r \in Reqs, NEW p \in Paths,
         StartDelete(r, p) \/ \E b \in Bodies : StartWrite(r, p, b)
  PROVE  IInv'
<1>1. Len(p) \in Nat \ {0}
  BY PathFacts
<1>2. CASE StartDelete(r, p)
  <2> DEFINE q == [Blank EXCEPT !.pc = "remove", !.op = "delete", !.path = p]
  <2>1. q.pc = "remove" /\ q.path = p /\ q.depth = 0
    BY DEF Blank
  <2>2. q.pc \in Working \ Halfway /\ q.pc \notin Saving
    BY <2>1 DEF Working, Saving, Deleting, Halfway
  <2>3. q \in Request
    BY <2>2, BlankFacts DEF Request
  <2>4. req[r].pc = "idle" /\ Enter(r, q) /\ UNCHANGED <<disk, info, clock>>
    BY <1>2 DEF StartDelete, At
  <2> HIDE DEF q
  <2>5. Sound(q)
    BY <1>1, <2>1, <2>2 DEF Sound
  <2> QED
    BY <2>2, <2>3, <2>4, <2>5, EnterKeeps
<1>3. ASSUME NEW b \in Bodies, StartWrite(r, p, b)
      PROVE  IInv'
  <2> DEFINE w == [Blank EXCEPT !.op = "write", !.path = p, !.body = b]
             q == Descend(w, 0)
  <2>1. w \in Request /\ w.path = p /\ w.body = b
    BY BlankFacts DEF Request
  <2>2. req[r].pc = "idle" /\ Enter(r, q) /\ UNCHANGED <<disk, info, clock>>
    BY <1>3 DEF StartWrite, At
  <2> HIDE DEF w
  <2>3. q \in Request /\ Sound(q) /\ q.pc \in {"ls", "open"}
    BY <1>1, <2>1, DescendFacts
  <2>4. q.pc \in Working \ Halfway
    BY <2>3 DEF Working, Saving, Halfway
  <2> HIDE DEF q
  <2> QED
    BY <2>2, <2>3, <2>4, EnterKeeps
<1> QED
  BY <1>2, <1>3

\* A step of an operation has its effect.
LEMMA StepEffect ==
  ASSUME IInv, NEW r \in Reqs, FileStep(r)
  PROVE  Effect(r)
BY LsEffect, MkdirEffect, OpenEffect, PipeEffect, AbortEffect, StatEffect, SetInfoEffect,
   RemoveEffect, TidyEffect, ListEffect, RmdirEffect, DelInfoEffect DEF FileStep

\* A crash tears what was halfway, and loses what was not.
LEMMA CrashKeeps ==
  ASSUME IInv, Crash
  PROVE  IInv'
<1>1. /\ UNCHANGED <<dirs, files, info, clock>>
      /\ \A r \in Reqs : req'[r] = Blank
      /\ req' \in [Reqs -> Request]
      /\ last' = [p \in Paths |-> IF \E r \in WorkingOn(p) : req[r].pc \in Halfway THEN Torn ELSE last[p]]
  BY BlankFacts DEF Crash, disk
<1>2. \A r \in Reqs : req'[r].pc = "idle" /\ req'[r].pc \notin Working /\ req'[r].pc \notin Halfway
  BY <1>1, BlankFacts, StepNames
<1>3. last' \in [Paths -> Bodies \cup {Nothing, Torn}]
  BY <1>1 DEF IInv, Typed
<1>4. Typed'
  BY <1>1, <1>3, BlankFacts DEF IInv, Typed
<1>5. Tree' /\ Linked' /\ Alone'
  BY <1>1, <1>2 DEF IInv, Tree, Linked, Alone
<1>6. \A r \in Reqs : Kept(r)'
  BY <1>2, KeptNot
<1>7. ASSUME NEW p \in Plain, last'[p] # Torn
      PROVE  Agree(p)'
  <2>1. p \in Paths
    BY PlainIsNoFolder
  <2>2. last'[p] = last[p] /\ \A o \in Reqs : req[o].pc \in Halfway => req[o].path # p
    BY <1>1, <1>7, <2>1, StepNames DEF WorkingOn
  <2>3. Agree(p)
    BY <1>7, <2>2 DEF IInv, Whole
  <2> QED
    BY <1>1, <2>2, <2>3 DEF Agree
<1> QED
  BY <1>4, <1>5, <1>6, <1>7 DEF IInv, Whole

\* Every step keeps the invariant.
LEMMA NextKeeps == IInv /\ [Next]_fileVars => IInv'
<1> SUFFICES ASSUME IInv, [Next]_fileVars
             PROVE  IInv'
  OBVIOUS
<1>1. CASE UNCHANGED fileVars
  BY <1>1 DEF IInv, Typed, Tree, Linked, Alone, Kept, Whole, Agree, fileVars
<1>2. ASSUME NEW r \in Reqs, NEW p \in Paths,
             StartDelete(r, p) \/ \E b \in Bodies : StartWrite(r, p, b)
      PROVE  IInv'
  BY <1>2, StartKeeps
<1>3. ASSUME NEW r \in Reqs, FileStep(r)
      PROVE  IInv'
  BY <1>3, StepEffect, EffectKeeps
<1>4. CASE Crash
  BY <1>4, CrashKeeps
<1> QED
  BY <1>1, <1>2, <1>3, <1>4 DEF Next

\* An empty disk is in order.
LEMMA InitKeeps == Init => IInv
<1> SUFFICES ASSUME Init
             PROVE  IInv
  OBVIOUS
<1>1. \A r \in Reqs : req[r] = Blank /\ req[r].pc \notin Working /\ req[r].pc \notin Halfway
  BY BlankFacts, StepNames DEF Init
<1>2. Typed
  BY <1>1, BlankFacts, FileAssumption DEF Init, Typed
<1>3. Linked /\ Alone /\ \A r \in Reqs : Kept(r)
  BY <1>1, BlankFacts DEF Linked, Alone, Kept
<1>4. Whole
  BY PlainIsNoFolder DEF Init, Whole, Agree
<1>5. Tree
  <2>1. PICK p \in Paths : TRUE
    BY FileAssumption
  <2>2. 0 \in 0 .. Len(p) - 1
    BY PathFacts
  <2>3. Folder(p, 0) \in Folders /\ Folder(p, 0) = <<>>
    BY <2>2, FolderOfPath, SubSeqEmpty, PathFacts DEF Folder
  <2> QED
    BY <2>3 DEF Init, Tree
<1> QED
  BY <1>2, <1>3, <1>4, <1>5 DEF IInv
-----------------------------------------------------------------------------
(* The theorems. *)

\* IInv holds in every state.
LEMMA Invariant == Spec => []IInv
<1> QED
  BY InitKeeps, NextKeeps, PTL DEF Spec

\* Whatever exists is in a folder that exists, and nothing is a file and a
\* folder, whichever requests write, delete and tidy at once, however uploads
\* break off and whenever the process dies.
THEOREM FileTypes == Spec => []FilesTypeOK
<1>1. IInv => FilesTypeOK
  <2> SUFFICES ASSUME IInv
               PROVE  FilesTypeOK
    OBVIOUS
  <2>1. \A p \in (dirs \ {<<>>}) \cup {f \in Paths : IsFile(f)} : Folder(p, Len(p) - 1) \in dirs
    BY DEF IInv, Tree, IsFile, Parent
  <2>2. \A p \in Paths : ~(IsFile(p) /\ p \in dirs)
    BY DEF IInv, Tree, IsFile
  <2>3. ASSUME NEW r \in Reqs
        PROVE  req[r].pc \in Steps /\ req[r].depth < Len(req[r].path) + 1
    <3>1. req[r] \in Request /\ req[r].depth <= Len(req[r].path)
      BY DEF IInv, Typed, Sound
    <3>2. req[r].path \in Seq(STRING)
      <4>1. req[r].path \in Paths \cup {<<>>}
        BY <3>1 DEF Request
      <4>2. <<>> \in Seq(STRING)
        BY EmptySeq
      <4> QED
        BY <4>1, <4>2, PathFacts
    <3>3. Len(req[r].path) \in Nat
      BY <3>2, LenProperties
    <3> QED
      BY <3>1, <3>3 DEF Request, Steps
  <2> QED
    BY <2>1, <2>2, <2>3 DEF IInv, Typed, Tree, FilesTypeOK
<1> QED
  BY <1>1, Invariant, PTL

\* What FileApi keeps of a path that is no other path's folder, file and row,
\* agrees with the last operation that was answered, unless it was torn.
THEOREM WholeFiles == Spec => []UntornAgree
<1>1. IInv => UntornAgree
  <2> SUFFICES ASSUME IInv, NEW p \in Plain, last[p] # Torn, WorkingOn(p) = {}
               PROVE  Agree(p)
    BY DEF UntornAgree
  <2>1. \A o \in Reqs : req[o].pc \in Halfway => req[o].path # p
    BY StepNames DEF WorkingOn
  <2> QED
    BY <2>1 DEF IInv, Whole
<1> QED
  BY <1>1, Invariant, PTL

\* Whose step it is that changes a file.
LEMMA ChangesOwn ==
  ASSUME IInv, NEW r \in Reqs, FileStep(r), NEW p \in Paths, files'[p] # files[p]
  PROVE  \/ req[r].path = p
         \/ At(r, "rmdir") /\ p = Folder(req[r].path, req[r].depth) /\ files'[p] = Nothing
<1>1. files' # files /\ files \in [Paths -> Contents \cup {Nothing}]
  BY DEF IInv, Typed
<1>2. ~Fail(r) /\ ~Abort(r) /\ ~Ls(r) /\ ~Mkdir(r) /\ ~Stat(r) /\ ~SetInfo(r) /\ ~Tidy(r) /\ ~List(r)
      /\ ~DelInfo(r)
  BY <1>1 DEF Fail, Abort, Ls, Mkdir, Stat, SetInfo, Tidy, List, DelInfo, disk
<1>3. ASSUME NEW d, NEW n, Removable(d), Unlink(r, d, n)
      PROVE  p = d /\ files'[p] = Nothing
  <2>1. files'[p] = IF p = d \/ p \in Below(d) THEN Nothing ELSE files[p]
    BY <1>3 DEF Unlink
  <2> QED
    BY <1>3, <2>1 DEF Removable
<1>4. CASE Open(r)
  BY <1>1, <1>2, <1>4 DEF Open
<1>5. CASE Pipe(r)
  BY <1>1, <1>5 DEF Pipe
<1>6. CASE Remove(r)
  BY <1>2, <1>3, <1>6 DEF Remove
<1>7. CASE Rmdir(r)
  BY <1>2, <1>3, <1>7 DEF Rmdir
<1> QED
  BY <1>2, <1>4, <1>5, <1>6, <1>7 DEF FileStep

\* A file is changed by a step of a request that was called for it, or removed where
\* a deletion found a folder without bytes: nobody else's failure, abort, retry or
\* tidying takes or changes it.
THEOREM OthersFiles == Spec => OthersKept
<1> DEFINE Mine(r, p) ==
      /\ FileStep(r)
      /\ \/ req[r].path = p
         \/ At(r, "rmdir") /\ p = Folder(req[r].path, req[r].depth) /\ files'[p] = Nothing
    Step == \A p \in Paths : files'[p] # files[p] => \E r \in Reqs : Mine(r, p)
<1>1. IInv /\ [Next]_fileVars => [Step]_fileVars
  <2> SUFFICES ASSUME IInv, Next, NEW p \in Paths, files'[p] # files[p]
               PROVE  \E r \in Reqs : Mine(r, p)
    OBVIOUS
  <2>1. ASSUME NEW r \in Reqs, NEW x \in Paths,
               StartDelete(r, x) \/ \E b \in Bodies : StartWrite(r, x, b)
        PROVE  FALSE
    BY <2>1 DEF StartDelete, StartWrite, disk
  <2>2. ~Crash
    BY DEF Crash, disk
  <2>3. PICK r \in Reqs : FileStep(r)
    BY <2>1, <2>2 DEF Next
  <2> QED
    BY <2>3, ChangesOwn
<1> QED
  BY <1>1, Invariant, PTL DEF Spec, OthersKept
=============================================================================
