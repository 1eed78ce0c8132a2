----------------------------- MODULE FileStore ------------------------------
(***************************************************************************)
(* Files and what the node knows about them: FileApi.write and delete over *)
(* HelpfulFileDb (a row of information for each path) and DiskFileStore    *)
(* (files in a tree of folders that writes make and deletions tidy away).  *)
(*                                                                         *)
(* Deno runs disk operations on other threads, so each of them is a step   *)
(* of its own; so is each statement of the database.  A path is a sequence *)
(* of names, the last of which is the file's.                              *)
(***************************************************************************)
EXTENDS Naturals, Sequences, FiniteSets

CONSTANTS
  Paths,       \* the paths clients use
  Bodies,      \* what they send: sequences of chunks
  Hole,        \* the chunk of zeros that a write past a file's end leaves
  Nothing,     \* no file, no row
  Torn,        \* a mark for the history
  Reqs,        \* slots of requests in flight
  FileOps,     \* which of "write" and "delete" the clients of FileApi call
  MaxTime,     \* bound: how far the clock ticks
  MayAbort,    \* whether an upload may break off
  MayCrash     \* whether the process may die

ASSUME FileAssumption ==
  /\ Paths # {} /\ \A p \in Paths : p \in Seq(STRING) /\ Len(p) > 0
  /\ FileOps \subseteq {"write", "delete"}
  /\ MaxTime \in Nat \ {0} /\ MayAbort \in BOOLEAN /\ MayCrash \in BOOLEAN

Folder(p, n) == SubSeq(p, 1, n)
Folders == UNION {{Folder(p, n) : n \in 0 .. Len(p) - 1} : p \in Paths}
IsFolderOf(d, p) == Len(d) < Len(p) /\ d = Folder(p, Len(d))

VARIABLES
  dirs,    \* the folders that exist
  files,   \* what is in each file
  info,    \* the rows of HelpfulFileDb
  clock,   \* Date.now()
  req,     \* the local state of each request
  last     \* history: the body that the last operation on a path left, nothing
           \* after a deletion, Torn when operations overlapped or one broke off

disk == <<dirs, files>>
fileVars == <<dirs, files, info, clock, req, last>>
-----------------------------------------------------------------------------
(* A request.  "via" is the API that called: FileApi, or GaiaApi, which    *)
(* holds a lock around the same operations (see Gaia).                     *)

\* The steps of saveFile and deleteFile, and of what follows them.
Saving   == {"ls", "mkdir", "open", "pipe", "stat", "setInfo"}
Deleting == {"remove", "tidy", "list", "rmdir", "delInfo"}
Working  == Saving \cup Deleting
\* Those at which the file has been changed and the operation is not done.
Halfway == {"pipe", "stat", "setInfo", "tidy", "list", "rmdir", "delInfo"}
Steps == Working \cup {"idle", "etag", "unlock"}   \* the last two in Gaia

Bytes == {Hole} \cup UNION {{b[i] : i \in 1 .. Len(b)} : b \in Bodies}
ASSUME BodiesAssumption == \A b \in Bodies : b \in Seq(Bytes)
ASSUME NothingAssumption == Nothing \notin Seq(Bytes) /\ Nothing \notin [modified : 1 .. MaxTime, size : Nat]

Blank == [pc |-> "idle", via |-> "file", op |-> "none", path |-> <<>>, body |-> <<>>,
          depth |-> 0,        \* folders passed so far, or left to tidy
          sent |-> 0,         \* chunks written
          linked |-> FALSE,   \* the open file still has its path
          left |-> {},        \* what sizeOf has yet to look at
          dir |-> <<>>,       \* the folder it is about to list
          bytes |-> FALSE,    \* whether it has found any
          size |-> 0,         \* what stat told
          match |-> Nothing, seen |-> Nothing,  \* If-Match, and the row read (Gaia)
          none |-> FALSE,     \* If-None-Match: * (Gaia)
          alone |-> FALSE]    \* history: nothing else worked on the path

At(r, step) == req[r].pc = step
Go(r, q) == req' = [req EXCEPT ![r] = q]
Goto(r, step) == Go(r, [req[r] EXCEPT !.pc = step])

WorkingOn(p) == {o \in Reqs : req[o].pc \in Working /\ req[o].path = p}

\* r starts to work on q.path, with what q says.
Enter(r, q) ==
  LET others == WorkingOn(q.path) \ {r} IN
  /\ req' = [o \in Reqs |->
               CASE o = r         -> [q EXCEPT !.alone = (others = {})]
                 [] o \in others  -> [req[o] EXCEPT !.alone = FALSE]
                 [] OTHER         -> req[o]]
  /\ last' = IF others = {} THEN last ELSE [last EXCEPT ![q.path] = Torn]

\* What is left to do when the operation has ended: nothing but to answer, or,
\* for GaiaApi, the finally that gives up the lock.
After(q) == IF q.via = "gaia" THEN [q EXCEPT !.pc = "unlock"] ELSE Blank

Succeed(r, result) ==
  /\ Go(r, After(req[r]))
  /\ last' = [last EXCEPT ![req[r].path] = IF req[r].alone THEN result ELSE Torn]

\* An await rejected, and nothing comes after it.  (a bug the code avoids)
FailAtOnce(r) ==
  /\ Go(r, Blank) /\ last' = [last EXCEPT ![req[r].path] = Torn]
  /\ UNCHANGED <<dirs, files, info, clock>>

\* An await rejected; handleError answers.
Fail(r) ==
  /\ Go(r, After(req[r]))
  /\ last' = IF req[r].pc \in Halfway THEN [last EXCEPT ![req[r].path] = Torn] ELSE last
  /\ UNCHANGED <<dirs, files, info, clock>>

IsFile(p) == p \in Paths /\ files[p] # Nothing
ExistsAsFolder(p) == p \in dirs   \* (a bug the disk avoids)
Exists(p) == p \in dirs \/ IsFile(p)
Below(d) == {p \in dirs : IsFolderOf(d, p)} \cup {p \in Paths : IsFile(p) /\ IsFolderOf(d, p)}
-----------------------------------------------------------------------------
(* FileApi.write *)

\* ensurePath goes on with the next folder, if there is one.
Descend(q, n) == [q EXCEPT !.depth = n, !.pc = IF n + 1 = Len(q.path) THEN "open" ELSE "ls"]

StartWrite(r, p, body) ==
  /\ "write" \in FileOps /\ At(r, "idle")
  /\ Enter(r, Descend([Blank EXCEPT !.op = "write", !.path = p, !.body = body], 0))
  /\ UNCHANGED <<disk, info, clock>>

\* ensurePath lists a folder to see whether the next one is in it ...
Ls(r) ==
  /\ At(r, "ls")
  /\ LET q == req[r]
         next == Folder(q.path, q.depth + 1)
     IN IF Folder(q.path, q.depth) \notin dirs \/ IsFile(next)
        THEN Fail(r)
        ELSE /\ Go(r, IF next \in dirs THEN Descend(q, q.depth + 1) ELSE [q EXCEPT !.pc = "mkdir"])
             /\ UNCHANGED <<disk, info, clock, last>>

\* ... and makes it, which fails when somebody else was faster.
Mkdir(r) ==
  /\ At(r, "mkdir")
  /\ LET q == req[r]
         new == Folder(q.path, q.depth + 1)
     IN IF Folder(q.path, q.depth) \notin dirs \/ Exists(new)
        THEN Fail(r)
        ELSE /\ dirs' = dirs \cup {new}
             /\ Go(r, Descend(q, q.depth + 1))
             /\ UNCHANGED <<files, info, clock, last>>

\* What is left of a file when it is opened: { write, create, truncate }.
KeepingOld(old) == IF old = Nothing THEN <<>> ELSE old   \* (a bug the code avoids)
Truncated(old) == <<>>

\* Chunks are written until the body ends.
PipedShort(q, n) ==   \* (a bug the code avoids)
  [q EXCEPT !.sent = n, !.pc = IF n + 1 >= Len(q.body) THEN "stat" ELSE "pipe"]
Piped(q, n) == [q EXCEPT !.sent = n, !.pc = IF n = Len(q.body) THEN "stat" ELSE "pipe"]

Open(r) ==
  /\ At(r, "open")
  /\ LET p == req[r].path
     IN IF Folder(p, Len(p) - 1) \notin dirs \/ p \in dirs
        THEN Fail(r)
        ELSE /\ files' = [files EXCEPT ![p] = Truncated(@)]
             /\ Go(r, Piped([req[r] EXCEPT !.linked = TRUE], 0))
             /\ UNCHANGED <<dirs, info, clock, last>>

\* The next chunk goes where the last one ended, whatever the file has become.
Put(data, i, chunk) ==
  [n \in 1 .. IF i > Len(data) THEN i ELSE Len(data) |->
     IF n = i THEN chunk ELSE IF n <= Len(data) THEN data[n] ELSE Hole]

Pipe(r) ==
  /\ At(r, "pipe")
  /\ LET q == req[r] IN
     /\ files' = IF q.linked
                 THEN [files EXCEPT ![q.path] = Put(@, q.sent + 1, q.body[q.sent + 1])]
                 ELSE files
     /\ Go(r, Piped(q, q.sent + 1))
     /\ UNCHANGED <<dirs, info, clock, last>>

\* The client goes away, or the disk is full.
Abort(r) == MayAbort /\ At(r, "pipe") /\ Fail(r)

SizeOfFolder == 100   \* stat of a folder tells a size too
Stat(r) ==
  /\ At(r, "stat")
  /\ LET p == req[r].path
     IN IF ~Exists(p)
        THEN Fail(r)
        ELSE /\ Go(r, [req[r] EXCEPT !.pc = "setInfo",
                                     !.size = IF IsFile(p) THEN Len(files[p]) ELSE SizeOfFolder])
             /\ UNCHANGED <<disk, info, clock, last>>

SetInfo(r) ==
  /\ At(r, "setInfo")
  /\ info' = [info EXCEPT ![req[r].path] = [modified |-> clock, size |-> req[r].size]]
  /\ Succeed(r, req[r].body)
  /\ UNCHANGED <<disk, clock>>
-----------------------------------------------------------------------------
(* FileApi.delete *)

StartDelete(r, p) ==
  /\ "delete" \in FileOps /\ At(r, "idle")
  /\ Enter(r, [Blank EXCEPT !.pc = "remove", !.op = "delete", !.path = p])
  /\ UNCHANGED <<disk, info, clock>>

\* Deno.remove(path) without { recursive }: a file, or a folder that is empty.
\* (realPath, which comes first, fails when there is neither, as this would.)
AnyRemovable(p) == Exists(p)   \* with { recursive } (a bug the code avoids)
Removable(p) == Exists(p) /\ Below(p) = {}

\* What it removes is gone from the tree, and from under whoever has it open.
Unlink(r, p, q) ==
  /\ dirs' = dirs \ ({p} \cup Below(p))
  /\ files' = [f \in Paths |-> IF f = p \/ f \in Below(p) THEN Nothing ELSE files[f]]
  /\ req' = [o \in Reqs |->
               IF o = r THEN q
               ELSE [req[o] EXCEPT !.linked = @ /\ req[o].path \notin {p} \cup Below(p)]]

\* The folders are looked at from the innermost one, up to the user's own.
Ascend(q, n) == [q EXCEPT !.depth = n, !.left = {Folder(q.path, n)}, !.dir = <<>>, !.bytes = FALSE,
                          !.pc = IF n = 0 THEN "delInfo" ELSE "tidy"]

Remove(r) ==
  /\ At(r, "remove")
  /\ LET q == req[r] IN
     IF Removable(q.path)
     THEN Unlink(r, q.path, Ascend(q, Len(q.path) - 1)) /\ UNCHANGED <<info, clock, last>>
     ELSE Fail(r)

\* What is directly in a folder.
Entries(d) == {x \in Folders \cup Paths : Exists(x) /\ IsFolderOf(d, x) /\ Len(x) = Len(d) + 1}

\* sizeOf walks through the folder, one awaited disk operation after another, an
\* entry with all that is in it before the next: it goes by the longest paths.
Deepest(left) == {x \in left : \A y \in left : Len(y) <= Len(x)}

\* What is left to look at is known; with nothing left, so is the size.
Walk(q, left, found) ==
  LET sum == q.bytes \/ found IN
  [q EXCEPT !.left = left, !.dir = <<>>, !.bytes = sum,
            !.pc = IF left # {} THEN "tidy" ELSE IF sum THEN "delInfo" ELSE "rmdir"]

\* realPath and stat fail when somebody was faster and the entry is gone ...
Tidy(r) ==
  /\ At(r, "tidy")
  /\ LET q == req[r] IN
     \E x \in Deepest(q.left) :
       IF ~Exists(x) THEN Fail(r)
       ELSE /\ Go(r, IF IsFile(x) THEN Walk(q, q.left \ {x}, files[x] # <<>>)
                     ELSE [q EXCEPT !.left = @ \ {x}, !.dir = x, !.pc = "list"])
            /\ UNCHANGED <<disk, info, clock, last>>

\* ... and so does readDir.
List(r) ==
  /\ At(r, "list")
  /\ LET q == req[r] IN
     IF q.dir \notin dirs THEN Fail(r)
     ELSE /\ Go(r, Walk(q, q.left \cup Entries(q.dir), FALSE))
          /\ UNCHANGED <<disk, info, clock, last>>

\* The folder without bytes may hold an empty file, and then this fails.
Rmdir(r) ==
  /\ At(r, "rmdir")
  /\ LET q == req[r]
         d == Folder(q.path, q.depth)
     IN IF Removable(d)
        THEN Unlink(r, d, Ascend(q, q.depth - 1)) /\ UNCHANGED <<info, clock, last>>
        ELSE Fail(r)

DelInfo(r) ==
  /\ At(r, "delInfo")
  /\ info' = [info EXCEPT ![req[r].path] = Nothing]
  /\ Succeed(r, Nothing)
  /\ UNCHANGED <<disk, clock>>
-----------------------------------------------------------------------------
\* Time goes by.  It only matters where versions are compared, see Gaia.
Tick ==
  /\ clock < MaxTime /\ clock' = clock + 1
  /\ UNCHANGED <<disk, info, req, last>>

\* The process dies and starts again: what it was doing is left as it is.
Crash ==
  /\ MayCrash /\ \E r \in Reqs : ~At(r, "idle")
  /\ req' = [r \in Reqs |-> Blank]
  /\ last' = [p \in Paths |-> IF \E r \in WorkingOn(p) : req[r].pc \in Halfway
                             THEN Torn ELSE last[p]]
  /\ UNCHANGED <<disk, info, clock>>

FileStep(r) ==
  \/ Ls(r) \/ Mkdir(r) \/ Open(r) \/ Pipe(r) \/ Abort(r) \/ Stat(r) \/ SetInfo(r)
  \/ Remove(r) \/ Tidy(r) \/ List(r) \/ Rmdir(r) \/ DelInfo(r)

Init ==
  /\ dirs = {<<>>} /\ files = [p \in Paths |-> Nothing] /\ info = [p \in Paths |-> Nothing]
  /\ clock = 1 /\ req = [r \in Reqs |-> Blank]
  /\ last = [p \in Paths |-> Nothing]

Next ==
  \/ \E r \in Reqs : \/ \E p \in Paths : StartDelete(r, p) \/ \E b \in Bodies : StartWrite(r, p, b)
                     \/ FileStep(r)
  \/ Crash

Spec == Init /\ [][Next]_fileVars
-----------------------------------------------------------------------------
(* Properties. *)

Lengths == UNION {0 .. Len(b) : b \in Bodies}
Contents == UNION {[1 .. n -> Bytes] : n \in Lengths}
Rows == [modified : 1 .. MaxTime, size : Lengths \cup {SizeOfFolder}]

\* Types, and the shape of the tree: whatever exists is in a folder that exists,
\* and nothing is a file and a folder (what DiskFileStore may rely on of a disk).
FilesTypeOK ==
  /\ dirs \subseteq Folders /\ <<>> \in dirs
  /\ files \in [Paths -> Contents \cup {Nothing}]
  /\ info \in [Paths -> Rows \cup {Nothing}]
  /\ clock \in 1 .. MaxTime /\ last \in [Paths -> Bodies \cup {Nothing, Torn}]
  /\ \A p \in (dirs \ {<<>>}) \cup {f \in Paths : IsFile(f)} : Folder(p, Len(p) - 1) \in dirs
  /\ \A p \in Paths : ~(IsFile(p) /\ p \in dirs)
  /\ \A r \in Reqs : req[r].pc \in Steps /\ req[r].depth < Len(req[r].path) + 1

\* A file and its row agree, and with the last write that was answered.
Agree(p) ==
  /\ files[p] = last[p]
  /\ info[p] = Nothing <=> last[p] = Nothing
  /\ info[p] # Nothing => info[p].size = Len(last[p])

\* The paths that no other path has as a folder.
Plain == {p \in Paths : \A o \in Paths : ~IsFolderOf(p, o)}

\* Unless operations on one path overlapped or one of them broke off halfway,
\* FileApi's file and row of a path agree whenever nobody works on it, however
\* the requests for other paths make and remove the folders it is in; and one
\* operation that runs alone to its end repairs what was torn.  (A file with the
\* name of another path's folder is not safe: a deletion that tidies may remove
\* it in the folder's place, see Rmdir.)
UntornAgree == \A p \in Plain : last[p] # Torn /\ WorkingOn(p) = {} => Agree(p)

\* A file is only changed by a step of a request for its own path, however the
\* deletions of others tidy the folders around it, which they have seen empty
\* several awaits earlier: what is not empty by now stays.  One case is excepted,
\* because the code does it: a file that took the name of a folder seen empty is
\* removed in the folder's place (disk-file-store.ts:123 asks nothing of what it
\* removes).
OthersKept ==
  [][\A p \in Paths : files'[p] # files[p] =>
       \E r \in Reqs :
         /\ FileStep(r)
         /\ \/ req[r].path = p
            \/ At(r, "rmdir") /\ p = Folder(req[r].path, req[r].depth) /\ files'[p] = Nothing]_fileVars
=============================================================================
