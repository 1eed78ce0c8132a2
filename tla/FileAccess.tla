----------------------------- MODULE FileAccess -----------------------------
(***************************************************************************)
(* FileApi's paths: how it cleans the path of a request, which folder it   *)
(* makes of context and root, and what a session may do there.             *)
(*                                                                         *)
(* A path is the sequence of the names between its slashes, "" the last    *)
(* one after a trailing slash, so that /u/x is <<"u", "x">>; startsWith    *)
(* with a prefix that ends in a slash compares whole names.                *)
(***************************************************************************)
EXTENDS Places

CONSTANTS
  Dots,        \* the names in use that consist of two or more dots
  NoSession    \* undefined

ASSUME DotsAssumption ==
  Dots \cap {"", ".", "~", "public", "private", "appdata", "secure", "collections"} = {}

\* cleanPath: .. and more dots are cut out; then slashes, with or without a single
\* dot between them, become one.  The slash that ends such a match is not the
\* beginning of another, so that of single dots in a row every second one stays.
Between(path, i) == path[i] \in {"", "."}
DotsUpTo(path, i) == {j \in 1 .. i : path[j] = "." /\ \A k \in j .. i : Between(path, k)}
Squeezed(path, i) ==
  /\ i < Len(path)
  /\ path[i] = "" \/ (path[i] = "." /\ Cardinality(DotsUpTo(path, i)) % 2 = 1)
NotCleaned(path) == path   \* (a bug the code avoids)
CleanPath(path) ==
  LET cut == [i \in DOMAIN path |-> IF path[i] \in Dots THEN "" ELSE path[i]]
  IN Pick(cut, {i \in DOMAIN path : ~Squeezed(cut, i)})

\* makePath
MakePath(user, root, context, identifier, path) ==
  LET public == IF root = "public" THEN <<"public">> ELSE <<>>
      folder == IF root = "root" THEN <<>>
                ELSE CASE context = "secure"      -> <<"appdata", "secure", identifier>>
                       [] context = "user"        -> IF root = "private" THEN <<"private">> ELSE <<>>
                       [] context = "collections" -> <<"collections">>
                       [] OTHER                   -> <<"appdata", context>>
  IN <<user>> \o public \o folder \o path

\* absPath.startsWith(folder + '/')
Inside(path, folder) == Len(path) > Len(folder) /\ SubSeq(path, 1, Len(folder)) = folder

No == [perm |-> "none", path |-> <<>>]

\* The folders of a session that is not foreign and not the user's own.  Context and
\* identifier are those of the request.
WithIdentifier(context, identifier) == <<context, identifier>>   \* (a bug the code avoids)
AppFolder(context, identifier) ==
  IF context = "secure" THEN <<"secure", identifier>> ELSE <<context>>
WholeCollections(session, context, identifier) ==   \* (a bug the code avoids)
  {<<session.user, "appdata", context>>, <<session.user, "public", "appdata", context>>}
    \cup {<<session.user, "collections", c>> : c \in session.collections}
WriteFolders(session, context, identifier) ==
  LET base == <<session.user>>
      app  == AppFolder(context, identifier)
  IN {base \o <<"appdata">> \o app, base \o <<"public", "appdata">> \o app}
       \cup {base \o <<"collections", c>> \o app : c \in session.collections}
WholeFolder(session, userId) == {<<userId>>}   \* (a bug the code avoids)
ReadFolders(session, userId) ==
  {<<userId, "public">>} \cup {<<session.user, "collections", c>> : c \in session.collections}

\* validatePath: what p (context, identifier, root and path, as the URL has them)
\* means in the files of userId, and what session may do with it.
ValidatePath(p, userId, session) ==
  LET foreign    == session = NoSession \/ session.user # userId
      context    == IF p.context # "~" THEN p.context
                    ELSE IF session = NoSession THEN NoSession ELSE session.context
      identifier == IF p.identifier # "~" THEN p.identifier
                    ELSE IF session = NoSession THEN NoSession ELSE session.identifier
      path       == MakePath(userId, p.root, p.context, p.identifier, CleanPath(p.path))
      may(perm)  == [perm |-> perm, path |-> path]
      in(folders) == \E f \in folders : Inside(path, f)
  IN IF context = NoSession \/ identifier = NoSession THEN No
     ELSE IF foreign
          THEN IF in({<<userId, "public">>}) THEN may("read") ELSE No
     ELSE IF session.context = "user" \/ in(WriteFolders(session, context, identifier)) THEN may("write")
     ELSE IF in(ReadFolders(session, userId)) THEN may("read")
     ELSE No

\* POST /batch-info: the root is what the path begins with; of the path, what is
\* kept is that beginning (slice with the end for a start).
Roots == <<"public", "private", "root", "collections">>
Batched(path, begins) ==
  LET found == {i \in DOMAIN Roots : Roots[i] = path[1] \/ <<Roots[i], path[1]>> \in begins}
      root  == Roots[CHOOSE i \in found : \A j \in found : i <= j]
  IN IF found = {} THEN [root |-> "root", path |-> path] ELSE [root |-> root, path |-> <<root>>]
=============================================================================
