# A TLA+ model of a tiny node

tiny is a personal data node: an HTTP server (Deno, TypeScript) that keeps one or
several users' accounts, files and small databases, and lets apps have sessions to them.
This directory models it in TLA+, checks the model with TLC and proves theorems about it
with TLAPS. Paths such as `src/auth/auth-api.ts` are relative to the repository
with its root as `src/`.

## The system

The server is one event loop over SQLite. A handler runs from one `await` to the next
without interruption; at an `await` any other request may run. A SQL statement runs to
its end at the call (`wasm-sqlite-client.ts` prepares, executes and finalizes
synchronously), so the unit of atomicity is the code between two awaits, which holds at
most one statement. There are no transactions around a handler. Disk operations are
different: Deno runs them on threads of its own, so each of them is a step, and the
handler resumes when its result arrives. A crash loses what requests hold in memory;
tables and files stay.

| part | state | operations | talks to | hard about it | correct when |
|---|---|---|---|---|---|
| **AuthApi** (`auth/auth-api.ts`) | none of its own | login, register, change-pass, sessions, logout, refresh, handshakes, master keys | AuthDb by calls, session middleware in front | every operation is several awaits over shared tables | names unique; a revocation is complete; only owners touch accounts and sessions |
| **CoreApi** (`auth/core-api.ts`) | none | DELETE /self | AuthDb | password compared with a row read earlier | a deleted user is gone for good |
| **Session middleware** (`auth/auth-middleware.ts`) | `req.session`, `req.user` | validateUserSession | AuthDb | hands rows to handlers that use them awaits later; catches what handlers throw synchronously | nobody acts for a user or session that was gone |
| **HelpfulAuthDb** (`auth/helpers/helpful-auth-db.ts`, `auth/auth-db.ts`) | tables `users`, `sessions`, `handshakes`, `masterKeys`; event `onUserDelete` | rows in and out, cleanSessions, cleanHandshakes, the listener that purges sessions | SQLiteDynTable | background deletion that nobody awaits; crash between deletion and listener | sessions of deleted users go; nobody else's do |
| **SQLiteDynTable**, **wasm client** | rows | one, all, search, add, put, del, delMany | SQLite | put without a row; empty delMany | a put never inserts |
| **SQLiteDynTableStore** | schema table, tables | create, define, redefine, drop, dropMany, dropPrefixed, list | SQLite | several statements with awaits between, crash in between | schema row and table agree; a migration keeps rows |
| **FileApi** (`file/file-api.ts`) | none | read, write, delete, list, batch-info, storage-stats; path validation | middleware, HelpfulFileDb, DiskFileStore | file and info change in separate awaits; paths come from users | info agrees with file; a session reaches what it is granted |
| **DiskFileStore**, **HelpfulFileDb** | files in folders; a row for each file | saveFile, deleteFile; setFileInfo, delFileInfo | disk, tables | folders made and tidied away concurrently | a file changes by requests of its own |
| **GaiaApi** (`extensions/gaia-api.ts`) | set of locked paths | store, delete, read, hub_info | FileApi's write and delete | the etag is read before the lock is taken | a conditional write is conditional |
| **Key-value stores**, **TinyDb** (`db/helpers/helpful-tiny-db.ts`) | keys and tables named by user, scope and name | put, del, batch, search; tables; delAllUserData | SQLiteKeyValueStore, SQLiteDynTableStore | names joined of parts that may hold the separator, of which one begins another, and which SQL compares by LIKE | a scope reaches what its name begins, and finds all of it |
| **Query language** (`db/db-util.ts`) | none | compile to SQL, evaluate in memory | tables, stores | two evaluators of one language; NULL | what each finds is what the query says, where they agree |
| **Router** (`api/router.ts`) | routes | use, add, process | all APIs | order of registration, errors through nested handlers, fields given back | the chain runs in order, an error is answered by the innermost that catches it |
| **WebFingerApi**, **GraphQL** endpoint | fingers; none | store and get info; query | key-value store, tables | keys that are made in two places | |
| inboxes, ActivityPub, Postgres, crypto, adapters | | | | | stubs, wrappers, I/O |

The hazards this leaves, each at its line, are listed in `PROJECT.json`, with the
properties that cover them, or why none does.

## Modules

| module | models | extends |
|---|---|---|
| `DynTable` | one SQL statement of SQLiteDynTable per operator | |
| `AuthCore` | users, sessions, master keys; CoreApi, AuthApi without handshakes, middleware, listener, sweeps, crash | DynTable |
| `Handshakes` | handshakes, composed with everything in AuthCore | AuthCore |
| `Sessions` | abstract: accounts, and sessions given for what was good, which Handshakes with AuthCore implements | |
| `AuthCoreProofs`, `OwnershipProofs` | theorems about AuthCore | AuthCore, TLAPS |
| `HandshakeProofs` | theorems about Handshakes with AuthCore, the refinement among them | Handshakes, OwnershipProofs |
| `FileStore` | FileApi.write and delete, HelpfulFileDb's rows, DiskFileStore's folders | |
| `FileStoreProofs` | theorems about FileStore | FileStore, TLAPS |
| `Gaia` | GaiaApi's locks and conditions around them | FileStore |
| `Register` | abstract: a conditional register for each path, which Gaia implements | |
| `GaiaProofs` | theorems about Gaia, the refinement among them | Gaia, TLAPS |
| `DynTableStore` | SQLiteDynTableStore: the schema table and the tables | |
| `TinyDb` | HelpfulTinyDb's keys and tables over it, the node's own tables and their releases | DynTableStore |
| `TinyDbProofs` | theorems about TinyDb and the store below it | TinyDb, TLAPS |
| `Places` | what JavaScript's `filter` keeps of an array | |
| `Router` | routes, the chain, errors, the fields of a request | Places |
| `FileAccess` | FileApi's paths: cleaning, folders, permissions | Places |
| `Query` | queries compiled to SQL and evaluated in memory | |
| `Requests` | the routes and handlers of every API, as the examples wire them | Router, FileAccess, Query |
| `RouteProofs` | lemmas about routes: which handler always comes after which other, what parameters are | Requests, TLAPS |
| `RequestsProofs` | theorems about Requests | RouteProofs |
| `MCAuthCore`, `MCHandshakes`, `MCFileStore`, `MCGaia`, `MCTinyDb`, `MCRequests` | initial databases, values and symmetry for TLC | |

Three families share no variables: accounts and handshakes, files, tables and keys.
`Requests` stands in front of all of them and follows one request from its URL to the
handler; there the effect on accounts, tables or files is only "this handler ran, on these
paths or keys", and how it then proceeds await by await is what the other modules model.

**How a request is modelled.** `req[r]` is the local state of the request in slot `r`:
`pc` says at which await it resumes, and the other fields are the variables of its
handler (`ses`, `usr` as the middleware read them, the `row` it will insert, the `ids` it
listed). An action is the code from one await to the next. `Start(r)` is whatever a client
may begin; `Continue(r)` is one disjunct per await of a handler. `Answer` ends a request:
the status is named where the code names it, and no property is about it.

| code | actions |
|---|---|
| login | StartLogin, AddSession, Sign |
| register | StartRegister, AddUser |
| validateUserSession | StartAuthed (find the session), Verify (token's lifetime, user) |
| change-pass | ChangePass, ListIds, DelManySessions |
| DELETE /sessions/:id, DELETE /sessions, logout, refresh | FindSession and DelSession, DeleteSessions, Logout, AddSession and DropOld |
| DELETE /self | DeleteSelf, DelUser, PostUserDelete, then Purge in the background |
| generate-session | StartGenerate, KeyUser, AddSession, Sign |
| POST, PUT and DELETE of /master-key | AddMasterKey, DropMasterKey |
| cleanSessions, cleanHandshakes | CleanSessions and Purge, CleanHandshakes and DelManyHandshakes |
| handshake: start, view/approve/cancel, complete | StartHandshake; TestHandshake, PickCode, PutHandshake, DelHandshake; Complete, SpendHandshake, OwnerOfHandshake, AddSession, Sign |
| FileApi.write, saveFile | StartWrite; Ls and Mkdir for each folder (ensurePath); Open, Pipe for each chunk, Abort; Stat; SetInfo |
| FileApi.delete, deleteFile | StartDelete, Remove; for each folder upwards Tidy (sizeOf: stat of one entry) and List (its readDir) until all is looked at, and Rmdir; DelInfo |
| GaiaApi store, delete | Store, Delete (look at the lock, read the etag); Check (conditions, lock again); FileStore's steps; LoseBody; Unlock (finally) |
| SQLiteDynTableStore create | InsertSchema, CreateTable, Finish |
| redefine | Define, Compare; Swap or the way of create |
| drop, dropMany, dropPrefixed | Drop; DropMany; DropPrefixed |
| HelpfulAuthDb.init at the start | Boot, RedefineNext for each of its tables, End (Booted) |
| HelpfulTinyDb tables | Register, CreateNext for each type and End; DropTable; DropAll; AddRow, Handle (table()) and InsertRow |
| HelpfulTinyDb keys, delAllUserData | KeyValuePut, KeyValueDel, KeyValueBatch, KeyValueSearch; DelAllUserData |
| Router.process | Receive and Pathfind; then one disjunct for each handler's turn: Pass (next), Answer, Throw; Unwind, Finish, Reject |
| handlers | Log, Guard (handleError), RequireUser, OptionalUser, ContextIdentifier, MustBeUser, TestHandshake, Endpoint, Dump, DbCall, GraphQL, ValidatePathOf, ReadFile, WriteFile, DeleteFile, ListFiles, StorageStats, BatchInfo, StoreInfo, GetInfo |

**What is abstracted.** Hashing is comparison of passwords; salts, secrets and ids are
values never drawn twice; a signed JWT is membership in `tokens`; the time is only
"this session's (handshake's) lifetime is over" (`expired`, `overdue`), which the
middleware reads at the moment it reads the user. Malformed bodies, which are refused
before any await on the database, and routes that only read are left out. A collections
and permissions pair is one `scope`. Files are sequences of chunks; a folder is the
sequence of its names; time is a clock of `MaxTime` ticks, whose value is the etag.
A SQL table is its columns, its indexes and its rows. A joined name is the sequence of the
pieces between its separators, wherever these came from: `u1_a_b_T` is `<<"u1", "a", "b", "T">>`, whether
`a_b` is the app or `b_T` the type (`Split` cuts the app's name). Keys are cut at `!!` likewise; an app whose
own name holds `!!` is left out. What `LIKE` takes for the beginning of what is given by the
set `Likes`, of which the proofs assume only that it finds every name that does begin so and
nothing of another user, so that wildcards and case are covered; `Folds` are the words that differ only in case,
and `Escaped` is what a search makes of a scope. URLs are sequences of parts, bodies are what the
handlers read of them. A route fits a URL in a *way*: the set of the route's parts that take a
part of the URL, the others being optional ones left out. URLPattern takes the greedy way.
What is found, and what is left of a path that is cleaned, are the elements at a set of
places (`Pick`), not a recursion: the provers can reason about the one and not the other.

**Microtasks.** GaiaApi reads an etag from the database and takes the lock an await
later. A promise of the database is already settled, so that its handler resumes before
the result of any disk operation, which comes through the queue of the event loop. `ahead[s]`
is the set of handlers that had read when `s` took its lock: they go before the first disk
step of `s`. Without this a handler could take a lock with an etag that is out of date;
with it, `ConditionsHold` holds, and this is the reason why. Elsewhere the awaits of two requests
may take any order, which allows more than the queue does: a login reads its session back in
fewer turns than a change of password takes to list and delete it, so that what `Sign` answers to
a login whose session has gone is never answered. No property rests on that order.

**As in the code, and not as one might expect.**

- *Accounts.* DELETE /sessions fails on its statement; a master key can be neither updated
  nor deleted (the arguments of `getMasterKey` are swapped at `auth-api.ts:486`); refresh
  answers with a session id, which is no token; a handshake is spent before its terms
  are compared; its age is not looked at on completion; `cleanSessions` and
  `cleanHandshakes` are called by nobody in the repository, so the model lets an embedder
  call them at any time; `allowRegistration: false` is told by `/can-register` and enforced
  nowhere.
- *Files.* A deletion that tidies removes the name of a folder that it found empty; a file
  that took the name since goes with it (`disk-file-store.ts:123`). `UntornAgree` leaves out
  the paths where that can happen, `OthersKept` states the case. `sizeOf` walks through a folder
  in several awaited operations and fails when an entry vanishes meanwhile, which fails the deletion
  after the file is gone and before its row is. FileApi and GaiaApi share the files but not the
  locks, so that `Gaia` is about GaiaApi's requests alone.
- *Apps' folders.* The folders of an app are those of the context in the URL, and nothing compares it
  with the session's: the session of one app writes, deletes and lists in the folders of any other,
  reads there, and writes in the other's folder of its own collections
  (`file-api.ts:102-131`), against `types.ts:36-43` and `src/README.md:91-92`. The run `other_apps` shows it;
  `WritesGranted` and `ReadsGranted` say what holds.
- *FileApi's endpoints.* `/list-files` without `?advance` fails, because both branches call
  listFilesAdvance (`file-api.ts:180`); `makePath` gets the `~` of a URL unresolved, so that an
  app is forbidden `/~/~/files/private/...`, which API.md:87 offers; storage-stats passes the
  user object for its id; list-files and batch-info are registered outside `handleError`; a
  secure context never resolves a user; `makePath` ignores the root `collections`, which API.md:107 describes
  (the folder of collections is that of a context called so).
- *GaiaApi's endpoints.* The middleware has no `:address` in its route and refuses
  everybody; `If-None-Match: *` on a missing file is answered 412, against the comment at
  `gaia-api.ts:231`; HEAD and GET look up other keys than store wrote. An upload holds its lock
  for as long as its client takes (`gaia-api.ts:268`).
- *Tables.* A crash between the schema row and the table leaves the row, and the next start
  compares definitions, finds them equal and serves without the table; a drop in between takes the row
  and leaves the table. `SchemasDescribeTables` excepts these names (`torn`). `dropMany([])` is no
  SQL, so that DELETE /tables of a scope without tables is an error; PUT /tables/:name creates
  and never replaces; `#translateSchema` takes the third piece of a name for the table's, which
  is the wrong one for the user's own tables and for apps with a `_` in their names, and so
  drops nothing, or another table of the same beginning.
- *Joined names.* `_` and `!!` are refused in no name (`helpful-tiny-db.ts:42-44, 93-95`): the user's
  type `app_T` is app's type T, and app a's type `b_T` is app a_b's. `OwnTablesOnly` therefore speaks of
  how names begin. Tables are listed by a prefix without a separator after it (line 121), so that
  `app` is shown `app2`'s schemas; `LIKE` takes a `_` for any character and ignores case.
  Two tables whose names differ only in case are one to SQLite and two rows to the schema table;
  the models leave such names out. The scope of a secure app is its hash (`tiny-db-api.ts:18-26`), not
  `secure!{hash}` as `types.ts:52, 58` has it, and may be an app's name.
- *Keys.* `delAllUserData` deletes by a prefix without the separator after it, and so reaches
  the data of every app of the user whose name begins with the given one's; a batch stores
  "null" where put deletes; a search in the user's own scope returns the apps' entries too. The escape
  of a search's prefix names a group that its pattern does not have
  (`sqlite-key-value-store.ts:92`), so that an app with `_`, `%` or `@` in its name finds nothing of its own:
  the run `search`. `/:context/:identifier/db` compares the context with the session's no more than
  files do: the session of an app may name any scope of its user.
- *Dumps.* `/dump/*` of the examples gives anybody every key and every table (`examples/common.ts:140-144`).
- *Queries.* `resolveExpr` swaps the sides of `$gt`, `$lt`, `$gte` and `$lte`
  (`db-util.ts:122`), so that in memory only equality is the same, and that not
  quite: a row without a value is found by `$ne` in memory and not in SQL. Several operators on one
  field, `$not`, `$or`, `$and` and `$nor` compile to SQL that names no column.
- *Router.* The fields of a request are given back when a chain returns, and not when it
  throws; `use('/auth')` matches `/authors` too; `validateUserSession` returns `next()`
  unawaited, and catches what is thrown before anything was awaited: although the line says "pass
  through errors" (`auth-middleware.ts:46`), `requireUser` answers 500 to the 403 that `mustBeUser`
  throws (`auth-api.ts:366-367, 475-477`), before a guard sees it.
- *WebFinger.* What is stored under a user's id is looked up under the username, and never
  found.

## Runs

| run | asks | bounds | found |
|---|---|---|---|
| `accounts` | do names stay unique, does anybody act for the gone, does anything return; does a change of password revoke all there was, does only the owner revoke and change an account? | one user registering, logging in, making keys and leaving, or two users with a user's session and an app's; 4 user ids, 3 session ids, 1 key, 2 names, 2 passwords, 2 requests, crash; with one user expiry and one sweep | holds |
| `purge` | do a deleted user's sessions go, when nobody waits for it? | 1 user, 3 sessions, 2 requests, fair, no crash | holds |
| `handshakes` | whose session does a completion give, do closed handshakes stay closed, is every session given for something that was good (each step one of Sessions)? | 1 or 2 users, 3 sessions, 1 key, 1 handshake, 2 codes, 3 terms an app may claim, 2 requests, crash; with 1 user expiry and sweep | holds |
| `files` | do file and row agree, and does a file change but by requests of its own? | paths `f`, `d` and `d/g`, bodies of no chunk and of one, 2 requests, aborts, crashes | holds, but for a file that took a folder's name |
| `gaia` | does the lock keep writers apart and go, are conditional writes conditional? | 1 path, 3 requests, a body of 2 chunks, every combination of headers, 2 clock ticks, aborts, crashes, fair | holds; the lock of an upload that waits for its client stays |
| `data` | do schema rows describe tables, do migrations keep rows, does a scope reach beyond what its name begins, do searches find their own? | a user with types `a_b_T` and `axb_T`, apps `a_b` and `axb` with a type T, 4 tables (two of them the node's), 3 keys (one of an app `A_B`), 1 row id, 3 definitions, 2 requests, 2 versions, crashes | holds, but for names cut off halfway and names a search misspells |
| `requests` | who answers errors, who reaches which files, in whose name is the database asked, do searches find what they say? | about 6000 requests, one at a time, with sessions of a user, an app, a secure app, another user and none; queries of one or two conditions over 8 rows | holds |
| `revoke_all` | does DELETE /sessions revoke (API.md:40)? | 1 request | **no**: it throws |
| `leftovers` | does DELETE /self delete all user data (API.md:19)? | no crash, nothing left running | **no**: master keys stay |
| `approved_scope` | does a completed handshake's session have the scope approved (common/types.ts:41)? | as `handshakes` | **no**: it is dropped |
| `other_apps` | does an app write only in its own folders (common/types.ts:36-43)? | as `requests` | **no**: in those of any app that the URL names |
| `search` | does an app's search find what it stored (common/types.ts:48-50)? | as `data`, 1 request | **no**: not if its name has a `_` |

**Why the bounds are enough.** What the properties relate is one user's row, one session's
row, at most two requests that race for it and one background deletion. Two slots, each
running the run's operations and reused once it answers, with the background
deletion, the sweep, expiry and crashes in between, produce the orders of the awaits of
two requests, as far as one new session, one key and what `Traffic` leaves of the operations go: not, for
instance, two logins beside each other, for which the ids do not suffice. The theorems cover
those, and races of more requests. Ids are drawn in any order (they are opaque, so the first unused
one stands for all), and `RoomFor` only keeps clients from starting what has no id left;
every started request can finish. Each bound is named where it is declared: the finite id
sets, `Expiring`, `MaxPurges`, `Started`, `Traffic`. The initial database of the MC modules is one
that `Init` reaches: registered users who logged in, of whom one may have left, and an app's session.
Symmetry over the slots of requests is used in safety runs only.

`accounts` starts in one of two databases, told apart by `Two`. With two users and an app's session beside a
user's own, requests log in, refresh, revoke, change passwords and leave: what can go wrong is that
one's request reaches another's session or account, or misses one of its own. With one user left,
requests register, log in, make keys and sessions with them, log out and leave, and sessions expire: what can
go wrong is two accounts of a name, or something done for an account that went. `handshakes` likewise: with both users,
requests are about handshakes and deletions, with all terms and codes, and what can go wrong is that one
user's approval gets into the other's session; with one, who has one code and whose app claims what
is right, there is each way to a session, expiry and the sweep, and what can go wrong is that the user,
session, key or handshake goes between the await that looks it up and the one that adds the
session, for which a second user is no matter. `Traffic` says so in the MC modules, as a constraint on steps.

`files`: two operations share a folder only if their paths do, and the paths are the smallest
ones that do in each way there is: beside each other at the root, and one named like the
folder of another. An empty body and one of a chunk differ in whether the loop over chunks
runs. `Traffic` takes one request at most for the file beside the folder, whose own interleavings
the other two paths have. `gaia`: three requests, since the lock is about the third that comes while
one works and another waits with an etag in hand; two etags, since a version is old or current; two
chunks, since an abort falls between them or before. One path is enough there: locks
and rows of different paths do not meet, and folders are the subject of `files`.

`data`: the names `a_b` and `axb` meet in what LIKE makes of the one; the user's type `a_b_T` is the app's
table, and cut at its third piece it is another's name; three definitions give
a release that adds a column in front, one that puts columns in another order and one that
would lose a column, which redefine refuses; two tables of the node, since the process serves after
the last; `traffic` lets a behaviour use keys, tables or the node's own tables, because keys live in a table of their
own; `MaxVersion` bounds releases. `requests`: each route with each kind of session, and the
contexts, identifiers and roots that the code tells apart, with paths that hold dots, other
apps' folders and names beginning with a root's; every query of one operator on one field,
and every pair on two. One request at a time: nothing a handler keeps between two
requests decides where the next one goes, but the fingers stored.

**Fairness.** `Fairness` is weak fairness of each request's continuation and of each
background deletion: once its statement has run, the event loop resumes a continuation,
and nothing in the code cancels one. Clients, clocks and sweeps are under no fairness.
`DeletedUsersSessionsGo` is checked without crashes, because the code does not
resume a purge after one. `GaiaFairness` is weak fairness of each request's next step
(`GaiaStep`) unless it waits for its client: a continuation comes, and a disk operation ends or fails; a body
that is read behind the lock (`Waiting`: the chunks of a stream, or `req.text()`) need never end, and
`LocksFreed` says that this alone keeps a path locked. A crash empties the locks, which are in
memory, so that it is checked with crashes.
Deadlock is checked in every run: a client can always start something, or the run's ids are
used up and requests still answer.

**Refinement.** `Sessions` says what accounts promise: a client asks for a session when
something stands that it may be given for, namely an account (login), a session that has not expired (refresh), a master key
(generate-session) or a user's consent (handshake), and with its user there; later it is given just this
session, under an id never known before, or refused. Sessions go by their user's will, with their user or
by age, and none is ever changed. Handshakes, composed with AuthCore, implements it: tables are
the service's, and `Owed(r)` is what request `r` has yet to be given, from the await that finds what it
presents to the one that adds the row; a refresh is owed its session when the middleware has found
it, a completion when it has read the handshake, although the user is only looked up later. A
request that began for what was gone already (`stale`) is owed nothing, so the refinement needs that it is refused.
Checked by `handshakes` as `SessionsAreGiven` and proved as `AccountsAreService`. `Register` says what conditional writes promise: a call names the versions
it may replace, and takes effect at one moment, when the register holds one of them, or not at
all. `Gaia` implements it under the mapping `Versioned` (the register is the etag in the
file's row, a call is a request that has read its etag and not finished), checked by `gaia` as
`ConditionsHold` and proved as `RowsAreRegister`.

**Mutants.** Each property is shown to depend on the code: for each there is an operator
that changes one definition as a plausible bug would (no unique index, a middleware that
does not look the user up, a put that inserts, a listener that lists rows for ids...), and
with it TLC finds the property violated. They stand before the definitions they
change and say "a bug the code avoids".

## Theorems

Thirty-two theorems in eight modules, for any number of users, sessions, keys, names, paths,
bodies, tables, definitions and requests.

`AuthCoreProofs`:

- `TypeCorrect`: `TypeOK` always. `Request` includes `Holds`, what a request holds at
  each step; without it types are not inductive, since a handler that inserts `req.row`
  keeps the table's type only if there is a row.
- `DeletedStaysDeleted`: `NothingReturns`. From three lemmas on what one step may do to a
  row (`UsersChange`, `SessionsChange`, `KeysChange`): rows are inserted under ids
  never drawn, `put` finds a row or does nothing.
- `GoneUsersDoNotAct`: `NeverActsForTheGone`. The property is not inductive: it says
  nothing of a request that has not been checked yet. `ActsInv` adds that what was gone when
  a request began is still gone when it is checked (`Sound`), which needs that users named
  by rows and requests were drawn (`IdsDrawn`), for otherwise a registration might make
  the deleted user appear.
- `NamesAreUnique`: `UsernamesUnique`. `NamesInv` adds that the row a handler of
  change-pass holds has the name that the user has now (`NameKept`): change-pass writes
  the whole row back, and only because no step renames a user is that harmless.

`OwnershipProofs`, from `OwnerInv`, which says of every list of sessions in hand what is
still true when it is used: a request's lists name its own user's sessions or ones that are gone
(`Owned`, `Mine`), the background's lists name sessions that expired or whose user is gone
(`Purgeable`). It holds because a session never changes hands, ids are not drawn twice and
deleted users stay deleted.

- `PasswordRevokesAll`: `RevocationComplete`. What must go is in the list that is deleted, or
  gone already: a session of the user that was there when the password was stored cannot
  be missing in a list made later.
- `OwnersAccount`: `AccountNeedsOwner`.
- `OwnersRevoke`: `OnlyOwnerRevokes`.

`HandshakeProofs`, from `HsInv`, about Handshakes composed with AuthCore; each step of AuthCore
is one of its specification's steps that leaves the handshakes alone (`CoreKeeps`), and each
step of a handshake changes one slot as AuthCore's requests do (`SlotKeeps`), so that `ActsInv`
is reused and not proved again.

- `HandshakeTypes`: `HsTypeOK`.
- `CompletionIsApprovers`: `SessionIsApprovers`. `RowsHeld` ties the code in a row to the
  approval that gave it, `CodesApart` and the codes not given yet keep a second approval from
  carrying the same, and `Completing` says that what a completion has read outlives the row.
- `CompletionsDoNotActForTheGone`: `NeverActsForTheGone` of the composition. A completion
  does not pass the session middleware; it looks its user up itself.
- `ClosedForGood`: `HandshakesStayClosed`.
- `AccountsAreService`: `SessionsAreGiven`, from `ServiceInv`: `HsInv` with the invariants of names and
  of ownership, which carry over because a handler of a handshake moves its own slot and
  touches no table of AuthCore (`Handled`, `HandledKeeps`). `OneOwes` turns a step of one slot into a change of
  what one request is owed, and `OwingServes` such a change, from nothing to what is good or back, into
  a step of the service. Then each kind of step serves: `StartOwes`, `CheckOwes`,
  `AddServes`, `RevocationServes`, `AccountsServe`, `KeyServes`, up to `CoreServes`; `ApprovalServes`,
  `DecisionOwes` and `CompletionOwes` for the handshakes. Where a row goes into the table the proof
  needs that ids are fresh; where a list of sessions is deleted, that all of it is still one user's
  (`OwnerInv`); where an account is written back,
  that its name is still what was read (`NamesInv`).

`FileStoreProofs`, from `IInv`. Its lemmas show that each step of an operation has an `Effect`:
it moves on its own request, changes the file and row of its own path, and takes from other
requests at most the name of an open file that stands where its path has a folder. One lemma
(`EffectKeeps`) then shows that whatever has such an effect keeps the invariant.

- `FileTypes`: `FilesTypeOK`. `Tree` is the shape of the folders; `Sound` says what a request
  holds at its step, such as that it tidies only folders of its own path below the root.
- `WholeFiles`: `UntornAgree`. The property speaks of paths nobody works on; `Whole` extends it
  to paths on which nobody is halfway. `Alone` says that a request is the only one on its
  path or the path is torn; `Kept`, how far a lone request has come with its file, chunk by chunk.
- `OthersFiles`: `OthersKept`, of the step that a request takes: its own path, or, where it removes a
  folder, the path of that name. A folder is removed only when nothing is in it at that moment,
  whatever the walk through it has seen before.

`GaiaProofs`, from an `IInv` of its own:

- `OneWriter`: `NoTwoWriters`. Whoever works holds the lock of its path (`Held`), and no two
  hold one (`Apart`).
- `RowsAreRegister`: `ConditionsHold`. The row that a request has read is still the file's when
  the request takes the lock (`Fresh`), because whoever works on the file waits for those that
  had read it before it (`Waits`, about `ahead`); the version it found is one it may replace
  until its last step, which replaces it (`Allowed`). A step of a file operation changes no
  row but the last one of its own path (`Effect`, once for each action), and so every step is a
  step of the register or leaves it as it is.

`TinyDbProofs`, from `IInv`. Every step under way either leaves the tables alone (`Quiet`),
inserts a schema row and waits to make its table (`Inserted`), or is one of the transactions;
for those, `KeepsAll` says what it takes to keep the invariant.

- `DataTypeCorrect`: `DataTypeOK`. That rows have a cell for each column is not inductive by
  itself: a migration takes the cells of the old table at the places that the old *definition*
  gives. It needs that whoever redefines holds the definition that is still in the row
  (`Fresh`), which follows from nobody else being served while the process starts (`Alone`),
  and that the node's own tables have the columns that their row says, torn or not (`NodeTold`).
- `TablesAreDescribed`: `SchemasDescribeTables`. `Told` adds who is between the row and the
  table: at most one request for a name, and its row is the one that is there.
- `RowsAreKept`: `RowsKept`. The statement that copies takes all columns of the old table, so
  that it succeeds only if no column is lost; then (`KeptAll`, a lemma on cardinalities) the
  columns kept are the old ones in their order, and each cell lands under its column.
- `TablesAreOwn`: `OwnTablesOnly`. `Bound` says whose names a request holds: names that begin
  with what its scope is joined to (`Own`), wherever the separators in them come from. Names that were
  listed by LIKE, cut and joined again (`TranslatedFacts`) do, because they are joined to the same
  scope again; whether they name the table that was listed is another matter, and not claimed.
- `SearchesFindOwn`: `SearchFindsOwn`, for a scope that the search does not misspell: then the words of a
  key are compared one by one, the scope's among them, up to case.

`RequestsProofs`, about every API as the example wires them, for any URLs, methods, sessions,
bodies, rows, users and prefixes. The argument has two halves.

The routes (`RouteProofs`). `Leads(m, n)` says when a step that fits whenever step n does stands
for it in front: m has no method or n's, and its route *heads* n's, is the beginning of it and
ends with a part after which `use` lets anything follow. That is the point where the
registration order of the source decides: a `get` instead of a `use` in front of
`/sessions/:id`, or one registered later, leads no more. `Led` says it of all steps of one
kind, `Beside` and `Behind` what else stands next to or after a step; `JoinedLed` and
`MountedLed` compose them along `\o` and `Mount`, so that each API's routes are looked at once,
by themselves (`CoreRoutesSound`, `HandshakeRoutesSound`, ...), up to `AppSound`. `FoundLed`
carries it from the routes to the chain that a request finds, since `Pick` keeps the order.
`ScopeParams`, `PathParams` and `ListParams` say what the parameters of the routes behind
`/:context/:identifier` are, for URLs of any length: the greedy way is worked out from the
optional parts it may leave out.

The requests. `Inv` says what the handlers that have been passed have seen to: the session is
the token's once a session middleware has been passed and a user's once `mustBeUser` has
(`Sessioned`), the context is the URL's, resolved (`Contextual`), the path is granted and clean
(`Granted`). An endpoint's property then follows from the chain: that middleware stands before
it, all before it have been passed. A middleware that runs twice in one chain, as the nested
routers have it, must not undo this; and an error that a middleware catches may resume the chain
(`UnwindCases`), which must be shown to happen only where the session was not needed: an optional
session stands directly before `contextIdentifier`, which is async, or before `self`, which
does not throw (`Beside`).

- `Invariance`: `Inv`, and `TypeCorrect`: `ReqTypeOK` from it.
- `ErrorsAnswered`: `ErrorsStayInside`. `Thrown` follows an error through the handlers it
  leaves, and, as long as it is synchronous, through none that is async.
- `SessionsProved`: `SessionBeforeUse`.
- `WritesAllowed`, `ReadsAllowed`: `WritesGranted`, `ReadsGranted`. `PathsGranted` shows that
  what `validatePath` grants for a path, after cleaning and with the context of the URL, is what
  the resolved context allows; which is where the two ways to resolve `~` could part. Whose folders
  these are is the URL's matter: of the session only the user counts.
- `PathsStayDown`: `PathsClimbNowhere`. `PathsClean`: nothing of dots is left of a path.
- `AskedInOwnName`: `AsksInOwnName`. The user is the session's, the scope the one that the URL names;
  what the names are joined to is TinyDb's subject.
- `PromisesHold`: `PromisesKept`, by a second invariant on top of `Inv`. `Kept` says that whatever
  was forbidden had not been promised and that behind `validatePath` a session has been granted
  all it was promised. The first part needs to know who can answer a file's URL with 403 at all:
  `AppApart` and `FarAway` show that every handler that may refuse, besides those of files,
  stands under `/auth` or `/gaia` or on a route of at most four parts without a rest, and so
  fits no such URL. The second is the counterpart of `PathsGranted`: what `UserAllowed` and
  `PathAllowed` find in the folders that the session may write, `validatePath` does not refuse,
  whatever follows in the path.
- `SearchesMean`, `SearchesAgree`: `SearchMeansQuery` (`SelectedMeans`: each condition finds its
  own parameter) and `EqualityAgrees`, which compares with what SQL selects.

All of them rest on the named assumptions of the modules and nothing else: `ConstantsAssumption` and
`NoRowAssumption` (kinds of ids are disjoint, the empty scope is a scope, no row is the mark for
its absence), `TermsAssumption` and `HandshakeAssumption` (what apps ask for is made of apps,
redirects and scopes), `FileAssumption`, `BodiesAssumption`, `NothingAssumption` and
`GaiaAssumption` (there are paths, they are sequences of names, bodies of bytes, nothing is
neither), `StoreAssumption` and the store's own `NothingAssumption` (definitions end with the id, which
is required), `TinyDbAssumption`, `LikeAssumption` and `KeysAssumption` (node tables do not begin with a
user's id; LIKE finds every name that begins with its text and nothing of another user; keys begin with
the user's id, a word is its own in case). TLC
evaluates each on the runs of its module. Those of Requests: `SentAssumption` (the parts of URLs
are strings; a session's user is a user and has an id, and neither its context nor its identifier is
empty: `auth-api.ts` refuses an empty username, app, context or identifier), `BeginsAssumption`
(`sessions` begins with itself), `BodiesAssumption` (a body that reaches GraphQL is a query on
columns the rows have, one that reaches batch-info a list of paths, of which splitting leaves at
least one part), `DotsAssumption` and `NullAssumption` (the names the code writes out are not made
of dots, NULL is no number), `RequestsAssumption` (nothing is no name) and `HandlersAssumption` (guards have names of
their own, the two session middlewares are those that the code makes, `contextIdentifier` is async).
Which other handlers are synchronous, and which names begin which others, is left open.

The proofs are about `Spec` of AuthCore, FileStore, TinyDb and Requests, `HsSpec` and `GaiaSpec`,
which start from an empty database; the runs of accounts start from `MCInit`. The invariants were
checked by TLC before they were proved.

**Only model-checked.** `DeletedUsersSessionsGo` and `LocksFreed`: liveness is out of the prover's
reach. The runs that expect a violation show a behaviour, which is no theorem.

**What `PromisesKept` leaves out.** API.md promises more than the code can keep, for names that it
takes to mean something else. `Promised` names them: contexts that begin the routes of other APIs
(`/auth`, `/gaia`), where an app's URL is answered by those; a user or a context called `~`, which
the middleware resolves and `makePath` does not; and an app called `collections`, whose folder
`makePath` gives to the collections. The code does not keep such names from being registered.

## Not modelled

- Reading and layout: listings, the bodies of answers, `readFile`, `getStorageStats`, the
  session lists; they change no state. Requests has their endpoints.
- GaiaApi's revoke-all and list-files: behind a middleware that refuses everybody as wired.
- Queries with several operators on one field, `$or`, `$and`, `$nor`, `$not`, `$in`, `$nin` and
  the operators on arrays: they compile to SQL that names no column or to text patterns.
- GraphQL's translation of schemas and mutations: text handling; the endpoint and a
  query as a search are in Requests.
- The prefix that a client may add to a search of keys.
- `SQLiteTinyDb`, `StorageKeyValueStore`, `batch` of tables,
  `putMasterKey` and `delMasterKey`: nothing in the node as the examples wire it calls them.
- ActivityPub and the inboxes (types and stubs), the Postgres client (no table uses it), crypto
  wrappers, the adapters to Oak, std and the PAL (I/O).
- Races of more requests than a run has slots, where no theorem says more.

## Plan

In the order of the plan, with what became of it; no module that is proved about uses
RECURSIVE.

1. Done: DynTable, AuthCore, Handshakes, their runs, and all their safety properties as
   theorems.
2. Done: FileStore, checked and proved.
3. Done: Gaia over FileStore against Register, checked and proved.
4. Done: FileAccess and Query, checked and proved within Requests.
5. Done: TinyDb (keys and tables) and DynTableStore, checked and proved; Router and Requests,
   checked and proved.
6. Done: Sessions, which AuthCore and Handshakes together implement, checked and proved.
