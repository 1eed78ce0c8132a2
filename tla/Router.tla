------------------------------- MODULE Router -------------------------------
(***************************************************************************)
(* Router: finds the handlers whose routes fit a request, in the order in  *)
(* which they were registered, and runs them as a chain in which each one  *)
(* decides whether to call the next.                                       *)
(*                                                                         *)
(* A URL is the sequence of the parts between its slashes (the last one is *)
(* "" after a trailing slash), a route a sequence of patterns for them.    *)
(* Requests adds the routes, the handlers and the next-state relation.     *)
(***************************************************************************)
EXTENDS Places, SequencesExt

CONSTANTS
  Begins,       \* the pairs of parts of which one starts with the other
  Nothing,      \* undefined
  Host,         \* what a host had put into a request's fields before
  Guards,       \* the names of the handlers that handleError makes
  Sessions,     \* and validateUserSession
  Synchronous   \* those that are not async: what they throw passes at once through
                \* their callers up to the first that is

VARIABLES
  req,      \* the request, on which handlers leave what the later ones need
  chain,    \* the handlers found, each with its route
  at,       \* i of #condense: the place in the chain of the next one
  frames,   \* the handlers that have called next() and not been answered
  outcome   \* what the last handler did

routerVars == <<req, chain, at, frames, outcome>>
-----------------------------------------------------------------------------
(* Routes. *)

Part(is, name, of) == [is |-> is, name |-> name, of |-> of, opt |-> FALSE]
Lit(name)      == Part("literal", name, {name})   \* name
Par(name)      == Part("param", name, {})         \* :name
OneOf(name, S) == Part("oneOf", name, S)          \* :name(a|b)
Rest(name)     == Part("rest", name, {})          \* :name(.*)
Filled(name)   == Part("rest", name, {""})        \* :name(.+)
Maybe(part)    == [part EXCEPT !.opt = TRUE]      \* ...?

\* URLPattern: a way to fit a route to a URL is a set of the route's parts, each of
\* which takes the next part of the URL, and a rest all that is left of it (unless that is
\* no more than what the rest is not of).  Only what is optional may be left out.
Takes(part, name) ==
  CASE part.is = "literal" -> name = part.name
    [] part.is = "param"   -> name # ""
    [] part.is = "oneOf"   -> name \in part.of
    [] part.is = "rest"    -> TRUE
IsWay(route, url, way) ==
  /\ Cardinality(way) <= Len(url)
  /\ \A i \in way : Takes(route[i], url[Rank(way, i)])
  /\ \A i \in way : route[i].is = "rest" => Rank(way, i) = Cardinality(way)
  /\ \A i \in way : route[i].is = "rest" /\ Rank(way, i) = Len(url) => url[Len(url)] \notin route[i].of
  /\ Cardinality(way) = Len(url) \/ \E i \in way : route[i].is = "rest"
Optional(route) == {i \in DOMAIN route : route[i].opt}
Ways(route, url) ==
  {way \in {DOMAIN route \ out : out \in SUBSET Optional(route)} : IsWay(route, url, way)}

\* The way taken is the one that leaves out as late as it can, and what it binds.
Greedy(ways) ==
  CHOOSE way \in ways : \A other \in ways \ {way} :
    \E i \in way \ other : \A j \in 1 .. i - 1 : j \in way <=> j \in other
Bind(route, url, way) ==
  LET named == {i \in way : route[i].is # "literal"} IN
  [n \in {route[i].name : i \in named} |->
     LET i == CHOOSE i \in named : route[i].name = n
     IN IF route[i].is = "rest" THEN SubSeq(url, Rank(way, i), Len(url)) ELSE url[Rank(way, i)]]

\* route + '(.*)', for use(): anything may follow the route's last character.
Extends(route, url) ==
  \/ route = <<>>
  \/ \E k \in 1 .. Len(url) :
       /\ Ways(Front(route), SubSeq(url, 1, k - 1)) # {}
       /\ \/ Last(route).is = "literal" /\ <<Last(route).name, url[k]>> \in Begins
          \/ Last(route).is \in {"param", "rest"}
Matches(route, url, extra) == Ways(route, url) # {} \/ (extra /\ Extends(route, url))

\* parseParams appends an optional rest of its own to the route.
ParseParams(route, url) ==
  LET with == Append(route, Maybe(Rest("tiny_else")))
      ways == Ways(with, url)
      bound == Bind(with, url, Greedy(ways))
  IN IF ways = {} THEN <<>> ELSE [n \in DOMAIN bound \ {"tiny_else"} |-> bound[n]]

\* Steps: the handlers of use(), get(), put() ..., one after the other, and for a router
\* given to use() its own ones in its place.  (A step names the routes of the routers it
\* is in.)
On(type, route, name) == [within |-> {}, route |-> route, type |-> type, name |-> name]
Use(route, name) == On("", route, name)
Mount(route, steps) ==
  [i \in DOMAIN steps |-> [steps[i] EXCEPT !.within = {route} \cup {route \o w : w \in @},
                                           !.route  = route \o @]]

Fits(step, url, method) ==
  /\ step.type \in {"", method}
  /\ \A w \in step.within : Matches(w, url, TRUE)
  /\ Matches(step.route, url, step.type = "")
Pathfind(steps, url, method) == Pick(steps, {i \in DOMAIN steps : Fits(steps[i], url, method)})
-----------------------------------------------------------------------------
(* The chain. *)

Idle == [is |-> "idle", by |-> "", status |-> 0, sync |-> FALSE, under |-> <<>>]
Ended == {"idle", "answered", "unanswered", "rejected"}

NoContext == [context |-> Nothing, identifier |-> Nothing, user |-> Nothing, path |-> Nothing, perm |-> "none"]

\* process()
Receive(q, steps) ==
  /\ outcome.is \in Ended
  /\ chain' = Pathfind(steps, q.url, q.method)
  /\ at' = 1 /\ frames' = <<>>
  /\ req' = [q EXCEPT !.query = q.asks, !.context = NoContext]
  /\ outcome' = [Idle EXCEPT !.is = "running"]

\* The wrapper of a handler sets the parameters of its own route.
Turn(name) == outcome.is = "running" /\ at <= Len(chain) /\ chain[at].name = name
Params == ParseParams(chain[at].route, req.url)
Called == [req EXCEPT !.params = Params]

\* What a handler may do: call the next one, answer, throw.
Pass(q) ==
  /\ req' = [q EXCEPT !.params = Params] /\ at' = at + 1
  /\ frames' = Append(frames, chain[at].name)
  /\ UNCHANGED <<chain, outcome>>
Answer(status) ==
  /\ req' = Called
  /\ outcome' = [Idle EXCEPT !.is = "answering", !.by = chain[at].name, !.status = status]
  /\ UNCHANGED <<chain, at, frames>>
Throw(status) ==
  /\ req' = Called
  /\ outcome' = [is |-> "thrown", by |-> chain[at].name, status |-> status,
                 sync |-> chain[at].name \in Synchronous, under |-> frames]
  /\ UNCHANGED <<chain, at, frames>>

\* handleError awaits next() inside its try; validateUserSession returns it, so
\* that its catch sees only what is thrown before anything was awaited, and only
\* when there was a session: without one, it goes on from the catch itself.
ReturnsUnawaited(frame, thrown) == thrown.sync   \* (a bug the code avoids)
Catches(frame, thrown) == frame \in Guards \/ (frame \in Sessions /\ thrown.sync /\ req.session # Nothing)

\* An error leaves the handlers that called next(), one after the other.
Unwind ==
  /\ outcome.is = "thrown" /\ frames # <<>>
  /\ LET frame == Last(frames) IN
     IF ~Catches(frame, outcome)
     THEN /\ frames' = Front(frames)
          /\ outcome' = [outcome EXCEPT !.sync = @ /\ frame \in Synchronous]
          /\ UNCHANGED <<req, chain, at>>
     ELSE IF frame \in Guards \/ frame = "requireUser"
     THEN /\ outcome' = [outcome EXCEPT !.is = "answering", !.by = frame,
                                        !.status = IF frame \in Guards THEN @ ELSE 500]
          /\ UNCHANGED <<req, chain, at, frames>>
     ELSE \* an optional session: without it, and on with the next handler
          /\ req' = [req EXCEPT !.session = Nothing, !.user = Nothing]
          /\ at' = at + 1
          /\ outcome' = [Idle EXCEPT !.is = "running"]
          /\ UNCHANGED <<chain, frames>>

\* The fields are given back when a response arrives, and when nobody answered.
WithoutContext(q) == [q EXCEPT !.query = Host, !.params = Host]   \* (a bug the code avoids)
GivenBack(q) == [q EXCEPT !.query = Host, !.params = Host, !.context = Host]
Finish ==
  /\ outcome.is = "answering" \/ (outcome.is = "running" /\ at > Len(chain))
  /\ req' = GivenBack(req)
  /\ outcome' = [outcome EXCEPT !.is = IF @ = "answering" THEN "answered" ELSE "unanswered"]
  /\ frames' = <<>> /\ UNCHANGED <<chain, at>>

\* process() rejects, and the host's own handleError answers.
Reject ==
  /\ outcome.is = "thrown" /\ frames = <<>>
  /\ outcome' = [outcome EXCEPT !.is = "rejected"]
  /\ UNCHANGED <<req, chain, at, frames>>

RouterInit ==
  /\ req = Nothing /\ chain = <<>> /\ at = 1 /\ frames = <<>> /\ outcome = Idle
=============================================================================
