----------------------------- MODULE MCRequests -----------------------------
(* A small instance of Requests: two users, with sessions of every kind. *)
EXTENDS Requests

MCUsername == [u |-> "bob", v |-> "eve"]

MCGuards == {"get-self", "delete-self", "Auth", "auth-handshake", "auth-master-key", "Db", "key-value",
             "key-value-store", "dynamic", "dynamic-tables", "file-store", "gaia", "WebFinger"}
MCSessions == {"requireUser", "optionalUser"}
MCSynchronous == {"log", "mustBeUser", "validatePath", "canRegister", "type", "self", "hubInfo", "viewHandshake"}

Session(user, context, identifier, collections) ==
  [user |-> user, context |-> context, identifier |-> identifier, collections |-> collections]
Bob    == Session("u", "user", "bob", {})
Eve    == Session("v", "user", "eve", {})
App1   == Session("u", "app", "bob", {"c"})
Secure == Session("u", "secure", "h", {})
Tokens == {Nothing, Bob, Eve, App1, Secure}

Asked(method, url, token, asks, body) ==
  [method |-> method, url |-> url, token |-> token, asks |-> asks, body |-> body]
Simple(method, url, token) == Asked(method, url, token, {}, Nothing)

\* A part that starts like a route, and roots that a name of a file starts with.
MCBegins ==
  {<<p, p>> : p \in {"auth", "sessions", "db", "files", "gaia", "key-value", "store", "dynamic", "tables",
                     "graphql", "handshake", "master-key", "webfinger", "public"}}
  \cup {<<"auth", "authors">>, <<"sessions", "sessions2">>, <<"public", "publicity">>}

Plain ==
  {<<"GET", <<"type">>>>, <<"GET", <<"self">>>>, <<"DELETE", <<"self">>>>, <<"GET", <<"authors">>>>,
   <<"GET", <<"gaia", "hub_info">>>>, <<"HEAD", <<"gaia", "read", "a", "x">>>>, <<"GET", <<"gaia", "read", "a", "x">>>>,
   <<"GET", <<"gaia", "read", "a", "">>>>,
   <<"POST", <<"gaia", "store", "a", "x">>>>, <<"GET", <<"dump", "dyn">>>>, <<"GET", <<"dump", "key-value", "x">>>>}
  \cup {<<m, <<"auth">> \o r>> : m \in {"GET", "POST", "PUT", "DELETE"}, r \in
         {<<"login">>, <<"register">>, <<"can-register">>, <<"change-pass">>, <<"sessions">>, <<"sessions", "1">>,
          <<"sessions2">>, <<"logout">>, <<"refresh">>, <<"handshake", "start">>, <<"handshake", "complete">>,
          <<"handshake", "1">>, <<"handshake", "1", "approve">>, <<"handshake", "1", "cancel">>,
          <<"master-key">>, <<"master-key", "">>, <<"master-key", "1">>, <<"master-key", "1", "generate-session">>}}

Scopes == {"user", "app", "app2", "secure", "~"} \X {"bob", "eve", "nobody", "~", "h"}

OnFiles(scope) == {<<scope[1], scope[2], "files">> \o r : r \in
  {<<root>> \o path : root \in {"public", "private", "root", "collections"},
     path \in {<<"x">>, <<"">>, <<"..", "", "x">>, <<"appdata", "app", "x">>, <<"appdata", "app2", "x">>,
               <<"collections", "c", "x">>, <<"collections", "c", "app", "x">>, <<"public", "x">>}}}
Listings(scope) == {<<scope[1], scope[2], "files">> \o r : r \in
  {<<"list-files">>, <<"list-files", "public">>, <<"list-files", "private", "x">>,
   <<"list-files", "root", "appdata", "app", "">>, <<"list-files", "x", "..">>}}
Batches == {{}, {<<"public", "x">>, <<"appdata", "app", "x">>}, {<<"..", "v", "x">>, <<"publicity">>, <<"private", "x">>}}

OnKeys(scope) == {<<m, <<scope[1], scope[2], "db">> \o r>> : m \in {"GET", "POST", "PUT", "DELETE"}, r \in
  {<<"key-value", "store", "k">>, <<"key-value", "store">>, <<"key-value", "search">>,
   <<"dynamic", "tables", "T">>, <<"dynamic", "tables">>}}

\* Queries of one or two conditions, on the values that a row may have.
Values == {0, 1, 2, Null}
MCRows == [a : Values, b : {1, Null}]
Conditions(field) == [field : {field}, op : {"", "$eq", "$ne", "$gt", "$lt", "$gte", "$lte"}, value : {0, 1, Null}]
Searches == {<<c>> : c \in Conditions("a")} \cup {<<c, d>> : c \in Conditions("a"), d \in Conditions("b")}

Resources == {Nothing} \cup [identifier : {"bob", "u", "nobody"}, context : {"root", "user", "app", "secure", "remote"}]
Finger == <<".well-known", "webfinger">>

MCSent ==
  {Simple(p[1], p[2], t) : p \in Plain, t \in Tokens}
  \cup UNION {{Simple(m, url, t) : url \in OnFiles(scope), m \in {"GET", "PUT", "DELETE"}, t \in Tokens} : scope \in Scopes}
  \cup UNION {{Asked("GET", url, t, asks, Nothing) : url \in Listings(scope), asks \in {{}, {"advance"}}, t \in Tokens} :
               scope \in Scopes}
  \cup {Asked("GET", <<"user", "bob", "files", root, "x">>, t, {"info"}, Nothing) : root \in {"public", "private"}, t \in Tokens}
  \cup {Asked("POST", <<scope[1], scope[2], "files", "batch-info">>, t, {}, b) : scope \in Scopes, b \in Batches, t \in Tokens}
  \cup {Simple("GET", <<"~", "~", "files", "storage-stats">>, t) : t \in Tokens}
  \cup UNION {{Asked(p[1], p[2], t, {}, {"k1", "k2"}) : p \in OnKeys(scope), t \in Tokens} : scope \in Scopes}
  \cup {Asked("POST", <<scope[1], scope[2], "db", "key-value", "batch">>, t, {}, {"k1", "k2"}) : scope \in Scopes, t \in Tokens}
  \cup {Asked("POST", <<"~", "~", "db", "dynamic", "graphql">>, App1, {}, query) : query \in Searches}
  \cup {Asked(m, <<"app", "bob", "db", "dynamic", "graphql">>, t, asks, body) :
          m \in {"GET", "POST", "DELETE"}, t \in {Nothing, Eve}, asks \in {{}, {"html"}, {"other"}}, body \in {Nothing, <<>>}}
  \cup {Simple("PUT", Finger, t) : t \in {Nothing, Bob}}
  \cup {Asked("GET", Finger, Nothing, {}, resource) : resource \in Resources}
=============================================================================
