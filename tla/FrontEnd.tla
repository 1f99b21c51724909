------------------------------ MODULE FrontEnd ------------------------------
(***************************************************************************)
(* What Server::run makes of HTTP requests: Request::create and the query  *)
(* string, the routing to a handler, the choice of a backend and the check *)
(* of origins.  One step serves one request; Bridge has the handlers'      *)
(* dealings with the libuv thread, of which only sessions that end are     *)
(* seen here.                                                              *)
(*                                                                         *)
(* A query string is a sequence of words: <<key, value>>, or <<word>> if   *)
(* there is no '=' in it.  A regular expression of the configuration is    *)
(* the set of what it matches.                                             *)
(***************************************************************************)
EXTENDS Naturals, FiniteSets, Sequences, SequencesExt

CONSTANTS
    Sid,          \* session ids
    Requests,     \* what browsers send: method, query string or body, origin
    Resources,    \* the configuration: key, proto and origins of each backend
    max_clients_,
    NULL          \* no list of origins

ASSUME FrontEndAssumption ==
    /\ "" \notin Sid
    /\ \A r \in Requests : DOMAIN r = {"method", "query", "origin"}
    /\ Len(Resources) \in Nat /\ DOMAIN Resources = 1..Len(Resources)
    /\ \A i \in DOMAIN Resources : DOMAIN Resources[i] = {"key", "proto", "origins"}
    /\ max_clients_ \in Nat

VARIABLES
    data,       \* the static string of getQueryString
    errno,
    backend,    \* the backend of each client in the map, 0 if it is not there
    up,         \* the sessions that are connected
    \* history
    asked,      \* the connect request each session id was made for, or NULL
    told,       \* the session ids that browsers were told
    sent,       \* the POSTs sent so far, each of them once
    due,        \* those that arrived whole, for a session that was up
    accepted,   \* how often the message of each of them was accepted
    unread,     \* whether some POST had no body, or it did not arrive whole
    status      \* the status of the last response

sessions == <<backend, up, asked, told>>
vars == <<data, errno, sessions, sent, due, accepted, unread, status>>

Posts == {r \in Requests : r.method = "POST"}

(* FCGI_fread returns 1: errno is not ERANGE, there is a body and it       *)
(* arrives.  For a Content-Length of 0, or none, it returns 0.             *)
Read(r, arrives) ==
    /\ r.method = "POST" /\ errno' # "ERANGE"
    /\ arrives = "whole" /\ r.query # <<>>

-----------------------------------------------------------------------------
(* Mutated forms of the operations below. *)

(* A resource that does not suit is passed over. *)
Mut_FallThrough(channel, origin) ==
    SelectInSeq(Resources, LAMBDA r :
        /\ channel \in r.key
        /\ r.proto # "websocket"
        /\ r.origins = NULL \/ origin \in r.origins \cup {""})

(* data += query_string *)
Mut_AppendBody(r, arrives) ==
    /\ errno' = IF r.method = "POST" /\ arrives = "overlong" THEN "ERANGE" ELSE errno
    /\ data' = IF Read(r, arrives) THEN data \o r.query ELSE data

-----------------------------------------------------------------------------
(* Queries::parse and the getters: map::insert keeps the first value. *)
Find(q, key) ==
    LET i == SelectInSeq(q, LAMBDA w : Len(w) = 2 /\ w[1] = key)
    IN  IF i = 0 THEN "" ELSE q[i][2]

(* A message is known by its data: the POSTs carry different ones. *)
ASSUME MessagesDiffer ==
    \A p, r \in Posts :
        Find(p.query, "data") # "" /\ Find(p.query, "data") = Find(r.query, "data") => p = r

(* Without an origin, or without a list, everything is allowed. *)
isAllowOrigin(origin, origins) ==
    IF origin = "" \/ origins = NULL THEN TRUE ELSE origin \in origins

(* The first resource whose key matches decides; 0 is NULL. *)
getBackend(channel, origin) ==
    LET i == IF channel = "" THEN 0
             ELSE SelectInSeq(Resources, LAMBDA r : channel \in r.key)
    IN  IF i = 0 THEN 0
        ELSE IF Resources[i].proto = "websocket" THEN 0
        ELSE IF isAllowOrigin(origin, Resources[i].origins) THEN i ELSE 0

(* client_storage_.get(id) *)
InMap(sid) == sid \in Sid /\ backend[sid] # 0

(* How the body of a POST arrives: whole; not at all, in part, or with no  *)
(* memory for it; or with a Content-Length that strtol cannot represent.   *)
Arrivals(r) == IF r.method = "POST" THEN {"whole", "unread", "overlong"} ELSE {"whole"}

(* Request::getQueryString: errno is never cleared, and data is returned   *)
(* as it is when no body is read.                                          *)
ReadBody(r, arrives) ==
    /\ errno' = IF r.method = "POST" /\ arrives = "overlong" THEN "ERANGE" ELSE errno
    /\ data' = IF Read(r, arrives) THEN r.query ELSE data

getQueryString(r) == IF r.method = "GET" THEN r.query ELSE data'

(* onError and sendResponse: the browser sees a status. *)
sendResponse(code) == status' = code

-----------------------------------------------------------------------------
(* The handlers, for the query string q. *)
Server_onConnect(q, r) ==
    LET b == getBackend(Find(q, "ch"), r.origin) IN
    /\ UNCHANGED accepted
    /\ \/ /\ Find(q, "sid") # ""        \* get(uuid), with an empty uuid
          /\ sendResponse(410)
          /\ UNCHANGED sessions
       \/ /\ Find(q, "sid") = ""        \* no id, or no memory for a client
          /\ sendResponse(503)
          /\ UNCHANGED sessions
       \/ /\ Find(q, "sid") = "" /\ b = 0
          /\ sendResponse(404)
          /\ UNCHANGED sessions
       \/ /\ Find(q, "sid") = "" /\ b # 0
          /\ Cardinality({s \in Sid : backend[s] # 0}) >= max_clients_
          /\ sendResponse(503)
          /\ UNCHANGED sessions
       \/ /\ Find(q, "sid") = "" /\ b # 0
          /\ Cardinality({s \in Sid : backend[s] # 0}) < max_clients_
          /\ \E s \in Sid :
                /\ asked[s] = NULL
                /\ asked' = [asked EXCEPT ![s] = r]
                /\ backend' = [backend EXCEPT ![s] = b]
                /\ \/ sendResponse(200) /\ up' = up \cup {s} /\ told' = told \cup {s}
                   \/ sendResponse(503) /\ UNCHANGED <<up, told>>  \* connect() failed

Server_onDisconnect(q) ==
    /\ sendResponse(IF Find(q, "sid") = "" THEN 400 ELSE 200)
    /\ up' = up \ {Find(q, "sid")}
    /\ UNCHANGED <<backend, asked, told, accepted>>

Server_onPoll(q) ==
    /\ \E code \in IF Find(q, "sid") = "" THEN {400}
                   ELSE IF Find(q, "sid") \in up THEN {200, 500} ELSE {410} :
          sendResponse(code)
    /\ UNCHANGED <<sessions, accepted>>

Server_onPost(q, origin) ==
    LET sid == Find(q, "sid") IN
    /\ UNCHANGED sessions
    /\ \/ /\ ~InMap(sid)
          /\ sendResponse(IF sid = "" THEN 400 ELSE 410)
          /\ UNCHANGED accepted
       \/ /\ InMap(sid)
          /\ ~isAllowOrigin(origin, Resources[backend[sid]].origins)
          /\ sendResponse(400)
          /\ UNCHANGED accepted
       \/ /\ InMap(sid)
          /\ isAllowOrigin(origin, Resources[backend[sid]].origins)
          /\ sendResponse(204)
          /\ accepted' = [r \in Posts |->
                IF sid \in up /\ Find(q, "data") # "" /\ Find(q, "data") = Find(r.query, "data")
                THEN accepted[r] + 1 ELSE accepted[r]]

(* Server::run, from FCGI_Accept to the next; browsers use the session ids *)
(* they were told.                                                         *)
Serve(r, arrives) ==
    /\ r \notin sent
    /\ Find(r.query, "sid") \in told \cup {""}
    /\ ReadBody(r, arrives)
    /\ sent' = sent \cup ({r} \cap Posts)
    /\ unread' = (unread \/ (r \in Posts /\ (arrives # "whole" \/ r.query = <<>>)))
    /\ due' = due \cup {p \in {r} \cap Posts :
                          LET sid == Find(p.query, "sid") IN
                          /\ arrives = "whole" /\ Find(p.query, "data") # ""
                          /\ sid \in up
                          /\ isAllowOrigin(p.origin, Resources[backend[sid]].origins)}
    /\ LET q == getQueryString(r)
           c == Find(q, "c")
       IN  \/ r.method = "GET" /\ c = "connect" /\ Server_onConnect(q, r)
           \/ r.method = "GET" /\ c = "disconnect" /\ Server_onDisconnect(q)
           \/ r.method = "GET" /\ c = "poll" /\ Server_onPoll(q)
           \/ /\ r.method = "GET" /\ c \notin {"connect", "disconnect", "poll"}
              /\ sendResponse(400)
              /\ UNCHANGED <<sessions, accepted>>
           \/ r.method = "POST" /\ Server_onPost(q, r.origin)
           \/ /\ r.method \notin {"GET", "POST"}
              /\ sendResponse(405)
              /\ UNCHANGED <<sessions, accepted>>

(* The libuv thread closes a session; later it destroys the client. *)
SessionEnds(s) ==
    /\ backend[s] # 0
    /\ up' = up \ {s}
    /\ backend' = [backend EXCEPT ![s] = IF s \in up THEN @ ELSE 0]
    /\ UNCHANGED <<data, errno, asked, told, sent, due, accepted, unread, status>>

(* Some other library call fails. *)
OtherError ==
    /\ errno' = "other"
    /\ UNCHANGED <<data, sessions, sent, due, accepted, unread, status>>

Init ==
    /\ data = <<>>
    /\ errno = "other"
    /\ backend = [s \in Sid |-> 0]
    /\ up = {}
    /\ asked = [s \in Sid |-> NULL]
    /\ told = {}
    /\ sent = {}
    /\ due = {}
    /\ accepted = [r \in Posts |-> 0]
    /\ unread = FALSE
    /\ status = 0

Next ==
    \/ \E r \in Requests : \E arrives \in Arrivals(r) : Serve(r, arrives)
    \/ \E s \in Sid : SessionEnds(s)
    \/ OtherError

Spec == Init /\ [][Next]_vars
-----------------------------------------------------------------------------
(* A session is connected to the backend that the configuration names      *)
(* first for its channel: one for TCP, whose origins allow the browser     *)
(* that asked.  A later entry for the same channel never stands in for it. *)
BackendSuits ==
    \A s \in Sid :
        backend[s] # 0 =>
            LET channel == Find(asked[s].query, "ch")
                origin == asked[s].origin
                b == Resources[backend[s]]
            IN  /\ channel \in b.key
                /\ b.proto # "websocket"
                /\ b.origins = NULL \/ origin \in b.origins \/ origin = ""
                /\ \A i \in 1..(backend[s] - 1) : channel \notin Resources[i].key

(* As long as every POST has a body that arrives whole, each message for a *)
(* session that is up, from an origin that is allowed, is accepted once,   *)
(* and no other is: whatever comes in between, the static string does not  *)
(* leak from one request into the next.  One POST without a body is enough *)
(* to have the message before it accepted twice.                           *)
ExactlyOnceIfWhole ==
    ~unread => \A r \in Posts : accepted[r] = IF r \in due THEN 1 ELSE 0

TypeOK ==
    /\ backend \in [Sid -> 0..Len(Resources)]
    /\ up \subseteq Sid
    /\ DOMAIN asked = Sid
    /\ sent \subseteq Posts
    /\ due \subseteq sent
    /\ accepted \in [Posts -> Nat]
    /\ unread \in BOOLEAN

(* The inductive invariant: a session that is up is in the map, and errno  *)
(* is ERANGE only after a POST whose body was not read.                    *)
FrontEndInv ==
    /\ TypeOK
    /\ \A s \in up : backend[s] # 0
    /\ ~unread => errno # "ERANGE"
    /\ BackendSuits
    /\ ExactlyOnceIfWhole

-----------------------------------------------------------------------------
(* README.md: a POST with a sid and data in its body is the way to send a  *)
(* message, and is answered 204.  So a POST that arrives whole, for a      *)
(* session that is up, should have its message accepted, whatever went     *)
(* wrong with other requests before it.                                    *)
WholePostAccepted == \A r \in due : accepted[r] > 0
=============================================================================
