---------------------------- MODULE BridgeState -----------------------------
(***************************************************************************)
(* The state that the two threads of linear-fcgi share.  The FastCGI       *)
(* thread serves one HTTP request at a time (module ServerThread); the     *)
(* libuv thread owns the backend sockets (module LoopThread).  They meet   *)
(* in ClientStorage, in each Client, in the three kinds of Queue and in    *)
(* the async handle.                                                       *)
(*                                                                         *)
(* A Queue is its abstract contents here: SpscQueue shows that the linked  *)
(* list behaves like that.  A chunk from the backend and a message from    *)
(* the browser are the numbers 1, 2, ... in the order in which they        *)
(* arrive.                                                                 *)
(***************************************************************************)
EXTENDS Naturals, Sequences, FiniteSets

CONSTANTS
    Client,         \* session ids; each names the one Client created for it
    NoClient,       \* no client
    max_clients_,   \* ClientStorage::max_clients_
    DATA_THRESHOLD, \* chunks after which a poll is answered
    MaxChunks,      \* bound: chunks a backend sends on one connection
    MaxPosts,       \* bound: messages posted to one session
    ResourceFaults  \* whether malloc, uv_tcp_init and uv_write may fail

ASSUME BridgeAssumption ==
    /\ NoClient \notin Client
    /\ IsFiniteSet(Client)
    /\ max_clients_ \in Nat
    /\ DATA_THRESHOLD \in Nat \ {0}
    /\ MaxChunks \in Nat
    /\ MaxPosts \in Nat
    /\ ResourceFaults \in BOOLEAN

VARIABLES
    \* ClientStorage
    client_map_,    \* the clients that are in the map, hence allocated
    lock_,          \* its mutex: held across steps only by the FastCGI thread
    \* Client, by session id
    state_,
    last_access_,   \* clients whose last_access_ has been assigned
    read_queue_,    \* chunks received and not polled
    write_queue_,   \* messages posted and not written
    handle_,        \* the uv_tcp_t: not initialised, open, or in uv_close
    \* Loop
    request_queue_, \* requests to the libuv thread
    async_,         \* uv_async_send was called and onAsync has not run since
    \* libuv
    connect_req,    \* clients whose connect request is outstanding
    reading,        \* clients whose stream is being read
    wake,           \* onAsync is among the events of this poll
    lpc,            \* where the libuv thread is
    busy,           \* the client whose callback or _write is under way
    \* the FastCGI thread
    pc,             \* where it is
    cur,            \* the client of the request it serves
    signalled,      \* state_cond_ was signalled while it waited
    got,            \* what onPoll has read so far
    \* history
    created,        \* session ids that have been used
    opened,         \* session ids a browser was told
    timedout,       \* clients whose connect() gave up waiting
    received,       \* chunks each backend has sent
    posted,         \* messages each browser has posted and write() accepted
    delivered,      \* chunks each browser was sent
    forwarded,      \* messages each backend was written
    lost,           \* clients that lost a chunk for want of memory
    uninit,         \* clients whose uv_tcp_init failed
    fault,          \* "none", or what libuv or memory was misused for
    victim          \* the clients whose handle or memory that was

storage == <<client_map_, lock_>>
client  == <<state_, last_access_, read_queue_, write_queue_, handle_>>
loop    == <<request_queue_, async_>>
uv      == <<connect_req, reading, wake, lpc, busy>>
server  == <<pc, cur, signalled, got>>
history == <<created, opened, timedout, received, posted, delivered, forwarded, lost,
             uninit>>
vars    == <<storage, client, loop, uv, server, history, fault, victim>>

States == {"CONNECTING", "FAIL_CONNECT", "CONNECTED", "DISCONNECTING", "DISCONNECTED"}
RequestType == {"CONNECT", "DISCONNECT", "WRITE"}
Request == [type : RequestType, client : Client]

request_t(t, c) == [type |-> t, client |-> c]

Init ==
    /\ client_map_ = {}
    /\ lock_ = "none"
    /\ state_ = [c \in Client |-> "DISCONNECTED"]
    /\ last_access_ = {}
    /\ read_queue_ = [c \in Client |-> <<>>]
    /\ write_queue_ = [c \in Client |-> <<>>]
    /\ handle_ = [c \in Client |-> "none"]
    /\ request_queue_ = <<>>
    /\ async_ = FALSE
    /\ connect_req = {}
    /\ reading = {}
    /\ wake = FALSE
    /\ lpc = "timers"
    /\ busy = NoClient
    /\ pc = "idle"
    /\ cur = NoClient
    /\ signalled = FALSE
    /\ got = <<>>
    /\ created = {}
    /\ opened = {}
    /\ timedout = {}
    /\ received = [c \in Client |-> 0]
    /\ posted = [c \in Client |-> 0]
    /\ delivered = [c \in Client |-> <<>>]
    /\ forwarded = [c \in Client |-> <<>>]
    /\ lost = {}
    /\ uninit = {}
    /\ fault = "none"
    /\ victim = {}
=============================================================================
