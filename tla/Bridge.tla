------------------------------- MODULE Bridge -------------------------------
(***************************************************************************)
(* linear-fcgi as a whole: the FastCGI thread, the libuv thread, browsers  *)
(* that connect, post, poll and disconnect, and backends that accept,      *)
(* refuse, send and close.                                                 *)
(***************************************************************************)
EXTENDS ServerThread, LoopThread

Waiting ==
    \/ ConnectSucceeds
    \/ ConnectFails
    \/ ConnectTimesOut
    \/ WaitAgain

(* What the FastCGI thread does without waiting for anyone. *)
Handler ==
    \/ ConnectSend
    \/ SetConnecting
    \/ WaitBegin
    \/ DisconnectReturns
    \/ Client_disconnect
    \/ Execute("exec_disconnect", "DISCONNECT")
    \/ Execute("exec_write", "WRITE")
    \/ AsyncSend
    \/ WriteProduce
    \/ ReadGone
    \/ ReadChecked
    \/ ReadEmpty
    \/ ReadChunk
    \/ ReadNoMemory

HttpRequest ==
    \E c \in Client :
        \/ Server_onConnect(c)
        \/ Server_onDisconnect(c)
        \/ Server_onPost(c)
        \/ Server_onPoll(c)

(* What the network does. *)
Backend ==
    \E c \in Client :
        \/ Client_onConnect(c)
        \/ OnConnectFails(c) /\ lpc = "poll"
        \/ Client_onRead(c)
        \/ OnReadError(c)

(* What the libuv thread does without waiting for anyone. *)
LoopStep ==
    \/ PollBegin
    \/ PollEnd
    \/ ClosingEnd
    \/ Loop_onAsync
    \/ DrainEnd
    \/ Dangling
    \/ Client__write
    \/ WriteUndecodable
    \/ WriteDone
    \/ ReadStart
    \/ ReadProduce
    \/ \E c \in Client :
          \/ Client__connect(c)
          \/ ConnectError(c)
          \/ CloseRequested(c)
          \/ WriteBegin(c)
          \/ OnConnectFails(c) /\ lpc = "closing"

CloseCallback == \E c \in Client : Loop_onDisconnect(c)

Halted == fault # "none" /\ UNCHANGED vars

Next ==
    \/ /\ fault = "none"
       /\ \/ HttpRequest
          \/ Waiting
          \/ Handler
          \/ Backend
          \/ LoopStep
          \/ TimerDue
          \/ Loop_onTimer
          \/ CloseCallback
    \/ Halted

Spec == Init /\ [][Next]_vars
-----------------------------------------------------------------------------
(* Requests of type t for c that are in the queue; that execute() is about *)
(* to queue.                                                               *)
Queued(t, c) == {i \in DOMAIN request_queue_ : request_queue_[i] = request_t(t, c)}
About(at, c) == IF pc = at /\ cur = c THEN 1 ELSE 0

(* The WRITEs of c that are ahead of the request that closes its handle. *)
Ahead(c) == {i \in Queued("WRITE", c) : \A j \in Queued("DISCONNECT", c) : i < j}

StorageType ==
    /\ client_map_ \subseteq Client
    /\ lock_ \in {"none", "main"}

ClientType ==
    /\ state_ \in [Client -> States]
    /\ last_access_ \subseteq Client
    /\ handle_ \in [Client -> {"none", "init", "closing"}]

QueueType ==
    /\ read_queue_ \in [Client -> Seq(Nat)]
    /\ write_queue_ \in [Client -> Seq(Nat)]
    /\ request_queue_ \in Seq(Request)
    /\ async_ \in BOOLEAN

UvType ==
    /\ connect_req \subseteq Client
    /\ reading \subseteq Client
    /\ wake \in BOOLEAN
    /\ lpc \in {"timers", "ontimer", "prepare", "poll", "drain", "write",
                "onconnect", "onread", "closing"}
    /\ busy \in Client \cup {NoClient}

ServerType ==
    /\ pc \in {"idle", "send_connect", "connecting", "enter_wait", "wait",
               "disconnect", "exec_disconnect", "write", "exec_write", "send",
               "read", "consume"}
    /\ cur \in Client \cup {NoClient}
    /\ signalled \in BOOLEAN
    /\ got \in Seq(Nat)

HistoryType ==
    /\ created \subseteq Client
    /\ opened \subseteq Client
    /\ timedout \subseteq Client
    /\ received \in [Client -> Nat]
    /\ posted \in [Client -> Nat]
    /\ delivered \in [Client -> Seq(Nat)]
    /\ forwarded \in [Client -> Seq(Nat)]
    /\ lost \subseteq Client
    /\ uninit \subseteq Client
    /\ fault \in {"none", "double_close", "bad_handle", "use_after_free"}
    /\ victim \subseteq Client

(* Every variable keeps its type. *)
TypeOK ==
    /\ StorageType
    /\ ClientType
    /\ QueueType
    /\ UvType
    /\ ServerType
    /\ HistoryType

(* The FastCGI thread never works on a Client that the libuv thread has    *)
(* deleted: from get() or create() to the response its client stays in the *)
(* map, although the lock is held by hand across every early return.       *)
HandlerClientLive ==
    /\ pc # "idle" => cur \in client_map_
    /\ busy # NoClient => busy \in client_map_

(* Backend sockets are bounded by max_clients_: a socket that is open, is  *)
(* connecting or is being read belongs to a client that still holds its    *)
(* place in client_map_.                                                   *)
SocketsBounded ==
    /\ Cardinality(client_map_) <= max_clients_
    /\ connect_req \cup reading \cup {c \in Client : handle_[c] = "init"}
          \subseteq client_map_

(* A queued CONNECT or DISCONNECT never outlives its Client, although      *)
(* request_t holds a bare pointer: only a WRITE can.                       *)
LifecycleRequestsLive ==
    \A i \in DOMAIN request_queue_ :
        request_queue_[i].type # "WRITE" => request_queue_[i].client \in client_map_

(* A session on its way out gets out: while a client in the map is         *)
(* DISCONNECTING, its handle is closing or the request to close it is on   *)
(* its way.  Otherwise nobody would ever close it, since disconnect() and  *)
(* onTimer() both skip a client in that state.                             *)
DisconnectingIsClosing ==
    \A c \in client_map_ :
        state_[c] = "DISCONNECTING" =>
            \/ handle_[c] = "closing"
            \/ Queued("DISCONNECT", c) # {}
            \/ pc = "exec_disconnect" /\ cur = c

(* The handle of a session that was established is closed once: its        *)
(* DISCONNECT is queued at most once, and only while the handle is open.   *)
EstablishedClosedOnce ==
    \A c \in opened :
        LET n == Cardinality(Queued("DISCONNECT", c)) + About("exec_disconnect", c)
        IN  /\ n <= 1
            /\ n = 1 => handle_[c] = "init"

(* What the code leaves undefined happens to a client only for a reason of *)
(* its own: its handle is closed twice only if its connect() gave up       *)
(* waiting, and closed without being initialised only if its uv_tcp_init   *)
(* failed; it is used after it was deleted only for a message that was     *)
(* posted to it while its session was up.                                  *)
FaultCauses ==
    /\ fault = "double_close" => victim \subseteq timedout \ opened
    /\ fault = "bad_handle" => victim \subseteq uninit
    /\ fault = "use_after_free" =>
          victim \subseteq {c \in opened \ client_map_ : posted[c] > 0}

(* A message accepted by write() is not forgotten when _write gives up on  *)
(* the one before it: every message still queued has a WRITE request of    *)
(* its own on the way, ahead of the request that closes the handle.        *)
NoStrandedWrite ==
    \A c \in client_map_ :
        ~(lpc = "write" /\ busy = c) =>
            Len(write_queue_[c]) <= Cardinality(Ahead(c)) + About("exec_write", c)

(* uv_async_send coalesces, yet no request is left in the queue with       *)
(* nobody about to look.                                                   *)
NoLostWakeup ==
    request_queue_ # <<>> =>
        async_ \/ lpc \in {"drain", "write"} \/ pc \in {"send", "send_connect"}

(* connect() queues its request and wakes the libuv thread before it sets  *)
(* CONNECTING and waits.  Still its outcome is never overwritten, nor      *)
(* signalled to nobody: while it waits, the outcome is still to come or    *)
(* has been signalled.                                                     *)
NoLostSignal ==
    pc = "wait" =>
        /\ state_[cur] = "CONNECTING" =>
              Queued("CONNECT", cur) # {} \/ cur \in connect_req
        /\ state_[cur] \in {"CONNECTED", "FAIL_CONNECT"} => signalled

(* The constructor leaves last_access_ unset and onConnect sets it only    *)
(* after unlock(): still, when onTimer gets the storage lock and compares  *)
(* it with the timeout, no client that it could close for being idle is    *)
(* still connecting or has no access time yet.                             *)
ClockReadInitialised ==
    lpc = "ontimer" /\ lock_ = "none" =>
        \A c \in client_map_ :
            /\ state_[c] # "CONNECTING"
            /\ state_[c] = "CONNECTED" => c \in last_access_

Increasing(s) == \A i, j \in DOMAIN s : i < j => s[i] < s[j]

(* Whatever fails, no browser is sent a chunk twice or out of order, and   *)
(* no backend a message.                                                   *)
InOrder ==
    \A c \in Client : Increasing(delivered[c]) /\ Increasing(forwarded[c])

(* While a session is up, no chunk is lost between the socket and the      *)
(* browser, unless an allocation failed for one of its own.                *)
PollsLoseNothing ==
    \A c \in client_map_ \ lost :
        state_[c] = "CONNECTED" =>
            delivered[c] \o (IF cur = c THEN got ELSE <<>>) \o read_queue_[c]
                = [i \in 1..received[c] |-> i]

(* A session that failed or is being closed never comes back to life, even *)
(* if the backend accepts its connection late, and one that was            *)
(* established never turns into one that failed.                           *)
NoResurrection ==
    [][\A c \in Client :
          /\ state_[c] \in {"FAIL_CONNECT", "DISCONNECTING"}
                => state_'[c] \in {"FAIL_CONNECT", "DISCONNECTING"}
          /\ c \in opened => state_'[c] # "FAIL_CONNECT"]_vars

-----------------------------------------------------------------------------
(* What browsers and backends see of the two threads. *)
Phase(c) ==
    CASE c \notin created -> "new"
      [] c \in created \ client_map_ -> "over"
      [] c \in client_map_ /\ state_[c] \in {"DISCONNECTED", "CONNECTING"} -> "connecting"
      [] c \in client_map_ /\ state_[c] = "CONNECTED" -> "up"
      [] OTHER -> "down"

(* A chunk that a poll has taken from the queue is not delivered yet. *)
Inbox(c) == IF cur = c THEN got \o read_queue_[c] ELSE read_queue_[c]

Sessions == INSTANCE Session WITH
        Sid <- Client, Capacity <- max_clients_,
        phase <- [c \in Client |-> Phase(c)], told <- opened,
        arrived <- received, inbox <- [c \in Client |-> Inbox(c)],
        polled <- delivered, lost <- lost, posted <- posted,
        outbox <- write_queue_, written <- forwarded

(* Two threads, their locks, queues and wake-ups implement the sessions of *)
(* Session: whatever is late, fails or times out, a session occupies one   *)
(* place, goes through its phases once, is told to its browser only while  *)
(* it is up, and loses chunks only when it goes down or memory runs out.   *)
SessionSpec == Sessions!Spec

-----------------------------------------------------------------------------
(* The inductive invariant behind the theorems of BridgeProofs.            *)

(* The storage lock is held exactly while a request is served. *)
Locking == lock_ = "none" <=> pc = "idle"

(* The libuv thread's callbacks work on a client whose handle is open. *)
Callbacks ==
    /\ busy # NoClient <=> lpc \in {"write", "onconnect", "onread"}
    /\ lpc = "onconnect" => handle_[busy] = "init"
    /\ \A c \in reading : handle_[c] = "init"

(* Only session ids that were given out are used anywhere. *)
Created ==
    /\ client_map_ \subseteq created
    /\ opened \subseteq created
    /\ \A c \in Client \ created : state_[c] = "DISCONNECTED"
    /\ \A i \in DOMAIN request_queue_ : request_queue_[i].client \in created

(* A client is connected once: its CONNECT is queued, then its connect     *)
(* request is outstanding, then it is connected or has failed.             *)
ConnectQueued ==
    \A i \in DOMAIN request_queue_ :
        request_queue_[i].type = "CONNECT" =>
            LET c == request_queue_[i].client IN
            /\ \A j \in DOMAIN request_queue_ : request_queue_[j] = request_queue_[i] => i = j
            /\ c \notin connect_req /\ c \notin opened /\ state_[c] # "CONNECTED"

ConnectPending ==
    /\ \A c \in connect_req : c \notin opened /\ state_[c] # "CONNECTED"
    /\ \A c \in opened : state_[c] # "FAIL_CONNECT"

(* As long as connect() holds its client's lock nobody gets at the request *)
(* or at the state.                                                        *)
Attempt ==
    /\ Locked(cur) => Queued("CONNECT", cur) # {}
    /\ pc \in {"send_connect", "connecting"} => state_[cur] = "DISCONNECTED"
    /\ pc = "enter_wait" => state_[cur] = "CONNECTING"

(* Who holds the locks, on which clients the threads work, and how far     *)
(* each client's connection is.                                            *)
CoreInv ==
    /\ TypeOK /\ Locking /\ HandlerClientLive /\ SocketsBounded /\ Callbacks
    /\ NoLostWakeup /\ Attempt /\ NoLostSignal
    /\ Created /\ ConnectQueued /\ ConnectPending

(* The FastCGI thread serves a session that its browser was told of, or    *)
(* gives up one whose connect() timed out; it holds chunks only in a poll. *)
Serving ==
    /\ pc \in {"write", "exec_write", "read", "consume"} => cur \in opened
    /\ pc \in {"disconnect", "exec_disconnect"} => cur \in opened \cup timedout
    /\ pc \notin {"read", "consume"} => got = <<>>
    /\ pc = "exec_write" => posted[cur] > 0

(* A client in the map is DISCONNECTED, and then CONNECTING, only while    *)
(* its own connect() is under way; once it is CONNECTED its handle is      *)
(* open, and its access time is set before the callback ends.              *)
Progress ==
    /\ \A c \in client_map_ :
          state_[c] = "DISCONNECTED" => cur = c /\ pc \in {"send_connect", "connecting"}
    /\ \A c \in Client :
          state_[c] = "CONNECTING" =>
              cur = c /\ pc \in {"enter_wait", "wait", "disconnect"} /\ c \notin opened
    /\ \A c \in Client :
          state_[c] = "CONNECTED" =>
              /\ handle_[c] = "init"
              /\ c \in last_access_ \/ (lpc = "onconnect" /\ busy = c)
    /\ lpc = "onread" => state_[busy] \notin {"DISCONNECTED", "CONNECTING"}

(* A handle is closing only for a client that is going away, and every     *)
(* close callback has run before the timers are due again; in the map, a   *)
(* handle is not initialised only as long as its CONNECT is queued, unless *)
(* uv_tcp_init failed.                                                     *)
Handles ==
    /\ \A c \in Client \ created : handle_[c] = "none"
    /\ \A c \in Client :
          handle_[c] = "closing" => state_[c] \in {"FAIL_CONNECT", "DISCONNECTING"}
    /\ lpc \in {"timers", "ontimer"} => \A c \in client_map_ : handle_[c] # "closing"
    /\ \A c \in client_map_ :
          handle_[c] = "none" => Queued("CONNECT", c) # {} \/ c \in uninit

(* A queued CONNECT finds its client alive and its handle untouched, and   *)
(* is ahead of its DISCONNECT.                                             *)
ConnectFirst ==
    \A c \in Client : \A i \in Queued("CONNECT", c) :
        /\ c \in client_map_
        /\ handle_[c] = "none"
        /\ state_[c] \in {"DISCONNECTED", "CONNECTING", "DISCONNECTING"}
        /\ \A j \in Queued("DISCONNECT", c) : i < j

(* The drain that is due, or under way, before any close callback runs. *)
DrainAhead ==
    \/ lpc = "prepare" /\ async_
    \/ lpc \in {"poll", "onconnect", "onread"} /\ wake
    \/ lpc \in {"drain", "write"}

(* A DISCONNECT is queued once in the life of a client.  It finds the      *)
(* client alive: if something else has closed the handle meanwhile, it is  *)
(* consumed before the close callback deletes the client.                  *)
DisconnectOnce ==
    /\ \A c \in Client : \A i \in Queued("DISCONNECT", c) :
          /\ c \in client_map_ /\ c \in opened \cup timedout
          /\ state_[c] \in {"FAIL_CONNECT", "DISCONNECTING"}
          /\ \A j \in Queued("DISCONNECT", c) : i = j
          /\ cur = c => pc \notin {"exec_disconnect", "write", "exec_write"}
          /\ c \in opened => handle_[c] = "init"
          /\ handle_[c] = "closing" => DrainAhead \/ fault # "none"
    /\ pc = "exec_disconnect" =>
          /\ state_[cur] \in {"FAIL_CONNECT", "DISCONNECTING"}
          /\ handle_[cur] # "closing"
          /\ cur \in opened => handle_[cur] = "init"

(* Only what a browser posted to its session is written. *)
WritesPosted ==
    \A c \in Client : Queued("WRITE", c) # {} => c \in opened /\ posted[c] > 0

(* How a client's requests, its state and its handle fit together. *)
LifecycleInv ==
    /\ Serving /\ Progress /\ Handles
    /\ ConnectFirst /\ DisconnectOnce /\ WritesPosted
    /\ DisconnectingIsClosing

(* Every message that waits has a WRITE of its own, counting the one that  *)
(* _write is serving.                                                      *)
Writing(c) == IF lpc = "write" /\ busy = c THEN 1 ELSE 0

WritesCovered ==
    /\ \A c \in Client \ created : write_queue_[c] = <<>>
    /\ \A c \in client_map_ :
          Len(write_queue_[c]) <= Cardinality(Ahead(c)) + About("exec_write", c) + Writing(c)

BridgeInv == CoreInv /\ LifecycleInv /\ WritesCovered

-----------------------------------------------------------------------------
(* Both threads are scheduled and the timer is due every second.  The      *)
(* storage lock is free again and again, and the libuv thread gets it in   *)
(* the end.  Nothing is assumed of browsers and backends.                  *)
Fairness ==
    /\ WF_vars(fault = "none" /\ Waiting)
    /\ WF_vars(fault = "none" /\ Handler)
    /\ WF_vars(fault = "none" /\ LoopStep)
    /\ SF_vars(fault = "none" /\ TimerDue)
    /\ SF_vars(fault = "none" /\ Loop_onTimer)
    /\ SF_vars(fault = "none" /\ CloseCallback)

FairSpec == Spec /\ Fairness

(* A browser that connects is answered, even if the backend never replies  *)
(* and the libuv thread itself waits for the lock that connect() holds.    *)
ConnectAnswered == pc = "send_connect" ~> (pc = "idle" \/ fault # "none")

(* A failed or closed session gives its place in client_map_ back. *)
SlotReclaimed ==
    \A c \in Client :
        (c \in client_map_ /\ state_[c] \in {"FAIL_CONNECT", "DISCONNECTING"})
            ~> (c \notin client_map_ \/ fault # "none")

(* What a browser posted leaves the write queue. *)
PostDrained ==
    \A c \in Client : write_queue_[c] # <<>> ~> (write_queue_[c] = <<>> \/ fault # "none")
=============================================================================
