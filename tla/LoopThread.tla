----------------------------- MODULE LoopThread -----------------------------
(***************************************************************************)
(* The libuv thread: Loop's callbacks and the methods of Client they call. *)
(* uv_run goes round timers, poll and closing handles; a callback runs to  *)
(* its end before the next one starts.                                     *)
(***************************************************************************)
EXTENDS BridgeState

(* Mutated form of Signal: the state is set and nobody is signalled. *)
Mut_NoSignal(c) == signalled' = signalled

(* pthread_cond_signal(&state_cond_): lost unless connect() is waiting. *)
Signal(c) == signalled' = (signalled \/ (pc = "wait" /\ cur = c))

(* Mutated form of Locked: connect() takes no lock before it waits. *)
Mut_Unlocked(c) == FALSE

(* The FastCGI thread holds the lock of Client c across steps: it is in    *)
(* connect(), and has not begun to wait.  Client::lock() blocks as long.   *)
Locked(c) == cur = c /\ pc \in {"send_connect", "connecting", "enter_wait"}

(* Mutated form of Client__disconnect: the handle is left to the timer. *)
Mut_NoClose(C) == fault' = "none" /\ UNCHANGED <<victim, handle_, reading>>

(* Client::_disconnect: uv_close, for a set of clients.  The handle's      *)
(* events are dropped; its callbacks run in the closing phase.  Closing a  *)
(* handle twice, or one that was never initialised, is a misuse of libuv.  *)
Client__disconnect(C) ==
    /\ \/ /\ \E c \in C : handle_[c] = "closing"
          /\ fault' = "double_close"
          /\ victim' = {c \in C : handle_[c] = "closing"}
       \/ /\ \A c \in C : handle_[c] # "closing"
          /\ \E c \in C : handle_[c] = "none"
          /\ fault' = "bad_handle"
          /\ victim' = {c \in C : handle_[c] = "none"}
       \/ /\ \A c \in C : handle_[c] = "init"
          /\ fault' = "none"
          /\ UNCHANGED victim
    /\ handle_' = [c \in Client |-> IF c \in C THEN "closing" ELSE handle_[c]]
    /\ reading' = reading \ C

(* ClientStorage::destroy removes the client and deletes it, queues and    *)
(* all.                                                                    *)
ClientStorage_destroy(c) ==
    /\ client_map_' = client_map_ \ {c}
    /\ read_queue_' = [read_queue_ EXCEPT ![c] = <<>>]
    /\ write_queue_' = [write_queue_ EXCEPT ![c] = <<>>]

-----------------------------------------------------------------------------
(* Mutated forms of the operations below. *)

(* onTimer forgets the clients that failed to connect. *)
Mut_NoGC(c, late) == c \in late /\ state_[c] \in {"CONNECTED", "CONNECTING"}

(* onAsync consumes one request per wake-up: if instead of while. *)
Mut_OneRequest ==
    /\ lpc = "drain"
    /\ lpc' = "poll"
    /\ UNCHANGED <<storage, client, loop, connect_req, reading, wake, busy,
                   server, history, fault, victim>>

(* onConnect does not look at the state. *)
Mut_LateConnect(c) ==
    /\ lpc = "poll"
    /\ c \in connect_req
    /\ ~Locked(c)
    /\ handle_[c] = "init"
    /\ connect_req' = connect_req \ {c}
    /\ state_' = [state_ EXCEPT ![c] = "CONNECTED"]
    /\ Signal(c)
    /\ lpc' = "onconnect"
    /\ busy' = c
    /\ UNCHANGED <<storage, last_access_, read_queue_, write_queue_,
                   handle_, loop, reading, wake, pc, cur, got, history,
                   fault, victim>>

(* The access time is first set by read(). *)
Mut_NoAccessTime ==
    /\ lpc = "onconnect"
    /\ reading' = reading \cup {busy}
    /\ lpc' = "poll"
    /\ busy' = NoClient
    /\ UNCHANGED <<storage, client, loop, connect_req, wake, server,
                   history, fault, victim>>

(* The close callback destroys the client without the storage lock. *)
Mut_DestroyUnlocked(c) ==
    /\ lpc = "closing"
    /\ c \in client_map_
    /\ handle_[c] = "closing"
    /\ c \notin connect_req
    /\ ClientStorage_destroy(c)
    /\ UNCHANGED <<lock_, state_, last_access_, handle_, loop, uv, server,
                   history, fault, victim>>

-----------------------------------------------------------------------------
(* uv_run, as far as the callbacks depend on it. *)
TimerDue ==
    /\ lpc = "timers"
    /\ lpc' = "ontimer"
    /\ UNCHANGED <<storage, client, loop, connect_req, reading, wake, busy,
                   server, history, fault, victim>>

PollBegin ==
    /\ lpc \in {"timers", "prepare"}
    /\ lpc' = "poll"
    /\ wake' = async_
    /\ UNCHANGED <<storage, client, loop, connect_req, reading, busy,
                   server, history, fault, victim>>

PollEnd ==
    /\ lpc = "poll"
    /\ ~wake
    /\ lpc' = "closing"
    /\ UNCHANGED <<storage, client, loop, connect_req, reading, wake, busy,
                   server, history, fault, victim>>

ClosingEnd ==
    /\ lpc = "closing"
    /\ \A c \in client_map_ : handle_[c] # "closing"
    /\ lpc' = "timers"
    /\ UNCHANGED <<storage, client, loop, connect_req, reading, wake, busy,
                   server, history, fault, victim>>

-----------------------------------------------------------------------------
(* Client::onTimer closes a client that failed to connect, and one whose   *)
(* last access is too long ago (those of late).                            *)
Client_onTimer(c, late) ==
    \/ c \in late /\ state_[c] \in {"CONNECTED", "CONNECTING"}
    \/ state_[c] = "FAIL_CONNECT"

ClientStorage_onTimer(late) ==
    LET closed == {c \in client_map_ : Client_onTimer(c, late)} IN
    /\ state_' = [c \in Client |-> IF c \in closed THEN "DISCONNECTING" ELSE state_[c]]
    /\ Client__disconnect(closed)

(* Loop::onTimer, under the storage lock; then uv_run goes on to poll. *)
Loop_onTimer ==
    /\ lpc = "ontimer"
    /\ lock_ = "none"
    /\ \E late \in SUBSET client_map_ : ClientStorage_onTimer(late)
    /\ lpc' = "prepare"
    /\ UNCHANGED <<storage, last_access_, read_queue_, write_queue_, loop,
                   connect_req, wake, busy, server, history>>

-----------------------------------------------------------------------------
(* Loop::onAsync: the wake-up is cleared before the requests are consumed. *)
Loop_onAsync ==
    /\ lpc = "poll"
    /\ wake
    /\ wake' = FALSE
    /\ async_' = FALSE
    /\ lpc' = "drain"
    /\ UNCHANGED <<storage, client, request_queue_, connect_req, reading,
                   busy, server, history, fault, victim>>

DrainEnd ==
    /\ lpc = "drain"
    /\ request_queue_ = <<>>
    /\ lpc' = "poll"
    /\ UNCHANGED <<storage, client, loop, connect_req, reading, wake, busy,
                   server, history, fault, victim>>

(* request_queue->consume(request), for a request of type t; using a       *)
(* client that was destroyed is a fault.                                   *)
Consume(t, c) ==
    /\ lpc = "drain"
    /\ request_queue_ # <<>>
    /\ Head(request_queue_) = request_t(t, c)
    /\ request_queue_' = Tail(request_queue_)
    /\ async_' = async_

Dangling ==
    \E t \in RequestType, c \in Client :
        /\ Consume(t, c)
        /\ c \notin client_map_
        /\ fault' = "use_after_free"
        /\ victim' = {c}
        /\ UNCHANGED <<storage, client, uv, server, history>>

(* Client::_connect: the request is under way, whatever state_ is ... *)
Client__connect(c) ==
    /\ Consume("CONNECT", c)
    /\ c \in client_map_
    /\ ~Locked(c)
    /\ handle_' = [handle_ EXCEPT ![c] = "init"]
    /\ connect_req' = connect_req \cup {c}
    /\ UNCHANGED <<storage, state_, last_access_, read_queue_, write_queue_,
                   reading, wake, lpc, busy, server, history, fault,
                   victim>>

(* ... or uv_tcp_init, malloc, getaddrinfo or uv_tcp_connect fails. *)
ConnectError(c) ==
    /\ Consume("CONNECT", c)
    /\ c \in client_map_
    /\ ~Locked(c)
    /\ \/ handle_' = [handle_ EXCEPT ![c] = "init"] /\ UNCHANGED uninit
       \/ ResourceFaults /\ uninit' = uninit \cup {c} /\ UNCHANGED handle_
    /\ state_' = [state_ EXCEPT ![c] = "FAIL_CONNECT"]
    /\ Signal(c)
    /\ UNCHANGED <<storage, last_access_, read_queue_, write_queue_, uv, pc, cur, got,
                   created, opened, timedout, received, posted, delivered,
                   forwarded, lost, fault, victim>>

CloseRequested(c) ==
    /\ Consume("DISCONNECT", c)
    /\ c \in client_map_
    /\ Client__disconnect({c})
    /\ UNCHANGED <<storage, state_, last_access_, read_queue_, write_queue_,
                   connect_req, wake, lpc, busy, server, history>>

(* Client::_write: while (write_queue_.consume(data)) ... *)
WriteBegin(c) ==
    /\ Consume("WRITE", c)
    /\ c \in client_map_
    /\ lpc' = "write"
    /\ busy' = c
    /\ UNCHANGED <<storage, client, connect_req, reading, wake, server,
                   history, fault, victim>>

WriteEnd ==
    /\ lpc' = "drain"
    /\ busy' = NoClient

(* ... one message is decoded and handed to uv_write, which refuses a      *)
(* handle that is closing ...                                              *)
Client__write ==
    /\ lpc = "write"
    /\ write_queue_[busy] # <<>>
    /\ write_queue_' = [write_queue_ EXCEPT ![busy] = Tail(@)]
    /\ \/ /\ handle_[busy] = "init"
          /\ forwarded' = [forwarded EXCEPT ![busy] =
                              Append(@, Head(write_queue_[busy]))]
       \/ /\ handle_[busy] # "init" \/ ResourceFaults
          /\ UNCHANGED forwarded
    /\ UNCHANGED <<storage, state_, last_access_, read_queue_, handle_,
                   loop, uv, server, created, opened, timedout, received,
                   posted, delivered, lost, uninit, fault, victim>>

(* ... or it cannot be decoded, and _write returns with the rest queued.   *)
WriteUndecodable ==
    /\ lpc = "write"
    /\ write_queue_[busy] # <<>>
    /\ write_queue_' = [write_queue_ EXCEPT ![busy] = Tail(@)]
    /\ WriteEnd
    /\ UNCHANGED <<storage, state_, last_access_, read_queue_, handle_,
                   loop, connect_req, reading, wake, server, history, fault,
                   victim>>

WriteDone ==
    /\ lpc = "write"
    /\ write_queue_[busy] = <<>>
    /\ WriteEnd
    /\ UNCHANGED <<storage, client, loop, connect_req, reading, wake,
                   server, history, fault, victim>>

-----------------------------------------------------------------------------
(* Loop::onConnect and Client::onConnect, with status 0 in time: the state *)
(* changes under the client's lock ...                                     *)
Client_onConnect(c) ==
    /\ lpc = "poll"
    /\ c \in connect_req
    /\ ~Locked(c)
    /\ handle_[c] = "init"
    /\ state_[c] = "CONNECTING"
    /\ connect_req' = connect_req \ {c}
    /\ state_' = [state_ EXCEPT ![c] = "CONNECTED"]
    /\ Signal(c)
    /\ lpc' = "onconnect"
    /\ busy' = c
    /\ UNCHANGED <<storage, last_access_, read_queue_, write_queue_,
                   handle_, loop, reading, wake, pc, cur, got, history,
                   fault, victim>>

(* ... and after unlock() the access time is set and reading starts ...    *)
ReadStart ==
    /\ lpc = "onconnect"
    /\ last_access_' = last_access_ \cup {busy}
    /\ reading' = reading \cup {busy}
    /\ lpc' = "poll"
    /\ busy' = NoClient
    /\ UNCHANGED <<storage, state_, read_queue_, write_queue_, handle_,
                   loop, connect_req, wake, server, history, fault, victim>>

(* ... or it is refused, too late, or cancelled in the closing phase.      *)
OnConnectFails(c) ==
    /\ c \in connect_req
    /\ ~Locked(c)
    /\ \/ lpc = "poll" /\ handle_[c] = "init"
       \/ lpc = "closing" /\ handle_[c] = "closing"
    /\ connect_req' = connect_req \ {c}
    /\ state_' = [state_ EXCEPT ![c] = "FAIL_CONNECT"]
    /\ Signal(c)
    /\ UNCHANGED <<storage, last_access_, read_queue_, write_queue_,
                   handle_, loop, reading, wake, lpc, busy, pc, cur, got,
                   history, fault, victim>>

(* Loop::onRead and Client::onRead: a chunk arrives, the state is checked  *)
(* under the client's lock (in any other state the chunk is ignored) ...   *)
Client_onRead(c) ==
    /\ lpc = "poll"
    /\ c \in reading
    /\ ~Locked(c)
    /\ state_[c] = "CONNECTED"
    /\ received[c] < MaxChunks
    /\ lpc' = "onread"
    /\ busy' = c
    /\ UNCHANGED <<storage, client, loop, connect_req, reading, wake,
                   server, history, fault, victim>>

(* ... and after unlock() a copy is queued, unless malloc fails. *)
ReadProduce ==
    /\ lpc = "onread"
    /\ received' = [received EXCEPT ![busy] = @ + 1]
    /\ \/ /\ read_queue_' = [read_queue_ EXCEPT ![busy] = Append(@, received[busy] + 1)]
          /\ UNCHANGED lost
       \/ ResourceFaults /\ lost' = lost \cup {busy} /\ UNCHANGED read_queue_
    /\ lpc' = "poll"
    /\ busy' = NoClient
    /\ UNCHANGED <<storage, state_, last_access_, write_queue_, handle_,
                   loop, connect_req, reading, wake, server, created,
                   opened, timedout, posted, delivered, forwarded, uninit,
                   fault, victim>>

(* The backend closes the connection or it breaks: siz < 0. *)
OnReadError(c) ==
    /\ lpc = "poll"
    /\ c \in reading
    /\ ~Locked(c)
    /\ state_[c] = "CONNECTED"
    /\ state_' = [state_ EXCEPT ![c] = "DISCONNECTING"]
    /\ Client__disconnect({c})
    /\ UNCHANGED <<storage, last_access_, read_queue_, write_queue_, loop,
                   connect_req, wake, lpc, busy, server, history>>

-----------------------------------------------------------------------------
(* The close callback, Loop::onDisconnect. *)
Loop_onDisconnect(c) ==
    /\ lpc = "closing"
    /\ c \in client_map_
    /\ handle_[c] = "closing"
    /\ c \notin connect_req
    /\ lock_ = "none"
    /\ ClientStorage_destroy(c)
    /\ UNCHANGED <<lock_, state_, last_access_, handle_, loop, uv, server,
                   history, fault, victim>>
=============================================================================
