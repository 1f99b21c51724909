---------------------------- MODULE ServerThread ----------------------------
(***************************************************************************)
(* The FastCGI thread: Server::run takes one HTTP request at a time and    *)
(* serves it under ClientStorage's lock.  A request that is refused before *)
(* it changes anything (unknown command, no such session, no backend, no   *)
(* room, an origin that is not allowed) is no step.  A step ends where the *)
(* libuv thread can see or do something in between: at a Client lock, a    *)
(* queue operation, a wake-up, a wait.                                     *)
(***************************************************************************)
EXTENDS BridgeState

(* Mutated form of Respond: the body is not reset for the next request. *)
Mut_DataKept ==
    /\ lock_' = "none"
    /\ pc' = "idle"
    /\ cur' = NoClient
    /\ signalled' = FALSE
    /\ got' = got

(* client_storage_.unlock() and the HTTP response. *)
Respond ==
    /\ lock_' = "none"
    /\ pc' = "idle"
    /\ cur' = NoClient
    /\ signalled' = FALSE
    /\ got' = <<>>

(* Mutated form of Deliver: each chunk overwrites the one before it. *)
Mut_LastChunkOnly(data) ==
    /\ delivered' = [delivered EXCEPT ![cur] =
                        IF data = <<>> THEN @ ELSE Append(@, data[Len(data)])]
    /\ Respond

(* The body of a poll's response. *)
Deliver(data) ==
    /\ delivered' = [delivered EXCEPT ![cur] = @ \o data]
    /\ Respond

(* client_storage_.lock() and get(id), for a session a browser knows. *)
Get(c) ==
    /\ pc = "idle"
    /\ lock_ = "none"
    /\ c \in opened \cap client_map_
    /\ lock_' = "main"
    /\ cur' = c

-----------------------------------------------------------------------------
(* Mutated forms of the operations below. *)

(* create() lets one client too many in. *)
Mut_OneTooMany(c) ==
    /\ Cardinality(client_map_) <= max_clients_
    /\ c \notin created
    /\ client_map_' = client_map_ \cup {c}
    /\ created' = created \cup {c}

(* A connect() that timed out waits again. *)
Mut_TimeoutWaitsAgain ==
    /\ pc = "wait"
    /\ state_[cur] \notin {"CONNECTED", "FAIL_CONNECT"}
    /\ timedout' = timedout \cup {cur}
    /\ UNCHANGED <<storage, client, loop, uv, server, created, opened,
                   received, posted, delivered, forwarded, lost, uninit,
                   fault, victim>>

(* disconnect() does not look at the state. *)
Mut_DisconnectAgain ==
    /\ pc = "disconnect"
    /\ state_' = [state_ EXCEPT ![cur] = "DISCONNECTING"]
    /\ pc' = "exec_disconnect"
    /\ UNCHANGED <<storage, last_access_, read_queue_, write_queue_,
                   handle_, loop, uv, cur, signalled, got, history, fault,
                   victim>>

(* The storage lock is released before the request is queued. *)
Mut_UnlockThenExecute ==
    /\ pc = "disconnect"
    /\ state_[cur] \notin {"DISCONNECTING", "DISCONNECTED", "FAIL_CONNECT"}
    /\ state_' = [state_ EXCEPT ![cur] = "DISCONNECTING"]
    /\ pc' = "exec_disconnect"
    /\ lock_' = "none"
    /\ UNCHANGED <<client_map_, last_access_, read_queue_, write_queue_,
                   handle_, loop, uv, cur, signalled, got, history, fault,
                   victim>>

(* execute() does not wake the libuv thread. *)
Mut_NoAsyncSend ==
    /\ pc = "send"
    /\ Respond
    /\ UNCHANGED <<client_map_, client, loop, uv, history, fault, victim>>

(* A request is queued only for an empty queue: uv_async_send coalesces. *)
Mut_QueuedOnce(from, t) ==
    /\ pc = from
    /\ request_queue_' = IF request_queue_ = <<>> THEN <<request_t(t, cur)>>
                         ELSE request_queue_
    /\ pc' = "send"
    /\ UNCHANGED <<storage, client, async_, uv, cur, signalled, got,
                   history, fault, victim>>

-----------------------------------------------------------------------------
(* ClientStorage::create, for a session id that was never used. *)
ClientStorage_create(c) ==
    /\ Cardinality(client_map_) < max_clients_
    /\ c \notin created
    /\ client_map_' = client_map_ \cup {c}
    /\ created' = created \cup {c}

(* Client::connect: lock(), and execute(request), which queues ... *)
Client_connect(c) ==
    /\ request_queue_' = Append(request_queue_, request_t("CONNECT", c))
    /\ pc' = "send_connect"

(* GET c=connect *)
Server_onConnect(c) ==
    /\ pc = "idle"
    /\ lock_ = "none"
    /\ lock_' = "main"
    /\ cur' = c
    /\ ClientStorage_create(c)
    /\ Client_connect(c)
    /\ UNCHANGED <<client, async_, uv, signalled, got, opened, timedout, received,
                   posted, delivered, forwarded, lost, uninit, fault, victim>>

(* ... and wakes the libuv thread; state_ = CONNECTING comes after that;   *)
ConnectSend ==
    /\ pc = "send_connect"
    /\ async_' = TRUE
    /\ pc' = "connecting"
    /\ UNCHANGED <<storage, client, request_queue_, uv, cur, signalled, got,
                   history, fault, victim>>

SetConnecting ==
    /\ pc = "connecting"
    /\ state_' = [state_ EXCEPT ![cur] = "CONNECTING"]
    /\ pc' = "enter_wait"
    /\ UNCHANGED <<storage, last_access_, read_queue_, write_queue_, handle_, loop,
                   uv, cur, signalled, got, history, fault, victim>>

(* and only pthread_cond_timedwait gives the client's lock back. *)
WaitBegin ==
    /\ pc = "enter_wait"
    /\ pc' = "wait"
    /\ UNCHANGED <<storage, client, loop, uv, cur, signalled, got, history, fault,
                   victim>>

(* pthread_cond_timedwait returns, signalled or not, and finds CONNECTED.  *)
ConnectSucceeds ==
    /\ pc = "wait"
    /\ state_[cur] = "CONNECTED"
    /\ opened' = opened \cup {cur}
    /\ Respond
    /\ UNCHANGED <<client_map_, client, loop, uv, created, timedout,
                   received, posted, delivered, forwarded, lost, uninit,
                   fault, victim>>

ConnectFails ==
    /\ pc = "wait"
    /\ state_[cur] = "FAIL_CONNECT"
    /\ Respond
    /\ UNCHANGED <<client_map_, client, loop, uv, history, fault, victim>>

(* err = ETIMEDOUT in any other state: unlock(), then disconnect(). *)
ConnectTimesOut ==
    /\ pc = "wait"
    /\ state_[cur] \notin {"CONNECTED", "FAIL_CONNECT"}
    /\ timedout' = timedout \cup {cur}
    /\ signalled' = FALSE
    /\ pc' = "disconnect"
    /\ UNCHANGED <<storage, client, loop, uv, cur, got, created, opened,
                   received, posted, delivered, forwarded, lost, uninit,
                   fault, victim>>

(* A signal that came with neither state: goto again. *)
WaitAgain ==
    /\ pc = "wait"
    /\ signalled
    /\ state_[cur] \notin {"CONNECTED", "FAIL_CONNECT"}
    /\ signalled' = FALSE
    /\ UNCHANGED <<storage, client, loop, uv, pc, cur, got, history, fault,
                   victim>>

-----------------------------------------------------------------------------
(* GET c=disconnect *)
Server_onDisconnect(c) ==
    /\ Get(c)
    /\ pc' = "disconnect"
    /\ UNCHANGED <<client_map_, client, loop, uv, signalled, got, history,
                   fault, victim>>

(* Client::disconnect, the critical section: nothing to do ... *)
DisconnectReturns ==
    /\ pc = "disconnect"
    /\ state_[cur] \in {"DISCONNECTING", "DISCONNECTED", "FAIL_CONNECT"}
    /\ Respond
    /\ UNCHANGED <<client_map_, client, loop, uv, history, fault, victim>>

(* ... or the state changes, and after unlock() the request is queued. *)
Client_disconnect ==
    /\ pc = "disconnect"
    /\ state_[cur] \notin {"DISCONNECTING", "DISCONNECTED", "FAIL_CONNECT"}
    /\ state_' = [state_ EXCEPT ![cur] = "DISCONNECTING"]
    /\ pc' = "exec_disconnect"
    /\ UNCHANGED <<storage, last_access_, read_queue_, write_queue_,
                   handle_, loop, uv, cur, signalled, got, history, fault,
                   victim>>

(* Loop::execute: request_queue_.produce(request) ... *)
Execute(from, t) ==
    /\ pc = from
    /\ request_queue_' = Append(request_queue_, request_t(t, cur))
    /\ pc' = "send"
    /\ UNCHANGED <<storage, client, async_, uv, cur, signalled, got,
                   history, fault, victim>>

(* ... and uv_async_send(&async_), the last thing the handler does. *)
AsyncSend ==
    /\ pc = "send"
    /\ async_' = TRUE
    /\ Respond
    /\ UNCHANGED <<client_map_, client, request_queue_, uv, history, fault,
                   victim>>

-----------------------------------------------------------------------------
(* POST: Client::write refuses when the session is going away, and onPost  *)
(* answers 204 all the same, so that only an accepted message is a step.   *)
Server_onPost(c) ==
    /\ Get(c)
    /\ posted[c] < MaxPosts
    /\ state_[c] \notin {"DISCONNECTING", "DISCONNECTED"}
    /\ pc' = "write"
    /\ UNCHANGED <<client_map_, client, loop, uv, signalled, got, history,
                   fault, victim>>

(* write_queue_.produce(data), outside the client's lock. *)
WriteProduce ==
    /\ pc = "write"
    /\ posted' = [posted EXCEPT ![cur] = @ + 1]
    /\ write_queue_' = [write_queue_ EXCEPT ![cur] = Append(@, posted[cur] + 1)]
    /\ pc' = "exec_write"
    /\ UNCHANGED <<storage, state_, last_access_, read_queue_, handle_,
                   loop, uv, cur, signalled, got, created, opened, timedout,
                   received, delivered, forwarded, lost, uninit, fault,
                   victim>>

-----------------------------------------------------------------------------
(* GET c=poll *)
Server_onPoll(c) ==
    /\ Get(c)
    /\ pc' = "read"
    /\ UNCHANGED <<client_map_, client, loop, uv, signalled, got, history,
                   fault, victim>>

(* Client::read, the critical section: the session is gone, and so is what *)
(* this poll had already taken from the queue (410) ...                    *)
ReadGone ==
    /\ pc = "read"
    /\ state_[cur] \notin {"CONNECTING", "CONNECTED"}
    /\ Respond
    /\ UNCHANGED <<client_map_, client, loop, uv, history, fault, victim>>

(* ... or it is not, and the queue is read after unlock(). *)
ReadChecked ==
    /\ pc = "read"
    /\ state_[cur] \in {"CONNECTING", "CONNECTED"}
    /\ pc' = "consume"
    /\ UNCHANGED <<storage, client, loop, uv, cur, signalled, got, history,
                   fault, victim>>

(* read_queue_.consume(buf) returns false: the body is what was read. *)
ReadEmpty ==
    /\ pc = "consume"
    /\ read_queue_[cur] = <<>>
    /\ last_access_' = last_access_ \cup {cur}
    /\ Deliver(got)
    /\ UNCHANGED <<client_map_, state_, read_queue_, write_queue_, handle_,
                   loop, uv, created, opened, timedout, received, posted,
                   forwarded, lost, uninit, fault, victim>>

(* It returns a chunk, which is appended; the loop ends at the threshold.  *)
ReadChunk ==
    /\ pc = "consume"
    /\ read_queue_[cur] # <<>>
    /\ last_access_' = last_access_ \cup {cur}
    /\ read_queue_' = [read_queue_ EXCEPT ![cur] = Tail(@)]
    /\ LET data == Append(got, Head(read_queue_[cur])) IN
          \/ /\ Len(data) < DATA_THRESHOLD
             /\ got' = data
             /\ pc' = "read"
             /\ UNCHANGED <<lock_, cur, signalled, delivered>>
          \/ /\ Len(data) >= DATA_THRESHOLD
             /\ Deliver(data)
    /\ UNCHANGED <<client_map_, state_, write_queue_, handle_, loop, uv,
                   created, opened, timedout, received, posted, forwarded,
                   lost, uninit, fault, victim>>

(* malloc or realloc fails for the chunk, or base64 encoding for the body: *)
(* 500, and everything this poll took from the queue is lost.              *)
ReadNoMemory ==
    /\ ResourceFaults
    /\ pc = "consume"
    /\ read_queue_[cur] # <<>> \/ got # <<>>
    /\ last_access_' = last_access_ \cup {cur}
    /\ read_queue_' = [read_queue_ EXCEPT ![cur] =
                          IF @ = <<>> THEN <<>> ELSE Tail(@)]
    /\ lost' = lost \cup {cur}
    /\ Respond
    /\ UNCHANGED <<client_map_, state_, write_queue_, handle_, loop, uv,
                   created, opened, timedout, received, posted, delivered,
                   forwarded, uninit, fault, victim>>
=============================================================================
